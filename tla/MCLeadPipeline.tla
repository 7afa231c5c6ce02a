--------------------------- MODULE MCLeadPipeline ---------------------------
(***************************************************************************)
(* LeadPipeline for TLC: a query of two pages, the second of which shows a *)
(* company whose address is that of a company which was enriched before;   *)
(* two batches.                                                            *)
(***************************************************************************)
EXTENDS LeadPipeline, TLC

CONSTANTS c1, c2

MCFound  == <<{}, {c1}>>
MCEmails == [c \in Companies |-> Address]
MCOwner  == [a \in Address |-> c2]

Symmetry == Permutations(Runners) \cup Permutations(Crawlers) \cup Permutations(Batches)
=============================================================================
