--------------------------- MODULE MCSendOutreach ---------------------------
(***************************************************************************)
(* SendOutreach for TLC.  The actors and the keys are interchangeable.     *)
(***************************************************************************)
EXTENDS SendOutreach, TLC

Symmetry == Permutations(Callers) \cup Permutations(Keys)

\* No process dies and the counter was already reset today: what is left to go
\* wrong is the order of the callers' steps.
CalmNext ==
  \/ \E p \in Callers : Step(p) \/ \E k \in Keys : Start(p, k)
  \/ Environment

CalmSpec == Init /\ account.fresh /\ [][CalmNext]_vars
=============================================================================
