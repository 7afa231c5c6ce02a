------------------------- MODULE MCSequenceExecutor -------------------------
(***************************************************************************)
(* SequenceExecutor for TLC: two ticks' runs on an enrolment in a sequence *)
(* of an e-mail, a step of another channel and a second e-mail.            *)
(***************************************************************************)
EXTENDS SequenceExecutor, TLC

Symmetry == Permutations(Runs) \cup Permutations(Users)
=============================================================================
