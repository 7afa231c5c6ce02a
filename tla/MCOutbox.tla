------------------------------ MODULE MCOutbox ------------------------------
(***************************************************************************)
(* Outbox for TLC: two ticks at work at the same time on one enrolment.    *)
(***************************************************************************)
EXTENDS Outbox, TLC

Symmetry == Permutations(Workers)
=============================================================================
