---------------------------- MODULE MCPitchReview ----------------------------
(***************************************************************************)
(* PitchReview for TLC: two audits and two requests to approve, all alike.  *)
(***************************************************************************)
EXTENDS PitchReview, TLC

Symmetry == Permutations(Workers) \cup Permutations(Users)
=============================================================================
