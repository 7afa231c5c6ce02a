----------------------------- MODULE MCAiReply -----------------------------
(***************************************************************************)
(* AiReply for TLC: two interchangeable workers on the replies to a         *)
(* conversation of two messages.                                            *)
(***************************************************************************)
EXTENDS AiReply, TLC

Symmetry == Permutations(Workers)
=============================================================================
