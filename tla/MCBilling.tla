----------------------------- MODULE MCBilling -----------------------------
(* The handlers of webhooks are alike.                                      *)
EXTENDS Billing, TLC

Symmetry == Permutations(Handlers) \cup Permutations(Subs)
=============================================================================
