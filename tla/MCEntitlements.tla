--------------------------- MODULE MCEntitlements ---------------------------
(* Two plans, of which the dearer allows one unit and one seat more.        *)
EXTENDS Entitlements, TLC

CONSTANTS free, pro

MCLimit == free :> 1 @@ pro :> 2
MCSeats == free :> 1 @@ pro :> 2
Symmetry == Permutations(Callers)
=============================================================================
