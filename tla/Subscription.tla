---------------------------- MODULE Subscription ----------------------------
(***************************************************************************)
(* Billing and Entitlements together: EntitlementsService.check reads the   *)
(* row that BillingService writes.  What Entitlements calls its plan and    *)
(* whether it is barred are the row's plan and status.                      *)
(***************************************************************************)
EXTENDS Billing, Entitlements

serviceVars == <<vars, limitVars>>

(* The row's plan, and whether check refuses its status.                    *)
Shown == /\ plan = row.plan
         /\ barred = (row.status \in Blocked)

ServiceInit == Init /\ UsageInit /\ Shown /\ held = {plan}

(* A step of Billing is seen at once by every later check.                  *)
BillingStep ==
  /\ Next
  /\ plan' = row'.plan /\ barred' = (row'.status \in Blocked)
  /\ held' = held \cup {plan'}
  /\ UNCHANGED usage

UseStep == Use /\ UNCHANGED <<vars, plan, barred, held>>

ServiceNext == BillingStep \/ UseStep

ServiceSpec == ServiceInit /\ [][ServiceNext]_serviceVars
=============================================================================
