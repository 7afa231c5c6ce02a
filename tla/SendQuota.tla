----------------------------- MODULE SendQuota -----------------------------
(***************************************************************************)
(* What the organisation's daily e-mail limit promises, without saying how *)
(* messages, transactions or workers keep it: a set of slots, never more   *)
(* than Limit of them held, that are taken one at a time, given back in    *)
(* any number, and all freed by the change of day.                         *)
(***************************************************************************)
EXTENDS Naturals, FiniteSets

CONSTANTS Slots,   \* what can hold a slot (an idempotency key)
          Limit    \* organizationSettings.dailyEmailLimit

VARIABLE held      \* the slots held today

Init == held = {}

\* A slot is granted only while there is room for it.
Take(s) == /\ s \notin held
           /\ Cardinality(held) < Limit
           /\ held' = held \cup {s}

\* Slots come back (a failed send) or expire (a new day).
GiveBack == /\ held' \in SUBSET held
            /\ held' # held

Next == GiveBack \/ \E s \in Slots : Take(s)

Spec == Init /\ [][Next]_held
=============================================================================
