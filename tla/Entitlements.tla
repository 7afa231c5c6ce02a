---------------------------- MODULE Entitlements ----------------------------
(***************************************************************************)
(* Use of the plan's limits: EntitlementsService.consume and the seat       *)
(* check, called by every metered operation (mails, AI calls, enrichment)   *)
(* and before every resource that takes a seat.  A call looks the           *)
(* subscription up, counts what was used, and only then increments the      *)
(* counter or creates the resource; other calls get in between.             *)
(*                                                                         *)
(* The subscription itself is the environment's: it may change at any       *)
(* time (module Billing models how it does).                                *)
(***************************************************************************)
EXTENDS Integers, FiniteSets

CONSTANTS
  Callers,   \* requests and jobs at work at the same time
  Catalogue, \* the plans there are
  Limit,     \* limitValue of the metered feature, by plan; 0 stands for a
             \* feature that the plan does not have
  Seats,     \* limitValue of the seat feature, by plan
  Enforced,  \* BILLING_ENFORCEMENT_ENABLED
  MaxFree    \* bound: exempt calls begun in a month, paused holders of a
             \* seat at a time, and how many of them become ACTIVE again

ASSUME EntitlementsAssumption ==
  /\ IsFiniteSet(Callers) /\ Callers # {}
  /\ Limit \in [Catalogue -> Nat] /\ Seats \in [Catalogue -> Nat]
  /\ Enforced \in BOOLEAN /\ MaxFree \in Nat

VARIABLES
  plan,      \* the organisation's plan
  barred,    \* the subscription's status is one that is refused everything
  held,      \* history: the plans the organisation has had
  used,      \* UsageRecord.quantity of the month
  exempted,  \* history: how much of it was used by exempt calls
  seats,     \* resources that count for the seat feature (ACTIVE ones)
  parked,    \* those that exist but do not count (PAUSED mailboxes)
  regained,  \* history: those that were made ACTIVE again
  call       \* the state of every caller

usage     == <<used, exempted, seats, parked, regained, call>>
limitVars == <<plan, barred, held, usage>>

Idle == [at |-> "idle", kind |-> "meter", limit |-> 0, exempt |-> FALSE]

CallType == [at : {"idle", "count", "add"}, kind : {"meter", "seat"},
             limit : Nat, exempt : BOOLEAN]

LimitsTypeOK ==
  /\ plan \in Catalogue /\ barred \in BOOLEAN /\ held \subseteq Catalogue /\ plan \in held
  /\ used \in Nat /\ exempted \in Nat
  /\ seats \in Nat /\ parked \in Nat /\ regained \in Nat
  /\ call \in [Callers -> CallType]

UsageInit ==
  /\ used = 0 /\ exempted = 0
  /\ seats = 0 /\ parked = 0 /\ regained = 0
  /\ call = [c \in Callers |-> Idle]

LimitsInit ==
  /\ plan \in Catalogue /\ barred \in BOOLEAN /\ held = {plan}
  /\ UsageInit

-----------------------------------------------------------------------------
(* check: the subscription and its plan's features are read. An exempt      *)
(* purpose (mail from a customer) is let through before anything is         *)
(* counted; an inactive subscription is refused, unless nothing is enforced *)
Look(c, kind, exempt) ==
  /\ call[c].at = "idle"
  /\ exempt => kind = "meter" /\ exempted < MaxFree
  /\ ~exempt /\ barred => ~Enforced
  /\ call' = [call EXCEPT ![c] =
       [at     |-> IF exempt \/ barred THEN "add" ELSE "count",
        kind   |-> kind,
        limit  |-> IF kind = "meter" THEN Limit[plan] ELSE Seats[plan],
        exempt |-> exempt]]
  /\ UNCHANGED <<used, exempted, seats, parked, regained>>

Taken(kind) == IF kind = "meter" THEN used ELSE seats

(* as if the comparison let the limit itself through                        *)
CountLoose(c) ==
  /\ call[c].at = "count"
  /\ call' = [call EXCEPT ![c] =
       IF Taken(call[c].kind) <= call[c].limit \/ ~Enforced
       THEN [call[c] EXCEPT !.at = "add"] ELSE Idle]
  /\ UNCHANGED <<used, exempted, seats, parked, regained>>

(* check, second half: what was used is read and compared                   *)
Count(c) ==
  /\ call[c].at = "count"
  /\ call' = [call EXCEPT ![c] =
       IF Taken(call[c].kind) + 1 <= call[c].limit \/ ~Enforced
       THEN [call[c] EXCEPT !.at = "add"] ELSE Idle]
  /\ UNCHANGED <<used, exempted, seats, parked, regained>>

(* consume increments the month's record, whichever month it is by now      *)
Increment(c) ==
  /\ call[c].at = "add" /\ call[c].kind = "meter"
  /\ used' = used + 1
  /\ exempted' = IF call[c].exempt THEN exempted + 1 ELSE exempted
  /\ call' = [call EXCEPT ![c] = Idle]
  /\ UNCHANGED <<seats, parked, regained>>

(* the caller creates what it asked a seat for; a mailbox whose DNS is not  *)
(* in order is created PAUSED                                               *)
Create(c) ==
  /\ call[c].at = "add" /\ call[c].kind = "seat"
  /\ \/ seats' = seats + 1 /\ parked' = parked
     \/ parked < MaxFree /\ seats' = seats /\ parked' = parked + 1
  /\ call' = [call EXCEPT ![c] = Idle]
  /\ UNCHANGED <<used, exempted, regained>>

(* an exception or a crash on the way                                       *)
GiveUp(c) ==
  /\ call[c].at # "idle"
  /\ call' = [call EXCEPT ![c] = Idle]
  /\ UNCHANGED <<used, exempted, seats, parked, regained>>

(* setStatus and refreshDns change a mailbox's status without a seat check  *)
Pause ==
  /\ seats > 0 /\ parked < MaxFree /\ seats' = seats - 1 /\ parked' = parked + 1
  /\ UNCHANGED <<used, exempted, regained, call>>

Activate ==
  /\ parked > 0 /\ regained < MaxFree
  /\ parked' = parked - 1 /\ seats' = seats + 1 /\ regained' = regained + 1
  /\ UNCHANGED <<used, exempted, call>>

(* periodStart() is the first of the month: a new month, a new record       *)
NewMonth ==
  /\ used' = 0 /\ exempted' = 0
  /\ UNCHANGED <<seats, parked, regained, call>>

Use ==
  \/ \E c \in Callers :
       \/ \E kind \in {"meter", "seat"}, exempt \in BOOLEAN : Look(c, kind, exempt)
       \/ Count(c) \/ Increment(c) \/ Create(c) \/ GiveUp(c)
  \/ Pause \/ Activate \/ NewMonth

(* the environment: the plan and the status of the subscription change      *)
Change ==
  /\ plan' \in Catalogue /\ barred' \in BOOLEAN /\ held' = held \cup {plan'}

LimitsNext == \/ Use /\ UNCHANGED <<plan, barred, held>>
              \/ Change /\ UNCHANGED usage

LimitsSpec == LimitsInit /\ [][LimitsNext]_limitVars

-----------------------------------------------------------------------------
Others == Cardinality(Callers) - 1

(* The limit is checked before it is used, not while: the month's usage     *)
(* passes the limit of a plan the organisation has had by what the other    *)
(* callers were about to use, at most, and by what is exempt - whatever     *)
(* changes of plan, months and exceptions come in between.                  *)
UsageOvershootBounded ==
  Enforced => \/ used <= exempted
              \/ \E p \in held : used <= Limit[p] + Others + exempted

(* The same for seats, where every mailbox that is made ACTIVE again adds   *)
(* one that nobody checked.                                                 *)
SeatOvershootBounded ==
  Enforced => \/ seats <= regained
              \/ \E p \in held : seats <= Seats[p] + Others + regained
=============================================================================
