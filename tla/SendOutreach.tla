---------------------------- MODULE SendOutreach ----------------------------
(***************************************************************************)
(* InboxService.sendOutreach: the one path by which the sequence executor, *)
(* the outbox, the agent and the inbox send an e-mail through an account.  *)
(*                                                                         *)
(* One organisation and one of its e-mail accounts.  A call takes an       *)
(* idempotency key, looks for the message with that key, reserves a daily  *)
(* slot for it in a transaction under the organisation's advisory lock,    *)
(* consumes an entitlement, calls the provider and records the outcome,    *)
(* every await being a step of its own.  A call may be overtaken by        *)
(* another call with the same key, may die anywhere, and the provider may  *)
(* accept a message and still report an error.                             *)
(***************************************************************************)
EXTENDS Naturals, FiniteSets

CONSTANTS
  Callers,       \* concurrent executions of sendOutreach
  Keys,          \* idempotency keys
  OrgLimit,      \* organizationSettings.dailyEmailLimit
  AccountLimit,  \* emailAccount.dailyLimit
  MaxCalls,      \* bound: calls started in a behaviour
  MaxDays        \* bound: midnights in a behaviour

ASSUME SendAssumption ==
  /\ IsFiniteSet(Callers) /\ Callers # {}
  /\ IsFiniteSet(Keys)
  /\ OrgLimit \in Nat
  /\ AccountLimit \in Nat
  /\ MaxCalls \in Nat
  /\ MaxDays \in Nat

VARIABLES
  msg,           \* the Message row of each key: its status, and whether its
                 \* sentAt (createdAt while unsent) lies in the current UTC day
  sentEvents,    \* EmailEvent rows of type SENT of each key's message
  account,       \* the EmailAccount row
  blocked,       \* keys whose recipient assertCanSend refuses: suppressed, or
                 \* the organisation no longer active
  call,          \* the state of every caller
  calls, days,   \* what the bounds count
  delivered,     \* history: how often the provider accepted a key's message
  overlapped,    \* history: keys that had two calls in flight at once
  carried,       \* history: keys unsettled at some UTC midnight: their row
                 \* not SENT, or a call on them still running
  lost           \* history: keys accepted by the provider but not left SENT

rows    == <<msg, sentEvents, account, blocked>>
history == <<delivered, overlapped, carried, lost>>
bounds  == <<calls, days>>
vars    == <<rows, call, bounds, history>>

Statuses == {"NONE", "SCHEDULED", "SENT", "FAILED"}   \* NONE: no such row

Pcs == {"idle", "lookup", "check", "reserve", "consume", "send", "markSent",
        "event", "count", "increment", "finish", "fail", "markError"}

\* What the callers tell apart; ERROR is every other exception.
Results == {"none", "SENT", "RESUMED", "ORG_DAILY_LIMIT", "DUPLICATE", "ERROR"}

Messages == [status : Statuses, today : BOOLEAN]
Accounts == [active : BOOLEAN, sent : Nat, fresh : BOOLEAN]
Calls    == [pc : Pcs, key : Keys, found : BOOLEAN, active : BOOLEAN,
             fresh : BOOLEAN, result : Results]

TypeOK ==
  /\ msg \in [Keys -> Messages]
  /\ sentEvents \in [Keys -> Nat]
  /\ account \in Accounts
  /\ blocked \subseteq Keys
  /\ call \in [Callers -> Calls]
  /\ calls \in Nat /\ days \in Nat
  /\ delivered \in [Keys -> Nat]
  /\ overlapped \subseteq Keys /\ carried \subseteq Keys /\ lost \subseteq Keys

Init ==
  /\ msg = [k \in Keys |-> [status |-> "NONE", today |-> FALSE]]
  /\ sentEvents = [k \in Keys |-> 0]
  /\ \E b \in BOOLEAN : account = [active |-> TRUE, sent |-> 0, fresh |-> b]
  /\ blocked = {}
  /\ \E k \in Keys :   \* a caller's key means nothing before its first call
       call = [p \in Callers |-> [pc |-> "idle", key |-> k, found |-> FALSE,
                 active |-> FALSE, fresh |-> FALSE, result |-> "none"]]
  /\ calls = 0 /\ days = 0
  /\ delivered = [k \in Keys |-> 0]
  /\ overlapped = {} /\ carried = {} /\ lost = {}

-----------------------------------------------------------------------------
Key(p)      == call[p].key
At(p, pc)   == call[p].pc = pc
InFlight(p) == call[p].pc # "idle"

Goto(p, pc) == call' = [call EXCEPT ![p].pc = pc]
\* The call ends; what it had read is gone.
Return(p, outcome) ==
  call' = [call EXCEPT ![p] = [pc |-> "idle", key |-> Key(p), found |-> FALSE,
             active |-> FALSE, fresh |-> FALSE, result |-> outcome]]

\* ORG_DAILY_COUNT_STATUSES inside the current UTC day: what countOrgDailySends
\* counts.
Held == {k \in Keys : msg[k].status \in {"SCHEDULED", "SENT"} /\ msg[k].today}

\* Past the provider's acceptance.
AfterAccept == {"markSent", "event", "count", "increment", "finish"}

(***************************************************************************)
(* A call starts by reading the account row it will send from.             *)
(***************************************************************************)
Start(p, k) ==
  /\ ~InFlight(p)
  /\ calls < MaxCalls
  /\ calls' = calls + 1
  /\ call' = [call EXCEPT ![p] = [pc |-> "lookup", key |-> k, found |-> FALSE,
                                  active |-> account.active,
                                  fresh |-> account.fresh, result |-> "none"]]
  /\ overlapped' = IF \E q \in Callers \ {p} : InFlight(q) /\ Key(q) = k
                   THEN overlapped \cup {k} ELSE overlapped
  /\ UNCHANGED <<rows, days, delivered, carried, lost>>

\* Mutant: the resume test is missing, a message already SENT goes on.
LookupGoesOn(p) ==
  /\ At(p, "lookup")
  /\ call' = [call EXCEPT ![p].pc = "check", ![p].found = msg[Key(p)].status # "NONE"]
  /\ UNCHANGED <<rows, bounds, history>>

\* Mutant: a SCHEDULED row is resumed as if it had been sent.
LookupTrustsScheduled(p) ==
  /\ At(p, "lookup")
  /\ \/ /\ msg[Key(p)].status \in {"SCHEDULED", "SENT"}
        /\ Return(p, "RESUMED")
     \/ /\ msg[Key(p)].status \notin {"SCHEDULED", "SENT"}
        /\ call' = [call EXCEPT ![p].pc = "check",
                                ![p].found = msg[Key(p)].status # "NONE"]
  /\ UNCHANGED <<rows, bounds, history>>

\* The idempotent resume: a message already SENT is returned, not sent again.
Lookup(p) ==
  /\ At(p, "lookup")
  /\ \/ /\ msg[Key(p)].status = "SENT"
        /\ Return(p, "RESUMED")
     \/ /\ msg[Key(p)].status # "SENT"
        /\ call' = [call EXCEPT ![p].pc = "check",
                                ![p].found = msg[Key(p)].status # "NONE"]
  /\ UNCHANGED <<rows, bounds, history>>

-----------------------------------------------------------------------------
(***************************************************************************)
(* The transaction: assertCanSend, then the write.  The advisory lock      *)
(* keeps every other caller out from Check to Reserve; the statements of   *)
(* callers past their own transaction still fall in between.               *)
(***************************************************************************)
\* Mutant: the transaction takes no advisory lock.
NoLock == TRUE
LockFree == \A q \in Callers : ~At(q, "reserve")

\* resetDailyCounterIfNeeded decides on the snapshot read by Start, and writes
\* outside the transaction: the reset stays when the call is refused.
NeedsReset(p)    == ~call[p].fresh
CounterSeenBy(p) == IF NeedsReset(p) THEN 0 ELSE account.sent
ResetCounter(p)  == account' = IF NeedsReset(p)
                               THEN [account EXCEPT !.sent = 0, !.fresh = TRUE]
                               ELSE account

AccountFull(p) == CounterSeenBy(p) >= AccountLimit
Duplicate(p)   == msg[Key(p)].status # "NONE" /\ ~call[p].found
\* alreadyReserved: the row is taken to hold a slot, capacity is not re-checked.
AlreadyReserved(p) == call[p].found /\ msg[Key(p)].status \in {"SCHEDULED", "SENT"}
\* Mutant: SCHEDULED rows not counted.
OrgFullOfSent(p) ==
  ~AlreadyReserved(p) /\ Cardinality({k \in Held : msg[k].status = "SENT"}) >= OrgLimit
OrgFull(p)     == ~AlreadyReserved(p) /\ Cardinality(Held) >= OrgLimit

\* Refused before the counter is looked at.
RefuseEarly(p) ==
  /\ ~call[p].active \/ Key(p) \in blocked
  /\ Return(p, "ERROR")
  /\ UNCHANGED account

\* assertCanSend's checks, in its order.
Decide(p) ==
  /\ call[p].active /\ Key(p) \notin blocked
  /\ ResetCounter(p)
  /\ \/ AccountFull(p) /\ Return(p, "ERROR")
     \/ ~AccountFull(p) /\ ~account.active /\ Return(p, "ERROR")
     \/ /\ ~AccountFull(p) /\ account.active
        /\ \/ Duplicate(p) /\ Return(p, "DUPLICATE")
           \/ ~Duplicate(p) /\ OrgFull(p) /\ Return(p, "ORG_DAILY_LIMIT")
           \/ ~Duplicate(p) /\ ~OrgFull(p) /\ Goto(p, "reserve")

Check(p) ==
  /\ At(p, "check")
  /\ LockFree
  /\ RefuseEarly(p) \/ Decide(p)
  /\ UNCHANGED <<msg, sentEvents, blocked, bounds, history>>

\* The row becomes, or is created, SCHEDULED.  An existing row keeps its dates,
\* whatever its status has become since Lookup.
Reserve(p) ==
  /\ At(p, "reserve")
  /\ msg' = [msg EXCEPT ![Key(p)] =
               IF call[p].found THEN [@ EXCEPT !.status = "SCHEDULED"]
                                ELSE [status |-> "SCHEDULED", today |-> TRUE]]
  /\ Goto(p, "consume")
  /\ UNCHANGED <<sentEvents, account, blocked, bounds, history>>

\* The transaction rolls back (its time limit, a lost connection): the row is
\* read once more, and the call ends.
Abort(p) ==
  /\ call[p].pc \in {"check", "reserve"}
  /\ Return(p, IF msg[Key(p)].status = "SENT" THEN "RESUMED" ELSE "ERROR")
  /\ UNCHANGED <<rows, bounds, history>>

-----------------------------------------------------------------------------
\* The entitlement may be refused; the row is then left SCHEDULED.
Consume(p) ==
  /\ At(p, "consume")
  /\ Goto(p, "send") \/ Return(p, "ERROR")
  /\ UNCHANGED <<rows, bounds, history>>

\* The provider accepts, refuses, or accepts and reports an error all the same.
Provider(p) ==
  /\ At(p, "send")
  /\ \/ /\ Goto(p, "fail")
        /\ UNCHANGED <<delivered, lost>>
     \/ /\ delivered' = [delivered EXCEPT ![Key(p)] = @ + 1]
        /\ \/ Goto(p, "markSent") /\ UNCHANGED lost
           \/ Goto(p, "fail") /\ lost' = lost \cup {Key(p)}
  /\ UNCHANGED <<rows, bounds, overlapped, carried>>

MarkSent(p) ==
  /\ At(p, "markSent")
  /\ msg' = [msg EXCEPT ![Key(p)] = [status |-> "SENT", today |-> TRUE]]
  /\ Goto(p, "event")
  /\ UNCHANGED <<sentEvents, account, blocked, bounds, history>>

\* The conversation is touched and the SENT event written.
RecordEvent(p) ==
  /\ At(p, "event")
  /\ sentEvents' = [sentEvents EXCEPT ![Key(p)] = @ + 1]
  /\ Goto(p, "count")
  /\ UNCHANGED <<msg, account, blocked, bounds, history>>

\* Mutant: every send counts, the events are not looked at.
CountAlways(p) ==
  /\ At(p, "count")
  /\ Goto(p, "increment")
  /\ UNCHANGED <<rows, bounds, history>>

\* Only the writer of a message's first SENT event counts it.
CountEvents(p) ==
  /\ At(p, "count")
  /\ Goto(p, IF sentEvents[Key(p)] = 1 THEN "increment" ELSE "finish")
  /\ UNCHANGED <<rows, bounds, history>>

Increment(p) ==
  /\ At(p, "increment")
  /\ account' = [account EXCEPT !.sent = @ + 1]
  /\ Goto(p, "finish")
  /\ UNCHANGED <<msg, sentEvents, blocked, bounds, history>>

\* The lead's conversation entry is written, and the call returns.
Finish(p) ==
  /\ At(p, "finish")
  /\ Return(p, "SENT")
  /\ UNCHANGED <<rows, bounds, history>>

\* Any write after the provider's answer may throw into the catch block.
Throw(p) ==
  /\ call[p].pc \in AfterAccept
  /\ Goto(p, "fail")
  /\ lost' = lost \cup {Key(p)}
  /\ UNCHANGED <<rows, bounds, delivered, overlapped, carried>>

\* The catch block marks the row FAILED, whatever it is by now ...
Fail(p) ==
  /\ At(p, "fail")
  /\ msg' = [msg EXCEPT ![Key(p)].status = "FAILED"]
  /\ Goto(p, "markError")
  /\ UNCHANGED <<sentEvents, account, blocked, bounds, history>>

\* ... and the account in error, then rethrows.
MarkError(p) ==
  /\ At(p, "markError")
  /\ account' = [account EXCEPT !.active = FALSE]
  /\ Return(p, "ERROR")
  /\ UNCHANGED <<msg, sentEvents, blocked, bounds, history>>

\* A write of the catch block itself may throw.
FailThrows(p) ==
  /\ call[p].pc \in {"fail", "markError"}
  /\ Return(p, "ERROR")
  /\ UNCHANGED <<rows, bounds, history>>

\* The process dies: nothing runs for this call any more.
Crash(p) ==
  /\ InFlight(p)
  /\ Return(p, "none")
  /\ lost' = IF At(p, "markSent") THEN lost \cup {Key(p)} ELSE lost
  /\ UNCHANGED <<rows, bounds, delivered, overlapped, carried>>

-----------------------------------------------------------------------------
\* emailAccountService.markSynced, or the user reconnecting the account.
Reconnect ==
  /\ ~account.active
  /\ account' = [account EXCEPT !.active = TRUE]
  /\ UNCHANGED <<msg, sentEvents, blocked, call, bounds, history>>

\* emailSafetyService.suppress, or the organisation being deactivated.
Block(k) ==
  /\ k \notin blocked
  /\ blocked' = blocked \cup {k}
  /\ UNCHANGED <<msg, sentEvents, account, call, bounds, history>>

Unsettled(k) == \/ msg[k].status \in {"SCHEDULED", "FAILED"}
                \/ msg[k].status = "SENT" /\ \E p \in Callers : InFlight(p) /\ Key(p) = k

\* Midnight, UTC (startOfUtcDay): the organisation's window starts afresh.
NewUtcDay ==
  /\ days < MaxDays
  /\ days' = days + 1
  /\ msg' = [k \in Keys |-> [msg[k] EXCEPT !.today = FALSE]]
  /\ carried' = carried \cup {k \in Keys : Unsettled(k)}
  /\ UNCHANGED <<sentEvents, account, blocked, call, calls, delivered, overlapped, lost>>

\* Midnight, server time (toDateString): every resetAt, also the snapshots the
\* callers hold, is now a date of the past.
NewLocalDay ==
  /\ days < MaxDays
  /\ days' = days + 1
  /\ account' = [account EXCEPT !.fresh = FALSE]
  /\ call' = [p \in Callers |-> [call[p] EXCEPT !.fresh = FALSE]]
  /\ UNCHANGED <<msg, sentEvents, blocked, calls, history>>

Step(p) ==
  \/ Lookup(p) \/ Check(p) \/ Reserve(p) \/ Abort(p) \/ Consume(p)
  \/ Provider(p) \/ MarkSent(p) \/ RecordEvent(p) \/ CountEvents(p)
  \/ Increment(p) \/ Finish(p) \/ Throw(p)
  \/ Fail(p) \/ MarkError(p) \/ FailThrows(p)

Environment == Reconnect \/ NewUtcDay \/ NewLocalDay \/ \E k \in Keys : Block(k)

Next ==
  \/ \E p \in Callers : Step(p) \/ Crash(p) \/ \E k \in Keys : Start(p, k)
  \/ Environment

Spec == Init /\ [][Next]_vars

-----------------------------------------------------------------------------
(* Properties *)

\* Keys about which the reservation protocol promises something: no two calls
\* with the key ran at once and it was never unsettled over a midnight.
Regular == Keys \ (overlapped \cup carried)

\* What the proofs of the two promises below rest on.  The lock holder is alone,
\* a key that never overlapped has one call, and that call's progress and its
\* row agree; a regular row that is not settled was dated today.
LockHolderAlone ==
  \A p, q \in Callers : At(p, "reserve") /\ At(q, "reserve") => p = q

OneCallPerKey ==
  \A p, q \in Callers :
    InFlight(p) /\ InFlight(q) /\ Key(p) = Key(q) /\ Key(p) \notin overlapped => p = q

RowAgrees(p) ==
  /\ call[p].pc \in {"check", "reserve"} =>
       /\ msg[Key(p)].status # "SENT"
       /\ call[p].found <=> msg[Key(p)].status # "NONE"
  /\ call[p].pc \in {"consume", "send", "markSent"} => msg[Key(p)].status = "SCHEDULED"
  /\ call[p].pc \in {"event", "count", "increment", "finish"} => msg[Key(p)].status = "SENT"
  /\ At(p, "fail") => msg[Key(p)].status \in {"SCHEDULED", "SENT"}
  /\ /\ call[p].pc \in AfterAccept \cup {"consume", "send", "fail"}
     /\ Key(p) \in Regular
     => msg[Key(p)].today
RowsAgree == \A p \in Callers : InFlight(p) /\ Key(p) \notin overlapped => RowAgrees(p)

UnsettledIsToday ==
  \A k \in Regular : msg[k].status \in {"SCHEDULED", "FAILED"} => msg[k].today

\* Between Check and Reserve the room that Check saw is still there.
RoomReserved ==
  \A p \in Callers :
    At(p, "reserve") /\ Key(p) \in Regular \ Held => Cardinality(Held \cap Regular) < OrgLimit

QuotaInv == /\ LockHolderAlone /\ OneCallPerKey /\ RowsAgree
            /\ UnsettledIsToday /\ RoomReserved

\* The organisation's limit: of the messages that hold a slot today, those with
\* an undisturbed life never outnumber dailyEmailLimit, however many callers
\* check and reserve at once (assertOrgDailyLimit under the advisory lock).
RegularWithinLimit == Cardinality(Held \cap Regular) <= OrgLimit

\* The same promise as a refinement: seen through the regular keys, sendOutreach
\* is a quota that grants slots one by one while there is room.
Quota == INSTANCE SendQuota WITH Slots <- Keys, Limit <- OrgLimit,
                                 held <- Held \cap Regular
ImplementsQuota == Quota!Spec

\* What the callers of sendOutreach see of it: the stages of a call.
Stage(pc) ==
  CASE pc = "idle"   -> "idle"
    [] pc = "lookup" -> "begun"
    [] pc \in {"check", "reserve"} -> "looked"
    [] pc \in {"consume", "send"} -> "reserved"
    [] pc = "markSent" -> "accepted"
    [] pc \in {"event", "count", "increment", "finish"} -> "recorded"
    [] pc = "fail" -> "failing"
    [] pc = "markError" -> "failed"

SeenMail == [k \in Keys |-> msg[k].status]
SeenCall == [p \in Callers |-> [at   |-> Stage(call[p].pc),
                               key  |-> IF InFlight(p) THEN Key(p) ELSE "none",
                               knew |-> call[p].found, got |-> call[p].result]]

\* sendOutreach keeps the contract of module Outreach, on which the sequence
\* executor is built: every stage of a call, its answers and its crashes.
Contract == INSTANCE Outreach WITH
  mail <- SeenMail, accepted <- delivered, call <- SeenCall, NoKey <- "none"
ImplementsOutreach == Contract!Spec

\* A recipient gets a message twice only if two calls with its key overlapped,
\* or if the record of an accepted message was lost (a crash, a failed write or
\* an error reported by the provider between acceptance and SENT).
DuplicateNeedsCause ==
  \A k \in Keys : delivered[k] >= 2 => k \in overlapped \cup lost

\* Nobody is told that a message went out which the provider never accepted:
\* not the row, nor the outcome of a call that sent or resumed it.
SentWasDelivered ==
  /\ \A k \in Keys : msg[k].status = "SENT" => delivered[k] >= 1
  /\ \A p \in Callers : call[p].result \in {"SENT", "RESUMED"} => delivered[Key(p)] >= 1

\* Retries never count a message twice against the account: its counter is at
\* most the number of messages with a SENT event (the "once per message" test
\* on the event count).
NeverDoubleCounts ==
  account.sent <= Cardinality({k \in Keys : sentEvents[k] >= 1})

\* The account's limit is checked when nothing is reserved, so calls that passed
\* the check together overshoot it, by one per call at most.
AccountOvershootBounded ==
  account.sent < AccountLimit + Cardinality(Callers)

\* Both sides of the account's counter: it counts only messages that were sent,
\* each once, whatever is retried, and passes its limit by no more than the
\* calls under way together.
AccountCountHolds == NeverDoubleCounts /\ AccountOvershootBounded

\* A claim of a comment in sendOutreach that the code does not keep.

\* "never call provider again for an already-SENT message"
NeverResendsSent ==
  [][\A k \in Keys : delivered'[k] > delivered[k] => msg[k].status # "SENT"]_vars
=============================================================================
