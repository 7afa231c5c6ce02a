------------------------ MODULE SendOutreachProofs -------------------------
(***************************************************************************)
(* Proofs about SendOutreach, for every number of callers, keys, calls and *)
(* days: the types, the daily limit, that it implements Outreach (what the *)
(* models of its callers assume of it is what it does), that a SENT row    *)
(* was delivered and a second mail has its cause, and the account's count. *)
(***************************************************************************)
EXTENDS SendOutreach, FiniteSetTheorems, TLAPS

-----------------------------------------------------------------------------
(* Type correctness *)

\* A caller that moves on stays a well-formed caller.
LEMMA GotoType ==
  ASSUME call \in [Callers -> Calls], NEW p \in Callers, NEW pc \in Pcs, Goto(p, pc)
  PROVE  call' \in [Callers -> Calls]
BY DEF Goto, Calls

\* A call that ends leaves a well-formed caller.
LEMMA ReturnType ==
  ASSUME call \in [Callers -> Calls], NEW p \in Callers, NEW r \in Results, Return(p, r)
  PROVE  call' \in [Callers -> Calls]
<1>1. "idle" \in Pcs
  BY DEF Pcs
<1>2. call[p].key \in Keys
  BY DEF Calls
<1>3. QED
  BY <1>1, <1>2 DEF Return, Calls, Key

\* Every step of sendOutreach, of a caller or of its environment, keeps the rows
\* and the callers' local state of the types the code gives them.
THEOREM TypeCorrect == Spec => []TypeOK
<1>1. Init => TypeOK
  <2> SUFFICES ASSUME Init PROVE TypeOK
    OBVIOUS
  <2>1. msg \in [Keys -> Messages]
    BY DEF Init, Messages, Statuses
  <2>2. account \in Accounts
    BY DEF Init, Accounts
  <2>3. call \in [Callers -> Calls]
    BY DEF Init, Calls, Pcs, Results
  <2> QED
    BY <2>1, <2>2, <2>3 DEF Init, TypeOK
<1>2. TypeOK /\ [Next]_vars => TypeOK'
  <2> SUFFICES ASSUME TypeOK, [Next]_vars PROVE TypeOK'
    OBVIOUS
  <2> USE DEF TypeOK, rows, history, bounds, Key, At
  <2>pcs. \A pc \in {"idle", "lookup", "check", "reserve", "consume", "send", "markSent",
                      "event", "count", "increment", "finish", "fail", "markError"} : pc \in Pcs
    BY DEF Pcs
  <2>results. \A r \in {"none", "SENT", "RESUMED", "ORG_DAILY_LIMIT",
                         "DUPLICATE", "ERROR"} : r \in Results
    BY DEF Results
  <2>keys. \A p \in Callers : call[p].key \in Keys
    BY DEF Calls
  <2>1. ASSUME NEW p \in Callers, NEW k \in Keys, Start(p, k) PROVE TypeOK'
    <3>1. call' \in [Callers -> Calls]
      BY <2>1, <2>pcs, <2>results DEF Start, Calls, Accounts
    <3> QED
      BY <2>1, <3>1 DEF Start
  <2>2. ASSUME NEW p \in Callers, Lookup(p) PROVE TypeOK'
    <3>1. call' \in [Callers -> Calls]
      BY <2>2, <2>pcs, <2>results, ReturnType DEF Lookup, Calls
    <3> QED
      BY <2>2, <3>1 DEF Lookup
  <2>3. ASSUME NEW p \in Callers, Check(p) PROVE TypeOK'
    <3>1. call' \in [Callers -> Calls]
      BY <2>3, <2>pcs, <2>results, ReturnType, GotoType DEF Check, RefuseEarly, Decide
    <3>2. [account EXCEPT !.sent = 0, !.fresh = TRUE] \in Accounts
      BY DEF Accounts
    <3>3. account' \in Accounts
      BY <2>3, <3>2 DEF Check, RefuseEarly, Decide, ResetCounter
    <3> QED
      BY <2>3, <3>1, <3>3 DEF Check
  <2>4. ASSUME NEW p \in Callers, Reserve(p) PROVE TypeOK'
    <3>1. call' \in [Callers -> Calls]
      BY <2>4, <2>pcs, GotoType DEF Reserve
    <3>2. msg' \in [Keys -> Messages]
      BY <2>4, <2>keys DEF Reserve, Messages, Statuses
    <3> QED
      BY <2>4, <3>1, <3>2 DEF Reserve
  <2>5. ASSUME NEW p \in Callers,
               Abort(p) \/ Consume(p) \/ CountEvents(p) \/ Finish(p) \/ FailThrows(p)
        PROVE TypeOK'
    <3>1. call' \in [Callers -> Calls]
      BY <2>5, <2>pcs, <2>results, ReturnType, GotoType
         DEF Abort, Consume, CountEvents, Finish, FailThrows
    <3> QED
      BY <2>5, <3>1 DEF Abort, Consume, CountEvents, Finish, FailThrows
  <2>6. ASSUME NEW p \in Callers, Provider(p) \/ Throw(p) \/ Crash(p) PROVE TypeOK'
    <3>1. call' \in [Callers -> Calls]
      BY <2>6, <2>pcs, <2>results, ReturnType, GotoType DEF Provider, Throw, Crash
    <3>2. delivered' \in [Keys -> Nat] /\ lost' \subseteq Keys
      BY <2>6, <2>keys DEF Provider, Throw, Crash
    <3> QED
      BY <2>6, <3>1, <3>2 DEF Provider, Throw, Crash
  <2>7. ASSUME NEW p \in Callers,
               MarkSent(p) \/ RecordEvent(p) \/ Increment(p) \/ Fail(p) \/ MarkError(p)
        PROVE TypeOK'
    <3>1. call' \in [Callers -> Calls]
      BY <2>7, <2>pcs, <2>results, ReturnType, GotoType
         DEF MarkSent, RecordEvent, Increment, Fail, MarkError
    <3>2. msg' \in [Keys -> Messages]
      <4>1. [status |-> "SENT", today |-> TRUE] \in Messages
        BY DEF Messages, Statuses
      <4>2. \A m \in Messages : [m EXCEPT !.status = "FAILED"] \in Messages
        BY DEF Messages, Statuses
      <4> QED
        BY <2>7, <2>keys, <4>1, <4>2 DEF MarkSent, RecordEvent, Increment, Fail, MarkError
    <3>3. account' \in Accounts
      <4>0. account.sent + 1 \in Nat
        BY DEF Accounts
      <4>1. [account EXCEPT !.sent = @ + 1] \in Accounts
        BY <4>0, SMTT(30) DEF Accounts
      <4>2. [account EXCEPT !.active = FALSE] \in Accounts
        BY DEF Accounts
      <4> QED
        BY <2>7, <4>1, <4>2 DEF MarkSent, RecordEvent, Increment, Fail, MarkError
    <3>4. sentEvents' \in [Keys -> Nat]
      BY <2>7, <2>keys DEF MarkSent, RecordEvent, Increment, Fail, MarkError
    <3> QED
      BY <2>7, <3>1, <3>2, <3>3, <3>4 DEF MarkSent, RecordEvent, Increment, Fail, MarkError
  <2>8. ASSUME Environment PROVE TypeOK'
    <3>1. call' \in [Callers -> Calls]
      <4>1. \A c \in Calls : [c EXCEPT !.fresh = FALSE] \in Calls
        BY DEF Calls
      <4> QED
        BY <2>8, <4>1 DEF Environment, Reconnect, Block, NewUtcDay, NewLocalDay
    <3>2. msg' \in [Keys -> Messages]
      <4>1. \A m \in Messages : [m EXCEPT !.today = FALSE] \in Messages
        BY DEF Messages
      <4> QED
        BY <2>8, <4>1 DEF Environment, Reconnect, Block, NewUtcDay, NewLocalDay
    <3>3. account' \in Accounts
      <4>1. /\ [account EXCEPT !.active = TRUE] \in Accounts
            /\ [account EXCEPT !.fresh = FALSE] \in Accounts
        BY DEF Accounts
      <4> QED
        BY <2>8, <4>1 DEF Environment, Reconnect, Block, NewUtcDay, NewLocalDay
    <3>4. carried' \subseteq Keys /\ blocked' \subseteq Keys
      BY <2>8 DEF Environment, Reconnect, Block, NewUtcDay, NewLocalDay
    <3> QED
      BY <2>8, <3>1, <3>2, <3>3, <3>4 DEF Environment, Reconnect, Block, NewUtcDay, NewLocalDay
  <2>9. CASE UNCHANGED vars
    BY <2>9 DEF vars
  <2> QED
    BY <2>1, <2>2, <2>3, <2>4, <2>5, <2>6, <2>7, <2>8, <2>9 DEF Next, Step
<1> QED
  BY <1>1, <1>2, PTL DEF Spec

-----------------------------------------------------------------------------
(* The daily quota *)

\* What a caller's move, and the end of its call, leave of the callers' state.
LEMMA GotoFacts ==
  ASSUME call \in [Callers -> Calls], NEW p \in Callers, NEW pc, Goto(p, pc)
  PROVE  /\ call'[p].pc = pc /\ call'[p].key = call[p].key
         /\ call'[p].found = call[p].found
         /\ call'[p].result = call[p].result
         /\ \A q \in Callers \ {p} : call'[q] = call[q]
BY DEF Goto, Calls

\* A call that ends keeps its key, has its result, and is the only one to move.
LEMMA ReturnFacts ==
  ASSUME call \in [Callers -> Calls], NEW p \in Callers, NEW r, Return(p, r)
  PROVE  /\ call'[p].pc = "idle" /\ call'[p].key = call[p].key
         /\ call'[p].result = r
         /\ \A q \in Callers \ {p} : call'[q] = call[q]
BY DEF Return, Key

\* Fewer slots held by regular keys leave the room there was.
LEMMA RoomStays ==
  ASSUME (Held \cap Regular)' \subseteq Held \cap Regular, Cardinality(Held \cap Regular) < OrgLimit
  PROVE  Cardinality(Held \cap Regular)' < OrgLimit
<1>1. IsFiniteSet(Held \cap Regular)
  BY SendAssumption, FS_Subset DEF Held
<1>2. /\ Cardinality((Held \cap Regular)') <= Cardinality(Held \cap Regular)
      /\ Cardinality((Held \cap Regular)') \in Nat
      /\ Cardinality(Held \cap Regular) \in Nat
  BY <1>1, FS_Subset, FS_CardinalityType
<1> QED
  BY <1>2, SendAssumption

\* A step of one caller that writes no row keeps the invariant when its own row
\* still agrees with where it is and, if it takes the lock, there is room.
LEMMA QuietStep ==
  ASSUME TypeOK, QuotaInv, NEW p \in Callers,
         UNCHANGED <<msg, overlapped, carried>>,
         \A q \in Callers \ {p} : call'[q] = call[q],
         call'[p].key = call[p].key,
         InFlight(p)' => InFlight(p),
         InFlight(p)' /\ Key(p) \notin overlapped => RowAgrees(p)',
         At(p, "reserve")' => /\ LockFree
                              /\ Key(p) \in Regular \ Held => Cardinality(Held \cap Regular) < OrgLimit
  PROVE  QuotaInv'
<1> USE DEF QuotaInv, Key, InFlight, At
<1>0. /\ Regular' = Regular
      /\ Held' = Held
      /\ \A q \in Callers : call'[q].key = call[q].key
  BY DEF Regular, Held
<1>1. LockHolderAlone'
  BY DEF LockHolderAlone, LockFree
<1>2. OneCallPerKey'
  BY <1>0 DEF OneCallPerKey
<1>3. RowsAgree'
  <2> SUFFICES ASSUME NEW q \in Callers, InFlight(q)', Key(q)' \notin overlapped'
               PROVE  RowAgrees(q)'
    BY DEF RowsAgree
  <2>1. CASE q = p
    BY <2>1, <1>0
  <2>2. CASE q # p
    BY <2>2, <1>0 DEF RowsAgree, RowAgrees
  <2> QED
    BY <2>1, <2>2
<1>4. UnsettledIsToday'
  BY <1>0 DEF UnsettledIsToday
<1>5. RoomReserved'
  BY <1>0 DEF RoomReserved
<1> QED
  BY <1>1, <1>2, <1>3, <1>4, <1>5

\* Lookup and the steps after the transaction, except those that write the row.
LEMMA QuietActions ==
  ASSUME TypeOK, QuotaInv, NEW p \in Callers,
         \/ Lookup(p) \/ Abort(p) \/ Consume(p) \/ Provider(p) \/ RecordEvent(p)
         \/ CountEvents(p) \/ Increment(p) \/ Finish(p) \/ Throw(p)
         \/ MarkError(p) \/ FailThrows(p) \/ Crash(p)
  PROVE  QuotaInv'
<1>0. call \in [Callers -> Calls]
  BY DEF TypeOK
<1>1. UNCHANGED <<msg, overlapped, carried>>
  BY DEF Lookup, Abort, Consume, Provider, RecordEvent, CountEvents, Increment,
         Finish, Throw, MarkError, FailThrows, Crash, rows, history
<1>2. /\ \A q \in Callers \ {p} : call'[q] = call[q]
      /\ call'[p].key = call[p].key
  <2>1. CASE Lookup(p)
    BY <2>1, <1>0, ReturnFacts DEF Lookup, Calls
  <2> QED
    BY <2>1, <1>0, ReturnFacts, GotoFacts
       DEF Abort, Consume, Provider, RecordEvent, CountEvents, Increment,
           Finish, Throw, MarkError, FailThrows, Crash
<1>3. \/ call'[p].pc = "idle"
      \/ At(p, "lookup") /\ call'[p].pc = "check" /\ msg[Key(p)].status # "SENT"
           /\ (call'[p].found <=> msg[Key(p)].status # "NONE")
      \/ At(p, "consume") /\ call'[p].pc = "send"
      \/ At(p, "send") /\ call'[p].pc \in {"fail", "markSent"}
      \/ At(p, "event") /\ call'[p].pc = "count"
      \/ At(p, "count") /\ call'[p].pc \in {"increment", "finish"}
      \/ At(p, "increment") /\ call'[p].pc = "finish"
      \/ call[p].pc \in AfterAccept /\ call'[p].pc = "fail"
  <2>1. CASE Lookup(p)
    BY <2>1, <1>0, ReturnFacts DEF Lookup, Calls
  <2>2. CASE \/ Abort(p) \/ Finish(p) \/ MarkError(p) \/ FailThrows(p) \/ Crash(p)
    BY <2>2, <1>0, ReturnFacts DEF Abort, Finish, MarkError, FailThrows, Crash
  <2>3. CASE Consume(p) \/ Provider(p) \/ RecordEvent(p) \/ CountEvents(p)
    BY <2>3, <1>0, ReturnFacts, GotoFacts DEF Consume, Provider, RecordEvent, CountEvents
  <2>4. CASE Increment(p) \/ Throw(p)
    BY <2>4, <1>0, GotoFacts DEF Increment, Throw
  <2> QED
    BY <2>1, <2>2, <2>3, <2>4
<1>4. ASSUME InFlight(p)', Key(p) \notin overlapped
      PROVE  RowAgrees(p)'
  <2>1. InFlight(p) => RowAgrees(p)
    BY <1>4 DEF QuotaInv, RowsAgree
  <2>2. Key(p)' = Key(p) /\ Regular' = Regular /\ msg' = msg
    BY <1>1, <1>2 DEF Key, Regular
  <2> QED
    BY <1>3, <1>4, <2>1, <2>2 DEF RowAgrees, InFlight, At, AfterAccept
<1>5. InFlight(p)' => InFlight(p)
  BY <1>3 DEF InFlight, At, AfterAccept
<1>6. ~At(p, "reserve")'
  BY <1>3 DEF At
<1> QED
  BY <1>1, <1>2, <1>4, <1>5, <1>6, QuietStep

\* Check takes the lock only when nobody holds it, and only with room.
LEMMA CheckKeepsQuota ==
  ASSUME TypeOK, QuotaInv, NEW p \in Callers, Check(p)
  PROVE  QuotaInv'
<1>0. call \in [Callers -> Calls]
  BY DEF TypeOK
<1>1. /\ UNCHANGED <<msg, overlapped, carried>>
      /\ At(p, "check")
      /\ LockFree
  BY DEF Check, history
<1>2. /\ \A q \in Callers \ {p} : call'[q] = call[q]
      /\ call'[p].key = call[p].key
      /\ \/ call'[p].pc = "idle"
         \/ /\ call'[p].pc = "reserve"
            /\ call'[p].found = call[p].found
            /\ ~Duplicate(p) /\ ~OrgFull(p)
  BY <1>0, ReturnFacts, GotoFacts DEF Check, RefuseEarly, Decide
<1>3. ASSUME InFlight(p)', Key(p) \notin overlapped
      PROVE  RowAgrees(p)'
  <2>1. RowAgrees(p)
    BY <1>1, <1>3 DEF QuotaInv, RowsAgree, InFlight, At
  <2>2. Key(p)' = Key(p) /\ Regular' = Regular /\ msg' = msg
    BY <1>1, <1>2 DEF Key, Regular
  <2> QED
    BY <1>1, <1>2, <1>3, <2>1, <2>2 DEF RowAgrees, InFlight, At, AfterAccept
<1>4. ASSUME At(p, "reserve")', Key(p) \in Regular \ Held
      PROVE  Cardinality(Held \cap Regular) < OrgLimit
  <2>1. RowAgrees(p)
    BY <1>1, <1>4 DEF QuotaInv, RowsAgree, InFlight, At, Regular
  <2>2. ~AlreadyReserved(p)
    BY <1>1, <1>4, <2>1 DEF AlreadyReserved, RowAgrees, At, QuotaInv, UnsettledIsToday, Held, Regular
  <2>3. ~(Cardinality(Held) >= OrgLimit)
    BY <1>2, <1>4, <2>2 DEF At, OrgFull
  <2>4. IsFiniteSet(Held)
    BY SendAssumption, FS_Subset DEF Held
  <2>5. /\ Cardinality(Held \cap Regular) <= Cardinality(Held)
        /\ Cardinality(Held) \in Nat /\ Cardinality(Held \cap Regular) \in Nat
    BY <2>4, FS_Subset, FS_CardinalityType
  <2> QED
    BY <2>3, <2>5, SendAssumption
<1> QED
  BY <1>1, <1>2, <1>3, <1>4, QuietStep DEF InFlight, At

\* A new call either has its key to itself or makes the key overlapped.
LEMMA StartKeepsQuota ==
  ASSUME TypeOK, QuotaInv, NEW p \in Callers, NEW k \in Keys, Start(p, k)
  PROVE  QuotaInv'
<1> USE DEF QuotaInv
<1>0. /\ call \in [Callers -> Calls]
      /\ UNCHANGED <<msg, carried>>
      /\ overlapped \subseteq overlapped'
      /\ call'[p].pc = "lookup" /\ call'[p].key = k
      /\ \A q \in Callers \ {p} : call'[q] = call[q]
      /\ ~InFlight(p)
      /\ \A q \in Callers \ {p} : InFlight(q) /\ Key(q) = k => k \in overlapped'
  BY DEF TypeOK, Start, rows, InFlight
<1>1. Regular' \subseteq Regular /\ Held' = Held
  BY <1>0 DEF Regular, Held
<1>2. LockHolderAlone'
  BY <1>0 DEF LockHolderAlone, At
<1>3. OneCallPerKey'
  BY <1>0 DEF OneCallPerKey, InFlight, Key
<1>4. RowsAgree'
  <2> SUFFICES ASSUME NEW q \in Callers, InFlight(q)', Key(q)' \notin overlapped'
               PROVE  RowAgrees(q)'
    BY DEF RowsAgree
  <2>1. CASE q = p
    BY <2>1, <1>0 DEF RowAgrees, At, AfterAccept
  <2>2. CASE q # p
    <3>1. InFlight(q) /\ Key(q) \notin overlapped /\ Key(q)' = Key(q)
      BY <2>2, <1>0 DEF InFlight, Key
    <3>2. RowAgrees(q)
      BY <3>1 DEF RowsAgree
    <3> QED
      BY <2>2, <3>1, <3>2, <1>0, <1>1 DEF RowAgrees, At, Key
  <2> QED
    BY <2>1, <2>2
<1>5. UnsettledIsToday'
  BY <1>0, <1>1 DEF UnsettledIsToday
<1>6. RoomReserved'
  <2> SUFFICES ASSUME NEW q \in Callers, At(q, "reserve")', Key(q)' \in (Regular \ Held)'
               PROVE  Cardinality(Held \cap Regular)' < OrgLimit
    BY DEF RoomReserved
  <2>1. At(q, "reserve") /\ Key(q) \in Regular \ Held
    BY <1>0, <1>1 DEF At, Key
  <2>2. Cardinality(Held \cap Regular) < OrgLimit
    BY <2>1 DEF RoomReserved
  <2> QED
    BY <2>2, <1>1, RoomStays
<1> QED
  BY <1>2, <1>3, <1>4, <1>5, <1>6

\* A caller that writes its row outside or at the end of the transaction: the
\* row agrees with where it goes, and no other call has an undisturbed key.
LEMMA RowWrite ==
  ASSUME TypeOK, QuotaInv, NEW p \in Callers, NEW m \in Messages,
         InFlight(p), msg' = [msg EXCEPT ![Key(p)] = m],
         UNCHANGED <<overlapped, carried>>,
         \A q \in Callers \ {p} : call'[q] = call[q],
         call'[p].key = call[p].key, ~At(p, "reserve")',
         Key(p) \notin overlapped => RowAgrees(p)',
         Key(p) \in Regular => (m.status \in {"SCHEDULED", "FAILED"} => m.today),
         \/ (Held \cap Regular)' \subseteq Held \cap Regular
         \/ At(p, "reserve")
  PROVE  QuotaInv'
<1> USE DEF QuotaInv
<1>0. /\ Key(p) \in Keys
      /\ Regular' = Regular
      /\ \A q \in Callers : Key(q)' = Key(q)
      /\ msg'[Key(p)] = m
      /\ \A k \in Keys \ {Key(p)} : msg'[k] = msg[k]
  BY DEF Regular, Key, TypeOK, Calls
<1>1. LockHolderAlone'
  BY DEF LockHolderAlone, At
<1>2. OneCallPerKey'
  BY <1>0 DEF OneCallPerKey, InFlight
<1>3. RowsAgree'
  <2> SUFFICES ASSUME NEW q \in Callers, InFlight(q)', Key(q)' \notin overlapped'
               PROVE  RowAgrees(q)'
    BY DEF RowsAgree
  <2>1. CASE q = p
    BY <2>1, <1>0
  <2>2. CASE q # p
    <3>1. InFlight(q) /\ Key(q) \notin overlapped /\ Key(q) \in Keys
      BY <2>2, <1>0 DEF InFlight, TypeOK, Calls, Key
    <3>2. RowAgrees(q) /\ Key(q) # Key(p)
      BY <2>2, <3>1 DEF RowsAgree, OneCallPerKey
    <3> QED
      BY <2>2, <3>1, <3>2, <1>0 DEF RowAgrees, At
  <2> QED
    BY <2>1, <2>2
<1>4. UnsettledIsToday'
  <2> SUFFICES ASSUME NEW k \in Regular, msg'[k].status \in {"SCHEDULED", "FAILED"}
               PROVE  msg'[k].today
    BY <1>0 DEF UnsettledIsToday
  <2>1. k \in Keys
    BY DEF Regular
  <2> QED
    BY <2>1, <1>0 DEF UnsettledIsToday
<1>5. RoomReserved'
  <2> SUFFICES ASSUME NEW q \in Callers, At(q, "reserve")', Key(q)' \in (Regular \ Held)'
               PROVE  Cardinality(Held \cap Regular)' < OrgLimit
    BY DEF RoomReserved
  <2>1. At(q, "reserve") /\ q # p /\ InFlight(q)
    BY DEF At, InFlight
  <2>2. Key(q) \in Regular /\ Key(q) \in Keys /\ Key(q) # Key(p)
    BY <2>1, <1>0 DEF OneCallPerKey, Regular
  <2>3. Key(q) \in Regular \ Held
    BY <2>2, <1>0 DEF Held
  <2>4. Cardinality(Held \cap Regular) < OrgLimit
    BY <2>1, <2>3 DEF RoomReserved
  <2>5. ~At(p, "reserve")
    BY <2>1 DEF LockHolderAlone
  <2> QED
    BY <2>4, <2>5, RoomStays
<1> QED
  BY <1>1, <1>2, <1>3, <1>4, <1>5

\* The three writes of the row: SCHEDULED, SENT, FAILED.
LEMMA WritesKeepQuota ==
  ASSUME TypeOK, QuotaInv, NEW p \in Callers, Reserve(p) \/ MarkSent(p) \/ Fail(p)
  PROVE  QuotaInv'
<1> USE DEF QuotaInv
<1>0. /\ call \in [Callers -> Calls] /\ msg \in [Keys -> Messages]
      /\ Key(p) \in Keys
      /\ UNCHANGED <<overlapped, carried>>
      /\ Regular' = Regular /\ Regular \subseteq Keys \ overlapped
  BY DEF TypeOK, Calls, Key, Reserve, MarkSent, Fail, history, Regular
<1>a. Key(p) \notin overlapped /\ InFlight(p) => RowAgrees(p)
  BY DEF RowsAgree
<1>1. CASE Reserve(p)
  <2> DEFINE m == IF call[p].found THEN [msg[Key(p)] EXCEPT !.status = "SCHEDULED"]
                                   ELSE [status |-> "SCHEDULED", today |-> TRUE]
  <2>1. m \in Messages /\ m.status = "SCHEDULED"
        /\ m.today = (~call[p].found \/ msg[Key(p)].today)
    BY <1>0 DEF Messages, Statuses
  <2>2. msg' = [msg EXCEPT ![Key(p)] = m]
    BY <1>1 DEF Reserve
  <2>3. /\ At(p, "reserve")
        /\ \A q \in Callers \ {p} : call'[q] = call[q]
        /\ call'[p].key = call[p].key /\ call'[p].pc = "consume"
    BY <1>0, <1>1, GotoFacts DEF Reserve
  <2>4. msg'[Key(p)] = m /\ Key(p)' = Key(p)
    BY <1>0, <2>1, <2>2, <2>3 DEF Key
  <2> HIDE DEF m
  <2>5. Key(p) \in Regular => m.today
    BY <1>0, <1>a, <2>1, <2>3
       DEF RowAgrees, At, InFlight, UnsettledIsToday, Messages, Statuses
  <2>6. Key(p) \notin overlapped => RowAgrees(p)'
    BY <1>0, <2>1, <2>3, <2>4, <2>5 DEF RowAgrees, At, AfterAccept
  <2> QED
    BY <1>0, <2>1, <2>2, <2>3, <2>5, <2>6, RowWrite DEF At, InFlight
<1>2. CASE MarkSent(p)
  <2> DEFINE m == [status |-> "SENT", today |-> TRUE]
  <2>1. m \in Messages /\ m.status = "SENT" /\ m.today
    BY DEF Messages, Statuses
  <2>2. msg' = [msg EXCEPT ![Key(p)] = m]
    BY <1>2 DEF MarkSent
  <2>3. /\ At(p, "markSent")
        /\ \A q \in Callers \ {p} : call'[q] = call[q]
        /\ call'[p].key = call[p].key /\ call'[p].pc = "event"
    BY <1>0, <1>2, GotoFacts DEF MarkSent
  <2>4. msg'[Key(p)] = m /\ Key(p)' = Key(p)
    BY <1>0, <2>1, <2>2, <2>3 DEF Key
  <2> HIDE DEF m
  <2>5. Key(p) \notin overlapped => RowAgrees(p)'
    BY <1>0, <2>1, <2>3, <2>4 DEF RowAgrees, At, AfterAccept
  <2>6. (Held \cap Regular)' \subseteq Held \cap Regular
    <3> SUFFICES ASSUME NEW k \in Keys, k \in Held', k \in Regular
                 PROVE  k \in Held
      BY <1>0 DEF Held
    <3>1. CASE k = Key(p)
      BY <3>1, <1>0, <1>a, <2>3 DEF Held, RowAgrees, At, InFlight, AfterAccept
    <3>2. CASE k # Key(p)
      BY <3>2, <1>0, <2>2 DEF Held
    <3> QED
      BY <3>1, <3>2
  <2> QED
    BY <1>0, <2>1, <2>2, <2>3, <2>5, <2>6, RowWrite DEF At, InFlight
<1>3. CASE Fail(p)
  <2> DEFINE m == [msg[Key(p)] EXCEPT !.status = "FAILED"]
  <2>1. m \in Messages /\ m.status = "FAILED" /\ m.today = msg[Key(p)].today
    BY <1>0 DEF Messages, Statuses
  <2>2. msg' = [msg EXCEPT ![Key(p)] = m]
    BY <1>3 DEF Fail
  <2>3. /\ At(p, "fail")
        /\ \A q \in Callers \ {p} : call'[q] = call[q]
        /\ call'[p].key = call[p].key /\ call'[p].pc = "markError"
    BY <1>0, <1>3, GotoFacts DEF Fail
  <2>4. msg'[Key(p)] = m /\ Key(p)' = Key(p)
    BY <1>0, <2>1, <2>2, <2>3 DEF Key
  <2> HIDE DEF m
  <2>5. Key(p) \in Regular => m.today
    BY <1>0, <1>a, <2>1, <2>3 DEF RowAgrees, At, InFlight
  <2>6. Key(p) \notin overlapped => RowAgrees(p)'
    BY <2>3, <2>4 DEF RowAgrees, At, AfterAccept
  <2>7. (Held \cap Regular)' \subseteq Held \cap Regular
    BY <1>0, <2>1, <2>2 DEF Held
  <2> QED
    BY <1>0, <2>1, <2>2, <2>3, <2>5, <2>6, <2>7, RowWrite DEF At, InFlight
<1> QED
  BY <1>1, <1>2, <1>3

\* At midnight the unsettled keys stop being regular and nothing is held.
LEMMA MidnightKeepsQuota ==
  ASSUME TypeOK, QuotaInv, NewUtcDay
  PROVE  QuotaInv'
<1> USE DEF QuotaInv
<1>0. /\ UNCHANGED <<call, overlapped>>
      /\ \A k \in Keys : msg'[k].status = msg[k].status /\ ~msg'[k].today
      /\ Held' = {}
      /\ Regular' = {k \in Regular : ~Unsettled(k)}
  BY DEF NewUtcDay, TypeOK, Messages, Held, Regular
<1>1. LockHolderAlone' /\ OneCallPerKey'
  BY <1>0 DEF LockHolderAlone, OneCallPerKey, At, InFlight, Key
<1>2. RowsAgree'
  <2> SUFFICES ASSUME NEW q \in Callers, InFlight(q)', Key(q)' \notin overlapped'
               PROVE  RowAgrees(q)'
    BY DEF RowsAgree
  <2>1. /\ InFlight(q) /\ Key(q) \notin overlapped
        /\ Key(q) \in Keys /\ Key(q)' = Key(q)
    BY <1>0 DEF InFlight, Key, TypeOK, Calls
  <2>2. RowAgrees(q)
    BY <2>1 DEF RowsAgree
  <2>3. Key(q) \in Regular' => msg[Key(q)].status \notin {"SCHEDULED", "SENT", "FAILED"}
    BY <2>1, <1>0 DEF Unsettled
  <2> QED
    BY <1>0, <2>1, <2>2, <2>3 DEF RowAgrees, At, AfterAccept
<1>3. UnsettledIsToday'
  BY <1>0 DEF UnsettledIsToday, Unsettled, Regular
<1>4. RoomReserved'
  <2> SUFFICES ASSUME NEW q \in Callers, At(q, "reserve")', Key(q)' \in (Regular \ Held)'
               PROVE  Cardinality(Held \cap Regular)' < OrgLimit
    BY DEF RoomReserved
  <2>1. At(q, "reserve") /\ Key(q) \in Regular /\ Key(q) \in Keys /\ ~Unsettled(Key(q))
    BY <1>0 DEF At, Key, Regular
  <2>2. Key(q) \notin Held
    BY <2>1, <1>0 DEF Unsettled, Held, InFlight, At
  <2>3. Cardinality(Held \cap Regular) < OrgLimit
    BY <2>1, <2>2 DEF RoomReserved
  <2> QED
    BY <2>3, <1>0, RoomStays
<1> QED
  BY <1>1, <1>2, <1>3, <1>4

\* The rest of the environment touches nothing the quota depends on.
LEMMA EnvironmentKeepsQuota ==
  ASSUME TypeOK, QuotaInv, Environment
  PROVE  QuotaInv'
<1> USE DEF QuotaInv
<1>1. CASE NewUtcDay
  BY <1>1, MidnightKeepsQuota
<1>2. CASE Reconnect \/ NewLocalDay \/ \E k \in Keys : Block(k)
  <2>1. /\ UNCHANGED <<msg, overlapped, carried>>
        /\ \A q \in Callers : /\ call'[q].pc = call[q].pc
                              /\ call'[q].key = call[q].key
                              /\ call'[q].found = call[q].found
    BY <1>2 DEF Reconnect, NewLocalDay, Block, history, TypeOK, Calls
  <2>2. Regular' = Regular /\ Held' = Held
    BY <2>1 DEF Regular, Held
  <2>3. \A q \in Callers : RowAgrees(q)' <=> RowAgrees(q)
    BY <2>1, <2>2 DEF RowAgrees, At, Key
  <2>4. LockHolderAlone' /\ OneCallPerKey' /\ RowsAgree'
    BY <2>1, <2>3 DEF LockHolderAlone, OneCallPerKey, RowsAgree, At, InFlight, Key
  <2>5. UnsettledIsToday' /\ RoomReserved'
    BY <2>1, <2>2 DEF UnsettledIsToday, RoomReserved, At, Key
  <2> QED
    BY <2>4, <2>5
<1> QED
  BY <1>1, <1>2 DEF Environment

\* The reservation protocol: between the two halves of the transaction, and up
\* to the end of each call, row, caller and room agree.
THEOREM QuotaInvariant == Spec => []QuotaInv
<1>1. Init => QuotaInv
  BY DEF Init, QuotaInv, LockHolderAlone, OneCallPerKey, RowsAgree,
         UnsettledIsToday, RoomReserved, At, InFlight, Regular
<1>2. TypeOK /\ QuotaInv /\ [Next]_vars => QuotaInv'
  <2> SUFFICES ASSUME TypeOK, QuotaInv, [Next]_vars PROVE QuotaInv'
    OBVIOUS
  <2>1. CASE \E p \in Callers : \E k \in Keys : Start(p, k)
    BY <2>1, StartKeepsQuota
  <2>2. CASE \E p \in Callers : Step(p) \/ Crash(p)
    BY <2>2, QuietActions, CheckKeepsQuota, WritesKeepQuota DEF Step
  <2>3. CASE Environment
    BY <2>3, EnvironmentKeepsQuota
  <2>4. CASE UNCHANGED vars
    BY <2>4 DEF vars, rows, history, QuotaInv, LockHolderAlone, OneCallPerKey, RowsAgree,
         RowAgrees, UnsettledIsToday, RoomReserved, At, InFlight, Regular, Held, Key
  <2> QED
    BY <2>1, <2>2, <2>3, <2>4 DEF Next
<1> QED
  BY <1>1, <1>2, TypeCorrect, PTL DEF Spec

\* Slots are only ever given back, or one is taken while there is room.
LEMMA StepsOfQuota ==
  ASSUME TypeOK, QuotaInv, [Next]_vars
  PROVE  \/ (Held \cap Regular)' \subseteq Held \cap Regular
         \/ \E k \in Keys : /\ k \notin Held \cap Regular
                            /\ Cardinality(Held \cap Regular) < OrgLimit
                            /\ (Held \cap Regular)' = (Held \cap Regular) \cup {k}
<1> USE DEF QuotaInv, Held, Regular
<1>1. CASE \E p \in Callers : \E k \in Keys : Start(p, k)
  BY <1>1 DEF Start, rows
<1>2. ASSUME NEW p \in Callers, Reserve(p)
      PROVE  \/ (Held \cap Regular)' \subseteq Held \cap Regular
             \/ \E k \in Keys : /\ k \notin Held \cap Regular
                                /\ Cardinality(Held \cap Regular) < OrgLimit
                                /\ (Held \cap Regular)' = (Held \cap Regular) \cup {k}
  <2>1. /\ Key(p) \in Keys /\ At(p, "reserve") /\ Regular' = Regular
        /\ \A k \in Keys \ {Key(p)} : msg'[k] = msg[k]
    BY <1>2 DEF Reserve, TypeOK, Calls, Key, history
  <2>2. CASE Key(p) \in Held \/ Key(p) \notin Regular
    BY <2>1, <2>2
  <2>3. CASE Key(p) \in Regular \ Held
    <3>1. Cardinality(Held \cap Regular) < OrgLimit
      BY <2>1, <2>3 DEF RoomReserved
    <3>2. \/ (Held \cap Regular)' = Held \cap Regular
          \/ (Held \cap Regular)' = (Held \cap Regular) \cup {Key(p)}
      BY <2>1, <2>3
    <3> QED
      BY <2>1, <2>3, <3>1, <3>2
  <2> QED
    BY <2>1, <2>2, <2>3
<1>3. ASSUME NEW p \in Callers, MarkSent(p)
      PROVE  (Held \cap Regular)' \subseteq Held \cap Regular
  <2>1. /\ Key(p) \in Keys /\ At(p, "markSent") /\ Regular' = Regular
        /\ \A k \in Keys \ {Key(p)} : msg'[k] = msg[k]
    BY <1>3 DEF MarkSent, TypeOK, Calls, Key, history
  <2>2. Key(p) \in Regular => Key(p) \in Held
    BY <2>1 DEF RowsAgree, RowAgrees, At, InFlight, AfterAccept
  <2> QED
    BY <2>1, <2>2
<1>4. ASSUME NEW p \in Callers, Fail(p)
      PROVE  (Held \cap Regular)' \subseteq Held \cap Regular
  <2>1. /\ Key(p) \in Keys /\ Regular' = Regular
        /\ \A k \in Keys \ {Key(p)} : msg'[k] = msg[k]
        /\ msg'[Key(p)].status = "FAILED"
    BY <1>4 DEF Fail, TypeOK, Calls, Key, history, Messages
  <2> QED
    BY <2>1
<1>5. ASSUME NEW p \in Callers,
             \/ Lookup(p) \/ Check(p) \/ Abort(p) \/ Consume(p) \/ Provider(p) \/ RecordEvent(p)
             \/ CountEvents(p) \/ Increment(p) \/ Finish(p) \/ Throw(p)
             \/ MarkError(p) \/ FailThrows(p) \/ Crash(p)
      PROVE  (Held \cap Regular)' = Held \cap Regular
  BY <1>5 DEF Lookup, Check, Abort, Consume, Provider, RecordEvent, CountEvents, Increment,
              Finish, Throw, MarkError, FailThrows, Crash, rows, history
<1>6. CASE Environment
  <2>1. CASE NewUtcDay
    BY <2>1 DEF NewUtcDay, TypeOK, Messages
  <2>2. CASE Reconnect \/ NewLocalDay \/ \E k \in Keys : Block(k)
    BY <2>2 DEF Reconnect, NewLocalDay, Block, history
  <2> QED
    BY <1>6, <2>1, <2>2 DEF Environment
<1>7. CASE UNCHANGED vars
  BY <1>7 DEF vars, rows, history
<1> QED
  BY <1>1, <1>2, <1>3, <1>4, <1>5, <1>6, <1>7 DEF Next, Step

\* For every number of callers, sendOutreach implements a quota: seen through the
\* keys whose sends were not disturbed, slots are granted one by one and only
\* while fewer than dailyEmailLimit are held.
THEOREM SendImplementsQuota == Spec => ImplementsQuota
<1>1. Init => Quota!Init
  BY DEF Init, Quota!Init, Held
<1>2. TypeOK /\ QuotaInv /\ [Next]_vars => [Quota!Next]_(Held \cap Regular)
  <2> SUFFICES ASSUME TypeOK, QuotaInv, [Next]_vars,
                      ~ UNCHANGED (Held \cap Regular)
               PROVE  Quota!Next
    OBVIOUS
  <2>1. CASE (Held \cap Regular)' \subseteq Held \cap Regular
    BY <2>1 DEF Quota!Next, Quota!GiveBack
  <2>2. ASSUME NEW k \in Keys, k \notin Held \cap Regular,
               Cardinality(Held \cap Regular) < OrgLimit,
               (Held \cap Regular)' = (Held \cap Regular) \cup {k}
        PROVE  Quota!Next
    <3>1. Quota!Take(k)
      BY <2>2 DEF Quota!Take, Quota!Cardinality, Cardinality
    <3> QED
      BY <3>1 DEF Quota!Next
  <2> QED
    BY <2>1, <2>2, StepsOfQuota
<1> QED
  BY <1>1, <1>2, TypeCorrect, QuotaInvariant, PTL DEF Spec, ImplementsQuota, Quota!Spec

\* The organisation's daily limit holds of the undisturbed messages, whatever
\* the number of workers checking and reserving at once.
THEOREM DailyLimitHolds == Spec => []RegularWithinLimit
<1>1. Init => RegularWithinLimit
  <2>1. Init => Held \cap Regular = {}
    BY DEF Init, Held
  <2> QED
    BY <2>1, SendAssumption, FS_EmptySet DEF RegularWithinLimit
<1>2. TypeOK /\ QuotaInv /\ RegularWithinLimit /\ [Next]_vars => RegularWithinLimit'
  <2> SUFFICES ASSUME TypeOK, QuotaInv, RegularWithinLimit, [Next]_vars
               PROVE  RegularWithinLimit'
    OBVIOUS
  <2>1. IsFiniteSet(Held \cap Regular)
    BY SendAssumption, FS_Subset DEF Held
  <2>2. Cardinality(Held \cap Regular) \in Nat
    BY <2>1, FS_CardinalityType
  <2>3. CASE (Held \cap Regular)' \subseteq Held \cap Regular
    <3>1. /\ Cardinality((Held \cap Regular)') <= Cardinality(Held \cap Regular)
          /\ IsFiniteSet((Held \cap Regular)')
      BY <2>1, <2>3, FS_Subset
    <3>2. Cardinality((Held \cap Regular)') \in Nat
      BY <3>1, FS_CardinalityType
    <3> QED
      BY <3>1, <3>2, <2>2, SendAssumption DEF RegularWithinLimit
  <2>4. ASSUME NEW k \in Keys, k \notin Held \cap Regular,
               Cardinality(Held \cap Regular) < OrgLimit,
               (Held \cap Regular)' = (Held \cap Regular) \cup {k}
        PROVE  RegularWithinLimit'
    <3>1. Cardinality((Held \cap Regular)') = Cardinality(Held \cap Regular) + 1
      BY <2>1, <2>4, FS_AddElement
    <3> QED
      BY <2>4, <3>1, <2>2, SendAssumption DEF RegularWithinLimit
  <2> QED
    BY <2>3, <2>4, StepsOfQuota
<1> QED
  BY <1>1, <1>2, TypeCorrect, QuotaInvariant, PTL DEF Spec

-----------------------------------------------------------------------------
(* The contract of the send path: its inductive invariant *)

\* A row that was found is there: no code path deletes a message.
FoundIsThere == \A p \in Callers : call[p].found => msg[Key(p)].status # "NONE"

\* From its reservation on, a call's row is there.
ReservedIsThere ==
  \A p \in Callers :
    call[p].pc \in {"consume", "send", "markSent", "event", "count", "increment",
                    "finish", "fail", "markError"}
    => msg[Key(p)].status # "NONE"

\* The lock holder's row is still as Check saw it: found, or not there.
HolderSawRow ==
  \A p \in Callers : At(p, "reserve") => call[p].found \/ msg[Key(p)].status = "NONE"

ContractInv == LockHolderAlone /\ FoundIsThere /\ ReservedIsThere /\ HolderSawRow

\* Steps that write no message keep the invariant.
LEMMA ReadKeepsContract ==
  ASSUME TypeOK, ContractInv, NEW p \in Callers,
         UNCHANGED msg,
         \A q \in Callers \ {p} : call'[q] = call[q],
         call'[p].found => msg[call'[p].key].status # "NONE",
         call'[p].pc \in {"consume", "send", "markSent", "event", "count", "increment",
                          "finish", "fail", "markError"}
           => msg[call'[p].key].status # "NONE",
         call'[p].pc = "reserve" =>
           /\ call'[p].found \/ msg[call'[p].key].status = "NONE"
           /\ \A q \in Callers \ {p} : call[q].pc # "reserve"
  PROVE  ContractInv'
BY DEF ContractInv, LockHolderAlone, FoundIsThere, ReservedIsThere, HolderSawRow, At, Key

\* Calls that end or move on past the reservation.
LEMMA MovesKeepContract ==
  ASSUME TypeOK, ContractInv, NEW p \in Callers,
         \/ Lookup(p) \/ Abort(p) \/ Consume(p) \/ Provider(p) \/ RecordEvent(p)
         \/ CountEvents(p) \/ Increment(p) \/ Finish(p) \/ Throw(p)
         \/ MarkError(p) \/ FailThrows(p) \/ Crash(p)
  PROVE  ContractInv'
<1>0. call \in [Callers -> Calls]
  BY DEF TypeOK
<1>1. UNCHANGED msg
  BY DEF Lookup, Abort, Consume, Provider, RecordEvent, CountEvents, Increment, Finish,
         Throw, MarkError, FailThrows, Crash, rows
<1>2. CASE \E r : Return(p, r)
  <2>1. /\ call'[p].pc = "idle" /\ call'[p].found = FALSE
        /\ \A q \in Callers \ {p} : call'[q] = call[q]
    BY <1>0, <1>2 DEF Return
  <2> QED
    BY <1>1, <2>1, ReadKeepsContract
<1>3. CASE /\ Lookup(p)
           /\ call' = [call EXCEPT ![p].pc = "check", ![p].found = msg[Key(p)].status # "NONE"]
  <2>1. /\ call'[p].pc = "check" /\ call'[p].key = Key(p)
        /\ call'[p].found = (msg[Key(p)].status # "NONE")
        /\ \A q \in Callers \ {p} : call'[q] = call[q]
    BY <1>0, <1>3 DEF Calls, Key
  <2> QED
    BY <1>1, <2>1, ReadKeepsContract
<1>4. CASE /\ call[p].pc \in {"consume", "send", "markSent", "event", "count", "increment",
                             "finish"}
           /\ \E pc \in Pcs \ {"reserve"} : Goto(p, pc)
  <2>1. PICK pc \in Pcs \ {"reserve"} : Goto(p, pc)
    BY <1>4
  <2>2. /\ call'[p].pc = pc /\ call'[p].key = call[p].key
        /\ call'[p].found = call[p].found
        /\ \A q \in Callers \ {p} : call'[q] = call[q]
    BY <1>0, <2>1, GotoFacts
  <2>3. msg[call[p].key].status # "NONE"
    BY <1>4 DEF ContractInv, ReservedIsThere, Key
  <2> QED
    BY <1>1, <2>2, <2>3, ReadKeepsContract
<1> QED
  BY <1>2, <1>3, <1>4
  DEF Lookup, Abort, Consume, Provider, RecordEvent, CountEvents, Increment, Finish,
      Throw, MarkError, FailThrows, Crash, At, AfterAccept, Pcs

\* The transaction: only one that holds no lock yet, and whose row is as it was
\* looked up, takes it.
LEMMA CheckKeepsContract ==
  ASSUME TypeOK, ContractInv, NEW p \in Callers, Check(p)
  PROVE  ContractInv'
<1>0. call \in [Callers -> Calls] /\ UNCHANGED msg /\ LockFree
  BY DEF TypeOK, Check
<1>1. CASE \E r : Return(p, r)
  <2>1. /\ call'[p].pc = "idle" /\ call'[p].found = FALSE
        /\ \A q \in Callers \ {p} : call'[q] = call[q]
    BY <1>0, <1>1 DEF Return
  <2> QED
    BY <1>0, <2>1, ReadKeepsContract
<1>2. CASE ~Duplicate(p) /\ Goto(p, "reserve")
  <2>1. /\ call'[p].pc = "reserve" /\ call'[p].key = call[p].key
        /\ call'[p].found = call[p].found
        /\ \A q \in Callers \ {p} : call'[q] = call[q]
    BY <1>0, <1>2, GotoFacts
  <2>2. call[p].found \/ msg[call[p].key].status = "NONE"
    BY <1>2 DEF Duplicate, Key
  <2>3. call[p].found => msg[call[p].key].status # "NONE"
    BY DEF ContractInv, FoundIsThere, Key
  <2>4. \A q \in Callers \ {p} : call[q].pc # "reserve"
    BY <1>0 DEF LockFree, At
  <2> QED
    BY <1>0, <2>1, <2>2, <2>3, <2>4, ReadKeepsContract
<1> QED
  BY <1>1, <1>2 DEF Check, RefuseEarly, Decide

\* A write leaves a row that is there, and no lock.
LEMMA WritesKeepContract ==
  ASSUME TypeOK, ContractInv, NEW p \in Callers, Reserve(p) \/ MarkSent(p) \/ Fail(p)
  PROVE  ContractInv'
<1>0. call \in [Callers -> Calls] /\ msg \in [Keys -> Messages] /\ call[p].key \in Keys
  BY DEF TypeOK, Calls
<1>1. /\ call'[p].pc \in {"consume", "event", "markError"}
      /\ call'[p].key = call[p].key /\ call'[p].found = call[p].found
      /\ \A q \in Callers \ {p} : call'[q] = call[q]
  BY <1>0, GotoFacts DEF Reserve, MarkSent, Fail
<1>2. /\ msg'[call[p].key].status # "NONE"
      /\ \A k \in Keys \ {call[p].key} : msg'[k] = msg[k]
  BY <1>0 DEF Reserve, MarkSent, Fail, Key, Messages
<1>3. ASSUME NEW q \in Callers \ {p}, call[q].pc = "reserve"
      PROVE  call[q].found \/ call[q].key # call[p].key
  <2>1. CASE Reserve(p)
    BY <1>3, <2>1 DEF ContractInv, LockHolderAlone, Reserve, At
  <2>2. CASE MarkSent(p) \/ Fail(p)
    <3>1. msg[call[p].key].status # "NONE"
      BY <2>2 DEF ContractInv, ReservedIsThere, MarkSent, Fail, At, Key
    <3> QED
      BY <1>3, <3>1 DEF ContractInv, HolderSawRow, At, Key
  <2> QED
    BY <2>1, <2>2
<1>4. \A q \in Callers : call[q].key \in Keys
  BY <1>0 DEF Calls
<1>5. LockHolderAlone'
  BY <1>1 DEF ContractInv, LockHolderAlone, At
<1>6. FoundIsThere' /\ ReservedIsThere'
  BY <1>1, <1>2, <1>4 DEF ContractInv, FoundIsThere, ReservedIsThere, Key
<1>7. HolderSawRow'
  BY <1>1, <1>2, <1>3, <1>4 DEF ContractInv, HolderSawRow, At, Key
<1> QED
  BY <1>5, <1>6, <1>7 DEF ContractInv

\* sendOutreach keeps ContractInv.
THEOREM ContractInvariant == Spec => []ContractInv
<1>1. Init => ContractInv
  BY DEF Init, ContractInv, LockHolderAlone, FoundIsThere, ReservedIsThere, HolderSawRow, At
<1>2. TypeOK /\ ContractInv /\ [Next]_vars => ContractInv'
  <2> SUFFICES ASSUME TypeOK, ContractInv, [Next]_vars PROVE ContractInv'
    OBVIOUS
  <2>1. ASSUME NEW p \in Callers, Step(p) \/ Crash(p) PROVE ContractInv'
    BY <2>1, MovesKeepContract, CheckKeepsContract, WritesKeepContract DEF Step
  <2>2. ASSUME NEW p \in Callers, NEW k \in Keys, Start(p, k) PROVE ContractInv'
    <3>1. /\ call'[p].pc = "lookup" /\ call'[p].found = FALSE /\ UNCHANGED msg
          /\ \A q \in Callers \ {p} : call'[q] = call[q]
      BY <2>2 DEF Start, rows, TypeOK
    <3> QED
      BY <3>1, ReadKeepsContract
  <2>3. ASSUME Environment PROVE ContractInv'
    <3>1. \A q \in Callers : /\ call'[q].pc = call[q].pc /\ call'[q].key = call[q].key
                             /\ call'[q].found = call[q].found
      BY <2>3 DEF Environment, Reconnect, Block, NewUtcDay, NewLocalDay, TypeOK, Calls
    <3>2. \A k \in Keys : msg'[k].status = msg[k].status
      BY <2>3 DEF Environment, Reconnect, Block, NewUtcDay, NewLocalDay, TypeOK, Messages
    <3>3. \A q \in Callers : call[q].key \in Keys
      BY DEF TypeOK, Calls
    <3> QED
      BY <3>1, <3>2, <3>3
      DEF ContractInv, LockHolderAlone, FoundIsThere, ReservedIsThere, HolderSawRow, At, Key
  <2>4. CASE UNCHANGED vars
    BY <2>4 DEF vars, rows, ContractInv, LockHolderAlone, FoundIsThere, ReservedIsThere,
                HolderSawRow, At, Key
  <2> QED
    BY <2>1, <2>2, <2>3, <2>4 DEF Next
<1> QED
  BY <1>1, <1>2, TypeCorrect, PTL DEF Spec

-----------------------------------------------------------------------------
(* The refinement: every step is a step of Outreach, or none *)

\* A call that moves to another stage does so in Outreach.
LEMMA StageMoves ==
  ASSUME call \in [Callers -> Calls], NEW p \in Callers, NEW pc \in Pcs \ {"idle"},
         InFlight(p), Goto(p, pc)
  PROVE  SeenCall' = [SeenCall EXCEPT ![p].at = Stage(pc)]
<1> DEFINE seen(c) == [at |-> Stage(c.pc),
                       key  |-> IF c.pc # "idle" THEN c.key ELSE "none",
                       knew |-> c.found, got |-> c.result]
<1>1. /\ call'[p].pc = pc /\ call'[p].key = call[p].key
      /\ call'[p].found = call[p].found /\ call'[p].result = call[p].result
      /\ \A q \in Callers \ {p} : call'[q] = call[q]
  BY GotoFacts
<1>2. seen(call'[p]) = [seen(call[p]) EXCEPT !.at = Stage(pc)]
  BY <1>1 DEF InFlight
<1>3. /\ SeenCall  = [q \in Callers |-> seen(call[q])]
      /\ SeenCall' = [q \in Callers |-> seen(call'[q])]
  BY DEF SeenCall, InFlight, Key
<1> HIDE DEF seen
<1> QED
  BY <1>1, <1>2, <1>3

\* A call that moves within a stage does nothing there.
LEMMA StageStays ==
  ASSUME call \in [Callers -> Calls], NEW p \in Callers, NEW pc \in Pcs \ {"idle"},
         InFlight(p), Goto(p, pc), Stage(pc) = Stage(call[p].pc)
  PROVE  UNCHANGED SeenCall
<1>1. SeenCall' = [SeenCall EXCEPT ![p].at = Stage(call[p].pc)]
  BY StageMoves
<1>2. SeenCall[p].at = Stage(call[p].pc) /\ SeenCall[p] = [SeenCall[p] EXCEPT !.at = SeenCall[p].at]
  BY DEF SeenCall
<1>3. SeenCall = [q \in Callers |-> SeenCall[q]]
  BY DEF SeenCall
<1> QED
  BY <1>1, <1>2, <1>3

\* A call that ends does so in Outreach, with the same answer.
LEMMA StageEnds ==
  ASSUME call \in [Callers -> Calls], NEW p \in Callers, NEW r, Return(p, r)
  PROVE  Contract!Return(p, r)
<1>1. /\ call'[p].pc = "idle" /\ call'[p].found = FALSE /\ call'[p].result = r
      /\ \A q \in Callers \ {p} : call'[q] = call[q]
  BY DEF Return
<1>2. SeenCall'[p] = [at |-> "idle", key |-> "none", knew |-> FALSE, got |-> r]
  BY <1>1 DEF SeenCall, InFlight, Stage
<1>3. \A q \in Callers \ {p} : SeenCall'[q] = SeenCall[q]
  BY <1>1 DEF SeenCall, InFlight, Key
<1>4. SeenCall = [q \in Callers |-> SeenCall[q]] /\ SeenCall' = [q \in Callers |-> SeenCall'[q]]
  BY DEF SeenCall
<1> QED
  BY <1>2, <1>3, <1>4 DEF Contract!Return

\* The stage and the key of a call in Outreach.
LEMMA StageFacts ==
  ASSUME NEW p \in Callers, InFlight(p)
  PROVE  /\ Contract!Key(p) = Key(p)
         /\ SeenCall[p].at = Stage(call[p].pc)
         /\ SeenCall[p].knew = call[p].found
         /\ Stage("lookup") = "begun"
         /\ Stage("check") = "looked" /\ Stage("reserve") = "looked"
         /\ Stage("consume") = "reserved" /\ Stage("send") = "reserved"
         /\ Stage("markSent") = "accepted"
         /\ Stage("event") = "recorded" /\ Stage("count") = "recorded"
         /\ Stage("increment") = "recorded" /\ Stage("finish") = "recorded"
         /\ Stage("fail") = "failing" /\ Stage("markError") = "failed"
<1>1. /\ SeenCall[p].at = Stage(call[p].pc) /\ SeenCall[p].key = Key(p)
      /\ SeenCall[p].knew = call[p].found
  BY DEF SeenCall
<1>2. /\ Stage("lookup") = "begun"
      /\ Stage("check") = "looked" /\ Stage("reserve") = "looked"
      /\ Stage("consume") = "reserved" /\ Stage("send") = "reserved"
      /\ Stage("markSent") = "accepted"
      /\ Stage("event") = "recorded" /\ Stage("count") = "recorded"
      /\ Stage("increment") = "recorded" /\ Stage("finish") = "recorded"
      /\ Stage("fail") = "failing" /\ Stage("markError") = "failed"
  BY DEF Stage
<1> QED
  BY <1>1, <1>2 DEF Contract!Key

\* What a write of one row is in Outreach.
LEMMA MailWrites ==
  ASSUME NEW k \in Keys, NEW status, msg'[k].status = status,
         \A j \in Keys \ {k} : msg'[j].status = msg[j].status
  PROVE  SeenMail' = [SeenMail EXCEPT ![k] = status]
BY DEF SeenMail

\* A step of a call, of Outreach or of none of its business.
LEMMA CallImplements ==
  ASSUME TypeOK, ContractInv, NEW p \in Callers, Step(p) \/ Crash(p)
  PROVE  Contract!Step(p) \/ Contract!Die(p) \/ UNCHANGED <<SeenMail, delivered, SeenCall, lost>>
<1>0. /\ call \in [Callers -> Calls] /\ msg \in [Keys -> Messages]
      /\ Key(p) \in Keys
  BY DEF TypeOK, Calls, Key
<1>p. \A pc \in {"lookup", "check", "reserve", "consume", "send", "markSent",
                 "event", "count", "increment", "finish", "fail", "markError"} :
         pc \in Pcs \ {"idle"}
  BY DEF Pcs
<1>s. InFlight(p)
  BY DEF Step, Crash, Lookup, Check, Reserve, Abort, Consume, Provider, MarkSent,
         RecordEvent, CountEvents, Increment, Finish, Throw, Fail, MarkError, FailThrows,
         InFlight, At, AfterAccept
<1>m. UNCHANGED msg => UNCHANGED SeenMail
  BY DEF SeenMail
<1>k. SeenMail[Key(p)] = msg[Key(p)].status
  BY <1>0 DEF SeenMail
<1> USE <1>0, <1>s, <1>m, <1>k DEF rows, bounds, history
<1>1. CASE Lookup(p)
  <2>1. CASE msg[Key(p)].status = "SENT"
    <3>1. Return(p, "RESUMED") /\ UNCHANGED <<rows, history>>
      BY <1>1, <2>1 DEF Lookup
    <3> QED
      BY <1>1, <2>1, <3>1, StageEnds, StageFacts
      DEF Lookup, At, Contract!Step, Contract!Look, Contract!At
  <2>2. CASE msg[Key(p)].status # "SENT"
    <3>1. /\ call' = [call EXCEPT ![p].pc = "check", ![p].found = msg[Key(p)].status # "NONE"]
          /\ UNCHANGED <<rows, history>>
      BY <1>1, <2>2 DEF Lookup
    <3>2. /\ call'[p].pc = "check" /\ call'[p].key = call[p].key
          /\ call'[p].found = (msg[Key(p)].status # "NONE")
          /\ call'[p].result = call[p].result
          /\ \A q \in Callers \ {p} : call'[q] = call[q]
      BY <3>1 DEF Calls
    <3>3. SeenCall[p].got = call[p].result
      BY DEF SeenCall
    <3>4. SeenCall'[p] = [at |-> "looked", key |-> Key(p),
                          knew |-> SeenMail[Key(p)] # "NONE", got |-> SeenCall[p].got]
      BY <3>2, <3>3, StageFacts DEF SeenCall, InFlight, Key
    <3>5. \A q \in Callers \ {p} : SeenCall'[q] = SeenCall[q]
      BY <3>2 DEF SeenCall, InFlight, Key
    <3>6. Contract!GoOn(p)
      <4>1. /\ SeenCall = [q \in Callers |-> SeenCall[q]]
            /\ SeenCall' = [q \in Callers |-> SeenCall'[q]]
        BY DEF SeenCall
      <4> QED
        BY <3>4, <3>5, <4>1, StageFacts DEF Contract!GoOn
    <3> QED
      BY <1>1, <2>2, <3>1, <3>6, StageFacts
      DEF Lookup, At, Contract!Step, Contract!Look, Contract!At
  <2> QED
    BY <2>1, <2>2
<1>2. CASE Check(p)
  <2>0. SeenCall[p].at = "looked" /\ UNCHANGED <<msg, history>>
    BY <1>2, StageFacts DEF Check, At
  <2>1. CASE Return(p, "ERROR")
    BY <2>0, <2>1, StageEnds DEF Contract!Step, Contract!Refuse, Contract!At
  <2>2. CASE Return(p, "ORG_DAILY_LIMIT")
    BY <2>0, <2>2, StageEnds DEF Contract!Step, Contract!Refuse, Contract!At
  <2>3. CASE Duplicate(p) /\ Return(p, "DUPLICATE")
    BY <2>0, <2>3, StageEnds, StageFacts
    DEF Contract!Step, Contract!Refuse, Contract!At, Duplicate
  <2>4. CASE Goto(p, "reserve")
    <3>1. Stage("reserve") = Stage(call[p].pc)
      BY <1>2, StageFacts DEF Check, At
    <3> QED
      BY <1>p, <2>0, <2>4, <3>1, StageStays
  <2> QED
    BY <1>2, <2>1, <2>2, <2>3, <2>4 DEF Check, RefuseEarly, Decide
<1>3. CASE Reserve(p)
  <2>1. SeenCall[p].at = "looked" /\ UNCHANGED history
    BY <1>3, StageFacts DEF Reserve, At
  <2>2. SeenCall[p].knew \/ SeenMail[Key(p)] = "NONE"
    BY <1>3, StageFacts DEF ContractInv, HolderSawRow, Reserve
  <2>3. SeenMail' = [SeenMail EXCEPT ![Key(p)] = "SCHEDULED"]
    <3>1. /\ msg'[Key(p)].status = "SCHEDULED"
          /\ \A j \in Keys \ {Key(p)} : msg'[j].status = msg[j].status
      BY <1>3 DEF Reserve, Messages
    <3> QED
      BY <3>1, MailWrites
  <2>4. SeenCall' = [SeenCall EXCEPT ![p].at = "reserved"]
    BY <1>3, <1>p, StageMoves, StageFacts DEF Reserve
  <2> QED
    BY <2>1, <2>2, <2>3, <2>4, StageFacts
    DEF Contract!Step, Contract!Reserve, Contract!At, Contract!Goto
<1>4. CASE Abort(p)
  <2>1. SeenCall[p].at = "looked" /\ UNCHANGED <<msg, history>>
    BY <1>4, StageFacts DEF Abort
  <2> QED
    BY <1>4, <2>1, StageEnds, StageFacts DEF Abort, Contract!Step, Contract!Refuse, Contract!At
<1>5. CASE Consume(p)
  <2>1. SeenCall[p].at = "reserved" /\ UNCHANGED <<msg, history>>
    BY <1>5, StageFacts DEF Consume, At
  <2>2. CASE Goto(p, "send")
    BY <1>5, <1>p, <2>1, <2>2, StageStays, StageFacts DEF Consume, At
  <2>3. CASE Return(p, "ERROR")
    BY <2>1, <2>3, StageEnds DEF Contract!Step, Contract!Decline, Contract!At
  <2> QED
    BY <1>5, <2>2, <2>3 DEF Consume
<1>6. CASE Provider(p)
  <2>1. SeenCall[p].at = "reserved" /\ UNCHANGED msg
    BY <1>6, StageFacts DEF Provider, At
  <2>2. Goto(p, "fail") => SeenCall' = [SeenCall EXCEPT ![p].at = "failing"]
    BY <1>p, StageMoves, StageFacts
  <2>3. Goto(p, "markSent") => SeenCall' = [SeenCall EXCEPT ![p].at = "accepted"]
    BY <1>p, StageMoves, StageFacts
  <2> QED
    BY <1>6, <2>1, <2>2, <2>3, StageFacts
    DEF Provider, Contract!Step, Contract!Decline, Contract!Accept, Contract!At, Contract!Goto
<1>7. CASE MarkSent(p)
  <2>1. SeenCall[p].at = "accepted" /\ UNCHANGED history
    BY <1>7, StageFacts DEF MarkSent, At
  <2>2. SeenMail' = [SeenMail EXCEPT ![Key(p)] = "SENT"]
    <3>1. /\ msg'[Key(p)].status = "SENT"
          /\ \A j \in Keys \ {Key(p)} : msg'[j].status = msg[j].status
      BY <1>7 DEF MarkSent
    <3> QED
      BY <3>1, MailWrites
  <2>3. SeenCall' = [SeenCall EXCEPT ![p].at = "recorded"]
    BY <1>7, <1>p, StageMoves, StageFacts DEF MarkSent
  <2> QED
    BY <2>1, <2>2, <2>3, StageFacts
    DEF Contract!Step, Contract!Record, Contract!At, Contract!Goto
<1>8. CASE RecordEvent(p) \/ CountEvents(p) \/ Increment(p)
  <2>1. Stage(call[p].pc) = "recorded" /\ UNCHANGED <<msg, history>>
    BY <1>8, StageFacts DEF RecordEvent, CountEvents, Increment, At
  <2>2. PICK pc \in {"count", "increment", "finish"} : Goto(p, pc)
    BY <1>8 DEF RecordEvent, CountEvents, Increment
  <2> QED
    BY <1>p, <2>1, <2>2, StageStays, StageFacts
<1>9. CASE Finish(p)
  <2>1. SeenCall[p].at = "recorded" /\ UNCHANGED <<msg, history>>
    BY <1>9, StageFacts DEF Finish, At
  <2> QED
    BY <1>9, <2>1, StageEnds DEF Finish, Contract!Step, Contract!Finish, Contract!At
<1>10. CASE Throw(p)
  <2>1. SeenCall[p].at \in {"accepted", "recorded"} /\ UNCHANGED msg
    BY <1>10, StageFacts DEF Throw, AfterAccept
  <2>2. SeenCall' = [SeenCall EXCEPT ![p].at = "failing"]
    BY <1>10, <1>p, StageMoves, StageFacts DEF Throw
  <2> QED
    BY <1>10, <2>1, <2>2, StageFacts DEF Throw, Contract!Step, Contract!Throw, Contract!Goto
<1>11. CASE Fail(p)
  <2>1. SeenCall[p].at = "failing" /\ UNCHANGED history
    BY <1>11, StageFacts DEF Fail, At
  <2>2. SeenMail' = [SeenMail EXCEPT ![Key(p)] = "FAILED"]
    <3>1. /\ msg'[Key(p)].status = "FAILED"
          /\ \A j \in Keys \ {Key(p)} : msg'[j].status = msg[j].status
      BY <1>11 DEF Fail, Messages
    <3> QED
      BY <3>1, MailWrites
  <2>3. SeenCall' = [SeenCall EXCEPT ![p].at = "failed"]
    BY <1>11, <1>p, StageMoves, StageFacts DEF Fail
  <2> QED
    BY <2>1, <2>2, <2>3, StageFacts
    DEF Contract!Step, Contract!Fail, Contract!At, Contract!Goto
<1>12. CASE MarkError(p) \/ FailThrows(p)
  <2>1. SeenCall[p].at \in {"failing", "failed"} /\ UNCHANGED <<msg, history>>
    BY <1>12, StageFacts DEF MarkError, FailThrows, At
  <2> QED
    BY <1>12, <2>1, StageEnds DEF MarkError, FailThrows, Contract!Step, Contract!GiveUp
<1>13. CASE Crash(p)
  <2>1. /\ SeenCall[p].at # "idle" /\ UNCHANGED msg
        /\ SeenCall[p].at = "accepted" <=> At(p, "markSent")
    BY <1>13, StageFacts DEF Crash, At, Calls, Pcs, Stage, InFlight
  <2> QED
    BY <1>13, <2>1, StageEnds, StageFacts DEF Crash, Contract!Die, Contract!At
<1> QED
  BY <1>1, <1>2, <1>3, <1>4, <1>5, <1>6, <1>7, <1>8, <1>9, <1>10, <1>11, <1>12, <1>13
  DEF Step

\* sendOutreach implements the contract its callers' models are built on.
THEOREM SendImplementsOutreach == Spec => ImplementsOutreach
<1>1. Init => Contract!Init
  BY DEF Init, Contract!Init, SeenMail, SeenCall, InFlight, Stage
<1>2. TypeOK /\ ContractInv /\ [Next]_vars => [Contract!Next]_(Contract!vars)
  <2> SUFFICES ASSUME TypeOK, ContractInv, [Next]_vars
               PROVE  Contract!Next \/ UNCHANGED Contract!vars
    OBVIOUS
  <2>0. call \in [Callers -> Calls] /\ msg \in [Keys -> Messages]
    BY DEF TypeOK
  <2>1. ASSUME NEW p \in Callers, Step(p) \/ Crash(p)
        PROVE  Contract!Next \/ UNCHANGED Contract!vars
    BY <2>1, CallImplements DEF Contract!Next, Contract!vars
  <2>2. ASSUME NEW p \in Callers, NEW k \in Keys, Start(p, k) PROVE Contract!Begin(p, k)
    <3>1. /\ call[p].pc = "idle"
          /\ call'[p].pc = "lookup" /\ call'[p].key = k /\ call'[p].found = FALSE
          /\ call'[p].result = "none"
          /\ \A q \in Callers \ {p} : call'[q] = call[q]
          /\ UNCHANGED <<msg, delivered, lost>>
      BY <2>0, <2>2 DEF Start, rows, InFlight
    <3>2. SeenCall'[p] = [at |-> "begun", key |-> k, knew |-> FALSE, got |-> "none"]
      BY <3>1 DEF SeenCall, InFlight, Key, Stage
    <3>3. \A q \in Callers \ {p} : SeenCall'[q] = SeenCall[q]
      BY <3>1 DEF SeenCall, InFlight, Key
    <3>4. /\ SeenCall = [q \in Callers |-> SeenCall[q]]
          /\ SeenCall' = [q \in Callers |-> SeenCall'[q]]
          /\ SeenCall[p].at = "idle"
      BY <3>1 DEF SeenCall, Stage
    <3>5. UNCHANGED SeenMail
      BY <3>1 DEF SeenMail
    <3> QED
      BY <3>1, <3>2, <3>3, <3>4, <3>5 DEF Contract!Begin, Contract!At
  <2>3. ASSUME Environment PROVE UNCHANGED Contract!vars
    <3>1. \A q \in Callers : /\ call'[q].pc = call[q].pc /\ call'[q].key = call[q].key
                             /\ call'[q].found = call[q].found
                             /\ call'[q].result = call[q].result
      BY <2>0, <2>3 DEF Environment, Reconnect, Block, NewUtcDay, NewLocalDay, Calls
    <3>2. \A k \in Keys : msg'[k].status = msg[k].status
      BY <2>0, <2>3 DEF Environment, Reconnect, Block, NewUtcDay, NewLocalDay, Messages
    <3>3. UNCHANGED <<delivered, lost>>
      BY <2>3 DEF Environment, Reconnect, Block, NewUtcDay, NewLocalDay, history
    <3> QED
      BY <3>1, <3>2, <3>3 DEF Contract!vars, SeenMail, SeenCall, InFlight, Key
  <2>4. CASE UNCHANGED vars
    BY <2>4 DEF vars, rows, history, Contract!vars, SeenMail, SeenCall, InFlight, Key
  <2> QED
    BY <2>1, <2>2, <2>3, <2>4 DEF Next, Contract!Next
<1> QED
  BY <1>1, <1>2, TypeCorrect, ContractInvariant, PTL DEF Spec, ImplementsOutreach, Contract!Spec

-----------------------------------------------------------------------------
(* What a call does to its message and to the account *)

\* A call's step is one of these: it ends, it moves on, or it moves on with a write.
Others(p)   == \A q \in Callers \ {p} : call'[q] = call[q]
Moves(p, from, to) == call[p].pc \in from /\ call'[p].pc \in to /\ call'[p].result = call[p].result
Writes(p, status) == /\ msg'[Key(p)].status = status
                     /\ \A k \in Keys \ {Key(p)} : msg'[k] = msg[k]
CallerStep(p) ==
  \/ /\ call'[p].pc = "idle" /\ UNCHANGED <<msg, delivered, sentEvents>>
     /\ account'.sent <= account.sent
     /\ call'[p].result \in {"SENT", "RESUMED"} => At(p, "finish") \/ msg[Key(p)].status = "SENT"
     /\ At(p, "markSent") => Key(p) \in lost'
  \/ /\ Moves(p, {"lookup"}, {"check"}) /\ UNCHANGED <<msg, delivered, sentEvents, account>>
  \/ /\ Moves(p, {"check"}, {"reserve"}) /\ UNCHANGED <<msg, delivered, sentEvents>>
     /\ account'.sent <= account.sent /\ account'.sent < AccountLimit
  \/ /\ Moves(p, {"reserve"}, {"consume"}) /\ Writes(p, "SCHEDULED")
     /\ UNCHANGED <<delivered, sentEvents, account>>
  \/ /\ Moves(p, {"consume"}, {"send"}) /\ UNCHANGED <<msg, delivered, sentEvents, account>>
  \/ /\ Moves(p, {"send"}, {"fail"}) /\ UNCHANGED <<msg, delivered, sentEvents, account>>
  \/ /\ Moves(p, {"send"}, {"markSent", "fail"}) /\ UNCHANGED <<msg, sentEvents, account>>
     /\ delivered' = [delivered EXCEPT ![Key(p)] = @ + 1]
     /\ call'[p].pc = "fail" => Key(p) \in lost'
  \/ /\ Moves(p, {"markSent"}, {"event"}) /\ Writes(p, "SENT")
     /\ UNCHANGED <<delivered, sentEvents, account>>
  \/ /\ Moves(p, {"event"}, {"count"}) /\ UNCHANGED <<msg, delivered, account>>
     /\ sentEvents' = [sentEvents EXCEPT ![Key(p)] = @ + 1]
  \/ /\ Moves(p, {"count"}, IF sentEvents[Key(p)] = 1 THEN {"increment"} ELSE {"finish"})
     /\ UNCHANGED <<msg, delivered, sentEvents, account>>
  \/ /\ Moves(p, {"increment"}, {"finish"}) /\ UNCHANGED <<msg, delivered, sentEvents>>
     /\ account'.sent = account.sent + 1
  \/ /\ Moves(p, AfterAccept, {"fail"}) /\ UNCHANGED <<msg, delivered, sentEvents, account>>
     /\ Key(p) \in lost'
  \/ /\ Moves(p, {"fail"}, {"markError"}) /\ Writes(p, "FAILED")
     /\ UNCHANGED <<delivered, sentEvents, account>>

\* So says the code.
LEMMA CallerMoves ==
  ASSUME TypeOK, NEW p \in Callers, Step(p) \/ Crash(p)
  PROVE  /\ CallerStep(p) /\ Others(p) /\ call'[p].key = call[p].key /\ Key(p) \in Keys
         /\ overlapped' = overlapped /\ lost \subseteq lost'
<1> USE DEF At, rows, history
<1>0. /\ call \in [Callers -> Calls] /\ msg \in [Keys -> Messages] /\ Key(p) \in Keys
      /\ account.sent \in Nat
  BY DEF TypeOK, Calls, Accounts, Key
<1>1. ASSUME NEW r \in Results, Return(p, r)
      PROVE  Others(p) /\ call'[p].key = call[p].key /\ call'[p].pc = "idle" /\ call'[p].result = r
  BY <1>0, <1>1, ReturnFacts DEF Others
<1>2. ASSUME NEW pc, Goto(p, pc)
      PROVE  /\ Others(p) /\ call'[p].key = call[p].key
             /\ Moves(p, {call[p].pc}, {pc})
  BY <1>0, <1>2, GotoFacts DEF Others, Moves
<1>3. {"none", "SENT", "RESUMED", "ORG_DAILY_LIMIT", "DUPLICATE", "ERROR"} \subseteq Results
  BY DEF Results
<1>4. CASE Lookup(p)
  <2>1. CASE msg[Key(p)].status = "SENT" /\ Return(p, "RESUMED")
    BY <1>0, <1>1, <1>3, <1>4, <2>1 DEF Lookup, CallerStep
  <2>2. CASE call' = [call EXCEPT ![p].pc = "check", ![p].found = msg[Key(p)].status # "NONE"]
    <3>1. /\ Others(p) /\ call'[p].key = call[p].key /\ Moves(p, {"lookup"}, {"check"})
      BY <1>0, <1>4, <2>2 DEF Lookup, Others, Moves, Calls
    <3> QED
      BY <1>0, <1>4, <3>1 DEF Lookup, CallerStep
  <2> QED
    BY <1>4, <2>1, <2>2 DEF Lookup
<1>5. CASE Check(p)
  <2>1. account'.sent <= account.sent
    <3>1. account' = account \/ account' = [account EXCEPT !.sent = 0, !.fresh = TRUE]
      BY <1>5 DEF Check, RefuseEarly, Decide, ResetCounter
    <3>2. account \in Accounts
      BY DEF TypeOK
    <3>3. account'.sent = account.sent \/ account'.sent = 0
      BY <3>1, <3>2 DEF Accounts
    <3> QED
      BY <1>0, <3>3
  <2>2. CASE Return(p, "ERROR") \/ Return(p, "DUPLICATE") \/ Return(p, "ORG_DAILY_LIMIT")
    BY <1>0, <1>1, <1>3, <1>5, <2>1, <2>2 DEF Check, CallerStep
  <2>3. CASE Goto(p, "reserve") /\ ~AccountFull(p) /\ ResetCounter(p)
    <3>1. account'.sent < AccountLimit
      <4>1. account'.sent = CounterSeenBy(p)
        BY <2>3 DEF ResetCounter, CounterSeenBy, TypeOK, Accounts
      <4>2. CounterSeenBy(p) \in Nat /\ ~(CounterSeenBy(p) >= AccountLimit)
        BY <1>0, <2>3 DEF CounterSeenBy, AccountFull
      <4> QED
        BY <4>1, <4>2, SendAssumption
    <3> QED
      BY <1>0, <1>2, <1>5, <2>1, <2>3, <3>1 DEF Check, CallerStep
  <2> QED
    BY <1>5, <2>2, <2>3 DEF Check, RefuseEarly, Decide
<1>6. CASE Reserve(p)
  <2>1. Writes(p, "SCHEDULED")
    BY <1>0, <1>6 DEF Reserve, Writes, Messages
  <2> QED
    BY <1>0, <1>2, <1>6, <2>1 DEF Reserve, CallerStep
<1>7. CASE Abort(p)
  BY <1>0, <1>1, <1>3, <1>7 DEF Abort, CallerStep
<1>8. CASE Consume(p)
  BY <1>0, <1>1, <1>2, <1>3, <1>8 DEF Consume, CallerStep
<1>9. CASE Provider(p)
  <2>1. CASE Goto(p, "fail") /\ UNCHANGED <<delivered, lost>>
    BY <1>0, <1>2, <1>9, <2>1 DEF Provider, CallerStep
  <2>2. CASE /\ delivered' = [delivered EXCEPT ![Key(p)] = @ + 1]
             /\ \/ Goto(p, "markSent") /\ UNCHANGED lost
                \/ Goto(p, "fail") /\ lost' = lost \cup {Key(p)}
    <3>1. /\ Moves(p, {"send"}, {"markSent", "fail"}) /\ Others(p) /\ call'[p].key = call[p].key
          /\ call'[p].pc = "fail" => Key(p) \in lost'
          /\ lost \subseteq lost'
      BY <1>0, <1>2, <1>9, <2>2 DEF Provider, Moves
    <3> QED
      BY <1>0, <1>9, <2>2, <3>1 DEF Provider, CallerStep
  <2> QED
    BY <1>9, <2>1, <2>2 DEF Provider
<1>10. CASE MarkSent(p)
  <2>1. Writes(p, "SENT")
    BY <1>0, <1>10 DEF MarkSent, Writes
  <2> QED
    BY <1>0, <1>2, <1>10, <2>1 DEF MarkSent, CallerStep
<1>11. CASE RecordEvent(p)
  BY <1>0, <1>2, <1>11 DEF RecordEvent, CallerStep
<1>12. CASE CountEvents(p)
  <2>1. /\ Moves(p, {"count"}, IF sentEvents[Key(p)] = 1 THEN {"increment"} ELSE {"finish"})
        /\ Others(p) /\ call'[p].key = call[p].key
    BY <1>2, <1>12 DEF CountEvents
  <2> QED
    BY <1>0, <1>12, <2>1 DEF CountEvents, CallerStep
<1>13. CASE Increment(p)
  <2>1. account'.sent = account.sent + 1
    BY <1>13 DEF Increment, TypeOK, Accounts
  <2> QED
    BY <1>0, <1>2, <1>13, <2>1 DEF Increment, CallerStep
<1>14. CASE Finish(p)
  BY <1>0, <1>1, <1>3, <1>14 DEF Finish, CallerStep
<1>15. CASE Throw(p)
  <2>1. Moves(p, AfterAccept, {"fail"}) /\ Others(p) /\ call'[p].key = call[p].key
    BY <1>2, <1>15 DEF Throw, Moves
  <2> QED
    BY <1>0, <1>15, <2>1 DEF Throw, CallerStep
<1>16. CASE Fail(p)
  <2>1. Writes(p, "FAILED")
    BY <1>0, <1>16 DEF Fail, Writes, Messages
  <2> QED
    BY <1>0, <1>2, <1>16, <2>1 DEF Fail, CallerStep
<1>17. CASE MarkError(p)
  <2>1. account'.sent = account.sent
    BY <1>17 DEF MarkError, TypeOK, Accounts
  <2> QED
    BY <1>0, <1>1, <1>3, <1>17, <2>1 DEF MarkError, CallerStep
<1>18. CASE FailThrows(p)
  BY <1>0, <1>1, <1>3, <1>18 DEF FailThrows, CallerStep
<1>19. CASE Crash(p)
  BY <1>0, <1>1, <1>3, <1>19 DEF Crash, CallerStep
<1> QED
  BY <1>4, <1>5, <1>6, <1>7, <1>8, <1>9, <1>10, <1>11, <1>12, <1>13, <1>14, <1>15, <1>16,
     <1>17, <1>18, <1>19 DEF Step

\* A new call, and everything outside the calls, writes no message, counts nothing
\* and leaves the account's counter alone.
LEMMA QuietMoves ==
  ASSUME TypeOK, [Next]_vars, ~ \E p \in Callers : Step(p) \/ Crash(p)
  PROVE  /\ \A k \in Keys : msg'[k].status = msg[k].status
         /\ UNCHANGED <<delivered, sentEvents, lost>> /\ overlapped \subseteq overlapped'
         /\ account'.sent = account.sent
         /\ \A q \in Callers :
              \/ /\ call'[q].pc = call[q].pc /\ call'[q].key = call[q].key
                 /\ call'[q].result = call[q].result
              \/ call'[q].pc = "lookup" /\ call'[q].result = "none"
<1>0. /\ call \in [Callers -> Calls] /\ msg \in [Keys -> Messages] /\ account \in Accounts
  BY DEF TypeOK
<1>1. CASE UNCHANGED vars
  BY <1>1 DEF vars, rows, history
<1>2. CASE Environment
  <2>1. /\ \A q \in Callers : /\ call'[q].pc = call[q].pc /\ call'[q].key = call[q].key
                              /\ call'[q].result = call[q].result
        /\ \A k \in Keys : msg'[k].status = msg[k].status
    BY <1>0, <1>2 DEF Environment, Reconnect, Block, NewUtcDay, NewLocalDay, Calls, Messages
  <2>2. account'.sent = account.sent
    BY <1>0, <1>2 DEF Environment, Reconnect, Block, NewUtcDay, NewLocalDay, Accounts
  <2> QED
    BY <1>2, <2>1, <2>2 DEF Environment, Reconnect, Block, NewUtcDay, NewLocalDay, history
<1>3. ASSUME NEW p \in Callers, NEW k \in Keys, Start(p, k)
      PROVE  /\ UNCHANGED <<msg, delivered, sentEvents, lost, account>>
             /\ overlapped \subseteq overlapped'
             /\ call'[p].pc = "lookup" /\ call'[p].result = "none" /\ Others(p)
  BY <1>0, <1>3 DEF Start, rows, Others
<1> QED
  BY <1>1, <1>2, <1>3 DEF Next, Others

-----------------------------------------------------------------------------
(* What is called sent was delivered *)

\* The calls past the provider's acceptance say so as well.
DeliveredInv ==
  /\ SentWasDelivered
  /\ \A p \in Callers : call[p].pc \in AfterAccept => delivered[Key(p)] >= 1

\* A message is called SENT only by a call whose mail the provider accepted, and
\* what was accepted stays accepted.
LEMMA DeliveredInvNext == TypeOK /\ DeliveredInv /\ [Next]_vars => DeliveredInv'
<1> SUFFICES ASSUME TypeOK, DeliveredInv, [Next]_vars PROVE DeliveredInv'
  OBVIOUS
<1>0. delivered \in [Keys -> Nat] /\ \A q \in Callers : Key(q) \in Keys
  BY DEF TypeOK, Calls, Key
<1>1. CASE ~ \E p \in Callers : Step(p) \/ Crash(p)
  <2>1. SentWasDelivered'
    BY <1>0, <1>1, QuietMoves DEF DeliveredInv, SentWasDelivered, Key
  <2>2. \A q \in Callers : call'[q].pc \in AfterAccept => delivered'[Key(q)'] >= 1
    BY <1>0, <1>1, QuietMoves DEF DeliveredInv, Key, AfterAccept
  <2> QED
    BY <2>1, <2>2 DEF DeliveredInv, Key
<1>2. ASSUME NEW p \in Callers, Step(p) \/ Crash(p)
      PROVE  DeliveredInv'
  <2>0. /\ CallerStep(p) /\ Others(p) /\ Key(p)' = Key(p)
        /\ \A q \in Callers : Key(q)' = Key(q)
    BY <1>2, CallerMoves DEF Others, Key
  <2>1. /\ \A k \in Keys : delivered'[k] >= delivered[k] /\ delivered'[k] \in Nat
        /\ call[p].pc = "send" /\ call'[p].pc = "markSent" => delivered'[Key(p)] >= 1
    BY <1>0, <2>0 DEF CallerStep, Moves, AfterAccept
  <2>2. ASSUME NEW k \in Keys, msg'[k].status = "SENT"
        PROVE  delivered'[k] >= 1
    <3>1. msg[k].status = "SENT" \/ (k = Key(p) /\ call[p].pc = "markSent")
      BY <2>0, <2>2 DEF CallerStep, Writes, Moves
    <3> QED
      BY <1>0, <2>1, <3>1 DEF DeliveredInv, SentWasDelivered, AfterAccept
  <2>3. ASSUME NEW q \in Callers, call'[q].pc \in AfterAccept
        PROVE  delivered'[Key(q)] >= 1
    <3>1. CASE q # p
      BY <1>0, <2>0, <2>1, <2>3, <3>1 DEF DeliveredInv, Others
    <3>2. CASE q = p
      <4>1. call[p].pc \in AfterAccept \/ (call[p].pc = "send" /\ call'[p].pc = "markSent")
        BY <2>0, <2>3, <3>2 DEF CallerStep, Moves, AfterAccept
      <4> QED
        BY <1>0, <2>1, <3>2, <4>1 DEF DeliveredInv
    <3> QED
      BY <3>1, <3>2
  <2>4. ASSUME NEW q \in Callers, call'[q].result \in {"SENT", "RESUMED"}
        PROVE  delivered'[Key(q)] >= 1
    <3>1. call[q].result \in {"SENT", "RESUMED"} \/ call[q].pc \in AfterAccept
            \/ msg[Key(q)].status = "SENT"
      BY <2>0, <2>4 DEF CallerStep, Moves, Others, At, AfterAccept
    <3> QED
      BY <1>0, <2>1, <3>1 DEF DeliveredInv, SentWasDelivered
  <2> QED
    BY <2>0, <2>2, <2>3, <2>4 DEF DeliveredInv, SentWasDelivered
<1> QED
  BY <1>1, <1>2

\* Neither a row nor an answer of sendOutreach says of a message that it went out
\* when the provider never accepted it, whatever crashes, throws or overlaps.
THEOREM SentWasDeliveredAlways == Spec => []SentWasDelivered
<1>1. Init => DeliveredInv
  BY DEF Init, DeliveredInv, SentWasDelivered, AfterAccept
<1>2. TypeOK /\ DeliveredInv /\ [Next]_vars => DeliveredInv'
  BY DeliveredInvNext
<1>3. DeliveredInv => SentWasDelivered
  BY DEF DeliveredInv
<1> QED
  BY <1>1, <1>2, <1>3, TypeCorrect, PTL DEF Spec

-----------------------------------------------------------------------------
(* Twice for a reason only *)

\* A key whose calls never overlapped and whose acceptance was never lost: what
\* was accepted is recorded, or its call is about to record it.
Clean == Keys \ (overlapped \cup lost)
OnceInv == \A k \in Clean :
  /\ delivered[k] <= 1
  /\ delivered[k] # 0 /\ msg[k].status # "SENT" =>
       \E p \in Callers : At(p, "markSent") /\ Key(p) = k
  /\ \A p \in Callers : At(p, "fail") /\ Key(p) = k => delivered[k] = 0

\* A clean key's message is offered to the provider, written FAILED or reserved
\* again only while it has not been delivered.
LEMMA CleanIsUndelivered ==
  ASSUME TypeOK, QuotaInv, OnceInv, NEW p \in Callers, Key(p) \in Clean,
         call[p].pc \in {"reserve", "consume", "send", "fail"}
  PROVE  delivered[Key(p)] = 0
<1>1. InFlight(p) /\ Key(p) \notin overlapped
  BY DEF InFlight, Clean
<1>2. RowAgrees(p)
  BY <1>1 DEF QuotaInv, RowsAgree
<1>3. CASE At(p, "fail")
  BY <1>3 DEF OnceInv
<1>4. CASE ~At(p, "fail")
  <2>1. msg[Key(p)].status # "SENT"
    BY <1>2, <1>4 DEF RowAgrees, At
  <2>2. ASSUME NEW q \in Callers, At(q, "markSent"), Key(q) = Key(p) PROVE FALSE
    BY <1>1, <2>2 DEF QuotaInv, OneCallPerKey, InFlight, At
  <2> QED
    BY <2>1, <2>2 DEF OnceInv
<1> QED
  BY <1>3, <1>4

\* The next state of a clean key.
LEMMA OnceInvNext == TypeOK /\ QuotaInv /\ OnceInv /\ [Next]_vars => OnceInv'
<1> SUFFICES ASSUME TypeOK, QuotaInv, OnceInv, [Next]_vars PROVE OnceInv'
  OBVIOUS
<1>0. delivered \in [Keys -> Nat] /\ \A q \in Callers : Key(q) \in Keys
  BY DEF TypeOK, Calls, Key
<1>1. CASE ~ \E p \in Callers : Step(p) \/ Crash(p)
  <2>1. Clean' \subseteq Clean
    BY <1>1, QuietMoves DEF Clean
  <2>2. \A q \in Callers : (At(q, "fail")' => At(q, "fail") /\ Key(q)' = Key(q))
                            /\ (At(q, "markSent") => call'[q].pc \in {"markSent", "lookup"})
    BY <1>1, QuietMoves DEF At, Key
  <2>3. \A q \in Callers : At(q, "markSent") => At(q, "markSent")' /\ Key(q)' = Key(q)
    <3>1. ASSUME NEW p \in Callers, NEW k \in Keys, Start(p, k)
          PROVE  ~At(p, "markSent") /\ Others(p)
      BY <3>1 DEF Start, InFlight, At, Others, TypeOK
    <3>2. CASE Environment
      BY <3>2 DEF Environment, Reconnect, Block, NewUtcDay, NewLocalDay, TypeOK, Calls, At, Key
    <3>3. CASE UNCHANGED vars
      BY <3>3 DEF vars, At, Key
    <3> QED
      BY <1>1, <3>1, <3>2, <3>3 DEF Next, Others, At, Key
  <2>4. \A k \in Keys : msg'[k].status = msg[k].status /\ delivered'[k] = delivered[k]
    BY <1>1, QuietMoves
  <2>5. ASSUME NEW k \in Clean'
        PROVE  /\ delivered'[k] <= 1
               /\ delivered'[k] # 0 /\ msg'[k].status # "SENT" =>
                    \E p \in Callers : At(p, "markSent")' /\ Key(p)' = k
               /\ \A p \in Callers : At(p, "fail")' /\ Key(p)' = k => delivered'[k] = 0
    BY <2>1, <2>2, <2>3, <2>4, <2>5 DEF OnceInv, Clean
  <2> QED
    BY <2>5 DEF OnceInv
<1>2. ASSUME NEW p \in Callers, Step(p) \/ Crash(p), NEW k \in Clean'
      PROVE  /\ delivered'[k] <= 1
             /\ delivered'[k] # 0 /\ msg'[k].status # "SENT" =>
                  \E q \in Callers : At(q, "markSent")' /\ Key(q)' = k
             /\ \A q \in Callers : At(q, "fail")' /\ Key(q)' = k => delivered'[k] = 0
  <2>0. /\ CallerStep(p) /\ Others(p) /\ \A q \in Callers : Key(q)' = Key(q)
        /\ k \in Clean /\ k \in Keys /\ k \notin lost'
    BY <1>2, CallerMoves DEF Others, Key, Clean
  <2>1. CASE k # Key(p)
    <3>1. delivered'[k] = delivered[k] /\ msg'[k].status = msg[k].status
      BY <1>0, <2>0, <2>1 DEF CallerStep, Writes
    <3>2. \A q \in Callers : Key(q) = k => (At(q, "fail")' <=> At(q, "fail"))
                                            /\ (At(q, "markSent")' <=> At(q, "markSent"))
      BY <2>0, <2>1 DEF Others, At
    <3> QED
      BY <2>0, <3>1, <3>2 DEF OnceInv
  <2>2. CASE k = Key(p)
    <3>2. InFlight(p)
      BY <1>2 DEF Step, Lookup, Check, Reserve, Abort, Consume, Provider, MarkSent, RecordEvent,
             CountEvents, Increment, Finish, Throw, Fail, MarkError, FailThrows, Crash,
             At, InFlight, AfterAccept
    <3>3. \A q \in Callers \ {p} : Key(q) = k => ~InFlight(q) /\ ~At(q, "markSent")
                                                  /\ ~At(q, "fail")'
      BY <2>0, <2>2, <3>2 DEF QuotaInv, OneCallPerKey, InFlight, At, Others, Clean
    <3>4. delivered[k] # 0 /\ msg[k].status # "SENT" => At(p, "markSent")
      BY <2>0, <3>3 DEF OnceInv
    <3>5. delivered[k] <= 1 /\ delivered[k] \in Nat
      BY <1>0, <2>0 DEF OnceInv
    <3>6. call[p].pc \in {"reserve", "consume", "send", "fail"} => delivered[k] = 0
      BY <2>0, <2>2, CleanIsUndelivered
    <3>7. delivered'[k] <= 1
      BY <1>0, <2>0, <2>2, <3>5, <3>6 DEF CallerStep, Moves
    <3>8. ASSUME delivered'[k] # 0, msg'[k].status # "SENT"
          PROVE  At(p, "markSent")'
      BY <1>0, <2>0, <2>2, <3>4, <3>6, <3>8 DEF CallerStep, Moves, Writes, At
    <3>9. ASSUME At(p, "fail")' PROVE delivered'[k] = 0
      BY <1>0, <2>0, <2>2, <3>6, <3>9 DEF CallerStep, Moves, At
    <3> QED
      BY <2>0, <2>2, <3>3, <3>7, <3>8, <3>9
  <2> QED
    BY <2>1, <2>2
<1> QED
  BY <1>1, <1>2 DEF OnceInv

\* No message is accepted twice by the provider unless two calls with its key ran
\* at once, or a call was accepted and never got to record it.
THEOREM DuplicateNeedsCauseAlways == Spec => []DuplicateNeedsCause
<1>1. Init => OnceInv
  BY DEF Init, OnceInv, Clean, At
<1>2. TypeOK /\ QuotaInv /\ OnceInv /\ [Next]_vars => OnceInv'
  BY OnceInvNext
<1>3. TypeOK /\ OnceInv => DuplicateNeedsCause
  <2> SUFFICES ASSUME TypeOK, OnceInv, NEW k \in Keys, delivered[k] >= 2
               PROVE  k \in overlapped \cup lost
    BY DEF DuplicateNeedsCause
  <2>1. delivered[k] \in Nat
    BY DEF TypeOK
  <2> QED
    BY <2>1 DEF OnceInv, Clean
<1> QED
  BY <1>1, <1>2, <1>3, TypeCorrect, QuotaInvariant, PTL DEF Spec

-----------------------------------------------------------------------------
(* The account's counter *)

\* Messages with a SENT event; calls that count one of them, or are about to
\* because theirs is the only event; and calls past the account's limit.
Recorded == {k \in Keys : sentEvents[k] >= 1}
Counting == {p \in Callers : \/ At(p, "increment")
                             \/ At(p, "count") /\ sentEvents[Key(p)] = 1}
Passed   == {p \in Callers : call[p].pc \in {"reserve", "consume", "send", "markSent",
                                             "event", "count", "increment"}}
AccountInv ==
  /\ account.sent + Cardinality(Counting) <= Cardinality(Recorded)
  /\ account.sent + Cardinality(Passed) < AccountLimit + Cardinality(Callers)

\* A call that counts has written its event.
EventSeen == \A p \in Callers : At(p, "count") => sentEvents[Key(p)] >= 1

\* Events are only added.
LEMMA EventSeenNext == TypeOK /\ EventSeen /\ [Next]_vars => EventSeen'
<1> SUFFICES ASSUME TypeOK, EventSeen, [Next]_vars PROVE EventSeen'
  OBVIOUS
<1>0. sentEvents \in [Keys -> Nat] /\ \A q \in Callers : Key(q) \in Keys
  BY DEF TypeOK, Calls, Key
<1>1. CASE ~ \E p \in Callers : Step(p) \/ Crash(p)
  BY <1>1, QuietMoves DEF EventSeen, At, Key
<1>2. ASSUME NEW p \in Callers, Step(p) \/ Crash(p), NEW q \in Callers, At(q, "count")'
      PROVE  sentEvents'[Key(q)'] >= 1
  <2>0. CallerStep(p) /\ Others(p) /\ \A r \in Callers : Key(r)' = Key(r)
    BY <1>2, CallerMoves DEF Others, Key
  <2>1. \A k \in Keys : sentEvents'[k] >= sentEvents[k] /\ sentEvents'[k] \in Nat
    BY <1>0, <2>0 DEF CallerStep
  <2>2. At(q, "count") \/ (q = p /\ sentEvents' = [sentEvents EXCEPT ![Key(p)] = @ + 1])
    BY <1>2, <2>0 DEF CallerStep, Moves, Others, At, AfterAccept
  <2> QED
    BY <1>0, <2>0, <2>1, <2>2 DEF EventSeen
<1> QED
  BY <1>1, <1>2 DEF EventSeen

\* All of these are finitely many, before and after a step.
LEMMA AccountCounts ==
  ASSUME TypeOK
  PROVE  /\ IsFiniteSet(Counting) /\ Cardinality(Counting) \in Nat
         /\ IsFiniteSet(Recorded) /\ Cardinality(Recorded) \in Nat
         /\ IsFiniteSet(Passed) /\ Cardinality(Passed) \in Nat
         /\ Cardinality(Counting)' \in Nat /\ Cardinality(Passed)' \in Nat
         /\ IsFiniteSet(Recorded') /\ Cardinality(Recorded)' \in Nat
         /\ Cardinality(Passed)' <= Cardinality(Callers)
         /\ Cardinality(Callers) \in Nat /\ AccountLimit \in Nat /\ account.sent \in Nat
<1>1. \A S \in SUBSET Callers : /\ IsFiniteSet(S) /\ Cardinality(S) \in Nat
                               /\ Cardinality(S) <= Cardinality(Callers)
  BY SendAssumption, FS_Subset, FS_CardinalityType
<1>2. \A S \in SUBSET Keys : IsFiniteSet(S) /\ Cardinality(S) \in Nat
  BY SendAssumption, FS_Subset, FS_CardinalityType
<1>3. /\ Counting \in SUBSET Callers /\ Counting' \in SUBSET Callers
      /\ Passed \in SUBSET Callers /\ Passed' \in SUBSET Callers
      /\ Recorded \in SUBSET Keys /\ Recorded' \in SUBSET Keys
  BY DEF Counting, Passed, Recorded
<1>4. Callers \in SUBSET Callers /\ AccountLimit \in Nat /\ account.sent \in Nat
  BY SendAssumption DEF TypeOK, Accounts
<1> QED
  BY <1>1, <1>2, <1>3, <1>4

\* Steps by which no call joins those that count or have passed the limit.
LEMMA FewerCount ==
  ASSUME TypeOK, TypeOK', AccountInv, account'.sent <= account.sent,
         Counting' \subseteq Counting, Recorded \subseteq Recorded', Passed' \subseteq Passed
  PROVE  AccountInv'
<1>1. /\ account.sent \in Nat
      /\ IsFiniteSet(Counting) /\ IsFiniteSet(Recorded') /\ IsFiniteSet(Passed)
      /\ Cardinality(Counting) \in Nat /\ Cardinality(Counting)' \in Nat
      /\ Cardinality(Recorded) \in Nat /\ Cardinality(Recorded)' \in Nat
      /\ Cardinality(Passed) \in Nat /\ Cardinality(Passed)' \in Nat
      /\ Cardinality(Callers) \in Nat /\ AccountLimit \in Nat
  BY AccountCounts
<1>2. /\ Cardinality(Counting)' <= Cardinality(Counting)
      /\ Cardinality(Recorded) <= Cardinality(Recorded)'
      /\ Cardinality(Passed)' <= Cardinality(Passed)
  BY <1>1, FS_Subset
<1>3. account'.sent \in Nat
  BY DEF TypeOK, Accounts
<1> QED
  BY <1>1, <1>2, <1>3 DEF AccountInv

\* Where no write to the events and no end of a check is concerned, that is so.
LEMMA QuietCount ==
  ASSUME TypeOK, TypeOK', AccountInv, NEW p \in Callers, CallerStep(p), Others(p),
         call'[p].key = call[p].key, UNCHANGED sentEvents, account'.sent <= account.sent,
         ~(call[p].pc = "check" /\ call'[p].pc = "reserve")
  PROVE  AccountInv'
<1>1. \A q \in Callers : Key(q)' = Key(q)
  BY DEF Others, Key
<1>2. Recorded' = Recorded
  BY DEF Recorded
<1>3. Passed' \subseteq Passed
  BY DEF CallerStep, Moves, Others, Passed, AfterAccept
<1>4. Counting' \subseteq Counting
  <2>1. At(p, "count")' => At(p, "count")
    <3>1. \/ At(p, "count")' => At(p, "count")
          \/ sentEvents' = [sentEvents EXCEPT ![Key(p)] = @ + 1]
      BY DEF CallerStep, Moves, At, AfterAccept
    <3>2. sentEvents \in [Keys -> Nat] /\ Key(p) \in Keys
      BY DEF TypeOK, Calls, Key
    <3> QED
      BY <3>1, <3>2
  <2>2. At(p, "increment")' =>
          At(p, "increment") \/ (At(p, "count") /\ sentEvents[Key(p)] = 1)
    BY DEF CallerStep, Moves, At, AfterAccept
  <2> QED
    BY <1>1, <2>1, <2>2 DEF Counting, Others, At
<1> QED
  BY <1>2, <1>3, <1>4, FewerCount

\* The event is written: the first one makes a message that is recorded and a call
\* that counts it, a later one stops those that were about to count.
LEMMA EventCounts ==
  ASSUME TypeOK, TypeOK', EventSeen, AccountInv, NEW p \in Callers, Others(p),
         call'[p].key = call[p].key, Moves(p, {"event"}, {"count"}),
         account' = account, sentEvents' = [sentEvents EXCEPT ![Key(p)] = @ + 1]
  PROVE  AccountInv'
<1>0. /\ sentEvents \in [Keys -> Nat] /\ Key(p) \in Keys
      /\ \A q \in Callers : Key(q)' = Key(q) /\ Key(q) \in Keys
  BY DEF TypeOK, Calls, Others, Key
<1>1. Passed' \subseteq Passed
  BY DEF Moves, Others, Passed
<1>2. CASE sentEvents[Key(p)] # 0
  <2>1. ASSUME NEW q \in Callers, q \in Counting' PROVE q \in Counting
    <3>1. CASE At(q, "increment")'
      BY <3>1 DEF Counting, Moves, Others, At
    <3>2. CASE At(q, "count")' /\ sentEvents'[Key(q)] = 1
      <4>1. Key(q) # Key(p)
        BY <1>0, <1>2, <3>2
      <4> QED
        BY <1>0, <3>2, <4>1 DEF Counting, Others, At
    <3> QED
      BY <1>0, <2>1, <3>1, <3>2 DEF Counting
  <2>2. Recorded \subseteq Recorded'
    BY <1>0 DEF Recorded
  <2> QED
    BY <1>1, <2>1, <2>2, FewerCount DEF TypeOK, Accounts, Counting
<1>3. CASE sentEvents[Key(p)] = 0
  <2> DEFINE key == Key(p)
  <2>1. Recorded' = Recorded \cup {key} /\ key \notin Recorded
    BY <1>0, <1>3 DEF Recorded
  <2>2. ASSUME NEW q \in Callers \ {p}, q \in Counting' PROVE q \in Counting
    <3>1. CASE At(q, "increment")'
      BY <3>1 DEF Counting, Others, At
    <3>2. CASE At(q, "count")' /\ sentEvents'[Key(q)] = 1
      <4>1. At(q, "count") /\ sentEvents[Key(q)] >= 1
        BY <3>2 DEF EventSeen, Others, At
      <4>2. Key(q) # Key(p)
        BY <1>3, <4>1
      <4> QED
        BY <1>0, <3>2, <4>1, <4>2 DEF Counting
    <3> QED
      BY <1>0, <2>2, <3>1, <3>2 DEF Counting
  <2>3. /\ account.sent \in Nat
        /\ IsFiniteSet(Counting) /\ IsFiniteSet(Recorded) /\ IsFiniteSet(Passed)
        /\ Cardinality(Counting) \in Nat /\ Cardinality(Counting)' \in Nat
        /\ Cardinality(Recorded) \in Nat /\ Cardinality(Recorded)' \in Nat
        /\ Cardinality(Passed) \in Nat /\ Cardinality(Passed)' \in Nat
        /\ Cardinality(Callers) \in Nat /\ AccountLimit \in Nat
    BY AccountCounts
  <2> HIDE DEF key
  <2>4. Cardinality(Recorded)' = Cardinality(Recorded) + 1
    BY <2>1, <2>3, FS_AddElement
  <2>5. Cardinality(Counting)' <= Cardinality(Counting) + 1
    <3>1. /\ IsFiniteSet(Counting \cup {p}) /\ Cardinality(Counting \cup {p}) \in Nat
          /\ Cardinality(Counting \cup {p}) <= Cardinality(Counting) + 1
      <4>1. IsFiniteSet(Counting \cup {p})
              /\ Cardinality(Counting \cup {p}) =
                   IF p \in Counting THEN Cardinality(Counting) ELSE Cardinality(Counting) + 1
        BY <2>3, FS_AddElement
      <4> QED
        BY <2>3, <4>1
    <3>2. Cardinality(Counting)' <= Cardinality(Counting \cup {p})
      <4>1. Counting' \subseteq Counting \cup {p}
        BY <2>2 DEF Counting
      <4> QED
        BY <3>1, <4>1, FS_Subset
    <3> QED
      BY <2>3, <3>1, <3>2
  <2>6. Cardinality(Passed)' <= Cardinality(Passed)
    BY <1>1, <2>3, FS_Subset
  <2> QED
    BY <2>3, <2>4, <2>5, <2>6 DEF AccountInv
<1> QED
  BY <1>2, <1>3

\* The counter grows by a call that leaves those that count and have passed.
LEMMA IncrementCounts ==
  ASSUME TypeOK, TypeOK', AccountInv, NEW p \in Callers, Others(p),
         call'[p].key = call[p].key, Moves(p, {"increment"}, {"finish"}),
         UNCHANGED sentEvents, account'.sent = account.sent + 1
  PROVE  AccountInv'
<1>1. \A q \in Callers : Key(q)' = Key(q)
  BY DEF Others, Key
<1>2. Counting' = Counting \ {p} /\ p \in Counting
  BY <1>1 DEF Counting, Moves, Others, At
<1>3. Passed' = Passed \ {p} /\ p \in Passed
  BY DEF Passed, Moves, Others
<1>4. Recorded' = Recorded
  BY DEF Recorded
<1>5. /\ account.sent \in Nat
      /\ IsFiniteSet(Counting) /\ IsFiniteSet(Passed)
      /\ Cardinality(Counting) \in Nat /\ Cardinality(Passed) \in Nat
      /\ Cardinality(Recorded) \in Nat /\ Cardinality(Callers) \in Nat /\ AccountLimit \in Nat
  BY AccountCounts
<1>6. /\ Cardinality(Counting)' = Cardinality(Counting) - 1
      /\ Cardinality(Passed)' = Cardinality(Passed) - 1
  BY <1>2, <1>3, <1>5, FS_RemoveElement
<1>7. Cardinality(Recorded)' = Cardinality(Recorded)
  BY <1>4
<1> QED
  BY <1>5, <1>6, <1>7 DEF AccountInv

\* A call that passes the check saw room: whatever the others that have passed
\* still add to the counter, they are callers.
LEMMA PassingCounts ==
  ASSUME TypeOK, TypeOK', AccountInv, NEW p \in Callers, Others(p),
         call'[p].key = call[p].key, Moves(p, {"check"}, {"reserve"}),
         UNCHANGED sentEvents, account'.sent <= account.sent, account'.sent < AccountLimit
  PROVE  AccountInv'
<1>1. \A q \in Callers : Key(q)' = Key(q)
  BY DEF Others, Key
<1>2. Counting' = Counting /\ Recorded' = Recorded
  BY <1>1 DEF Counting, Recorded, Moves, Others, At
<1>3. /\ account.sent \in Nat
      /\ Cardinality(Counting) \in Nat /\ Cardinality(Recorded) \in Nat
      /\ Cardinality(Passed)' \in Nat /\ Cardinality(Passed)' <= Cardinality(Callers)
      /\ Cardinality(Callers) \in Nat /\ AccountLimit \in Nat
  BY AccountCounts
<1>4. Cardinality(Counting)' = Cardinality(Counting) /\ Cardinality(Recorded)' = Cardinality(Recorded)
  BY <1>2
<1>5. account'.sent \in Nat
  BY DEF TypeOK, Accounts
<1> QED
  BY <1>3, <1>4, <1>5 DEF AccountInv

\* AccountInv is kept by every step.
LEMMA AccountInvNext ==
  TypeOK /\ TypeOK' /\ EventSeen /\ AccountInv /\ [Next]_vars => AccountInv'
<1> SUFFICES ASSUME TypeOK, TypeOK', EventSeen, AccountInv, [Next]_vars PROVE AccountInv'
  OBVIOUS
<1>1. CASE ~ \E p \in Callers : Step(p) \/ Crash(p)
  <2>1. Passed' \subseteq Passed /\ Recorded' = Recorded
    BY <1>1, QuietMoves DEF Passed, Recorded
  <2>2. Counting' \subseteq Counting
    <3>1. \A q \in Callers : \/ call'[q].pc = call[q].pc /\ Key(q)' = Key(q)
                             \/ call'[q].pc = "lookup"
      BY <1>1, QuietMoves DEF Key
    <3>2. sentEvents' = sentEvents
      BY <1>1, QuietMoves
    <3> QED
      BY <3>1, <3>2 DEF Counting, At
  <2>3. account'.sent <= account.sent
    BY <1>1, QuietMoves DEF TypeOK, Accounts
  <2> QED
    BY <2>1, <2>2, <2>3, FewerCount
<1>2. ASSUME NEW p \in Callers, Step(p) \/ Crash(p)
      PROVE  AccountInv'
  <2>0. CallerStep(p) /\ Others(p) /\ call'[p].key = call[p].key /\ account.sent \in Nat
    BY <1>2, CallerMoves DEF TypeOK, Accounts
  <2>1. CASE /\ Moves(p, {"event"}, {"count"}) /\ account' = account
             /\ sentEvents' = [sentEvents EXCEPT ![Key(p)] = @ + 1]
    BY <2>0, <2>1, EventCounts
  <2>2. CASE /\ Moves(p, {"increment"}, {"finish"}) /\ UNCHANGED sentEvents
             /\ account'.sent = account.sent + 1
    BY <2>0, <2>2, IncrementCounts
  <2>3. CASE /\ Moves(p, {"check"}, {"reserve"}) /\ UNCHANGED sentEvents
             /\ account'.sent <= account.sent /\ account'.sent < AccountLimit
    BY <2>0, <2>3, PassingCounts
  <2>4. CASE /\ UNCHANGED sentEvents /\ account'.sent <= account.sent
             /\ ~(call[p].pc = "check" /\ call'[p].pc = "reserve")
    BY <2>0, <2>4, QuietCount
  <2> QED
    BY <2>0, <2>1, <2>2, <2>3, <2>4 DEF CallerStep, Moves, AfterAccept
<1> QED
  BY <1>1, <1>2

\* The account's counter on both its sides: it never exceeds the messages that
\* have a SENT event, and passes the account's limit by fewer than the calls that
\* can be under way at once.
THEOREM AccountCountHoldsAlways == Spec => []AccountCountHolds
<1>1. TypeOK /\ Init => AccountInv
  <2> SUFFICES ASSUME TypeOK, Init PROVE AccountInv
    OBVIOUS
  <2>1. Counting = {} /\ Recorded = {} /\ Passed = {} /\ account.sent = 0
    BY DEF Init, Counting, Recorded, Passed, At
  <2>2. Cardinality(Callers) \in Nat /\ Cardinality(Callers) # 0
    BY SendAssumption, FS_CardinalityType, FS_EmptySet
  <2> QED
    BY <2>1, <2>2, SendAssumption, FS_EmptySet DEF AccountInv
<1>2. TypeOK /\ TypeOK' /\ EventSeen /\ AccountInv /\ [Next]_vars => AccountInv'
  BY AccountInvNext
<1>3. Init => EventSeen
  BY DEF Init, EventSeen, At
<1>4. TypeOK /\ EventSeen /\ [Next]_vars => EventSeen'
  BY EventSeenNext
<1>5. TypeOK /\ AccountInv => AccountCountHolds
  BY AccountCounts DEF AccountInv, AccountCountHolds, NeverDoubleCounts, AccountOvershootBounded,
     Recorded
<1> QED
  BY <1>1, <1>2, <1>3, <1>4, <1>5, TypeCorrect, PTL DEF Spec
=============================================================================
