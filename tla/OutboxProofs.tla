---------------------------- MODULE OutboxProofs ----------------------------
(***************************************************************************)
(* Proofs about Outbox, for every number of workers, enrolments, steps and *)
(* mishaps and every cap: the types, one mail for each row and what rows   *)
(* and executions tell of it, the steps in order, no send after a          *)
(* suppression, the cap's overshoot and the enrolments that are served.    *)
(***************************************************************************)
EXTENDS Outbox, FiniteSetTheorems, WellFoundedInduction, TLAPS

-----------------------------------------------------------------------------
(* Keys and rows *)

Rows == [Keys -> RowType]
Statuses == {"NONE", "HELD", "QUEUED", "SENDING", "SENT", "FAILED", "CANCELLED"}

\* A key is an enrolment and a step; there is one.
LEMMA KeyFacts ==
  /\ Keys # {}
  /\ \A k \in Keys : k = <<k[1], k[2]>> /\ k[1] \in Enrolments /\ k[2] \in Steps
  /\ \A e \in Enrolments, s \in Steps : /\ <<e, s>> \in Keys
                                        /\ <<e, s>>[1] = e /\ <<e, s>>[2] = s
  /\ 1 \in Steps /\ Steps \subseteq Nat /\ ActiveSteps \subseteq Steps
<1>1. LastStep \in Nat /\ LastStep >= 1
  BY OutboxAssumption
<1>2. 1 \in Steps /\ Steps \subseteq Nat
  BY <1>1 DEF Steps
<1>3. PICK e \in Enrolments : TRUE
  BY OutboxAssumption
<1>4. <<e, 1>> \in Keys
  BY <1>2, <1>3 DEF Keys
<1>5. ActiveSteps \subseteq Steps
  BY OutboxAssumption
<1> QED
  BY <1>2, <1>4, <1>5 DEF Keys

\* A row that changes its status keeps the rest.
LEMMA SetRowEffect ==
  ASSUME row \in Rows, NEW k \in Keys, NEW status \in Statuses, SetRow(k, status)
  PROVE  /\ row' \in Rows
         /\ row'[k].status = status /\ row'[k].dry = row[k].dry /\ row'[k].gen = row[k].gen
         /\ row'[k].today = row[k].today /\ row'[k].fixable = row[k].fixable
         /\ \A j \in Keys \ {k} : row'[j] = row[j]
BY DEF Rows, SetRow, RowType, Statuses

\* So does one that is marked as sent, but for what the mark says.
LEMMA MarkSentEffect ==
  ASSUME row \in Rows, NEW k \in Keys, NEW dry \in BOOLEAN, MarkSent(k, dry)
  PROVE  /\ row' \in Rows
         /\ row'[k].status = "SENT" /\ row'[k].dry = dry /\ row'[k].gen = row[k].gen
         /\ \A j \in Keys \ {k} : row'[j] = row[j]
<1>1. row[k] \in RowType
  BY DEF Rows
<1>2. row' = [row EXCEPT ![k] = [row[k] EXCEPT !.status = "SENT", !.today = TRUE, !.dry = dry]]
  BY <1>1 DEF Rows, MarkSent
<1>3. /\ [row[k] EXCEPT !.status = "SENT", !.today = TRUE, !.dry = dry] \in RowType
      /\ [row[k] EXCEPT !.status = "SENT", !.today = TRUE, !.dry = dry].status = "SENT"
      /\ [row[k] EXCEPT !.status = "SENT", !.today = TRUE, !.dry = dry].dry = dry
      /\ [row[k] EXCEPT !.status = "SENT", !.today = TRUE, !.dry = dry].gen = row[k].gen
  BY <1>1 DEF RowType
<1> QED
  BY <1>2, <1>3 DEF Rows

\* A deleted row is no row; its generation is remembered.
LEMMA DropEffect ==
  ASSUME row \in Rows, NEW k \in Keys,
         row' = [row EXCEPT ![k] = [NoRow EXCEPT !.gen = row[k].gen]]
  PROVE  /\ row' \in Rows
         /\ row'[k].status = "NONE" /\ row'[k].dry = FALSE /\ row'[k].gen = row[k].gen
         /\ row'[k].today = FALSE
         /\ \A j \in Keys \ {k} : row'[j] = row[j]
BY DEF Rows, NoRow, RowType

\* What the contact, the users and the clock do to rows: none becomes or ceases
\* to be anything but a row that waits, and none comes to be of today.
LEMMA OutsideRows ==
  ASSUME row \in Rows, Outside
  PROVE  /\ row' \in Rows
         /\ \A k \in Keys :
              /\ row'[k].dry = row[k].dry /\ row'[k].gen = row[k].gen
              /\ row'[k].today => row[k].today
              /\ \/ row'[k].status = row[k].status
                 \/ row[k].status \in {"QUEUED", "HELD"} /\ row'[k].status = "CANCELLED"
<1>1. CASE HookCancel
  BY <1>1 DEF HookCancel, Rows, RowType
<1> DEFINE Kept(k) == /\ row'[k].dry = row[k].dry /\ row'[k].gen = row[k].gen
                       /\ row'[k].today = row[k].today /\ row'[k].status = row[k].status
<1>2. CASE OutOfOffice
  <2>1. row' = [k \in Keys |-> IF row[k].status = "QUEUED" THEN [row[k] EXCEPT !.due = FALSE]
                               ELSE row[k]]
    BY <1>2 DEF OutOfOffice
  <2>2. ASSUME NEW k \in Keys
        PROVE  [row[k] EXCEPT !.due = FALSE] \in RowType /\ row'[k] \in RowType /\ Kept(k)
    BY <2>1 DEF Rows, RowType
  <2> QED
    BY <2>1, <2>2 DEF Rows
<1>3. CASE NewDay
  BY <1>3 DEF NewDay, Rows, RowType
<1>4. CASE \E k \in Keys : Tick(k)
  <2>1. PICK t \in Keys : Tick(t)
    BY <1>4
  <2>2. row' = [row EXCEPT ![t] = [row[t] EXCEPT !.due = TRUE]]
    BY <2>1 DEF Tick, Rows
  <2>3. ASSUME NEW k \in Keys
        PROVE  [row[k] EXCEPT !.due = TRUE] \in RowType /\ row'[k] \in RowType /\ Kept(k)
    BY <2>2 DEF Rows, RowType
  <2> QED
    BY <2>2, <2>3 DEF Rows
<1>5. CASE row' = row
  BY <1>5 DEF Rows
<1>6. CASE \/ \E by \in {"link", "mail", "none"} : Unsubscribe(by)
           \/ HookStop \/ StopEnrolment
           \/ \E e \in Enrolments : Pause(e) \/ Resume(e)
           \/ \E status \in {"APPROVED", "REJECTED"} : Review(status)
           \/ \E s \in Shadows : SetShadow(s)
  BY <1>5, <1>6 DEF Unsubscribe, HookStop, StopEnrolment, Pause, Resume, Review, SetShadow
<1> QED
  BY <1>1, <1>2, <1>3, <1>4, <1>6 DEF Outside

-----------------------------------------------------------------------------
(* Workers *)

Works == [Workers -> WorkType]

\* A worker that does nothing.
LEMMA IdleWork ==
  /\ Idle \in WorkType
  /\ Idle.at = "idle" /\ Idle.job = "none" /\ Idle.todo = {} /\ Idle.dry = FALSE
  /\ Idle.late = "no" /\ Idle.room = 0 /\ Idle.key \in Keys
<1>1. (CHOOSE k \in Keys : TRUE) \in Keys
  BY KeyFacts
<1>2. 1 \in Steps /\ 0 \in 0 .. Cap /\ 0 \in Nat
  BY KeyFacts, OutboxAssumption
<1>3. "idle" \in Spots /\ "none" \in Jobs
  BY DEF Spots, Jobs
<1> QED
  BY <1>1, <1>2, <1>3 DEF Idle, WorkType

\* One worker's step leaves the others alone.
LEMMA WorkEffect ==
  ASSUME work \in Works, NEW w \in Workers, NEW new \in WorkType,
         work' = [work EXCEPT ![w] = new]
  PROVE  work' \in Works /\ work'[w] = new /\ \A x \in Workers \ {w} : work'[x] = work[x]
BY DEF Works

\* Moving on changes the spot.
LEMMA GotoEffect ==
  ASSUME work \in Works, NEW w \in Workers, NEW at \in Spots, Goto(w, at)
  PROVE  /\ work' \in Works
         /\ \A x \in Workers \ {w} : work'[x] = work[x]
         /\ work'[w].at = at
         /\ work'[w].job = work[w].job /\ work'[w].key = work[w].key
         /\ work'[w].step = work[w].step /\ work'[w].gen = work[w].gen
         /\ work'[w].todo = work[w].todo /\ work'[w].dry = work[w].dry
         /\ work'[w].late = work[w].late /\ work'[w].room = work[w].room
BY DEF Works, Goto, WorkType

\* So does ending, for good or to go on with the job's next row.
LEMMA RestWork ==
  ASSUME work \in Works, NEW w \in Workers
  PROVE  /\ Rest(w) \in WorkType
         /\ Rest(w).dry = FALSE /\ Rest(w).late = "no"
         /\ \/ Rest(w) = Idle
            \/ Rest(w).at = "count" /\ Rest(w).job = "send" /\ Rest(w).todo = {}
            \/ Rest(w).at = "held" /\ Rest(w).job = "release"
            \/ /\ Rest(w).at = "claim" /\ Rest(w).job = "send"
               /\ work[w].job = "send" /\ Rest(w).todo = work[w].todo
<1>0. /\ work[w].todo \in SUBSET (Keys \X Nat) /\ work[w].cfg \in BOOLEAN
      /\ {"count", "held", "claim"} \subseteq Spots /\ {"send", "release"} \subseteq Jobs
  BY DEF Works, WorkType, Spots, Jobs
<1>1. CASE work[w].job = "release" /\ work[w].todo = {}
  <2>1. Rest(w) = [Idle EXCEPT !.at = "count", !.job = "send", !.manual = TRUE]
    BY <1>1 DEF Rest
  <2> QED
    BY <1>0, <2>1, IdleWork DEF WorkType
<1>2. CASE work[w].job = "release" /\ work[w].todo # {}
  <2>1. Rest(w) = [Idle EXCEPT !.at = "held", !.job = "release", !.todo = work[w].todo]
    BY <1>2 DEF Rest
  <2> QED
    BY <1>0, <2>1, IdleWork DEF WorkType
<1>3. CASE work[w].job = "send" /\ work[w].todo # {}
  <2>1. Rest(w) = [Idle EXCEPT !.at = "claim", !.job = "send", !.todo = work[w].todo,
                               !.cfg = work[w].cfg]
    BY <1>3 DEF Rest
  <2> QED
    BY <1>0, <1>3, <2>1, IdleWork DEF WorkType
<1>4. CASE ~(work[w].job = "release") /\ ~(work[w].job = "send" /\ work[w].todo # {})
  <2>1. Rest(w) = Idle
    BY <1>4 DEF Rest
  <2> QED
    BY <2>1, IdleWork
<1> QED
  BY <1>1, <1>2, <1>3, <1>4

\* An exception ends the work or marks the row as failed.
LEMMA ThrownWork ==
  ASSUME work \in Works, NEW w \in Workers
  PROVE  /\ Thrown(w) \in WorkType
         /\ \/ Thrown(w) = Rest(w) \/ Thrown(w) = Idle
            \/ /\ work[w].job = "send" /\ ~work[w].dry
               /\ Thrown(w).at = "fail" /\ Thrown(w).job = "send"
               /\ Thrown(w).key = work[w].key /\ Thrown(w).todo = work[w].todo
               /\ Thrown(w).dry = work[w].dry /\ Thrown(w).late = work[w].late
<1>1. CASE work[w].job = "send" /\ ~work[w].dry
  <2>1. Thrown(w) = [work[w] EXCEPT !.at = "fail", !.qcfg = FALSE]
    BY <1>1 DEF Thrown
  <2>2. work[w] \in WorkType /\ "fail" \in Spots
    BY DEF Works, Spots
  <2> QED
    BY <1>1, <2>1, <2>2 DEF WorkType
<1>2. CASE ~(work[w].job = "send" /\ ~work[w].dry)
  <2>1. Thrown(w) = Rest(w) \/ Thrown(w) = Idle
    BY <1>2 DEF Thrown
  <2> QED
    BY <2>1, RestWork, IdleWork
<1> QED
  BY <1>1, <1>2

\* Where a worker is says what job it does; one that is about to claim has sent
\* nothing dry, and one that claimed late is not past the row's checks.
Queueing == {"qread", "qfind", "qdrop", "qmake"}
Off == {"idle", "prior", "used", "enroll", "consume", "held", "count", "list", "claim"}
WorkOK(r) ==
  /\ r.at \in {"prior", "used", "enroll", "consume"} => r.job = "enroll"
  /\ r.at = "held" => r.job = "release"
  /\ r.at \in {"count", "list", "claim", "load", "shadow", "sending", "sent", "book",
               "advance", "fail"} => r.job = "send"
  /\ r.at = "claim" => ~r.dry
  /\ r.late = "suppressed" => r.at = "load"
WorkInv == \A w \in Workers :
  WorkOK(work[w]) /\ (work[w].late = "suppressed" => suppressed)
\* A call under way is the send of its worker's row.
CallsInv == \A w \in Workers :
  call[w].at # "idle" => At(w, "sending") /\ call[w].key = Key(w)
BaseInv == TypeOK /\ WorkInv /\ CallsInv

\* What the proofs take from it.
LEMMA BaseFacts ==
  ASSUME BaseInv
  PROVE  /\ row \in Rows /\ work \in Works /\ done \subseteq Keys /\ Send!TypeOK
         /\ enr \in [Enrolments -> [status : Open \cup {"NONE", "STOPPED", "COMPLETED"},
                                    step : Steps]]
         /\ \A w \in Workers : /\ WorkOK(work[w]) /\ work[w] \in WorkType
                               /\ work[w].key \in Keys /\ work[w].step \in Steps
                               /\ Enrolment(w) \in Enrolments /\ Target(w) \in Keys
                               /\ work[w].todo \in SUBSET (Keys \X Nat)
<1>1. row \in Rows /\ work \in Works /\ done \subseteq Keys /\ Send!TypeOK
  BY DEF BaseInv, TypeOK, Rows, Works
<1>2. ASSUME NEW w \in Workers
      PROVE  /\ WorkOK(work[w]) /\ work[w] \in WorkType
             /\ work[w].key \in Keys /\ work[w].step \in Steps
             /\ Enrolment(w) \in Enrolments /\ Target(w) \in Keys
             /\ work[w].todo \in SUBSET (Keys \X Nat)
  <2>1. WorkOK(work[w]) /\ work[w] \in WorkType
    BY <1>1 DEF BaseInv, WorkInv, Works
  <2>2. work[w].key \in Keys /\ work[w].step \in Steps /\ work[w].todo \in SUBSET (Keys \X Nat)
    BY <2>1 DEF WorkType
  <2> QED
    BY <2>1, <2>2, KeyFacts DEF Enrolment, Key, Target
<1> QED
  BY <1>1, <1>2 DEF BaseInv, TypeOK

\* What a step of a worker leaves behind: a worker off duty, or another spot.
OthersStay(w) == \A x \in Workers \ {w} : work'[x] = work[x]
Leaves(w) == work' \in Works /\ OthersStay(w) /\ work'[w].at \in Off /\ WorkOK(work'[w])

\* Ending, with or without a row left to do, is going off duty.
LEMMA RestLeaves ==
  ASSUME BaseInv, NEW w \in Workers, Done(w) \/ Stop(w)
  PROVE  Leaves(w)
<1>1. Rest(w) \in WorkType /\ Rest(w).at \in Off /\ WorkOK(Rest(w))
  BY BaseFacts, RestWork, IdleWork DEF Off, WorkOK
<1>2. Idle \in WorkType /\ Idle.at \in Off /\ WorkOK(Idle)
  BY IdleWork DEF Off, WorkOK
<1> QED
  BY <1>1, <1>2, BaseFacts, WorkEffect DEF Done, Stop, Leaves, OthersStay

\* queueStep returns to its caller.
LEMMA ReturnLeaves ==
  ASSUME BaseInv, NEW w \in Workers, work[w].at \in Queueing, Return(w)
  PROVE  Leaves(w)
<1>1. CASE work[w].job = "enroll"
  <2> DEFINE new == [work[w] EXCEPT !.at = "consume", !.qcfg = FALSE]
  <2>1. work[w] \in WorkType /\ "consume" \in Spots /\ work[w].late # "suppressed"
    BY BaseFacts DEF Spots, WorkOK, Queueing
  <2>2. new \in WorkType /\ new.at = "consume" /\ new.job = work[w].job /\ new.late = work[w].late
    BY <2>1 DEF WorkType
  <2>3. work' = [work EXCEPT ![w] = new]
    BY <1>1, BaseFacts DEF Return, Works
  <2>4. new.at \in Off /\ WorkOK(new)
    BY <1>1, <2>1, <2>2 DEF Off, WorkOK
  <2> HIDE DEF new
  <2> QED
    BY <2>2, <2>3, <2>4, BaseFacts, WorkEffect DEF Leaves, OthersStay
<1> QED
  BY <1>1, RestLeaves DEF Return

\* An exception goes off duty, or to the catch block of the row that was sent.
Fails(w) ==
  /\ work' \in Works /\ OthersStay(w) /\ WorkOK(work'[w])
  /\ work[w].job = "send" /\ ~work[w].dry
  /\ work'[w].at = "fail" /\ work'[w].job = "send" /\ work'[w].key = work[w].key
  /\ work'[w].todo = work[w].todo /\ ~work'[w].dry
\* So say the catch blocks.
LEMMA ThrownLeaves ==
  ASSUME BaseInv, NEW w \in Workers,
         work[w].at \in {"sent", "book", "advance"} \cup Queueing,
         work' = [work EXCEPT ![w] = Thrown(w)]
  PROVE  Leaves(w) \/ Fails(w)
<1>1. CASE Thrown(w) = Rest(w) \/ Thrown(w) = Idle
  BY <1>1, RestLeaves DEF Done, Stop
<1>2. CASE /\ work[w].job = "send" /\ ~work[w].dry
           /\ Thrown(w).at = "fail" /\ Thrown(w).job = "send"
           /\ Thrown(w).key = work[w].key /\ Thrown(w).todo = work[w].todo
           /\ Thrown(w).dry = work[w].dry /\ Thrown(w).late = work[w].late
  <2>1. work[w].late # "suppressed"
    BY BaseFacts DEF WorkOK, Queueing
  <2>2. Thrown(w) \in WorkType /\ WorkOK(Thrown(w))
    BY <1>2, <2>1, BaseFacts, ThrownWork DEF WorkOK
  <2> QED
    BY <1>2, <2>2, BaseFacts, WorkEffect DEF Fails, OthersStay
<1> QED
  BY <1>1, <1>2, BaseFacts, ThrownWork

\* The steps before a row is at hand.
LEMMA OffMoves ==
  ASSUME BaseInv, NEW w \in Workers,
         \/ Pick(w) \/ Prior(w) \/ Used(w) \/ Consume(w) \/ Release(w) \/ Batch(w)
         \/ Count(w) \/ List(w)
  PROVE  Leaves(w)
<1> USE BaseFacts
<1>0. /\ {"idle", "prior", "used", "enroll", "consume", "held", "count", "list", "claim"}
           \subseteq Spots
      /\ {"enroll", "release", "send"} \subseteq Jobs
  BY DEF Spots, Jobs
<1>1. ASSUME NEW new \in WorkType, work' = [work EXCEPT ![w] = new],
             new.at \in Off, WorkOK(new)
      PROVE  Leaves(w)
  BY <1>1, WorkEffect DEF Leaves, OthersStay
<1>2. ASSUME NEW at \in {"prior", "used", "enroll", "consume"}, Goto(w, at),
             work[w].job = "enroll", work[w].late # "suppressed"
      PROVE  Leaves(w)
  BY <1>0, <1>2, GotoEffect DEF Leaves, OthersStay, Off, WorkOK
<1>3. CASE Prior(w) \/ Used(w)
  BY <1>2, <1>3 DEF Prior, Used, At, WorkOK
<1>4. CASE Consume(w)
  BY <1>4, RestLeaves DEF Consume
<1>5. CASE Pick(w)
  <2> DEFINE new == [Idle EXCEPT !.at = "prior", !.job = "enroll", !.cfg = shadow]
  <2>1. shadow \in BOOLEAN
    BY OutboxAssumption DEF BaseInv, TypeOK
  <2>2. new \in WorkType /\ new.at = "prior" /\ new.job = "enroll" /\ new.late = "no"
    BY <1>0, <2>1, IdleWork DEF WorkType
  <2>3. work' = [work EXCEPT ![w] = new]
    BY <1>5 DEF Pick
  <2> HIDE DEF new
  <2> QED
    BY <1>1, <2>2, <2>3 DEF Off, WorkOK
<1>6. ASSUME NEW man \in BOOLEAN,
             work' = [work EXCEPT ![w] = [Idle EXCEPT !.at = "count", !.job = "send",
                                                      !.manual = man]]
      PROVE  Leaves(w)
  <2> DEFINE new == [Idle EXCEPT !.at = "count", !.job = "send", !.manual = man]
  <2>1. new \in WorkType /\ new.at = "count" /\ new.job = "send" /\ new.late = "no"
    BY <1>0, IdleWork DEF WorkType
  <2> QED
    BY <1>1, <1>6, <2>1 DEF Off, WorkOK
<1>7. CASE Release(w)
  <2> DEFINE held == {k \in Keys : row[k].status = "HELD" /\ row[k].fixable}
             todo == held \X {0}
             new  == [Idle EXCEPT !.at = "held", !.job = "release", !.todo = todo]
  <2>0. todo \in SUBSET (Keys \X Nat)
    OBVIOUS
  <2> HIDE DEF todo
  <2>1. new \in WorkType /\ new.at = "held" /\ new.job = "release" /\ new.late = "no"
    BY <1>0, <2>0, IdleWork DEF WorkType
  <2>2. CASE held = {}
    BY <1>6, <1>7, <2>2 DEF Release
  <2>3. CASE held # {}
    <3>1. work' = [work EXCEPT ![w] = new]
      BY <1>7, <2>3 DEF Release, todo
    <3> HIDE DEF new
    <3> QED
      BY <1>1, <2>1, <3>1 DEF Off, WorkOK
  <2> QED
    BY <2>2, <2>3
<1>8. CASE Batch(w)
  <2> DEFINE new == [Idle EXCEPT !.at = "count", !.job = "send"]
  <2>1. new \in WorkType /\ new.at = "count" /\ new.job = "send" /\ new.late = "no"
    BY <1>0, IdleWork DEF WorkType
  <2> QED
    BY <1>1, <1>8, <2>1 DEF Batch, Off, WorkOK
<1>9. CASE Count(w) /\ Room # 0
  <2> DEFINE new == [work[w] EXCEPT !.at = "list", !.room = Room, !.cfg = shadow]
  <2>1. shadow \in BOOLEAN /\ work[w].job = "send" /\ work[w].late # "suppressed"
    BY <1>9, OutboxAssumption DEF BaseInv, TypeOK, Count, At, WorkOK
  <2>2. Room \in 0 .. Cap
    <3>1. SentToday \subseteq Keys /\ IsFiniteSet(Keys)
      <4>1. IsFiniteSet(Steps)
        BY OutboxAssumption, FS_Interval DEF Steps
      <4> QED
        BY <4>1, OutboxAssumption, FS_Product DEF SentToday, Keys
    <3>2. Cardinality(SentToday) \in Nat /\ Cap \in Nat
      BY <3>1, FS_Subset, FS_CardinalityType, OutboxAssumption
    <3> QED
      BY <3>2 DEF Room
  <2>3. new \in WorkType /\ new.at = "list" /\ new.job = "send" /\ new.late = work[w].late
    BY <1>0, <2>1, <2>2 DEF WorkType
  <2>4. work' = [work EXCEPT ![w] = new]
    BY <1>9 DEF Count, Works
  <2> HIDE DEF new
  <2> QED
    BY <1>1, <2>1, <2>3, <2>4 DEF Off, WorkOK
<1>10. CASE Count(w) /\ Room = 0
  BY <1>10, RestLeaves DEF Count
<1>11. CASE List(w)
  <2>1. CASE Stop(w)
    BY <2>1, RestLeaves
  <2>2. ASSUME NEW batch \in SUBSET Keys,
               work' = [work EXCEPT ![w] =
                 [Idle EXCEPT !.at = "claim", !.job = "send", !.cfg = work[w].cfg,
                              !.todo = {<<k, row[k].gen>> : k \in batch}]]
        PROVE  Leaves(w)
    <3> DEFINE todo == {<<k, row[k].gen>> : k \in batch}
               new  == [Idle EXCEPT !.at = "claim", !.job = "send", !.cfg = work[w].cfg,
                                    !.todo = todo]
    <3>1. todo \in SUBSET (Keys \X Nat) /\ work[w].cfg \in BOOLEAN
      BY DEF Rows, RowType, WorkType
    <3> HIDE DEF todo
    <3>2. new \in WorkType /\ new.at = "claim" /\ new.job = "send" /\ new.late = "no" /\ ~new.dry
      BY <1>0, <3>1, IdleWork DEF WorkType
    <3>3. work' = [work EXCEPT ![w] = new]
      BY <2>2 DEF todo
    <3> HIDE DEF new
    <3> QED
      BY <1>1, <3>2, <3>3 DEF Off, WorkOK
  <2> QED
    BY <1>11, <2>1, <2>2 DEF List, Due
<1> HIDE BaseFacts
<1> QED
  BY <1>3, <1>4, <1>5, <1>7, <1>8, <1>9, <1>10, <1>11

\* A row at hand: of the enrolment that was made, or of one that is released.
Enters(w) ==
  /\ work' \in Works /\ OthersStay(w) /\ WorkOK(work'[w])
  /\ work'[w].at = "qread" /\ work'[w].job \in {"enroll", "release"}
\* enroll makes an enrolment at its first step, for its row to be queued.
LEMMA EnrollMoves ==
  ASSUME BaseInv, NEW w \in Workers, Enroll(w)
  PROVE  \/ Leaves(w) /\ enr' = enr
         \/ /\ Enters(w) /\ work'[w].job = "enroll"
            /\ \E e \in Enrolments : /\ enr[e].status = "NONE"
                                     /\ enr' = [enr EXCEPT ![e] = [status |-> "ACTIVE", step |-> 1]]
                                     /\ work'[w].key = <<e, 1>>
<1>1. CASE Stop(w) /\ enr' = enr
  BY <1>1, RestLeaves
<1>2. ASSUME NEW e \in Enrolments \ Enrolled,
             enr' = [enr EXCEPT ![e] = [status |-> "ACTIVE", step |-> 1]],
             work' = [work EXCEPT ![w].at = "qread", ![w].key = <<e, 1>>]
      PROVE  Enters(w) /\ work'[w].job = "enroll" /\ work'[w].key = <<e, 1>>
  <2> DEFINE new == [work[w] EXCEPT !.at = "qread", !.key = <<e, 1>>]
  <2>1. /\ work[w] \in WorkType /\ work[w].job = "enroll" /\ work[w].late # "suppressed"
        /\ "qread" \in Spots /\ <<e, 1>> \in Keys
    BY BaseFacts, KeyFacts DEF Enroll, At, WorkOK, Spots
  <2>2. /\ new \in WorkType /\ new.at = "qread" /\ new.key = <<e, 1>>
        /\ new.job = work[w].job /\ new.late = work[w].late
    BY <2>1 DEF WorkType
  <2>3. work' = [work EXCEPT ![w] = new]
    BY <1>2, BaseFacts DEF Works
  <2> HIDE DEF new
  <2>4. WorkOK(new)
    BY <2>1, <2>2 DEF WorkOK
  <2> QED
    BY <2>1, <2>2, <2>3, <2>4, BaseFacts, WorkEffect DEF Enters, OthersStay
<1> QED
  BY <1>1, <1>2 DEF Enroll, Enrolled

\* The row at hand stays at hand.
Stays(w) ==
  /\ work' \in Works /\ OthersStay(w) /\ WorkOK(work'[w])
  /\ work'[w].job = work[w].job /\ work'[w].key = work[w].key
  /\ work'[w].todo = work[w].todo

\* Moving on is staying, if the job goes on there.
LEMMA GotoStays ==
  ASSUME BaseInv, NEW w \in Workers, NEW at \in Spots \ Off, Goto(w, at),
         work[w].late # "suppressed", at \notin Queueing => work[w].job = "send"
  PROVE  /\ Stays(w)
         /\ work'[w].at = at /\ work'[w].dry = work[w].dry /\ work'[w].step = work[w].step
<1>1. /\ work' \in Works /\ OthersStay(w)
      /\ work'[w].at = at
      /\ work'[w].job = work[w].job /\ work'[w].key = work[w].key
      /\ work'[w].todo = work[w].todo /\ work'[w].dry = work[w].dry
      /\ work'[w].late = work[w].late /\ work'[w].step = work[w].step
  BY BaseFacts, GotoEffect DEF OthersStay
<1>2. WorkOK(work'[w])
  BY <1>1 DEF WorkOK, Off, Queueing
<1> QED
  BY <1>1, <1>2 DEF Stays

\* queueStep reads the enrolment's step.
LEMMA QueueReadMoves ==
  ASSUME BaseInv, NEW w \in Workers, QueueRead(w)
  PROVE  /\ At(w, "qread")
         /\ \/ Leaves(w) /\ enr[Enrolment(w)].step \notin ActiveSteps
            \/ /\ Stays(w) /\ work'[w].at = "qfind" /\ work'[w].dry = work[w].dry
               /\ work'[w].step = enr[Enrolment(w)].step
<1> DEFINE s == enr[Enrolment(w)].step
           c == IF work[w].job = "enroll" THEN work[w].cfg ELSE shadow
           new == [work[w] EXCEPT !.at = "qfind", !.step = s, !.qcfg = c]
<1>0. /\ work[w] \in WorkType /\ work[w].late # "suppressed" /\ At(w, "qread")
      /\ s \in Steps /\ c \in BOOLEAN /\ "qfind" \in Spots
  <2>1. At(w, "qread") /\ shadow \in BOOLEAN
    BY OutboxAssumption DEF QueueRead, BaseInv, TypeOK
  <2> QED
    BY <2>1, BaseFacts DEF At, WorkOK, WorkType, Spots
<1>1. CASE s \notin ActiveSteps
  <2>1. Return(w)
    BY <1>1 DEF QueueRead
  <2> QED
    BY <1>0, <1>1, <2>1, ReturnLeaves DEF At, Queueing
<1>2. CASE s \in ActiveSteps
  <2>1. work' = [work EXCEPT ![w] = new]
    BY <1>2, BaseFacts DEF QueueRead, Works
  <2> HIDE DEF s, c
  <2>2. /\ new \in WorkType /\ new.at = "qfind" /\ new.step = s /\ new.job = work[w].job
        /\ new.key = work[w].key /\ new.todo = work[w].todo /\ new.dry = work[w].dry
        /\ new.late = work[w].late
    BY <1>0 DEF WorkType
  <2> HIDE DEF new
  <2>3. WorkOK(new)
    BY <1>0, <2>2 DEF WorkOK
  <2>4. work' \in Works /\ work'[w] = new /\ OthersStay(w)
    BY <2>1, <2>2, BaseFacts, WorkEffect DEF OthersStay
  <2> QED
    BY <1>0, <2>2, <2>3, <2>4 DEF Stays, s
<1> QED
  BY <1>1, <1>2

\* It finds no row, one to build again, or one to leave alone.
LEMMA QueueFindMoves ==
  ASSUME BaseInv, NEW w \in Workers, QueueFind(w)
  PROVE  /\ At(w, "qfind")
         /\ \/ Leaves(w) /\ row[Target(w)].status # "NONE"
            \/ /\ Stays(w) /\ work'[w].step = work[w].step /\ work'[w].dry = work[w].dry
               /\ \/ work'[w].at = "qmake" /\ row[Target(w)].status = "NONE"
                  \/ /\ work'[w].at = "qdrop" /\ work'[w].gen = row[Target(w)].gen
                     /\ row[Target(w)].status \in {"HELD", "CANCELLED"}
<1> DEFINE g == row[Target(w)].gen
           new == [work[w] EXCEPT !.at = "qdrop", !.gen = g]
<1>0. /\ work[w] \in WorkType /\ work[w].late # "suppressed" /\ At(w, "qfind")
      /\ g \in Nat /\ {"qdrop", "qmake"} \subseteq Spots \ Off
  BY BaseFacts DEF QueueFind, At, WorkOK, Rows, RowType, Spots, Off
<1>1. CASE Return(w) /\ row[Target(w)].status # "NONE"
  BY <1>0, <1>1, ReturnLeaves DEF At, Queueing
<1>2. CASE Goto(w, "qmake") /\ row[Target(w)].status = "NONE"
  BY <1>0, <1>2, GotoStays DEF Queueing
<1>3. CASE /\ work' = [work EXCEPT ![w].at = "qdrop", ![w].gen = g]
           /\ Rebuildable(Target(w))
  <2>1. work' = [work EXCEPT ![w] = new]
    BY <1>3, BaseFacts DEF Works
  <2> HIDE DEF g
  <2>2. /\ new \in WorkType /\ new.at = "qdrop" /\ new.gen = g /\ new.job = work[w].job
        /\ new.key = work[w].key /\ new.todo = work[w].todo /\ new.dry = work[w].dry
        /\ new.late = work[w].late /\ new.step = work[w].step
    BY <1>0 DEF WorkType
  <2> HIDE DEF new
  <2>3. WorkOK(new)
    BY <1>0, <2>2 DEF WorkOK
  <2>4. work' \in Works /\ work'[w] = new /\ OthersStay(w)
    BY <2>1, <2>2, BaseFacts, WorkEffect DEF OthersStay
  <2> QED
    BY <1>0, <1>3, <2>2, <2>3, <2>4 DEF Stays, Rebuildable, g
<1> QED
  BY <1>1, <1>2, <1>3 DEF QueueFind

\* It deletes the row it saw, or finds that another worker did.
LEMMA QueueDropMoves ==
  ASSUME BaseInv, NEW w \in Workers, QueueDrop(w)
  PROVE  /\ At(w, "qdrop")
         /\ \/ /\ row' = row /\ (Leaves(w) \/ Fails(w))
               /\ row[Target(w)].status = "NONE" \/ row[Target(w)].gen # work[w].gen
            \/ /\ Stays(w) /\ work'[w].at = "qmake" /\ work'[w].step = work[w].step
               /\ work'[w].dry = work[w].dry
               /\ row[Target(w)].status # "NONE" /\ row[Target(w)].gen = work[w].gen
               /\ row' = [row EXCEPT ![Target(w)] = [NoRow EXCEPT !.gen = row[Target(w)].gen]]
<1>0. /\ At(w, "qdrop") /\ work[w].late # "suppressed" /\ "qmake" \in Spots \ Off
      /\ work[w].at \in Queueing
  BY BaseFacts DEF QueueDrop, At, WorkOK, Spots, Off, Queueing
<1>1. CASE row[Target(w)].status # "NONE" /\ row[Target(w)].gen = work[w].gen
  <2>1. Goto(w, "qmake")
    BY <1>1 DEF QueueDrop
  <2> QED
    BY <1>0, <1>1, <2>1, GotoStays DEF QueueDrop, Queueing
<1>2. CASE ~(row[Target(w)].status # "NONE" /\ row[Target(w)].gen = work[w].gen)
  <2>1. row' = row /\ work' = [work EXCEPT ![w] = Thrown(w)]
    BY <1>2 DEF QueueDrop
  <2> QED
    BY <1>0, <1>2, <2>1, ThrownLeaves
<1> QED
  BY <1>1, <1>2

\* It makes the row, held or queued, or finds that another worker did.
LEMMA QueueMakeMoves ==
  ASSUME BaseInv, NEW w \in Workers, QueueMake(w)
  PROVE  /\ At(w, "qmake")
         /\ \/ /\ row[Target(w)].status # "NONE" /\ row' = row
               /\ Leaves(w) \/ Fails(w)
            \/ /\ row[Target(w)].status = "NONE" /\ Leaves(w)
               /\ row' \in Rows
               /\ row'[Target(w)].status \in {"HELD", "QUEUED"}
               /\ row'[Target(w)].dry = FALSE /\ row'[Target(w)].today = FALSE
               /\ row'[Target(w)].gen = row[Target(w)].gen + 1
               /\ \A k \in Keys \ {Target(w)} : row'[k] = row[k]
<1>0. At(w, "qmake") /\ work[w].at \in Queueing
  BY DEF QueueMake, At, Queueing
<1>1. CASE row[Target(w)].status # "NONE"
  <2>1. row' = row /\ work' = [work EXCEPT ![w] = Thrown(w)]
    BY <1>1 DEF QueueMake
  <2> QED
    BY <1>0, <1>1, <2>1, ThrownLeaves
<1>2. CASE row[Target(w)].status = "NONE"
  <2>1. Return(w)
    BY <1>2 DEF QueueMake
  <2>2. Leaves(w)
    BY <1>0, <2>1, ReturnLeaves
  <2>3. PICK status \in {"HELD", "QUEUED"}, fixable \in BOOLEAN, due \in BOOLEAN :
          row' = [row EXCEPT ![Target(w)] = NewRow(w, status, fixable, due)]
    BY <1>2 DEF QueueMake
  <2>4. Target(w) \in Keys /\ row[Target(w)].gen \in Nat /\ work[w].qcfg \in BOOLEAN
    BY BaseFacts DEF Rows, RowType, WorkType
  <2>5. /\ NewRow(w, status, fixable, due) \in RowType
        /\ NewRow(w, status, fixable, due).status = status
        /\ NewRow(w, status, fixable, due).dry = FALSE
        /\ NewRow(w, status, fixable, due).today = FALSE
        /\ NewRow(w, status, fixable, due).gen = row[Target(w)].gen + 1
    BY <2>4 DEF NewRow, RowType
  <2> QED
    BY <1>0, <1>2, <2>2, <2>3, <2>4, <2>5, BaseFacts DEF Rows
<1> QED
  BY <1>1, <1>2

\* releaseFixableHolds takes the next of the rows it listed.
LEMMA ReleaseMoves ==
  ASSUME BaseInv, NEW w \in Workers, ReleaseNext(w)
  PROVE  Enters(w) /\ work'[w].job = "release"
<1>1. PICK item \in work[w].todo :
        work' = [work EXCEPT ![w].at = "qread", ![w].key = item[1],
                             ![w].todo = work[w].todo \ {item}]
  BY BaseFacts DEF ReleaseNext, Works
<1> DEFINE todo == work[w].todo \ {item}
           new  == [work[w] EXCEPT !.at = "qread", !.key = item[1], !.todo = todo]
<1>2. /\ work[w] \in WorkType /\ work[w].job = "release" /\ work[w].late # "suppressed"
      /\ "qread" \in Spots /\ item[1] \in Keys /\ todo \in SUBSET (Keys \X Nat)
  BY BaseFacts DEF ReleaseNext, At, WorkOK, Spots
<1>3. work' = [work EXCEPT ![w] = new]
  BY <1>1, BaseFacts DEF Works
<1> HIDE DEF todo
<1>4. new \in WorkType /\ new.at = "qread" /\ new.job = work[w].job /\ new.late = work[w].late
  BY <1>2 DEF WorkType
<1> HIDE DEF new
<1>5. WorkOK(new)
  BY <1>2, <1>4 DEF WorkOK
<1> QED
  BY <1>2, <1>3, <1>4, <1>5, BaseFacts, WorkEffect DEF Enters, OthersStay

\* A row is claimed: it was waiting, and is the claimer's from now on.
Claims(w) ==
  /\ work' \in Works /\ OthersStay(w) /\ WorkOK(work'[w])
  /\ work'[w].at = "load" /\ work'[w].job = "send" /\ ~work'[w].dry
  /\ work'[w].late = "suppressed" => suppressed
  /\ \E item \in work[w].todo : /\ work'[w].todo = work[w].todo \ {item}
                                /\ work'[w].key = item[1]
  /\ row[work'[w].key].status = "QUEUED" /\ SetRow(work'[w].key, "SENDING")
\* Or it is not waiting any more, and is left alone.
LEMMA ClaimMoves ==
  ASSUME BaseInv, NEW w \in Workers, Claim(w)
  PROVE  /\ At(w, "claim")
         /\ \/ Claims(w)
            \/ row' = row /\ Leaves(w)
<1>1. PICK item \in work[w].todo :
        LET k == item[1]  rest == [work[w] EXCEPT !.todo = work[w].todo \ {item}] IN
          \/ /\ row[k].status = "QUEUED" /\ row[k].gen = item[2]
             /\ SetRow(k, "SENDING")
             /\ work' = [work EXCEPT ![w] =
                  [rest EXCEPT !.at = "load", !.key = k, !.late = Knows(k[1])]]
          \/ /\ row' = row
             /\ work' = [work EXCEPT ![w] = IF rest.todo = {} THEN Idle ELSE rest]
  BY BaseFacts DEF Claim, WorkType
<1> DEFINE k == item[1]
           todo == work[w].todo \ {item}
           rest == [work[w] EXCEPT !.todo = todo]
           late == Knows(k[1])
           new == [rest EXCEPT !.at = "load", !.key = k, !.late = late]
<1>2. /\ work[w] \in WorkType /\ work[w].at = "claim" /\ work[w].job = "send" /\ ~work[w].dry
      /\ work[w].late # "suppressed" /\ "load" \in Spots /\ k \in Keys
      /\ todo \in SUBSET (Keys \X Nat)
      /\ late \in {"no", "stopped", "suppressed"} /\ (late = "suppressed" => suppressed)
  BY BaseFacts DEF Claim, At, WorkOK, Spots, Knows
<1>3. CASE row[k].status = "QUEUED" /\ SetRow(k, "SENDING") /\ work' = [work EXCEPT ![w] = new]
  <2> HIDE DEF late, todo, k
  <2>1. /\ new \in WorkType /\ new.at = "load" /\ new.job = "send" /\ ~new.dry
        /\ new.late = late /\ new.todo = todo /\ new.key = k
    BY <1>2 DEF WorkType
  <2> HIDE DEF new, rest
  <2>2. WorkOK(new)
    BY <2>1 DEF WorkOK
  <2>3. work' \in Works /\ work'[w] = new /\ OthersStay(w)
    BY <1>3, <2>1, BaseFacts, WorkEffect DEF OthersStay
  <2> QED
    BY <1>2, <1>3, <2>1, <2>2, <2>3 DEF Claims, At, k, todo
<1>4. CASE row' = row /\ work' = [work EXCEPT ![w] = IF rest.todo = {} THEN Idle ELSE rest]
  <2> HIDE DEF todo
  <2>1. rest \in WorkType /\ rest.at = "claim" /\ rest.job = "send" /\ ~rest.dry
        /\ rest.late = work[w].late
    BY <1>2 DEF WorkType
  <2> HIDE DEF rest
  <2>2. WorkOK(rest) /\ rest.at \in Off /\ WorkOK(Idle) /\ Idle.at \in Off
    BY <1>2, <2>1, IdleWork DEF WorkOK, Off
  <2>3. (IF rest.todo = {} THEN Idle ELSE rest) \in {Idle, rest}
    OBVIOUS
  <2>4. work' \in Works /\ work'[w] \in {Idle, rest} /\ OthersStay(w)
    BY <1>4, <2>1, <2>3, IdleWork, BaseFacts, WorkEffect DEF OthersStay
  <2> QED
    BY <1>2, <1>4, <2>2, <2>4 DEF Leaves, At
<1> QED
  BY <1>1, <1>3, <1>4

\* The row that was claimed is put away, marked in shadow mode, or sent.
LEMMA LoadMoves ==
  ASSUME BaseInv, NEW w \in Workers, Load(w)
  PROVE  /\ At(w, "load")
         /\ \/ /\ Leaves(w) /\ UNCHANGED messages
               /\ \E status \in {"HELD", "CANCELLED"} : SetRow(Key(w), status)
            \/ /\ ~suppressed /\ Stays(w) /\ work'[w].at = "shadow" /\ work'[w].dry
               /\ row' = row /\ UNCHANGED messages
            \/ /\ ~suppressed /\ Stays(w) /\ work'[w].at = "sending"
               /\ work'[w].dry = work[w].dry
               /\ row' = row /\ Send!Begin(w, Key(w))
<1>0. /\ At(w, "load") /\ work[w].job = "send" /\ work[w] \in WorkType
      /\ {"shadow", "sending"} \subseteq Spots \ Off /\ {"shadow", "sending"} \cap Queueing = {}
      /\ work[w].late = "suppressed" => suppressed
  BY BaseFacts DEF Load, At, WorkOK, Spots, Off, Queueing, BaseInv, WorkInv
<1>1. CASE Done(w) /\ UNCHANGED messages /\ (SetRow(Key(w), "HELD") \/ SetRow(Key(w), "CANCELLED"))
  BY <1>0, <1>1, RestLeaves
<1>2. CASE ~suppressed /\ Goto(w, "sending") /\ Send!Begin(w, Key(w)) /\ row' = row
  BY <1>0, <1>2, GotoStays
<1>3. CASE /\ ~suppressed /\ work' = [work EXCEPT ![w].at = "shadow", ![w].dry = TRUE]
           /\ row' = row /\ UNCHANGED messages
  <2> DEFINE new == [work[w] EXCEPT !.at = "shadow", !.dry = TRUE]
  <2>1. work' = [work EXCEPT ![w] = new]
    BY <1>3, BaseFacts DEF Works
  <2>2. /\ new \in WorkType /\ new.at = "shadow" /\ new.dry /\ new.job = work[w].job
        /\ new.key = work[w].key /\ new.todo = work[w].todo /\ new.late = work[w].late
    BY <1>0 DEF WorkType
  <2> HIDE DEF new
  <2>3. WorkOK(new)
    BY <1>0, <1>3, <2>2 DEF WorkOK
  <2>4. work' \in Works /\ work'[w] = new /\ OthersStay(w)
    BY <2>1, <2>2, BaseFacts, WorkEffect DEF OthersStay
  <2> QED
    BY <1>0, <1>3, <2>2, <2>3, <2>4 DEF Stays
<1> QED
  BY <1>1, <1>2, <1>3 DEF Load

\* From the mark to the book-keeping.
LEMMA SendSpots ==
  ASSUME BaseInv, NEW w \in Workers
  PROVE  /\ Shadow(w) => /\ At(w, "shadow") /\ MarkSent(Key(w), TRUE) /\ UNCHANGED messages
                         /\ Stays(w) /\ work'[w].at = "advance" /\ work'[w].dry = work[w].dry
         /\ Answered(w) => /\ At(w, "sending") /\ call[w].at = "idle"
                           /\ row' = row /\ UNCHANGED messages
                           /\ Stays(w) /\ work'[w].dry = work[w].dry
                           /\ work'[w].at = IF call[w].got \in {"SENT", "RESUMED"} THEN "sent"
                                            ELSE "fail"
         /\ Sent(w) => /\ At(w, "sent") /\ MarkSent(Key(w), FALSE) /\ UNCHANGED messages
                       /\ Stays(w) /\ work'[w].at = "book" /\ work'[w].dry = work[w].dry
         /\ Book(w) => /\ At(w, "book") /\ row' = row /\ UNCHANGED messages
                       /\ done' = done \cup {Key(w)}
                       /\ Stays(w) /\ work'[w].at = "advance" /\ work'[w].dry = work[w].dry
<1>1. /\ {"advance", "sent", "fail", "book"} \subseteq Spots \ Off
      /\ {"advance", "sent", "fail", "book"} \cap Queueing = {}
  BY DEF Spots, Off, Queueing
<1>2. ASSUME work[w].at \in {"shadow", "sending", "sent", "book"}
      PROVE  work[w].job = "send" /\ work[w].late # "suppressed"
  BY <1>2, BaseFacts DEF WorkOK
<1>3. Shadow(w) => /\ At(w, "shadow") /\ MarkSent(Key(w), TRUE) /\ UNCHANGED messages
                   /\ Stays(w) /\ work'[w].at = "advance" /\ work'[w].dry = work[w].dry
  BY <1>1, <1>2, GotoStays DEF Shadow, At
<1>4. Answered(w) => /\ At(w, "sending") /\ call[w].at = "idle"
                     /\ row' = row /\ UNCHANGED messages
                     /\ Stays(w) /\ work'[w].dry = work[w].dry
                     /\ work'[w].at = IF call[w].got \in {"SENT", "RESUMED"} THEN "sent" ELSE "fail"
  BY <1>1, <1>2, GotoStays DEF Answered, At
<1>5. Sent(w) => /\ At(w, "sent") /\ MarkSent(Key(w), FALSE) /\ UNCHANGED messages
                 /\ Stays(w) /\ work'[w].at = "book" /\ work'[w].dry = work[w].dry
  BY <1>1, <1>2, GotoStays DEF Sent, At
<1>6. Book(w) => /\ At(w, "book") /\ row' = row /\ UNCHANGED messages
                 /\ done' = done \cup {Key(w)}
                 /\ Stays(w) /\ work'[w].at = "advance" /\ work'[w].dry = work[w].dry
  BY <1>1, <1>2, GotoStays DEF Book, At
<1> QED
  BY <1>3, <1>4, <1>5, <1>6

\* The enrolment is completed, or moved on for its next row to be queued.
LEMMA AdvanceMoves ==
  ASSUME BaseInv, NEW w \in Workers, Advance(w)
  PROVE  /\ At(w, "advance") /\ row' = row /\ UNCHANGED messages /\ done' = done
         /\ \/ /\ Later(Key(w)[2]) = {} /\ Leaves(w)
               /\ enr' = [enr EXCEPT ![Enrolment(w)].status = "COMPLETED"]
            \/ /\ Later(Key(w)[2]) # {} /\ Stays(w) /\ work'[w].at = "qread"
               /\ work'[w].dry = work[w].dry
               /\ enr' = [enr EXCEPT ![Enrolment(w)] =
                            [status |-> "ACTIVE", step |-> NextStep(Key(w)[2])]]
            \/ enr' = enr /\ (Leaves(w) \/ Fails(w))
<1>0. /\ At(w, "advance") /\ work[w].late # "suppressed" /\ "qread" \in Spots \ Off
      /\ "qread" \in Queueing /\ row' = row /\ UNCHANGED messages /\ done' = done
  BY BaseFacts DEF Advance, At, WorkOK, Spots, Off, Queueing
<1>1. CASE /\ Later(Key(w)[2]) = {} /\ Done(w)
           /\ enr' = [enr EXCEPT ![Enrolment(w)].status = "COMPLETED"]
  BY <1>0, <1>1, RestLeaves
<1>2. CASE /\ Later(Key(w)[2]) # {} /\ Goto(w, "qread")
           /\ enr' = [enr EXCEPT ![Enrolment(w)] =
                        [status |-> "ACTIVE", step |-> NextStep(Key(w)[2])]]
  BY <1>0, <1>2, GotoStays
<1>3. CASE enr' = enr /\ work' = [work EXCEPT ![w] = Thrown(w)]
  BY <1>0, <1>3, ThrownLeaves DEF At
<1> QED
  BY <1>1, <1>2, <1>3 DEF Advance

\* The catch block.
LEMMA FailMoves ==
  ASSUME BaseInv, NEW w \in Workers, Fail(w)
  PROVE  /\ At(w, "fail") /\ Leaves(w) /\ SetRow(Key(w), "FAILED") /\ UNCHANGED messages
BY RestLeaves DEF Fail

\* A failed statement, or the end of the process.
LEMMA EndMoves ==
  ASSUME BaseInv, NEW w \in Workers, Throw(w) \/ Crash(w)
  PROVE  /\ broken' = TRUE /\ UNCHANGED <<world, enr, row, done>>
         /\ \/ Leaves(w) /\ (UNCHANGED messages \/ Send!Die(w))
            \/ /\ Fails(w) /\ UNCHANGED messages
               /\ work[w].at \in {"sent", "book", "advance"} \cup Queueing
<1>1. CASE Stop(w)
  BY <1>1, RestLeaves DEF Throw, Crash
<1>2. CASE Throw(w) /\ ~Stop(w)
  <2>1. /\ work[w].at \in {"sent", "book", "advance"} \cup Queueing
        /\ work' = [work EXCEPT ![w] = Thrown(w)]
        /\ broken' = TRUE /\ UNCHANGED <<world, enr, row, done, messages>>
    BY <1>2 DEF Throw, Queueing
  <2> QED
    BY <2>1, ThrownLeaves
<1> QED
  BY <1>1, <1>2 DEF Crash

-----------------------------------------------------------------------------
(* Messages *)

CallType == [at : Send!Stages, key : Keys \cup {<<>>}, knew : BOOLEAN, got : Send!Answers]
Sends(w) == Send!Step(w) \/ Send!Die(w) \/ \E k \in Keys : Send!Begin(w, k)

\* A call begins, ends or goes on with its key.
LEMMA CallMoves ==
  ASSUME call \in [Workers -> CallType], NEW w \in Workers, Sends(w)
  PROVE  \/ \E answer \in Send!Answers : Send!Return(w, answer)
         \/ call[w].at # "idle" /\ \E stage \in Send!Stages : Send!Goto(w, stage)
         \/ call[w].at # "idle" /\ Send!GoOn(w)
         \/ \E k \in Keys : Send!Begin(w, k)
<1>0. /\ {"idle", "begun", "looked", "reserved", "accepted", "recorded",
          "failing", "failed"} \subseteq Send!Stages
      /\ {"none", "SENT", "RESUMED", "ORG_DAILY_LIMIT", "DUPLICATE", "ERROR"}
           \subseteq Send!Answers
  BY DEF Send!Stages, Send!Answers
<1>1. CASE Send!Look(w)
  BY <1>0, <1>1 DEF Send!Look, Send!At
<1>2. CASE Send!Refuse(w) \/ Send!Finish(w) \/ Send!GiveUp(w)
  BY <1>0, <1>2 DEF Send!Refuse, Send!Finish, Send!GiveUp
<1>3. CASE Send!Reserve(w) \/ Send!Accept(w) \/ Send!Record(w) \/ Send!Throw(w) \/ Send!Fail(w)
  BY <1>0, <1>3 DEF Send!Reserve, Send!Accept, Send!Record, Send!Throw, Send!Fail, Send!At
<1>4. CASE Send!Decline(w)
  BY <1>0, <1>4 DEF Send!Decline, Send!At
<1>5. CASE Send!Die(w)
  BY <1>0, <1>5 DEF Send!Die
<1> QED
  BY <1>1, <1>2, <1>3, <1>4, <1>5 DEF Sends, Send!Step

\* What such a step does to the calls.
LEMMA CallEffect ==
  ASSUME call \in [Workers -> CallType], NEW w \in Workers, Sends(w)
  PROVE  /\ call' \in [Workers -> CallType]
         /\ \A x \in Workers \ {w} : call'[x] = call[x]
         /\ \/ call'[w].at = "idle"
            \/ call[w].at # "idle" /\ call'[w].key = call[w].key
            \/ \E k \in Keys : Send!Begin(w, k)
<1>0. "idle" \in Send!Stages /\ "begun" \in Send!Stages /\ "looked" \in Send!Stages
      /\ "none" \in Send!Answers
  BY DEF Send!Stages, Send!Answers
<1>1. ASSUME NEW answer \in Send!Answers, Send!Return(w, answer)
      PROVE  call' \in [Workers -> CallType] /\ call'[w].at = "idle"
             /\ \A x \in Workers \ {w} : call'[x] = call[x]
  BY <1>0, <1>1 DEF Send!Return, CallType
<1>2. ASSUME NEW stage \in Send!Stages, Send!Goto(w, stage)
      PROVE  call' \in [Workers -> CallType] /\ call'[w].key = call[w].key
             /\ \A x \in Workers \ {w} : call'[x] = call[x]
  BY <1>2 DEF Send!Goto, CallType
<1>3. ASSUME Send!GoOn(w)
      PROVE  call' \in [Workers -> CallType] /\ call'[w].key = call[w].key
             /\ \A x \in Workers \ {w} : call'[x] = call[x]
  BY <1>0, <1>3 DEF Send!GoOn, Send!Key, CallType
<1>4. ASSUME NEW k \in Keys, Send!Begin(w, k)
      PROVE  call' \in [Workers -> CallType] /\ \A x \in Workers \ {w} : call'[x] = call[x]
  BY <1>0, <1>4 DEF Send!Begin, CallType
<1> QED
  BY <1>1, <1>2, <1>3, <1>4, CallMoves

\* A call that begins has its key, and has been told nothing.
LEMMA BeginEffect ==
  ASSUME call \in [Workers -> CallType], NEW w \in Workers, NEW k \in Keys, Send!Begin(w, k)
  PROVE  /\ call[w].at = "idle" /\ call'[w].at = "begun" /\ call'[w].key = k
         /\ call'[w].got = "none" /\ mail' = mail /\ accepted' = accepted
BY DEF Send!Begin, Send!At, CallType

\* A call that goes on, or ends, is under way.
LEMMA StepEffect ==
  ASSUME call \in [Workers -> CallType], NEW w \in Workers, Send!Step(w) \/ Send!Die(w)
  PROVE  /\ call[w].at # "idle"
         /\ call'[w].at = "idle" \/ call'[w].key = call[w].key
<1>1. Sends(w) /\ call[w].at # "idle"
  BY DEF Sends, Send!Step, Send!Look, Send!Refuse, Send!Reserve, Send!Decline,
         Send!Accept, Send!Record, Send!Finish, Send!Throw, Send!Fail, Send!GiveUp, Send!Die,
         Send!At
<1>2. \A k \in Keys : ~Send!Begin(w, k)
  BY <1>1 DEF Send!Begin, Send!At
<1> QED
  BY <1>1, <1>2, CallEffect

\* A message is accepted, if any, under the call's own key.
LEMMA CountEffect ==
  ASSUME NEW w \in Workers, Sends(w)
  PROVE  \/ accepted' = accepted
         \/ /\ call[w].at # "idle"
            /\ accepted' = [accepted EXCEPT ![call[w].key] = @ + 1]
BY DEF Sends, Send!Step, Send!Look, Send!Refuse, Send!Reserve, Send!Decline, Send!Accept,
       Send!Record, Send!Finish, Send!Throw, Send!Fail, Send!GiveUp, Send!Begin, Send!Die,
       Send!At, Send!Key

\* The messages keep their types.
LEMMA SendKeepsTypes ==
  ASSUME Send!TypeOK, NEW w \in Workers, Sends(w), call[w].at # "idle" => call[w].key \in Keys
  PROVE  Send!TypeOK'
<1>0. call \in [Workers -> CallType]
  BY DEF Send!TypeOK, CallType
<1>1. mail' \in [Keys -> {"NONE", "SCHEDULED", "SENT", "FAILED"}]
  BY DEF Send!TypeOK, Sends, Send!Step, Send!Look, Send!Refuse, Send!Reserve,
         Send!Decline, Send!Accept, Send!Record, Send!Finish, Send!Throw, Send!Fail,
         Send!GiveUp, Send!Begin, Send!Die
<1>2. accepted' \in [Keys -> Nat]
  BY CountEffect DEF Send!TypeOK
<1>3. call' \in [Workers -> CallType]
  BY <1>0, CallEffect
<1>4. lost' \subseteq Keys
  BY DEF Send!TypeOK, Sends, Send!Step, Send!Look, Send!Refuse, Send!Reserve,
         Send!Decline, Send!Accept, Send!Record, Send!Finish, Send!Throw,
         Send!Fail, Send!GiveUp, Send!Begin, Send!Die, Send!At, Send!Key
<1> QED
  BY <1>1, <1>2, <1>3, <1>4 DEF Send!TypeOK, CallType

\* What a call knows of its message when it was the only one for its key.
Stage(r, n) == /\ r.at \in {"begun", "looked", "reserved"} => n = 0
               /\ r.at \in {"accepted", "recorded"} => n >= 1
               /\ r.got \in {"SENT", "RESUMED"} => n >= 1
\* It goes on so: the message is accepted once, and its status and the answer
\* say no more than that.
LEMMA SendKeepsStage ==
  ASSUME Send!TypeOK, NEW w \in Workers, Send!Step(w) \/ Send!Die(w), NEW k \in Keys,
         k = call[w].key, accepted[k] <= 1, mail[k] = "SENT" => accepted[k] >= 1,
         Stage(call[w], accepted[k])
  PROVE  /\ \A s \in Keys \ {k} : accepted'[s] = accepted[s] /\ mail'[s] = mail[s]
         /\ accepted'[k] <= 1 /\ accepted'[k] >= accepted[k]
         /\ mail'[k] = "SENT" => accepted'[k] >= 1
         /\ Stage(call'[w], accepted'[k])
<1>0. /\ mail \in [Keys -> {"NONE", "SCHEDULED", "SENT", "FAILED"}]
      /\ accepted \in [Keys -> Nat] /\ accepted[k] \in Nat
      /\ call \in [Workers -> CallType]
  BY DEF Send!TypeOK, CallType
<1>1. CASE Send!Look(w) \/ Send!Refuse(w) \/ Send!Finish(w) \/ Send!GiveUp(w) \/ Send!Die(w)
  <2>1. accepted' = accepted /\ mail' = mail
    BY <1>1 DEF Send!Look, Send!Refuse, Send!Finish, Send!GiveUp, Send!Die
  <2>2. /\ call'[w].at \notin {"begun", "reserved", "accepted", "recorded"}
        /\ call'[w].at = "looked" => accepted[k] = 0
        /\ call'[w].got \in {"SENT", "RESUMED"} => accepted[k] >= 1
    BY <1>0, <1>1 DEF Send!Look, Send!Refuse, Send!Finish, Send!GiveUp, Send!Die, Send!Return,
                      Send!GoOn, Send!At, Send!Key, CallType, Stage
  <2> QED
    BY <1>0, <2>1, <2>2 DEF Stage
<1>2. CASE Send!Reserve(w) \/ Send!Fail(w) \/ Send!Throw(w)
  <2>1. /\ accepted' = accepted /\ \A s \in Keys \ {k} : mail'[s] = mail[s]
        /\ mail'[k] = "SENT" => mail[k] = "SENT"
    BY <1>0, <1>2 DEF Send!Reserve, Send!Fail, Send!Throw, Send!Key
  <2>2. /\ call'[w].at \notin {"begun", "looked", "accepted", "recorded"}
        /\ call'[w].got = call[w].got
        /\ call'[w].at = "reserved" => accepted[k] = 0
    BY <1>0, <1>2 DEF Send!Reserve, Send!Fail, Send!Throw, Send!Goto, Send!At, CallType, Stage
  <2> QED
    BY <1>0, <2>1, <2>2 DEF Stage
<1>3. CASE Send!Decline(w)
  <2>1. accepted' = accepted /\ mail' = mail
    BY <1>3 DEF Send!Decline
  <2>2. /\ call'[w].at \in {"idle", "failing"}
        /\ call'[w].got = "ERROR" \/ call'[w].got = call[w].got
    BY <1>0, <1>3 DEF Send!Decline, Send!Return, Send!Goto, CallType
  <2> QED
    BY <1>0, <2>1, <2>2 DEF Stage
<1>4. CASE Send!Accept(w)
  <2>1. mail' = mail /\ accepted' = [accepted EXCEPT ![k] = @ + 1] /\ accepted[k] = 0
    BY <1>4 DEF Send!Accept, Send!Key, Send!At, Stage
  <2>2. accepted'[k] = 1 /\ \A s \in Keys \ {k} : accepted'[s] = accepted[s]
    BY <1>0, <2>1
  <2>3. call'[w].at \in {"accepted", "failing"}
    BY <1>0, <1>4 DEF Send!Accept, Send!Goto, CallType
  <2> QED
    BY <1>0, <2>1, <2>2, <2>3 DEF Stage
<1>5. CASE Send!Record(w)
  <2>1. accepted' = accepted /\ mail' = [mail EXCEPT ![k] = "SENT"] /\ accepted[k] >= 1
    BY <1>5 DEF Send!Record, Send!Key, Send!At, Stage
  <2>2. \A s \in Keys \ {k} : mail'[s] = mail[s]
    BY <1>0, <2>1
  <2>3. call'[w].at = "recorded"
    BY <1>0, <1>5 DEF Send!Record, Send!Goto, CallType
  <2> QED
    BY <1>0, <2>1, <2>2, <2>3 DEF Stage
<1> QED
  BY <1>1, <1>2, <1>3, <1>4, <1>5 DEF Send!Step

-----------------------------------------------------------------------------
(* The types *)

WorkerStep(w) == Pick(w) \/ Release(w) \/ Batch(w) \/ WorkStep(w) \/ Throw(w) \/ Crash(w)

\* A step is a worker's, or the outside's, which no worker and no message notices.
LEMMA StepKinds ==
  ASSUME [Next]_vars
  PROVE  \/ UNCHANGED vars
         \/ Outside /\ UNCHANGED <<done, work, broken, messages>>
         \/ \E w \in Workers : WorkerStep(w)
<1>1. ASSUME Outside
      PROVE  UNCHANGED <<done, work, broken, messages>>
  BY <1>1 DEF Outside, Unsubscribe, HookStop, HookCancel, StopEnrolment, OutOfOffice, Pause,
              Resume, Review, SetShadow, Tick, NewDay, idling, others
<1> QED
  BY <1>1 DEF Next, WorkerStep

\* A worker's step is no other worker's, and leaves it where its job allows.
LEMMA WorkMoves ==
  ASSUME BaseInv, NEW w \in Workers, WorkerStep(w)
  PROVE  /\ work' \in Works /\ OthersStay(w) /\ WorkOK(work'[w])
         /\ work'[w].late = "suppressed" => suppressed
<1>1. ASSUME Leaves(w)
      PROVE  /\ work' \in Works /\ OthersStay(w) /\ WorkOK(work'[w])
             /\ work'[w].late # "suppressed"
  BY <1>1 DEF Leaves, WorkOK, Off
<1>2. ASSUME Stays(w), work'[w].at # "load"
      PROVE  /\ work' \in Works /\ OthersStay(w) /\ WorkOK(work'[w])
             /\ work'[w].late # "suppressed"
  BY <1>2 DEF Stays, WorkOK
<1>3. ASSUME Fails(w)
      PROVE  /\ work' \in Works /\ OthersStay(w) /\ WorkOK(work'[w])
             /\ work'[w].late # "suppressed"
  BY <1>3 DEF Fails, WorkOK
<1>4. ASSUME Enters(w)
      PROVE  /\ work' \in Works /\ OthersStay(w) /\ WorkOK(work'[w])
             /\ work'[w].late # "suppressed"
  BY <1>4 DEF Enters, WorkOK
<1>5. CASE \/ Pick(w) \/ Prior(w) \/ Used(w) \/ Consume(w) \/ Release(w) \/ Batch(w)
           \/ Count(w) \/ List(w) \/ Fail(w)
  BY <1>1, <1>5, OffMoves, FailMoves
<1>6. CASE Enroll(w) \/ ReleaseNext(w)
  BY <1>1, <1>4, <1>6, EnrollMoves, ReleaseMoves
<1>7. CASE QueueStep(w)
  BY <1>1, <1>2, <1>3, <1>7, QueueReadMoves, QueueFindMoves, QueueDropMoves, QueueMakeMoves
     DEF QueueStep
<1>8. CASE Claim(w)
  BY <1>1, <1>8, ClaimMoves DEF Claims
<1>9. CASE Load(w)
  BY <1>1, <1>2, <1>9, LoadMoves
<1>10. CASE Shadow(w) \/ Answered(w) \/ Sent(w) \/ Book(w)
  BY <1>2, <1>10, SendSpots
<1>11. CASE Advance(w)
  BY <1>1, <1>2, <1>3, <1>11, AdvanceMoves
<1>12. CASE Throw(w) \/ Crash(w)
  BY <1>1, <1>3, <1>12, EndMoves
<1>13. CASE Sending(w)
  BY <1>13, BaseFacts DEF Sending, OthersStay, BaseInv, WorkInv
<1> QED
  BY <1>5, <1>6, <1>7, <1>8, <1>9, <1>10, <1>11, <1>12, <1>13
     DEF WorkerStep, WorkStep, EnrollStep, SendStep

\* A worker sends when it is at the send, and for the row at hand.
LEMMA MessageMoves ==
  ASSUME BaseInv, NEW w \in Workers, WorkerStep(w)
  PROVE  \/ UNCHANGED messages /\ call[w].at = "idle"
         \/ /\ At(w, "load") /\ call[w].at = "idle" /\ Send!Begin(w, Key(w))
            /\ Stays(w) /\ work'[w].at = "sending"
         \/ At(w, "sending") /\ Send!Step(w) /\ work' = work
         \/ Send!Die(w) /\ Leaves(w)
<1>0. ~At(w, "sending") => call[w].at = "idle"
  BY DEF BaseInv, CallsInv
<1>1. CASE \/ Pick(w) \/ Prior(w) \/ Used(w) \/ Consume(w) \/ Release(w) \/ Batch(w)
           \/ Count(w) \/ List(w) \/ Fail(w) \/ Enroll(w) \/ ReleaseNext(w)
  BY <1>0, <1>1 DEF Pick, Prior, Used, Consume, Release, Batch, Count, List, Fail, Enroll,
                    ReleaseNext, At
<1>2. CASE QueueStep(w) \/ Claim(w) \/ Advance(w)
  BY <1>0, <1>2 DEF QueueStep, QueueRead, QueueFind, QueueDrop, QueueMake, Claim, Advance, At
<1>3. CASE Shadow(w) \/ Answered(w) \/ Sent(w) \/ Book(w)
  BY <1>0, <1>3 DEF Shadow, Answered, Sent, Book, At
<1>4. CASE Load(w)
  BY <1>0, <1>4, LoadMoves DEF At
<1>5. CASE Throw(w)
  BY <1>0, <1>5 DEF Throw, At
<1>6. CASE Crash(w)
  BY <1>6, RestLeaves DEF Crash
<1>7. CASE Sending(w)
  BY <1>7 DEF Sending
<1> QED
  BY <1>1, <1>2, <1>3, <1>4, <1>5, <1>6, <1>7
     DEF WorkerStep, WorkStep, EnrollStep, SendStep

\* The messages keep their types, and the calls their rows.
LEMMA CallsInvNext ==
  ASSUME BaseInv, NEW w \in Workers, WorkerStep(w)
  PROVE  Send!TypeOK' /\ CallsInv'
<1>0. /\ Send!TypeOK /\ call \in [Workers -> CallType] /\ OthersStay(w) /\ CallsInv
      /\ Key(w) \in Keys /\ (call[w].at # "idle" => call[w].key \in Keys)
  BY BaseFacts, WorkMoves DEF Send!TypeOK, CallType, BaseInv, CallsInv, Key
<1>1. ASSUME Sends(w) PROVE Send!TypeOK' /\ \A x \in Workers \ {w} : call'[x] = call[x]
  BY <1>0, <1>1, SendKeepsTypes, CallEffect
<1>2. ASSUME \A x \in Workers \ {w} : call'[x] = call[x],
             call'[w].at # "idle" => work'[w].at = "sending" /\ call'[w].key = work'[w].key
      PROVE  CallsInv'
  BY <1>0, <1>2 DEF CallsInv, OthersStay, At, Key
<1>3. CASE UNCHANGED messages /\ call[w].at = "idle"
  BY <1>0, <1>2, <1>3 DEF messages, Send!TypeOK, CallType
<1>4. CASE /\ At(w, "load") /\ call[w].at = "idle" /\ Send!Begin(w, Key(w))
           /\ Stays(w) /\ work'[w].at = "sending"
  BY <1>0, <1>1, <1>2, <1>4, BeginEffect DEF Sends, Stays, Key
<1>5. CASE At(w, "sending") /\ Send!Step(w) /\ work' = work
  BY <1>0, <1>1, <1>2, <1>5, StepEffect DEF Sends, CallsInv, At, Key
<1>6. CASE Send!Die(w) /\ Leaves(w)
  <2>1. call'[w].at = "idle"
    BY <1>0, <1>6 DEF Send!Die, Send!Return, CallType
  <2> QED
    BY <1>0, <1>1, <1>2, <1>6, <2>1 DEF Sends
<1> QED
  BY <1>3, <1>4, <1>5, <1>6, MessageMoves

\* What a worker's step does to the rows: it changes the row at hand, if any.
LEMMA RowMoves ==
  ASSUME BaseInv, NEW w \in Workers, WorkerStep(w)
  PROVE  \/ row' = row
         \/ /\ At(w, "qdrop") /\ row[Target(w)].status # "NONE" /\ row[Target(w)].gen = work[w].gen
            /\ row' = [row EXCEPT ![Target(w)] = [NoRow EXCEPT !.gen = row[Target(w)].gen]]
            /\ Stays(w) /\ work'[w].at = "qmake" /\ work'[w].step = work[w].step
            /\ work'[w].dry = work[w].dry
         \/ /\ At(w, "qmake") /\ row[Target(w)].status = "NONE" /\ Leaves(w)
            /\ row' \in Rows
            /\ row'[Target(w)].status \in {"HELD", "QUEUED"}
            /\ row'[Target(w)].dry = FALSE /\ row'[Target(w)].today = FALSE
            /\ row'[Target(w)].gen = row[Target(w)].gen + 1
            /\ \A k \in Keys \ {Target(w)} : row'[k] = row[k]
         \/ At(w, "claim") /\ Claims(w)
         \/ /\ At(w, "load") /\ Leaves(w)
            /\ \E status \in {"HELD", "CANCELLED"} : SetRow(Key(w), status)
         \/ /\ At(w, "shadow") /\ MarkSent(Key(w), TRUE)
            /\ Stays(w) /\ work'[w].at = "advance" /\ work'[w].dry = work[w].dry
         \/ /\ At(w, "sent") /\ MarkSent(Key(w), FALSE)
            /\ Stays(w) /\ work'[w].at = "book" /\ work'[w].dry = work[w].dry
         \/ At(w, "fail") /\ Leaves(w) /\ SetRow(Key(w), "FAILED")
<1>1. CASE \/ Pick(w) \/ Prior(w) \/ Used(w) \/ Consume(w) \/ Release(w) \/ Batch(w)
           \/ Count(w) \/ List(w) \/ Enroll(w) \/ ReleaseNext(w) \/ QueueRead(w)
           \/ QueueFind(w)
  BY <1>1 DEF Pick, Prior, Used, Consume, Release, Batch, Count, List, Enroll,
              ReleaseNext, QueueRead, QueueFind
<1>2. CASE Sending(w) \/ Answered(w) \/ Book(w) \/ Advance(w) \/ Throw(w) \/ Crash(w)
  BY <1>2 DEF Sending, Answered, Book, Advance, Throw, Crash
<1>3. CASE QueueDrop(w)
  BY <1>3, QueueDropMoves
<1>4. CASE QueueMake(w)
  BY <1>4, QueueMakeMoves
<1>5. CASE Claim(w)
  BY <1>5, ClaimMoves
<1>6. CASE Load(w)
  BY <1>6, LoadMoves
<1>7. CASE Shadow(w) \/ Sent(w)
  BY <1>7, SendSpots
<1>8. CASE Fail(w)
  BY <1>8, FailMoves
<1> QED
  BY <1>1, <1>2, <1>3, <1>4, <1>5, <1>6, <1>7, <1>8
     DEF WorkerStep, WorkStep, EnrollStep, QueueStep, SendStep

\* Whatever it does, they are rows, and the others are left alone.
LEMMA RowsNext ==
  ASSUME BaseInv, NEW w \in Workers, WorkerStep(w)
  PROVE  row' \in Rows
<1> USE BaseFacts
<1>1. Key(w) \in Keys /\ {"HELD", "CANCELLED", "SENDING", "FAILED"} \subseteq Statuses
  BY DEF Key, Statuses
<1>2. CASE \E k \in Keys, status \in Statuses : SetRow(k, status)
  BY <1>2, SetRowEffect
<1>3. CASE MarkSent(Key(w), TRUE) \/ MarkSent(Key(w), FALSE)
  BY <1>1, <1>3, MarkSentEffect
<1>4. CASE row' = [row EXCEPT ![Target(w)] = [NoRow EXCEPT !.gen = row[Target(w)].gen]]
  BY <1>4, DropEffect
<1>5. CASE Claims(w)
  BY <1>1, <1>2, <1>5 DEF Claims, Works, WorkType
<1>6. CASE row' = row \/ row' \in Rows
  BY <1>6
<1>7. CASE \/ \E status \in {"HELD", "CANCELLED"} : SetRow(Key(w), status)
           \/ SetRow(Key(w), "FAILED")
  BY <1>1, <1>2, <1>7
<1> QED
  BY <1>3, <1>4, <1>5, <1>6, <1>7, RowMoves

Enrs == [Enrolments -> [status : Open \cup {"NONE", "STOPPED", "COMPLETED"}, step : Steps]]

\* A set of numbers that is not empty has a least one.
LEMMA LeastMember ==
  ASSUME NEW S, S \subseteq Nat, S # {}
  PROVE  \E t \in S : \A u \in S : t <= u
<1> DEFINE Less == {pair \in Nat \X Nat : pair[1] < pair[2]}
<1>1. IsWellFoundedOn(Less, Nat)
  BY NatLessThanWellFounded DEF OpToRel
<1>2. PICK t \in S : \A u \in S : ~ (<<u, t>> \in Less)
  BY <1>1, WFMin
<1>3. ASSUME NEW u \in S PROVE t <= u
  <2>1. t \in Nat /\ u \in Nat /\ ~ (<<u, t>> \in Less)
    BY <1>2
  <2>2. ~ (u < t)
    BY <2>1
  <2> QED
    BY <2>1, <2>2
<1> QED
  BY <1>3

\* The step that an enrolment moves on to is active, and no active one is between.
LEMMA NextStepIsNext ==
  ASSUME NEW s \in Steps, Later(s) # {}
  PROVE  /\ NextStep(s) \in ActiveSteps /\ NextStep(s) \in Steps
         /\ \A t \in ActiveSteps : t < NextStep(s) => t <= s
<1>1. ActiveSteps \subseteq Steps /\ Steps \subseteq Nat
  BY KeyFacts
<1>2. Later(s) \subseteq Nat
  BY <1>1 DEF Later
<1>3. \E t \in Later(s) : \A u \in Later(s) : t <= u
  BY <1>2, LeastMember
<1>4. NextStep(s) \in Later(s) /\ \A u \in Later(s) : NextStep(s) <= u
  BY <1>3 DEF NextStep
<1>5. ASSUME NEW t \in ActiveSteps, t < NextStep(s) PROVE t <= s
  <2>1. t \in Nat /\ s \in Nat /\ NextStep(s) \in Nat
    BY <1>1, <1>2, <1>4
  <2>2. t > s => NextStep(s) <= t
    BY <1>4 DEF Later
  <2> QED
    BY <1>5, <2>1, <2>2
<1> QED
  BY <1>1, <1>4, <1>5 DEF Later

\* What a worker's step does to the enrolments and the executions.
LEMMA EnrMoves ==
  ASSUME BaseInv, NEW w \in Workers, WorkerStep(w)
  PROVE  /\ \/ enr' = enr
            \/ /\ At(w, "enroll") /\ row' = row /\ Enters(w)
               /\ \E e \in Enrolments : /\ enr[e].status = "NONE"
                                        /\ enr' = [enr EXCEPT ![e] = [status |-> "ACTIVE", step |-> 1]]
                                        /\ work'[w].key = <<e, 1>>
            \/ /\ At(w, "advance") /\ row' = row
               /\ \/ Later(Key(w)[2]) = {} /\ enr' = [enr EXCEPT ![Enrolment(w)].status = "COMPLETED"]
                  \/ /\ Later(Key(w)[2]) # {} /\ Stays(w) /\ work'[w].at = "qread"
                     /\ enr' = [enr EXCEPT ![Enrolment(w)] =
                                  [status |-> "ACTIVE", step |-> NextStep(Key(w)[2])]]
         /\ \/ done' = done
            \/ At(w, "book") /\ done' = done \cup {Key(w)}
<1>1. CASE \/ Pick(w) \/ Prior(w) \/ Used(w) \/ Consume(w) \/ Release(w) \/ Batch(w)
           \/ Count(w) \/ List(w) \/ ReleaseNext(w) \/ QueueStep(w)
  BY <1>1 DEF Pick, Prior, Used, Consume, Release, Batch, Count, List, ReleaseNext,
              QueueStep, QueueRead, QueueFind, QueueDrop, QueueMake
<1>2. CASE \/ Claim(w) \/ Load(w) \/ Shadow(w) \/ Sending(w) \/ Answered(w) \/ Sent(w)
           \/ Fail(w) \/ Throw(w) \/ Crash(w)
  BY <1>2 DEF Claim, Load, Shadow, Sending, Answered, Sent, Fail, Throw, Crash
<1>3. CASE Book(w)
  BY <1>3 DEF Book
<1>4. CASE Enroll(w)
  BY <1>4, EnrollMoves DEF Enroll
<1>5. CASE Advance(w)
  BY <1>5, AdvanceMoves
<1> QED
  BY <1>1, <1>2, <1>3, <1>4, <1>5 DEF WorkerStep, WorkStep, EnrollStep, SendStep

\* Whatever it does, they are enrolments and executions.
LEMMA EnrsNext ==
  ASSUME BaseInv, NEW w \in Workers, WorkerStep(w)
  PROVE  enr' \in Enrs /\ done' \subseteq Keys
<1>1. /\ enr \in Enrs /\ Enrolment(w) \in Enrolments /\ Key(w) \in Keys /\ done \subseteq Keys
      /\ Key(w)[2] \in Steps
  BY BaseFacts, KeyFacts DEF Enrs, Key
<1>2. {"ACTIVE", "COMPLETED"} \subseteq Open \cup {"NONE", "STOPPED", "COMPLETED"}
  BY DEF Open
<1>3. ASSUME NEW e \in Enrolments, NEW s \in Steps,
             enr' = [enr EXCEPT ![e] = [status |-> "ACTIVE", step |-> s]]
      PROVE  enr' \in Enrs
  BY <1>1, <1>2, <1>3 DEF Enrs
<1>4. ASSUME enr' = [enr EXCEPT ![Enrolment(w)].status = "COMPLETED"]
      PROVE  enr' \in Enrs
  <2>1. PICK e \in Enrolments : enr' = [enr EXCEPT ![e].status = "COMPLETED"]
    BY <1>1, <1>4
  <2>2. enr' = [enr EXCEPT ![e] = [enr[e] EXCEPT !.status = "COMPLETED"]]
    BY <1>1, <2>1 DEF Enrs
  <2> DEFINE Enr == [status : Open \cup {"NONE", "STOPPED", "COMPLETED"}, step : Steps]
             new == [enr[e] EXCEPT !.status = "COMPLETED"]
  <2>3. new \in Enr /\ enr \in [Enrolments -> Enr]
    BY <1>1, <1>2 DEF Enrs
  <2> HIDE DEF new, Enr
  <2>4. enr' \in [Enrolments -> Enr]
    BY <2>2, <2>3 DEF new
  <2> QED
    BY <2>4 DEF Enrs, Enr
<1>5. 1 \in Steps
  BY KeyFacts
<1>6. enr' = enr \/ enr' \in Enrs
  BY <1>1, <1>3, <1>4, <1>5, EnrMoves, NextStepIsNext
<1> QED
  BY <1>1, <1>6, EnrMoves

\* The outside stops and pauses enrolments; it makes and moves none.
LEMMA OutsideEnrs ==
  ASSUME enr \in Enrs, Outside
  PROVE  /\ enr' \in Enrs
         /\ \A e \in Enrolments : /\ enr'[e].step = enr[e].step
                                  /\ enr'[e].status \in Open => enr[e].status \in Open
<1> DEFINE Becomes(e, r) ==
             /\ r \in [status : Open \cup {"NONE", "STOPPED", "COMPLETED"}, step : Steps]
             /\ r.step = enr[e].step
             /\ r.status \in Open => enr[e].status \in Open
<1>0. {"ACTIVE", "PAUSED"} \subseteq Open /\ "STOPPED" \notin Open
  BY DEF Open
<1>1. ASSUME NEW e \in Enrolments PROVE Becomes(e, enr[e])
  BY DEF Enrs
<1>2. ASSUME NEW e \in Enrolments, NEW status \in Open \cup {"STOPPED"},
             status \in Open => enr[e].status \in Open
      PROVE  Becomes(e, [enr[e] EXCEPT !.status = status])
  BY <1>2 DEF Enrs
<1> HIDE DEF Becomes
<1>3. ASSUME \A e \in Enrolments : Becomes(e, enr'[e]), enr' = [e \in Enrolments |-> enr'[e]]
      PROVE  /\ enr' \in Enrs
             /\ \A e \in Enrolments : /\ enr'[e].step = enr[e].step
                                      /\ enr'[e].status \in Open => enr[e].status \in Open
  BY <1>3 DEF Enrs, Becomes
<1>4. CASE enr' = enr
  <2>1. enr' = [e \in Enrolments |-> enr'[e]]
    BY <1>4 DEF Enrs
  <2> QED
    BY <1>1, <1>3, <1>4, <2>1
<1>5. CASE enr' = StopAll
  <2>1. \A e \in Enrolments : Becomes(e, enr'[e])
    BY <1>0, <1>1, <1>2, <1>5 DEF StopAll, IsOpen
  <2> QED
    BY <1>3, <1>5, <2>1 DEF StopAll
<1>6. CASE OutOfOffice
  <2>1. enr' = [e \in Enrolments |-> IF enr[e].status = "ACTIVE"
                                     THEN [enr[e] EXCEPT !.status = "PAUSED"] ELSE enr[e]]
    BY <1>6 DEF OutOfOffice
  <2>2. \A e \in Enrolments : Becomes(e, enr'[e])
    BY <1>0, <1>1, <1>2, <2>1
  <2> QED
    BY <1>3, <2>1, <2>2
<1>7. CASE \E e \in Enrolments : Pause(e) \/ Resume(e)
  <2>1. PICK f \in Enrolments, status \in Open :
          enr' = [enr EXCEPT ![f].status = status] /\ enr[f].status \in Open
    BY <1>0, <1>7 DEF Pause, Resume
  <2>2. enr' = [enr EXCEPT ![f] = [enr[f] EXCEPT !.status = status]]
    BY <2>1 DEF Enrs
  <2>3. \A e \in Enrolments : Becomes(e, enr'[e])
    BY <1>1, <1>2, <2>1, <2>2 DEF Enrs
  <2>4. enr' = [e \in Enrolments |-> enr'[e]]
    BY <2>2 DEF Enrs
  <2> QED
    BY <1>3, <2>3, <2>4
<1> QED
  BY <1>4, <1>5, <1>6, <1>7
     DEF Outside, Unsubscribe, HookStop, HookCancel, StopEnrolment, Review, SetShadow, Tick, NewDay

\* The rest of the state keeps its types.
LEMMA WorldNext ==
  ASSUME TypeOK, [Next]_vars
  PROVE  /\ pitch' \in {"APPROVED", "SUPERSEDED", "REJECTED"}
         /\ shadow' \in Shadows /\ suppressed' \in BOOLEAN /\ (suppressed => suppressed')
         /\ hook' \in {"none", "link", "mail", "rows"}
         /\ mishaps' \in 0 .. MaxMishaps /\ broken' \in BOOLEAN /\ (broken => broken')
<1>0. /\ pitch \in {"APPROVED", "SUPERSEDED", "REJECTED"} /\ shadow \in Shadows
      /\ suppressed \in BOOLEAN /\ hook \in {"none", "link", "mail", "rows"}
      /\ mishaps \in 0 .. MaxMishaps /\ broken \in BOOLEAN /\ MaxMishaps \in Nat
  BY OutboxAssumption DEF TypeOK
<1>1. Mishap => mishaps' \in 0 .. MaxMishaps
  BY <1>0 DEF Mishap
<1>2. ASSUME NEW w \in Workers, Release(w) \/ Throw(w) \/ Crash(w) \/ Consume(w)
      PROVE  /\ pitch' \in {pitch, "SUPERSEDED"} /\ UNCHANGED <<shadow, suppressed, hook>>
             /\ Mishap \/ mishaps' = mishaps
             /\ broken' = TRUE \/ broken' = broken
  BY <1>2 DEF Release, Throw, Crash, Consume, world
<1>3. ASSUME NEW w \in Workers,
             \/ Pick(w) \/ Batch(w) \/ Prior(w) \/ Used(w) \/ Enroll(w) \/ QueueStep(w)
             \/ SendStep(w)
      PROVE  UNCHANGED <<world, mishaps, broken>>
  BY <1>3 DEF Pick, Batch, Prior, Used, Enroll, QueueStep, QueueRead, QueueFind, QueueDrop,
     QueueMake, SendStep, ReleaseNext, Count, List, Claim, Load, Shadow, Sending, Answered, Sent,
     Book, Advance, Fail
<1>4. ASSUME Outside
      PROVE  /\ pitch' \in {pitch, "APPROVED", "REJECTED"}
             /\ shadow' \in Shadows /\ (suppressed' = suppressed \/ suppressed' = TRUE)
             /\ hook' \in {hook, "none", "link", "mail", "rows"}
             /\ Mishap \/ mishaps' = mishaps
             /\ broken' = broken
  BY <1>0, <1>4 DEF Outside, Unsubscribe, HookStop, HookCancel, StopEnrolment, OutOfOffice,
     Pause, Resume, Review, SetShadow, Tick, NewDay, world, idling, others
<1>5. CASE UNCHANGED vars
  BY <1>0, <1>5 DEF vars, world
<1>6. ASSUME NEW w \in Workers, WorkerStep(w)
      PROVE  /\ pitch' \in {pitch, "SUPERSEDED"} /\ UNCHANGED <<shadow, suppressed, hook>>
             /\ Mishap \/ mishaps' = mishaps
             /\ broken' = TRUE \/ broken' = broken
  BY <1>2, <1>3, <1>6 DEF WorkerStep, WorkStep, EnrollStep, world
<1>7. CASE \E w \in Workers : WorkerStep(w)
  <2>1. /\ pitch' \in {pitch, "SUPERSEDED"} /\ UNCHANGED <<shadow, suppressed, hook>>
        /\ Mishap \/ mishaps' = mishaps
        /\ broken' = TRUE \/ broken' = broken
    BY <1>6, <1>7
  <2>2. pitch' \in {"APPROVED", "SUPERSEDED", "REJECTED"}
    BY <1>0, <2>1
  <2>4. broken' \in BOOLEAN /\ (broken => broken')
    <3>1. CASE broken' = TRUE
      BY <3>1
    <3>2. CASE broken' = broken
      BY <1>0, <3>2
    <3> QED
      BY <2>1, <3>1, <3>2
  <2>3. mishaps' \in 0 .. MaxMishaps
    BY <1>0, <1>1, <2>1
  <2> QED
    BY <1>0, <2>1, <2>2, <2>3, <2>4
<1>8. CASE Outside
  <2>1. pitch' \in {"APPROVED", "SUPERSEDED", "REJECTED"}
    BY <1>0, <1>4, <1>8
  <2>2. shadow' \in Shadows /\ suppressed' \in BOOLEAN /\ (suppressed => suppressed')
    BY <1>0, <1>4, <1>8
  <2>3. hook' \in {"none", "link", "mail", "rows"} /\ broken' \in BOOLEAN /\ (broken => broken')
    BY <1>0, <1>4, <1>8
  <2>4. mishaps' \in 0 .. MaxMishaps
    BY <1>0, <1>1, <1>4, <1>8
  <2> QED
    BY <2>1, <2>2, <2>3, <2>4
<1> QED
  BY <1>5, <1>7, <1>8, StepKinds

\* At first nobody works, and nothing was made or sent.
LEMMA BaseInvInit == Init => BaseInv
<1> SUFFICES ASSUME Init PROVE BaseInv
  OBVIOUS
<1>1. work = [w \in Workers |-> Idle] /\ \A w \in Workers : work[w] = Idle /\ WorkOK(work[w])
  BY IdleWork DEF Init, WorkOK
<1>2. row \in [Keys -> RowType]
  BY DEF Init, NoRow, RowType
<1>3. enr \in Enrs
  BY KeyFacts DEF Init, Enrs
<1>4. Send!TypeOK /\ \A w \in Workers : call[w].at = "idle"
  BY DEF Init, Send!Init, Send!TypeOK, Send!Stages, Send!Answers
<1>5. mishaps \in 0 .. MaxMishaps
  BY OutboxAssumption DEF Init
<1>6. TypeOK
  BY <1>1, <1>2, <1>3, <1>4, <1>5, IdleWork DEF TypeOK, Init, Enrs
<1> QED
  BY <1>1, <1>4, <1>6, IdleWork DEF BaseInv, WorkInv, CallsInv

\* Every step keeps the types, the jobs and the calls.
LEMMA BaseInvNext == BaseInv /\ [Next]_vars => BaseInv'
<1> SUFFICES ASSUME BaseInv, [Next]_vars PROVE BaseInv'
  OBVIOUS
<1>0. TypeOK /\ WorkInv /\ CallsInv /\ row \in Rows /\ enr \in Enrs /\ work \in Works
  BY BaseFacts DEF BaseInv, Enrs
<1>1. ASSUME row' \in Rows, enr' \in Enrs, done' \subseteq Keys, work' \in Works, Send!TypeOK'
      PROVE  TypeOK'
  BY <1>0, <1>1, WorldNext DEF TypeOK, Rows, Enrs, Works
<1>2. CASE UNCHANGED vars
  BY <1>0, <1>1, <1>2 DEF BaseInv, vars, messages, world, TypeOK, Send!TypeOK, WorkInv, CallsInv,
                          At, Key
<1>3. CASE Outside /\ UNCHANGED <<done, work, broken, messages>>
  <2>1. TypeOK'
    BY <1>0, <1>1, <1>3, OutsideRows, OutsideEnrs DEF TypeOK, Send!TypeOK, messages
  <2>2. WorkInv'
    BY <1>0, <1>3, WorldNext DEF WorkInv
  <2>3. CallsInv'
    BY <1>0, <1>3 DEF CallsInv, At, Key, messages
  <2> QED
    BY <2>1, <2>2, <2>3 DEF BaseInv
<1>4. ASSUME NEW w \in Workers, WorkerStep(w)
      PROVE  BaseInv'
  <2>1. work' \in Works /\ OthersStay(w) /\ WorkOK(work'[w])
        /\ (work'[w].late = "suppressed" => suppressed)
    BY <1>4, WorkMoves
  <2>2. TypeOK' /\ CallsInv'
    BY <1>1, <1>4, <2>1, RowsNext, EnrsNext, CallsInvNext
  <2>3. WorkInv'
    BY <1>0, <2>1, WorldNext DEF WorkInv, OthersStay
  <2> QED
    BY <2>2, <2>3 DEF BaseInv
<1> QED
  BY <1>2, <1>3, <1>4, StepKinds

\* Every reachable state has them.
THEOREM BaseInvAlways == Spec => []BaseInv
<1>1. Init => BaseInv
  BY BaseInvInit
<1>2. BaseInv /\ [Next]_vars => BaseInv'
  BY BaseInvNext
<1> QED
  BY <1>1, <1>2, PTL DEF Spec

\* Every reachable state has its types.
THEOREM TypeOKAlways == Spec => []TypeOK
<1>1. BaseInv => TypeOK
  BY DEF BaseInv
<1> QED
  BY <1>1, BaseInvAlways, PTL

\* No row claimed after the suppression gets past the checks before its send.
THEOREM SuppressedNeverMailedAlways == Spec => []SuppressedNeverMailed
<1>1. BaseInv => SuppressedNeverMailed
  BY DEF BaseInv, WorkInv, WorkOK, SuppressedNeverMailed
<1> QED
  BY <1>1, BaseInvAlways, PTL

-----------------------------------------------------------------------------
(* The rows that are sent *)

\* A worker between the claim of a row and the end of its work on it.
Sender(w) ==
  /\ work[w].job = "send"
  /\ work[w].at \in {"load", "shadow", "sending", "sent", "book", "advance", "fail"} \cup Queueing
\* What a sender is at says what its row is; a row marked dry is that of a sender
\* that knows.
Fits(r, q) ==
  /\ r.at \in {"load", "shadow", "sending", "sent"} => q.status = "SENDING"
  /\ r.at \in {"book", "advance"} \cup Queueing => q.status = "SENT"
  /\ r.at = "fail" => q.status \in {"SENDING", "SENT"} /\ ~q.dry
  /\ r.at \in {"load", "sending", "sent", "book", "fail"} => ~r.dry
  /\ r.at = "shadow" => r.dry
  /\ q.dry => r.dry
SenderInv ==
  /\ \A w, x \in Workers : Sender(w) /\ Sender(x) /\ Key(w) = Key(x) => w = x
  /\ \A w \in Workers : Sender(w) => Fits(work[w], row[Key(w)])
\* The row that queueStep is about to delete is not one that was queued since.
DropInv == \A w \in Workers : At(w, "qdrop") =>
  /\ row[Target(w)].gen >= work[w].gen
  /\ row[Target(w)].gen = work[w].gen => row[Target(w)].status \in {"NONE", "HELD", "CANCELLED"}
DryInv == \A k \in Keys : row[k].dry => row[k].status = "SENT"
RowInv == SenderInv /\ DropInv /\ DryInv

\* How a sender goes on with its row.
Drops(w) ==
  /\ At(w, "qdrop") /\ row[Target(w)].status # "NONE" /\ row[Target(w)].gen = work[w].gen
  /\ row' = [row EXCEPT ![Target(w)] = [NoRow EXCEPT !.gen = row[Target(w)].gen]]
Onward(w) ==
  /\ Sender(w) /\ work'[w].key = work[w].key
  /\ \/ At(w, "load") /\ work'[w].at = "shadow" /\ work'[w].dry /\ row' = row
     \/ /\ work'[w].dry = work[w].dry /\ row' = row
        /\ \/ At(w, "load") /\ work'[w].at = "sending" /\ Send!Begin(w, Key(w))
           \/ At(w, "sending") /\ work'[w].at \in {"sending", "fail"}
           \/ /\ At(w, "sending") /\ work'[w].at = "sent"
              /\ call[w].got \in {"SENT", "RESUMED"} /\ UNCHANGED messages
           \/ At(w, "book") /\ work'[w].at = "advance"
           \/ work[w].at \in {"advance"} \cup Queueing /\ work'[w].at \in Queueing
     \/ /\ At(w, "shadow") /\ work'[w].at = "advance" /\ work'[w].dry = work[w].dry
        /\ MarkSent(Key(w), TRUE)
     \/ /\ At(w, "sent") /\ work'[w].at = "book" /\ work'[w].dry = work[w].dry
        /\ MarkSent(Key(w), FALSE)
     \/ Drops(w) /\ work'[w].at = "qmake" /\ work'[w].dry = work[w].dry
     \/ /\ work[w].at \in {"sent", "book", "advance"} \cup Queueing /\ work'[w].at = "fail"
        /\ ~work[w].dry /\ ~work'[w].dry /\ row' = row

\* A worker ends its work on a row, claims one, or goes on.
LEMMA SenderMoves ==
  ASSUME BaseInv, NEW w \in Workers, WorkerStep(w)
  PROVE  \/ work'[w].job # "send" \/ work'[w].at \in Off
         \/ At(w, "claim") /\ Claims(w)
         \/ Onward(w)
<1> DEFINE Ends == work'[w].job # "send" \/ work'[w].at \in Off
<1>0. /\ \A x \in {"load", "shadow", "sending", "sent", "book", "advance", "fail"} :
           At(w, x) => Sender(w)
      /\ work[w].at \in Queueing /\ work[w].job = "send" => Sender(w)
  BY BaseFacts DEF WorkOK, Sender, At
<1>1. ASSUME Leaves(w) \/ Enters(w) PROVE Ends
  BY <1>1 DEF Leaves, Enters
<1>2. ASSUME Fails(w), row' = row, work[w].at \in {"sent", "book", "advance"} \cup Queueing
      PROVE  Onward(w)
  BY <1>0, <1>2 DEF Fails, Onward, At, Sender
<1>3. CASE \/ Pick(w) \/ Prior(w) \/ Used(w) \/ Consume(w) \/ Release(w) \/ Batch(w)
           \/ Count(w) \/ List(w) \/ Fail(w)
  BY <1>1, <1>3, OffMoves, FailMoves
<1>4. CASE Enroll(w) \/ ReleaseNext(w)
  BY <1>1, <1>4, EnrollMoves, ReleaseMoves
<1>5. CASE QueueRead(w) \/ QueueFind(w)
  <2>1. /\ work[w].at \in Queueing /\ row' = row
        /\ \/ Leaves(w)
           \/ Stays(w) /\ work'[w].at \in Queueing /\ work'[w].dry = work[w].dry
    BY <1>5, QueueReadMoves, QueueFindMoves DEF QueueRead, QueueFind, At, Queueing
  <2> QED
    BY <1>0, <1>1, <2>1 DEF Stays, Onward
<1>6. CASE QueueDrop(w)
  <2>1. work[w].at \in Queueing
    BY <1>6, QueueDropMoves DEF At, Queueing
  <2>2. CASE row' = row /\ (Leaves(w) \/ Fails(w))
    BY <1>1, <1>2, <2>1, <2>2
  <2>3. CASE Drops(w) /\ Stays(w) /\ work'[w].at = "qmake" /\ work'[w].dry = work[w].dry
    BY <1>0, <2>1, <2>3 DEF Stays, Onward
  <2> QED
    BY <1>6, <2>2, <2>3, QueueDropMoves DEF Drops
<1>7. CASE QueueMake(w)
  <2>1. work[w].at \in Queueing
    BY <1>7, QueueMakeMoves DEF At, Queueing
  <2> QED
    BY <1>1, <1>2, <1>7, <2>1, QueueMakeMoves
<1>8. CASE Claim(w)
  BY <1>1, <1>8, ClaimMoves
<1>9. CASE Load(w)
  BY <1>0, <1>1, <1>9, LoadMoves DEF Stays, Onward
<1>10. CASE Shadow(w) \/ Answered(w) \/ Sent(w) \/ Book(w)
  BY <1>0, <1>10, SendSpots DEF Stays, Onward
<1>11. CASE Advance(w)
  <2>1. At(w, "advance") /\ row' = row
    BY <1>11, AdvanceMoves
  <2>2. CASE Stays(w) /\ work'[w].at = "qread" /\ work'[w].dry = work[w].dry
    BY <1>0, <2>1, <2>2 DEF Stays, Onward, At, Queueing
  <2> QED
    BY <1>1, <1>2, <1>11, <2>1, <2>2, AdvanceMoves DEF At
<1>12. CASE Throw(w) \/ Crash(w)
  BY <1>1, <1>2, <1>12, EndMoves
<1>13. CASE Sending(w)
  BY <1>0, <1>13 DEF Sending, Onward, At
<1> QED
  BY <1>3, <1>4, <1>5, <1>6, <1>7, <1>8, <1>9, <1>10, <1>11, <1>12, <1>13
     DEF WorkerStep, WorkStep, EnrollStep, QueueStep, SendStep

\* What a worker's step does to a row.
Turns(k, from, to) == row[k].status \in from /\ row'[k].status \in to
RowStep(w, k) ==
  \/ row'[k] = row[k]
  \/ /\ k = Target(w) /\ Drops(w) /\ work'[w].at = "qmake"
     /\ Turns(k, {"HELD", "CANCELLED"}, {"NONE"}) /\ ~row'[k].dry /\ ~row'[k].today
  \/ /\ k = Target(w) /\ At(w, "qmake") /\ Leaves(w)
     /\ Turns(k, {"NONE"}, {"HELD", "QUEUED"}) /\ ~row'[k].dry /\ ~row'[k].today
     /\ row'[k].gen = row[k].gen + 1
  \/ /\ At(w, "claim") /\ Claims(w) /\ k = work'[w].key
     /\ Turns(k, {"QUEUED"}, {"SENDING"}) /\ row'[k].dry = row[k].dry
  \/ /\ At(w, "load") /\ Leaves(w) /\ k = Key(w)
     /\ Turns(k, {"SENDING"}, {"HELD", "CANCELLED"}) /\ row'[k].dry = row[k].dry
  \/ /\ At(w, "shadow") /\ work'[w].at = "advance" /\ k = Key(w)
     /\ Turns(k, {"SENDING"}, {"SENT"}) /\ row'[k].dry
  \/ /\ At(w, "sent") /\ work'[w].at = "book" /\ k = Key(w)
     /\ Turns(k, {"SENDING"}, {"SENT"}) /\ ~row'[k].dry
  \/ /\ At(w, "fail") /\ Leaves(w) /\ k = Key(w)
     /\ Turns(k, {"SENDING", "SENT"}, {"FAILED"}) /\ ~row'[k].dry /\ ~row[k].dry

\* So it does, and no row's generation ever goes down.
LEMMA RowChanges ==
  ASSUME BaseInv, RowInv, NEW w \in Workers, WorkerStep(w), NEW k \in Keys
  PROVE  RowStep(w, k) /\ row'[k].gen >= row[k].gen
<1> USE BaseFacts DEF Turns
<1>0. /\ Key(w) \in Keys /\ Target(w) \in Keys /\ WorkOK(work[w]) /\ row \in Rows
      /\ row[k].gen \in Nat /\ row[Target(w)].gen \in Nat
  BY DEF Key, Rows, RowType
<1>1. {"HELD", "CANCELLED", "SENDING", "FAILED"} \subseteq Statuses
  BY DEF Statuses
<1>2. ASSUME NEW x \in {"load", "shadow", "sending", "sent"}, At(w, x)
      PROVE  row[Key(w)].status = "SENDING"
  BY <1>0, <1>2 DEF RowInv, SenderInv, Fits, Sender, WorkOK, At
<1>3. ASSUME At(w, "fail")
      PROVE  row[Key(w)].status \in {"SENDING", "SENT"} /\ ~row[Key(w)].dry
  BY <1>0, <1>3 DEF RowInv, SenderInv, Fits, Sender, WorkOK, At
<1>4. CASE row'[k] = row[k]
  BY <1>0, <1>4 DEF RowStep
<1>5. CASE Drops(w) /\ work'[w].at = "qmake"
  <2>1. row[Target(w)].status \in {"HELD", "CANCELLED"}
    BY <1>0, <1>5 DEF Drops, RowInv, DropInv
  <2>2. /\ row'[Target(w)].status = "NONE" /\ row'[Target(w)].dry = FALSE
        /\ row'[Target(w)].gen = row[Target(w)].gen /\ row'[Target(w)].today = FALSE
        /\ \A j \in Keys \ {Target(w)} : row'[j] = row[j]
    BY <1>0, <1>5, DropEffect DEF Drops
  <2> QED
    BY <1>0, <1>4, <1>5, <2>1, <2>2 DEF RowStep
<1>6. CASE /\ At(w, "qmake") /\ row[Target(w)].status = "NONE" /\ Leaves(w)
           /\ row'[Target(w)].status \in {"HELD", "QUEUED"}
           /\ row'[Target(w)].dry = FALSE /\ row'[Target(w)].today = FALSE
           /\ row'[Target(w)].gen = row[Target(w)].gen + 1
           /\ \A j \in Keys \ {Target(w)} : row'[j] = row[j]
  BY <1>0, <1>4, <1>6 DEF RowStep
<1>7. CASE At(w, "claim") /\ Claims(w)
  <2>1. /\ row[work'[w].key].status = "QUEUED" /\ SetRow(work'[w].key, "SENDING")
        /\ work'[w].key \in Keys
    BY <1>7 DEF Claims, Works, WorkType
  <2>2. PICK c \in Keys : c = work'[w].key
    BY <2>1
  <2>3. /\ row'[c].status = "SENDING" /\ row'[c].dry = row[c].dry /\ row'[c].gen = row[c].gen
        /\ \A j \in Keys \ {c} : row'[j] = row[j]
    BY <1>0, <1>1, <2>1, <2>2, SetRowEffect
  <2> QED
    BY <1>0, <1>4, <1>7, <2>1, <2>2, <2>3 DEF RowStep
<1>8. CASE At(w, "load") /\ Leaves(w) /\ \E status \in {"HELD", "CANCELLED"} : SetRow(Key(w), status)
  <2>1. PICK status \in {"HELD", "CANCELLED"} : SetRow(Key(w), status)
    BY <1>8
  <2>2. /\ row'[Key(w)].status = status /\ row'[Key(w)].dry = row[Key(w)].dry
        /\ row'[Key(w)].gen = row[Key(w)].gen
        /\ \A j \in Keys \ {Key(w)} : row'[j] = row[j]
    BY <1>0, <1>1, <2>1, SetRowEffect
  <2> QED
    BY <1>0, <1>2, <1>4, <1>8, <2>1, <2>2 DEF RowStep
<1>9. CASE At(w, "shadow") /\ MarkSent(Key(w), TRUE) /\ work'[w].at = "advance"
  <2>1. /\ row'[Key(w)].status = "SENT" /\ row'[Key(w)].dry = TRUE
        /\ row'[Key(w)].gen = row[Key(w)].gen
        /\ \A j \in Keys \ {Key(w)} : row'[j] = row[j]
    BY <1>0, <1>9, MarkSentEffect
  <2> QED
    BY <1>0, <1>2, <1>4, <1>9, <2>1 DEF RowStep
<1>10. CASE At(w, "sent") /\ MarkSent(Key(w), FALSE) /\ work'[w].at = "book"
  <2>1. /\ row'[Key(w)].status = "SENT" /\ row'[Key(w)].dry = FALSE
        /\ row'[Key(w)].gen = row[Key(w)].gen
        /\ \A j \in Keys \ {Key(w)} : row'[j] = row[j]
    BY <1>0, <1>10, MarkSentEffect
  <2> QED
    BY <1>0, <1>2, <1>4, <1>10, <2>1 DEF RowStep
<1>11. CASE At(w, "fail") /\ Leaves(w) /\ SetRow(Key(w), "FAILED")
  <2>1. /\ row'[Key(w)].status = "FAILED" /\ row'[Key(w)].dry = row[Key(w)].dry
        /\ row'[Key(w)].gen = row[Key(w)].gen
        /\ \A j \in Keys \ {Key(w)} : row'[j] = row[j]
    BY <1>0, <1>1, <1>11, SetRowEffect
  <2> QED
    BY <1>0, <1>3, <1>4, <1>11, <2>1 DEF RowStep
<1> HIDE BaseFacts DEF Turns
<1>12. CASE row' = row
  BY <1>4, <1>12
<1>13. \/ row' = row
       \/ Drops(w) /\ work'[w].at = "qmake"
       \/ /\ At(w, "qmake") /\ row[Target(w)].status = "NONE" /\ Leaves(w)
          /\ row'[Target(w)].status \in {"HELD", "QUEUED"}
          /\ row'[Target(w)].dry = FALSE /\ row'[Target(w)].today = FALSE
          /\ row'[Target(w)].gen = row[Target(w)].gen + 1
          /\ \A j \in Keys \ {Target(w)} : row'[j] = row[j]
       \/ At(w, "claim") /\ Claims(w)
       \/ At(w, "load") /\ Leaves(w) /\ \E status \in {"HELD", "CANCELLED"} : SetRow(Key(w), status)
       \/ At(w, "shadow") /\ MarkSent(Key(w), TRUE) /\ work'[w].at = "advance"
       \/ At(w, "sent") /\ MarkSent(Key(w), FALSE) /\ work'[w].at = "book"
       \/ At(w, "fail") /\ Leaves(w) /\ SetRow(Key(w), "FAILED")
  BY RowMoves, Zenon DEF Drops
<1> QED
  BY <1>5, <1>6, <1>7, <1>8, <1>9, <1>10, <1>11, <1>12, <1>13, Zenon

\* How queueStep goes on, or is called.
QueueOn(w) ==
  /\ Stays(w) /\ enr' = enr /\ work'[w].dry = work[w].dry
  /\ \/ /\ At(w, "qread") /\ work'[w].at = "qfind" /\ row' = row
        /\ work'[w].step = enr[Enrolment(w)].step
     \/ /\ At(w, "qfind") /\ work'[w].at = "qdrop" /\ row' = row
        /\ work'[w].step = work[w].step /\ work'[w].gen = row[Target(w)].gen
        /\ row[Target(w)].status \in {"HELD", "CANCELLED"}
     \/ /\ At(w, "qfind") /\ work'[w].at = "qmake" /\ row' = row
        /\ work'[w].step = work[w].step /\ row[Target(w)].status = "NONE"
     \/ Drops(w) /\ work'[w].at = "qmake" /\ work'[w].step = work[w].step
\* There is no other way to be in it.
LEMMA QueueMoves ==
  ASSUME BaseInv, NEW w \in Workers, WorkerStep(w), work'[w].at \in Queueing
  PROVE  QueueOn(w) \/ work'[w].at = "qread"
<1>1. ~Leaves(w) /\ ~Fails(w)
  BY DEF Leaves, Off, Fails, Queueing
<1>2. CASE \/ Pick(w) \/ Prior(w) \/ Used(w) \/ Consume(w) \/ Release(w) \/ Batch(w)
           \/ Count(w) \/ List(w) \/ Fail(w) \/ Throw(w) \/ Crash(w) \/ QueueMake(w)
  BY <1>1, <1>2, OffMoves, FailMoves, EndMoves, QueueMakeMoves
<1>3. CASE Enroll(w) \/ ReleaseNext(w)
  BY <1>1, <1>3, EnrollMoves, ReleaseMoves DEF Enters
<1>4. CASE QueueRead(w)
  BY <1>1, <1>4, QueueReadMoves DEF QueueRead, QueueOn
<1>5. CASE QueueFind(w)
  BY <1>1, <1>5, QueueFindMoves DEF QueueFind, QueueOn
<1>6. CASE QueueDrop(w)
  BY <1>1, <1>6, QueueDropMoves DEF QueueDrop, QueueOn, Drops
<1>7. CASE Claim(w) \/ Load(w)
  BY <1>1, <1>7, ClaimMoves, LoadMoves DEF Claims, Queueing
<1>8. CASE Shadow(w) \/ Answered(w) \/ Sent(w) \/ Book(w)
  BY <1>8, SendSpots DEF Queueing
<1>9. CASE Advance(w)
  BY <1>1, <1>9, AdvanceMoves
<1>10. CASE Sending(w)
  BY <1>10 DEF Sending, At, Queueing
<1> QED
  BY <1>2, <1>3, <1>4, <1>5, <1>6, <1>7, <1>8, <1>9, <1>10
     DEF WorkerStep, WorkStep, EnrollStep, QueueStep, SendStep

\* No worker's step touches the row of another sender.
LEMMA OthersRows ==
  ASSUME BaseInv, RowInv, NEW w \in Workers, WorkerStep(w), NEW x \in Workers \ {w}, Sender(x)
  PROVE  row'[Key(x)] = row[Key(x)]
<1>1. /\ Key(x) \in Keys /\ RowStep(w, Key(x))
      /\ row[Key(x)].status \in {"SENDING", "SENT"}
  <2>1. Key(x) \in Keys
    BY BaseFacts DEF Key
  <2>2. Fits(work[x], row[Key(x)])
    BY DEF RowInv, SenderInv
  <2>3. row[Key(x)].status \in {"SENDING", "SENT"}
    BY <2>2 DEF Fits, Sender
  <2> QED
    BY <2>1, <2>3, RowChanges
<1>2. ASSUME At(w, "load") \/ At(w, "shadow") \/ At(w, "sent") \/ At(w, "fail")
      PROVE  Key(x) # Key(w)
  <2>1. Sender(w)
    BY <1>2, BaseFacts DEF At, WorkOK, Sender
  <2> QED
    BY <2>1 DEF RowInv, SenderInv
<1> QED
  BY <1>1, <1>2 DEF RowStep, Turns

\* Every step keeps each sender at its own row.
LEMMA SenderInvNext ==
  ASSUME BaseInv, RowInv, NEW w \in Workers, WorkerStep(w)
  PROVE  SenderInv'
<1> USE BaseFacts DEF Key
<1>0. /\ OthersStay(w) /\ WorkOK(work'[w]) /\ work' \in Works
      /\ \A x \in Workers : Sender(x) => Fits(work[x], row[Key(x)]) /\ Key(x) \in Keys
      /\ \A x, y \in Workers : Sender(x) /\ Sender(y) /\ Key(x) = Key(y) => x = y
  BY WorkMoves DEF RowInv, SenderInv
<1>1. \A x \in Workers \ {w} : Sender(x)' => Sender(x) /\ Key(x)' = Key(x)
                                             /\ Fits(work'[x], row'[Key(x)])
  BY <1>0, OthersRows DEF OthersStay, Sender
<1>2. CASE ~Sender(w)'
  BY <1>0, <1>1, <1>2 DEF SenderInv
<1>3. CASE At(w, "claim") /\ Claims(w)
  <2>1. PICK k \in Keys : k = work'[w].key
    BY <1>3 DEF Claims, Works, WorkType
  <2>2. /\ row[k].status = "QUEUED" /\ row'[k].status = "SENDING" /\ row'[k].dry = row[k].dry
        /\ work'[w].at = "load" /\ ~work'[w].dry
    <3>1. row[k].status = "QUEUED" /\ SetRow(k, "SENDING") /\ "SENDING" \in Statuses
      BY <1>3, <2>1 DEF Claims, Statuses
    <3> QED
      BY <1>3, <3>1, SetRowEffect DEF Claims
  <2>3. ~row[k].dry
    BY <2>2 DEF RowInv, DryInv
  <2>4. Fits(work'[w], row'[k])
    BY <2>2, <2>3 DEF Fits, Queueing
  <2>5. \A x \in Workers \ {w} : Sender(x)' => Key(x)' # k
    BY <1>0, <1>1, <2>2 DEF Fits, Sender
  <2> QED
    BY <1>0, <1>1, <2>1, <2>4, <2>5 DEF SenderInv
<1>4. CASE Onward(w)
  <2>1. Sender(w) /\ Key(w)' = Key(w) /\ Fits(work[w], row[Key(w)]) /\ Key(w) \in Keys
    BY <1>0, <1>4 DEF Onward
  <2>2. Fits(work'[w], row'[Key(w)])
    <3>1. CASE At(w, "load") /\ work'[w].at = "shadow" /\ work'[w].dry /\ row' = row
      BY <2>1, <3>1 DEF Fits, Queueing, At
    <3>2. CASE /\ At(w, "shadow") /\ work'[w].at = "advance" /\ work'[w].dry = work[w].dry
               /\ MarkSent(Key(w), TRUE)
      <4>1. row'[Key(w)].status = "SENT"
        BY <2>1, <3>2, MarkSentEffect
      <4> QED
        BY <2>1, <3>2, <4>1 DEF Fits, At, Queueing
    <3>3. CASE /\ At(w, "sent") /\ work'[w].at = "book" /\ work'[w].dry = work[w].dry
               /\ MarkSent(Key(w), FALSE)
      <4>1. row'[Key(w)].status = "SENT" /\ row'[Key(w)].dry = FALSE
        BY <2>1, <3>3, MarkSentEffect
      <4> QED
        BY <2>1, <3>3, <4>1 DEF Fits, At, Queueing
    <3>4. CASE Drops(w) /\ work'[w].at = "qmake" /\ work'[w].dry = work[w].dry
      <4>1. row[Target(w)].status \in {"HELD", "CANCELLED"}
        BY <3>4 DEF Drops, RowInv, DropInv
      <4>2. row[Key(w)].status = "SENT"
        BY <2>1, <3>4 DEF Fits, Drops, At, Queueing
      <4>3. row'[Key(w)] = row[Key(w)]
        BY <2>1, <3>4, <4>1, <4>2, DropEffect DEF Drops
      <4> QED
        BY <2>1, <3>4, <4>2, <4>3 DEF Fits, Drops, At, Queueing
    <3>5. CASE /\ work'[w].dry = work[w].dry /\ row' = row
               /\ \/ At(w, "load") /\ work'[w].at = "sending"
                  \/ At(w, "sending") /\ work'[w].at \in {"sending", "fail", "sent"}
                  \/ At(w, "book") /\ work'[w].at = "advance"
                  \/ work[w].at \in {"advance"} \cup Queueing /\ work'[w].at \in Queueing
      BY <2>1, <3>5 DEF Fits, Queueing, At
    <3>6. CASE /\ work[w].at \in {"sent", "book", "advance"} \cup Queueing /\ work'[w].at = "fail"
               /\ ~work[w].dry /\ ~work'[w].dry /\ row' = row
      BY <2>1, <3>6 DEF Fits, Queueing, At
    <3> QED
      BY <1>4, <3>1, <3>2, <3>3, <3>4, <3>5, <3>6 DEF Onward
  <2>3. \A x \in Workers \ {w} : Sender(x)' => Key(x)' # Key(w)'
    BY <1>0, <1>1, <2>1
  <2> QED
    BY <1>0, <1>1, <2>1, <2>2, <2>3 DEF SenderInv
<1> HIDE BaseFacts
<1>5. work'[w].job # "send" \/ work'[w].at \in Off => ~Sender(w)'
  BY DEF Sender, Off, Queueing
<1> QED
  BY <1>2, <1>3, <1>4, <1>5, SenderMoves

\* At first there is no row and no sender.
LEMMA RowInvInit == Init => RowInv
<1> SUFFICES ASSUME Init PROVE RowInv
  OBVIOUS
<1>1. \A w \in Workers : work[w].at = "idle" /\ work[w].job = "none"
  BY IdleWork DEF Init
<1>2. \A k \in Keys : ~row[k].dry
  BY DEF Init, NoRow
<1> QED
  BY <1>1, <1>2 DEF RowInv, SenderInv, DropInv, DryInv, Sender, At

\* What is about to be deleted has not been built again, or the number has grown.
LEMMA DropInvNext ==
  ASSUME BaseInv, RowInv, NEW w \in Workers, WorkerStep(w)
  PROVE  DropInv' /\ DryInv'
<1>1. ASSUME NEW k \in Keys PROVE row'[k].dry => row'[k].status = "SENT"
  BY <1>1, RowChanges DEF RowStep, Turns, RowInv, DryInv
<1>2. ASSUME NEW x \in Workers, work'[x].at = "qdrop", Target(x)' = Target(x),
             At(x, "qdrop"), work'[x] = work[x]
      PROVE  /\ row'[Target(x)].gen >= work'[x].gen
             /\ row'[Target(x)].gen = work'[x].gen =>
                  row'[Target(x)].status \in {"NONE", "HELD", "CANCELLED"}
  <2>1. PICK k \in Keys : k = Target(x)
    BY BaseFacts
  <2>2. RowStep(w, k) /\ row'[k].gen >= row[k].gen
    BY RowChanges
  <2>3. row[k].gen \in Nat /\ row'[k].gen \in Nat /\ work[x].gen \in Nat
    BY BaseFacts, RowsNext DEF Rows, RowType, WorkType
  <2>4. /\ row[k].gen >= work[x].gen
        /\ row[k].gen = work[x].gen => row[k].status \in {"NONE", "HELD", "CANCELLED"}
    BY <1>2, <2>1 DEF RowInv, DropInv
  <2>5. row'[k].gen >= work'[x].gen
    BY <1>2, <2>2, <2>3, <2>4
  <2>6. ASSUME row'[k].gen = work'[x].gen
        PROVE  row'[k].status \in {"NONE", "HELD", "CANCELLED"}
    <3>1. row'[k].gen = row[k].gen /\ row[k].status \in {"NONE", "HELD", "CANCELLED"}
      BY <1>2, <2>2, <2>3, <2>4, <2>6
    <3>2. row'[k].gen # row[k].gen + 1
      BY <2>3, <3>1
    <3> QED
      BY <2>2, <3>1, <3>2 DEF RowStep, Turns
  <2> QED
    BY <2>1, <2>5, <2>6
<1>3. OthersStay(w)
  BY WorkMoves
<1>4. ASSUME NEW x \in Workers \ {w}, At(x, "qdrop")'
      PROVE  /\ (row[Target(x)].gen >= work[x].gen)'
             /\ (row[Target(x)].gen = work[x].gen =>
                   row[Target(x)].status \in {"NONE", "HELD", "CANCELLED"})'
  <2>1. work'[x] = work[x] /\ Target(x)' = Target(x) /\ At(x, "qdrop")
    BY <1>3, <1>4 DEF OthersStay, Target, Enrolment, Key, At
  <2> QED
    BY <1>2, <1>4, <2>1 DEF At
<1>5. ASSUME At(w, "qdrop")'
      PROVE  /\ (row[Target(w)].gen >= work[w].gen)'
             /\ (row[Target(w)].gen = work[w].gen =>
                   row[Target(w)].status \in {"NONE", "HELD", "CANCELLED"})'
  <2>1. /\ Stays(w) /\ row' = row /\ work'[w].step = work[w].step
        /\ work'[w].gen = row[Target(w)].gen
        /\ row[Target(w)].status \in {"HELD", "CANCELLED"}
    BY <1>5, QueueMoves DEF QueueOn, At, Queueing
  <2>2. Target(w)' = Target(w)
    BY <2>1 DEF Stays, Target, Enrolment, Key
  <2>3. row[Target(w)].gen \in Nat
    BY BaseFacts DEF Rows, RowType
  <2> QED
    BY <2>1, <2>2, <2>3
<1> QED
  BY <1>1, <1>4, <1>5 DEF DropInv, DryInv

\* Every step keeps the rows and the senders so.
LEMMA RowInvNext == BaseInv /\ RowInv /\ [Next]_vars => RowInv'
<1> SUFFICES ASSUME BaseInv, RowInv, [Next]_vars PROVE RowInv'
  OBVIOUS
<1>1. CASE UNCHANGED vars
  BY <1>1 DEF vars, RowInv, SenderInv, DropInv, DryInv, Sender, Key, Target, Enrolment, At
<1>2. CASE Outside /\ UNCHANGED <<done, work, broken, messages>>
  <2>1. \A k \in Keys :
          /\ row'[k].dry = row[k].dry /\ row'[k].gen = row[k].gen
          /\ \/ row'[k].status = row[k].status
             \/ row[k].status \in {"QUEUED", "HELD"} /\ row'[k].status = "CANCELLED"
    BY <1>2, BaseFacts, OutsideRows
  <2>2. /\ \A w \in Workers : Key(w) \in Keys /\ Target(w) \in Keys
        /\ work' = work
    BY <1>2, BaseFacts DEF Key
  <2>3. SenderInv'
    <3>1. \A w \in Workers : Sender(w)' = Sender(w) /\ Key(w)' = Key(w)
      BY <2>2 DEF Sender, Key
    <3>2. ASSUME NEW w \in Workers, Sender(w), Fits(work[w], row[Key(w)])
          PROVE  Fits(work'[w], row'[Key(w)])
      <4>1. row[Key(w)].status \in {"SENDING", "SENT"}
        BY <3>2 DEF Fits, Sender
      <4>2. row'[Key(w)].status = row[Key(w)].status /\ row'[Key(w)].dry = row[Key(w)].dry
        BY <2>1, <2>2, <4>1
      <4> QED
        BY <2>2, <3>2, <4>2 DEF Fits
    <3> QED
      BY <3>1, <3>2 DEF RowInv, SenderInv
  <2>4. DropInv'
    BY <2>1, <2>2 DEF RowInv, DropInv, At, Target, Enrolment, Key
  <2>5. DryInv'
    BY <2>1 DEF RowInv, DryInv
  <2> QED
    BY <2>3, <2>4, <2>5 DEF RowInv
<1>3. CASE \E w \in Workers : WorkerStep(w)
  BY <1>3, SenderInvNext, DropInvNext DEF RowInv
<1> QED
  BY <1>1, <1>2, <1>3, StepKinds

-----------------------------------------------------------------------------
(* One mail for each row *)

Fresh(k) == mail[k] = "NONE" /\ accepted[k] = 0
\* What a row and its execution say of its mail, and what a sender knows of it.
RowTells(k) ==
  /\ row[k].status \in {"NONE", "HELD", "QUEUED", "CANCELLED"} => Fresh(k)
  /\ accepted[k] <= 1
  /\ mail[k] = "SENT" => Mailed(k)
  /\ row[k].status = "SENT" => Mailed(k) \/ row[k].dry
  /\ k \in done => Mailed(k)
SenderKnows(w) ==
  /\ work[w].at \in {"load", "shadow"} => Fresh(Key(w))
  /\ work[w].at \in {"sent", "book"} => Mailed(Key(w))
  /\ At(w, "sending") => Stage(call[w], accepted[Key(w)])
MailInv == (\A k \in Keys : RowTells(k)) /\ (\A w \in Workers : SenderKnows(w))

\* A message moves only while its row's worker is at the send.
LEMMA MailMoves ==
  ASSUME BaseInv, RowInv, MailInv, NEW w \in Workers, WorkerStep(w)
  PROVE  /\ \A k \in Keys :
              \/ mail'[k] = mail[k] /\ accepted'[k] = accepted[k]
              \/ /\ At(w, "sending") /\ k = Key(w) /\ row'[k] = row[k]
                 /\ accepted[k] <= accepted'[k] /\ accepted'[k] <= 1
                 /\ mail'[k] = "SENT" => accepted'[k] >= 1
         /\ At(w, "sending") => Stage(call'[w], accepted'[Key(w)])
         /\ \A x \in Workers \ {w} : call'[x] = call[x]
<1>0. /\ Send!TypeOK /\ call \in [Workers -> CallType] /\ Key(w) \in Keys
      /\ SenderKnows(w) /\ RowTells(Key(w))
  BY BaseFacts DEF Send!TypeOK, CallType, Key, MailInv
<1>1. CASE UNCHANGED messages
  BY <1>0, <1>1 DEF messages, SenderKnows, At, Stage
<1>2. CASE At(w, "load") /\ Send!Begin(w, Key(w))
  <2>1. /\ mail' = mail /\ accepted' = accepted
        /\ \A x \in Workers \ {w} : call'[x] = call[x]
    BY <1>0, <1>2, BeginEffect, CallEffect DEF Sends
  <2> QED
    BY <1>2, <2>1 DEF At
<1>3. CASE Send!Step(w) \/ Send!Die(w)
  <2>1. /\ call[w].at # "idle" /\ \A x \in Workers \ {w} : call'[x] = call[x]
    BY <1>0, <1>3, StepEffect, CallEffect DEF Sends
  <2>2. At(w, "sending") /\ call[w].key = Key(w)
    BY <2>1 DEF BaseInv, CallsInv
  <2>3. PICK k \in Keys : k = Key(w)
    BY <1>0
  <2>4. /\ k = call[w].key /\ accepted[k] <= 1 /\ (mail[k] = "SENT" => accepted[k] >= 1)
        /\ Stage(call[w], accepted[k])
    BY <1>0, <2>2, <2>3 DEF SenderKnows, RowTells, Mailed
  <2>5. /\ \A s \in Keys \ {k} : accepted'[s] = accepted[s] /\ mail'[s] = mail[s]
        /\ accepted'[k] <= 1 /\ accepted'[k] >= accepted[k]
        /\ mail'[k] = "SENT" => accepted'[k] >= 1
        /\ Stage(call'[w], accepted'[k])
    BY <1>0, <1>3, <2>4, SendKeepsStage
  <2>6. row'[k] = row[k]
    BY <2>2, RowChanges DEF RowStep, At, Drops
  <2>7. accepted[k] \in Nat /\ accepted'[k] \in Nat
    BY <1>0, CallsInvNext DEF Send!TypeOK
  <2> QED
    BY <2>1, <2>2, <2>3, <2>5, <2>6, <2>7
<1> QED
  BY <1>1, <1>2, <1>3, MessageMoves

\* Rows go on telling of their mail.
LEMMA RowTellsNext ==
  ASSUME BaseInv, RowInv, MailInv, NEW w \in Workers, WorkerStep(w), NEW k \in Keys
  PROVE  RowTells(k)'
<1>0. /\ RowTells(k) /\ SenderKnows(w) /\ RowStep(w, k) /\ accepted[k] \in Nat
      /\ accepted'[k] \in Nat
  BY BaseFacts, RowChanges, CallsInvNext DEF MailInv, Send!TypeOK
<1>1. k \in done' => k \in done \/ (At(w, "book") /\ k = Key(w))
  BY EnrMoves
<1>2. CASE mail'[k] = mail[k] /\ accepted'[k] = accepted[k]
  <2>1. row'[k].status \in {"NONE", "HELD", "QUEUED", "CANCELLED"} => Fresh(k)
    BY <1>0 DEF RowStep, Turns, RowTells, SenderKnows, At
  <2>2. row'[k].status = "SENT" => Mailed(k) \/ row'[k].dry
    BY <1>0 DEF RowStep, Turns, RowTells, SenderKnows, At
  <2>3. k \in done' => Mailed(k)
    BY <1>0, <1>1 DEF RowTells, SenderKnows, At
  <2> QED
    BY <1>0, <1>2, <2>1, <2>2, <2>3 DEF RowTells, Fresh, Mailed
<1>3. CASE /\ At(w, "sending") /\ k = Key(w) /\ row'[k] = row[k]
           /\ accepted[k] <= accepted'[k] /\ accepted'[k] <= 1
           /\ mail'[k] = "SENT" => accepted'[k] >= 1
  <2>1. row[k].status = "SENDING"
    BY <1>3, BaseFacts DEF RowInv, SenderInv, Fits, Sender, At, WorkOK
  <2>2. k \in done' => accepted'[k] >= 1
    BY <1>0, <1>1, <1>3 DEF RowTells, Mailed, At
  <2> QED
    BY <1>3, <2>1, <2>2 DEF RowTells, Mailed
<1> QED
  BY <1>2, <1>3, MailMoves

\* Senders go on knowing of theirs.
LEMMA SenderKnowsNext ==
  ASSUME BaseInv, RowInv, MailInv, NEW w \in Workers, WorkerStep(w), NEW x \in Workers
  PROVE  SenderKnows(x)'
<1> DEFINE Same(k) == mail'[k] = mail[k] /\ accepted'[k] = accepted[k]
<1>0. /\ OthersStay(w) /\ WorkOK(work'[x]) /\ WorkOK(work[x]) /\ SenderKnows(x)
      /\ Key(x) \in Keys /\ call \in [Workers -> CallType]
  BY BaseFacts, BaseInvNext, WorkMoves
     DEF MailInv, Key, OthersStay, Send!TypeOK, CallType
<1>1. ASSUME ~At(w, "sending") PROVE \A k \in Keys : Same(k)
  BY <1>1, MailMoves
<1>2. CASE x # w
  <2>1. work'[x] = work[x] /\ call'[x] = call[x] /\ Key(x)' = Key(x)
    BY <1>0, <1>2, MailMoves DEF OthersStay, Key
  <2>2. CASE Sender(x)
    <3>1. At(w, "sending") => Sender(w)
      BY BaseFacts DEF At, WorkOK, Sender
    <3>2. At(w, "sending") => Key(x) # Key(w)
      BY <1>2, <2>2, <3>1 DEF RowInv, SenderInv
    <3>3. Same(Key(x))
      BY <1>0, <3>2, MailMoves
    <3> QED
      BY <1>0, <2>1, <3>3 DEF SenderKnows, Fresh, Mailed, At
  <2>3. CASE ~Sender(x)
    BY <1>0, <2>1, <2>3 DEF SenderKnows, Sender, WorkOK, At
  <2> QED
    BY <2>2, <2>3
<1>3. CASE x = w /\ (work'[w].job # "send" \/ work'[w].at \in Off)
  BY <1>0, <1>3 DEF SenderKnows, WorkOK, Off, At
<1>4. CASE x = w /\ At(w, "claim") /\ Claims(w)
  <2>1. PICK k \in Keys : k = work'[w].key
    BY <1>4 DEF Claims, Works, WorkType
  <2>2. Fresh(k) /\ Same(k) /\ work'[w].at = "load"
    BY <1>1, <1>4, <2>1 DEF Claims, At, MailInv, RowTells
  <2>3. Fresh(k)'
    BY <2>2 DEF Fresh
  <2> QED
    BY <1>4, <2>1, <2>2, <2>3 DEF SenderKnows, Key, At, Fresh
<1>5. CASE x = w /\ Onward(w)
  <2>0. PICK k \in Keys : k = Key(w) /\ k = Key(w)'
    BY <1>0, <1>5 DEF Onward, Key
  <2>1. CASE At(w, "load") /\ work'[w].at = "shadow"
    <3>1. Fresh(k) /\ Same(k)
      BY <1>0, <1>1, <1>5, <2>0, <2>1 DEF SenderKnows, At
    <3>2. Fresh(k)'
      BY <3>1 DEF Fresh
    <3> QED
      BY <1>5, <2>0, <2>1, <3>2 DEF SenderKnows, At, Fresh
  <2>2. CASE At(w, "load") /\ work'[w].at = "sending" /\ Send!Begin(w, Key(w))
    <3>1. accepted'[k] = 0
      BY <1>0, <1>1, <1>5, <2>0, <2>2 DEF SenderKnows, Fresh, At
    <3>2. call'[w].at = "begun" /\ call'[w].got = "none"
      BY <1>0, <1>5, <2>2, BeginEffect
    <3> QED
      BY <1>5, <2>0, <2>2, <3>1, <3>2 DEF SenderKnows, Stage, At
  <2>3. CASE At(w, "sending") /\ work'[w].at \in {"sending", "fail"}
    <3>1. Stage(call'[w], accepted'[k])
      BY <2>0, <2>3, MailMoves
    <3> QED
      BY <1>5, <2>0, <2>3, <3>1 DEF SenderKnows, At
  <2>4. CASE /\ At(w, "sending") /\ work'[w].at = "sent"
             /\ call[w].got \in {"SENT", "RESUMED"} /\ UNCHANGED messages
    <3>1. accepted'[k] >= 1
      BY <1>0, <1>5, <2>0, <2>4 DEF SenderKnows, Stage, messages
    <3> QED
      BY <1>5, <2>0, <2>4, <3>1 DEF SenderKnows, Mailed, At
  <2>5. CASE At(w, "sent") /\ work'[w].at = "book"
    <3>1. accepted'[k] >= 1
      BY <1>0, <1>1, <1>5, <2>0, <2>5 DEF SenderKnows, Mailed, At
    <3> QED
      BY <1>5, <2>0, <2>5, <3>1 DEF SenderKnows, Mailed, At
  <2>6. CASE work'[w].at \in {"advance", "fail"} \cup Queueing
    BY <1>5, <2>6 DEF SenderKnows, At, Queueing
  <2> QED
    BY <1>5, <2>1, <2>2, <2>3, <2>4, <2>5, <2>6 DEF Onward, Queueing
<1> QED
  BY <1>2, <1>3, <1>4, <1>5, SenderMoves

\* At first nothing is mailed, and no row says so.
LEMMA MailInvInit == Init => MailInv
<1> SUFFICES ASSUME Init PROVE MailInv
  OBVIOUS
<1>1. \A w \in Workers : work[w].at = "idle"
  BY IdleWork DEF Init
<1>2. \A k \in Keys : row[k].status = "NONE" /\ Fresh(k) /\ k \notin done
  BY DEF Init, NoRow, Send!Init, Fresh
<1> QED
  BY <1>1, <1>2 DEF MailInv, RowTells, SenderKnows, Fresh, Mailed, At

\* Every step keeps the rows and their mail together.
LEMMA MailInvNext == BaseInv /\ RowInv /\ MailInv /\ [Next]_vars => MailInv'
<1> SUFFICES ASSUME BaseInv, RowInv, MailInv, [Next]_vars PROVE MailInv'
  OBVIOUS
<1>1. CASE UNCHANGED vars
  BY <1>1 DEF vars, messages, MailInv, RowTells, SenderKnows, Fresh, Mailed, Key, At
<1>2. CASE Outside /\ UNCHANGED <<done, work, broken, messages>>
  <2>1. \A k \in Keys :
          /\ row'[k].dry = row[k].dry
          /\ \/ row'[k].status = row[k].status
             \/ row[k].status \in {"QUEUED", "HELD"} /\ row'[k].status = "CANCELLED"
    BY <1>2, BaseFacts, OutsideRows
  <2>2. \A k \in Keys : RowTells(k)'
    BY <1>2, <2>1 DEF MailInv, RowTells, Fresh, Mailed, messages
  <2>3. \A w \in Workers : SenderKnows(w)'
    BY <1>2 DEF MailInv, SenderKnows, Fresh, Mailed, Key, At, messages
  <2> QED
    BY <2>2, <2>3 DEF MailInv
<1>3. CASE \E w \in Workers : WorkerStep(w)
  BY <1>3, RowTellsNext, SenderKnowsNext DEF MailInv
<1> QED
  BY <1>1, <1>2, <1>3, StepKinds

\* What a reachable state tells of rows, senders and mail.
SendingInv == BaseInv /\ RowInv /\ MailInv
\* Every one does.
THEOREM SendingInvAlways == Spec => []SendingInv
<1>1. Init => SendingInv
  BY BaseInvInit, RowInvInit, MailInvInit DEF SendingInv
<1>2. SendingInv /\ [Next]_vars => SendingInv'
  BY BaseInvNext, RowInvNext, MailInvNext DEF SendingInv
<1> QED
  BY <1>1, <1>2, PTL DEF Spec

\* Whatever overlaps, dies or throws, no row is mailed twice.
THEOREM MailedOnceAlways == Spec => []MailedOnce
<1>1. SendingInv => MailedOnce
  BY DEF SendingInv, MailInv, RowTells, MailedOnce
<1> QED
  BY <1>1, SendingInvAlways, PTL

\* Rows that wait were never mailed, and what is called sent was.
THEOREM RowsTellMailAlways == Spec => []RowsTellMail
<1>1. ASSUME SendingInv PROVE RowsTellMail
  <2>1. \A k \in Keys : RowTells(k) /\ accepted[k] \in Nat
    BY <1>1, BaseFacts DEF SendingInv, MailInv, Send!TypeOK
  <2>2. WaitingIsUnmailed
    BY <2>1 DEF WaitingIsUnmailed, RowTells, Fresh, Mailed
  <2>3. SentWasMailed
    BY <2>1 DEF SentWasMailed, RowTells
  <2> QED
    BY <2>2, <2>3 DEF RowsTellMail
<1> QED
  BY <1>1, SendingInvAlways, PTL

-----------------------------------------------------------------------------
(* The steps in order *)

\* A row that was mailed, or meant to be in shadow mode.
Spoken(k) == Mailed(k) \/ row[k].dry
Before(e, s) == \A t \in ActiveSteps : t < s => Spoken(<<e, t>>)
\* The enrolments, the rows that were made and queueStep are past what was spoken.
OrderInv ==
  /\ \A e \in Enrolments : Before(e, enr[e].step)
  /\ \A k \in Keys : row[k].status # "NONE" => Before(k[1], k[2])
  /\ \A w \in Workers : work[w].at \in {"qfind", "qdrop", "qmake"} => Before(Enrolment(w), work[w].step)

\* What was spoken remains so.
LEMMA SpokenStays ==
  ASSUME SendingInv, NEW w \in Workers, WorkerStep(w), NEW k \in Keys, Spoken(k)
  PROVE  Spoken(k)'
<1>1. RowStep(w, k) /\ RowTells(k) /\ accepted[k] \in Nat /\ accepted'[k] \in Nat
  BY BaseFacts, RowChanges, CallsInvNext DEF SendingInv, MailInv, Send!TypeOK
<1>2. accepted[k] <= accepted'[k]
  BY <1>1, MailMoves DEF SendingInv
<1>3. row[k].dry => row[k].status = "SENT"
  BY DEF SendingInv, RowInv, DryInv
<1>4. row[k].dry => row'[k].dry
  BY <1>1, <1>3 DEF RowStep, Turns
<1> QED
  BY <1>1, <1>2, <1>4 DEF Spoken, Mailed

\* So what was before a step goes on being so.
LEMMA BeforeStays ==
  ASSUME SendingInv, NEW w \in Workers, WorkerStep(w), NEW e \in Enrolments, NEW s,
         Before(e, s)
  PROVE  \A t \in ActiveSteps : t < s => Spoken(<<e, t>>)'
BY SpokenStays, KeyFacts DEF Before

\* Past a step that was spoken comes the next one.
LEMMA BeforeNext ==
  ASSUME NEW e \in Enrolments, NEW s \in Steps, Later(s) # {}, Before(e, s),
         s \in ActiveSteps => Spoken(<<e, s>>)
  PROVE  Before(e, NextStep(s))
<1>1. ASSUME NEW t \in ActiveSteps, t < NextStep(s) PROVE Spoken(<<e, t>>)
  <2>1. t <= s /\ t \in Nat /\ s \in Nat
    BY <1>1, NextStepIsNext, KeyFacts
  <2>2. t < s \/ t = s
    BY <2>1
  <2> QED
    BY <2>2 DEF Before
<1> QED
  BY <1>1 DEF Before

\* At first no enrolment is past a step.
LEMMA OrderInvInit == Init => OrderInv
<1> SUFFICES ASSUME Init PROVE OrderInv
  OBVIOUS
<1>1. \A w \in Workers : work[w].at = "idle"
  BY IdleWork DEF Init
<1>2. \A k \in Keys : row[k].status = "NONE"
  BY DEF Init, NoRow
<1>3. \A t \in ActiveSteps : ~(t < 1)
  BY KeyFacts, OutboxAssumption DEF Steps
<1>4. \A e \in Enrolments : Before(e, enr[e].step)
  BY <1>3 DEF Init, Before
<1> QED
  BY <1>1, <1>2, <1>4 DEF OrderInv

\* An enrolment moves past a step when its row is sent.
LEMMA EnrolmentsInOrder ==
  ASSUME SendingInv, OrderInv, NEW w \in Workers, WorkerStep(w), NEW e \in Enrolments
  PROVE  \A t \in ActiveSteps : t < enr'[e].step => Spoken(<<e, t>>)'
<1>0. enr \in Enrs /\ SendingInv /\ Before(e, enr[e].step) /\ Key(w) \in Keys
  BY BaseFacts DEF SendingInv, OrderInv, Enrs, Key
<1>1. ASSUME Before(e, enr'[e].step)
      PROVE  \A t \in ActiveSteps : t < enr'[e].step => Spoken(<<e, t>>)'
  BY <1>1, SpokenStays, KeyFacts DEF Before
<1>2. CASE enr'[e].step = enr[e].step
  BY <1>0, <1>1, <1>2
<1>3. ASSUME NEW f \in Enrolments, enr' = [enr EXCEPT ![f] = [status |-> "ACTIVE", step |-> 1]]
      PROVE  \A t \in ActiveSteps : t < enr'[e].step => Spoken(<<e, t>>)'
  <2>1. enr'[e].step = 1 \/ enr'[e].step = enr[e].step
    BY <1>0, <1>3 DEF Enrs
  <2>2. \A t \in ActiveSteps : ~(t < 1)
    BY KeyFacts, OutboxAssumption DEF Steps
  <2> QED
    BY <1>2, <2>1, <2>2
<1>4. CASE enr' = [enr EXCEPT ![Enrolment(w)].status = "COMPLETED"]
  <2>1. enr'[e].step = enr[e].step
    BY <1>0, <1>4 DEF Enrs
  <2> QED
    BY <1>2, <2>1
<1>5. CASE /\ At(w, "advance") /\ Later(Key(w)[2]) # {}
           /\ enr' = [enr EXCEPT ![Enrolment(w)] =
                        [status |-> "ACTIVE", step |-> NextStep(Key(w)[2])]]
  <2>1. CASE e # Enrolment(w)
    <3>1. enr'[e].step = enr[e].step
      BY <1>0, <1>5, <2>1 DEF Enrs
    <3> QED
      BY <1>2, <3>1
  <2>2. CASE e = Enrolment(w)
    <3>1. PICK s \in Steps : s = Key(w)[2] /\ Key(w) = <<e, s>>
      BY <1>0, <2>2, KeyFacts DEF Enrolment
    <3>2. row[Key(w)].status = "SENT"
      BY <1>0, <1>5, BaseFacts DEF SendingInv, RowInv, SenderInv, Fits, Sender, At, WorkOK
    <3>3. Spoken(<<e, s>>)
      BY <1>0, <3>1, <3>2 DEF SendingInv, MailInv, RowTells, Spoken
    <3>4. Before(e, s)
      BY <1>0, <3>1, <3>2, KeyFacts DEF OrderInv
    <3>5. enr'[e].step = NextStep(s) /\ Later(s) # {}
      BY <1>0, <1>5, <2>2, <3>1 DEF Enrs
    <3> QED
      BY <1>1, <3>1, <3>3, <3>4, <3>5, BeforeNext
  <2> QED
    BY <2>1, <2>2
<1>6. BaseInv
  BY DEF SendingInv
<1>7. CASE enr' = enr
  BY <1>2, <1>7
<1> QED
  BY <1>3, <1>4, <1>5, <1>6, <1>7, EnrMoves

\* Every step keeps the order.
LEMMA OrderInvNext == SendingInv /\ OrderInv /\ [Next]_vars => OrderInv'
<1> SUFFICES ASSUME SendingInv, OrderInv, [Next]_vars PROVE OrderInv'
  OBVIOUS
<1>0. BaseInv /\ RowInv /\ MailInv
  BY DEF SendingInv
<1>1. CASE UNCHANGED vars
  BY <1>1 DEF vars, messages, OrderInv, Before, Spoken, Mailed, Enrolment, Key
<1>2. CASE Outside /\ UNCHANGED <<done, work, broken, messages>>
  <2>1. \A k \in Keys : /\ row'[k].dry = row[k].dry
                        /\ row'[k].status # "NONE" => row[k].status # "NONE"
    BY <1>0, <1>2, BaseFacts, OutsideRows
  <2>2. \A k \in Keys : Spoken(k)' = Spoken(k)
    BY <1>2, <2>1 DEF Spoken, Mailed, messages
  <2>3. \A e \in Enrolments : \A s : Before(e, s) => Before(e, s)'
    BY <2>2, KeyFacts DEF Before
  <2>4. \A e \in Enrolments : enr'[e].step = enr[e].step
    BY <1>0, <1>2, BaseFacts, OutsideEnrs DEF Enrs
  <2>5. \A e \in Enrolments : Before(e, enr[e].step)'
    BY <2>3, <2>4 DEF OrderInv, Before
  <2>6. \A k \in Keys : row'[k].status # "NONE" => Before(k[1], k[2])'
    BY <2>1, <2>3, KeyFacts DEF OrderInv
  <2>7. \A w \in Workers : work[w].at \in {"qfind", "qdrop", "qmake"} =>
          Before(Enrolment(w), work[w].step)'
    BY <1>0, <1>2, <2>3, BaseFacts DEF OrderInv, Enrolment, Key, Before
  <2>8. work' = work
    BY <1>2
  <2> QED
    BY <2>5, <2>6, <2>7, <2>8 DEF OrderInv, Enrolment, Key
<1>3. ASSUME NEW w \in Workers, WorkerStep(w) PROVE OrderInv'
  <2>1. ASSUME NEW e \in Enrolments PROVE Before(e, enr[e].step)'
    BY <1>3, EnrolmentsInOrder DEF Before
  <2>2. ASSUME NEW k \in Keys, row'[k].status # "NONE" PROVE Before(k[1], k[2])'
    <3>1. RowStep(w, k)
      BY <1>0, <1>3, RowChanges
    <3>2. row[k].status # "NONE" \/ (At(w, "qmake") /\ k = Target(w))
      BY <2>2, <3>1 DEF RowStep, Turns
    <3>3. Before(k[1], k[2])
      BY <1>0, <3>2, KeyFacts, BaseFacts DEF OrderInv, Target, At
    <3>4. k[1] \in Enrolments
      BY KeyFacts
    <3> QED
      BY <1>3, <3>3, <3>4, BeforeStays DEF Before
  <2>3. ASSUME NEW x \in Workers, work'[x].at \in {"qfind", "qdrop", "qmake"}
        PROVE  Before(Enrolment(x), work[x].step)'
    <3>0. OthersStay(w) /\ Enrolment(x) \in Enrolments
      BY <1>0, <1>3, WorkMoves, BaseFacts
    <3>1. CASE work'[x] = work[x]
      <4>1. /\ Before(Enrolment(x), work[x].step)
            /\ Enrolment(x)' = Enrolment(x) /\ work'[x].step = work[x].step
        BY <2>3, <3>1 DEF OrderInv, Enrolment, Key
      <4> QED
        BY <1>3, <3>0, <4>1, BeforeStays DEF Before
    <3>2. CASE x = w
      <4>1. QueueOn(w)
        BY <1>0, <1>3, <2>3, <3>2, QueueMoves DEF Queueing
      <4>2. /\ Enrolment(x)' = Enrolment(x)
            /\ work'[x].step = enr'[Enrolment(x)].step
                 \/ /\ work'[x].step = work[x].step
                    /\ work[x].at \in {"qfind", "qdrop", "qmake"}
        BY <3>2, <4>1 DEF QueueOn, Stays, Enrolment, Key, At, Drops
      <4>3. CASE work'[x].step = enr'[Enrolment(x)].step
        BY <2>1, <3>0, <4>2, <4>3 DEF Before
      <4>4. CASE /\ work'[x].step = work[x].step
                 /\ work[x].at \in {"qfind", "qdrop", "qmake"}
        <5>1. Before(Enrolment(x), work[x].step)
          BY <4>4 DEF OrderInv
        <5> QED
          BY <1>3, <3>0, <4>2, <4>4, <5>1, BeforeStays DEF Before
      <4> QED
        BY <4>2, <4>3, <4>4
    <3> QED
      BY <3>0, <3>1, <3>2 DEF OthersStay
  <2> QED
    BY <2>1, <2>2, <2>3 DEF OrderInv
<1> QED
  BY <1>1, <1>2, <1>3, StepKinds

\* No step is mailed before the steps ahead of it, whatever became of its row.
THEOREM StepsInOrderAlways == Spec => []StepsInOrder
<1>1. Init => OrderInv
  BY OrderInvInit
<1>2. SendingInv /\ OrderInv /\ [Next]_vars => OrderInv'
  BY OrderInvNext
<1>3. ASSUME SendingInv, OrderInv PROVE StepsInOrder
  <2>1. ASSUME NEW e \in Enrolments, NEW s \in ActiveSteps, NEW t \in ActiveSteps,
               s < t, Mailed(<<e, t>>)
        PROVE  Mailed(<<e, s>>) \/ row[<<e, s>>].dry
    <3>1. /\ <<e, t>> \in Keys /\ <<e, t>>[1] = e /\ <<e, t>>[2] = t
      BY KeyFacts
    <3>2. RowTells(<<e, t>>) /\ accepted[<<e, t>>] \in Nat
      BY <1>3, <3>1, BaseFacts DEF SendingInv, MailInv, Send!TypeOK
    <3>3. row[<<e, t>>].status # "NONE"
      BY <2>1, <3>2 DEF RowTells, Fresh, Mailed
    <3>4. Before(e, t)
      BY <1>3, <3>1, <3>3 DEF OrderInv
    <3> QED
      BY <2>1, <3>4 DEF Before, Spoken
  <2> QED
    BY <2>1 DEF StepsInOrder
<1> QED
  BY <1>1, <1>2, <1>3, SendingInvAlways, PTL DEF Spec

-----------------------------------------------------------------------------
(* The enrolments that are served *)

\* A worker on its way to the row of an enrolment's step.
Serves(w, e) ==
  /\ Enrolment(w) = e
  /\ \/ At(w, "qread")
     \/ work[w].at \in {"qfind", "qdrop", "qmake"} /\ work[w].step = enr[e].step
\* A row that was deleted is being made again.
Dropped(k) == row[k].status = "NONE" /\ row[k].gen >= 1
Made ==
  /\ \A k \in Keys : row[k].status # "NONE" => row[k].gen >= 1
  /\ \A w \in Workers : At(w, "qdrop") => work[w].gen >= 1
ServedInv ==
  /\ Made
  /\ \A e \in Enrolments : enr[e].step \in ActiveSteps
  /\ ~broken =>
       /\ \A e \in Enrolments : IsOpen(e) =>
            row[<<e, enr[e].step>>].status # "NONE" \/ \E w \in Workers : Serves(w, e)
       /\ \A k \in Keys : Dropped(k) => \E w \in Workers : At(w, "qmake") /\ Target(w) = k

\* At first nothing is open.
LEMMA ServedInvInit == 1 \in ActiveSteps /\ Init => ServedInv
<1> SUFFICES ASSUME 1 \in ActiveSteps, Init PROVE ServedInv
  OBVIOUS
<1>1. \A w \in Workers : work[w].at = "idle"
  BY IdleWork DEF Init
<1>2. \A k \in Keys : row[k].status = "NONE" /\ row[k].gen = 0
  BY DEF Init, NoRow
<1>3. \A e \in Enrolments : enr[e].step = 1 /\ ~IsOpen(e)
  BY DEF Init, IsOpen, Open
<1> QED
  BY <1>1, <1>2, <1>3 DEF ServedInv, Made, Dropped, At

\* Unless it breaks, a worker in queueStep goes on with it.
LEMMA QueueTurn ==
  ASSUME NEW w \in Workers, WorkerStep(w), work[w].at \in Queueing, ~broken'
  PROVE  QueueStep(w)
<1>1. CASE Throw(w) \/ Crash(w)
  BY <1>1 DEF Throw, Crash
<1>2. CASE \/ Pick(w) \/ Prior(w) \/ Used(w) \/ Consume(w) \/ Release(w) \/ Batch(w)
           \/ Count(w) \/ List(w) \/ Fail(w) \/ Enroll(w) \/ ReleaseNext(w)
  BY <1>2 DEF Pick, Prior, Used, Consume, Release, Batch, Count, List, Fail, Enroll,
              ReleaseNext, At, Queueing
<1>3. CASE \/ Claim(w) \/ Load(w) \/ Shadow(w) \/ Answered(w) \/ Sent(w) \/ Book(w)
           \/ Advance(w) \/ Sending(w)
  BY <1>3 DEF Claim, Load, Shadow, Answered, Sent, Book, Advance, Sending, At, Queueing
<1> QED
  BY <1>1, <1>2, <1>3 DEF WorkerStep, WorkStep, EnrollStep, SendStep

\* Rows that are there were made, and those about to be deleted too.
LEMMA MadeNext ==
  ASSUME SendingInv, Made, NEW w \in Workers, WorkerStep(w)
  PROVE  Made'
<1>0. BaseInv /\ RowInv /\ OthersStay(w)
  BY WorkMoves DEF SendingInv
<1>1. ASSUME NEW k \in Keys, row'[k].status # "NONE" PROVE row'[k].gen >= 1
  <2>1. RowStep(w, k) /\ row'[k].gen >= row[k].gen /\ row[k].gen \in Nat /\ row'[k].gen \in Nat
    BY <1>0, RowChanges, RowsNext, BaseFacts DEF Rows, RowType
  <2>2. CASE row[k].status = "NONE"
    BY <1>1, <2>1, <2>2 DEF RowStep, Turns
  <2>3. CASE row[k].status # "NONE"
    BY <2>1, <2>3 DEF Made
  <2> QED
    BY <2>2, <2>3
<1>2. ASSUME NEW x \in Workers, At(x, "qdrop")' PROVE work'[x].gen >= 1
  <2>1. CASE x # w
    BY <1>0, <1>2, <2>1 DEF OthersStay, Made, At
  <2>2. CASE x = w
    <3>1. QueueOn(w)
      BY <1>0, <1>2, <2>2, QueueMoves DEF At, Queueing
    <3>2. work'[w].gen = row[Target(w)].gen /\ row[Target(w)].status # "NONE"
      BY <1>2, <2>2, <3>1 DEF QueueOn, At
    <3> QED
      BY <1>0, <2>2, <3>2, BaseFacts DEF Made
  <2> QED
    BY <2>1, <2>2
<1> QED
  BY <1>1, <1>2 DEF Made

\* An enrolment is at an active step, for its first step is.
LEMMA ActiveStepsNext ==
  ASSUME 1 \in ActiveSteps, BaseInv, NEW w \in Workers, WorkerStep(w),
         \A e \in Enrolments : enr[e].step \in ActiveSteps
  PROVE  \A e \in Enrolments : enr'[e].step \in ActiveSteps
<1>0. enr \in Enrs /\ Key(w)[2] \in Steps
  BY BaseFacts, KeyFacts DEF Enrs, Key
<1>1. ASSUME NEW f \in Enrolments, NEW s \in ActiveSteps,
             enr' = [enr EXCEPT ![f] = [status |-> "ACTIVE", step |-> s]]
      PROVE  \A e \in Enrolments : enr'[e].step \in ActiveSteps
  BY <1>0, <1>1 DEF Enrs
<1>2. CASE enr' = [enr EXCEPT ![Enrolment(w)].status = "COMPLETED"]
  <2>1. \A e \in Enrolments : enr'[e].step = enr[e].step
    BY <1>0, <1>2 DEF Enrs
  <2> QED
    BY <2>1
<1>3. Enrolment(w) \in Enrolments
  BY BaseFacts
<1>4. CASE /\ Later(Key(w)[2]) # {}
           /\ enr' = [enr EXCEPT ![Enrolment(w)] =
                        [status |-> "ACTIVE", step |-> NextStep(Key(w)[2])]]
  BY <1>0, <1>1, <1>3, <1>4, NextStepIsNext
<1> QED
  BY <1>1, <1>2, <1>4, EnrMoves

\* A row that was deleted has a worker that makes it, until it is made.
LEMMA DroppedNext ==
  ASSUME SendingInv, ServedInv, NEW w \in Workers, WorkerStep(w), ~broken', ~broken,
         NEW k \in Keys, Dropped(k)'
  PROVE  \E x \in Workers : (At(x, "qmake") /\ Target(x) = k)'
<1>0. BaseInv /\ RowInv /\ OthersStay(w) /\ RowStep(w, k)
  BY WorkMoves, RowChanges DEF SendingInv
<1>1. CASE row'[k] = row[k]
  <2>1. Dropped(k)
    BY <1>1 DEF Dropped
  <2>2. PICK x \in Workers : At(x, "qmake") /\ Target(x) = k
    BY <2>1 DEF ServedInv
  <2>3. CASE x # w
    BY <1>0, <2>2, <2>3 DEF OthersStay, At, Target, Enrolment, Key
  <2>4. CASE x = w
    <3>1. QueueStep(w)
      BY <2>2, <2>4, QueueTurn DEF At, Queueing
    <3>2. QueueMake(w)
      BY <2>2, <2>4, <3>1 DEF QueueStep, QueueRead, QueueFind, QueueDrop, At
    <3>3. row'[k].status # "NONE"
      BY <1>0, <2>2, <2>4, <3>2, QueueMakeMoves
    <3> QED
      BY <3>3 DEF Dropped
  <2> QED
    BY <2>3, <2>4
<1>2. CASE k = Target(w) /\ Drops(w) /\ work'[w].at = "qmake"
  <2>1. QueueOn(w)
    BY <1>0, <1>2, QueueMoves DEF Queueing
  <2>2. Target(w)' = Target(w)
    BY <1>2, <2>1 DEF QueueOn, Stays, Target, Enrolment, Key, Drops, At
  <2> QED
    BY <1>2, <2>2 DEF At
<1> QED
  BY <1>0, <1>1, <1>2 DEF RowStep, Turns, Dropped

\* A worker that serves an enrolment goes on, or leaves it with its row.
LEMMA ServesOn ==
  ASSUME SendingInv, ServedInv, NEW w \in Workers, WorkerStep(w), ~broken', ~broken,
         NEW e \in Enrolments, enr'[e] = enr[e], Serves(w, e)
  PROVE  row'[<<e, enr[e].step>>].status # "NONE" \/ \E x \in Workers : Serves(x, e)'
<1> DEFINE k == <<e, enr[e].step>>
           Served == row'[k].status # "NONE" \/ \E x \in Workers : Serves(x, e)'
<1>0. /\ BaseInv /\ RowInv /\ enr[e].step \in ActiveSteps /\ OthersStay(w)
      /\ Enrolment(w) = e /\ k \in Keys
  BY WorkMoves, KeyFacts DEF SendingInv, ServedInv, Serves
<1>1. QueueStep(w)
  BY QueueTurn DEF Serves, At, Queueing
<1>2. CASE QueueRead(w)
  <2>1. Stays(w) /\ work'[w].at = "qfind" /\ work'[w].step = enr[e].step
    BY <1>0, <1>2, QueueReadMoves
  <2>2. Serves(w, e)'
    BY <1>0, <2>1 DEF Stays, Serves, Enrolment, Key, At
  <2> QED
    BY <2>2
<1>3. ASSUME work[w].at \in {"qfind", "qdrop", "qmake"}
      PROVE  Target(w) = k
  BY <1>3 DEF Serves, At, Target
<1>4. ASSUME Stays(w), work'[w].step = work[w].step, work'[w].at \in {"qdrop", "qmake"},
             work[w].at \in {"qfind", "qdrop"}
      PROVE  Served
  <2>1. Serves(w, e)'
    BY <1>0, <1>4 DEF Stays, Serves, Enrolment, Key, At
  <2> QED
    BY <2>1
<1>5. CASE QueueFind(w)
  <2>1. At(w, "qfind") /\ row' = row
    BY <1>5 DEF QueueFind
  <2>2. row[Target(w)].status # "NONE" => Served
    BY <1>3, <2>1 DEF At
  <2> QED
    BY <1>0, <1>4, <1>5, <2>1, <2>2, QueueFindMoves DEF At
<1>6. CASE QueueDrop(w)
  <2>1. At(w, "qdrop") /\ Target(w) = k
    BY <1>3, <1>6 DEF QueueDrop, At
  <2>2. CASE Stays(w) /\ work'[w].at = "qmake" /\ work'[w].step = work[w].step
    BY <1>4, <2>1, <2>2 DEF At
  <2>3. CASE row' = row /\ (row[Target(w)].status = "NONE" \/ row[Target(w)].gen # work[w].gen)
    <3>1. CASE row[k].status # "NONE"
      BY <2>3, <3>1
    <3>2. CASE row[k].status = "NONE"
      <4>1. row[k].gen >= work[w].gen /\ work[w].gen >= 1 /\ row[k].gen \in Nat
            /\ work[w].gen \in Nat
        BY <1>0, <2>1, BaseFacts
           DEF RowInv, DropInv, ServedInv, Made, Rows, RowType, WorkType
      <4>2. Dropped(k)
        BY <3>2, <4>1 DEF Dropped
      <4>3. PICK x \in Workers : At(x, "qmake") /\ Target(x) = k
        BY <1>0, <4>2 DEF ServedInv
      <4>4. x # w /\ work'[x] = work[x]
        BY <1>0, <2>1, <4>3 DEF OthersStay, At
      <4>5. Enrolment(x) = e /\ work[x].step = enr[e].step
        BY <4>3 DEF Target
      <4>6. Serves(x, e)'
        BY <4>3, <4>4, <4>5 DEF Serves, At, Enrolment, Key
      <4> QED
        BY <4>6
    <3> QED
      BY <3>1, <3>2
  <2> QED
    BY <1>0, <1>6, <2>2, <2>3, QueueDropMoves
<1>7. CASE QueueMake(w)
  <2>1. At(w, "qmake") /\ Target(w) = k
    BY <1>3, <1>7 DEF QueueMake, At
  <2>2. row'[k].status # "NONE"
    BY <1>0, <1>7, <2>1, QueueMakeMoves
  <2> QED
    BY <2>2
<1> QED
  BY <1>1, <1>2, <1>5, <1>6, <1>7 DEF QueueStep

\* An open enrolment goes on being served until its row is there.
LEMMA OpenServed ==
  ASSUME SendingInv, ServedInv, NEW w \in Workers, WorkerStep(w), ~broken', ~broken,
         NEW e \in Enrolments, IsOpen(e)'
  PROVE  (row[<<e, enr[e].step>>].status # "NONE" \/ \E x \in Workers : Serves(x, e))'
<1>0. /\ BaseInv /\ RowInv /\ OthersStay(w) /\ enr \in Enrs
  BY WorkMoves, BaseFacts DEF SendingInv, Enrs
<1>1. CASE enr'[e] = enr[e]
  <2>1. row[<<e, enr[e].step>>].status # "NONE" \/ \E x \in Workers : Serves(x, e)
    BY <1>1 DEF ServedInv, IsOpen
  <2>2. CASE row[<<e, enr[e].step>>].status # "NONE"
    <3>1. PICK k \in Keys : k = <<e, enr[e].step>>
      BY <1>0, KeyFacts DEF Enrs
    <3>2. RowStep(w, k)
      BY <1>0, RowChanges
    <3>3. row'[k].status # "NONE" \/ (k = Target(w) /\ Drops(w) /\ work'[w].at = "qmake")
      BY <2>2, <3>1, <3>2 DEF RowStep, Turns
    <3>4. ASSUME k = Target(w), Drops(w), work'[w].at = "qmake"
          PROVE  Serves(w, e)'
      <4>1. QueueOn(w)
        BY <1>0, <3>4, QueueMoves DEF Queueing
      <4>2. Stays(w) /\ work'[w].step = work[w].step
        BY <3>4, <4>1 DEF QueueOn, Drops, At
      <4>3. Enrolment(w) = e /\ work[w].step = enr[e].step
        BY <3>1, <3>4 DEF Target
      <4> QED
        BY <1>1, <3>4, <4>2, <4>3 DEF Serves, Stays, Enrolment, Key, At
    <3> QED
      BY <1>1, <3>1, <3>3, <3>4
  <2>3. ASSUME NEW x \in Workers, Serves(x, e)
        PROVE  row'[<<e, enr[e].step>>].status # "NONE" \/ \E y \in Workers : Serves(y, e)'
    <3>1. CASE x = w
      BY <1>1, <2>3, <3>1, ServesOn
    <3>2. CASE x # w
      <4>1. Serves(x, e)'
        BY <1>0, <1>1, <2>3, <3>2 DEF OthersStay, Serves, Enrolment, Key, At
      <4> QED
        BY <4>1
    <3> QED
      BY <3>1, <3>2
  <2> QED
    BY <1>1, <2>1, <2>2, <2>3
<1>2. CASE /\ Enters(w) /\ \E f \in Enrolments :
                /\ enr' = [enr EXCEPT ![f] = [status |-> "ACTIVE", step |-> 1]]
                /\ work'[w].key = <<f, 1>>
  <2>1. PICK f \in Enrolments :
          /\ enr' = [enr EXCEPT ![f] = [status |-> "ACTIVE", step |-> 1]]
          /\ work'[w].key = <<f, 1>>
    BY <1>2
  <2>2. CASE f = e
    <3>1. Enrolment(w)' = e /\ work'[w].at = "qread"
      BY <1>2, <2>1, <2>2 DEF Enrolment, Key, Enters
    <3> QED
      BY <3>1 DEF Serves, At
  <2>3. CASE f # e
    BY <1>0, <1>1, <2>1, <2>3 DEF Enrs
  <2> QED
    BY <2>2, <2>3
<1>3. CASE enr' = [enr EXCEPT ![Enrolment(w)].status = "COMPLETED"]
  <2>1. CASE Enrolment(w) = e
    <3>1. enr'[e].status = "COMPLETED"
      BY <1>0, <1>3, <2>1 DEF Enrs
    <3> QED
      BY <3>1 DEF IsOpen, Open
  <2>2. CASE Enrolment(w) # e
    BY <1>0, <1>1, <1>3, <2>2 DEF Enrs
  <2> QED
    BY <2>1, <2>2
<1>4. CASE /\ Stays(w) /\ work'[w].at = "qread"
           /\ enr' = [enr EXCEPT ![Enrolment(w)] =
                        [status |-> "ACTIVE", step |-> NextStep(Key(w)[2])]]
  <2>1. CASE Enrolment(w) = e
    <3>1. Enrolment(w)' = e /\ work'[w].at = "qread"
      BY <1>4, <2>1 DEF Enrolment, Key, Stays
    <3> QED
      BY <3>1 DEF Serves, At
  <2>2. CASE Enrolment(w) # e
    BY <1>0, <1>1, <1>4, <2>2 DEF Enrs
  <2> QED
    BY <2>1, <2>2
<1>5. enr' = enr => enr'[e] = enr[e]
  OBVIOUS
<1> QED
  BY <1>0, <1>1, <1>2, <1>3, <1>4, <1>5, EnrMoves

\* Every step keeps the enrolments served.
LEMMA ServedInvNext == 1 \in ActiveSteps /\ SendingInv /\ ServedInv /\ [Next]_vars => ServedInv'
<1> SUFFICES ASSUME 1 \in ActiveSteps, SendingInv, ServedInv, [Next]_vars PROVE ServedInv'
  OBVIOUS
<1>0. BaseInv
  BY DEF SendingInv
<1>1. CASE UNCHANGED vars
  BY <1>1 DEF vars, ServedInv, Made, Dropped, Serves, IsOpen, Target, Enrolment, Key, At
<1>2. CASE Outside /\ UNCHANGED <<done, work, broken, messages>>
  <2>1. \A k \in Keys : /\ row'[k].gen = row[k].gen
                        /\ row'[k].status = "NONE" <=> row[k].status = "NONE"
    BY <1>0, <1>2, BaseFacts, OutsideRows
  <2>2. \A e \in Enrolments : /\ enr'[e].step = enr[e].step /\ <<e, enr[e].step>> \in Keys
                              /\ enr'[e].status \in Open => enr[e].status \in Open
    BY <1>0, <1>2, BaseFacts, OutsideEnrs, KeyFacts DEF Enrs
  <2>3. /\ work' = work /\ broken' = broken
        /\ \A w \in Workers, e \in Enrolments : Serves(w, e)' = Serves(w, e)
        /\ \A w \in Workers, k \in Keys :
             (At(w, "qmake") /\ Target(w) = k)' = (At(w, "qmake") /\ Target(w) = k)
    BY <1>2, <2>2 DEF Serves, Target, Enrolment, Key, At
  <2>4. Made'
    BY <2>1, <2>3 DEF ServedInv, Made, At
  <2>5. ASSUME ~broken', NEW e \in Enrolments, IsOpen(e)'
        PROVE  (row[<<e, enr[e].step>>].status # "NONE" \/ \E w \in Workers : Serves(w, e))'
    BY <2>1, <2>2, <2>3, <2>5 DEF ServedInv, IsOpen
  <2>6. ASSUME ~broken', NEW k \in Keys, Dropped(k)'
        PROVE  \E w \in Workers : (At(w, "qmake") /\ Target(w) = k)'
    BY <2>1, <2>3, <2>6 DEF ServedInv, Dropped
  <2> QED
    BY <2>2, <2>4, <2>5, <2>6 DEF ServedInv
<1>3. ASSUME NEW w \in Workers, WorkerStep(w) PROVE ServedInv'
  <2>1. Made' /\ \A e \in Enrolments : enr'[e].step \in ActiveSteps
    BY <1>0, <1>3, MadeNext, ActiveStepsNext DEF ServedInv
  <2>2. ~broken' => ~broken
    BY <1>0, WorldNext DEF BaseInv
  <2>3. ASSUME ~broken', NEW e \in Enrolments, IsOpen(e)'
        PROVE  (row[<<e, enr[e].step>>].status # "NONE" \/ \E x \in Workers : Serves(x, e))'
    BY <1>3, <2>2, <2>3, OpenServed
  <2>4. ASSUME ~broken', NEW k \in Keys, Dropped(k)'
        PROVE  \E x \in Workers : (At(x, "qmake") /\ Target(x) = k)'
    BY <1>3, <2>2, <2>4, DroppedNext
  <2> QED
    BY <2>1, <2>3, <2>4 DEF ServedInv
<1> QED
  BY <1>1, <1>2, <1>3, StepKinds

\* With an active first step, and unless something crashed or threw, no active
\* enrolment is left without its row and without a worker.
THEOREM NoneForgottenAlways ==
  ASSUME 1 \in ActiveSteps
  PROVE  Spec => []NoneForgotten
<1>1. Init => ServedInv
  BY ServedInvInit
<1>2. SendingInv /\ ServedInv /\ [Next]_vars => ServedInv'
  BY ServedInvNext
<1>3. ASSUME ServedInv PROVE NoneForgotten
  <2>1. ASSUME NEW e \in Enrolments, ~broken, enr[e].status = "ACTIVE"
        PROVE  row[<<e, enr[e].step>>].status # "NONE"
                 \/ \E w \in Workers : ~At(w, "idle") /\ Enrolment(w) = e
    <3>1. IsOpen(e)
      BY <2>1 DEF IsOpen, Open
    <3> QED
      BY <1>3, <2>1, <3>1 DEF ServedInv, Serves, At
  <2> QED
    BY <2>1 DEF NoneForgotten
<1> QED
  BY <1>1, <1>2, <1>3, SendingInvAlways, PTL DEF Spec

-----------------------------------------------------------------------------
(* The cap *)

\* How many rows a worker may still send: its room, or what is left of its batch.
OutOf(r) ==
  IF r.at = "list" THEN r.room
  ELSE IF r.job # "send" THEN 0
  ELSE Cardinality(r.todo) + IF r.at \in {"load", "shadow", "sending", "sent"} THEN 1 ELSE 0
Out(w)  == OutOf(work[w])
Tickets == Workers \X (1 .. Cap)
Slots   == {p \in Tickets : p[2] <= Out(p[1])}
CapInv ==
  /\ \A w \in Workers : IsFiniteSet(work[w].todo) /\ Out(w) <= Cap
  /\ Cardinality(SentToday) + Cardinality(Slots) <= Cardinality(Tickets)

\* The rows and the tickets are finitely many.
LEMMA Finite ==
  /\ Cap \in Nat /\ Cap >= 1
  /\ IsFiniteSet(Keys) /\ IsFiniteSet(1 .. Cap) /\ Cardinality(1 .. Cap) = Cap
  /\ IsFiniteSet(Tickets) /\ Cardinality(Tickets) \in Nat
  /\ \A w \in Workers : /\ IsFiniteSet((Workers \ {w}) \X (1 .. Cap))
                        /\ Cardinality((Workers \ {w}) \X (1 .. Cap)) \in Nat
                        /\ Cardinality((Workers \ {w}) \X (1 .. Cap)) + Cap = Cardinality(Tickets)
<1>1. Cap \in Nat /\ Cap >= 1 /\ LastStep \in Nat /\ IsFiniteSet(Workers)
  BY OutboxAssumption
<1>2. IsFiniteSet(1 .. Cap) /\ Cardinality(1 .. Cap) = Cap
  BY <1>1, FS_Interval
<1>3. IsFiniteSet(Keys)
  <2>1. IsFiniteSet(Steps)
    BY <1>1, FS_Interval DEF Steps
  <2> QED
    BY <2>1, OutboxAssumption, FS_Product DEF Keys
<1>4. IsFiniteSet(Tickets) /\ Cardinality(Tickets) = Cardinality(Workers) * Cap
  BY <1>1, <1>2, FS_Product DEF Tickets
<1>5. Cardinality(Workers) \in Nat /\ Cardinality(Tickets) \in Nat
  BY <1>1, <1>4, FS_CardinalityType
<1>6. ASSUME NEW w \in Workers
      PROVE  /\ IsFiniteSet((Workers \ {w}) \X (1 .. Cap))
             /\ Cardinality((Workers \ {w}) \X (1 .. Cap)) \in Nat
             /\ Cardinality((Workers \ {w}) \X (1 .. Cap)) + Cap = Cardinality(Tickets)
  <2>1. IsFiniteSet(Workers \ {w}) /\ Cardinality(Workers \ {w}) = Cardinality(Workers) - 1
    BY <1>1, FS_RemoveElement
  <2>2. /\ IsFiniteSet((Workers \ {w}) \X (1 .. Cap))
        /\ Cardinality((Workers \ {w}) \X (1 .. Cap)) = (Cardinality(Workers) - 1) * Cap
    BY <1>2, <2>1, FS_Product
  <2>3. Cardinality((Workers \ {w}) \X (1 .. Cap)) \in Nat
    BY <2>2, FS_CardinalityType
  <2>4. \A n, c \in Nat : (n - 1) * c + c = n * c
    OBVIOUS
  <2> QED
    BY <1>1, <1>4, <1>5, <2>2, <2>3, <2>4
<1> QED
  BY <1>1, <1>2, <1>3, <1>4, <1>5, <1>6

\* What a worker may send is a number.
LEMMA OutType ==
  ASSUME NEW r \in WorkType, IsFiniteSet(r.todo)
  PROVE  OutOf(r) \in Nat /\ Cardinality(r.todo) \in Nat
<1>1. Cardinality(r.todo) \in Nat
  BY FS_CardinalityType
<1>2. r.room \in Nat
  BY Finite DEF WorkType
<1> QED
  BY <1>1, <1>2 DEF OutOf

\* A worker that lost some of its batch, or does another job, may send no more.
LEMMA LessOut ==
  ASSUME NEW r \in WorkType, NEW q \in WorkType, IsFiniteSet(r.todo), r.at # "list",
         q.todo \subseteq r.todo,
         q.at # "list",
         \/ q.job # "send"
         \/ /\ r.job = "send"
            /\ q.at \in {"load", "shadow", "sending", "sent"} =>
                 r.at \in {"load", "shadow", "sending", "sent"}
  PROVE  IsFiniteSet(q.todo) /\ OutOf(q) <= OutOf(r)
<1>1. IsFiniteSet(q.todo) /\ Cardinality(q.todo) <= Cardinality(r.todo)
  BY FS_Subset
<1>2. Cardinality(r.todo) \in Nat /\ Cardinality(q.todo) \in Nat /\ OutOf(r) \in Nat
  BY <1>1, OutType
<1> QED
  BY <1>1, <1>2 DEF OutOf

\* Ending one's work on a row, and an exception, take no more to send.
LEMMA EndOut ==
  ASSUME BaseInv, CapInv, NEW w \in Workers,
         \/ Stop(w)
         \/ work[w].at # "list" /\ (Done(w) \/ work' = [work EXCEPT ![w] = Thrown(w)])
  PROVE  IsFiniteSet(work'[w].todo) /\ OutOf(work'[w]) <= Out(w)
<1>0. work \in Works /\ work[w] \in WorkType /\ IsFiniteSet(work[w].todo) /\ Out(w) \in Nat
  BY BaseFacts, OutType DEF CapInv, Out
<1>1. CASE work'[w] = Idle
  <2>1. OutOf(Idle) = 0 /\ IsFiniteSet(Idle.todo)
    BY IdleWork, FS_EmptySet DEF OutOf
  <2> QED
    BY <1>0, <1>1, <2>1
<1>2. CASE work'[w] = Rest(w) /\ work[w].at # "list"
  <2>1. CASE Rest(w) = Idle
    BY <1>1, <1>2, <2>1
  <2>2. CASE Rest(w).at = "count" /\ Rest(w).job = "send" /\ Rest(w).todo = {}
    <3>1. OutOf(Rest(w)) = 0 /\ IsFiniteSet(Rest(w).todo)
      BY <2>2, FS_EmptySet DEF OutOf
    <3> QED
      BY <1>0, <1>2, <3>1
  <2>3. CASE Rest(w).at = "held" /\ Rest(w).job = "release"
    <3>1. Rest(w).todo = work[w].todo \/ Rest(w).todo = {}
      <4>1. [Idle EXCEPT !.at = "held", !.job = "release", !.todo = work[w].todo].todo = work[w].todo
            /\ [Idle EXCEPT !.at = "count", !.job = "send", !.manual = TRUE].todo = {}
            /\ [Idle EXCEPT !.at = "claim", !.job = "send", !.todo = work[w].todo,
                            !.cfg = work[w].cfg].todo = work[w].todo
        BY DEF Idle
      <4> QED
        BY <4>1, IdleWork DEF Rest
    <3>2. IsFiniteSet(Rest(w).todo)
      BY <1>0, <3>1, FS_EmptySet
    <3>3. OutOf(Rest(w)) = 0
      BY <2>3 DEF OutOf
    <3> QED
      BY <1>0, <1>2, <3>2, <3>3
  <2>4. CASE /\ Rest(w).at = "claim" /\ Rest(w).job = "send"
             /\ work[w].job = "send" /\ Rest(w).todo = work[w].todo
    BY <1>0, <1>2, <2>4, RestWork, LessOut DEF Out
  <2> QED
    BY <1>0, <2>1, <2>2, <2>3, <2>4, RestWork
<1>3. CASE work'[w] = Thrown(w) /\ work[w].at # "list"
  <2>1. CASE Thrown(w) = Rest(w) \/ Thrown(w) = Idle
    BY <1>1, <1>2, <1>3, <2>1
  <2>2. CASE /\ work[w].job = "send" /\ Thrown(w).at = "fail" /\ Thrown(w).job = "send"
             /\ Thrown(w).todo = work[w].todo
    BY <1>0, <1>3, <2>2, ThrownWork, LessOut DEF Out
  <2> QED
    BY <1>0, <2>1, <2>2, ThrownWork
<1> QED
  BY <1>0, <1>1, <1>2, <1>3, RestWork, ThrownWork, IdleWork DEF Done, Stop, Works

\* queueStep's return is such an end.
LEMMA ReturnOut ==
  ASSUME BaseInv, CapInv, NEW w \in Workers, work[w].at \in Queueing, Return(w)
  PROVE  IsFiniteSet(work'[w].todo) /\ OutOf(work'[w]) <= Out(w)
<1>0. work \in Works /\ work[w] \in WorkType /\ IsFiniteSet(work[w].todo) /\ Out(w) \in Nat
  BY BaseFacts, OutType DEF CapInv, Out
<1>1. CASE work[w].job = "enroll"
  <2>1. work' = [work EXCEPT ![w] = [work[w] EXCEPT !.at = "consume", !.qcfg = FALSE]]
    BY <1>0, <1>1 DEF Return, Works
  <2>2. /\ work'[w].at = "consume" /\ work'[w].job = "enroll"
        /\ work'[w].todo = work[w].todo
    BY <1>0, <1>1, <2>1 DEF Works, WorkType
  <2> QED
    BY <1>0, <2>2 DEF OutOf
<1>2. CASE Done(w)
  BY <1>2, EndOut DEF Queueing
<1> QED
  BY <1>1, <1>2 DEF Return

\* So is staying with the row at hand, but for the row that counts as sent.
LEMMA StaysOut ==
  ASSUME BaseInv, CapInv, NEW w \in Workers, Stays(w),
         work[w].at # "list", work'[w].at # "list",
         work'[w].at \in {"load", "shadow", "sending", "sent"} =>
           work[w].at \in {"load", "shadow", "sending", "sent"}
  PROVE  /\ IsFiniteSet(work'[w].todo) /\ OutOf(work'[w]) <= Out(w)
         /\ work[w].at \in {"shadow", "sent"} /\ work'[w].at \in {"advance", "book"} =>
              OutOf(work'[w]) + 1 <= Out(w)
<1>1. /\ work[w] \in WorkType /\ work'[w] \in WorkType /\ IsFiniteSet(work[w].todo)
      /\ work'[w].todo = work[w].todo /\ work'[w].job = work[w].job /\ WorkOK(work[w])
  BY BaseFacts DEF CapInv, Stays, Works
<1>2. Cardinality(work[w].todo) \in Nat
  BY <1>1, FS_CardinalityType
<1>3. OutOf(work'[w]) <= Out(w)
  BY <1>1, LessOut DEF Out
<1>4. work[w].at \in {"shadow", "sent"} /\ work'[w].at \in {"advance", "book"} =>
        OutOf(work'[w]) + 1 <= Out(w)
  BY <1>1, <1>2 DEF OutOf, Out, WorkOK
<1> QED
  BY <1>1, <1>3, <1>4

\* The claim takes the row from the batch to the hand.
LEMMA ClaimOut ==
  ASSUME BaseInv, CapInv, NEW w \in Workers, Claim(w)
  PROVE  IsFiniteSet(work'[w].todo) /\ OutOf(work'[w]) <= Out(w)
<1>0. /\ work \in Works /\ work[w] \in WorkType /\ IsFiniteSet(work[w].todo) /\ Out(w) \in Nat
      /\ work[w].at = "claim" /\ work[w].job = "send"
      /\ Cardinality(work[w].todo) \in Nat /\ Out(w) = Cardinality(work[w].todo)
  <2>1. /\ work \in Works /\ work[w] \in WorkType /\ IsFiniteSet(work[w].todo)
        /\ work[w].at = "claim" /\ work[w].job = "send"
    BY BaseFacts DEF CapInv, Claim, At, WorkOK
  <2>2. Out(w) \in Nat /\ Cardinality(work[w].todo) \in Nat
    BY <2>1, OutType DEF Out
  <2> QED
    BY <2>1, <2>2 DEF Out, OutOf
<1>1. CASE Claims(w)
  <2>1. PICK item \in work[w].todo : work'[w].todo = work[w].todo \ {item}
    BY <1>1 DEF Claims
  <2>2. /\ IsFiniteSet(work'[w].todo)
        /\ Cardinality(work'[w].todo) = Cardinality(work[w].todo) - 1
    BY <1>0, <2>1, FS_RemoveElement
  <2>3. OutOf(work'[w]) = Cardinality(work'[w].todo) + 1
    BY <1>1 DEF Claims, OutOf
  <2> QED
    BY <1>0, <2>2, <2>3
<1>2. CASE ~Claims(w)
  <2>1. PICK item \in work[w].todo :
          LET k == item[1]  rest == [work[w] EXCEPT !.todo = work[w].todo \ {item}] IN
            \/ /\ row[k].status = "QUEUED" /\ row[k].gen = item[2]
               /\ SetRow(k, "SENDING")
               /\ work' = [work EXCEPT ![w] =
                    [rest EXCEPT !.at = "load", !.key = k, !.late = Knows(k[1])]]
            \/ /\ row' = row
               /\ work' = [work EXCEPT ![w] = IF rest.todo = {} THEN Idle ELSE rest]
    BY <1>0 DEF Claim, WorkType
  <2> DEFINE rest == [work[w] EXCEPT !.todo = work[w].todo \ {item}]
  <2>2. /\ rest.todo \subseteq work[w].todo /\ rest.at = "claim" /\ rest.job = "send"
        /\ rest \in WorkType
    BY <1>0 DEF WorkType
  <2>3. Leaves(w)
    BY <1>2, ClaimMoves
  <2>4. work'[w].at # "load"
    BY <2>3 DEF Leaves, Off
  <2>5. work'[w] = Idle \/ work'[w] = rest
    <3>1. CASE work' = [work EXCEPT ![w] =
                 [rest EXCEPT !.at = "load", !.key = item[1], !.late = Knows(item[1][1])]]
      <4> DEFINE late == Knows(item[1][1])
                 key  == item[1]
                 new  == [rest EXCEPT !.at = "load", !.key = key, !.late = late]
      <4>1. work'[w] = new
        BY <1>0, <3>1 DEF Works
      <4> HIDE DEF late, key, rest
      <4>2. new.at = "load"
        BY <2>2 DEF WorkType
      <4> HIDE DEF new
      <4> QED
        BY <2>4, <4>1, <4>2
    <3>2. CASE work' = [work EXCEPT ![w] = IF rest.todo = {} THEN Idle ELSE rest]
      BY <1>0, <3>2 DEF Works
    <3> QED
      BY <2>1, <3>1, <3>2
  <2> HIDE DEF rest
  <2>6. CASE work'[w] = Idle
    <3>1. OutOf(Idle) = 0 /\ IsFiniteSet(Idle.todo)
      BY IdleWork, FS_EmptySet DEF OutOf
    <3> QED
      BY <1>0, <2>6, <3>1
  <2>7. CASE work'[w] = rest
    BY <1>0, <2>2, <2>7, LessOut DEF Out
  <2> QED
    BY <2>5, <2>6, <2>7
<1> QED
  BY <1>1, <1>2

\* The batch that is listed fits into the room.
LEMMA ListOut ==
  ASSUME BaseInv, CapInv, NEW w \in Workers, List(w)
  PROVE  IsFiniteSet(work'[w].todo) /\ OutOf(work'[w]) <= Out(w)
<1>0. /\ work \in Works /\ work[w] \in WorkType /\ work[w].at = "list"
      /\ Out(w) = work[w].room /\ work[w].room \in Nat
  <2>1. work \in Works /\ work[w] \in WorkType
    BY BaseFacts
  <2>2. work[w].at = "list"
    BY DEF List, At
  <2>3. work[w].room \in 0 .. Cap
    BY <2>1 DEF WorkType
  <2> QED
    BY <2>1, <2>2, <2>3, Finite DEF Out, OutOf
<1>1. CASE Stop(w)
  BY <1>1, EndOut
<1>2. ASSUME NEW batch \in SUBSET Due(w), Cardinality(batch) = Take(w),
             work' = [work EXCEPT ![w] =
               [Idle EXCEPT !.at = "claim", !.job = "send", !.cfg = work[w].cfg,
                            !.todo = {<<k, row[k].gen>> : k \in batch}]]
      PROVE  IsFiniteSet(work'[w].todo) /\ OutOf(work'[w]) <= Out(w)
  <2> DEFINE todo == {<<k, row[k].gen>> : k \in batch}
             pick == [k \in batch |-> <<k, row[k].gen>>]
  <2>1. work'[w].todo = todo /\ work'[w].at = "claim" /\ work'[w].job = "send"
    <3>1. work'[w] = [Idle EXCEPT !.at = "claim", !.job = "send", !.cfg = work[w].cfg,
                                  !.todo = todo]
      BY <1>0, <1>2 DEF Works
    <3> HIDE DEF todo
    <3> QED
      BY <3>1 DEF Idle
  <2>2. IsFiniteSet(Due(w)) /\ IsFiniteSet(batch)
    BY Finite, FS_Subset DEF Due
  <2>3. pick \in Surjection(batch, todo)
    BY DEF Surjection
  <2> HIDE DEF pick, todo
  <2>4. IsFiniteSet(todo) /\ Cardinality(todo) <= Cardinality(batch)
    BY <2>2, <2>3, FS_Surjection
  <2>5. Cardinality(todo) \in Nat /\ Cardinality(batch) \in Nat /\ Cardinality(Due(w)) \in Nat
        /\ MaxTake \in Nat
    BY <2>2, <2>4, FS_CardinalityType, OutboxAssumption
  <2>6. Take(w) <= work[w].room
    BY <1>0, <2>5 DEF Take
  <2>7. OutOf(work'[w]) = Cardinality(todo)
    BY <2>1, <2>5 DEF OutOf
  <2>8. Cardinality(todo) <= work[w].room
    BY <1>0, <1>2, <2>4, <2>5, <2>6
  <2> QED
    BY <1>0, <2>1, <2>4, <2>7, <2>8
<1> QED
  BY <1>1, <1>2 DEF List

\* Before a batch is counted there is nothing to send.
LEMMA OffOut ==
  ASSUME BaseInv, CapInv, NEW w \in Workers,
         \/ Pick(w) \/ Batch(w) \/ Release(w) \/ Prior(w) \/ Used(w) \/ Consume(w)
         \/ Enroll(w) \/ ReleaseNext(w)
  PROVE  IsFiniteSet(work'[w].todo) /\ OutOf(work'[w]) <= Out(w)
<1>0. work \in Works /\ work[w] \in WorkType /\ IsFiniteSet(work[w].todo) /\ Out(w) \in Nat
  BY BaseFacts, OutType DEF CapInv, Out
<1>1. ASSUME IsFiniteSet(work'[w].todo), work'[w].at # "list",
             work'[w].job # "send" \/ (work'[w].todo = {} /\ work'[w].at = "count")
      PROVE  IsFiniteSet(work'[w].todo) /\ OutOf(work'[w]) <= Out(w)
  BY <1>0, <1>1, FS_EmptySet DEF OutOf
<1>2. CASE Consume(w) \/ (Enroll(w) /\ Stop(w))
  BY <1>2, EndOut DEF Consume
<1>3. CASE Prior(w) \/ Used(w)
  <2>1. /\ work'[w].at \in {"consume", "used", "enroll"}
        /\ work'[w].job = "enroll" /\ work'[w].todo = work[w].todo
    BY <1>3, BaseFacts DEF Prior, Used, Goto, At, WorkOK, Works, WorkType
  <2> QED
    BY <1>0, <1>1, <2>1
<1>4. CASE Enroll(w) /\ ~Stop(w)
  <2>1. PICK key \in Keys : work' = [work EXCEPT ![w] = [work[w] EXCEPT !.at = "qread", !.key = key]]
    BY <1>0, <1>4, KeyFacts DEF Enroll, Works
  <2>2. work[w].job = "enroll"
    BY <1>4, BaseFacts DEF Enroll, At, WorkOK
  <2>3. work'[w].at = "qread" /\ work'[w].job = "enroll" /\ work'[w].todo = work[w].todo
    BY <1>0, <2>1, <2>2 DEF Works, WorkType
  <2> QED
    BY <1>0, <1>1, <2>3
<1>5. CASE ReleaseNext(w)
  <2>1. PICK item \in work[w].todo :
          work' = [work EXCEPT ![w] = [work[w] EXCEPT !.at = "qread", !.key = item[1],
                                                      !.todo = work[w].todo \ {item}]]
    BY <1>0, <1>5 DEF ReleaseNext, Works
  <2>2. work[w].job = "release"
    BY <1>5, BaseFacts DEF ReleaseNext, At, WorkOK
  <2>3. /\ work'[w].at = "qread" /\ work'[w].job = "release"
        /\ work'[w].todo = work[w].todo \ {item}
    BY <1>0, <2>1, <2>2 DEF Works, WorkType
  <2>4. IsFiniteSet(work'[w].todo)
    BY <1>0, <2>3, FS_RemoveElement
  <2> QED
    BY <1>1, <2>3, <2>4
<1>6. CASE Pick(w)
  <2>1. work'[w] = [Idle EXCEPT !.at = "prior", !.job = "enroll", !.cfg = shadow]
    BY <1>0, <1>6 DEF Pick, Works
  <2>2. work'[w].at = "prior" /\ work'[w].job = "enroll" /\ work'[w].todo = {}
    BY <2>1 DEF Idle
  <2> QED
    BY <1>1, <2>2, FS_EmptySet
<1>7. ASSUME NEW man, work' = [work EXCEPT ![w] =
               [Idle EXCEPT !.at = "count", !.job = "send", !.manual = man]]
      PROVE  IsFiniteSet(work'[w].todo) /\ OutOf(work'[w]) <= Out(w)
  <2>1. work'[w] = [Idle EXCEPT !.at = "count", !.job = "send", !.manual = man]
    BY <1>0, <1>7 DEF Works
  <2>2. work'[w].at = "count" /\ work'[w].todo = {}
    BY <2>1 DEF Idle
  <2> QED
    BY <1>1, <2>2, FS_EmptySet
<1>8. CASE Batch(w)
  <2>1. work'[w] = [Idle EXCEPT !.at = "count", !.job = "send"]
    BY <1>0, <1>8 DEF Batch, Works
  <2>2. work'[w].at = "count" /\ work'[w].todo = {}
    BY <2>1 DEF Idle
  <2> QED
    BY <1>1, <2>2, FS_EmptySet
<1>9. CASE Release(w)
  <2> DEFINE held == {k \in Keys : row[k].status = "HELD" /\ row[k].fixable}
             todo == held \X {0}
  <2>1. IsFiniteSet(todo)
    <3>1. IsFiniteSet(held) /\ IsFiniteSet({0})
      BY Finite, FS_Subset, FS_Singleton
    <3> HIDE DEF held
    <3> QED
      BY <3>1, FS_Product
  <2>2. CASE held = {}
    BY <1>7, <1>9, <2>2 DEF Release
  <2>3. CASE held # {}
    <3>1. work' = [work EXCEPT ![w] = [Idle EXCEPT !.at = "held", !.job = "release", !.todo = todo]]
      BY <1>9, <2>3 DEF Release
    <3> HIDE DEF todo
    <3>2. work'[w] = [Idle EXCEPT !.at = "held", !.job = "release", !.todo = todo]
      BY <1>0, <3>1 DEF Works
    <3>3. work'[w].at = "held" /\ work'[w].job = "release" /\ work'[w].todo = todo
      BY <3>2 DEF Idle
    <3> QED
      BY <1>1, <2>1, <3>3
  <2> QED
    BY <2>2, <2>3
<1> QED
  BY <1>2, <1>3, <1>4, <1>5, <1>6, <1>8, <1>9

\* Counting gives a worker the room there is.
LEMMA CountOut ==
  ASSUME BaseInv, CapInv, NEW w \in Workers, Count(w)
  PROVE  \/ IsFiniteSet(work'[w].todo) /\ OutOf(work'[w]) <= Out(w)
         \/ /\ Room # 0 /\ row' = row
            /\ IsFiniteSet(work'[w].todo) /\ OutOf(work'[w]) = Room
<1>1. CASE Stop(w)
  BY <1>1, EndOut
<1>2. CASE Room # 0 /\ ~Stop(w)
  <2>0. work \in Works /\ work[w] \in WorkType /\ IsFiniteSet(work[w].todo)
    BY BaseFacts DEF CapInv
  <2> DEFINE room == Room
  <2>1. work' = [work EXCEPT ![w] = [work[w] EXCEPT !.at = "list", !.room = room, !.cfg = shadow]]
    BY <1>2, <2>0 DEF Count, Works
  <2> HIDE DEF room
  <2>2. /\ work'[w].at = "list" /\ work'[w].room = room
        /\ work'[w].todo = work[w].todo
    BY <2>0, <2>1 DEF Works, WorkType
  <2>3. OutOf(work'[w]) = room
    BY <2>2 DEF OutOf
  <2>4. row' = row
    BY DEF Count
  <2> QED
    BY <1>2, <2>0, <2>2, <2>3, <2>4 DEF room
<1> QED
  BY <1>1, <1>2 DEF Count

\* Marking the row at hand as sent uses up what allowed it.
Marks(w) == work[w].at \in {"shadow", "sent"} /\ work'[w].at \in {"advance", "book"}

\* In every other step a worker keeps what it may send, or loses some of it.
LEMMA StepOut ==
  ASSUME BaseInv, CapInv, NEW w \in Workers, WorkerStep(w), ~Count(w)
  PROVE  /\ IsFiniteSet(work'[w].todo) /\ OutOf(work'[w]) <= Out(w)
         /\ Marks(w) => OutOf(work'[w]) + 1 <= Out(w)
<1> DEFINE Less == IsFiniteSet(work'[w].todo) /\ OutOf(work'[w]) <= Out(w)
<1>0. Out(w) \in Nat /\ IsFiniteSet(work[w].todo)
  BY BaseFacts, OutType DEF CapInv, Out
<1>1. ASSUME Less, ~Marks(w)
      PROVE  Less /\ (Marks(w) => OutOf(work'[w]) + 1 <= Out(w))
  BY <1>1
<1>2. CASE Pick(w) \/ Batch(w) \/ Release(w) \/ EnrollStep(w) \/ ReleaseNext(w)
  BY <1>1, <1>2, OffOut DEF EnrollStep, Marks, Pick, Batch, Release, Prior, Used, Consume,
     Enroll, ReleaseNext, At
<1>3. CASE List(w)
  BY <1>1, <1>3, ListOut DEF List, At, Marks
<1>4. CASE Claim(w)
  BY <1>1, <1>4, ClaimOut DEF Claim, At, Marks
<1>5. CASE QueueStep(w)
  <2>1. ~Marks(w)
    BY <1>5 DEF QueueStep, QueueRead, QueueFind, QueueDrop, QueueMake, At, Marks
  <2>2. CASE QueueRead(w)
    <3>1. At(w, "qread")
      BY <2>2 DEF QueueRead
    <3>2. CASE Return(w)
      BY <1>1, <2>1, <3>1, <3>2, ReturnOut DEF At, Queueing
    <3>3. CASE Stays(w) /\ work'[w].at = "qfind"
      BY <1>1, <2>1, <3>1, <3>3, StaysOut DEF At
    <3> QED
      BY <2>2, <3>2, <3>3, QueueReadMoves DEF QueueRead
  <2>3. CASE QueueFind(w)
    <3>1. At(w, "qfind")
      BY <2>3 DEF QueueFind
    <3>2. CASE Return(w)
      BY <1>1, <2>1, <3>1, <3>2, ReturnOut DEF At, Queueing
    <3>3. CASE Stays(w) /\ work'[w].at \in {"qmake", "qdrop"}
      BY <1>1, <2>1, <3>1, <3>3, StaysOut DEF At
    <3>4. ~Leaves(w) \/ Return(w)
      <4>1. CASE Goto(w, "qmake")
        BY <4>1, BaseFacts, GotoEffect DEF Leaves, Off, Spots
      <4>2. CASE work' = [work EXCEPT ![w].at = "qdrop", ![w].gen = row[Target(w)].gen]
        <5>1. work'[w].at = "qdrop"
          BY <4>2, BaseFacts DEF Works, WorkType
        <5> QED
          BY <5>1 DEF Leaves, Off
      <4> QED
        BY <2>3, <4>1, <4>2 DEF QueueFind
    <3> QED
      BY <2>3, <3>2, <3>3, <3>4, QueueFindMoves
  <2>4. CASE QueueDrop(w)
    <3>1. At(w, "qdrop")
      BY <2>4 DEF QueueDrop
    <3>2. CASE work' = [work EXCEPT ![w] = Thrown(w)]
      BY <1>1, <2>1, <3>1, <3>2, EndOut DEF At
    <3>3. CASE Goto(w, "qmake")
      <4>1. Stays(w) /\ work'[w].at = "qmake"
        <5>1. work[w].late # "suppressed" /\ "qmake" \in Spots \ Off /\ "qmake" \in Queueing
          BY <3>1, BaseFacts DEF WorkOK, Spots, Off, Queueing, At
        <5> QED
          BY <3>3, <5>1, GotoStays
      <4> QED
        BY <1>1, <2>1, <3>1, <4>1, StaysOut DEF At
    <3> QED
      BY <2>4, <3>2, <3>3 DEF QueueDrop
  <2>5. CASE QueueMake(w)
    <3>1. At(w, "qmake")
      BY <2>5 DEF QueueMake
    <3>2. CASE work' = [work EXCEPT ![w] = Thrown(w)]
      BY <1>1, <2>1, <3>1, <3>2, EndOut DEF At
    <3>3. CASE Return(w)
      BY <1>1, <2>1, <3>1, <3>3, ReturnOut DEF At, Queueing
    <3> QED
      BY <2>5, <3>2, <3>3 DEF QueueMake
  <2> QED
    BY <1>5, <2>2, <2>3, <2>4, <2>5 DEF QueueStep
<1>6. CASE Load(w)
  <2>1. At(w, "load") /\ ~Marks(w)
    BY <1>6 DEF Load, At, Marks
  <2>2. CASE Done(w)
    BY <1>1, <2>1, <2>2, EndOut DEF At
  <2>3. CASE Stays(w) /\ work'[w].at \in {"shadow", "sending"}
    BY <1>1, <2>1, <2>3, StaysOut DEF At
  <2>4. ~Leaves(w) \/ Done(w)
    <3>1. CASE Goto(w, "sending")
      BY <3>1, BaseFacts, GotoEffect DEF Leaves, Off, Spots
    <3>2. CASE work' = [work EXCEPT ![w].at = "shadow", ![w].dry = TRUE]
      <4>1. work'[w].at = "shadow"
        BY <3>2, BaseFacts DEF Works, WorkType
      <4> QED
        BY <4>1 DEF Leaves, Off
    <3> QED
      BY <1>6, <3>1, <3>2 DEF Load
  <2> QED
    BY <1>6, <2>2, <2>3, <2>4, LoadMoves
<1>7. ASSUME NEW from \in {"shadow", "sending", "sent", "book"},
             NEW to \in {"advance", "sent", "fail", "book"},
             At(w, from), Goto(w, to), from = "book" => to = "advance"
      PROVE  Less /\ (Marks(w) => OutOf(work'[w]) + 1 <= Out(w))
  <2>1. Stays(w) /\ work'[w].at = to
    <3>1. work[w].late # "suppressed" /\ to \in Spots \ Off /\ work[w].job = "send"
      BY <1>7, BaseFacts DEF WorkOK, Spots, Off, At
    <3> QED
      BY <1>7, <3>1, GotoStays
  <2>2. work[w].at = from
    BY <1>7 DEF At
  <2>3. Less /\ (work[w].at \in {"shadow", "sent"} /\ work'[w].at \in {"advance", "book"} =>
                   OutOf(work'[w]) + 1 <= Out(w))
    BY <1>7, <2>1, <2>2, StaysOut
  <2> QED
    BY <2>3 DEF Marks
<1>8. CASE Shadow(w) \/ Sent(w) \/ Book(w)
  BY <1>7, <1>8 DEF Shadow, Sent, Book
<1>9. CASE Answered(w)
  BY <1>7, <1>9 DEF Answered
<1>10. CASE Sending(w)
  <2>1. work' = work /\ At(w, "sending")
    BY <1>10 DEF Sending
  <2> QED
    BY <1>0, <2>1 DEF Marks, At, Out
<1>11. CASE Advance(w)
  <2>1. At(w, "advance") /\ ~Marks(w)
    BY <1>11 DEF Advance, At, Marks
  <2>2. CASE Done(w) \/ work' = [work EXCEPT ![w] = Thrown(w)]
    BY <1>1, <2>1, <2>2, EndOut DEF At
  <2>3. CASE Goto(w, "qread")
    <3>1. Stays(w) /\ work'[w].at = "qread"
      <4>1. work[w].late # "suppressed" /\ "qread" \in Spots \ Off /\ "qread" \in Queueing
        BY <2>1, BaseFacts DEF WorkOK, Spots, Off, Queueing, At
      <4> QED
        BY <2>3, <4>1, GotoStays
    <3> QED
      BY <1>1, <2>1, <3>1, StaysOut DEF At
  <2> QED
    BY <1>11, <2>2, <2>3 DEF Advance
<1>12. CASE Fail(w)
  BY <1>1, <1>12, EndOut DEF Fail, At, Marks
<1>13. CASE Throw(w) \/ Crash(w)
  <2>1. Stop(w) \/ (work[w].at # "list" /\ work' = [work EXCEPT ![w] = Thrown(w)])
    BY <1>13 DEF Throw, Crash
  <2>2. ~Marks(w)
    BY <1>13, BaseFacts, EndMoves DEF Leaves, Fails, Off, Marks
  <2> QED
    BY <1>1, <2>1, <2>2, EndOut
<1> QED
  BY <1>2, <1>3, <1>4, <1>5, <1>6, <1>8, <1>9, <1>10, <1>11, <1>12, <1>13
  DEF WorkerStep, WorkStep, SendStep

\* A row becomes one of the day's by being marked, one at a time.
LEMMA SentMoves ==
  ASSUME BaseInv, RowInv, NEW w \in Workers, WorkerStep(w)
  PROVE  /\ SentToday' \subseteq SentToday \cup {Key(w)}
         /\ Marks(w) \/ SentToday' \subseteq SentToday
<1>1. ASSUME NEW k \in Keys, row'[k].status = "SENT", row'[k].today
      PROVE  k \in SentToday \/ (k = Key(w) /\ Marks(w))
  <2>1. RowStep(w, k)
    BY RowChanges
  <2> QED
    BY <1>1, <2>1 DEF RowStep, Turns, SentToday, Marks, At
<1> QED
  BY <1>1 DEF SentToday

\* The day's rows are finitely many, and so are the slots.
LEMMA CapCounts ==
  /\ IsFiniteSet(SentToday) /\ Cardinality(SentToday) \in Nat
  /\ IsFiniteSet(Slots) /\ Cardinality(Slots) \in Nat
<1>1. IsFiniteSet(SentToday) /\ IsFiniteSet(Slots)
  BY Finite, FS_Subset DEF SentToday, Slots
<1> QED
  BY <1>1, FS_CardinalityType

\* At the start nothing is sent, and nobody has room.
LEMMA CapInvInit == Init => CapInv
<1> SUFFICES ASSUME Init PROVE CapInv
  OBVIOUS
<1>1. ASSUME NEW w \in Workers
      PROVE  IsFiniteSet(work[w].todo) /\ Out(w) = 0
  <2>1. work[w] = Idle
    BY DEF Init
  <2> QED
    BY <2>1, IdleWork, FS_EmptySet DEF Out, OutOf
<1>2. SentToday = {}
  BY DEF Init, NoRow, SentToday
<1>3. Slots = {}
  BY <1>1, Finite DEF Slots, Tickets
<1>4. Cardinality(SentToday) + Cardinality(Slots) <= Cardinality(Tickets)
  BY <1>2, <1>3, Finite, FS_EmptySet
<1> QED
  BY <1>1, <1>4, Finite DEF CapInv

\* A worker that counts trades the slots it had for those that the day has left:
\* its room and what is sent already are the cap, and the others have theirs.
LEMMA CountFits ==
  ASSUME BaseInv, CapInv, NEW w \in Workers, Room # 0, row' = row,
         OutOf(work'[w]) = Room
  PROVE  Out(w)' <= Cap /\ Cardinality(SentToday') + Cardinality(Slots') <= Cardinality(Tickets)
<1> DEFINE theirs == (Workers \ {w}) \X (1 .. Cap)
           mine   == {w} \X (1 .. Room)
<1>1. /\ SentToday' = SentToday /\ Cardinality(SentToday) \in Nat
      /\ Room \in Nat /\ Room + Cardinality(SentToday) = Cap /\ Room <= Cap
  BY CapCounts, Finite DEF SentToday, Room
<1> DEFINE room == Room
<1>2. /\ IsFiniteSet(1 .. room) /\ Cardinality(1 .. room) = room
  BY <1>1, FS_Interval
<1>3. IsFiniteSet(mine) /\ Cardinality(mine) = room
  <2>1. IsFiniteSet({w}) /\ Cardinality({w}) = 1
    BY FS_Singleton
  <2> QED
    BY <1>1, <1>2, <2>1, FS_Product
<1>4. Slots' \subseteq theirs \cup mine
  BY <1>1 DEF Slots, Tickets, Out
<1>5. IsFiniteSet(theirs) /\ Cardinality(theirs) \in Nat
      /\ Cardinality(theirs) + Cap = Cardinality(Tickets)
  BY Finite
<1> HIDE DEF theirs, mine
<1>6. /\ IsFiniteSet(theirs \cup mine) /\ Cardinality(theirs \cup mine) \in Nat
      /\ Cardinality(theirs \cup mine) <= Cardinality(theirs) + Cardinality(mine)
  <2>1. /\ IsFiniteSet(theirs \cap mine) /\ IsFiniteSet(theirs \cup mine)
        /\ Cardinality(theirs \cup mine) =
             Cardinality(theirs) + Cardinality(mine) - Cardinality(theirs \cap mine)
    BY <1>3, <1>5, FS_Union, FS_Intersection
  <2>2. Cardinality(theirs \cap mine) \in Nat /\ Cardinality(theirs \cup mine) \in Nat
    BY <2>1, FS_CardinalityType
  <2> QED
    BY <1>1, <1>3, <1>5, <2>1, <2>2
<1>7. IsFiniteSet(Slots') /\ Cardinality(Slots') \in Nat
      /\ Cardinality(Slots') <= Cardinality(theirs \cup mine)
  BY <1>4, <1>6, FS_Subset, FS_CardinalityType
<1>8. Out(w)' = Room
  BY DEF Out
<1>9. Cardinality(SentToday') = Cardinality(SentToday)
  BY <1>1
<1> QED
  BY <1>1, <1>3, <1>5, <1>6, <1>7, <1>8, <1>9, Finite

\* The slots and the day's rows together are never more than the tickets: marking
\* a row as sent takes the worker's highest slot.
LEMMA CapInvNext == SendingInv /\ CapInv /\ [Next]_vars => CapInv'
<1> SUFFICES ASSUME SendingInv, CapInv, [Next]_vars PROVE CapInv'
  OBVIOUS
<1>0. BaseInv /\ RowInv
  BY DEF SendingInv
<1>1. \A w \in Workers : Out(w) \in Nat /\ Out(w) <= Cap /\ IsFiniteSet(work[w].todo)
  BY <1>0, BaseFacts, OutType DEF CapInv, Out
<1>2. ASSUME work' = work, SentToday' \subseteq SentToday
      PROVE  CapInv'
  <2>1. Slots' = Slots
    BY <1>2 DEF Slots, Out
  <2>2. Cardinality(SentToday') <= Cardinality(SentToday) /\ Cardinality(SentToday') \in Nat
    BY <1>2, CapCounts, FS_Subset, FS_CardinalityType
  <2>3. Cardinality(SentToday') + Cardinality(Slots') <= Cardinality(Tickets)
    BY <2>1, <2>2, CapCounts, Finite DEF CapInv
  <2> QED
    BY <1>1, <1>2, <2>3 DEF CapInv, Out, Tickets
<1>3. CASE UNCHANGED vars
  BY <1>2, <1>3 DEF vars, SentToday
<1>4. CASE Outside /\ UNCHANGED <<done, work, broken, messages>>
  <2>1. SentToday' \subseteq SentToday
    BY <1>0, <1>4, BaseFacts, OutsideRows DEF SentToday
  <2> QED
    BY <1>2, <1>4, <2>1
<1>5. ASSUME NEW w \in Workers, WorkerStep(w)
      PROVE  CapInv'
  <2>1. \A x \in Workers \ {w} : work'[x] = work[x] /\ Out(x)' = Out(x)
    BY <1>0, <1>5, WorkMoves DEF OthersStay, Out
  <2>2. Out(w)' = OutOf(work'[w])
    BY DEF Out
  <2>3. ASSUME IsFiniteSet(work'[w].todo), Out(w)' <= Cap,
               Cardinality(SentToday') + Cardinality(Slots') <= Cardinality(Tickets)
        PROVE  CapInv'
    BY <1>1, <2>1, <2>3 DEF CapInv, Tickets
  <2>4. work'[w] \in WorkType
    BY <1>0, <1>5, WorkMoves DEF Works
  <2>5. CASE Room # 0 /\ row' = row /\ IsFiniteSet(work'[w].todo) /\ OutOf(work'[w]) = Room
    BY <1>0, <2>3, <2>5, CountFits
  <2>6. ASSUME IsFiniteSet(work'[w].todo), OutOf(work'[w]) <= Out(w), ~Marks(w)
        PROVE  CapInv'
    <3>1. Out(w)' <= Out(w) /\ Out(w)' \in Nat
      BY <2>2, <2>4, <2>6, OutType
    <3>2. Slots' \subseteq Slots
      BY <1>1, <2>1, <3>1, Finite DEF Slots, Tickets
    <3>3. SentToday' \subseteq SentToday
      BY <1>0, <1>5, <2>6, SentMoves
    <3>4. /\ Cardinality(Slots') \in Nat /\ Cardinality(Slots') <= Cardinality(Slots)
          /\ Cardinality(SentToday') \in Nat /\ Cardinality(SentToday') <= Cardinality(SentToday)
      BY <3>2, <3>3, CapCounts, FS_Subset, FS_CardinalityType
    <3>5. Cardinality(SentToday') + Cardinality(Slots') <= Cardinality(Tickets)
      BY <3>4, CapCounts, Finite DEF CapInv
    <3>6. Out(w)' <= Cap
      BY <1>1, <3>1, Finite
    <3> QED
      BY <2>3, <2>6, <3>5, <3>6
  <2>7. ASSUME IsFiniteSet(work'[w].todo), OutOf(work'[w]) + 1 <= Out(w), Marks(w)
        PROVE  CapInv'
    <3>1. Out(w)' + 1 <= Out(w) /\ Out(w)' \in Nat
      BY <2>2, <2>4, <2>7, OutType
    <3> DEFINE slot == <<w, Out(w)>>
    <3>2. slot \in Slots
      BY <1>1, <3>1, Finite DEF Slots, Tickets
    <3>3. Slots' \subseteq Slots \ {slot}
      BY <1>1, <2>1, <3>1, Finite DEF Slots, Tickets
    <3> HIDE DEF slot
    <3>4. /\ Cardinality(Slots') \in Nat /\ Cardinality(Slots') <= Cardinality(Slots) - 1
      <4>1. IsFiniteSet(Slots \ {slot}) /\ Cardinality(Slots \ {slot}) = Cardinality(Slots) - 1
        BY <3>2, CapCounts, FS_RemoveElement
      <4> QED
        BY <3>3, <4>1, FS_Subset, FS_CardinalityType
    <3>5. /\ Cardinality(SentToday') \in Nat
          /\ Cardinality(SentToday') <= Cardinality(SentToday) + 1
      <4>1. SentToday' \subseteq SentToday \cup {Key(w)}
        BY <1>0, <1>5, SentMoves
      <4> DEFINE key == Key(w)
                 sent == SentToday
      <4>2. IsFiniteSet(sent) /\ Cardinality(sent) \in Nat
        BY CapCounts
      <4> HIDE DEF key, sent
      <4>3. /\ IsFiniteSet(sent \cup {key}) /\ Cardinality(sent \cup {key}) \in Nat
            /\ Cardinality(sent \cup {key}) <= Cardinality(sent) + 1
        BY <4>2, FS_AddElement, FS_CardinalityType
      <4> USE DEF key, sent
      <4>4. /\ Cardinality(SentToday') \in Nat
            /\ Cardinality(SentToday') <= Cardinality(SentToday \cup {Key(w)})
        BY <4>1, <4>3, FS_Subset, FS_CardinalityType
      <4> QED
        BY <4>2, <4>3, <4>4
    <3>6. Cardinality(SentToday') + Cardinality(Slots') <= Cardinality(Tickets)
      BY <3>4, <3>5, CapCounts, Finite DEF CapInv
    <3>7. Out(w)' <= Cap
      BY <1>1, <3>1, Finite
    <3> QED
      BY <2>3, <2>7, <3>6, <3>7
  <2>8. CASE Count(w)
    <3>1. ~Marks(w)
      BY <2>8 DEF Count, At, Marks
    <3> QED
      BY <1>0, <2>5, <2>6, <2>8, <3>1, CountOut
  <2>9. CASE ~Count(w)
    BY <1>0, <1>5, <2>6, <2>7, <2>9, StepOut
  <2> QED
    BY <2>8, <2>9
<1> QED
  BY <1>3, <1>4, <1>5, StepKinds

\* Workers that counted the day's rows at the same time overshoot the cap by at
\* most a cap for each of them: what was counted is never given out again, and
\* every row sent uses up a piece of it.
THEOREM CapOvershootBoundedAlways == Spec => []CapOvershootBounded
<1>1. Init => CapInv
  BY CapInvInit
<1>2. SendingInv /\ CapInv /\ [Next]_vars => CapInv'
  BY CapInvNext
<1>3. ASSUME CapInv PROVE CapOvershootBounded
  <2>1. Cardinality(Tickets) = Cardinality(Workers) * Cap /\ Cardinality(Workers) \in Nat
    <3>1. IsFiniteSet(Workers) /\ IsFiniteSet(1 .. Cap) /\ Cardinality(1 .. Cap) = Cap
      BY Finite, OutboxAssumption
    <3>2. Cardinality(Workers) \in Nat
      BY <3>1, FS_CardinalityType
    <3> QED
      BY <3>1, <3>2, FS_Product DEF Tickets
  <2>2. Cardinality(Workers) * Cap = Cap * Cardinality(Workers)
    BY <2>1, Finite
  <2> QED
    BY <1>3, <2>1, <2>2, CapCounts, Finite DEF CapInv, CapOvershootBounded
<1> QED
  BY <1>1, <1>2, <1>3, SendingInvAlways, PTL DEF Spec
=============================================================================
