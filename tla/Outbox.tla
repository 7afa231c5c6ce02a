------------------------------- MODULE Outbox -------------------------------
(***************************************************************************)
(* The autopilot's outbox (OutboundJobService): jobs that enrol a contact   *)
(* whose pitch was approved, queue one EmailOutbox row for each step of     *)
(* the enrolment and send the rows that are due, under a daily cap.         *)
(*                                                                         *)
(* A worker is a tick of the cron or a call of the "run" route; every await *)
(* that another worker can get in between is a step of its own.  Messages   *)
(* go through the contract of sendOutreach (module Outreach), with the      *)
(* row's idempotency key.                                                   *)
(***************************************************************************)
EXTENDS Integers, FiniteSets

CONSTANTS
  Workers,      \* ticks and calls of the route at work at the same time
  Enrolments,   \* enrolments of the contact, open and past (a bound)
  LastStep,     \* steps are 1 .. LastStep (the snapshot taken by enroll)
  ActiveSteps,  \* those with isActive
  Cap,          \* dailyGlobalCap
  MaxTake,      \* rows of one batch (limit and maxSendPerTick)
  Shadows,      \* values shadowMode may take
  MaxMishaps    \* bound: crashes, exceptions, manual runs, reviews of the pitch,
                \* switches of shadowMode, absences and midnights in a behaviour

Steps == 1 .. LastStep
Keys  == Enrolments \X Steps   \* unique: enrollmentId and stepOrder

ASSUME OutboxAssumption ==
  /\ LastStep \in Nat \ {0} /\ ActiveSteps \subseteq Steps
  /\ Enrolments # {} /\ IsFiniteSet(Enrolments) /\ IsFiniteSet(Workers)
  /\ Cap \in Nat \ {0} /\ MaxTake \in Nat \ {0}
  /\ Shadows \subseteq BOOLEAN /\ Shadows # {}
  /\ MaxMishaps \in Nat

VARIABLES
  pitch,       \* status of the contact's pitch
  enr,         \* the AUTOPILOT enrolments
  row,         \* the EmailOutbox rows, by key
  done,        \* keys with a SUCCESS execution
  work,        \* the state of every worker
  shadow,      \* config.shadowMode
  suppressed,  \* the contact's address is on the suppression list
  hook,        \* what is left of the unsubscribe handler
  mishaps,     \* what the bound counts
  broken,      \* history: a worker crashed or threw
  mail, accepted, call, lost   \* the messages: see Outreach

messages == <<mail, accepted, call, lost>>
world    == <<pitch, shadow, suppressed, hook>>
vars     == <<world, enr, row, done, work, mishaps, broken, messages>>

Send == INSTANCE Outreach WITH Callers <- Workers, NoKey <- <<>>

Open    == {"ACTIVE", "PAUSED"}   \* what the unique index lets exist once
Spots   == {"idle", "prior", "used", "enroll", "consume",
            "held", "qread", "qfind", "qdrop", "qmake",
            "count", "list", "claim", "load", "shadow", "sending", "sent",
            "book", "advance", "fail"}
Jobs    == {"none", "enroll", "release", "send"}   \* who called queueStep

NoRow == [status |-> "NONE", fixable |-> FALSE, due |-> FALSE,
          shadow |-> FALSE, dry |-> FALSE, today |-> FALSE, gen |-> 0]
RowType == [status : {"NONE", "HELD", "QUEUED", "SENDING", "SENT", "FAILED", "CANCELLED"},
            fixable : BOOLEAN, due : BOOLEAN, shadow : BOOLEAN, dry : BOOLEAN,
            today : BOOLEAN, gen : Nat]
WorkType == [at : Spots, job : Jobs, key : Keys, step : Steps, gen : Nat,
             todo : SUBSET (Keys \X Nat), room : 0 .. Cap, cfg : BOOLEAN, qcfg : BOOLEAN, dry : BOOLEAN,
             manual : BOOLEAN, late : {"no", "stopped", "suppressed"}]

TypeOK ==
  /\ pitch \in {"APPROVED", "SUPERSEDED", "REJECTED"}
  /\ enr \in [Enrolments -> [status : Open \cup {"NONE", "STOPPED", "COMPLETED"}, step : Steps]]
  /\ row \in [Keys -> RowType]
  /\ done \subseteq Keys
  /\ work \in [Workers -> WorkType]
  /\ shadow \in Shadows /\ suppressed \in BOOLEAN
  /\ hook \in {"none", "link", "mail", "rows"}
  /\ mishaps \in 0 .. MaxMishaps /\ broken \in BOOLEAN
  /\ Send!TypeOK

\* job: whose queueStep it is; key: the row at hand; step, gen: the row queueStep
\* is at; cfg, qcfg, dry: shadowMode of the config that the job and queueStep read,
\* and of the row being sent.
Idle == [at |-> "idle", job |-> "none", key |-> CHOOSE k \in Keys : TRUE, step |-> 1,
         gen |-> 0, todo |-> {}, room |-> 0, cfg |-> FALSE, qcfg |-> FALSE, dry |-> FALSE,
         manual |-> FALSE, late |-> "no"]

Init ==
  /\ pitch = "APPROVED"
  /\ enr = [e \in Enrolments |-> [status |-> "NONE", step |-> 1]]
  /\ row = [k \in Keys |-> NoRow]
  /\ done = {}
  /\ work = [w \in Workers |-> Idle]
  /\ shadow \in Shadows
  /\ suppressed = FALSE /\ hook = "none"
  /\ mishaps = 0 /\ broken = FALSE
  /\ Send!Init

-----------------------------------------------------------------------------
At(w, at)   == work[w].at = at
Key(w)      == work[w].key
Goto(w, at) == work' = [work EXCEPT ![w].at = at]
Stop(w)     == work' = [work EXCEPT ![w] = Idle]
Mishap      == mishaps < MaxMishaps /\ mishaps' = mishaps + 1

\* What is left of a job after one of its rows; a manual run sends what it released.
Rest(w) ==
  CASE work[w].job = "release" /\ work[w].todo = {} ->
         [Idle EXCEPT !.at = "count", !.job = "send", !.manual = TRUE]
    [] work[w].job = "release" /\ work[w].todo # {} ->
         [Idle EXCEPT !.at = "held", !.job = "release", !.todo = work[w].todo]
    [] work[w].job = "send" /\ work[w].todo # {} ->
         [Idle EXCEPT !.at = "claim", !.job = "send", !.todo = work[w].todo,
                         !.cfg = work[w].cfg]
    [] OTHER -> Idle
Done(w) == work' = [work EXCEPT ![w] = Rest(w)]

IsOpen(e)    == enr[e].status \in Open
Enrolled     == {e \in Enrolments : enr[e].status # "NONE"}
SentToday    == {k \in Keys : row[k].status = "SENT" /\ row[k].today}
Later(s)     == {t \in ActiveSteps : t > s}
NextStep(s)  == CHOOSE t \in Later(s) : \A u \in Later(s) : t <= u
SetRow(k, status) == row' = [row EXCEPT ![k].status = status]

-----------------------------------------------------------------------------
(* autoEnrollBatch, for the pitch of one contact *)

\* The pitch is listed as APPROVED and its contact is eligible.
Pick(w) ==
  /\ At(w, "idle")
  /\ pitch = "APPROVED" /\ ~suppressed
  /\ work' = [work EXCEPT ![w] = [Idle EXCEPT !.at = "prior", !.job = "enroll",
                                                 !.cfg = shadow]]
  /\ UNCHANGED <<world, enr, row, done, mishaps, broken, messages>>

\* A contact once enrolled is passed over, and its pitch consumed.
Prior(w) ==
  /\ At(w, "prior")
  /\ Goto(w, IF Enrolled # {} THEN "consume" ELSE "used")
  /\ UNCHANGED <<world, enr, row, done, mishaps, broken, messages>>

Used(w) ==
  /\ At(w, "used")
  /\ Goto(w, IF \E k \in Keys : row[k].status = "SENT" THEN "consume" ELSE "enroll")
  /\ UNCHANGED <<world, enr, row, done, mishaps, broken, messages>>

\* enroll: an open enrolment (the look-up, or the unique index) is an error.
Enroll(w) ==
  /\ At(w, "enroll")
  /\ \/ /\ \E e \in Enrolments : IsOpen(e)
        /\ Stop(w)
        /\ UNCHANGED enr
     \/ /\ \A e \in Enrolments : ~IsOpen(e)
        /\ \E e \in Enrolments \ Enrolled :
             /\ enr' = [enr EXCEPT ![e] = [status |-> "ACTIVE", step |-> 1]]
             /\ work' = [work EXCEPT ![w].at = "qread", ![w].key = <<e, 1>>]
  /\ UNCHANGED <<world, row, done, mishaps, broken, messages>>

Consume(w) ==
  /\ At(w, "consume")
  /\ pitch' = IF pitch = "APPROVED" THEN "SUPERSEDED" ELSE pitch
  /\ Stop(w)
  /\ UNCHANGED <<enr, row, done, shadow, suppressed, hook, mishaps, broken, messages>>

-----------------------------------------------------------------------------
(* queueStep, called by a worker for the enrolment of its key *)

Return(w) == IF work[w].job = "enroll"
             THEN work' = [work EXCEPT ![w].at = "consume", ![w].qcfg = FALSE] ELSE Done(w)

\* What catches an exception of queueStep: autoEnrollBatch gives the pitch up,
\* releaseFixableHolds goes on, sendOutboxItem marks the row it sent FAILED.
Thrown(w) ==
  CASE work[w].job = "send" /\ ~work[w].dry -> [work[w] EXCEPT !.at = "fail", !.qcfg = FALSE]
    [] work[w].job = "release"              -> Rest(w)
    [] OTHER                                -> Idle

Enrolment(w) == Key(w)[1]
Target(w)    == <<Enrolment(w), work[w].step>>

\* The enrolment is read: the step is its current one, whatever its status.
QueueRead(w) ==
  /\ At(w, "qread")
  /\ LET s == enr[Enrolment(w)].step IN
       IF s \in ActiveSteps
       THEN work' = [work EXCEPT ![w].at = "qfind", ![w].step = s,
                                 ![w].qcfg = IF work[w].job = "enroll" THEN work[w].cfg
                                             ELSE shadow]
       ELSE Return(w)
  /\ UNCHANGED <<world, enr, row, done, mishaps, broken, messages>>

\* The row there is stays, unless it is held for a reason that may be gone, or
\* cancelled.
Rebuildable(k) == row[k].status = "CANCELLED" \/ (row[k].status = "HELD" /\ row[k].fixable)
QueueFind(w) ==
  /\ At(w, "qfind")
  /\ LET k == Target(w) IN
       \/ row[k].status = "NONE" /\ Goto(w, "qmake")
       \/ /\ row[k].status # "NONE" /\ Rebuildable(k)
          /\ work' = [work EXCEPT ![w].at = "qdrop", ![w].gen = row[k].gen]
       \/ row[k].status # "NONE" /\ ~Rebuildable(k) /\ Return(w)
  /\ UNCHANGED <<world, enr, row, done, mishaps, broken, messages>>

\* Deleted by its id: an exception if another worker was faster.
QueueDrop(w) ==
  /\ At(w, "qdrop")
  /\ LET k == Target(w) IN
       IF row[k].status # "NONE" /\ row[k].gen = work[w].gen
       THEN row' = [row EXCEPT ![k] = [NoRow EXCEPT !.gen = row[k].gen]] /\ Goto(w, "qmake")
       ELSE UNCHANGED row /\ work' = [work EXCEPT ![w] = Thrown(w)]
  /\ UNCHANGED <<world, enr, done, mishaps, broken, messages>>

\* The rendering decides: without a pitch the row is held for a reason that may
\* pass; for a missing variable, the country, the sender or its links for good;
\* or it is queued for the next send window, which may be open.
NewRow(w, status, fixable, due) ==
  [status |-> status, fixable |-> fixable, due |-> due, shadow |-> work[w].qcfg,
   dry |-> FALSE, today |-> FALSE, gen |-> row[Target(w)].gen + 1]
QueueMake(w) ==
  /\ At(w, "qmake")
  /\ IF row[Target(w)].status # "NONE"
     THEN UNCHANGED row /\ work' = [work EXCEPT ![w] = Thrown(w)]   \* the unique keys
     ELSE /\ \E new \in IF pitch = "REJECTED" THEN {NewRow(w, "HELD", TRUE, FALSE)}
                       ELSE {NewRow(w, "HELD", FALSE, FALSE), NewRow(w, "QUEUED", FALSE, TRUE),
                             NewRow(w, "QUEUED", FALSE, FALSE)} :
               row' = [row EXCEPT ![Target(w)] = new]
          /\ Return(w)
  /\ UNCHANGED <<world, enr, done, mishaps, broken, messages>>

-----------------------------------------------------------------------------
(* processOutboxBatch *)

\* A manual run first rebuilds the rows that are held for a passing reason.
Release(w) ==
  /\ At(w, "idle")
  /\ Mishap
  /\ LET held == {k \in Keys : row[k].status = "HELD" /\ row[k].fixable} IN
       work' = [work EXCEPT ![w] =
         IF held = {} THEN [Idle EXCEPT !.at = "count", !.job = "send", !.manual = TRUE]
         ELSE [Idle EXCEPT !.at = "held", !.job = "release", !.todo = held \X {0}]]
  /\ UNCHANGED <<world, enr, row, done, broken, messages>>

ReleaseNext(w) ==
  /\ At(w, "held")
  /\ \E item \in work[w].todo :
       work' = [work EXCEPT ![w].at = "qread", ![w].key = item[1],
                            ![w].todo = @ \ {item}]
  /\ UNCHANGED <<world, enr, row, done, mishaps, broken, messages>>

Batch(w) ==
  /\ At(w, "idle")
  /\ work' = [work EXCEPT ![w] = [Idle EXCEPT !.at = "count", !.job = "send"]]
  /\ UNCHANGED <<world, enr, row, done, mishaps, broken, messages>>

\* Mutant: the cap is taken for each batch.
RoomOfBatch == Cap

\* The rows sent today leave the room there is.
Room == IF Cardinality(SentToday) >= Cap THEN 0 ELSE Cap - Cardinality(SentToday)
Count(w) ==
  /\ At(w, "count")
  /\ IF Room = 0 THEN Stop(w)
     ELSE work' = [work EXCEPT ![w].at = "list", ![w].room = Room, ![w].cfg = shadow]
  /\ UNCHANGED <<world, enr, row, done, mishaps, broken, messages>>

\* As many rows as there is room for, by their ids; a manual run takes rows whose
\* time has not come as well.
Due(w) == {k \in Keys : row[k].status = "QUEUED" /\ (row[k].due \/ work[w].manual)}
Take(w) == LET n == IF work[w].room < MaxTake THEN work[w].room ELSE MaxTake
           IN  IF Cardinality(Due(w)) < n THEN Cardinality(Due(w)) ELSE n
List(w) ==
  /\ At(w, "list")
  /\ \/ Take(w) = 0 /\ Stop(w)
     \/ /\ Take(w) > 0
        /\ \E batch \in {b \in SUBSET Due(w) : Cardinality(b) = Take(w)} :
             work' = [work EXCEPT ![w] =
               [Idle EXCEPT !.at = "claim", !.job = "send", !.cfg = work[w].cfg,
                               !.todo = {<<k, row[k].gen>> : k \in batch}]]
  /\ UNCHANGED <<world, enr, row, done, mishaps, broken, messages>>

-----------------------------------------------------------------------------
(* sendOutboxItem and afterSuccessfulSend *)

Knows(e) == IF suppressed THEN "suppressed"
            ELSE IF enr[e].status = "STOPPED" THEN "stopped" ELSE "no"

\* Mutant: the update asks for the id only.
ClaimAny(w) ==
  /\ At(w, "claim")
  /\ \E item \in work[w].todo :
       /\ SetRow(item[1], "SENDING")
       /\ work' = [work EXCEPT ![w].at = "load", ![w].key = item[1],
                               ![w].todo = @ \ {item}, ![w].late = Knows(item[1][1])]
  /\ UNCHANGED <<world, enr, done, mishaps, broken, messages>>

\* The conditional update on QUEUED.
Claim(w) ==
  /\ At(w, "claim")
  /\ \E item \in work[w].todo :
       LET k == item[1]  rest == [work[w] EXCEPT !.todo = @ \ {item}] IN
       \/ /\ row[k].status = "QUEUED" /\ row[k].gen = item[2]
          /\ SetRow(k, "SENDING")
          /\ work' = [work EXCEPT ![w] =
               [rest EXCEPT !.at = "load", !.key = k, !.late = Knows(k[1])]]
       \/ /\ ~(row[k].status = "QUEUED" /\ row[k].gen = item[2])
          /\ UNCHANGED row
          /\ work' = [work EXCEPT ![w] = IF rest.todo = {} THEN Idle ELSE rest]
  /\ UNCHANGED <<world, enr, done, mishaps, broken, messages>>

\* Mutant: the suppression list is left to the enrolment's handler.
LoadUnchecked(w) ==
  /\ At(w, "load")
  /\ \/ /\ work' = [work EXCEPT ![w].at = "sending"]
        /\ Send!Begin(w, Key(w))
        /\ UNCHANGED row
     \/ SetRow(Key(w), "HELD") /\ Done(w) /\ UNCHANGED messages
  /\ UNCHANGED <<world, enr, done, mishaps, broken>>

\* The suppression list and the row's shadowMode or the tick's; the country or a
\* branded rendering that fails hold the row for good.
Load(w) ==
  /\ At(w, "load")
  /\ \/ SetRow(Key(w), "HELD") /\ Done(w) /\ UNCHANGED messages
     \/ suppressed /\ SetRow(Key(w), "CANCELLED") /\ Done(w) /\ UNCHANGED messages
     \/ /\ ~suppressed /\ (work[w].cfg \/ row[Key(w)].shadow)
        /\ work' = [work EXCEPT ![w].at = "shadow", ![w].dry = TRUE]
        /\ UNCHANGED <<row, messages>>
     \/ /\ ~suppressed /\ ~(work[w].cfg \/ row[Key(w)].shadow)
        /\ Goto(w, "sending") /\ Send!Begin(w, Key(w))
        /\ UNCHANGED row
  /\ UNCHANGED <<world, enr, done, mishaps, broken>>

MarkSent(k, dry) ==
  row' = [row EXCEPT ![k].status = "SENT", ![k].today = TRUE, ![k].dry = dry]

Shadow(w) ==
  /\ At(w, "shadow")
  /\ MarkSent(Key(w), TRUE)
  /\ Goto(w, "advance")
  /\ UNCHANGED <<world, enr, done, mishaps, broken, messages>>

Sending(w) ==
  /\ At(w, "sending")
  /\ Send!Step(w)
  /\ UNCHANGED <<world, enr, row, done, work, mishaps, broken>>

\* Mutant: every answer counts as sent.
AnsweredAlways(w) ==
  /\ At(w, "sending") /\ call[w].at = "idle"
  /\ Goto(w, "sent")
  /\ UNCHANGED <<world, enr, row, done, mishaps, broken, messages>>

\* sendOutreach returns or throws; the daily limit is one more exception.
Answered(w) ==
  /\ At(w, "sending") /\ call[w].at = "idle"
  /\ Goto(w, IF call[w].got \in {"SENT", "RESUMED"} THEN "sent" ELSE "fail")
  /\ UNCHANGED <<world, enr, row, done, mishaps, broken, messages>>

Sent(w) ==
  /\ At(w, "sent")
  /\ MarkSent(Key(w), FALSE)
  /\ Goto(w, "book")
  /\ UNCHANGED <<world, enr, done, mishaps, broken, messages>>

\* The SUCCESS execution.
Book(w) ==
  /\ At(w, "book")
  /\ done' = done \cup {Key(w)}
  /\ Goto(w, "advance")
  /\ UNCHANGED <<world, enr, row, mishaps, broken, messages>>

\* Mutant: the next step is not queued.
AdvanceUnqueued(w) ==
  /\ At(w, "advance")
  /\ LET e == Enrolment(w)  s == Key(w)[2] IN
       enr' = [enr EXCEPT ![e] = IF Later(s) = {} THEN [@ EXCEPT !.status = "COMPLETED"]
                                 ELSE [status |-> "ACTIVE", step |-> NextStep(s)]]
  /\ Done(w)
  /\ UNCHANGED <<world, row, done, mishaps, broken, messages>>

\* The enrolment goes to the next active step, whatever became of it meanwhile;
\* to open a closed one while another is open is an exception (the unique index).
Advance(w) ==
  /\ At(w, "advance")
  /\ LET e == Enrolment(w)  s == Key(w)[2] IN
       \/ /\ Later(s) = {}
          /\ enr' = [enr EXCEPT ![e].status = "COMPLETED"]
          /\ Done(w)
       \/ /\ Later(s) # {}
          /\ IF IsOpen(e) \/ \A f \in Enrolments : ~IsOpen(f)
             THEN /\ enr' = [enr EXCEPT ![e] = [status |-> "ACTIVE", step |-> NextStep(s)]]
                  /\ Goto(w, "qread")
             ELSE UNCHANGED enr /\ work' = [work EXCEPT ![w] = Thrown(w)]
  /\ UNCHANGED <<world, row, done, mishaps, broken, messages>>

\* Mutant: a row that failed is queued again.
FailRequeues(w) ==
  /\ At(w, "fail")
  /\ SetRow(Key(w), "QUEUED")
  /\ Done(w)
  /\ UNCHANGED <<world, enr, done, mishaps, broken, messages>>

\* The catch block: by the id, also when the row is SENT by now.
Fail(w) ==
  /\ At(w, "fail")
  /\ SetRow(Key(w), "FAILED")
  /\ Done(w)
  /\ UNCHANGED <<world, enr, done, mishaps, broken, messages>>

\* A statement fails: inside the try of a row, in queueStep, or outside both,
\* where it ends the job.
Throw(w) ==
  /\ Mishap /\ broken' = TRUE
  /\ \/ work[w].at \in {"sent", "book", "advance", "qread", "qfind", "qdrop", "qmake"}
        /\ work' = [work EXCEPT ![w] = Thrown(w)]
     \/ work[w].at \in {"prior", "used", "enroll", "consume", "held", "count", "list",
                        "claim", "load", "shadow", "fail"}
        /\ Stop(w)
  /\ UNCHANGED <<world, enr, row, done, messages>>

\* The process dies.
Crash(w) ==
  /\ ~At(w, "idle")
  /\ Mishap /\ broken' = TRUE
  /\ Stop(w)
  /\ IF call[w].at = "idle" THEN UNCHANGED messages ELSE Send!Die(w)
  /\ UNCHANGED <<world, enr, row, done>>

-----------------------------------------------------------------------------
(* The contact, the users and the clock *)

idling == <<done, work, broken, messages>>
others == <<idling, mishaps>>

\* applyToken ("link"), applyUnsubscribe ("mail") and bounces suppress the address;
\* then the first two stop the enrolments, and the second cancels the rows.
Unsubscribe(by) ==
  /\ ~suppressed
  /\ suppressed' = TRUE /\ hook' = by
  /\ UNCHANGED <<pitch, shadow, enr, row, others>>

StopAll == [e \in Enrolments |-> IF IsOpen(e) THEN [enr[e] EXCEPT !.status = "STOPPED"]
                                 ELSE enr[e]]
HookStop ==
  /\ hook \in {"link", "mail"}
  /\ enr' = StopAll
  /\ hook' = IF hook = "mail" THEN "rows" ELSE "none"
  /\ UNCHANGED <<pitch, shadow, suppressed, row, others>>

HookCancel ==
  /\ hook = "rows"
  /\ row' = [k \in Keys |-> IF row[k].status \in {"QUEUED", "HELD"}
                            THEN [row[k] EXCEPT !.status = "CANCELLED"] ELSE row[k]]
  /\ hook' = "none"
  /\ UNCHANGED <<pitch, shadow, suppressed, enr, others>>

\* A reply (stopForContactReply) or a click (stop).
StopEnrolment ==
  /\ \E e \in Enrolments : IsOpen(e)
  /\ enr' = StopAll
  /\ UNCHANGED <<world, row, others>>

\* pauseUntilOoo also puts the queued rows off.
OutOfOffice ==
  /\ Mishap
  /\ enr' = [e \in Enrolments |-> IF enr[e].status = "ACTIVE"
                                  THEN [enr[e] EXCEPT !.status = "PAUSED"] ELSE enr[e]]
  /\ row' = [k \in Keys |-> IF row[k].status = "QUEUED"
                            THEN [row[k] EXCEPT !.due = FALSE] ELSE row[k]]
  /\ UNCHANGED <<world, idling>>

\* A click (pause).
Pause(e) ==
  /\ enr[e].status = "ACTIVE"
  /\ Mishap
  /\ enr' = [enr EXCEPT ![e].status = "PAUSED"]
  /\ UNCHANGED <<world, row, idling>>

\* A click (resume), or the end of an absence (resumeDueOooPauses).
Resume(e) ==
  /\ enr[e].status = "PAUSED"
  /\ enr' = [enr EXCEPT ![e].status = "ACTIVE"]
  /\ UNCHANGED <<world, row, others>>

\* rejectPitch and approvePitch.
Review(status) ==
  /\ status = "REJECTED" \/ (status = "APPROVED" /\ pitch = "REJECTED")
  /\ Mishap
  /\ pitch' = status
  /\ UNCHANGED <<shadow, suppressed, hook, enr, row, idling>>

SetShadow(s) ==
  /\ s # shadow
  /\ Mishap
  /\ shadow' = s
  /\ UNCHANGED <<pitch, suppressed, hook, enr, row, idling>>

\* scheduledFor passes; a day begins.
Tick(k) ==
  /\ row[k].status = "QUEUED" /\ ~row[k].due
  /\ row' = [row EXCEPT ![k].due = TRUE]
  /\ UNCHANGED <<world, enr, others>>

NewDay ==
  /\ SentToday # {}
  /\ Mishap
  /\ row' = [k \in Keys |-> [row[k] EXCEPT !.today = FALSE]]
  /\ UNCHANGED <<world, enr, idling>>

EnrollStep(w) == Prior(w) \/ Used(w) \/ Enroll(w) \/ Consume(w)
QueueStep(w)  == QueueRead(w) \/ QueueFind(w) \/ QueueDrop(w) \/ QueueMake(w)
SendStep(w)   ==
  \/ ReleaseNext(w) \/ Count(w) \/ List(w) \/ Claim(w) \/ Load(w) \/ Shadow(w)
  \/ Sending(w) \/ Answered(w) \/ Sent(w) \/ Book(w) \/ Advance(w) \/ Fail(w)
WorkStep(w) == EnrollStep(w) \/ QueueStep(w) \/ SendStep(w)

Outside ==
  \/ \E by \in {"link", "mail", "none"} : Unsubscribe(by)
  \/ HookStop \/ HookCancel \/ StopEnrolment \/ OutOfOffice
  \/ \E e \in Enrolments : Pause(e) \/ Resume(e)
  \/ \E status \in {"APPROVED", "REJECTED"} : Review(status)
  \/ \E s \in Shadows : SetShadow(s)
  \/ \E k \in Keys : Tick(k)
  \/ NewDay

Next ==
  \/ \E w \in Workers : Pick(w) \/ Release(w) \/ Batch(w) \/ WorkStep(w) \/ Throw(w) \/ Crash(w)
  \/ Outside

Spec == Init /\ [][Next]_vars

-----------------------------------------------------------------------------
(* Properties *)

Mailed(k) == accepted[k] >= 1

\* Whatever overlaps, dies or throws, a row is mailed at most once: a second
\* claim, a rebuilt row or a retry after a lost answer would mail it again.
MailedOnce == \A k \in Keys : accepted[k] <= 1

\* A row that waits, is held or was cancelled has never been mailed, so building
\* it again is safe.
WaitingIsUnmailed ==
  \A k \in Keys : row[k].status \in {"NONE", "HELD", "QUEUED", "CANCELLED"} => ~Mailed(k)

\* What is called sent, by the row or by its execution, was accepted by the
\* provider, or not meant to be.
SentWasMailed == \A k \in Keys :
  /\ row[k].status = "SENT" => Mailed(k) \/ row[k].dry
  /\ k \in done => Mailed(k)

\* What a row and its execution say of the mail is true in both directions: a
\* user who reads "waiting" may build the row again, and one who reads "sent"
\* need not.  Crashes and failed writes leave a row SENDING or FAILED instead.
RowsTellMail == WaitingIsUnmailed /\ SentWasMailed

\* No step is mailed before the steps ahead of it have been.
StepsInOrder == \A e \in Enrolments, s, t \in ActiveSteps :
  s < t /\ Mailed(<<e, t>>) => Mailed(<<e, s>>) \/ row[<<e, s>>].dry

\* A row claimed after the address was suppressed is never sent, whatever became
\* of the handler that should have cancelled it.
SuppressedNeverMailed == \A w \in Workers :
  work[w].late = "suppressed" => work[w].at \in {"idle", "load"}

\* Workers that counted the day's rows before either sent one overshoot the cap,
\* by a cap for each of them at most.
CapOvershootBounded == Cardinality(SentToday) <= Cap * Cardinality(Workers)

\* If nothing crashed or threw, an active enrolment that nobody is at work on has
\* the row of its step: nothing else would ever queue it.
NoneForgotten == \A e \in Enrolments :
  broken \/ enr[e].status # "ACTIVE" \/ row[<<e, enr[e].step>>].status # "NONE"
    \/ \E w \in Workers : ~At(w, "idle") /\ Enrolment(w) = e

\* A claim of the plan that the code does not keep: "stop on reply/unsub/bounce".
StoppedNeverMailed == \A w \in Workers :
  work[w].late = "stopped" => work[w].at \in {"idle", "load"}
=============================================================================
