-------------------------- MODULE SequenceExecutor --------------------------
(***************************************************************************)
(* One enrolment of a contact in a sequence, from its creation to its end: *)
(* the workers of SequenceExecutorService that claim it and carry out its  *)
(* steps, the users who pause, resume, stop and retry it                   *)
(* (SequenceEnrollmentService), and the mail of the contact.               *)
(*                                                                         *)
(* A run is what one cron tick does with the enrolment once it has claimed *)
(* it; every await is a step of its own.  Messages are sent through the    *)
(* contract of sendOutreach (module Outreach), the key of a message being  *)
(* the enrolment's step.                                                   *)
(***************************************************************************)
EXTENDS Naturals, FiniteSets

CONSTANTS
  Runs,         \* executions of processDueEnrollments holding a claim
  NoRun,        \* no claim token
  Users,        \* people at the enrolment's page
  LastStep,     \* steps are 1 .. LastStep (the snapshot taken by enroll)
  EmailSteps,   \* those whose channel is EMAIL
  ActiveSteps,  \* those with isActive
  StopOn,       \* the sequence's stopOnReply, -Meeting and -Unsubscribe
  News,         \* what may become known of the contact
  Flows,        \* what may become of the sequence, its campaign and opportunity
  MaxRetries,   \* enrollment.maxRetries
  MaxMishaps    \* bound: clicks, crashes, exceptions and claims lost to
                \* staleness in a behaviour

Steps   == 1 .. LastStep
Hooks   == News \cap {"reply", "ooo", "unsubscribe"}   \* what has a handler

ASSUME ExecutorAssumption ==
  /\ NoRun \notin Runs
  /\ LastStep \in Nat \ {0}
  /\ EmailSteps \subseteq Steps /\ EmailSteps # {}
  /\ ActiveSteps \subseteq Steps
  /\ StopOn \subseteq {"reply", "meeting", "unsubscribe"}
  /\ News \subseteq {"reply", "ooo", "unsubscribe", "bounce", "meeting"}
  /\ "active" \in Flows /\ Flows \subseteq {"active", "paused", "closed"}
  /\ MaxRetries \in Nat \ {0}
  /\ MaxMishaps \in Nat

VARIABLES
  enr,        \* the SequenceEnrollment row
  done,       \* steps with a SUCCESS execution row
  run,        \* the state of every run
  user,       \* the click each user has under way
  flow,       \* the sequence, campaign and opportunity of the enrolment
  news,       \* what became known of the contact (each kind once)
  hooks,      \* news whose handler (aiReplyService, unsubscribeService) is due
  mishaps,    \* what the bound counts
  disturbed,  \* history: the row was changed under the eyes of a run at work
  late,       \* history: runs that claimed after a stop signal was known
  mail, accepted, call, lost   \* the messages: see Outreach

messages == <<mail, accepted, call, lost>>
hist     == <<disturbed, late>>
outside  == <<flow, news, hooks>>
vars     == <<enr, done, run, user, outside, mishaps, hist, messages>>

Send == INSTANCE Outreach WITH Callers <- Runs, Keys <- EmailSteps, NoKey <- 0

Statuses == {"ACTIVE", "PROCESSING", "PAUSED", "STOPPED", "COMPLETED", "FAILED"}
Ended    == {"STOPPED", "COMPLETED"}   \* what requireMutable refuses
Dues     == {"none", "later", "now"}   \* nextRunAt, seen from the present

Pcs == {"idle", "load", "check", "limit", "prior", "sending", "record",
        "recover", "log", "retryRead", "retryWrite", "write", "outerRead", "outerWrite"}
Plans == {"none", "Stop", "Complete", "Defer", "DeferLimit", "Skip", "Advance"}
Ops   == {"none", "pause", "resume", "stop", "retry"}

Rows  == [status : Statuses, step : Steps, due : Dues, token : Runs \cup {NoRun},
          stale : BOOLEAN, retry : Nat, ooo : BOOLEAN]
RunStates == [at : Pcs, step : Steps, flow : Flows, plan : Plans, retry : Nat]

TypeOK ==
  /\ enr \in Rows
  /\ done \subseteq Steps
  /\ run \in [Runs -> RunStates]
  /\ user \in [Users -> [op : Ops, due : Dues]]
  /\ flow \in Flows /\ news \subseteq News /\ hooks \subseteq Hooks
  /\ mishaps \in 0 .. MaxMishaps
  /\ disturbed \in BOOLEAN /\ late \subseteq Runs
  /\ Send!TypeOK

Idle == [at |-> "idle", step |-> 1, flow |-> "active", plan |-> "none", retry |-> 0]

\* enroll: the first step of the snapshot, at once or after its delay.
Init ==
  /\ \E d \in {"now", "later"} :
       enr = [status |-> "ACTIVE", step |-> 1, due |-> d, token |-> NoRun,
              stale |-> FALSE, retry |-> 0, ooo |-> FALSE]
  /\ done = {}
  /\ run = [w \in Runs |-> Idle]
  /\ user = [u \in Users |-> [op |-> "none", due |-> "none"]]
  /\ flow = "active" /\ news = {} /\ hooks = {}
  /\ mishaps = 0
  /\ disturbed = FALSE /\ late = {}
  /\ Send!Init

-----------------------------------------------------------------------------
At(w, pc)  == run[w].at = pc
InFlight(w) == ~At(w, "idle")
Goto(w, pc) == run' = [run EXCEPT ![w].at = pc]
Plan(w, plan) == run' = [run EXCEPT ![w].at = "write", ![w].plan = plan]
Mishap == mishaps < MaxMishaps /\ mishaps' = mishaps + 1

\* The row without its claim.
Free(row, status, due) ==
  [row EXCEPT !.status = status, !.due = due, !.token = NoRun, !.stale = FALSE]

LaterActive(s) == {t \in ActiveSteps : t > s}
NextStep(s) == CHOOSE t \in LaterActive(s) : \A u \in LaterActive(s) : t <= u

\* The stop conditions that are looked up: any REPLIED event counts, that of an
\* out-of-office mail too.
Suppressed == {"unsubscribe", "bounce"} \cap news # {}
Signalled ==
  \/ "reply" \in StopOn /\ {"reply", "ooo"} \cap news # {}
  \/ \E kind \in {"meeting", "unsubscribe"} : kind \in StopOn \cap news

\* Mutant: the update asks for the id only.
ClaimById(w) ==
  /\ At(w, "idle")
  /\ enr.status \in {"ACTIVE", "PROCESSING"} /\ enr.due = "now"
  /\ enr.token # w
  /\ enr' = [enr EXCEPT !.status = "PROCESSING", !.token = w, !.stale = FALSE]
  /\ Goto(w, "load")
  /\ late' = IF Signalled \/ Suppressed THEN late \cup {w} ELSE late \ {w}
  /\ UNCHANGED <<done, user, outside, mishaps, disturbed, messages>>

(***************************************************************************)
(* Claiming: the conditional update on the status.  The token is a fresh   *)
(* UUID: w stands for it as long as the row bears it.                      *)
(***************************************************************************)
Claim(w) ==
  /\ At(w, "idle")
  /\ enr.status = "ACTIVE" /\ enr.due = "now"
  /\ enr.token # w
  /\ enr' = [enr EXCEPT !.status = "PROCESSING", !.token = w, !.stale = FALSE]
  /\ Goto(w, "load")
  /\ late' = IF Signalled \/ Suppressed THEN late \cup {w} ELSE late \ {w}
  /\ UNCHANGED <<done, user, outside, mishaps, disturbed, messages>>

\* Mutant: only claims without a token are freed.
ReclaimUnheld ==
  /\ enr.status = "PROCESSING" /\ enr.stale /\ enr.token = NoRun
  /\ enr' = Free(enr, "ACTIVE", enr.due)
  /\ UNCHANGED <<done, run, user, outside, mishaps, hist, messages>>

\* A claim five minutes old is taken for a crashed worker's, and freed.
HolderAlive == \E w \in Runs : enr.token = w /\ InFlight(w)
Reclaim ==
  /\ enr.status = "PROCESSING" /\ enr.stale
  /\ enr' = Free(enr, "ACTIVE", enr.due)
  /\ IF HolderAlive THEN Mishap /\ disturbed' = TRUE ELSE UNCHANGED <<mishaps, disturbed>>
  /\ UNCHANGED <<done, run, user, outside, late, messages>>

-----------------------------------------------------------------------------
(* executeClaimed *)

Holds(w) == enr.status = "PROCESSING" /\ enr.token = w

\* The row is read with its sequence, campaign and opportunity.
Load(w) ==
  /\ At(w, "load")
  /\ \/ ~Holds(w) /\ run' = [run EXCEPT ![w] = Idle]     \* claim_lost
     \/ /\ Holds(w)
        /\ run' = [run EXCEPT ![w].at   = IF flow = "paused" THEN "write" ELSE "check",
                              ![w].plan = IF flow = "paused" THEN "Defer" ELSE "none",
                              ![w].step = enr.step, ![w].flow = flow]
  /\ UNCHANGED <<enr, done, user, outside, mishaps, hist, messages>>

\* Mutant: replies, meetings and unsubscribes are left to their handlers.
MustStopClosed(w) == run[w].flow = "closed"

\* The stop conditions, the step to do and the suppression list.  Signals are
\* never withdrawn, so reading them one after the other or at once is the same.
MustStop(w) == run[w].flow = "closed" \/ Signalled
Check(w) ==
  /\ At(w, "check")
  /\ \/ MustStop(w) /\ Plan(w, "Stop")
     \/ /\ ~MustStop(w)
        /\ \/ run[w].step \notin ActiveSteps /\ Plan(w, "Complete")
           \/ run[w].step \in ActiveSteps \ EmailSteps /\ Plan(w, "Skip")
           \/ /\ run[w].step \in ActiveSteps \cap EmailSteps
              /\ \/ Plan(w, "Stop")   \* suppressed, or the contact's address was removed
                 \/ ~Suppressed /\ Goto(w, "limit")
  /\ UNCHANGED <<enr, done, user, outside, mishaps, hist, messages>>

\* assertOrgDailyLimit, whose answer the other messages of the day decide.
Limit(w) ==
  /\ At(w, "limit")
  /\ Plan(w, "DeferLimit") \/ Goto(w, "prior")
  /\ UNCHANGED <<enr, done, user, outside, mishaps, hist, messages>>

\* A step with a SUCCESS execution is not sent again.
Prior(w) ==
  /\ At(w, "prior")
  /\ \/ run[w].step \in done /\ Plan(w, "Advance") /\ UNCHANGED messages
     \/ run[w].step \notin done /\ Goto(w, "sending") /\ Send!Begin(w, run[w].step)
  /\ UNCHANGED <<enr, done, user, outside, mishaps, hist>>

Sending(w) ==
  /\ At(w, "sending")
  /\ Send!Step(w)
  /\ UNCHANGED <<enr, done, run, user, outside, mishaps, hist>>

\* Mutants: success is not recorded; a step that fails is passed over.
AnsweredUnrecorded(w) ==
  /\ At(w, "sending") /\ call[w].at = "idle"
  /\ \/ call[w].got \in {"SENT", "RESUMED", "DUPLICATE"} /\ Plan(w, "Advance")
     \/ call[w].got = "ORG_DAILY_LIMIT" /\ Plan(w, "DeferLimit")
     \/ call[w].got = "ERROR" /\ Goto(w, "log")
  /\ UNCHANGED <<enr, done, user, outside, mishaps, hist, messages>>
AnsweredPassesOver(w) ==
  /\ At(w, "sending") /\ call[w].at = "idle"
  /\ \/ call[w].got \in {"SENT", "RESUMED"} /\ Goto(w, "record")
     \/ call[w].got = "DUPLICATE" /\ Goto(w, "recover")
     \/ call[w].got = "ORG_DAILY_LIMIT" /\ Plan(w, "DeferLimit")
     \/ call[w].got = "ERROR" /\ Plan(w, "Advance")
  /\ UNCHANGED <<enr, done, user, outside, mishaps, hist, messages>>

\* sendOutreach returns or throws.
Answered(w) ==
  /\ At(w, "sending") /\ call[w].at = "idle"
  /\ \/ call[w].got \in {"SENT", "RESUMED"} /\ Goto(w, "record")
     \/ call[w].got = "DUPLICATE" /\ Goto(w, "recover")
     \/ call[w].got = "ORG_DAILY_LIMIT" /\ Plan(w, "DeferLimit")
     \/ call[w].got = "ERROR" /\ Goto(w, "log")
  /\ UNCHANGED <<enr, done, user, outside, mishaps, hist, messages>>

\* The SUCCESS execution, also for a duplicate, which counts as sent.
Record(w) ==
  /\ run[w].at \in {"record", "recover"}
  /\ done' = done \cup {run[w].step}
  /\ Plan(w, "Advance")
  /\ UNCHANGED <<enr, user, outside, mishaps, hist, messages>>

\* The FAILED execution of the catch block.
Log(w) ==
  /\ At(w, "log")
  /\ Goto(w, "retryRead")
  /\ UNCHANGED <<enr, done, user, outside, mishaps, hist, messages>>

\* The row as a plan leaves it.
Moved(row, step) == [Free(row, "ACTIVE", "later") EXCEPT !.step = step]
Planned(row, plan, step) ==
  CASE plan = "Stop"     -> Free(row, "STOPPED", "none")
    [] plan = "Complete" -> Free(row, "COMPLETED", "none")
    [] plan \in {"Defer", "DeferLimit"} -> Free(row, "ACTIVE", "later")
    [] plan = "Skip"     -> IF LaterActive(step) = {} THEN Free(row, "COMPLETED", "none")
                            ELSE Moved(row, NextStep(step))
    [] plan = "Advance"  -> IF LaterActive(step) = {} THEN Free(row, "COMPLETED", "none")
                            ELSE [Moved(row, NextStep(step)) EXCEPT !.retry = 0]

\* Every update of a run asks for the run's token.  The row deferred for the
\* limit, the SKIPPED execution that follows may throw.
Write(w) ==
  /\ At(w, "write")
  /\ enr' = IF enr.token = w THEN Planned(enr, run[w].plan, run[w].step) ELSE enr
  /\ \/ run' = [run EXCEPT ![w] = Idle] /\ UNCHANGED mishaps
     \/ run[w].plan = "DeferLimit" /\ Goto(w, "outerRead") /\ Mishap
  /\ UNCHANGED <<done, user, outside, hist, messages>>

-----------------------------------------------------------------------------
(* failOrRetry: from the catch block of executeClaimed with the run's token, *)
(* from that of processDueEnrollments with none.                             *)

RetryRead(w) ==
  /\ run[w].at \in {"retryRead", "outerRead"}
  /\ run' = [run EXCEPT ![w].at = IF At(w, "retryRead") THEN "retryWrite" ELSE "outerWrite",
                        ![w].retry = enr.retry + 1]
  /\ UNCHANGED <<enr, done, user, outside, mishaps, hist, messages>>

Retried(row, n) ==
  [Free(row, IF n < MaxRetries THEN "ACTIVE" ELSE "FAILED",
             IF n < MaxRetries THEN "later" ELSE "none") EXCEPT !.retry = n]

RetryWrite(w) ==
  /\ At(w, "retryWrite")
  /\ enr' = IF enr.token = w THEN Retried(enr, run[w].retry) ELSE enr
  /\ run' = [run EXCEPT ![w] = Idle]
  /\ UNCHANGED <<done, user, outside, mishaps, hist, messages>>

OuterWrite(w) ==
  /\ At(w, "outerWrite")
  /\ enr' = Retried(enr, run[w].retry)
  /\ run' = [run EXCEPT ![w] = Idle]
  /\ disturbed' = (disturbed \/ enr.token # w)
  /\ UNCHANGED <<done, user, outside, mishaps, late, messages>>

\* A statement fails.  The inner catch block sees what is awaited inside its
\* try; advanceAfterSuccess is returned from it, not awaited.
Throw(w) ==
  /\ Mishap
  /\ \/ At(w, "record") /\ Goto(w, "log")
     \/ /\ run[w].at \in {"load", "check", "limit", "prior", "recover", "log",
                          "retryRead", "retryWrite", "write"}
        /\ Goto(w, "outerRead")
  /\ UNCHANGED <<enr, done, user, outside, hist, messages>>

\* The process dies, or the outer failOrRetry throws and ends the tick.
Crash(w) ==
  /\ InFlight(w)
  /\ Mishap
  /\ run' = [run EXCEPT ![w] = Idle]
  /\ IF call[w].at = "idle" THEN UNCHANGED messages ELSE Send!Die(w)
  /\ UNCHANGED <<enr, done, user, outside, hist>>

-----------------------------------------------------------------------------
(* SequenceEnrollmentService: a click reads the row, checks it, and then     *)
(* updates it by its id alone.                                               *)

Allowed(op) ==
  CASE op = "pause"  -> enr.status = "ACTIVE"
    [] op = "resume" -> enr.status = "PAUSED"
    [] op = "stop"   -> enr.status \notin Ended
    [] op = "retry"  -> enr.status = "FAILED"

Click(u, op) ==
  /\ user[u].op = "none" /\ op # "none"
  /\ Allowed(op)
  /\ Mishap
  /\ user' = [user EXCEPT ![u] = [op |-> op, due |-> enr.due]]
  /\ UNCHANGED <<enr, done, run, outside, hist, messages>>

\* resume writes back the nextRunAt it read, and leaves the token alone.
Clicked(op, due) ==
  CASE op = "pause"  -> Free(enr, "PAUSED", enr.due)
    [] op = "resume" -> [enr EXCEPT !.status = "ACTIVE",
                                    !.due = IF due = "none" THEN "now" ELSE due]
    [] op = "stop"   -> Free(enr, "STOPPED", "none")
    [] op = "retry"  -> [Free(enr, "ACTIVE", "now") EXCEPT !.retry = 0]

Perform(u) ==
  /\ user[u].op # "none"
  /\ enr' = Clicked(user[u].op, user[u].due)
  /\ user' = [user EXCEPT ![u] = [op |-> "none", due |-> "none"]]
  /\ disturbed' = (disturbed \/ \E w \in Runs : InFlight(w))
  /\ UNCHANGED <<done, run, outside, mishaps, late, messages>>

-----------------------------------------------------------------------------
(* The contact and the clock. *)

\* ingestInbound writes a REPLIED event for every mail, then hands it to
\* aiReplyService.handleInbound; applyToken suppresses, then stops.  A bounce
\* suppresses and a meeting is booked with no more to come.
Receive(kind) ==
  /\ kind \notin news
  /\ news' = news \cup {kind}
  /\ hooks' = hooks \cup ({kind} \cap Hooks)
  /\ UNCHANGED <<enr, done, run, user, flow, mishaps, hist, messages>>

\* stopForContactReply and stopForContactUnsubscribe.
StopHook(kind) ==
  /\ kind \in hooks \ {"ooo"}
  /\ hooks' = hooks \ {kind}
  /\ enr' = IF kind \in StopOn /\ enr.status \in {"ACTIVE", "PAUSED", "PROCESSING"}
            THEN Free(enr, "STOPPED", "none") ELSE enr
  /\ UNCHANGED <<done, run, user, flow, news, mishaps, hist, messages>>

\* pauseUntilOoo.
OooHook ==
  /\ "ooo" \in hooks
  /\ hooks' = hooks \ {"ooo"}
  /\ enr' = IF enr.status = "ACTIVE"
            THEN [Free(enr, "PAUSED", "later") EXCEPT !.ooo = TRUE] ELSE enr
  /\ UNCHANGED <<done, run, user, flow, news, mishaps, hist, messages>>

\* The process dies before the handler of a mail has run.
DropHook(kind) ==
  /\ kind \in hooks
  /\ Mishap
  /\ hooks' = hooks \ {kind}
  /\ UNCHANGED <<enr, done, run, user, flow, news, hist, messages>>

\* resumeDueOooPauses.
OooDue == enr.status = "PAUSED" /\ enr.due = "now" /\ enr.ooo
ResumeOoo ==
  /\ OooDue
  /\ enr' = [enr EXCEPT !.status = "ACTIVE", !.ooo = FALSE]
  /\ UNCHANGED <<done, run, user, outside, mishaps, hist, messages>>

SetFlow(f) ==
  /\ f # flow
  /\ flow' = f
  /\ UNCHANGED <<enr, done, run, user, news, hooks, mishaps, hist, messages>>

\* nextRunAt passes; a claim grows old.
Tick ==
  /\ enr.due = "later"
  /\ enr' = [enr EXCEPT !.due = "now"]
  /\ UNCHANGED <<done, run, user, outside, mishaps, hist, messages>>

Age ==
  /\ enr.status = "PROCESSING" /\ ~enr.stale
  /\ enr' = [enr EXCEPT !.stale = TRUE]
  /\ UNCHANGED <<done, run, user, outside, mishaps, hist, messages>>

RunStep(w) ==
  \/ Load(w) \/ Check(w) \/ Limit(w) \/ Prior(w) \/ Sending(w) \/ Answered(w)
  \/ Record(w) \/ Log(w) \/ Write(w) \/ RetryRead(w) \/ RetryWrite(w) \/ OuterWrite(w)

Contact ==
  \/ \E kind \in News : Receive(kind)
  \/ \E kind \in Hooks : StopHook(kind) \/ DropHook(kind)
  \/ OooHook

Clock == Tick \/ Age

Next ==
  \/ \E w \in Runs : Claim(w) \/ RunStep(w) \/ Throw(w) \/ Crash(w)
  \/ \E u \in Users : Perform(u) \/ \E op \in Ops : Click(u, op)
  \/ Reclaim \/ ResumeOoo \/ Contact \/ Clock \/ \E f \in Flows : SetFlow(f)

Spec == Init /\ [][Next]_vars

\* The cron calls the executor again and again, time passes, and a process that
\* has not died goes on (a query or a mail server answers or fails in the end).
Fairness ==
  /\ \A w \in Runs : WF_vars(RunStep(w))
  /\ WF_vars(\E w \in Runs : Claim(w))
  /\ WF_vars(Reclaim) /\ WF_vars(Tick) /\ WF_vars(Age)

FairSpec == Spec /\ Fairness

-----------------------------------------------------------------------------
(* Properties *)

Mailed(s) == accepted[s] >= 1

\* From its claim to its last write, outside the outer catch block.
Working(w) == run[w].at \notin {"idle", "outerRead", "outerWrite"}

\* The claim keeps a second worker off the enrolment, unless the row was changed
\* by somebody else while a run was at work (a claim taken for stale, a click
\* that had read the row before, an exception of another run).
OneWorker == disturbed \/ \A w, x \in Runs : Working(w) /\ Working(x) => w = x

\* And so no step is mailed twice, unless the record of an accepted mail is lost:
\* neither a retry nor a run that dies before it noted its success repeats it.
MailedOncePerStep == \A s \in EmailSteps : accepted[s] >= 2 => disturbed \/ s \in lost

\* Whatever overlaps and dies: no step is mailed before the earlier e-mail steps
\* have their SUCCESS execution.
StepsInOrder ==
  \A s \in EmailSteps : Mailed(s) => {t \in ActiveSteps \cap EmailSteps : t < s} \subseteq done

\* COMPLETED says that every e-mail step was done (COMPLETED_NATURALLY), and done
\* that its mail was accepted, if nothing disturbed the run.
CompletedIsDone ==
  /\ enr.status = "COMPLETED" /\ 1 \in ActiveSteps => ActiveSteps \cap EmailSteps \subseteq done
  /\ \A s \in done : Mailed(s) \/ disturbed

\* A run that claims the enrolment after a stop signal was recorded never comes
\* to the send: not after a handler that died, a retry or a resume either.
SignalledNeverSends ==
  \A w \in late : run[w].at \in {"idle", "load", "check", "write", "outerRead",
                                "outerWrite"}

\* A claim never outlives the processes: the enrolment leaves PROCESSING.
ClaimsEnd == enr.status = "PROCESSING" ~> enr.status # "PROCESSING"

\* A reply, an unsubscribe or a meeting takes the enrolment out of service, also
\* when its handler died, if the sequence is not paused for good.
SignalsStop ==
  <>[](flow # "paused") => (Signalled ~> enr.status \notin {"ACTIVE", "PROCESSING"})

\* Claims of the source and its documents that the code does not keep.

\* "Any human reply stops the contact's active sequence enrollments"; the checks
\* on "already STOPPED" take the status to be final.
StopIsFinal == [][enr.status \in Ended => enr'.status = enr.status]_vars

\* "OOO pauses (not stops) and resumes after the return date"
OooOnlyPauses == news = {"ooo"} => \A w \in Runs : MustStop(w) => run[w].flow = "closed"
=============================================================================
