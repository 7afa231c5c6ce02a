----------------------- MODULE SequenceExecutorProofs -----------------------
(***************************************************************************)
(* Proofs about SequenceExecutor, for every number of runs, users, steps   *)
(* and mishaps: the types, one worker at a time, the steps in order, one   *)
(* mail for each step, no send after a stop signal, and a COMPLETED        *)
(* enrolment that has done its steps.                                      *)
(***************************************************************************)
EXTENDS SequenceExecutor, WellFoundedInduction, TLAPS

-----------------------------------------------------------------------------
(* Rows *)

\* A freed row is a row; the claim is gone and the step is kept.
LEMMA FreeRow ==
  ASSUME NEW row \in Rows, NEW status \in Statuses, NEW due \in Dues
  PROVE  /\ Free(row, status, due) \in Rows
         /\ Free(row, status, due).status = status
         /\ Free(row, status, due).token = NoRun
         /\ Free(row, status, due).step = row.step
         /\ Free(row, status, due).retry = row.retry
BY DEF Free, Rows

\* Moving a row to another step, or setting its count, disturbs nothing else.
LEMMA StepRow ==
  ASSUME NEW row \in Rows, NEW step \in Steps
  PROVE  /\ [row EXCEPT !.step = step] \in Rows
         /\ [row EXCEPT !.step = step].step = step
         /\ [row EXCEPT !.step = step].status = row.status
         /\ [row EXCEPT !.step = step].token = row.token
BY DEF Rows

\* The same of the retry count.
LEMMA RetryRow ==
  ASSUME NEW row \in Rows, NEW n \in Nat
  PROVE  /\ [row EXCEPT !.retry = n] \in Rows
         /\ [row EXCEPT !.retry = n].step = row.step
         /\ [row EXCEPT !.retry = n].status = row.status
         /\ [row EXCEPT !.retry = n].token = row.token
BY DEF Rows

\* The order of the natural numbers, as a relation.
Less == {pair \in Nat \X Nat : pair[1] < pair[2]}
\* It is well-founded.
LEMMA LessIsWellFounded == IsWellFoundedOn(Less, Nat)
BY NatLessThanWellFounded DEF OpToRel, Less

\* A set of numbers that is not empty has a least one.
LEMMA LeastMember ==
  ASSUME NEW S, S \subseteq Nat, S # {}
  PROVE  \E t \in S : \A u \in S : t <= u
<1>1. PICK t \in S : \A u \in S : ~ (<<u, t>> \in Less)
  BY LessIsWellFounded, WFMin
<1>2. ASSUME NEW u \in S PROVE t <= u
  <2>1. t \in Nat /\ u \in Nat /\ ~ (<<u, t>> \in Less)
    BY <1>1
  <2>2. ~ (u < t)
    BY <2>1 DEF Less
  <2> QED
    BY <2>1, <2>2
<1> QED
  BY <1>2

\* findNextStep returns the first active step after the one given.
LEMMA NextStepIsNext ==
  ASSUME NEW s \in Steps, LaterActive(s) # {}
  PROVE  /\ NextStep(s) \in ActiveSteps /\ NextStep(s) \in Steps
         /\ \A t \in ActiveSteps : t < NextStep(s) => t <= s
<1>1. ActiveSteps \subseteq Steps /\ Steps \subseteq Nat
  BY ExecutorAssumption DEF Steps
<1>2. LaterActive(s) \subseteq Nat
  BY <1>1 DEF LaterActive
<1>3. \E t \in LaterActive(s) : \A u \in LaterActive(s) : t <= u
  BY <1>2, LeastMember
<1>4. NextStep(s) \in LaterActive(s) /\ \A u \in LaterActive(s) : NextStep(s) <= u
  BY <1>3 DEF NextStep
<1>5. ASSUME NEW t \in ActiveSteps, t < NextStep(s) PROVE t <= s
  <2>1. t \in Nat /\ s \in Nat /\ NextStep(s) \in Nat
    BY <1>1, <1>2, <1>4
  <2>2. t > s => NextStep(s) <= t
    BY <1>4 DEF LaterActive
  <2> QED
    BY <1>5, <2>1, <2>2
<1> QED
  BY <1>1, <1>4, <1>5 DEF LaterActive

\* Where a plan leaves the row: freed, and at the next step if it moves on.
LEMMA PlannedRow ==
  ASSUME NEW row \in Rows, NEW plan \in Plans \ {"none"}, NEW step \in Steps
  PROVE  /\ Planned(row, plan, step) \in Rows
         /\ Planned(row, plan, step).token = NoRun
         /\ \/ Planned(row, plan, step).step = row.step
            \/ /\ plan \in {"Skip", "Advance"} /\ LaterActive(step) # {}
               /\ Planned(row, plan, step).step = NextStep(step)
<1>0. {"STOPPED", "COMPLETED", "ACTIVE"} \subseteq Statuses /\ {"none", "later"} \subseteq Dues
  BY DEF Statuses, Dues
<1>1. CASE plan = "Stop"
  <2>1. Planned(row, plan, step) = Free(row, "STOPPED", "none")
    BY <1>1 DEF Planned
  <2>2. /\ Free(row, "STOPPED", "none") \in Rows
        /\ Free(row, "STOPPED", "none").token = NoRun
        /\ Free(row, "STOPPED", "none").step = row.step
    BY <1>0, FreeRow
  <2> QED
    BY <2>1, <2>2
<1>2. CASE plan = "Complete" \/ (plan \in {"Skip", "Advance"} /\ LaterActive(step) = {})
  <2>1. Planned(row, plan, step) = Free(row, "COMPLETED", "none")
    BY <1>2 DEF Planned
  <2>2. /\ Free(row, "COMPLETED", "none") \in Rows
        /\ Free(row, "COMPLETED", "none").token = NoRun
        /\ Free(row, "COMPLETED", "none").step = row.step
    BY <1>0, FreeRow
  <2> QED
    BY <2>1, <2>2
<1>3. CASE plan \in {"Defer", "DeferLimit"}
  <2>1. Planned(row, plan, step) = Free(row, "ACTIVE", "later")
    BY <1>3 DEF Planned
  <2>2. /\ Free(row, "ACTIVE", "later") \in Rows
        /\ Free(row, "ACTIVE", "later").token = NoRun
        /\ Free(row, "ACTIVE", "later").step = row.step
    BY <1>0, FreeRow
  <2> QED
    BY <2>1, <2>2
<1>4. CASE plan \in {"Skip", "Advance"} /\ LaterActive(step) # {}
  <2>1. /\ Free(row, "ACTIVE", "later") \in Rows
        /\ Free(row, "ACTIVE", "later").token = NoRun
    BY <1>0, FreeRow
  <2>2. NextStep(step) \in Steps
    BY <1>4, NextStepIsNext
  <2>3. /\ Moved(row, NextStep(step)) \in Rows
        /\ Moved(row, NextStep(step)).token = NoRun
        /\ Moved(row, NextStep(step)).step = NextStep(step)
    BY <2>1, <2>2, StepRow DEF Moved
  <2>4. CASE plan = "Skip"
    <3>1. Planned(row, plan, step) = Moved(row, NextStep(step))
      BY <1>4, <2>4 DEF Planned
    <3> QED
      BY <1>4, <2>3, <3>1
  <2>5. CASE plan = "Advance"
    <3>1. Planned(row, plan, step) = [Moved(row, NextStep(step)) EXCEPT !.retry = 0]
      BY <1>4, <2>5 DEF Planned
    <3> QED
      BY <1>4, <2>3, <3>1, RetryRow
  <2> QED
    BY <1>4, <2>4, <2>5
<1> QED
  BY <1>1, <1>2, <1>3, <1>4 DEF Plans

\* failOrRetry frees the row, for a retry or as FAILED.
LEMMA RetriedRow ==
  ASSUME NEW row \in Rows, NEW n \in Nat
  PROVE  /\ Retried(row, n) \in Rows
         /\ Retried(row, n).token = NoRun
         /\ Retried(row, n).step = row.step
         /\ Retried(row, n).status \in {"ACTIVE", "FAILED"}
<1> DEFINE status == IF n < MaxRetries THEN "ACTIVE" ELSE "FAILED"
           due    == IF n < MaxRetries THEN "later" ELSE "none"
<1>1. status \in Statuses /\ status \in {"ACTIVE", "FAILED"} /\ due \in Dues
  BY DEF Statuses, Dues
<1>2. Retried(row, n) = [Free(row, status, due) EXCEPT !.retry = n]
  BY DEF Retried
<1> HIDE DEF status, due
<1>3. /\ Free(row, status, due) \in Rows
      /\ Free(row, status, due).status = status
      /\ Free(row, status, due).token = NoRun
      /\ Free(row, status, due).step = row.step
  BY <1>1, FreeRow
<1> QED
  BY <1>1, <1>2, <1>3, RetryRow

-----------------------------------------------------------------------------
(* Messages *)

\* A call under way has a key.
CallsHaveKeys == \A w \in Runs : call[w].at # "idle" => call[w].key \in EmailSteps
SendInv == Send!TypeOK /\ CallsHaveKeys

Sends(w) == Send!Step(w) \/ Send!Die(w) \/ \E s \in EmailSteps : Send!Begin(w, s)

CallType == [at : Send!Stages, key : EmailSteps \cup {0}, knew : BOOLEAN, got : Send!Answers]

\* A call begins, ends or goes on with its key.
LEMMA CallMoves ==
  ASSUME call \in [Runs -> CallType], NEW w \in Runs, Sends(w)
  PROVE  \/ \E answer \in Send!Answers : Send!Return(w, answer)
         \/ call[w].at # "idle" /\ \E stage \in Send!Stages : Send!Goto(w, stage)
         \/ call[w].at # "idle" /\ Send!GoOn(w)
         \/ \E s \in EmailSteps : Send!Begin(w, s)
<1>0. /\ {"idle", "begun", "looked", "reserved", "accepted", "recorded",
          "failing", "failed"} \subseteq Send!Stages
      /\ {"none", "SENT", "RESUMED", "ORG_DAILY_LIMIT", "DUPLICATE", "ERROR"}
           \subseteq Send!Answers
  BY DEF Send!Stages, Send!Answers
<1>1. CASE Send!Look(w)
  BY <1>0, <1>1 DEF Send!Look, Send!At
<1>2. CASE Send!Refuse(w) \/ Send!Finish(w) \/ Send!GiveUp(w)
  BY <1>0, <1>2 DEF Send!Refuse, Send!Finish, Send!GiveUp
<1>3. CASE Send!Reserve(w) \/ Send!Accept(w) \/ Send!Record(w) \/ Send!Throw(w) \/ Send!Fail(w)
  BY <1>0, <1>3 DEF Send!Reserve, Send!Accept, Send!Record, Send!Throw, Send!Fail, Send!At
<1>4. CASE Send!Decline(w)
  BY <1>0, <1>4 DEF Send!Decline, Send!At
<1>5. CASE Send!Die(w)
  BY <1>0, <1>5 DEF Send!Die
<1> QED
  BY <1>1, <1>2, <1>3, <1>4, <1>5 DEF Sends, Send!Step

\* What such a step does to the calls, and to the count of the call's key.
LEMMA CallEffect ==
  ASSUME call \in [Runs -> CallType], NEW w \in Runs, Sends(w)
  PROVE  /\ call' \in [Runs -> CallType]
         /\ \A x \in Runs \ {w} : call'[x] = call[x]
         /\ \/ call'[w].at = "idle"
            \/ call[w].at # "idle" /\ call'[w].key = call[w].key
            \/ \E s \in EmailSteps : Send!Begin(w, s) /\ call'[w].key = s
<1>0. "idle" \in Send!Stages /\ "begun" \in Send!Stages /\ "looked" \in Send!Stages
      /\ "none" \in Send!Answers
  BY DEF Send!Stages, Send!Answers
<1>1. ASSUME NEW answer \in Send!Answers, Send!Return(w, answer)
      PROVE  call' \in [Runs -> CallType] /\ call'[w].at = "idle"
             /\ \A x \in Runs \ {w} : call'[x] = call[x]
  BY <1>0, <1>1 DEF Send!Return, CallType
<1>2. ASSUME NEW stage \in Send!Stages, Send!Goto(w, stage)
      PROVE  call' \in [Runs -> CallType] /\ call'[w].key = call[w].key
             /\ \A x \in Runs \ {w} : call'[x] = call[x]
  BY <1>2 DEF Send!Goto, CallType
<1>3. ASSUME Send!GoOn(w)
      PROVE  call' \in [Runs -> CallType] /\ call'[w].key = call[w].key
             /\ \A x \in Runs \ {w} : call'[x] = call[x]
  BY <1>0, <1>3 DEF Send!GoOn, Send!Key, CallType
<1>4. ASSUME NEW s \in EmailSteps, Send!Begin(w, s)
      PROVE  call' \in [Runs -> CallType] /\ call'[w].key = s
             /\ \A x \in Runs \ {w} : call'[x] = call[x]
  BY <1>0, <1>4 DEF Send!Begin, CallType
<1> QED
  BY <1>1, <1>2, <1>3, <1>4, CallMoves

\* A message is accepted, if any, under the call's own key.
LEMMA CountEffect ==
  ASSUME NEW w \in Runs, Sends(w)
  PROVE  \/ accepted' = accepted
         \/ /\ call[w].at # "idle"
            /\ accepted' = [accepted EXCEPT ![call[w].key] = @ + 1]
BY DEF Sends, Send!Step, Send!Look, Send!Refuse, Send!Reserve, Send!Decline, Send!Accept,
       Send!Record, Send!Finish, Send!Throw, Send!Fail, Send!GiveUp, Send!Begin, Send!Die,
       Send!At, Send!Key

\* The messages keep their types.
LEMMA SendKeepsInv ==
  ASSUME SendInv, NEW w \in Runs, Sends(w)
  PROVE  SendInv'
<1>0. call \in [Runs -> CallType]
  BY DEF SendInv, Send!TypeOK, CallType
<1>1. mail' \in [EmailSteps -> {"NONE", "SCHEDULED", "SENT", "FAILED"}]
  BY DEF SendInv, Send!TypeOK, Sends, Send!Step, Send!Look, Send!Refuse, Send!Reserve,
         Send!Decline, Send!Accept, Send!Record, Send!Finish, Send!Throw, Send!Fail,
         Send!GiveUp, Send!Begin, Send!Die
<1>2. accepted' \in [EmailSteps -> Nat]
  BY CountEffect DEF SendInv, Send!TypeOK
<1>3. call' \in [Runs -> CallType]
  BY <1>0, CallEffect
<1>4. lost' \subseteq EmailSteps
  BY DEF SendInv, Send!TypeOK, CallsHaveKeys, Sends, Send!Step, Send!Look, Send!Refuse,
         Send!Reserve, Send!Decline, Send!Accept, Send!Record, Send!Finish, Send!Throw,
         Send!Fail, Send!GiveUp, Send!Begin, Send!Die, Send!At, Send!Key
<1>5. CallsHaveKeys'
  BY <1>0, CallEffect DEF SendInv, CallsHaveKeys
<1> QED
  BY <1>1, <1>2, <1>3, <1>4, <1>5 DEF SendInv, Send!TypeOK, CallType

-----------------------------------------------------------------------------
(* Runs *)

\* Moving a run on leaves its step and its plan, and the other runs.
LEMMA GotoEffect ==
  ASSUME run \in [Runs -> RunStates], NEW w \in Runs, NEW pc \in Pcs, Goto(w, pc)
  PROVE  /\ run' \in [Runs -> RunStates]
         /\ run'[w].at = pc /\ run'[w].step = run[w].step /\ run'[w].plan = run[w].plan
         /\ \A x \in Runs \ {w} : run'[x] = run[x]
BY DEF Goto, RunStates

\* Planning sends the run to its last write.
LEMMA PlanEffect ==
  ASSUME run \in [Runs -> RunStates], NEW w \in Runs, NEW plan \in Plans, Plan(w, plan)
  PROVE  /\ run' \in [Runs -> RunStates]
         /\ run'[w].at = "write" /\ run'[w].step = run[w].step /\ run'[w].plan = plan
         /\ \A x \in Runs \ {w} : run'[x] = run[x]
<1>1. "write" \in Pcs
  BY DEF Pcs
<1> QED
  BY <1>1 DEF Plan, RunStates

\* A run that is over is a run.
LEMMA IdleRun == Idle \in RunStates
<1>1. "idle" \in Pcs /\ 1 \in Steps /\ "active" \in Flows /\ "none" \in Plans /\ 0 \in Nat
  BY ExecutorAssumption DEF Pcs, Steps, Plans
<1> QED
  BY <1>1 DEF Idle, RunStates

\* Ending a run leaves the others alone.
LEMMA EndEffect ==
  ASSUME run \in [Runs -> RunStates], NEW w \in Runs, run' = [run EXCEPT ![w] = Idle]
  PROVE  /\ run' \in [Runs -> RunStates]
         /\ run'[w] = Idle /\ run'[w].at = "idle"
         /\ \A x \in Runs \ {w} : run'[x] = run[x]
BY IdleRun DEF Idle

\* Load reads the row's step and the sequence's state.
LEMMA LoadEffect ==
  ASSUME run \in [Runs -> RunStates], enr \in Rows, flow \in Flows, NEW w \in Runs,
         Load(w)
  PROVE  /\ run' \in [Runs -> RunStates]
         /\ \A x \in Runs \ {w} : run'[x] = run[x]
         /\ \/ run'[w] = Idle /\ run'[w].at = "idle"
            \/ /\ Holds(w)
               /\ run'[w].step = enr.step
               /\ \/ run'[w].at = "write" /\ run'[w].plan = "Defer"
                  \/ run'[w].at = "check" /\ run'[w].plan = "none"
<1>0. {"write", "check"} \subseteq Pcs /\ {"Defer", "none"} \subseteq Plans /\ enr.step \in Steps
  BY DEF Pcs, Plans, Rows
<1>1. CASE run' = [run EXCEPT ![w] = Idle]
  BY <1>1, EndEffect
<1>2. ASSUME NEW pc \in {"write", "check"}, NEW plan \in {"Defer", "none"},
             run' = [run EXCEPT ![w].at = pc, ![w].plan = plan, ![w].step = enr.step,
                                ![w].flow = flow]
      PROVE  /\ run' \in [Runs -> RunStates]
             /\ \A x \in Runs \ {w} : run'[x] = run[x]
             /\ run'[w].step = enr.step /\ run'[w].at = pc /\ run'[w].plan = plan
  <2>1. run[w] \in RunStates
    OBVIOUS
  <2>2. [run[w] EXCEPT !.at = pc, !.plan = plan, !.step = enr.step, !.flow = flow]
          \in RunStates
    BY <1>0, <2>1 DEF RunStates
  <2>3. run' = [run EXCEPT ![w] = [run[w] EXCEPT !.at = pc, !.plan = plan, !.step = enr.step,
                                                 !.flow = flow]]
    BY <1>2, <2>1 DEF RunStates
  <2>4. run'[w] = [run[w] EXCEPT !.at = pc, !.plan = plan, !.step = enr.step, !.flow = flow]
    BY <2>3
  <2>5. run'[w].step = enr.step /\ run'[w].at = pc /\ run'[w].plan = plan
    BY <2>1, <2>4 DEF RunStates
  <2> QED
    BY <2>2, <2>3, <2>5
<1>3. CASE Holds(w) /\ flow = "paused"
  BY <1>2, <1>3 DEF Load
<1>4. CASE Holds(w) /\ flow # "paused"
  BY <1>2, <1>4 DEF Load
<1> QED
  BY <1>1, <1>3, <1>4 DEF Load

\* Reading the retry count moves a run to its last write.
LEMMA RetryReadEffect ==
  ASSUME run \in [Runs -> RunStates], enr \in Rows, NEW w \in Runs, RetryRead(w)
  PROVE  /\ run' \in [Runs -> RunStates]
         /\ \A x \in Runs \ {w} : run'[x] = run[x]
         /\ run'[w].step = run[w].step /\ run'[w].plan = run[w].plan
         /\ \/ At(w, "retryRead") /\ run'[w].at = "retryWrite"
            \/ At(w, "outerRead") /\ run'[w].at = "outerWrite"
<1>0. {"retryWrite", "outerWrite"} \subseteq Pcs /\ enr.retry + 1 \in Nat
  BY DEF Pcs, Rows
<1>1. ASSUME NEW pc \in {"retryWrite", "outerWrite"},
             run' = [run EXCEPT ![w].at = pc, ![w].retry = enr.retry + 1]
      PROVE  /\ run' \in [Runs -> RunStates]
             /\ \A x \in Runs \ {w} : run'[x] = run[x]
             /\ run'[w].step = run[w].step /\ run'[w].plan = run[w].plan /\ run'[w].at = pc
  BY <1>0, <1>1 DEF RunStates
<1>2. CASE At(w, "retryRead")
  BY <1>1, <1>2 DEF RetryRead
<1>3. CASE ~At(w, "retryRead")
  BY <1>1, <1>3 DEF RetryRead, At
<1> QED
  BY <1>2, <1>3

-----------------------------------------------------------------------------
(* What users, handlers and the clock do to the row *)

\* A click keeps the step, and the claim only to put the row in service.
LEMMA ClickedRow ==
  ASSUME enr \in Rows, NEW op \in Ops \ {"none"}, NEW due \in Dues
  PROVE  /\ Clicked(op, due) \in Rows
         /\ Clicked(op, due).step = enr.step
         /\ \/ Clicked(op, due).token = NoRun
            \/ Clicked(op, due).token = enr.token /\ Clicked(op, due).status = "ACTIVE"
<1>0. /\ {"PAUSED", "ACTIVE", "STOPPED"} \subseteq Statuses /\ {"none", "now"} \subseteq Dues
      /\ enr.due \in Dues
  BY DEF Statuses, Dues, Rows
<1>1. CASE op = "pause"
  <2>1. Clicked(op, due) = Free(enr, "PAUSED", enr.due)
    BY <1>1 DEF Clicked
  <2>2. /\ Free(enr, "PAUSED", enr.due) \in Rows
        /\ Free(enr, "PAUSED", enr.due).token = NoRun
        /\ Free(enr, "PAUSED", enr.due).step = enr.step
    <3>1. "PAUSED" \in Statuses /\ enr.due \in Dues
      BY <1>0
    <3> HIDE DEF Free
    <3> QED
      BY <3>1, FreeRow, Zenon
  <2> QED
    BY <2>1, <2>2
<1>2. CASE op = "stop"
  <2>1. Clicked(op, due) = Free(enr, "STOPPED", "none")
    BY <1>2 DEF Clicked
  <2>2. /\ Free(enr, "STOPPED", "none") \in Rows
        /\ Free(enr, "STOPPED", "none").token = NoRun
        /\ Free(enr, "STOPPED", "none").step = enr.step
    BY <1>0, FreeRow
  <2> QED
    BY <2>1, <2>2
<1>3. CASE op = "retry"
  <2>1. Clicked(op, due) = [Free(enr, "ACTIVE", "now") EXCEPT !.retry = 0]
    BY <1>3 DEF Clicked
  <2>2. /\ Free(enr, "ACTIVE", "now") \in Rows
        /\ Free(enr, "ACTIVE", "now").token = NoRun
        /\ Free(enr, "ACTIVE", "now").step = enr.step
    BY <1>0, FreeRow
  <2> QED
    BY <2>1, <2>2, RetryRow
<1>4. CASE op = "resume"
  <2>1. PICK d \in Dues : Clicked(op, due) = [enr EXCEPT !.status = "ACTIVE", !.due = d]
    BY <1>0, <1>4 DEF Clicked
  <2>2. [enr EXCEPT !.status = "ACTIVE", !.due = d] \in Rows
    BY <1>0, <2>1 DEF Rows
  <2>3. /\ [enr EXCEPT !.status = "ACTIVE", !.due = d].step = enr.step
        /\ [enr EXCEPT !.status = "ACTIVE", !.due = d].token = enr.token
        /\ [enr EXCEPT !.status = "ACTIVE", !.due = d].status = "ACTIVE"
    BY DEF Rows
  <2> QED
    BY <2>1, <2>2, <2>3
<1> QED
  BY <1>1, <1>2, <1>3, <1>4 DEF Ops

\* A claim marks the row with the run.
LEMMA ClaimRow ==
  ASSUME enr \in Rows, NEW w \in Runs,
         enr' = [enr EXCEPT !.status = "PROCESSING", !.token = w, !.stale = FALSE]
  PROVE  /\ enr' \in Rows /\ enr'.step = enr.step
         /\ enr'.status = "PROCESSING" /\ enr'.token = w
<1>0. "PROCESSING" \in Statuses
  BY DEF Statuses
<1>1. [enr EXCEPT !.status = "PROCESSING", !.token = w, !.stale = FALSE] \in Rows
  BY <1>0 DEF Rows
<1> QED
  BY <1>1 DEF Rows

\* The handlers free the row, or leave it alone.
LEMMA HookRow ==
  ASSUME enr \in Rows, OooHook \/ \E kind \in Hooks : StopHook(kind)
  PROVE  /\ enr' \in Rows /\ enr'.step = enr.step
         /\ \/ enr' = enr
            \/ /\ enr'.token = NoRun
               /\ \/ enr'.status = "STOPPED"
                  \/ enr.status = "ACTIVE" /\ enr'.status = "PAUSED"
<1>0. {"PAUSED", "STOPPED"} \subseteq Statuses /\ {"none", "later"} \subseteq Dues
  BY DEF Statuses, Dues
<1>1. CASE enr' = Free(enr, "STOPPED", "none")
  BY <1>0, <1>1, FreeRow
<1>2. CASE enr' = [Free(enr, "PAUSED", "later") EXCEPT !.ooo = TRUE] /\ enr.status = "ACTIVE"
  <2> DEFINE freed == Free(enr, "PAUSED", "later")
  <2>1. /\ freed \in Rows /\ freed.status = "PAUSED" /\ freed.token = NoRun
        /\ freed.step = enr.step
    BY <1>0, FreeRow
  <2>2. enr' = [freed EXCEPT !.ooo = TRUE]
    BY <1>2
  <2> HIDE DEF freed
  <2> QED
    BY <1>2, <2>1, <2>2 DEF Rows
<1> QED
  BY <1>1, <1>2 DEF OooHook, StopHook

\* The clock and the cron's own actions keep the step.
LEMMA ClockRow ==
  ASSUME enr \in Rows, Reclaim \/ ResumeOoo \/ Tick \/ Age
  PROVE  enr' \in Rows /\ enr'.step = enr.step
<1>0. /\ {"ACTIVE"} \subseteq Statuses /\ "now" \in Dues /\ enr.due \in Dues
  BY DEF Statuses, Dues, Rows
<1>1. CASE Reclaim
  BY <1>0, <1>1, FreeRow DEF Reclaim
<1>2. CASE ResumeOoo
  <2>1. [enr EXCEPT !.status = "ACTIVE", !.ooo = FALSE] \in Rows
    BY <1>0 DEF Rows
  <2> QED
    BY <1>2, <2>1 DEF ResumeOoo, Rows
<1>3. CASE Tick \/ Age
  BY <1>0, <1>3 DEF Tick, Age, Rows
<1> QED
  BY <1>1, <1>2, <1>3

-----------------------------------------------------------------------------
(* Type correctness *)

\* A run that is about to write knows what, and one that may send has a message.
PlansMade ==
  \A w \in Runs :
    /\ At(w, "write") => run[w].plan # "none"
    /\ run[w].at \in {"limit", "prior"} => run[w].step \in EmailSteps
TypeInv == TypeOK /\ CallsHaveKeys /\ PlansMade

\* What the proofs take from the types.
LEMMA TypeInvFacts ==
  ASSUME TypeInv
  PROVE  /\ enr \in Rows /\ run \in [Runs -> RunStates] /\ flow \in Flows /\ SendInv
         /\ \A w \in Runs : run[w].step \in Steps /\ run[w].plan \in Plans /\ run[w].retry \in Nat
BY DEF TypeInv, TypeOK, SendInv, RunStates

\* A step of one run that moves it on, without a plan or with one.
LEMMA MoveKeepsPlans ==
  ASSUME PlansMade, NEW w \in Runs, \A x \in Runs \ {w} : run'[x] = run[x],
         run'[w].at = "write" => run'[w].plan # "none",
         run'[w].at \in {"limit", "prior"} => run'[w].step \in EmailSteps
  PROVE  PlansMade'
BY DEF PlansMade, At

\* The reading half of executeClaimed: the run moves, the row stays.
LEMMA ReadingMoves ==
  ASSUME TypeInv, NEW w \in Runs,
         Check(w) \/ Limit(w) \/ Prior(w) \/ Answered(w) \/ Log(w) \/ Throw(w)
  PROVE  /\ \/ \E pc \in Pcs \ {"idle", "load", "write"} :
                  Goto(w, pc) /\ (pc \in {"limit", "prior"} => run[w].step \in EmailSteps)
            \/ \E plan \in Plans \ {"none"} : Plan(w, plan)
         /\ UNCHANGED enr
<1>1. /\ {"limit", "prior", "sending", "record", "recover", "log", "retryRead",
          "outerRead"} \subseteq Pcs \ {"idle", "load", "write"}
      /\ {"Stop", "Complete", "Defer", "DeferLimit", "Skip", "Advance"} \subseteq Plans \ {"none"}
  BY DEF Pcs, Plans
<1> QED
  BY <1>1 DEF Check, Limit, Prior, Answered, Log, Throw, TypeInv, PlansMade, At

\* So the runs keep their types.
LEMMA ReadingKeepsRuns ==
  ASSUME TypeInv, NEW w \in Runs,
         \/ \E pc \in Pcs \ {"idle", "load", "write"} :
              Goto(w, pc) /\ (pc \in {"limit", "prior"} => run[w].step \in EmailSteps)
         \/ \E plan \in Plans \ {"none"} : Plan(w, plan)
  PROVE  run' \in [Runs -> RunStates] /\ PlansMade'
<1>1. CASE \E pc \in Pcs \ {"idle", "load", "write"} :
             Goto(w, pc) /\ (pc \in {"limit", "prior"} => run[w].step \in EmailSteps)
  BY <1>1, TypeInvFacts, GotoEffect, MoveKeepsPlans DEF TypeInv
<1>2. CASE \E plan \in Plans \ {"none"} : Plan(w, plan)
  BY <1>2, TypeInvFacts, PlanEffect, MoveKeepsPlans DEF TypeInv
<1> QED
  BY <1>1, <1>2

\* The types hold at first, and every step keeps them.
LEMMA TypeInvInit == Init => TypeInv
<1> SUFFICES ASSUME Init PROVE TypeInv
  OBVIOUS
<1>1. enr \in Rows
  <2>1. /\ "ACTIVE" \in Statuses /\ 1 \in Steps /\ {"now", "later"} \subseteq Dues
    BY ExecutorAssumption DEF Statuses, Steps, Dues
  <2> QED
    BY <2>1 DEF Init, Rows
<1>2. run \in [Runs -> RunStates] /\ \A w \in Runs : run[w] = Idle
  BY IdleRun DEF Init
<1>3. user \in [Users -> [op : Ops, due : Dues]]
  BY DEF Init, Ops, Dues
<1>4. Send!TypeOK /\ CallsHaveKeys
  BY DEF Init, Send!Init, Send!TypeOK, CallsHaveKeys, Send!Stages, Send!Answers
<1>5. done \subseteq Steps /\ news \subseteq News /\ hooks \subseteq Hooks
      /\ disturbed \in BOOLEAN /\ late \subseteq Runs
  BY DEF Init
<1>6. flow \in Flows /\ mishaps \in 0 .. MaxMishaps
  <2>1. 0 \in 0 .. MaxMishaps /\ "active" \in Flows
    BY ExecutorAssumption
  <2> QED
    BY <2>1 DEF Init
<1>7. PlansMade
  BY <1>2 DEF PlansMade, At, Idle
<1> QED
  BY <1>1, <1>2, <1>3, <1>4, <1>5, <1>6, <1>7 DEF TypeInv, TypeOK

\* The row after a step: a row, at the same step unless a run moved it on.
LEMMA RowStep ==
  ASSUME TypeInv, [Next]_vars
  PROVE  /\ enr' \in Rows
         /\ \/ enr'.step = enr.step
            \/ \E w \in Runs : /\ Write(w)
                             /\ run[w].plan \in {"Skip", "Advance"}
                             /\ LaterActive(run[w].step) # {}
                             /\ enr'.step = NextStep(run[w].step)
<1> USE TypeInvFacts
<1>1. ASSUME NEW w \in Runs, Write(w)
      PROVE  /\ enr' \in Rows
             /\ \/ enr'.step = enr.step
                \/ /\ run[w].plan \in {"Skip", "Advance"} /\ LaterActive(run[w].step) # {}
                   /\ enr'.step = NextStep(run[w].step)
  <2>1. run[w].plan \in Plans \ {"none"} /\ run[w].step \in Steps
    BY <1>1 DEF TypeInv, PlansMade, Write
  <2>2. enr' = enr \/ enr' = Planned(enr, run[w].plan, run[w].step)
    BY <1>1 DEF Write
  <2> HIDE TypeInvFacts
  <2>3. enr \in Rows
    BY TypeInvFacts
  <2> QED
    BY <2>1, <2>2, <2>3, PlannedRow
<1>2. ASSUME NEW w \in Runs, RetryWrite(w) \/ OuterWrite(w)
      PROVE  enr' \in Rows /\ enr'.step = enr.step
  <2>1. enr' = enr \/ enr' = Retried(enr, run[w].retry)
    BY <1>2 DEF RetryWrite, OuterWrite
  <2> QED
    BY <2>1, RetriedRow
<1>3. ASSUME NEW w \in Runs, Claim(w)
      PROVE  enr' \in Rows /\ enr'.step = enr.step
  BY <1>3, ClaimRow DEF Claim
<1>4. ASSUME NEW w \in Runs,
             \/ Load(w) \/ Check(w) \/ Limit(w) \/ Prior(w) \/ Sending(w) \/ Answered(w)
             \/ Record(w) \/ Log(w) \/ RetryRead(w) \/ Throw(w) \/ Crash(w)
      PROVE  enr' = enr
  BY <1>4 DEF Load, Check, Limit, Prior, Sending, Answered, Record, Log, RetryRead, Throw,
              Crash
<1>5. ASSUME NEW u \in Users, Perform(u)
      PROVE  enr' \in Rows /\ enr'.step = enr.step
  <2>1. user[u].op \in Ops \ {"none"} /\ user[u].due \in Dues
    BY <1>5 DEF Perform, TypeInv, TypeOK
  <2>2. enr' = Clicked(user[u].op, user[u].due)
    BY <1>5 DEF Perform
  <2> QED
    BY <2>1, <2>2, ClickedRow
<1>6. CASE Reclaim \/ ResumeOoo \/ Clock
  BY <1>6, ClockRow DEF Clock
<1>7. CASE OooHook \/ \E kind \in Hooks : StopHook(kind)
  BY <1>7, HookRow
<1>8. CASE \/ \E u \in Users, op \in Ops : Click(u, op)
           \/ \E kind \in News : Receive(kind)
           \/ \E kind \in Hooks : DropHook(kind)
           \/ \E f \in Flows : SetFlow(f)
           \/ UNCHANGED vars
  BY <1>8 DEF Click, Receive, DropHook, SetFlow, vars
<1> HIDE TypeInvFacts
<1>9. ASSUME NEW w \in Runs, Claim(w) \/ RunStep(w) \/ Throw(w) \/ Crash(w), ~Write(w)
      PROVE  enr' \in Rows /\ enr'.step = enr.step
  BY <1>2, <1>3, <1>4, <1>9, TypeInvFacts DEF RunStep
<1>10. CASE \E w \in Runs : Claim(w) \/ RunStep(w) \/ Throw(w) \/ Crash(w)
  BY <1>1, <1>9, <1>10
<1>11. CASE Contact
  BY <1>7, <1>8, <1>11, TypeInvFacts DEF Contact
<1>12. CASE \E u \in Users : Perform(u) \/ \E op \in Ops : Click(u, op)
  BY <1>5, <1>8, <1>12, TypeInvFacts
<1> QED
  BY <1>6, <1>8, <1>10, <1>11, <1>12, TypeInvFacts DEF Next

\* The runs after a step.
LEMMA RunsStep ==
  ASSUME TypeInv, [Next]_vars
  PROVE  run' \in [Runs -> RunStates] /\ PlansMade'
<1> run \in [Runs -> RunStates] /\ enr \in Rows /\ flow \in Flows /\ PlansMade
  BY TypeInvFacts DEF TypeInv
<1>1. ASSUME NEW w \in Runs,
             Check(w) \/ Limit(w) \/ Prior(w) \/ Answered(w) \/ Log(w) \/ Throw(w)
      PROVE  run' \in [Runs -> RunStates] /\ PlansMade'
  BY <1>1, ReadingMoves, ReadingKeepsRuns
<1>2. ASSUME NEW w \in Runs, Record(w)
      PROVE  run' \in [Runs -> RunStates] /\ PlansMade'
  <2>1. "Advance" \in Plans \ {"none"}
    BY DEF Plans
  <2> QED
    BY <1>2, <2>1, ReadingKeepsRuns DEF Record
<1>3. ASSUME NEW w \in Runs, Load(w)
      PROVE  run' \in [Runs -> RunStates] /\ PlansMade'
  BY <1>3, LoadEffect, MoveKeepsPlans
<1>4. ASSUME NEW w \in Runs, RetryRead(w)
      PROVE  run' \in [Runs -> RunStates] /\ PlansMade'
  BY <1>4, RetryReadEffect, MoveKeepsPlans
<1>5. ASSUME NEW w \in Runs, run' = [run EXCEPT ![w] = Idle]
      PROVE  run' \in [Runs -> RunStates] /\ PlansMade'
  BY <1>5, EndEffect, MoveKeepsPlans
<1>6. ASSUME NEW w \in Runs, NEW pc \in {"load", "outerRead"}, Goto(w, pc)
      PROVE  run' \in [Runs -> RunStates] /\ PlansMade'
  <2>1. pc \in Pcs
    BY DEF Pcs
  <2> QED
    BY <1>6, <2>1, GotoEffect, MoveKeepsPlans
<1>7. ASSUME NEW w \in Runs,
             Claim(w) \/ Write(w) \/ RetryWrite(w) \/ OuterWrite(w) \/ Crash(w)
      PROVE  run' \in [Runs -> RunStates] /\ PlansMade'
  BY <1>5, <1>6, <1>7 DEF Claim, Write, RetryWrite, OuterWrite, Crash
<1>8. CASE UNCHANGED run
  BY <1>8 DEF PlansMade, At
<1>9. ASSUME NEW w \in Runs, Sending(w)
      PROVE  UNCHANGED run
  BY <1>9 DEF Sending
<1>10. CASE \/ \E u \in Users : Perform(u) \/ \E op \in Ops : Click(u, op)
            \/ Reclaim \/ ResumeOoo \/ Clock \/ \E f \in Flows : SetFlow(f)
            \/ UNCHANGED vars
  BY <1>8, <1>10 DEF Click, Perform, Reclaim, ResumeOoo, Clock, Tick, Age, SetFlow, vars
<1>11. CASE Contact
  BY <1>8, <1>11 DEF Contact, Receive, DropHook, StopHook, OooHook
<1> QED
  BY <1>1, <1>2, <1>3, <1>4, <1>7, <1>8, <1>9, <1>10, <1>11 DEF Next, RunStep

\* The messages after a step.
LEMMA MessagesStep ==
  ASSUME TypeInv, [Next]_vars
  PROVE  SendInv' /\ (UNCHANGED messages \/ \E w \in Runs : Sends(w))
<1>0. SendInv
  BY TypeInvFacts
<1>1. ASSUME NEW w \in Runs, Prior(w) \/ Sending(w) \/ Crash(w)
      PROVE  UNCHANGED messages \/ Sends(w)
  <2>1. CASE Prior(w)
    <3>1. run[w].step \in EmailSteps
      BY <2>1 DEF Prior, At, TypeInv, PlansMade
    <3>2. CASE Send!Begin(w, run[w].step)
      <4> DEFINE Starts(s) == Send!Begin(w, s)
      <4>1. Starts(run[w].step)
        BY <3>2
      <4> HIDE DEF Starts
      <4>2. \E s \in EmailSteps : Starts(s)
        BY <3>1, <4>1
      <4> QED
        BY <4>2 DEF Sends, Starts
    <3> QED
      BY <2>1, <3>2 DEF Prior
  <2> QED
    BY <1>1, <2>1 DEF Sending, Crash, Sends
<1>2. CASE UNCHANGED messages
  BY <1>0, <1>2 DEF messages, SendInv, Send!TypeOK, CallsHaveKeys
<1>3. ASSUME NEW w \in Runs,
             \/ Claim(w) \/ Load(w) \/ Check(w) \/ Limit(w) \/ Answered(w) \/ Record(w) \/ Log(w)
             \/ Write(w) \/ RetryRead(w) \/ RetryWrite(w) \/ OuterWrite(w) \/ Throw(w)
      PROVE  UNCHANGED messages
  BY <1>3 DEF Claim, Load, Check, Limit, Answered, Record, Log, Write, RetryRead, RetryWrite,
              OuterWrite, Throw
<1>4. ASSUME \/ \E u \in Users : Perform(u) \/ \E op \in Ops : Click(u, op)
             \/ Reclaim \/ ResumeOoo \/ Clock \/ \E f \in Flows : SetFlow(f)
             \/ UNCHANGED vars
      PROVE  UNCHANGED messages
  BY <1>4 DEF Click, Perform, Reclaim, ResumeOoo, Clock, Tick, Age, SetFlow, vars
<1>5. ASSUME Contact
      PROVE  UNCHANGED messages
  BY <1>5 DEF Contact, Receive, DropHook, StopHook, OooHook
<1>6. UNCHANGED messages \/ \E w \in Runs : Sends(w)
  BY <1>1, <1>3, <1>4, <1>5 DEF Next, RunStep
<1> QED
  BY <1>0, <1>2, <1>6, SendKeepsInv

\* What is left of the types: the users, the world outside and the bookkeeping.
LEMMA RestStep ==
  ASSUME TypeInv, [Next]_vars
  PROVE  /\ done' \subseteq Steps
         /\ user' \in [Users -> [op : Ops, due : Dues]]
         /\ flow' \in Flows /\ news' \subseteq News /\ hooks' \subseteq Hooks
         /\ mishaps' \in 0 .. MaxMishaps
         /\ disturbed' \in BOOLEAN /\ late' \subseteq Runs
<1> /\ done \subseteq Steps
    /\ user \in [Users -> [op : Ops, due : Dues]]
    /\ flow \in Flows /\ news \subseteq News /\ hooks \subseteq Hooks
    /\ mishaps \in 0 .. MaxMishaps
    /\ disturbed \in BOOLEAN /\ late \subseteq Runs
  BY DEF TypeInv, TypeOK
<1>1. ASSUME Mishap PROVE mishaps' \in 0 .. MaxMishaps
  <2>1. MaxMishaps \in Nat /\ mishaps \in Nat
    BY ExecutorAssumption
  <2>2. mishaps < MaxMishaps /\ mishaps' = mishaps + 1
    BY <1>1 DEF Mishap
  <2> QED
    BY <2>1, <2>2
<1>2. ASSUME NEW w \in Runs, Record(w)
      PROVE  done' \subseteq Steps
  BY <1>2, TypeInvFacts DEF Record
<1>3. ASSUME NEW w \in Runs, Claim(w) \/ RunStep(w) \/ Throw(w) \/ Crash(w)
      PROVE  /\ done' \subseteq Steps /\ UNCHANGED <<user, flow, news, hooks>>
             /\ mishaps' = mishaps \/ Mishap
             /\ disturbed' \in BOOLEAN /\ late' \subseteq Runs
  <2>1. CASE \/ Load(w) \/ Check(w) \/ Limit(w) \/ Prior(w) \/ Sending(w) \/ Answered(w)
             \/ Log(w) \/ Write(w) \/ RetryRead(w) \/ RetryWrite(w) \/ Throw(w) \/ Crash(w)
    BY <2>1 DEF Load, Check, Limit, Prior, Sending, Answered, Log, Write, RetryRead, RetryWrite,
                Throw, Crash, outside, hist
  <2>2. CASE Claim(w)
    BY <2>2 DEF Claim, outside
  <2>3. CASE Record(w)
    BY <1>2, <2>3 DEF Record, outside, hist
  <2>4. CASE OuterWrite(w)
    BY <2>4 DEF OuterWrite, outside
  <2> QED
    BY <1>3, <2>1, <2>2, <2>3, <2>4 DEF RunStep
<1>4. ASSUME NEW u \in Users, NEW op \in Ops, Click(u, op)
      PROVE  /\ user' \in [Users -> [op : Ops, due : Dues]]
             /\ Mishap /\ UNCHANGED <<done, flow, news, hooks, disturbed, late>>
  <2>1. enr.due \in Dues
    BY TypeInvFacts DEF Rows
  <2> QED
    BY <1>4, <2>1 DEF Click, outside, hist
<1>5. ASSUME NEW u \in Users, Perform(u)
      PROVE  /\ user' \in [Users -> [op : Ops, due : Dues]]
             /\ disturbed' \in BOOLEAN /\ UNCHANGED <<done, flow, news, hooks, mishaps, late>>
  <2>1. "none" \in Ops /\ "none" \in Dues
    BY DEF Ops, Dues
  <2> QED
    BY <1>5, <2>1 DEF Perform, outside
<1>6. ASSUME NEW kind \in News, Receive(kind)
      PROVE  /\ news' \subseteq News /\ hooks' \subseteq Hooks
             /\ UNCHANGED <<done, user, flow, mishaps, disturbed, late>>
  BY <1>6 DEF Receive, hist
<1>7. ASSUME NEW kind \in Hooks, StopHook(kind) \/ DropHook(kind)
      PROVE  /\ hooks' \subseteq Hooks /\ (mishaps' = mishaps \/ Mishap)
             /\ UNCHANGED <<done, user, flow, news, disturbed, late>>
  BY <1>7 DEF StopHook, DropHook, hist
<1>8. CASE OooHook
  BY <1>8 DEF OooHook, hist
<1>9. CASE Reclaim
  BY <1>1, <1>9 DEF Reclaim, outside
<1>10. CASE ResumeOoo \/ Clock \/ \E f \in Flows : SetFlow(f)
  BY <1>10 DEF ResumeOoo, Clock, Tick, Age, SetFlow, outside, hist
<1>11. CASE UNCHANGED vars
  BY <1>11 DEF vars, outside, hist
<1>12. CASE Contact
  BY <1>1, <1>6, <1>7, <1>8, <1>12 DEF Contact
<1> QED
  BY <1>1, <1>3, <1>4, <1>5, <1>9, <1>10, <1>11, <1>12 DEF Next

\* Every step keeps the types.
LEMMA TypeInvNext == TypeInv /\ [Next]_vars => TypeInv'
BY RowStep, RunsStep, MessagesStep, RestStep DEF TypeInv, TypeOK, SendInv

\* The invariant the other proofs rest on.
THEOREM TypeInvAlways == Spec => []TypeInv
BY TypeInvInit, TypeInvNext, PTL DEF Spec

\* Every variable keeps its type: a plan moves the row to an active step of the
\* snapshot, and a message is sent for an e-mail step.
THEOREM TypeCorrect == Spec => []TypeOK
<1>1. TypeInv => TypeOK
  BY DEF TypeInv
<1> QED
  BY <1>1, TypeInvAlways, PTL

-----------------------------------------------------------------------------
(* One worker at a time *)

\* A row bears a token only while it is in service.
TokenInv == enr.token # NoRun => enr.status \in {"ACTIVE", "PROCESSING"}
\* Who works holds the claim, or was overtaken by a stop; and works alone.
Owned == \A w \in Runs : Working(w) => Holds(w) \/ enr.status = "STOPPED"
WorkInv == TokenInv /\ (disturbed \/ (Owned /\ OneWorker))

\* A step that leaves claim and status alone and puts nobody to work.
LEMMA QuietKeepsWork ==
  ASSUME WorkInv, disturbed' = disturbed,
         enr'.status = enr.status, enr'.token = enr.token,
         \A x \in Runs : Working(x)' => Working(x)
  PROVE  WorkInv'
BY DEF WorkInv, TokenInv, Owned, OneWorker, Holds

\* A step that stops the row and puts nobody to work.
LEMMA StopKeepsWork ==
  ASSUME WorkInv, disturbed' = disturbed,
         enr'.status = "STOPPED", enr'.token = NoRun,
         \A x \in Runs : Working(x)' => Working(x)
  PROVE  WorkInv'
BY DEF WorkInv, TokenInv, Owned, OneWorker, Holds

\* A step after which nobody works, or that is counted as a disturbance.
LEMMA RestKeepsWork ==
  ASSUME TokenInv', disturbed' \/ \A x \in Runs : ~Working(x)'
  PROVE  WorkInv'
BY DEF WorkInv, Owned, OneWorker

\* At first nobody works.
LEMMA WorkInvInit == Init => WorkInv
BY DEF Init, WorkInv, TokenInv, Owned, OneWorker, Working, Idle

\* The steps of a run that do not touch the row.
LEMMA MovesKeepWork ==
  ASSUME TypeInv, WorkInv, NEW w \in Runs,
         \/ Check(w) \/ Limit(w) \/ Prior(w) \/ Answered(w) \/ Log(w) \/ Throw(w)
         \/ Load(w) \/ RetryRead(w) \/ Record(w) \/ Sending(w) \/ Crash(w)
  PROVE  WorkInv'
<1> USE TypeInvFacts
<1>1. ASSUME NEW pc \in Pcs, Goto(w, pc), Working(w) \/ pc = "outerRead"
      PROVE  \A x \in Runs : Working(x)' => Working(x)
  BY <1>1, GotoEffect DEF Working
<1>2. ASSUME NEW plan \in Plans, Plan(w, plan), Working(w)
      PROVE  \A x \in Runs : Working(x)' => Working(x)
  BY <1>2, PlanEffect DEF Working
<1>3. CASE Check(w) \/ Limit(w) \/ Prior(w) \/ Answered(w) \/ Log(w) \/ Throw(w)
  <2>1. \/ \E pc \in Pcs : Goto(w, pc)
        \/ \E plan \in Plans : Plan(w, plan)
    BY <1>3, ReadingMoves
  <2>2. Working(w) /\ UNCHANGED <<enr, disturbed>>
    BY <1>3 DEF Check, Limit, Prior, Answered, Log, Throw, Working, At, hist
  <2> QED
    BY <1>1, <1>2, <2>1, <2>2, QuietKeepsWork
<1>4. CASE Record(w)
  <2>1. Working(w) /\ UNCHANGED <<enr, disturbed>> /\ Plan(w, "Advance") /\ "Advance" \in Plans
    BY <1>4 DEF Record, Working, hist, Plans
  <2> QED
    BY <1>2, <2>1, QuietKeepsWork
<1>5. CASE Load(w)
  <2>1. Working(w) /\ UNCHANGED <<enr, disturbed>>
    BY <1>5 DEF Load, Working, At, hist
  <2>2. \A x \in Runs \ {w} : run'[x] = run[x]
    BY <1>5, LoadEffect
  <2>3. \A x \in Runs : Working(x)' => Working(x)
    BY <2>1, <2>2 DEF Working
  <2> QED
    BY <2>1, <2>3, QuietKeepsWork
<1>6. CASE RetryRead(w)
  <2>1. UNCHANGED <<enr, disturbed>>
    BY <1>6 DEF RetryRead, hist
  <2>2. /\ \A x \in Runs \ {w} : run'[x] = run[x]
        /\ \/ run[w].at = "retryRead" /\ run'[w].at = "retryWrite"
           \/ run[w].at = "outerRead" /\ run'[w].at = "outerWrite"
    BY <1>6, RetryReadEffect DEF At
  <2>3. \A x \in Runs : Working(x)' => Working(x)
    BY <2>2 DEF Working
  <2> QED
    BY <2>1, <2>3, QuietKeepsWork
<1>7. CASE Sending(w)
  BY <1>7, QuietKeepsWork DEF Sending, Working, hist
<1>8. CASE Crash(w)
  <2>1. /\ \A x \in Runs \ {w} : run'[x] = run[x]
        /\ run'[w].at = "idle"
    BY <1>8, EndEffect DEF Crash
  <2>2. \A x \in Runs : Working(x)' => Working(x)
    BY <2>1 DEF Working
  <2> QED
    BY <1>8, <2>2, QuietKeepsWork DEF Crash, hist
<1> QED
  BY <1>3, <1>4, <1>5, <1>6, <1>7, <1>8

\* The last writes of a run: its own row goes free with nobody at work.
LEMMA WritesKeepWork ==
  ASSUME TypeInv, WorkInv, NEW w \in Runs, Write(w) \/ RetryWrite(w) \/ OuterWrite(w)
  PROVE  WorkInv'
<1>1. /\ \A x \in Runs \ {w} : run'[x] = run[x]
      /\ ~Working(w)'
  <2>1. CASE run' = [run EXCEPT ![w] = Idle]
    BY <2>1, TypeInvFacts, EndEffect DEF Working
  <2>2. CASE Goto(w, "outerRead")
    <3>1. "outerRead" \in Pcs
      BY DEF Pcs
    <3> QED
      BY <2>2, <3>1, TypeInvFacts, GotoEffect DEF Working
  <2> QED
    BY <2>1, <2>2 DEF Write, RetryWrite, OuterWrite
<1>2. \A x \in Runs : Working(x)' => Working(x)
  BY <1>1 DEF Working
<1>3. w # NoRun
  BY ExecutorAssumption
<1>4. CASE enr.token # w /\ ~OuterWrite(w)
  <2>1. enr' = enr /\ disturbed' = disturbed
    BY <1>4 DEF Write, RetryWrite, hist
  <2> QED
    BY <1>2, <2>1, QuietKeepsWork
<1>5. enr.token = w \/ OuterWrite(w) => enr'.token = NoRun
  <2>1. CASE Write(w)
    <3>1. run[w].plan \in Plans \ {"none"} /\ run[w].step \in Steps /\ enr \in Rows
      BY <2>1, TypeInvFacts DEF TypeInv, PlansMade, Write
    <3>2. CASE enr.token = w
      <4>1. enr' = Planned(enr, run[w].plan, run[w].step)
        BY <2>1, <3>2 DEF Write
      <4> QED
        BY <3>1, <4>1, PlannedRow
    <3>3. CASE OuterWrite(w)
      BY <2>1, <3>3 DEF Write, OuterWrite, At
    <3> QED
      BY <3>2, <3>3
  <2>2. CASE RetryWrite(w) \/ OuterWrite(w)
    <3>1. enr \in Rows /\ run[w].retry \in Nat
      BY TypeInvFacts
    <3>2. enr.token = w \/ OuterWrite(w) => enr' = Retried(enr, run[w].retry)
      BY <2>2 DEF RetryWrite, OuterWrite
    <3> QED
      BY <3>1, <3>2, RetriedRow
  <2> QED
    BY <2>1, <2>2
<1>6. CASE enr.token = w
  <2>1. disturbed => disturbed'
    BY DEF Write, RetryWrite, OuterWrite, hist
  <2>2. ~disturbed => \A x \in Runs : Working(x) => x = w
    BY <1>3, <1>6 DEF WorkInv, TokenInv, Owned, Holds
  <2>3. disturbed' \/ \A x \in Runs : ~Working(x)'
    BY <1>1, <1>2, <2>1, <2>2
  <2> QED
    BY <1>5, <1>6, <2>3, RestKeepsWork DEF TokenInv
<1>7. CASE enr.token # w /\ OuterWrite(w)
  BY <1>5, <1>7, RestKeepsWork DEF OuterWrite, TokenInv
<1> QED
  BY <1>4, <1>6, <1>7

\* A claim is taken when nobody works.
LEMMA ClaimKeepsWork ==
  ASSUME TypeInv, WorkInv, NEW w \in Runs, Claim(w)
  PROVE  WorkInv'
<1>1. enr'.status = "PROCESSING" /\ enr'.token = w
  BY TypeInvFacts, ClaimRow DEF Claim
<1>2. \A x \in Runs \ {w} : run'[x] = run[x]
  <2>1. "load" \in Pcs
    BY DEF Pcs
  <2> QED
    BY <2>1, TypeInvFacts, GotoEffect DEF Claim
<1>3. disturbed' = disturbed /\ enr.status = "ACTIVE"
  BY DEF Claim
<1>4. ~disturbed => \A x \in Runs : ~Working(x)
  BY <1>3 DEF WorkInv, Owned, Holds
<1>5. ~disturbed => \A x \in Runs : Working(x)' => x = w
  BY <1>2, <1>4 DEF Working
<1> QED
  BY <1>1, <1>3, <1>5 DEF WorkInv, TokenInv, Owned, OneWorker, Holds

\* A reclaim, a click or an out-of-office pause finds nobody at work, or disturbs.
LEMMA OthersKeepWork ==
  ASSUME TypeInv, WorkInv,
         \/ Reclaim \/ ResumeOoo \/ Clock \/ OooHook \/ \E kind \in Hooks : StopHook(kind)
         \/ \E u \in Users : Perform(u)
  PROVE  WorkInv'
<1>0. enr \in Rows
  BY TypeInvFacts
<1>1. UNCHANGED run
  BY DEF Reclaim, ResumeOoo, Clock, Tick, Age, OooHook, StopHook, Perform
<1>2. \A x \in Runs : Working(x)' => Working(x)
  BY <1>1 DEF Working
<1>3. CASE Clock
  <2>1. enr'.status = enr.status /\ enr'.token = enr.token /\ disturbed' = disturbed
    BY <1>0, <1>3 DEF Clock, Tick, Age, Rows, hist
  <2> QED
    BY <1>2, <2>1, QuietKeepsWork
<1>4. CASE Reclaim
  <2>1. enr'.token = NoRun
    <3>1. "ACTIVE" \in Statuses /\ enr.due \in Dues
      BY <1>0 DEF Statuses, Rows
    <3> QED
      BY <1>0, <1>4, <3>1, FreeRow DEF Reclaim
  <2>2. disturbed \/ HolderAlive => disturbed'
    BY <1>4 DEF Reclaim
  <2>3. ~disturbed /\ ~HolderAlive => \A x \in Runs : ~Working(x)
    BY <1>4 DEF Reclaim, WorkInv, Owned, Holds, HolderAlive, InFlight, At, Working
  <2> QED
    BY <1>2, <2>1, <2>2, <2>3, RestKeepsWork DEF TokenInv
<1>5. CASE ResumeOoo
  <2>1. enr.status = "PAUSED" /\ disturbed' = disturbed
    BY <1>5 DEF ResumeOoo, OooDue, hist
  <2>2. enr'.status = "ACTIVE"
    BY <1>0, <1>5 DEF ResumeOoo, Rows
  <2>3. ~disturbed => \A x \in Runs : ~Working(x)
    BY <2>1 DEF WorkInv, Owned, Holds
  <2> QED
    BY <1>2, <2>1, <2>2, <2>3, RestKeepsWork DEF TokenInv
<1>6. CASE OooHook \/ \E kind \in Hooks : StopHook(kind)
  <2>0. disturbed' = disturbed
    BY <1>6 DEF OooHook, StopHook, hist
  <2>1. CASE enr' = enr
    BY <1>2, <2>0, <2>1, QuietKeepsWork
  <2>2. CASE enr'.token = NoRun /\ enr'.status = "STOPPED"
    BY <1>2, <2>0, <2>2, StopKeepsWork
  <2>3. CASE enr'.token = NoRun /\ enr.status = "ACTIVE"
    <3>1. ~disturbed => \A x \in Runs : ~Working(x)
      BY <2>3 DEF WorkInv, Owned, Holds
    <3> QED
      BY <1>2, <2>0, <2>3, <3>1, RestKeepsWork DEF TokenInv
  <2> QED
    BY <1>0, <1>6, <2>1, <2>2, <2>3, HookRow
<1>7. CASE \E u \in Users : Perform(u)
  <2>1. PICK u \in Users : Perform(u)
    BY <1>7
  <2>2. user[u].op \in Ops \ {"none"} /\ user[u].due \in Dues
    BY <2>1 DEF Perform, TypeInv, TypeOK
  <2>3. enr'.token = NoRun \/ enr'.status = "ACTIVE"
    BY <1>0, <2>1, <2>2, ClickedRow DEF Perform
  <2>4. disturbed' \/ \A x \in Runs : ~Working(x)
    BY <2>1 DEF Perform, InFlight, At, Working
  <2> QED
    BY <1>2, <2>3, <2>4, RestKeepsWork DEF TokenInv
<1> QED
  BY <1>3, <1>4, <1>5, <1>6, <1>7

\* Every step keeps the one worker.
LEMMA WorkInvNext == TypeInv /\ WorkInv /\ [Next]_vars => WorkInv'
<1> SUFFICES ASSUME TypeInv, WorkInv, [Next]_vars PROVE WorkInv'
  OBVIOUS
<1>1. ASSUME NEW w \in Runs, Claim(w) \/ RunStep(w) \/ Throw(w) \/ Crash(w)
      PROVE  WorkInv'
  BY <1>1, MovesKeepWork, WritesKeepWork, ClaimKeepsWork DEF RunStep
<1>2. ASSUME UNCHANGED <<enr, run, disturbed>>
      PROVE  WorkInv'
  BY <1>2, QuietKeepsWork DEF Working
<1>3. CASE \/ \E u \in Users : \E op \in Ops : Click(u, op)
           \/ \E f \in Flows : SetFlow(f)
           \/ UNCHANGED vars
  BY <1>2, <1>3 DEF Click, SetFlow, vars, hist
<1>4. CASE Contact
  <2>1. CASE \/ \E kind \in News : Receive(kind)
             \/ \E kind \in Hooks : DropHook(kind)
    BY <1>2, <2>1 DEF Receive, DropHook, hist
  <2> QED
    BY <1>4, <2>1, OthersKeepWork DEF Contact
<1>5. CASE Reclaim \/ ResumeOoo \/ Clock \/ \E u \in Users : Perform(u)
  BY <1>5, OthersKeepWork
<1> QED
  BY <1>1, <1>3, <1>4, <1>5 DEF Next

\* Whoever else claims, dies or answers late: as long as nobody changes the row
\* of a run at work, one worker at most is between its claim and its last write.
THEOREM OneWorkerAlways == Spec => []OneWorker
<1>1. TypeInv /\ WorkInv => OneWorker
  BY DEF WorkInv, OneWorker
<1> QED
  BY <1>1, TypeInvAlways, WorkInvInit, WorkInvNext, PTL DEF Spec

-----------------------------------------------------------------------------
(* Steps in order *)

Before(s) == {t \in ActiveSteps \cap EmailSteps : t < s}
\* Where a run stands, its earlier e-mail steps are done; it skips none, and
\* passes over one that is done.
InOrder(state) ==
  /\ Before(state.step) \subseteq done
  /\ state.at = "write" /\ state.plan = "Skip" => state.step \notin EmailSteps
  /\ state.at = "write" /\ state.plan = "Advance" => state.step \in done
CallsInOrder == \A w \in Runs : call[w].at # "idle" => Before(call[w].key) \subseteq done
OrderInv ==
  /\ Before(enr.step) \subseteq done
  /\ \A w \in Runs : InOrder(run[w])
  /\ CallsInOrder
  /\ StepsInOrder

\* No step comes before the first.
LEMMA NothingBefore == Before(1) = {}
<1>1. ActiveSteps \subseteq Steps
  BY ExecutorAssumption
<1>2. \A t \in Steps : t \in Nat /\ t >= 1
  BY DEF Steps
<1>3. \A t \in ActiveSteps : ~(t < 1)
  BY <1>1, <1>2
<1> QED
  BY <1>3 DEF Before

\* At first nothing is done, and nothing has to be.
LEMMA OrderInvInit == Init => OrderInv
<1> SUFFICES ASSUME Init PROVE OrderInv
  OBVIOUS
<1>1. Before(enr.step) \subseteq done
  BY NothingBefore DEF Init
<1>2. \A w \in Runs : InOrder(run[w])
  BY NothingBefore DEF Init, InOrder, Idle
<1>3. CallsInOrder
  BY DEF Init, Send!Init, CallsInOrder
<1>4. StepsInOrder
  BY DEF Init, Send!Init, StepsInOrder, Mailed
<1> QED
  BY <1>1, <1>2, <1>3, <1>4 DEF OrderInv

\* A success is never taken back.
LEMMA DoneGrows ==
  ASSUME [Next]_vars
  PROVE  done \subseteq done'
<1>1. ASSUME NEW w \in Runs, Claim(w) \/ RunStep(w) \/ Throw(w) \/ Crash(w)
      PROVE  done \subseteq done'
  BY <1>1 DEF Claim, RunStep, Load, Check, Limit, Prior, Sending, Answered, Record, Log, Write,
              RetryRead, RetryWrite, OuterWrite, Throw, Crash
<1>2. ASSUME \/ \E u \in Users : Perform(u) \/ \E op \in Ops : Click(u, op)
             \/ Reclaim \/ ResumeOoo \/ Clock \/ \E f \in Flows : SetFlow(f)
             \/ UNCHANGED vars
      PROVE  done \subseteq done'
  BY <1>2 DEF Click, Perform, Reclaim, ResumeOoo, Clock, Tick, Age, SetFlow, vars
<1>3. ASSUME Contact
      PROVE  done \subseteq done'
  BY <1>3 DEF Contact, Receive, DropHook, StopHook, OooHook
<1> QED
  BY <1>1, <1>2, <1>3 DEF Next

\* The step after a step that needs no mail, or had its success, is in order.
LEMMA RowInOrder ==
  ASSUME TypeInv, OrderInv, [Next]_vars
  PROVE  Before(enr'.step) \subseteq done'
<1>1. CASE enr'.step = enr.step
  BY <1>1, DoneGrows DEF OrderInv
<1>2. ASSUME NEW w \in Runs, Write(w), run[w].plan \in {"Skip", "Advance"},
             LaterActive(run[w].step) # {}, enr'.step = NextStep(run[w].step)
      PROVE  Before(enr'.step) \subseteq done'
  <2> DEFINE s == run[w].step
  <2>1. s \in Steps /\ s \in Nat /\ ActiveSteps \subseteq Nat
    BY TypeInvFacts, ExecutorAssumption DEF Steps
  <2>2. \A t \in ActiveSteps : t < NextStep(s) => t <= s
    BY <1>2, <2>1, NextStepIsNext
  <2>3. Before(s) \subseteq done /\ (s \in EmailSteps => s \in done)
    BY <1>2 DEF OrderInv, InOrder, Write, At
  <2>4. enr'.step = NextStep(s)
    BY <1>2
  <2> HIDE DEF s
  <2>5. ASSUME NEW t \in ActiveSteps \cap EmailSteps, t < NextStep(s)
        PROVE  t \in done
    <3>1. t < s \/ t = s
      BY <2>1, <2>2, <2>5
    <3> QED
      BY <2>3, <2>5, <3>1 DEF Before
  <2> QED
    BY <2>4, <2>5, DoneGrows DEF Before
<1> QED
  BY <1>1, <1>2, RowStep

\* The runs stay in order.
LEMMA RunsInOrder ==
  ASSUME TypeInv, OrderInv, [Next]_vars
  PROVE  \A w \in Runs : InOrder(run[w])'
<1> USE TypeInvFacts
<1>0. /\ \A w \in Runs : InOrder(run[w])
      /\ Before(enr.step) \subseteq done
  BY DEF OrderInv
<1>1. ASSUME NEW w \in Runs, run'[w] = run[w]
      PROVE  InOrder(run[w])'
  BY <1>0, <1>1, DoneGrows DEF InOrder
<1>2. ASSUME NEW w \in Runs, run'[w] = Idle
      PROVE  InOrder(run[w])'
  BY <1>2, NothingBefore DEF InOrder, Idle
<1>3. ASSUME NEW w \in Runs, NEW pc \in Pcs \ {"write"}, Goto(w, pc)
      PROVE  InOrder(run[w])' /\ \A x \in Runs \ {w} : run'[x] = run[x]
  <2>1. /\ run'[w].at # "write" /\ run'[w].step = run[w].step
        /\ \A x \in Runs \ {w} : run'[x] = run[x]
    BY <1>3, GotoEffect
  <2> QED
    BY <1>0, <2>1, DoneGrows DEF InOrder
<1>4. ASSUME NEW w \in Runs, NEW plan \in Plans \ {"none"}, Plan(w, plan),
             plan = "Skip" => run[w].step \notin EmailSteps,
             plan = "Advance" => run[w].step \in done'
      PROVE  InOrder(run[w])' /\ \A x \in Runs \ {w} : run'[x] = run[x]
  <2>1. /\ run'[w].plan = plan /\ run'[w].step = run[w].step
        /\ \A x \in Runs \ {w} : run'[x] = run[x]
    BY <1>4, PlanEffect
  <2> QED
    BY <1>0, <1>4, <2>1, DoneGrows DEF InOrder
<1>5. ASSUME NEW w \in Runs,
             Check(w) \/ Limit(w) \/ Prior(w) \/ Answered(w) \/ Log(w) \/ Throw(w)
      PROVE  InOrder(run[w])' /\ \A x \in Runs \ {w} : run'[x] = run[x]
  <2>1. done' = done
    BY <1>5 DEF Check, Limit, Prior, Answered, Log, Throw
  <2>2. /\ {"limit", "prior", "sending", "record", "recover", "log", "retryRead",
            "outerRead"} \subseteq Pcs \ {"write"}
        /\ {"Stop", "Complete", "Defer", "DeferLimit", "Skip", "Advance"} \subseteq Plans \ {"none"}
    BY DEF Pcs, Plans
  <2>3. \/ \E pc \in Pcs \ {"write"} : Goto(w, pc)
        \/ \E plan \in Plans \ {"none"} :
             /\ Plan(w, plan)
             /\ plan = "Skip" => run[w].step \notin EmailSteps
             /\ plan = "Advance" => run[w].step \in done
    BY <1>5, <2>2 DEF Check, Limit, Prior, Answered, Log, Throw
  <2> QED
    BY <1>3, <1>4, <2>1, <2>3
<1>6. ASSUME NEW w \in Runs, Record(w)
      PROVE  InOrder(run[w])' /\ \A x \in Runs \ {w} : run'[x] = run[x]
  <2>1. "Advance" \in Plans \ {"none"} /\ run[w].step \in done' /\ Plan(w, "Advance")
    BY <1>6 DEF Record, Plans
  <2> QED
    BY <1>4, <2>1
<1>7. ASSUME NEW w \in Runs, Load(w)
      PROVE  InOrder(run[w])' /\ \A x \in Runs \ {w} : run'[x] = run[x]
  <2>1. CASE /\ run'[w].step = enr.step
             /\ \/ run'[w].at = "write" /\ run'[w].plan = "Defer"
                \/ run'[w].at = "check" /\ run'[w].plan = "none"
    BY <1>0, <1>7, <2>1, LoadEffect, DoneGrows DEF InOrder
  <2> QED
    BY <1>2, <1>7, <2>1, LoadEffect
<1>8. ASSUME NEW w \in Runs, RetryRead(w)
      PROVE  InOrder(run[w])' /\ \A x \in Runs \ {w} : run'[x] = run[x]
  <2>1. /\ run'[w].at # "write" /\ run'[w].step = run[w].step
        /\ \A x \in Runs \ {w} : run'[x] = run[x]
    BY <1>8, RetryReadEffect
  <2> QED
    BY <1>0, <2>1, DoneGrows DEF InOrder
<1>9. ASSUME NEW w \in Runs,
             Claim(w) \/ Write(w) \/ RetryWrite(w) \/ OuterWrite(w) \/ Crash(w)
      PROVE  InOrder(run[w])' /\ \A x \in Runs \ {w} : run'[x] = run[x]
  <2>1. {"load", "outerRead"} \subseteq Pcs \ {"write"}
    BY DEF Pcs
  <2>2. run' = [run EXCEPT ![w] = Idle] \/ Goto(w, "load") \/ Goto(w, "outerRead")
    BY <1>9 DEF Claim, Write, RetryWrite, OuterWrite, Crash
  <2> QED
    BY <1>2, <1>3, <2>1, <2>2, EndEffect
<1>10. ASSUME UNCHANGED run
       PROVE  \A w \in Runs : InOrder(run[w])'
  BY <1>1, <1>10
<1>11. ASSUME NEW w \in Runs, Sending(w)
       PROVE  UNCHANGED run
  BY <1>11 DEF Sending
<1>12. ASSUME \/ \E u \in Users : Perform(u) \/ \E op \in Ops : Click(u, op)
              \/ Reclaim \/ ResumeOoo \/ Clock \/ \E f \in Flows : SetFlow(f)
              \/ UNCHANGED vars
       PROVE  UNCHANGED run
  BY <1>12 DEF Click, Perform, Reclaim, ResumeOoo, Clock, Tick, Age, SetFlow, vars
<1>13. ASSUME Contact
       PROVE  UNCHANGED run
  BY <1>13 DEF Contact, Receive, DropHook, StopHook, OooHook
<1> HIDE TypeInvFacts
<1>14. ASSUME NEW w \in Runs, Claim(w) \/ RunStep(w) \/ Throw(w) \/ Crash(w)
       PROVE  UNCHANGED run \/ (InOrder(run[w])' /\ \A x \in Runs \ {w} : run'[x] = run[x])
  BY <1>5, <1>6, <1>7, <1>8, <1>9, <1>11, <1>14 DEF RunStep
<1> QED
  BY <1>1, <1>10, <1>12, <1>13, <1>14 DEF Next

\* A call begins for the run's step, and accepts the message it began with.
LEMMA MessagesInOrder ==
  ASSUME TypeInv, OrderInv, [Next]_vars
  PROVE  CallsInOrder' /\ StepsInOrder'
<1>0. /\ \A w \in Runs : InOrder(run[w])
      /\ CallsInOrder /\ StepsInOrder
      /\ call \in [Runs -> CallType] /\ accepted \in [EmailSteps -> Nat]
      /\ \A w \in Runs : call[w].at # "idle" => call[w].key \in EmailSteps
  BY TypeInvFacts DEF OrderInv, SendInv, CallsHaveKeys, Send!TypeOK, CallType
<1>1. CASE UNCHANGED messages
  BY <1>0, <1>1, DoneGrows DEF messages, CallsInOrder, StepsInOrder, Mailed
<1>2. ASSUME NEW w \in Runs, Sends(w),
             \A s \in EmailSteps : Send!Begin(w, s) => Before(s) \subseteq done
      PROVE  CallsInOrder' /\ StepsInOrder'
  <2>1. CallsInOrder'
    BY <1>0, <1>2, CallEffect, DoneGrows DEF CallsInOrder
  <2>2. CASE accepted' = accepted
    BY <1>0, <2>1, <2>2, DoneGrows DEF StepsInOrder, Mailed
  <2>3. CASE call[w].at # "idle" /\ accepted' = [accepted EXCEPT ![call[w].key] = @ + 1]
    <3>1. Before(call[w].key) \subseteq done
      BY <1>0, <2>3 DEF CallsInOrder
    <3>2. \A s \in EmailSteps \ {call[w].key} : accepted'[s] = accepted[s]
      BY <1>0, <2>3
    <3>3. ASSUME NEW s \in EmailSteps, accepted'[s] >= 1
          PROVE  Before(s) \subseteq done'
      <4>1. CASE s = call[w].key
        BY <3>1, <4>1, DoneGrows
      <4>2. CASE s # call[w].key
        BY <1>0, <3>2, <3>3, <4>2, DoneGrows DEF StepsInOrder, Mailed, Before
      <4> QED
        BY <4>1, <4>2
    <3> QED
      BY <2>1, <3>3 DEF StepsInOrder, Mailed, Before
  <2> QED
    BY <1>2, <2>1, <2>2, <2>3, CountEffect
<1>3. ASSUME NEW w \in Runs, Prior(w)
      PROVE  CallsInOrder' /\ StepsInOrder'
  <2>1. run[w].step \in EmailSteps /\ Before(run[w].step) \subseteq done
    BY <1>0, <1>3 DEF Prior, At, TypeInv, PlansMade, InOrder
  <2>2. CASE Send!Begin(w, run[w].step)
    <3>1. /\ accepted' = accepted
          /\ call' = [call EXCEPT ![w] = [at |-> "begun", key |-> run[w].step,
                                          knew |-> FALSE, got |-> "none"]]
      BY <2>2 DEF Send!Begin
    <3>2. call'[w].key = run[w].step /\ \A x \in Runs \ {w} : call'[x] = call[x]
      BY <1>0, <3>1
    <3> QED
      BY <1>0, <2>1, <3>1, <3>2, DoneGrows DEF CallsInOrder, StepsInOrder, Mailed
  <2> QED
    BY <1>1, <1>3, <2>2 DEF Prior
<1>4. ASSUME NEW w \in Runs, Send!Step(w) \/ Send!Die(w)
      PROVE  CallsInOrder' /\ StepsInOrder'
  <2>1. Sends(w) /\ call[w].at # "idle"
    BY <1>4 DEF Sends, Send!Step, Send!Look, Send!Refuse, Send!Reserve, Send!Decline,
         Send!Accept, Send!Record, Send!Finish, Send!Throw, Send!Fail, Send!GiveUp, Send!Die,
         Send!At
  <2>2. \A s \in EmailSteps : ~Send!Begin(w, s)
    BY <2>1 DEF Send!Begin, Send!At
  <2> QED
    BY <1>2, <2>1, <2>2
<1>5. ASSUME NEW w \in Runs, Sending(w) \/ Crash(w)
      PROVE  CallsInOrder' /\ StepsInOrder'
  BY <1>1, <1>4, <1>5 DEF Sending, Crash
<1>6. ASSUME NEW w \in Runs,
             \/ Claim(w) \/ Load(w) \/ Check(w) \/ Limit(w) \/ Answered(w) \/ Record(w) \/ Log(w)
             \/ Write(w) \/ RetryRead(w) \/ RetryWrite(w) \/ OuterWrite(w) \/ Throw(w)
      PROVE  UNCHANGED messages
  BY <1>6 DEF Claim, Load, Check, Limit, Answered, Record, Log, Write, RetryRead, RetryWrite,
              OuterWrite, Throw
<1>7. ASSUME \/ \E u \in Users : Perform(u) \/ \E op \in Ops : Click(u, op)
             \/ Reclaim \/ ResumeOoo \/ Clock \/ \E f \in Flows : SetFlow(f)
             \/ UNCHANGED vars
      PROVE  UNCHANGED messages
  BY <1>7 DEF Click, Perform, Reclaim, ResumeOoo, Clock, Tick, Age, SetFlow, vars
<1>8. ASSUME Contact
      PROVE  UNCHANGED messages
  BY <1>8 DEF Contact, Receive, DropHook, StopHook, OooHook
<1>9. UNCHANGED messages \/ \E w \in Runs : Prior(w) \/ Sending(w) \/ Crash(w)
  BY <1>6, <1>7, <1>8 DEF Next, RunStep
<1> QED
  BY <1>1, <1>3, <1>5, <1>9

\* Every step keeps the order.
LEMMA OrderInvNext == TypeInv /\ OrderInv /\ [Next]_vars => OrderInv'
BY RowInOrder, RunsInOrder, MessagesInOrder DEF OrderInv

\* Whatever overlaps, crashes, fails or is clicked: a message of a step is never
\* accepted before the earlier active e-mail steps have their SUCCESS execution.
THEOREM StepsInOrderAlways == Spec => []StepsInOrder
<1>1. OrderInv => StepsInOrder
  BY DEF OrderInv
<1> QED
  BY <1>1, TypeInvAlways, OrderInvInit, OrderInvNext, PTL DEF Spec

-----------------------------------------------------------------------------
(* Stop signals *)

Unsent == {"idle", "load", "check", "write", "outerRead", "outerWrite"}
Warned == Signalled \/ Suppressed
LateInv == SignalledNeverSends /\ (late # {} => Warned)

\* What is known of the contact stays known.
LEMMA NewsStay ==
  ASSUME [Next]_vars
  PROVE  news \subseteq news'
<1>1. ASSUME NEW w \in Runs, Claim(w) \/ RunStep(w) \/ Throw(w) \/ Crash(w)
      PROVE  news \subseteq news'
  BY <1>1 DEF Claim, RunStep, Load, Check, Limit, Prior, Sending, Answered, Record, Log, Write,
              RetryRead, RetryWrite, OuterWrite, Throw, Crash, outside
<1>2. ASSUME \/ \E u \in Users : Perform(u) \/ \E op \in Ops : Click(u, op)
             \/ Reclaim \/ ResumeOoo \/ Clock \/ \E f \in Flows : SetFlow(f)
             \/ UNCHANGED vars
      PROVE  news \subseteq news'
  BY <1>2 DEF Click, Perform, Reclaim, ResumeOoo, Clock, Tick, Age, SetFlow, vars, outside
<1>3. ASSUME Contact
      PROVE  news \subseteq news'
  BY <1>3 DEF Contact, Receive, DropHook, StopHook, OooHook
<1> QED
  BY <1>1, <1>2, <1>3 DEF Next

\* A step of a run is no step of another.
LEMMA OthersStay ==
  ASSUME TypeInv, NEW w \in Runs, Claim(w) \/ RunStep(w) \/ Throw(w) \/ Crash(w)
  PROVE  \A x \in Runs \ {w} : run'[x] = run[x]
<1> USE TypeInvFacts
<1>1. CASE Load(w) \/ RetryRead(w)
  BY <1>1, LoadEffect, RetryReadEffect
<1>2. ASSUME \/ \E pc \in Pcs : Goto(w, pc)
             \/ \E plan \in Plans : Plan(w, plan)
      PROVE  \A x \in Runs \ {w} : run'[x] = run[x]
  BY <1>2, GotoEffect, PlanEffect
<1>3. CASE Check(w) \/ Limit(w) \/ Prior(w) \/ Answered(w) \/ Log(w) \/ Throw(w)
  <2>1. \/ \E pc \in Pcs : Goto(w, pc)
        \/ \E plan \in Plans : Plan(w, plan)
    BY <1>3, ReadingMoves
  <2> QED
    BY <1>2, <2>1
<1>4. CASE Record(w)
  BY <1>2, <1>4 DEF Record, Plans
<1>5. CASE Sending(w)
  BY <1>5 DEF Sending
<1>6. CASE Claim(w) \/ Write(w) \/ RetryWrite(w) \/ OuterWrite(w) \/ Crash(w)
  <2>1. run' = [run EXCEPT ![w] = Idle] \/ Goto(w, "load") \/ Goto(w, "outerRead")
    BY <1>6 DEF Claim, Write, RetryWrite, OuterWrite, Crash
  <2>2. {"load", "outerRead"} \subseteq Pcs
    BY DEF Pcs
  <2> QED
    BY <2>1, <2>2, EndEffect, GotoEffect
<1> HIDE TypeInvFacts
<1> QED
  BY <1>1, <1>3, <1>4, <1>5, <1>6 DEF RunStep

\* A step of a run: a run that was late stays clear of the send.
LEMMA LateStaysClear ==
  ASSUME TypeInv, LateInv, NEW w \in late, w \in Runs,
         RunStep(w) \/ Throw(w) \/ Crash(w)
  PROVE  run'[w].at \in Unsent
<1>0. Warned /\ run[w].at \in Unsent
  BY DEF LateInv, SignalledNeverSends, Unsent
<1> USE TypeInvFacts
<1>1. CASE Load(w)
  BY <1>1, LoadEffect DEF Unsent
<1>2. CASE Check(w)
  <2>1. PICK plan \in {"Stop", "Complete", "Skip"} : Plan(w, plan)
    BY <1>0, <1>2 DEF Check, Warned, MustStop
  <2>2. plan \in Plans
    BY DEF Plans
  <2> QED
    BY <2>1, <2>2, PlanEffect DEF Unsent
<1>3. CASE RetryRead(w)
  BY <1>0, <1>3, RetryReadEffect DEF Unsent, At
<1>4. ASSUME run' = [run EXCEPT ![w] = Idle]
      PROVE  run'[w].at \in Unsent
  BY <1>4, EndEffect DEF Unsent
<1>5. ASSUME Goto(w, "outerRead")
      PROVE  run'[w].at \in Unsent
  <2>1. "outerRead" \in Pcs
    BY DEF Pcs
  <2> QED
    BY <1>5, <2>1, GotoEffect DEF Unsent
<1>6. CASE Write(w) \/ RetryWrite(w) \/ OuterWrite(w) \/ Crash(w)
  BY <1>4, <1>5, <1>6 DEF Write, RetryWrite, OuterWrite, Crash
<1>7. CASE Throw(w)
  BY <1>0, <1>5, <1>7 DEF Throw, At, Unsent
<1>8. CASE Limit(w) \/ Prior(w) \/ Sending(w) \/ Answered(w) \/ Record(w) \/ Log(w)
  BY <1>0, <1>8 DEF Limit, Prior, Sending, Answered, Record, Log, At, Unsent
<1> QED
  BY <1>1, <1>2, <1>3, <1>6, <1>7, <1>8 DEF RunStep

\* Every step keeps the late runs clear of the send.
LEMMA LateInvNext == TypeInv /\ LateInv /\ [Next]_vars => LateInv'
<1> SUFFICES ASSUME TypeInv, LateInv, [Next]_vars PROVE LateInv'
  OBVIOUS
<1>0. run \in [Runs -> RunStates] /\ late \subseteq Runs
  BY DEF TypeInv, TypeOK
<1>1. Warned => Warned'
  BY NewsStay DEF Warned, Signalled, Suppressed
<1>2. ASSUME UNCHANGED <<run, late>>
      PROVE  LateInv'
  BY <1>1, <1>2 DEF LateInv, SignalledNeverSends
<1>3. ASSUME NEW w \in Runs, RunStep(w) \/ Throw(w) \/ Crash(w)
      PROVE  late' = late
  BY <1>3 DEF RunStep, Load, Check, Limit, Prior, Sending, Answered, Record, Log, Write,
              RetryRead, RetryWrite, OuterWrite, Throw, Crash, hist
<1>4. ASSUME NEW w \in Runs, RunStep(w) \/ Throw(w) \/ Crash(w)
      PROVE  \A x \in Runs \ {w} : run'[x] = run[x]
  BY <1>4, OthersStay
<1>5. ASSUME NEW w \in Runs, RunStep(w) \/ Throw(w) \/ Crash(w)
      PROVE  LateInv'
  <2>1. late' = late /\ \A x \in Runs \ {w} : run'[x] = run[x]
    BY <1>3, <1>4, <1>5
  <2>2. \A x \in late : run[x].at \in Unsent
    BY DEF LateInv, SignalledNeverSends, Unsent
  <2>3. w \in late => run'[w].at \in Unsent
    BY <1>5, LateStaysClear
  <2>4. \A x \in late : run'[x].at \in Unsent
    BY <1>0, <2>1, <2>2, <2>3
  <2> QED
    BY <1>1, <2>1, <2>4 DEF LateInv, SignalledNeverSends, Unsent
<1>6. ASSUME NEW w \in Runs, Claim(w)
      PROVE  LateInv'
  <2>1. run'[w].at = "load" /\ \A x \in Runs \ {w} : run'[x] = run[x]
    <3>1. "load" \in Pcs
      BY DEF Pcs
    <3> QED
      BY <1>0, <1>6, <3>1, GotoEffect DEF Claim
  <2>2. /\ Warned => late' = late \cup {w}
        /\ ~Warned => late' = late \ {w}
    BY <1>6 DEF Claim, Warned
  <2>3. late' # {} => Warned
    BY <2>2 DEF LateInv
  <2>4. \A x \in late' : run'[x].at \in Unsent
    BY <1>0, <2>1, <2>2 DEF LateInv, SignalledNeverSends, Unsent
  <2> QED
    BY <1>1, <2>3, <2>4 DEF LateInv, SignalledNeverSends, Unsent
<1>7. CASE \/ \E u \in Users : Perform(u) \/ \E op \in Ops : Click(u, op)
           \/ Reclaim \/ ResumeOoo \/ Clock \/ \E f \in Flows : SetFlow(f)
           \/ UNCHANGED vars
  BY <1>2, <1>7 DEF Click, Perform, Reclaim, ResumeOoo, Clock, Tick, Age, SetFlow, vars, hist
<1>8. CASE Contact
  BY <1>2, <1>8 DEF Contact, Receive, DropHook, StopHook, OooHook, hist
<1> QED
  BY <1>5, <1>6, <1>7, <1>8 DEF Next

\* A run that claims after a reply, a meeting, an unsubscribe or a bounce was
\* recorded stays clear of the send, whatever became of the handlers, of retries
\* and of resumes: the stop conditions are looked up anew by every run.
THEOREM SignalledNeverSendsAlways == Spec => []SignalledNeverSends
<1>1. Init => LateInv
  BY DEF Init, LateInv, SignalledNeverSends
<1>2. LateInv => SignalledNeverSends
  BY DEF LateInv
<1> QED
  BY <1>1, <1>2, TypeInvAlways, LateInvNext, PTL DEF Spec

-----------------------------------------------------------------------------
(* One mail per step *)

\* A call under way is the send of its run.
CallsRun == \A w \in Runs :
  call[w].at # "idle" => run[w].at = "sending" /\ call[w].key = run[w].step
\* From the limit to the record a run is at an e-mail step.
Mailing == {"limit", "prior", "sending", "record", "recover"}
EmailRuns ==
  /\ \A w \in Runs : run[w].at \in Mailing => run[w].step \in EmailSteps
  /\ done \subseteq EmailSteps
\* A step recorded or answered as sent was accepted, whatever disturbed the run.
AcceptedInv ==
  /\ \A s \in EmailSteps : mail[s] = "SENT" => Mailed(s)
  /\ \A w \in Runs :
       /\ call[w].at \in {"accepted", "recorded"} => Mailed(call[w].key)
       /\ run[w].at = "sending" /\ call[w].got \in {"SENT", "RESUMED"} => Mailed(run[w].step)
       /\ run[w].at = "record" => Mailed(run[w].step)
SendingInv == CallsRun /\ EmailRuns /\ AcceptedInv

\* What a lone caller has seen of its message is still so.
CallMatches(w) ==
  /\ call[w].at = "looked" =>
       mail[call[w].key] # "SENT" /\ (call[w].knew <=> mail[call[w].key] # "NONE")
  /\ call[w].at = "reserved" => mail[call[w].key] = "SCHEDULED"
  /\ call[w].at = "failing" => call[w].key \in lost \/ mail[call[w].key] = "SCHEDULED"
\* An accepted mail is recorded, lost, or in the hands of its caller.
Tracked(s) ==
  \/ s \in lost
  \/ accepted[s] = 0
  \/ /\ accepted[s] = 1
     /\ mail[s] = "SENT" \/ \E w \in Runs : call[w].at = "accepted" /\ call[w].key = s
OnceInv == disturbed \/
  /\ \A w \in Runs : CallMatches(w) /\ call[w].got # "DUPLICATE" /\ run[w].at # "recover"
  /\ \A s \in EmailSteps : Tracked(s)
  /\ \A s \in done : Mailed(s)

\* The steps of a run that leave the messages alone.
Quiet(w) ==
  \/ Claim(w) \/ Load(w) \/ Check(w) \/ Limit(w) \/ Answered(w) \/ Record(w) \/ Log(w)
  \/ Write(w) \/ RetryRead(w) \/ RetryWrite(w) \/ OuterWrite(w) \/ Throw(w)
  \/ Prior(w) /\ run[w].step \in done
  \/ Crash(w) /\ call[w].at = "idle"

\* They take a run to the send's two sides only, and to no send.
LEMMA QuietMoves ==
  ASSUME TypeInv, CallsRun, EmailRuns, NEW w \in Runs, Quiet(w)
  PROVE  /\ UNCHANGED messages
         /\ call[w].at = "idle"
         /\ run'[w].at # "sending"
         /\ run'[w].at \in Mailing => run'[w].step \in EmailSteps
         /\ run'[w].at = "record" =>
              /\ run[w].at = "sending" /\ call[w].got \in {"SENT", "RESUMED"}
              /\ run'[w].step = run[w].step
         /\ run'[w].at = "recover" => call[w].got = "DUPLICATE"
<1> USE TypeInvFacts
<1>0. call[w].at # "idle" => run[w].at = "sending"
  BY DEF CallsRun
<1>1. UNCHANGED messages /\ call[w].at = "idle"
  <2>1. CASE Claim(w) \/ Load(w) \/ Check(w) \/ Limit(w) \/ Record(w) \/ Log(w) \/ Write(w)
             \/ RetryRead(w) \/ RetryWrite(w) \/ OuterWrite(w) \/ Throw(w)
    BY <1>0, <2>1 DEF Claim, Load, Check, Limit, Record, Log, Write, RetryRead, RetryWrite,
                      OuterWrite, Throw, At
  <2>2. CASE Answered(w) \/ (Prior(w) /\ run[w].step \in done)
             \/ (Crash(w) /\ call[w].at = "idle")
    BY <1>0, <2>2 DEF Answered, Prior, Crash, At
  <2> QED
    BY <2>1, <2>2 DEF Quiet
<1> DEFINE Clear == run'[w].at \notin Mailing
<1>2. ASSUME run' = [run EXCEPT ![w] = Idle]
      PROVE  Clear
  BY <1>2, EndEffect DEF Mailing
<1>3. ASSUME NEW plan \in Plans, Plan(w, plan)
      PROVE  Clear
  BY <1>3, PlanEffect DEF Mailing
<1>4. ASSUME NEW pc \in {"load", "log", "retryRead", "outerRead"}, Goto(w, pc)
      PROVE  Clear
  <2>1. pc \in Pcs
    BY DEF Pcs
  <2> QED
    BY <1>4, <2>1, GotoEffect DEF Mailing
<1>5. {"Stop", "Complete", "Defer", "DeferLimit", "Skip", "Advance"} \subseteq Plans
  BY DEF Plans
<1>6. CASE Claim(w) \/ Record(w) \/ Log(w) \/ Write(w) \/ RetryWrite(w) \/ OuterWrite(w)
           \/ Throw(w) \/ (Prior(w) /\ run[w].step \in done)
           \/ (Crash(w) /\ call[w].at = "idle")
  <2>1. Clear
    BY <1>2, <1>3, <1>4, <1>5, <1>6 DEF Claim, Record, Log, Write, RetryWrite, OuterWrite, Throw,
       Prior, Crash
  <2> QED
    BY <1>1, <2>1 DEF Mailing
<1>7. CASE Load(w) \/ RetryRead(w)
  <2>1. Clear
    BY <1>7, LoadEffect, RetryReadEffect DEF Mailing
  <2> QED
    BY <1>1, <2>1 DEF Mailing
<1>8. CASE Check(w)
  <2>1. CASE Goto(w, "limit") /\ run[w].step \in EmailSteps
    <3>1. "limit" \in Pcs
      BY DEF Pcs
    <3> QED
      BY <1>1, <2>1, <3>1, GotoEffect
  <2>2. CASE \E plan \in Plans : Plan(w, plan)
    BY <1>1, <1>3, <2>2 DEF Mailing
  <2> QED
    BY <1>5, <1>8, <2>1, <2>2 DEF Check
<1>9. CASE Limit(w)
  <2>1. CASE Goto(w, "prior")
    <3>1. "prior" \in Pcs /\ run[w].step \in EmailSteps
      BY <1>9 DEF Pcs, Limit, At, EmailRuns, Mailing
    <3> QED
      BY <1>1, <2>1, <3>1, GotoEffect
  <2>2. CASE \E plan \in Plans : Plan(w, plan)
    BY <1>1, <1>3, <2>2 DEF Mailing
  <2> QED
    BY <1>5, <1>9, <2>1, <2>2 DEF Limit
<1>10. CASE Answered(w)
  <2>0. run[w].at = "sending" /\ run[w].step \in EmailSteps
    BY <1>10 DEF Answered, At, EmailRuns, Mailing
  <2>1. CASE \/ Goto(w, "record") /\ call[w].got \in {"SENT", "RESUMED"}
             \/ Goto(w, "recover") /\ call[w].got = "DUPLICATE"
    <3>1. {"record", "recover"} \subseteq Pcs
      BY DEF Pcs
    <3> QED
      BY <1>1, <2>0, <2>1, <3>1, GotoEffect
  <2>2. CASE Goto(w, "log") \/ \E plan \in Plans : Plan(w, plan)
    BY <1>1, <1>3, <1>4, <2>2 DEF Mailing
  <2> QED
    BY <1>5, <1>10, <2>1, <2>2 DEF Answered
<1> HIDE TypeInvFacts
<1> QED
  BY <1>6, <1>7, <1>8, <1>9, <1>10 DEF Quiet

\* The steps of Next, as the messages see them.
LEMMA StepKinds ==
  ASSUME [Next]_vars
  PROVE  \/ UNCHANGED <<run, messages, done>>
         \/ \E w \in Runs : \/ Quiet(w)
                            \/ Prior(w) /\ run[w].step \notin done
                            \/ Sending(w)
                            \/ Crash(w) /\ call[w].at # "idle"
<1>1. ASSUME NEW w \in Runs, Claim(w) \/ RunStep(w) \/ Throw(w) \/ Crash(w)
      PROVE  \/ Quiet(w)
             \/ Prior(w) /\ run[w].step \notin done
             \/ Sending(w)
             \/ Crash(w) /\ call[w].at # "idle"
  BY <1>1 DEF RunStep, Quiet
<1>2. CASE \/ \E u \in Users : Perform(u) \/ \E op \in Ops : Click(u, op)
           \/ Reclaim \/ ResumeOoo \/ Clock \/ \E f \in Flows : SetFlow(f)
           \/ UNCHANGED vars
  BY <1>2 DEF Click, Perform, Reclaim, ResumeOoo, Clock, Tick, Age, SetFlow, vars
<1>3. CASE Contact
  BY <1>3 DEF Contact, Receive, DropHook, StopHook, OooHook
<1> QED
  BY <1>1, <1>2, <1>3 DEF Next

\* A send goes on as the call of its run, or ends.
LEMMA SendMoves ==
  ASSUME SendInv, NEW w \in Runs, Send!Step(w) \/ Send!Die(w)
  PROVE  /\ call[w].at # "idle"
         /\ \A x \in Runs \ {w} : call'[x] = call[x]
         /\ call'[w].at = "idle" \/ call'[w].key = call[w].key
<1>1. Sends(w) /\ call[w].at # "idle"
  BY DEF Sends, Send!Step, Send!Look, Send!Refuse, Send!Reserve, Send!Decline,
         Send!Accept, Send!Record, Send!Finish, Send!Throw, Send!Fail, Send!GiveUp, Send!Die,
         Send!At
<1>2. \A s \in EmailSteps : ~Send!Begin(w, s)
  BY <1>1 DEF Send!Begin, Send!At
<1>3. call \in [Runs -> CallType]
  BY DEF SendInv, Send!TypeOK, CallType
<1> QED
  BY <1>1, <1>2, <1>3, CallEffect

\* Its status says no more than the provider did, and neither does its answer.
LEMMA SendKeepsAccepted ==
  ASSUME SendInv, NEW w \in Runs, Send!Step(w) \/ Send!Die(w),
         \A s \in EmailSteps : mail[s] = "SENT" => Mailed(s),
         call[w].at \in {"accepted", "recorded"} => Mailed(call[w].key),
         call[w].got \in {"SENT", "RESUMED"} => Mailed(call[w].key)
  PROVE  /\ \A s \in EmailSteps : /\ mail'[s] = "SENT" => accepted'[s] >= 1
                                  /\ Mailed(s) => accepted'[s] >= 1
         /\ call'[w].at \in {"accepted", "recorded"} \/ call'[w].got \in {"SENT", "RESUMED"} =>
              accepted'[call[w].key] >= 1
<1> DEFINE k == call[w].key
<1>0. /\ mail \in [EmailSteps -> {"NONE", "SCHEDULED", "SENT", "FAILED"}]
      /\ accepted \in [EmailSteps -> Nat]
      /\ call \in [Runs -> CallType]
      /\ k \in EmailSteps
  BY SendMoves DEF SendInv, Send!TypeOK, CallType, CallsHaveKeys
<1>1. CASE Send!Look(w) \/ Send!Refuse(w) \/ Send!Finish(w) \/ Send!GiveUp(w) \/ Send!Die(w)
  <2>1. accepted' = accepted /\ mail' = mail
    BY <1>1 DEF Send!Look, Send!Refuse, Send!Finish, Send!GiveUp, Send!Die
  <2>2. /\ call'[w].at \notin {"accepted", "recorded"}
        /\ call'[w].got \in {"SENT", "RESUMED"} => Mailed(k)
    BY <1>0, <1>1 DEF Send!Look, Send!Refuse, Send!Finish, Send!GiveUp, Send!Die, Send!Return,
                      Send!GoOn, Send!At, Send!Key, CallType
  <2> QED
    BY <2>1, <2>2 DEF Mailed
<1>2. CASE Send!Reserve(w) \/ Send!Fail(w) \/ Send!Throw(w)
  <2>1. /\ accepted' = accepted
        /\ \A s \in EmailSteps : mail'[s] = "SENT" => mail[s] = "SENT"
    BY <1>0, <1>2 DEF Send!Reserve, Send!Fail, Send!Throw, Send!Key
  <2>2. call'[w].at \notin {"accepted", "recorded"} /\ call'[w].got = call[w].got
    BY <1>0, <1>2 DEF Send!Reserve, Send!Fail, Send!Throw, Send!Goto, CallType
  <2> QED
    BY <2>1, <2>2 DEF Mailed
<1>3. CASE Send!Decline(w)
  <2>1. accepted' = accepted /\ mail' = mail
    BY <1>3 DEF Send!Decline
  <2>2. /\ call'[w].at \notin {"accepted", "recorded"}
        /\ call'[w].got = "ERROR" \/ call'[w].got = call[w].got
    BY <1>0, <1>3 DEF Send!Decline, Send!Return, Send!Goto, CallType
  <2> QED
    BY <2>1, <2>2 DEF Mailed
<1>4. CASE Send!Accept(w)
  <2>1. mail' = mail /\ accepted' = [accepted EXCEPT ![k] = @ + 1]
    BY <1>4 DEF Send!Accept, Send!Key
  <2>2. /\ accepted'[k] = accepted[k] + 1
        /\ \A s \in EmailSteps \ {k} : accepted'[s] = accepted[s]
    BY <1>0, <2>1
  <2>3. accepted[k] \in Nat
    BY <1>0
  <2> HIDE DEF k
  <2>4. accepted'[k] >= 1
    BY <2>2, <2>3 DEF Mailed
  <2>5. \A s \in EmailSteps : Mailed(s) => accepted'[s] >= 1
    BY <2>2, <2>4 DEF Mailed
  <2> QED
    BY <2>1, <2>4, <2>5 DEF k
<1>5. CASE Send!Record(w)
  <2>1. /\ accepted' = accepted /\ Mailed(k)
        /\ mail' = [mail EXCEPT ![k] = "SENT"]
    BY <1>5 DEF Send!Record, Send!Key, Send!At
  <2>2. \A s \in EmailSteps : mail'[s] = "SENT" => mail[s] = "SENT" \/ s = k
    BY <1>0, <2>1
  <2> QED
    BY <2>1, <2>2 DEF Mailed
<1> QED
  BY <1>1, <1>2, <1>3, <1>4, <1>5 DEF Send!Step

\* A run that has not claimed anything sends nothing.
LEMMA SendingInvInit == Init => SendingInv
<1> SUFFICES ASSUME Init PROVE SendingInv
  OBVIOUS
<1>1. /\ \A w \in Runs : run[w].at = "idle" /\ call[w].at = "idle" /\ call[w].got = "none"
      /\ \A s \in EmailSteps : mail[s] = "NONE"
      /\ done = {}
  BY DEF Init, Idle, Send!Init
<1> QED
  BY <1>1 DEF SendingInv, CallsRun, EmailRuns, Mailing, AcceptedInv

\* Every step keeps the calls with their runs.
LEMMA SendingInvNext == TypeInv /\ SendingInv /\ [Next]_vars => SendingInv'
<1> SUFFICES ASSUME TypeInv, SendingInv, [Next]_vars PROVE SendingInv'
  OBVIOUS
<1>0. /\ CallsRun /\ EmailRuns /\ SendInv /\ run \in [Runs -> RunStates]
      /\ call \in [Runs -> CallType]
      /\ \A s \in EmailSteps : mail[s] = "SENT" => Mailed(s)
  BY TypeInvFacts DEF SendingInv, AcceptedInv, SendInv, Send!TypeOK, CallType
<1>1. CASE UNCHANGED <<run, messages, done>>
  BY <1>1 DEF SendingInv, CallsRun, EmailRuns, AcceptedInv, Mailed, messages
<1>2. ASSUME NEW w \in Runs, Quiet(w)
      PROVE  SendingInv'
  <2>1. \A x \in Runs \ {w} : run'[x] = run[x]
    BY <1>2, OthersStay DEF Quiet, RunStep
  <2>2. /\ UNCHANGED messages /\ call[w].at = "idle" /\ run'[w].at # "sending"
        /\ run'[w].at \in Mailing => run'[w].step \in EmailSteps
        /\ run'[w].at = "record" =>
             /\ run[w].at = "sending" /\ call[w].got \in {"SENT", "RESUMED"}
             /\ run'[w].step = run[w].step
    BY <1>0, <1>2, QuietMoves
  <2>3. done' \subseteq EmailSteps
    <3>1. CASE Record(w)
      BY <1>0, <3>1 DEF Record, EmailRuns, Mailing
    <3>2. CASE ~Record(w)
      BY <1>0, <1>2, <3>2 DEF Quiet, Claim, Load, Check, Limit, Prior, Answered, Log, Write,
         RetryRead, RetryWrite, OuterWrite, Throw, Crash, EmailRuns
    <3> QED
      BY <3>1, <3>2
  <2>4. CallsRun' /\ EmailRuns'
    BY <1>0, <2>1, <2>2, <2>3 DEF CallsRun, EmailRuns, messages
  <2>5. AcceptedInv'
    BY <2>1, <2>2 DEF SendingInv, AcceptedInv, Mailed, messages
  <2> QED
    BY <2>4, <2>5 DEF SendingInv
<1>3. ASSUME NEW w \in Runs, Prior(w), run[w].step \notin done
      PROVE  SendingInv'
  <2>0. /\ Goto(w, "sending") /\ Send!Begin(w, run[w].step) /\ done' = done
        /\ run[w].step \in EmailSteps /\ "sending" \in Pcs
    BY <1>0, <1>3 DEF Prior, At, EmailRuns, Mailing, Pcs
  <2>1. /\ \A x \in Runs \ {w} : run'[x] = run[x]
        /\ run'[w].at = "sending" /\ run'[w].step = run[w].step
    BY <1>0, <2>0, GotoEffect
  <2>2. /\ call' = [call EXCEPT ![w] = [at |-> "begun", key |-> run[w].step,
                                        knew |-> FALSE, got |-> "none"]]
        /\ mail' = mail /\ accepted' = accepted
    BY <2>0 DEF Send!Begin
  <2>3. /\ \A x \in Runs \ {w} : call'[x] = call[x]
        /\ call'[w].at = "begun" /\ call'[w].key = run[w].step /\ call'[w].got = "none"
    BY <1>0, <2>2
  <2>4. CallsRun' /\ EmailRuns'
    BY <1>0, <2>0, <2>1, <2>3 DEF CallsRun, EmailRuns
  <2>5. AcceptedInv'
    BY <2>1, <2>2, <2>3 DEF SendingInv, AcceptedInv, Mailed
  <2> QED
    BY <2>4, <2>5 DEF SendingInv
<1>4. ASSUME NEW w \in Runs, Send!Step(w) \/ Send!Die(w), done' = done,
             \/ UNCHANGED run
             \/ /\ run'[w].at = "idle" /\ call'[w].at = "idle"
                /\ \A x \in Runs \ {w} : run'[x] = run[x]
      PROVE  SendingInv'
  <2>0. run[w].at = "sending" /\ call[w].key = run[w].step
    BY <1>0, <1>4, SendMoves DEF CallsRun
  <2>1. /\ \A x \in Runs \ {w} : call'[x] = call[x]
        /\ call'[w].at = "idle" \/ call'[w].key = call[w].key
    BY <1>0, <1>4, SendMoves
  <2>2. /\ call[w].at \in {"accepted", "recorded"} => Mailed(call[w].key)
        /\ call[w].got \in {"SENT", "RESUMED"} => Mailed(call[w].key)
    BY <2>0 DEF SendingInv, AcceptedInv
  <2>3. /\ \A s \in EmailSteps : /\ mail'[s] = "SENT" => accepted'[s] >= 1
                                 /\ Mailed(s) => accepted'[s] >= 1
        /\ call'[w].at \in {"accepted", "recorded"} \/ call'[w].got \in {"SENT", "RESUMED"} =>
             accepted'[call[w].key] >= 1
    BY <1>0, <1>4, <2>2, SendKeepsAccepted
  <2>4. CallsRun' /\ EmailRuns'
    BY <1>0, <1>4, <2>0, <2>1 DEF CallsRun, EmailRuns, Mailing
  <2>5. ASSUME NEW x \in Runs \ {w}
        PROVE  /\ call'[x].at \in {"accepted", "recorded"} => accepted'[call'[x].key] >= 1
               /\ run'[x].at = "sending" /\ call'[x].got \in {"SENT", "RESUMED"} =>
                    accepted'[run'[x].step] >= 1
               /\ run'[x].at = "record" => accepted'[run'[x].step] >= 1
    <3>1. run'[x] = run[x] /\ call'[x] = call[x]
      BY <1>4, <2>1
    <3>2. /\ call[x].at \in {"accepted", "recorded"} => call[x].key \in EmailSteps
          /\ run[x].at \in {"sending", "record"} => run[x].step \in EmailSteps
      BY <1>0 DEF CallsRun, EmailRuns, Mailing
    <3> QED
      BY <2>3, <3>1, <3>2 DEF SendingInv, AcceptedInv, Mailed
  <2>6. /\ call'[w].at \in {"accepted", "recorded"} => accepted'[call'[w].key] >= 1
        /\ run'[w].at = "sending" /\ call'[w].got \in {"SENT", "RESUMED"} =>
             accepted'[run'[w].step] >= 1
        /\ run'[w].at # "record"
    BY <1>4, <2>0, <2>1, <2>3 DEF Mailed
  <2>7. AcceptedInv'
    BY <2>3, <2>5, <2>6 DEF AcceptedInv, Mailed
  <2> QED
    BY <2>4, <2>7 DEF SendingInv
<1>5. ASSUME NEW w \in Runs, Sending(w)
      PROVE  SendingInv'
  BY <1>4, <1>5 DEF Sending
<1>6. ASSUME NEW w \in Runs, Crash(w), call[w].at # "idle"
      PROVE  SendingInv'
  <2>1. Send!Die(w) /\ done' = done
    BY <1>6 DEF Crash
  <2>2. /\ run'[w].at = "idle"
        /\ \A x \in Runs \ {w} : run'[x] = run[x]
    BY <1>0, <1>6, EndEffect DEF Crash
  <2>3. call'[w].at = "idle"
    BY <1>0, <2>1 DEF Send!Die, Send!Return
  <2> QED
    BY <1>4, <2>1, <2>2, <2>3
<1> QED
  BY <1>1, <1>2, <1>3, <1>5, <1>6, StepKinds

\* What a lone send does: it marks the message before it sends, sends a message
\* that no record speaks of, and does not leave it without one unless it is lost.
LEMMA LoneSend ==
  ASSUME SendInv, NEW w \in Runs, Send!Step(w) \/ Send!Die(w),
         \A x \in Runs \ {w} : call[x].at = "idle",
         CallMatches(w), call[w].got # "DUPLICATE", \A s \in EmailSteps : Tracked(s)
  PROVE  /\ CallMatches(w)' /\ call'[w].got # "DUPLICATE"
         /\ \A s \in EmailSteps : Tracked(s)'
<1> PICK k \in EmailSteps : k = call[w].key
  BY SendMoves DEF SendInv, CallsHaveKeys
<1>0. /\ mail \in [EmailSteps -> {"NONE", "SCHEDULED", "SENT", "FAILED"}]
      /\ accepted \in [EmailSteps -> Nat]
      /\ call \in [Runs -> CallType]
      /\ call[w].at # "idle"
  BY SendMoves DEF SendInv, Send!TypeOK, CallType
\* The three ways a message is settled, from the one before.
<1>1. ASSUME NEW s \in EmailSteps, s # k,
             lost \subseteq lost', accepted'[s] = accepted[s], mail'[s] = mail[s]
      PROVE  Tracked(s)'
  BY <1>1 DEF Tracked
<1>2. ASSUME \A s \in EmailSteps \ {k} : accepted'[s] = accepted[s] /\ mail'[s] = mail[s],
             lost \subseteq lost', Tracked(k)'
      PROVE  \A s \in EmailSteps : Tracked(s)'
  BY <1>1, <1>2
<1>3. call[w].at # "accepted" =>
        k \in lost \/ accepted[k] = 0 \/ (accepted[k] = 1 /\ mail[k] = "SENT")
  BY <1>0 DEF Tracked
<1>4. CASE Send!Look(w) \/ Send!Refuse(w) \/ Send!Finish(w) \/ Send!GiveUp(w) \/ Send!Decline(w)
  <2>1. accepted' = accepted /\ mail' = mail /\ lost' = lost /\ call[w].at # "accepted"
    BY <1>4 DEF Send!Look, Send!Refuse, Send!Finish, Send!GiveUp, Send!Decline, Send!At
  <2>2. Tracked(k)'
    BY <1>3, <2>1 DEF Tracked
  <2>3. CallMatches(w)' /\ call'[w].got # "DUPLICATE"
    <3>1. CASE Send!Look(w)
      <4>1. CASE Send!Return(w, "RESUMED")
        BY <1>0, <4>1 DEF Send!Return, CallMatches, CallType
      <4>2. CASE mail[k] # "SENT" /\ Send!GoOn(w)
        <5>1. /\ call'[w].key = k /\ call'[w].knew = (mail[k] # "NONE")
              /\ call'[w].at = "looked" /\ call'[w].got = call[w].got
          BY <1>0, <4>2 DEF Send!GoOn, Send!Key, CallType
        <5> QED
          BY <2>1, <4>2, <5>1 DEF CallMatches
      <4> QED
        BY <3>1, <4>1, <4>2 DEF Send!Look, Send!Key
    <3>2. CASE Send!Refuse(w)
      BY <1>0, <2>1, <3>2 DEF Send!Refuse, Send!Return, Send!Key, Send!At, CallMatches, CallType
    <3>3. CASE Send!Finish(w) \/ Send!GiveUp(w)
      BY <1>0, <2>1, <3>3 DEF Send!Finish, Send!GiveUp, Send!Return, CallMatches, CallType
    <3>4. CASE Send!Decline(w)
      BY <1>0, <2>1, <3>4 DEF Send!Decline, Send!Return, Send!Goto, Send!At, CallMatches, CallType
    <3> QED
      BY <1>4, <3>1, <3>2, <3>3, <3>4
  <2> QED
    BY <1>2, <2>1, <2>2, <2>3
<1>5. CASE Send!Reserve(w) \/ Send!Fail(w)
  <2>1. /\ accepted' = accepted /\ lost' = lost
        /\ \A s \in EmailSteps \ {k} : mail'[s] = mail[s]
        /\ Send!Reserve(w) => mail'[k] = "SCHEDULED"
    BY <1>0, <1>5 DEF Send!Reserve, Send!Fail, Send!Key
  <2>2. k \in lost \/ accepted[k] = 0
    <3>1. call[w].at # "accepted" /\ (mail[k] # "SENT" \/ k \in lost)
      BY <1>5 DEF Send!Reserve, Send!Fail, Send!At, CallMatches
    <3> QED
      BY <1>3, <3>1
  <2>3. Tracked(k)'
    BY <2>1, <2>2 DEF Tracked
  <2>4. CallMatches(w)' /\ call'[w].got # "DUPLICATE"
    BY <1>0, <1>5, <2>1 DEF Send!Reserve, Send!Fail, Send!Goto, CallMatches, CallType
  <2> QED
    BY <1>2, <2>1, <2>3, <2>4
<1>6. CASE Send!Accept(w)
  <2>1. /\ mail' = mail /\ lost \subseteq lost'
        /\ accepted' = [accepted EXCEPT ![k] = @ + 1]
        /\ call[w].at = "reserved" /\ mail[k] = "SCHEDULED"
    BY <1>6 DEF Send!Accept, Send!Key, Send!At, CallMatches
  <2>2. accepted'[k] = accepted[k] + 1 /\ \A s \in EmailSteps \ {k} : accepted'[s] = accepted[s]
    BY <1>0, <2>1
  <2>3. k \in lost \/ accepted'[k] = 1
    BY <1>0, <1>3, <2>1, <2>2
  <2>4. \/ call' = [call EXCEPT ![w].at = "accepted"]
        \/ k \in lost' /\ call' = [call EXCEPT ![w].at = "failing"]
    BY <1>6 DEF Send!Accept, Send!Goto, Send!Key
  <2>5. /\ call'[w].key = k /\ call'[w].got = call[w].got
        /\ call'[w].at = "accepted" \/ (k \in lost' /\ call'[w].at = "failing")
    BY <1>0, <2>4 DEF CallType
  <2>6. Tracked(k)'
    BY <2>1, <2>3, <2>5 DEF Tracked
  <2>7. CallMatches(w)' /\ call'[w].got # "DUPLICATE"
    BY <2>5 DEF CallMatches
  <2> QED
    BY <1>2, <2>1, <2>2, <2>6, <2>7
<1>7. CASE Send!Record(w)
  <2>1. /\ accepted' = accepted /\ lost' = lost
        /\ mail'[k] = "SENT" /\ \A s \in EmailSteps \ {k} : mail'[s] = mail[s]
    BY <1>0, <1>7 DEF Send!Record, Send!Key
  <2>2. Tracked(k)'
    BY <1>0, <2>1 DEF Tracked
  <2>3. CallMatches(w)' /\ call'[w].got # "DUPLICATE"
    BY <1>0, <1>7 DEF Send!Record, Send!Goto, CallMatches, CallType
  <2> QED
    BY <1>2, <2>1, <2>2, <2>3
<1>8. CASE Send!Throw(w)
  <2>1. accepted' = accepted /\ mail' = mail /\ lost' = lost \cup {k}
    BY <1>8 DEF Send!Throw, Send!Key
  <2>2. Tracked(k)'
    BY <2>1 DEF Tracked
  <2>3. CallMatches(w)' /\ call'[w].got # "DUPLICATE"
    BY <1>0, <1>8, <2>1 DEF Send!Throw, Send!Goto, CallMatches, CallType
  <2> QED
    BY <1>2, <2>1, <2>2, <2>3
<1>9. CASE Send!Die(w)
  <2>1. /\ accepted' = accepted /\ mail' = mail /\ lost \subseteq lost'
        /\ call[w].at = "accepted" => k \in lost'
    BY <1>9 DEF Send!Die, Send!Key, Send!At
  <2>2. Tracked(k)'
    BY <1>3, <2>1 DEF Tracked
  <2>3. CallMatches(w)' /\ call'[w].got # "DUPLICATE"
    BY <1>0, <1>9 DEF Send!Die, Send!Return, CallMatches, CallType
  <2> QED
    BY <1>2, <2>1, <2>2, <2>3
<1> QED
  BY <1>4, <1>5, <1>6, <1>7, <1>8, <1>9 DEF Send!Step

\* A disturbance is not forgotten.
LEMMA DisturbedStays ==
  ASSUME [Next]_vars, disturbed
  PROVE  disturbed'
<1>1. ASSUME NEW w \in Runs, Claim(w) \/ RunStep(w) \/ Throw(w) \/ Crash(w)
      PROVE  disturbed'
  BY <1>1 DEF Claim, RunStep, Load, Check, Limit, Prior, Sending, Answered, Record, Log, Write,
              RetryRead, RetryWrite, OuterWrite, Throw, Crash, hist
<1>2. ASSUME \/ \E u \in Users : Perform(u) \/ \E op \in Ops : Click(u, op)
             \/ Reclaim \/ ResumeOoo \/ Clock \/ \E f \in Flows : SetFlow(f)
             \/ UNCHANGED vars
      PROVE  disturbed'
  BY <1>2 DEF Click, Perform, Reclaim, ResumeOoo, Clock, Tick, Age, SetFlow, vars, hist
<1>3. ASSUME Contact
      PROVE  disturbed'
  BY <1>3 DEF Contact, Receive, DropHook, StopHook, OooHook, hist
<1> QED
  BY <1>1, <1>2, <1>3 DEF Next

\* At first nothing is accepted.
LEMMA OnceInvInit == Init => OnceInv
<1> SUFFICES ASSUME Init PROVE OnceInv
  OBVIOUS
<1>1. /\ \A w \in Runs : run[w].at = "idle" /\ call[w].at = "idle" /\ call[w].got = "none"
      /\ \A s \in EmailSteps : accepted[s] = 0
      /\ done = {}
  BY DEF Init, Idle, Send!Init
<1> QED
  BY <1>1 DEF OnceInv, CallMatches, Tracked

\* An undisturbed run is the only one to send, so that nothing comes between
\* what its call has seen of the message and what it does.
LEMMA LoneCaller ==
  ASSUME CallsRun, WorkInv, ~disturbed, NEW w \in Runs, call[w].at # "idle"
  PROVE  \A x \in Runs \ {w} : call[x].at = "idle"
<1>1. ASSUME NEW x \in Runs, call[x].at # "idle"
      PROVE  Working(x)
  BY <1>1 DEF CallsRun, Working
<1>2. OneWorker
  BY DEF WorkInv
<1> QED
  BY <1>1, <1>2 DEF OneWorker

\* Every step keeps the messages with their records.
LEMMA OnceInvNext ==
  ASSUME TypeInv, SendingInv, WorkInv, OnceInv, [Next]_vars
  PROVE  OnceInv'
<1> SUFFICES ASSUME ~disturbed' PROVE OnceInv'
  BY DEF OnceInv
<1>0. /\ ~disturbed
      /\ \A w \in Runs : CallMatches(w) /\ call[w].got # "DUPLICATE" /\ run[w].at # "recover"
      /\ \A s \in EmailSteps : Tracked(s)
      /\ \A s \in done : Mailed(s)
  BY DisturbedStays DEF OnceInv
<1>1. /\ CallsRun /\ EmailRuns /\ SendInv /\ run \in [Runs -> RunStates]
      /\ call \in [Runs -> CallType]
      /\ \A s \in EmailSteps : mail[s] = "SENT" => Mailed(s)
  BY TypeInvFacts DEF SendingInv, AcceptedInv, SendInv, Send!TypeOK, CallType
<1>2. CASE UNCHANGED <<run, messages, done>>
  BY <1>0, <1>2 DEF OnceInv, CallMatches, Tracked, Mailed, messages
<1>3. ASSUME NEW w \in Runs, Quiet(w)
      PROVE  OnceInv'
  <2>1. \A x \in Runs \ {w} : run'[x] = run[x]
    BY <1>3, OthersStay DEF Quiet, RunStep
  <2>2. UNCHANGED messages /\ run'[w].at # "recover"
    BY <1>0, <1>1, <1>3, QuietMoves
  <2>3. \A s \in done' : Mailed(s)
    <3>1. CASE Record(w)
      <4>1. run[w].at = "record" /\ done' = done \cup {run[w].step}
        BY <1>0, <3>1 DEF Record
      <4>2. Mailed(run[w].step)
        BY <4>1 DEF SendingInv, AcceptedInv
      <4> QED
        BY <1>0, <4>1, <4>2
    <3>2. CASE ~Record(w)
      BY <1>0, <1>3, <3>2 DEF Quiet, Claim, Load, Check, Limit, Prior, Answered, Log, Write,
         RetryRead, RetryWrite, OuterWrite, Throw, Crash
    <3> QED
      BY <3>1, <3>2
  <2> QED
    BY <1>0, <2>1, <2>2, <2>3 DEF OnceInv, CallMatches, Tracked, Mailed, messages
<1>4. ASSUME NEW w \in Runs, Prior(w), run[w].step \notin done
      PROVE  OnceInv'
  <2>0. /\ Goto(w, "sending") /\ Send!Begin(w, run[w].step) /\ done' = done /\ "sending" \in Pcs
    BY <1>4 DEF Prior, Pcs
  <2>1. \A x \in Runs : run'[x].at # "recover"
    BY <1>0, <1>1, <2>0, GotoEffect
  <2>2. /\ call' = [call EXCEPT ![w] = [at |-> "begun", key |-> run[w].step,
                                        knew |-> FALSE, got |-> "none"]]
        /\ call[w].at = "idle"
        /\ mail' = mail /\ accepted' = accepted /\ lost' = lost
    BY <2>0 DEF Send!Begin, Send!At
  <2>3. /\ \A x \in Runs \ {w} : call'[x] = call[x]
        /\ call'[w].at = "begun" /\ call'[w].got = "none"
    BY <1>1, <2>2
  <2>4. \A x \in Runs : CallMatches(x)' /\ call'[x].got # "DUPLICATE"
    BY <1>0, <2>2, <2>3 DEF CallMatches
  <2>5. \A s \in EmailSteps : Tracked(s)'
    BY <1>0, <2>2, <2>3 DEF Tracked
  <2>6. \A s \in done' : Mailed(s)'
    BY <1>0, <2>0, <2>2 DEF Mailed
  <2> QED
    BY <2>1, <2>4, <2>5, <2>6 DEF OnceInv
<1>5. ASSUME NEW w \in Runs, Send!Step(w) \/ Send!Die(w), done' = done,
             \A x \in Runs : run'[x].at # "recover"
      PROVE  OnceInv'
  <2>1. /\ call[w].at # "idle"
        /\ \A x \in Runs \ {w} : call'[x] = call[x]
    BY <1>1, <1>5, SendMoves
  <2>2. \A x \in Runs \ {w} : call[x].at = "idle"
    BY <1>0, <1>1, <2>1, LoneCaller
  <2>3. /\ CallMatches(w)' /\ call'[w].got # "DUPLICATE"
        /\ \A s \in EmailSteps : Tracked(s)'
    BY <1>0, <1>1, <1>5, <2>2, LoneSend
  <2>4. \A x \in Runs \ {w} : CallMatches(x)' /\ call'[x].got # "DUPLICATE"
    BY <1>0, <2>1, <2>2 DEF CallMatches
  <2>5. run[w].at = "sending" /\ call[w].key = run[w].step
    BY <1>1, <2>1 DEF CallsRun
  <2>6. \A s \in EmailSteps : Mailed(s) => accepted'[s] >= 1
    BY <1>1, <1>5, <2>5, SendKeepsAccepted DEF SendingInv, AcceptedInv
  <2>7. \A s \in done' : Mailed(s)'
    BY <1>0, <1>1, <1>5, <2>6 DEF EmailRuns, Mailed
  <2> QED
    BY <1>5, <2>3, <2>4, <2>7 DEF OnceInv
<1>6. ASSUME NEW w \in Runs, Sending(w)
      PROVE  OnceInv'
  BY <1>0, <1>5, <1>6 DEF Sending
<1>7. ASSUME NEW w \in Runs, Crash(w), call[w].at # "idle"
      PROVE  OnceInv'
  <2>1. Send!Die(w) /\ done' = done
    BY <1>7 DEF Crash
  <2>2. \A x \in Runs : run'[x].at # "recover"
    BY <1>0, <1>1, <1>7, EndEffect DEF Crash
  <2> QED
    BY <1>5, <2>1, <2>2
<1> QED
  BY <1>2, <1>3, <1>4, <1>6, <1>7, StepKinds

\* The four invariants together.
ExecutorInv == TypeInv /\ WorkInv /\ SendingInv /\ OnceInv
\* They hold of every behaviour.
THEOREM ExecutorInvAlways == Spec => []ExecutorInv
<1>1. Init => ExecutorInv
  BY TypeInvInit, WorkInvInit, SendingInvInit, OnceInvInit DEF ExecutorInv
<1>2. ExecutorInv /\ [Next]_vars => ExecutorInv'
  BY TypeInvNext, WorkInvNext, SendingInvNext, OnceInvNext DEF ExecutorInv
<1> QED
  BY <1>1, <1>2, PTL DEF Spec

\* Retries, crashes, claims taken over and answers that come late: a step's mail
\* is accepted once, unless somebody changed the row of a run at work or the
\* record of the acceptance was lost.
THEOREM MailedOncePerStepAlways == Spec => []MailedOncePerStep
<1>1. ExecutorInv => MailedOncePerStep
  <2> SUFFICES ASSUME ExecutorInv, NEW s \in EmailSteps, accepted[s] >= 2, ~disturbed
               PROVE  s \in lost
    BY DEF MailedOncePerStep
  <2>1. Tracked(s)
    BY DEF ExecutorInv, OnceInv
  <2> QED
    BY <2>1 DEF Tracked
<1> QED
  BY <1>1, ExecutorInvAlways, PTL

-----------------------------------------------------------------------------
(* What COMPLETED says *)

\* The last active step, or none, is behind a row that a plan completes.
LEMMA PlannedComplete ==
  ASSUME NEW row \in Rows, NEW plan \in Plans \ {"none"}, NEW step \in Steps,
         Planned(row, plan, step).status = "COMPLETED"
  PROVE  \/ plan = "Complete"
         \/ plan \in {"Skip", "Advance"} /\ LaterActive(step) = {}
<1>1. CASE plan = "Stop"
  <2>1. Planned(row, plan, step) = Free(row, "STOPPED", "none")
    BY <1>1 DEF Planned
  <2>2. "STOPPED" \in Statuses /\ "none" \in Dues
    BY DEF Statuses, Dues
  <2>3. Free(row, "STOPPED", "none").status = "STOPPED"
    BY <2>2, FreeRow
  <2> QED
    BY <2>1, <2>3
<1>2. "ACTIVE" \in Statuses /\ "later" \in Dues
  BY DEF Statuses, Dues
<1>3. Free(row, "ACTIVE", "later") \in Rows /\ Free(row, "ACTIVE", "later").status = "ACTIVE"
  BY <1>2, FreeRow
<1>4. CASE plan \in {"Defer", "DeferLimit"}
  <2>1. Planned(row, plan, step) = Free(row, "ACTIVE", "later")
    BY <1>4 DEF Planned
  <2> QED
    BY <1>3, <2>1
<1>5. CASE plan \in {"Skip", "Advance"} /\ LaterActive(step) # {}
  <2>1. NextStep(step) \in Steps
    BY <1>5, NextStepIsNext
  <2>2. Moved(row, NextStep(step)) \in Rows /\ Moved(row, NextStep(step)).status = "ACTIVE"
    BY <1>3, <2>1, StepRow DEF Moved
  <2>3. \/ Planned(row, plan, step) = Moved(row, NextStep(step))
        \/ Planned(row, plan, step) = [Moved(row, NextStep(step)) EXCEPT !.retry = 0]
    BY <1>5 DEF Planned
  <2>4. [Moved(row, NextStep(step)) EXCEPT !.retry = 0].status = "ACTIVE"
    BY <2>2, RetryRow
  <2> QED
    BY <2>2, <2>3, <2>4
<1> QED
  BY <1>1, <1>4, <1>5 DEF Plans

\* No click completes an enrolment.
LEMMA ClickedStatus ==
  ASSUME enr \in Rows, NEW op \in Ops \ {"none"}, NEW due \in Dues
  PROVE  Clicked(op, due).status # "COMPLETED"
<1>0. /\ {"PAUSED", "ACTIVE", "STOPPED"} \subseteq Statuses /\ {"none", "now"} \subseteq Dues
      /\ enr.due \in Dues
  BY DEF Statuses, Dues, Rows
<1>1. ASSUME NEW status \in {"PAUSED", "ACTIVE", "STOPPED"}, NEW d \in Dues
      PROVE  Free(enr, status, d).status = status /\ Free(enr, status, d) \in Rows
  <2>1. status \in Statuses
    BY <1>0
  <2> QED
    BY <2>1, FreeRow, Zenon
<1>2. CASE op \in {"pause", "stop"}
  <2>1. \/ Clicked(op, due) = Free(enr, "PAUSED", enr.due)
        \/ Clicked(op, due) = Free(enr, "STOPPED", "none")
    BY <1>2 DEF Clicked
  <2> HIDE DEF Free
  <2> QED
    BY <1>0, <1>1, <2>1
<1>3. CASE op = "retry"
  <2>1. Clicked(op, due) = [Free(enr, "ACTIVE", "now") EXCEPT !.retry = 0]
    BY <1>3 DEF Clicked
  <2>2. Free(enr, "ACTIVE", "now").status = "ACTIVE" /\ Free(enr, "ACTIVE", "now") \in Rows
    BY <1>0, <1>1
  <2> QED
    BY <2>1, <2>2, RetryRow
<1>4. CASE op = "resume"
  BY <1>4 DEF Clicked, Rows
<1> QED
  BY <1>2, <1>3, <1>4 DEF Ops

\* Only the last write of a run completes it.
LEMMA CompletedByWrite ==
  ASSUME TypeInv, [Next]_vars, enr'.status = "COMPLETED", enr.status # "COMPLETED"
  PROVE  \E w \in Runs :
           /\ Write(w)
           /\ \/ run[w].plan = "Complete"
              \/ run[w].plan \in {"Skip", "Advance"} /\ LaterActive(run[w].step) = {}
<1>0. enr \in Rows
  BY TypeInvFacts
<1>1. ASSUME NEW w \in Runs, Write(w)
      PROVE  \/ run[w].plan = "Complete"
             \/ run[w].plan \in {"Skip", "Advance"} /\ LaterActive(run[w].step) = {}
  <2>1. run[w].plan \in Plans \ {"none"} /\ run[w].step \in Steps
    BY <1>1, TypeInvFacts DEF TypeInv, PlansMade, Write
  <2>2. Planned(enr, run[w].plan, run[w].step).status = "COMPLETED"
    BY <1>1 DEF Write
  <2> QED
    BY <1>0, <2>1, <2>2, PlannedComplete
<1>2. ASSUME NEW w \in Runs PROVE ~RetryWrite(w) /\ ~OuterWrite(w)
  <2>1. run[w].retry \in Nat
    BY TypeInvFacts
  <2>2. Retried(enr, run[w].retry).status # "COMPLETED"
    BY <1>0, <2>1, RetriedRow
  <2> QED
    BY <2>2 DEF RetryWrite, OuterWrite
<1>3. ASSUME NEW w \in Runs PROVE ~Claim(w)
  BY <1>0, ClaimRow DEF Claim
<1>4. ASSUME NEW w \in Runs
      PROVE  ~ (\/ Load(w) \/ Check(w) \/ Limit(w) \/ Prior(w) \/ Sending(w) \/ Answered(w)
                \/ Record(w) \/ Log(w) \/ RetryRead(w) \/ Throw(w) \/ Crash(w))
  BY DEF Load, Check, Limit, Prior, Sending, Answered, Record, Log, RetryRead, Throw, Crash
<1>5. ASSUME NEW u \in Users PROVE ~Perform(u)
  <2>1. CASE user[u].op # "none"
    <3>1. user[u].op \in Ops \ {"none"} /\ user[u].due \in Dues
      BY <2>1 DEF TypeInv, TypeOK
    <3> QED
      BY <1>0, <3>1, ClickedStatus DEF Perform
  <2> QED
    BY <2>1 DEF Perform
<1>6. ~Reclaim
  <2>1. "ACTIVE" \in Statuses /\ enr.due \in Dues
    BY <1>0 DEF Statuses, Rows
  <2>2. Free(enr, "ACTIVE", enr.due).status = "ACTIVE"
    BY <1>0, <2>1, FreeRow
  <2> QED
    BY <2>2 DEF Reclaim
<1>7. ~ResumeOoo /\ ~Clock
  BY <1>0 DEF ResumeOoo, Clock, Tick, Age, Rows
<1>8. ~OooHook /\ \A kind \in Hooks : ~StopHook(kind)
  BY <1>0, HookRow
<1>9. ~ (\/ \E u \in Users, op \in Ops : Click(u, op)
         \/ \E kind \in News : Receive(kind)
         \/ \E kind \in Hooks : DropHook(kind)
         \/ \E f \in Flows : SetFlow(f)
         \/ UNCHANGED vars)
  BY DEF Click, Receive, DropHook, SetFlow, vars
<1> QED
  BY <1>1, <1>2, <1>3, <1>4, <1>5, <1>6, <1>7, <1>8, <1>9 DEF Next, RunStep, Contact

\* From an active first step the row and the runs stand at active steps; only a
\* step that is not active is completed without more ado; and COMPLETED comes
\* after the last e-mail step.
ActivePath == 1 \in ActiveSteps =>
  /\ enr.step \in ActiveSteps
  /\ \A w \in Runs : run[w].step \in ActiveSteps
ShortCut == \A w \in Runs :
  run[w].at = "write" /\ run[w].plan = "Complete" => run[w].step \notin ActiveSteps
CompletedInOrder == enr.status = "COMPLETED" /\ 1 \in ActiveSteps =>
  ActiveSteps \cap EmailSteps \subseteq done
PathInv == ActivePath /\ ShortCut /\ CompletedInOrder

\* At first everybody is at the first step.
LEMMA PathInvInit == Init => PathInv
BY DEF Init, PathInv, ActivePath, ShortCut, CompletedInOrder, Idle

\* A run stays at its step, begins anew, or takes over the row's; and plans to
\* complete only at a step that is not active.
LEMMA RunPath ==
  ASSUME TypeInv, NEW w \in Runs, Claim(w) \/ RunStep(w) \/ Throw(w) \/ Crash(w)
  PROVE  /\ run'[w].step \in {run[w].step, 1, enr.step}
         /\ run'[w].at = "write" /\ run'[w].plan = "Complete" =>
              \/ run'[w] = run[w]
              \/ run'[w].step = run[w].step /\ run[w].step \notin ActiveSteps
<1> USE TypeInvFacts
<1>1. ASSUME NEW pc \in Pcs \ {"write"}, Goto(w, pc)
      PROVE  run'[w].step = run[w].step /\ run'[w].at # "write"
  BY <1>1, GotoEffect
<1>2. ASSUME NEW plan \in Plans, Plan(w, plan)
      PROVE  run'[w].step = run[w].step /\ run'[w].plan = plan
  BY <1>2, PlanEffect
<1>3. ASSUME run' = [run EXCEPT ![w] = Idle]
      PROVE  run'[w].step = 1 /\ run'[w].at # "write"
  BY <1>3, EndEffect DEF Idle
<1>4. CASE Load(w)
  BY <1>4, LoadEffect DEF Idle
<1>5. CASE RetryRead(w)
  BY <1>5, RetryReadEffect
<1>6. CASE Sending(w)
  BY <1>6 DEF Sending
<1>7. CASE Claim(w) \/ Write(w) \/ RetryWrite(w) \/ OuterWrite(w) \/ Crash(w) \/ Log(w)
           \/ Throw(w)
  <2>1. {"load", "outerRead", "log", "retryRead"} \subseteq Pcs \ {"write"}
    BY DEF Pcs
  <2>2. \/ run' = [run EXCEPT ![w] = Idle]
        \/ \E pc \in Pcs \ {"write"} : Goto(w, pc)
    BY <1>7, <2>1 DEF Claim, Write, RetryWrite, OuterWrite, Crash, Log, Throw
  <2> QED
    BY <1>1, <1>3, <2>2
<1>8. CASE Check(w) \/ Limit(w) \/ Prior(w) \/ Answered(w) \/ Record(w)
  <2>1. /\ {"limit", "prior", "sending", "record", "recover", "log"} \subseteq Pcs \ {"write"}
        /\ {"Stop", "Complete", "Defer", "DeferLimit", "Skip", "Advance"} \subseteq Plans
    BY DEF Pcs, Plans
  <2>2. \/ \E pc \in Pcs \ {"write"} : Goto(w, pc)
        \/ \E plan \in Plans : /\ Plan(w, plan)
                               /\ plan = "Complete" => run[w].step \notin ActiveSteps
    BY <1>8, <2>1 DEF Check, Limit, Prior, Answered, Record
  <2> QED
    BY <1>1, <1>2, <2>2
<1> HIDE TypeInvFacts
<1> QED
  BY <1>4, <1>5, <1>6, <1>7, <1>8 DEF RunStep

\* Every step keeps the path.
LEMMA PathInvNext ==
  ASSUME TypeInv, OrderInv, PathInv, [Next]_vars
  PROVE  PathInv'
<1>1. UNCHANGED run \/ \E w \in Runs : Claim(w) \/ RunStep(w) \/ Throw(w) \/ Crash(w)
  <2>1. CASE \/ \E u \in Users : Perform(u) \/ \E op \in Ops : Click(u, op)
             \/ Reclaim \/ ResumeOoo \/ Clock \/ \E f \in Flows : SetFlow(f)
             \/ UNCHANGED vars
    BY <2>1 DEF Click, Perform, Reclaim, ResumeOoo, Clock, Tick, Age, SetFlow, vars
  <2>2. CASE Contact
    BY <2>2 DEF Contact, Receive, DropHook, StopHook, OooHook
  <2> QED
    BY <2>1, <2>2 DEF Next
<1>2. ASSUME 1 \in ActiveSteps
      PROVE  enr'.step \in ActiveSteps
  BY <1>2, RowStep, NextStepIsNext, TypeInvFacts DEF PathInv, ActivePath
<1>3. ActivePath'
  <2>1. ASSUME 1 \in ActiveSteps, NEW w \in Runs
        PROVE  run'[w].step \in ActiveSteps
    BY <1>1, <2>1, RunPath, OthersStay DEF PathInv, ActivePath
  <2> QED
    BY <1>2, <2>1 DEF ActivePath
<1>4. ShortCut'
  BY <1>1, RunPath, OthersStay DEF PathInv, ShortCut
<1>5. CompletedInOrder'
  <2>1. CASE enr.status = "COMPLETED" \/ enr'.status # "COMPLETED"
    BY <2>1, DoneGrows DEF PathInv, CompletedInOrder
  <2>2. ASSUME 1 \in ActiveSteps, NEW w \in Runs, Write(w),
               \/ run[w].plan = "Complete"
               \/ run[w].plan \in {"Skip", "Advance"} /\ LaterActive(run[w].step) = {}
        PROVE  ActiveSteps \cap EmailSteps \subseteq done
    <3> PICK s \in Steps : s = run[w].step
      BY TypeInvFacts
    <3>1. s \in ActiveSteps /\ run[w].at = "write"
      BY <2>2 DEF PathInv, ActivePath, Write, At
    <3>2. run[w].plan \in {"Skip", "Advance"} /\ LaterActive(s) = {}
      BY <2>2, <3>1 DEF PathInv, ShortCut
    <3>3. Before(s) \subseteq done /\ (s \in EmailSteps => s \in done)
      BY <3>1, <3>2 DEF OrderInv, InOrder
    <3>4. ASSUME NEW t \in ActiveSteps \cap EmailSteps
          PROVE  t \in done
      <4>1. t \in Nat /\ s \in Nat
        BY ExecutorAssumption DEF Steps
      <4>2. ~(t > s)
        BY <3>2 DEF LaterActive
      <4>3. t = s \/ t \in Before(s)
        BY <4>1, <4>2 DEF Before
      <4> QED
        BY <3>3, <4>3
    <3> QED
      BY <3>4
  <2> QED
    BY <2>1, <2>2, CompletedByWrite, DoneGrows DEF CompletedInOrder
<1> QED
  BY <1>3, <1>4, <1>5 DEF PathInv

\* COMPLETED means completed: after the last write every active e-mail step has
\* its SUCCESS execution, and that says that its mail was accepted, unless
\* somebody changed the row of a run at work.
THEOREM CompletedIsDoneAlways == Spec => []CompletedIsDone
<1>1. ExecutorInv /\ PathInv => CompletedIsDone
  BY DEF ExecutorInv, OnceInv, PathInv, CompletedInOrder, CompletedIsDone
<1>2. TypeInv /\ OrderInv /\ PathInv /\ [Next]_vars => PathInv'
  BY PathInvNext
<1>3. Spec => []PathInv
  BY <1>2, TypeInvAlways, OrderInvInit, OrderInvNext, PathInvInit, PTL DEF Spec
<1> QED
  BY <1>1, <1>3, ExecutorInvAlways, PTL
=============================================================================
