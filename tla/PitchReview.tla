----------------------------- MODULE PitchReview -----------------------------
(***************************************************************************)
(* The audit of a company's website and the pitch that comes of it          *)
(* (WebsiteAuditService): audits are run by the cron tick and by hand, each *)
(* ends with a pitch for the company's contact, and users approve, reject   *)
(* and regenerate pitches while audits are under way.  One company, which   *)
(* is enriched, has a website and a contact that may be mailed.             *)
(***************************************************************************)
EXTENDS Integers, Sequences, FiniteSets

CONSTANTS
  Workers,      \* runs of auditBatch, and requests that regenerate a pitch
  Users,        \* requests that approve a pitch
  Modes,        \* what pitchReviewMode may be: TRUE is AUTO_APPROVE
  MaxAttempts,  \* maxAttempts of the audit's settings
  DailyLimit,   \* dailyLimit
  MaxAudits,    \* bound: audits that are begun
  MaxClicks,    \* bound: things users do
  MaxDeaths     \* bound: crashes of a process

ASSUME PitchAssumption ==
  /\ Modes \subseteq BOOLEAN
  /\ IsFiniteSet(Workers) /\ Workers # {}
  /\ MaxAttempts \in Nat \ {0} /\ DailyLimit \in Nat \ {0}
  /\ MaxAudits \in Nat /\ MaxClicks \in Nat /\ MaxDeaths \in Nat

VARIABLES
  pitches,   \* the statuses of the contact's pitches, in the order of creation
  audit,     \* Company.auditStatus, "none" for null
  attempts,  \* Company.auditAttempts
  audited,   \* WebsiteAudit rows of the day that are DONE
  worker,    \* the audits under way
  approving, \* the pitch that a request to approve has read, 0 for none
  late,      \* history: pitches that were decided on during an audit
  mixed,     \* history: two audits at once, a decision during an audit, or a
             \* superseded pitch rejected
  begun,     \* history: audits begun that nobody forced
  clicks, deaths, started

company == <<audit, attempts, audited>>
history == <<late, mixed, begun>>
counts  == <<clicks, deaths, started>>
vars    == <<pitches, company, worker, approving, history, counts>>

Open   == {"DRAFT", "REJECTED"}
Status == Open \cup {"APPROVED", "SUPERSEDED"}
Upsert == {"look", "supersede", "drafts", "clear", "create"}
Inside == {"audit", "row"} \cup Upsert      \* inside the try block

Idle == [at |-> "idle", force |-> FALSE, auto |-> FALSE, row |-> FALSE, ids |-> {}]

TypeOK ==
  /\ pitches \in Seq(Status)
  /\ audit \in {"none", "PENDING", "DONE", "FAILED"}
  /\ attempts \in Nat /\ audited \in Nat
  /\ worker \in [Workers -> [at : {"idle", "listed", "failing"} \cup Inside,
                             force : BOOLEAN, auto : BOOLEAN, row : BOOLEAN,
                             ids : SUBSET (1 .. Len(pitches))]]
  /\ approving \in [Users -> 0 .. Len(pitches)]
  /\ late \subseteq 1 .. Len(pitches) /\ mixed \in BOOLEAN /\ begun \in Nat
  /\ clicks \in 0 .. MaxClicks /\ deaths \in 0 .. MaxDeaths
  /\ started \in 0 .. MaxAudits

Init ==
  /\ pitches = <<>>
  /\ audit = "none" /\ attempts = 0 /\ audited = 0
  /\ worker = [w \in Workers |-> Idle]
  /\ approving = [u \in Users |-> 0]
  /\ late = {} /\ mixed = FALSE /\ begun = 0
  /\ clicks = 0 /\ deaths = 0 /\ started = 0

Click == clicks < MaxClicks /\ clicks' = clicks + 1 /\ UNCHANGED <<deaths, started>>

Busy == {w \in Workers : worker[w].at # "idle"}

Step(w, place, ids) ==
  [at |-> place, force |-> worker[w].force, auto |-> worker[w].auto,
   row |-> worker[w].row, ids |-> ids]

Goes(w, place) == worker' = [worker EXCEPT ![w] = Step(w, place, {})]

-----------------------------------------------------------------------------
(* as if a failed company were audited for ever                             *)
EligibleForever == audit # "DONE"

(* findEligibleCompanyIds: a PENDING one is taken whatever its attempts     *)
Eligible ==
  \/ audit \in {"none", "PENDING"}
  \/ audit = "FAILED" /\ attempts < MaxAttempts

(* auditBatch, for the tick or a user                                       *)
List(w) ==
  /\ worker[w].at = "idle" /\ audited < DailyLimit /\ Eligible
  /\ Goes(w, "listed")
  /\ mixed' = (mixed \/ Busy # {})
  /\ UNCHANGED <<pitches, company, approving, late, begun, counts>>

(* regeneratePitch, for a pitch of any status                               *)
Regenerate(w) ==
  /\ worker[w].at = "idle" /\ pitches # <<>> /\ Click
  /\ worker' = [worker EXCEPT ![w] =
       [at |-> "listed", force |-> TRUE, auto |-> FALSE, row |-> FALSE, ids |-> {}]]
  /\ mixed' = (mixed \/ Busy # {})
  /\ UNCHANGED <<pitches, company, approving, late, begun>>

(* auditOne begins: settings and the day's count are read again, the status *)
(* is not                                                                   *)
Begin(w) ==
  /\ worker[w].at = "listed" /\ started < MaxAudits
  /\ worker[w].force \/ audited < DailyLimit
  /\ \E auto \in Modes :
       worker' = [worker EXCEPT ![w] =
         [at |-> "audit", force |-> worker[w].force, auto |-> auto, row |-> FALSE,
          ids |-> {}]]
  /\ audit' = "PENDING" /\ attempts' = attempts + 1
  /\ begun' = IF worker[w].force THEN begun ELSE begun + 1
  /\ started' = started + 1
  /\ UNCHANGED <<pitches, audited, approving, late, mixed, clicks, deaths>>

LimitReached(w) ==
  /\ worker[w].at = "listed" /\ ~worker[w].force /\ audited >= DailyLimit
  /\ worker' = [worker EXCEPT ![w] = Idle]
  /\ UNCHANGED <<pitches, company, approving, history, counts>>

(* the page was fetched, scored and pitched: the audit's row is DONE first  *)
RowDone(w) ==
  /\ worker[w].at = "audit"
  /\ worker' = [worker EXCEPT ![w] =
       [at |-> "row", force |-> worker[w].force, auto |-> worker[w].auto,
        row |-> TRUE, ids |-> {}]]
  /\ audited' = audited + 1
  /\ UNCHANGED <<pitches, audit, attempts, approving, history, counts>>

CompanyDone(w) ==
  /\ worker[w].at = "row"
  /\ audit' = "DONE"
  /\ Goes(w, "look")
  /\ UNCHANGED <<pitches, attempts, audited, approving, history, counts>>

-----------------------------------------------------------------------------
(* upsertPitchForContact: the approved pitch stays, unless a user forces    *)
(* another; with several, the one updated last is found                     *)
Look(w) ==
  LET Approved == {i \in 1 .. Len(pitches) : pitches[i] = "APPROVED"} IN
  /\ worker[w].at = "look"
  /\ \/ Approved = {} /\ Goes(w, "drafts")
     \/ Approved # {} /\ ~worker[w].force /\ worker' = [worker EXCEPT ![w] = Idle]
     \/ /\ worker[w].force
        /\ \E i \in Approved :
             worker' = [worker EXCEPT ![w] = Step(w, "supersede", {i})]
  /\ UNCHANGED <<pitches, company, approving, history, counts>>

Superseded(ids) ==
  [i \in 1 .. Len(pitches) |-> IF i \in ids THEN "SUPERSEDED" ELSE pitches[i]]

(* as if the approved pitch were left to the drafts                         *)
SupersedeForgotten(w) ==
  /\ worker[w].at = "supersede"
  /\ Goes(w, "drafts")
  /\ UNCHANGED <<pitches, company, approving, history, counts>>

Supersede(w) ==
  /\ worker[w].at = "supersede"
  /\ pitches' = Superseded(worker[w].ids)
  /\ Goes(w, "drafts")
  /\ UNCHANGED <<company, approving, history, counts>>

(* as if every pitch that is not superseded were a draft                    *)
ListDraftsLoose(w) ==
  /\ worker[w].at = "drafts"
  /\ worker' = [worker EXCEPT ![w] =
       Step(w, "clear", {i \in 1 .. Len(pitches) : pitches[i] # "SUPERSEDED"})]
  /\ UNCHANGED <<pitches, company, approving, history, counts>>

ListDrafts(w) ==
  /\ worker[w].at = "drafts"
  /\ worker' = [worker EXCEPT ![w] =
       Step(w, "clear", {i \in 1 .. Len(pitches) : pitches[i] \in Open})]
  /\ UNCHANGED <<pitches, company, approving, history, counts>>

(* the update goes by the ids that were found, whatever has become of them  *)
Clear(w) ==
  /\ worker[w].at = "clear"
  /\ pitches' = Superseded(worker[w].ids)
  /\ Goes(w, "create")
  /\ UNCHANGED <<company, approving, history, counts>>

(* a row that was DONE is FAILED now, and no longer one of the day's         *)
Uncounted(w) == IF worker[w].row THEN audited - 1 ELSE audited

(* the pitch is there; an approved one is then noted in the timeline, which *)
(* may throw like any statement                                             *)
Create(w) ==
  /\ worker[w].at = "create"
  /\ pitches' = Append(pitches, IF worker[w].auto THEN "APPROVED" ELSE "DRAFT")
  /\ \/ worker' = [worker EXCEPT ![w] = Idle] /\ UNCHANGED audited
     \/ worker[w].auto /\ Goes(w, "failing") /\ audited' = Uncounted(w)
  /\ UNCHANGED <<audit, attempts, approving, history, counts>>

(* as if an exception after the audit were not the company's                *)
FailsQuietly(w) ==
  /\ worker[w].at \in Inside
  /\ IF worker[w].at \in Upsert THEN worker' = [worker EXCEPT ![w] = Idle]
     ELSE Goes(w, "failing")
  /\ audited' = Uncounted(w)
  /\ UNCHANGED <<pitches, audit, attempts, approving, history, counts>>

(* whatever is thrown inside the try block fails the row, done or not, and  *)
(* then the company                                                         *)
Fails(w) ==
  /\ worker[w].at \in Inside
  /\ Goes(w, "failing")
  /\ audited' = Uncounted(w)
  /\ UNCHANGED <<pitches, audit, attempts, approving, history, counts>>

CompanyFails(w) ==
  /\ worker[w].at = "failing"
  /\ audit' = "FAILED"
  /\ worker' = [worker EXCEPT ![w] = Idle]
  /\ UNCHANGED <<pitches, attempts, audited, approving, history, counts>>

Dies(w) ==
  /\ worker[w].at # "idle" /\ deaths < MaxDeaths
  /\ deaths' = deaths + 1
  /\ worker' = [worker EXCEPT ![w] = Idle]
  /\ UNCHANGED <<pitches, company, approving, history, clicks, started>>

-----------------------------------------------------------------------------
(* approvePitch reads the status and updates the pitch by its id            *)
ReadToApprove(u, i) ==
  /\ approving[u] = 0 /\ pitches[i] \in Open /\ Click
  /\ approving' = [approving EXCEPT ![u] = i]
  /\ UNCHANGED <<pitches, company, worker, history>>

(* a decision on a pitch while an audit is under way                        *)
Decided(i) ==
  /\ late' = IF Busy # {} THEN late \cup {i} ELSE late
  /\ mixed' = (mixed \/ Busy # {} \/ pitches[i] = "SUPERSEDED")
  /\ UNCHANGED <<company, worker, begun>>

Approve(u) ==
  LET i == approving[u] IN
  /\ i # 0
  /\ pitches' = [pitches EXCEPT ![i] = "APPROVED"]
  /\ approving' = [approving EXCEPT ![u] = 0]
  /\ Decided(i)
  /\ UNCHANGED counts

(* rejectPitch does not ask for the status                                  *)
Reject(i) ==
  /\ Click
  /\ pitches' = [pitches EXCEPT ![i] = "REJECTED"]
  /\ Decided(i)
  /\ UNCHANGED approving

Auditing(w) ==
  \/ List(w) \/ Regenerate(w) \/ Begin(w) \/ LimitReached(w)
  \/ RowDone(w) \/ CompanyDone(w)
  \/ Look(w) \/ Supersede(w) \/ ListDrafts(w) \/ Clear(w) \/ Create(w)
  \/ Fails(w) \/ CompanyFails(w) \/ Dies(w)

Next ==
  \/ \E w \in Workers : Auditing(w)
  \/ \E u \in Users : Approve(u) \/ \E i \in 1 .. Len(pitches) : ReadToApprove(u, i)
  \/ \E i \in 1 .. Len(pitches) : Reject(i)

Spec == Init /\ [][Next]_vars

-----------------------------------------------------------------------------
(* A pitch that is approved stays so, unless a user has it regenerated or   *)
(* decided on it while an audit was under way, which may have found it a    *)
(* draft: however audits overlap or fail.                                   *)
ApprovedStays ==
  [][\A i \in 1 .. Len(pitches) :
       pitches[i] = "APPROVED" /\ pitches'[i] = "SUPERSEDED" =>
         i \in late \/ \E w \in Workers : worker[w].force]_vars

(* The contact has one pitch at most that is not superseded, so that what   *)
(* is sent is what was reviewed, unless two audits ran at once, a user      *)
(* decided during an audit, or a superseded pitch was brought back.         *)
OneCurrent ==
  ~mixed => Cardinality({i \in 1 .. Len(pitches) : pitches[i] # "SUPERSEDED"}) <= 1

(* A company whose audit is DONE has a pitch to review or to send: an audit *)
(* that could not write it has failed and is tried again.  Only a process   *)
(* that dies in between leaves a company DONE without one, for ever.        *)
DoneHasPitch ==
  audit = "DONE" /\ Busy = {} /\ deaths = 0 =>
    \E i \in 1 .. Len(pitches) : pitches[i] # "SUPERSEDED"

(* Nobody pays for more audits than maxAttempts allows, users who ask for   *)
(* them and dead processes aside, as long as one audit runs at a time.      *)
AuditsWithinAttempts == ~mixed => begun <= MaxAttempts + deaths

(* Do not auto-replace APPROVED unless explicit regenerate.                 *)
(* (Violated: an audit supersedes the drafts it found, approved since.)     *)
ApprovedKept ==
  [][\A i \in 1 .. Len(pitches) :
       pitches[i] = "APPROVED" /\ pitches'[i] = "SUPERSEDED" =>
         \E w \in Workers : worker[w].force]_vars
=============================================================================
