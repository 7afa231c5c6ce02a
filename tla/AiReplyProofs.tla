--------------------------- MODULE AiReplyProofs ---------------------------
(***************************************************************************)
(* Proofs about AiReply, for every number of workers, messages, clicks and *)
(* mishaps: the types, nothing passes for sent that was not, a delivery    *)
(* forbidden when it was claimed never sends, a reply goes out twice only  *)
(* for a cause, and the limit of replies holds.                            *)
(***************************************************************************)
EXTENDS AiReply, TLAPS

-----------------------------------------------------------------------------
(* Types *)

\* A delivery that has claimed its row, until it has written what became of it.
Held  == {"load", "guard", "check", "send", "sentRow", "caught", "putRow"}
\* What a delivery goes through.
Tried == Held \cup {"claim", "sentDraft", "sentCount"}
\* Where a worker has no message at hand.
Apart == {"idle", "list", "cancelRows", "cancelDrafts", "next"}

\* Who has a message at hand knows which; only the cron and a user who sends
\* deliver, only the cron looks at the settings again; nobody is to write SENT but
\* who has sent.
JobOK(j) ==
  /\ j.at \notin Apart => j.m \in Inbound
  /\ j.at \in Tried => j.op \in {"flush", "send"}
  /\ j.at \in {"guard", "next"} => j.op = "flush"
  /\ j.toRow # "SENT" /\ j.toDraft # "SENT"
WorkInv == \A w \in Workers : JobOK(work[w])

\* The constants are natural numbers, and messages too.
LEMMA Numbers ==
  /\ Last \in Nat /\ Last > 0 /\ MaxReplies \in Nat /\ MaxReplies > 0
  /\ MaxAttempts \in Nat /\ MaxClicks \in Nat /\ MaxMishaps \in Nat
  /\ Inbound \subseteq 0 .. Last /\ Inbound \subseteq Nat /\ 0 \notin Inbound
BY AiReplyAssumption DEF Inbound

\* Who is idle is of its type, and so is a flush between two rows.
LEMMA IdleJob ==
  /\ NoJob \in Jobs /\ JobOK(NoJob) /\ NoJob.at = "idle" /\ NoJob.late = {}
  /\ NoJob.op = "none" /\ NoJob.m = 0 /\ NoJob.todo = {} /\ NoJob.eligible = FALSE
  /\ NoJob.toRow = "NONE" /\ NoJob.toDraft = "NONE"
  /\ \A todo \in SUBSET Inbound :
       LET j == [NoJob EXCEPT !.op = "flush", !.at = "next", !.todo = todo]
       IN  j \in Jobs /\ JobOK(j) /\ j.at = "next" /\ j.late = {} /\ j.op = "flush"
<1>1. NoJob \in Jobs
  BY Numbers DEF NoJob, Jobs, Ops, Spots
<1>2. /\ NoJob.at = "idle" /\ NoJob.late = {} /\ NoJob.toRow = "NONE" /\ NoJob.toDraft = "NONE"
      /\ NoJob.op = "none" /\ NoJob.m = 0 /\ NoJob.todo = {} /\ NoJob.eligible = FALSE
  BY DEF NoJob
<1>3. JobOK(NoJob)
  BY <1>2 DEF JobOK, Apart, Tried, Held
<1>4. ASSUME NEW todo \in SUBSET Inbound
      PROVE  LET j == [NoJob EXCEPT !.op = "flush", !.at = "next", !.todo = todo]
             IN  j \in Jobs /\ JobOK(j) /\ j.at = "next" /\ j.late = {} /\ j.op = "flush"
  <2> DEFINE j == [NoJob EXCEPT !.op = "flush", !.at = "next", !.todo = todo]
  <2>1. /\ j \in Jobs /\ j.at = "next" /\ j.late = {} /\ j.op = "flush"
        /\ j.toRow = "NONE" /\ j.toDraft = "NONE"
    BY <1>1, <1>2 DEF Jobs, Ops, Spots
  <2>2. JobOK(j)
    BY <2>1 DEF JobOK, Apart, Tried, Held
  <2> QED
    BY <2>1, <2>2
<1> QED
  BY <1>1, <1>2, <1>3, <1>4

\* A worker that goes on keeps its call and its message.
LEMMA GoJob ==
  ASSUME NEW j \in Jobs, NEW at \in Spots
  PROVE  LET k == [j EXCEPT !.at = at]
         IN  /\ k \in Jobs /\ k.at = at /\ k.op = j.op /\ k.m = j.m /\ k.late = j.late
             /\ k.toRow = j.toRow /\ k.toDraft = j.toDraft /\ k.tries = j.tries
             /\ k.todo = j.todo
BY DEF Jobs

-----------------------------------------------------------------------------
(* The steps *)

\* A worker that steps to a sound state leaves the others as they were.
Lands(w, j) == j \in Jobs /\ JobOK(j) /\ Set(w, j)

\* Whoever lands well keeps the types, and the others stay.
LEMMA LandsWell ==
  ASSUME TypeOK, WorkInv, NEW w \in Workers, NEW j, Lands(w, j)
  PROVE  /\ work' \in [Workers -> Jobs] /\ WorkInv'
         /\ work'[w] = j /\ \A x \in Workers \ {w} : work'[x] = work[x]
BY DEF TypeOK, WorkInv, Lands, Set

\* A call that returns.
LEMMA DoneLands ==
  ASSUME TypeOK, NEW w \in Workers, Done(w)
  PROVE  \E j : Lands(w, j) /\ j.at \in {"idle", "next"} /\ j.late = {}
<1>1. work[w].todo \in SUBSET Inbound
  BY DEF TypeOK, Jobs
<1> QED
  BY <1>1, IdleJob DEF Done, Lands

\* A call that goes on with its message.
LEMMA GotoLands ==
  ASSUME TypeOK, WorkInv, NEW w \in Workers, NEW at \in Spots, Goto(w, at),
         at \notin Apart => work[w].m \in Inbound,
         at \in Tried => work[w].op \in {"flush", "send"},
         at \in {"guard", "next"} => work[w].op = "flush"
  PROVE  \E j : /\ Lands(w, j) /\ j.at = at /\ j.op = work[w].op /\ j.m = work[w].m
                /\ j.late = work[w].late
<1>1. work[w] \in Jobs /\ JobOK(work[w])
  BY DEF TypeOK, WorkInv
<1> DEFINE j == [work[w] EXCEPT !.at = at]
<1>2. /\ j \in Jobs /\ j.at = at /\ j.op = work[w].op /\ j.m = work[w].m
      /\ j.late = work[w].late /\ j.toRow = work[w].toRow /\ j.toDraft = work[w].toDraft
  BY <1>1, GoJob
<1>3. JobOK(j)
  BY <1>1, <1>2 DEF JobOK
<1>4. Set(w, j)
  BY DEF Goto
<1> HIDE DEF j
<1> QED
  BY <1>2, <1>3, <1>4 DEF Lands

\* A delivery that is given up is to write its row, and perhaps its draft.
LEMMA PutLands ==
  ASSUME TypeOK, WorkInv, NEW w \in Workers, work[w].at \in Tried,
         NEW r \in RowStatuses \ {"SENT"}, NEW d \in (DraftStatuses \cup {"NONE"}) \ {"SENT"},
         Put(w, r, d)
  PROVE  \E j : /\ Lands(w, j) /\ j.at = "putRow" /\ j.m = work[w].m /\ j.late = {}
<1>1. work[w] \in Jobs /\ JobOK(work[w])
  BY DEF TypeOK, WorkInv
<1> DEFINE j == [work[w] EXCEPT !.at = "putRow", !.toRow = r, !.toDraft = d,
                                !.tries = 0, !.late = {}]
<1>2. /\ j \in Jobs /\ j.at = "putRow" /\ j.op = work[w].op /\ j.m = work[w].m
      /\ j.late = {} /\ j.toRow = r /\ j.toDraft = d
  BY <1>1 DEF Jobs, Spots
<1>3. JobOK(j)
  BY <1>1, <1>2 DEF JobOK, Tried, Held, Apart
<1>4. Set(w, j)
  BY DEF Put
<1> HIDE DEF j
<1> QED
  BY <1>2, <1>3, <1>4 DEF Lands

\* The steps off the way of a delivery: the worker had no row claimed, and has none.
Past == Tried \ {"claim"}
Aside(w, j) ==
  /\ Lands(w, j) /\ j.at \notin Past /\ work[w].at \notin Past
  /\ j.late \in {{}, work[w].late}

\* A call that goes on for the same message, with something else to do.
Edited(w, op, at, todo, fresh, e, d) ==
  [work[w] EXCEPT !.op = op, !.at = at, !.todo = todo, !.fresh = fresh, !.eligible = e,
                  !.toDraft = d]

\* Such a call is aside, if it has its message and is no delivery.
LEMMA EditAside ==
  ASSUME TypeOK, WorkInv, NEW w \in Workers, work[w].at \notin Past \cup Apart,
         NEW op \in Ops, NEW at \in Spots \ (Tried \cup {"next"}), NEW todo \in SUBSET Inbound,
         NEW fresh \in BOOLEAN, NEW e \in BOOLEAN,
         NEW d \in (DraftStatuses \cup {"NONE"}) \ {"SENT"},
         Set(w, Edited(w, op, at, todo, fresh, e, d))
  PROVE  \E j : Aside(w, j)
<1> DEFINE j == Edited(w, op, at, todo, fresh, e, d)
<1>0. work[w] \in Jobs /\ JobOK(work[w])
  BY DEF TypeOK, WorkInv
<1>1. /\ j \in Jobs /\ j.at = at /\ j.m = work[w].m /\ j.late = work[w].late
      /\ j.toRow = work[w].toRow /\ j.toDraft = d
  BY <1>0 DEF Jobs, Edited
<1>2. JobOK(j)
  BY <1>0, <1>1 DEF JobOK, Tried, Held
<1>3. Set(w, j)
  OBVIOUS
<1> HIDE DEF j
<1> QED
  BY <1>1, <1>2, <1>3 DEF Aside, Lands, Past

\* So is a call that begins anew.
LEMMA BeginAside ==
  ASSUME NEW w \in Workers, work[w].at \notin Past, NEW j \in Jobs, Set(w, j),
         j.at \notin Tried, j.at \notin Apart => j.m \in Inbound,
         j.at = "next" => j.op = "flush",
         j.late = {}, j.toRow = "NONE", j.toDraft # "SENT"
  PROVE  \E k : Aside(w, k)
<1>1. JobOK(j)
  BY DEF JobOK, Tried, Held
<1> QED
  BY <1>1 DEF Aside, Lands, Past

\* So are the steps of a handler.
LEMMA HandlerAside ==
  ASSUME TypeOK, WorkInv, NEW w \in Workers, Handler(w) \/ PutDraft(w) \/ CancelOwn(w)
  PROVE  \E j : Aside(w, j)
<1> USE DEF Past, Tried, Held, Apart, At
<1>0. /\ work[w] \in Jobs /\ JobOK(work[w])
      /\ work[w].toDraft \in (DraftStatuses \cup {"NONE"}) \ {"SENT"} /\ work[w].op \in Ops
      /\ work[w].todo \in SUBSET Inbound /\ work[w].fresh \in BOOLEAN /\ work[w].eligible \in BOOLEAN
  BY DEF TypeOK, WorkInv, Jobs, JobOK
<1>1. ASSUME NEW at \in Spots \ (Tried \cup {"next"}), work[w].at \notin Past, Goto(w, at),
             at \notin Apart => work[w].m \in Inbound
      PROVE  \E j : Aside(w, j)
  BY <1>1, GotoLands DEF Aside
<1>2. CASE Done(w) /\ work[w].at \notin Past
  BY <1>2, DoneLands DEF Aside
<1>a. CASE Suppress(w)
  BY <1>0, <1>a, <1>1 DEF Suppress, Spots, JobOK
<1>b. CASE DropRows(w)
  BY <1>0, <1>b, <1>1 DEF DropRows, Spots, JobOK
<1>c. CASE Stale(w)
  <2> DEFINE ms == {m \in Inbound \ {Msg(w)} : draft[m] \in {"QUEUED", "DRAFT"}}
  <2>1. Set(w, Edited(w, work[w].op, "staleRows", ms, work[w].fresh, work[w].eligible, work[w].toDraft))
    BY <1>0, <1>c DEF Stale, Set, Edited, Jobs
  <2> QED
    BY <1>0, <1>c, <2>1, EditAside DEF Stale, Spots
<1>d. CASE StaleRows(w)
  BY <1>0, <1>d, <1>1 DEF StaleRows, Spots, JobOK
<1>e. CASE StaleDrafts(w)
  <2>1. ASSUME NEW at \in {"ai", "putDraft"}, Set(w, [work[w] EXCEPT !.at = at, !.todo = {}])
        PROVE  \E j : Aside(w, j)
    <3>1. Set(w, Edited(w, work[w].op, at, {}, work[w].fresh, work[w].eligible, work[w].toDraft))
      BY <1>0, <2>1 DEF Set, Edited, Jobs
    <3> QED
      BY <1>0, <1>e, <3>1, EditAside DEF StaleDrafts, Spots
  <2> QED
    BY <1>e, <1>2, <2>1 DEF StaleDrafts
<1>f. CASE Classify(w)
  <2>1. ASSUME NEW at \in {"suppress", "stale"},
               Set(w, [work[w] EXCEPT !.op = "unsub", !.at = at, !.eligible = FALSE])
        PROVE  \E j : Aside(w, j)
    <3>1. Set(w, Edited(w, "unsub", at, work[w].todo, work[w].fresh, FALSE, work[w].toDraft))
      BY <1>0, <2>1 DEF Set, Edited, Jobs
    <3> QED
      BY <1>0, <1>f, <3>1, EditAside DEF Classify, Spots, Ops
  <2>2. ASSUME NEW d \in {"HELD", "DRAFT"}, Set(w, [work[w] EXCEPT !.at = "persist", !.toDraft = d])
        PROVE  \E j : Aside(w, j)
    <3>1. Set(w, Edited(w, work[w].op, "persist", work[w].todo, work[w].fresh, work[w].eligible, d))
      BY <1>0, <2>2 DEF Set, Edited, Jobs
    <3> QED
      BY <1>0, <1>f, <3>1, EditAside DEF Classify, Spots, DraftStatuses
  <2> QED
    BY <1>f, <1>2, <2>1, <2>2 DEF Classify
<1>g. CASE Persist(w)
  <2>1. ASSUME NEW e \in BOOLEAN, NEW d \in {"CANCELLED", work[w].toDraft},
               Set(w, [work[w] EXCEPT !.at = "upsert", !.toDraft = d, !.eligible = e])
        PROVE  \E j : Aside(w, j)
    <3>1. Set(w, Edited(w, work[w].op, "upsert", work[w].todo, work[w].fresh, e, d))
      BY <1>0, <2>1 DEF Set, Edited, Jobs
    <3> QED
      BY <1>0, <1>g, <3>1, EditAside DEF Persist, Spots, DraftStatuses
  <2>2. ASSUME NEW e \in {work[w].eligible, FALSE}
        PROVE  [work[w] EXCEPT !.at = "upsert", !.eligible = e /\ work[w].toDraft = "DRAFT"] =
               [work[w] EXCEPT !.at = "upsert", !.toDraft = work[w].toDraft,
                               !.eligible = e /\ work[w].toDraft = "DRAFT"]
    BY <1>0 DEF Jobs
  <2> QED
    BY <1>g, <2>1, <2>2 DEF Persist
<1>h. CASE Upsert(w)
  <2>1. work[w].at = "upsert" /\ work[w].m \in Inbound
    BY <1>0, <1>h DEF Upsert, JobOK
  <2>2. CASE Set(w, [NoJob EXCEPT !.op = "inbound", !.m = Msg(w), !.at = "queue"])
    <3> DEFINE j == [NoJob EXCEPT !.op = "inbound", !.m = Msg(w), !.at = "queue"]
    <3>1. j \in Jobs /\ j.at = "queue" /\ j.m = Msg(w) /\ j.late = {} /\ j.toRow = "NONE" /\ j.toDraft = "NONE"
      BY <2>1, IdleJob, Numbers DEF Jobs, Ops, Spots, Msg
    <3>2. Set(w, j)
      BY <2>2
    <3> HIDE DEF j
    <3> QED
      BY <3>1, <3>2, BeginAside, <2>1 DEF Msg
  <2> QED
    BY <1>h, <1>2, <2>1, <2>2 DEF Upsert
<1>i. CASE Queue(w)
  <2>1. ASSUME NEW f \in BOOLEAN, Set(w, [work[w] EXCEPT !.at = "queueRow", !.fresh = f])
        PROVE  \E j : Aside(w, j)
    <3>1. Set(w, Edited(w, work[w].op, "queueRow", work[w].todo, f, work[w].eligible, work[w].toDraft))
      BY <1>0, <2>1 DEF Set, Edited, Jobs
    <3> QED
      BY <1>0, <1>i, <3>1, EditAside DEF Queue, Spots
  <2>2. CASE Set(w, [work[w] EXCEPT !.at = "putDraft", !.toDraft = "HELD"])
    <3>1. Set(w, Edited(w, work[w].op, "putDraft", work[w].todo, work[w].fresh, work[w].eligible, "HELD"))
      BY <1>0, <2>2 DEF Set, Edited, Jobs
    <3> QED
      BY <1>0, <1>i, <3>1, EditAside DEF Queue, Spots, DraftStatuses
  <2>3. InRow(Msg(w), {"NONE"}) \in BOOLEAN
    BY DEF InRow
  <2> QED
    BY <1>i, <1>2, <2>1, <2>2, <2>3 DEF Queue
<1>j. CASE QueueRow(w)
  <2>1. CASE Set(w, [work[w] EXCEPT !.at = "queued", !.fresh = FALSE])
    <3>1. Set(w, Edited(w, work[w].op, "queued", work[w].todo, FALSE, work[w].eligible, work[w].toDraft))
      BY <1>0, <2>1 DEF Set, Edited, Jobs
    <3> QED
      BY <1>0, <1>j, <3>1, EditAside DEF QueueRow, Spots
  <2> QED
    BY <1>j, <1>2, <2>1 DEF QueueRow
<1>k. CASE Queued(w)
  <2>1. CASE Manual(w) /\ Goto(w, "claim")
    <3>1. work[w].at = "queued" /\ work[w].m \in Inbound /\ work[w].op = "send"
      BY <1>0, <1>k, <2>1 DEF Queued, JobOK, Manual
    <3> QED
      BY <2>1, <3>1, GotoLands DEF Aside, Spots
  <2> QED
    BY <1>k, <1>2, <2>1 DEF Queued
<1>l. CASE PutDraft(w)
  BY <1>l, <1>2 DEF PutDraft
<1>m. CASE CancelOwn(w)
  <2>1. ASSUME NEW d \in {"DISMISSED", "DRAFT", "HELD"},
               Set(w, [work[w] EXCEPT !.at = "putDraft", !.toDraft = d])
        PROVE  \E j : Aside(w, j)
    <3>1. Set(w, Edited(w, work[w].op, "putDraft", work[w].todo, work[w].fresh, work[w].eligible, d))
      BY <1>0, <2>1 DEF Set, Edited, Jobs
    <3> QED
      BY <1>0, <1>m, <2>1, <3>1, EditAside DEF CancelOwn, Spots, DraftStatuses
  <2>2. CASE Set(w, [work[w] EXCEPT !.op = "unsub", !.at = "suppress", !.toDraft = "DISMISSED"])
    <3>1. Set(w, Edited(w, "unsub", "suppress", work[w].todo, work[w].fresh, work[w].eligible, "DISMISSED"))
      BY <1>0, <2>2 DEF Set, Edited, Jobs
    <3> QED
      BY <1>0, <1>m, <3>1, EditAside DEF CancelOwn, Spots, DraftStatuses, Ops
  <2>3. CASE Set(w, NoJob)
    BY <1>m, <2>3, IdleJob DEF Aside, Lands, CancelOwn
  <2> QED
    BY <1>m, <2>1, <2>2, <2>3 DEF CancelOwn
<1> QED
  BY <1>a, <1>b, <1>c, <1>d, <1>e, <1>f, <1>g, <1>h, <1>i, <1>j, <1>k, <1>l, <1>m DEF Handler

\* The calls that begin, the kill switch and the flush up to a claim.
Opens(w) ==
  \/ Arrive(w) /\ work' # work
  \/ StartKill(w) \/ ListQueued(w) \/ CancelRows(w) \/ CancelDrafts(w)
  \/ StartFlush(w) \/ NextRow(w)
  \/ \E m \in Inbound : StartSend(w, m) \/ StartRevise(w, m)

\* These are aside too.
LEMMA OpensAside ==
  ASSUME TypeOK, WorkInv, NEW w \in Workers, Opens(w)
  PROVE  \E j : Aside(w, j)
<1> USE DEF Past, Tried, Held, Apart, At
<1>0. /\ work[w] \in Jobs /\ JobOK(work[w]) /\ arrived \in 0 .. Last
      /\ work[w].todo \in SUBSET Inbound
  BY DEF TypeOK, WorkInv, Jobs
<1>1. CASE Set(w, NoJob) /\ work[w].at \notin Past
  BY <1>1, IdleJob DEF Aside, Lands
<1>a. CASE Arrive(w) /\ work' # work
  <2>1. arrived + 1 \in Inbound /\ arrived + 1 \in 0 .. Last /\ work[w].at = "idle"
    BY <1>0, <1>a, Numbers DEF Arrive, Inbound
  <2>2. CASE Set(w, [NoJob EXCEPT !.op = "unsub", !.m = arrived + 1, !.at = "suppress"])
    <3> DEFINE j == [NoJob EXCEPT !.op = "unsub", !.m = arrived + 1, !.at = "suppress"]
    <3>1. j \in Jobs /\ j.at = "suppress" /\ j.m = arrived + 1 /\ j.late = {} /\ j.toRow = "NONE" /\ j.toDraft = "NONE"
      BY <2>1, IdleJob DEF Jobs, Ops, Spots
    <3>2. Set(w, j)
      BY <2>2
    <3> HIDE DEF j
    <3> QED
      BY <3>1, <3>2, BeginAside, <2>1
  <2>3. ASSUME NEW e \in BOOLEAN,
               Set(w, [NoJob EXCEPT !.op = "inbound", !.m = arrived + 1, !.at = "stale",
                                    !.eligible = e])
        PROVE  \E j : Aside(w, j)
    <3> DEFINE i == [NoJob EXCEPT !.op = "inbound", !.m = arrived + 1, !.at = "stale"]
               j == [NoJob EXCEPT !.op = "inbound", !.m = arrived + 1, !.at = "stale", !.eligible = e]
    <3>0. i \in Jobs /\ j = [i EXCEPT !.eligible = e] /\ j.at = "stale" /\ j.m = arrived + 1
      BY <2>1, IdleJob DEF Jobs, Ops, Spots
    <3>3. j.late = {} /\ j.toRow = "NONE" /\ j.toDraft = "NONE"
      BY IdleJob DEF Jobs
    <3> HIDE DEF i
    <3>4. [i EXCEPT !.eligible = e] \in Jobs
      BY <2>3, <3>0 DEF Jobs
    <3>1. j \in Jobs /\ j.at = "stale" /\ j.m = arrived + 1 /\ j.late = {} /\ j.toRow = "NONE" /\ j.toDraft = "NONE"
      BY <3>0, <3>3, <3>4
    <3>2. Set(w, j)
      BY <2>3
    <3> HIDE DEF j
    <3> QED
      BY <3>1, <3>2, BeginAside, <2>1
  <2> QED
    BY <1>a, <2>2, <2>3 DEF Arrive
<1>b. CASE StartKill(w)
  <2> DEFINE j == [NoJob EXCEPT !.op = "kill", !.at = "list", !.toDraft = "CANCELLED"]
  <2>1. j \in Jobs /\ j.at = "list" /\ j.late = {} /\ j.toRow = "NONE" /\ j.toDraft = "CANCELLED"
    BY IdleJob DEF Jobs, Ops, Spots, DraftStatuses
  <2>2. Set(w, j)
    BY <1>b DEF StartKill
  <2> HIDE DEF j
  <2> QED
    BY <2>1, <2>2, BeginAside, <1>b DEF StartKill
<1>c. CASE ListQueued(w)
  <2> DEFINE ms == {m \in Inbound : InRow(m, {"QUEUED"})}
             j == [work[w] EXCEPT !.at = "cancelRows", !.todo = ms]
  <2>1. CASE Set(w, j)
    <3>1. /\ j \in Jobs /\ j.at = "cancelRows" /\ j.late = work[w].late
          /\ j.toRow = work[w].toRow /\ j.toDraft = work[w].toDraft
      BY <1>0 DEF Jobs, Spots
    <3>2. work[w].at = "list"
      BY <1>c DEF ListQueued
    <3> HIDE DEF j
    <3> QED
      BY <1>0, <2>1, <3>1, <3>2 DEF Aside, Lands, JobOK
  <2> QED
    BY <1>1, <1>c, <2>1 DEF ListQueued
<1>d. CASE CancelRows(w)
  BY <1>0, <1>d, GotoLands DEF CancelRows, Aside, Spots
<1>e. CASE CancelDrafts(w)
  BY <1>e, <1>1 DEF CancelDrafts
<1>f. CASE StartFlush(w)
  <2>0. work[w].at = "idle"
    BY <1>f DEF StartFlush
  <2>1. ASSUME NEW d \in {"CANCELLED", "DRAFT"},
               Set(w, [NoJob EXCEPT !.op = "flush", !.at = "list", !.toDraft = d])
        PROVE  \E j : Aside(w, j)
    <3> DEFINE j == [NoJob EXCEPT !.op = "flush", !.at = "list", !.toDraft = d]
    <3>1. j \in Jobs /\ j.at = "list" /\ j.late = {} /\ j.toRow = "NONE" /\ j.toDraft # "SENT"
      BY <2>1, IdleJob DEF Jobs, Ops, Spots, DraftStatuses
    <3>2. Set(w, j)
      BY <2>1
    <3> HIDE DEF j
    <3> QED
      BY <3>1, <3>2, BeginAside, <2>0
  <2> DEFINE due == {m \in Inbound : InRow(m, {"QUEUED"}) /\ row[m].due}
             next == [NoJob EXCEPT !.op = "flush", !.at = "next", !.todo = due]
  <2>2. CASE Set(w, next)
    <3>1. /\ next \in Jobs /\ JobOK(next) /\ next.at = "next" /\ next.late = {}
      BY IdleJob
    <3> HIDE DEF next
    <3> QED
      BY <2>0, <2>2, <3>1 DEF Aside, Lands
  <2> QED
    BY <1>f, <2>1, <2>2 DEF StartFlush
<1>g. CASE NextRow(w)
  <2>1. ASSUME NEW m \in work[w].todo,
               Set(w, [work[w] EXCEPT !.at = "claim", !.m = m, !.todo = @ \ {m}])
        PROVE  \E j : Aside(w, j)
    <3> DEFINE j == [work[w] EXCEPT !.at = "claim", !.m = m, !.todo = @ \ {m}]
    <3>1. /\ j \in Jobs /\ j.at = "claim" /\ j.late = work[w].late /\ j.m = m
          /\ j.op = work[w].op /\ j.toRow = work[w].toRow /\ j.toDraft = work[w].toDraft
      BY <1>0, Numbers DEF Jobs, Spots
    <3>2. work[w].at = "next" /\ m \in Inbound /\ Set(w, j)
      BY <1>0, <1>g, <2>1 DEF NextRow
    <3> HIDE DEF j
    <3> QED
      BY <1>0, <3>1, <3>2 DEF Aside, Lands, JobOK
  <2> QED
    BY <1>1, <1>g, <2>1 DEF NextRow
<1>h. ASSUME NEW m \in Inbound, StartSend(w, m) PROVE \E j : Aside(w, j)
  <2> DEFINE j == [NoJob EXCEPT !.op = "send", !.m = m, !.at = "queue"]
  <2>1. j \in Jobs /\ j.at = "queue" /\ j.m = m /\ j.late = {} /\ j.toRow = "NONE" /\ j.toDraft = "NONE"
    BY IdleJob, Numbers DEF Jobs, Ops, Spots
  <2>2. Set(w, j)
    BY <1>h DEF StartSend, Begin
  <2> HIDE DEF j
  <2> QED
    BY <2>1, <2>2, BeginAside, <1>h DEF StartSend, Begin
<1>i. ASSUME NEW m \in Inbound, StartRevise(w, m) PROVE \E j : Aside(w, j)
  <2> DEFINE j == [NoJob EXCEPT !.op = "revise", !.m = m, !.at = "cancelOwn"]
  <2>1. j \in Jobs /\ j.at = "cancelOwn" /\ j.m = m /\ j.late = {} /\ j.toRow = "NONE" /\ j.toDraft = "NONE"
    BY IdleJob, Numbers DEF Jobs, Ops, Spots
  <2>2. Set(w, j)
    BY <1>i DEF StartRevise, Begin
  <2> HIDE DEF j
  <2> QED
    BY <2>1, <2>2, BeginAside, <1>i DEF StartRevise, Begin
<1> QED
  BY <1>a, <1>b, <1>c, <1>d, <1>e, <1>f, <1>g, <1>h, <1>i DEF Opens

-----------------------------------------------------------------------------
(* The steps of a delivery *)

\* Its next state: the message is the same, and the call and what forbade the
\* delivery when it was claimed too, where it goes on.
Goes(w, j, at) ==
  Lands(w, j) /\ j.at = at /\ j.m = work[w].m /\ j.op = work[w].op /\ j.late = work[w].late
Ends(w, j)  == Lands(w, j) /\ j.at \in {"idle", "next"} /\ j.late = {}
Gives(w, j) == Lands(w, j) /\ j.at = "putRow" /\ j.m = work[w].m /\ j.late = {}

\* A claim takes a QUEUED row, and notes what forbids the delivery; or it ends.
LEMMA ClaimStep ==
  ASSUME TypeOK, WorkInv, NEW w \in Workers, Claim(w)
  PROVE  \E j : \/ Ends(w, j) /\ row' = row
                \/ /\ Lands(w, j) /\ j.at = "load" /\ j.m = work[w].m /\ j.op = work[w].op
                   /\ j.late = Forbidden(w) /\ InRow(Msg(w), {"QUEUED"})
                   /\ row' = [row EXCEPT ![Msg(w)] = [row[Msg(w)] EXCEPT !.status = "SENDING", !.tries = @ + 1]]
<1>1. work[w] \in Jobs /\ JobOK(work[w]) /\ work[w].at = "claim"
  BY DEF TypeOK, WorkInv, Claim, At
<1>2. CASE InRow(Msg(w), {"QUEUED"})
  <2> DEFINE j == [work[w] EXCEPT !.at = "load", !.late = Forbidden(w)]
  <2>0. Forbidden(w) \in SUBSET {"kill", "newer", "suppressed"}
    BY DEF Forbidden
  <2>1. /\ j \in Jobs /\ j.at = "load" /\ j.m = work[w].m /\ j.op = work[w].op
        /\ j.late = Forbidden(w) /\ j.toRow = work[w].toRow /\ j.toDraft = work[w].toDraft
    BY <1>1, <2>0 DEF Jobs, Spots
  <2>2. JobOK(j)
    BY <1>1, <2>1 DEF JobOK, Tried, Apart
  <2>3. Set(w, j) /\ row' = [row EXCEPT ![Msg(w)] = [row[Msg(w)] EXCEPT !.status = "SENDING", !.tries = @ + 1]]
    BY <1>2 DEF Claim
  <2> HIDE DEF j
  <2> QED
    BY <1>2, <2>1, <2>2, <2>3 DEF Lands
<1>3. CASE ~InRow(Msg(w), {"QUEUED"})
  BY <1>3, DoneLands DEF Claim, Ends
<1> QED
  BY <1>2, <1>3

\* What is loaded is given up, or looked at: a user's reply without the guard.
LEMMA LoadStep ==
  ASSUME TypeOK, WorkInv, NEW w \in Workers, Load(w)
  PROVE  \E j : \/ Gives(w, j)
                \/ Goes(w, j, "check") /\ Manual(w)
                \/ Goes(w, j, "guard") /\ ~Manual(w)
<1>1. /\ work[w] \in Jobs /\ JobOK(work[w]) /\ work[w].at = "load" /\ Msg(w) \in Inbound
      /\ work[w].at \in Tried
  BY DEF TypeOK, WorkInv, Load, At, JobOK, Apart, Msg, Tried, Held
<1>2. CASE draft[Msg(w)] # "QUEUED"
  BY <1>1, <1>2, PutLands DEF Load, Gives, RowStatuses, DraftStatuses
<1>3. CASE draft[Msg(w)] = "QUEUED"
  <2>1. row[Msg(w)].tries \in Nat
    BY <1>1 DEF TypeOK
  <2>2. ASSUME NEW at \in {"check", "guard"}, at = "guard" => ~Manual(w),
               Set(w, [work[w] EXCEPT !.at = at, !.tries = row[Msg(w)].tries])
        PROVE  \E j : Goes(w, j, at)
    <3> DEFINE j == [work[w] EXCEPT !.at = at, !.tries = row[Msg(w)].tries]
    <3>1. /\ j \in Jobs /\ j.at = at /\ j.m = work[w].m /\ j.op = work[w].op
          /\ j.late = work[w].late /\ j.toRow = work[w].toRow /\ j.toDraft = work[w].toDraft
      BY <1>1, <2>1, <2>2 DEF Jobs, Spots
    <3>2. JobOK(j)
      BY <1>1, <2>2, <3>1 DEF JobOK, Tried, Held, Apart, Manual
    <3>3. Set(w, j)
      BY <2>2
    <3> HIDE DEF j
    <3> QED
      BY <3>1, <3>2, <3>3 DEF Goes, Lands
  <2>3. Set(w, [work[w] EXCEPT !.at = IF Manual(w) THEN "check" ELSE "guard",
                               !.tries = row[Msg(w)].tries])
    BY <1>3 DEF Load
  <2>4. CASE Manual(w)
    BY <2>2, <2>3, <2>4
  <2>5. CASE ~Manual(w)
    BY <2>2, <2>3, <2>5
  <2> QED
    BY <2>4, <2>5
<1> QED
  BY <1>2, <1>3

\* The guard lets through only what the kill switch and the limit allow.
LEMMA GuardStep ==
  ASSUME TypeOK, WorkInv, NEW w \in Workers, Guard(w)
  PROVE  \E j : \/ Gives(w, j)
                \/ Goes(w, j, "check") /\ ~kill /\ replies < MaxReplies
<1>1. work[w].at \in Tried /\ work[w].at = "guard" /\ work[w].op = "flush" /\ work[w].m \in Inbound
  BY DEF TypeOK, WorkInv, Guard, At, JobOK, Tried, Held, Apart
<1>2. CASE kill \/ ~auto \/ replies >= MaxReplies
  BY <1>1, <1>2, PutLands DEF Guard, Gives, RowStatuses, DraftStatuses
<1>3. CASE ~kill /\ auto /\ ~(replies >= MaxReplies)
  <2>1. Goto(w, "check") /\ "check" \in Spots
    BY <1>3 DEF Guard, Spots
  <2>2. replies < MaxReplies
    BY <1>3, Numbers DEF TypeOK
  <2> QED
    BY <1>1, <1>3, <2>1, <2>2, GotoLands DEF Goes, Tried, Held, Apart
<1> QED
  BY <1>2, <1>3

\* The check lets through only what no suppression and no newer message forbids.
LEMMA CheckStep ==
  ASSUME TypeOK, WorkInv, NEW w \in Workers, Check(w)
  PROVE  \E j : \/ Gives(w, j)
                \/ Goes(w, j, "send") /\ ~suppressed /\ ~(arrived > Msg(w) /\ ~Manual(w))
<1>1. /\ work[w].at \in Tried /\ work[w].at = "check" /\ work[w].op \in {"flush", "send"}
      /\ work[w].m \in Inbound
  BY DEF TypeOK, WorkInv, Check, At, JobOK, Tried, Held, Apart
<1>2. CASE Put(w, "CANCELLED", "CANCELLED") \/ Put(w, "HELD", "HELD")
  BY <1>1, <1>2, PutLands DEF Gives, RowStatuses, DraftStatuses
<1>3. CASE Goto(w, "send") /\ ~suppressed /\ ~(arrived > Msg(w) /\ ~Manual(w))
  BY <1>1, <1>3, GotoLands DEF Goes, Spots
<1> QED
  BY <1>2, <1>3 DEF Check

\* A reply that went out is to be recorded, by the same worker.
LEMMA SendStep ==
  ASSUME TypeOK, WorkInv, NEW w \in Workers, Send(w)
  PROVE  \E j : /\ Lands(w, j) /\ j.at = "sentRow" /\ j.m = work[w].m /\ j.op = work[w].op
                /\ j.late = {}
<1>1. work[w] \in Jobs /\ JobOK(work[w]) /\ work[w].at = "send"
  BY DEF TypeOK, WorkInv, Send, At
<1> DEFINE j == [work[w] EXCEPT !.at = "sentRow", !.late = {}]
<1>2. /\ j \in Jobs /\ j.at = "sentRow" /\ j.m = work[w].m /\ j.op = work[w].op
      /\ j.late = {} /\ j.toRow = work[w].toRow /\ j.toDraft = work[w].toDraft
  BY <1>1 DEF Jobs, Spots
<1>3. JobOK(j)
  BY <1>1, <1>2 DEF JobOK, Tried, Held, Apart
<1>4. Set(w, j)
  BY DEF Send
<1> HIDE DEF j
<1> QED
  BY <1>2, <1>3, <1>4 DEF Lands

\* Its records follow each other, and any of them may throw.
LEMMA RecordStep ==
  ASSUME TypeOK, WorkInv, NEW w \in Workers
  PROVE  /\ SentRow(w) => \E j : Goes(w, j, "sentDraft")
         /\ SentDraft(w) => \E j : Goes(w, j, "sentCount")
         /\ SentCount(w) => \E j : Ends(w, j)
         /\ SendFails(w) => \E j : Goes(w, j, "caught")
<1>1. /\ work[w].at \notin Apart => work[w].m \in Inbound
      /\ work[w].at \in Tried => work[w].op \in {"flush", "send"}
  BY DEF WorkInv, JobOK
<1>2. ASSUME NEW at \in {"sentDraft", "sentCount", "caught"}, Goto(w, at),
             work[w].at \in {"send", "sentRow", "sentDraft", "sentCount"}
      PROVE  \E j : Goes(w, j, at)
  BY <1>1, <1>2, GotoLands DEF Goes, Spots, Tried, Held, Apart
<1>3. SentRow(w) => \E j : Goes(w, j, "sentDraft")
  BY <1>2 DEF SentRow, At
<1>4. SentDraft(w) => \E j : Goes(w, j, "sentCount")
  BY <1>2 DEF SentDraft, At
<1>5. SentCount(w) => \E j : Ends(w, j)
  BY DoneLands DEF SentCount, Ends
<1>6. SendFails(w) => \E j : Goes(w, j, "caught")
  BY <1>2 DEF SendFails, Sending, Recording, At
<1> QED
  BY <1>3, <1>4, <1>5, <1>6

\* What was caught is queued again, or given up.
LEMMA CaughtStep ==
  ASSUME TypeOK, WorkInv, NEW w \in Workers, Caught(w)
  PROVE  \E j : \/ Gives(w, j) /\ row' = row
                \/ /\ Ends(w, j)
                   /\ row' = [row EXCEPT ![Msg(w)] = [@ EXCEPT !.status = "QUEUED", !.due = FALSE]]
<1>1. work[w].at \in Tried
  BY DEF Caught, At, Tried, Held
<1>2. CASE work[w].tries < MaxAttempts /\ ~Manual(w)
  BY <1>2, DoneLands DEF Caught, Ends
<1>3. CASE ~(work[w].tries < MaxAttempts /\ ~Manual(w))
  BY <1>1, <1>3, PutLands DEF Caught, Gives, RowStatuses, DraftStatuses
<1> QED
  BY <1>2, <1>3

\* After the row the draft is written, or nothing.
LEMMA PutRowStep ==
  ASSUME TypeOK, WorkInv, NEW w \in Workers, PutRow(w)
  PROVE  \E j : Ends(w, j) \/ Goes(w, j, "putDraft")
<1>1. work[w].at = "putRow" /\ work[w].m \in Inbound
  BY DEF WorkInv, JobOK, PutRow, At, Apart
<1>2. CASE Done(w)
  BY <1>2, DoneLands DEF Ends
<1>3. CASE Goto(w, "putDraft")
  BY <1>1, <1>3, GotoLands DEF Goes, Spots, Tried, Held, Apart
<1> QED
  BY <1>2, <1>3 DEF PutRow

\* A crash ends the call, an exception the delivery.
LEMMA CrashStep ==
  ASSUME TypeOK, WorkInv, NEW w \in Workers, Crash(w)
  PROVE  \E j : Ends(w, j)
<1>1. CASE Set(w, NoJob)
  BY <1>1, IdleJob DEF Ends, Lands
<1>2. CASE Done(w)
  BY <1>2, DoneLands DEF Ends
<1> QED
  BY <1>1, <1>2 DEF Crash

-----------------------------------------------------------------------------
(* What the other steps leave alone *)

\* Settings only get stricter, nothing is sent, counted, lost; a row that is being
\* sent, or sent, stays so unless it is overtaken; and nothing becomes SENT.
Quiet ==
  /\ (kill => kill') /\ (suppressed => suppressed') /\ arrived <= arrived'
  /\ mailed' = mailed /\ replies' = replies
  /\ lost' = lost /\ crowded' = crowded /\ overtaken \subseteq overtaken'
  /\ \A m \in Inbound :
       /\ draft'[m] = "SENT" => draft[m] = "SENT"
       /\ row'[m].status = "SENT" => row[m].status = "SENT"
       /\ m \notin overtaken' /\ row[m].status \in {"SENDING", "SENT"}
            => row'[m].status = row[m].status

Side(w) == Handler(w) \/ PutDraft(w) \/ CancelOwn(w) \/ Opens(w)

\* A row is only cancelled while it waits.
LEMMA CancelQuiet ==
  ASSUME TypeOK, NEW ms, NEW ss \in SUBSET {"QUEUED", "HELD"}, Cancel(ms, ss)
  PROVE  \A m \in Inbound :
           /\ row'[m].status = "SENT" => row[m].status = "SENT"
           /\ row[m].status \in {"SENDING", "SENT"} => row'[m].status = row[m].status
<1> SUFFICES ASSUME NEW m \in Inbound
             PROVE  /\ row'[m].status = "SENT" => row[m].status = "SENT"
                    /\ row[m].status \in {"SENDING", "SENT"} => row'[m].status = row[m].status
  OBVIOUS
<1>1. row[m] \in [status : RowStatuses \cup {"NONE"}, tries : Nat, due : BOOLEAN]
  BY DEF TypeOK
<1>2. row'[m] = IF m \in ms /\ InRow(m, ss) THEN [row[m] EXCEPT !.status = "CANCELLED"] ELSE row[m]
  BY DEF Cancel
<1> QED
  BY <1>1, <1>2 DEF InRow

\* No step aside touches what the provider took, what was counted, or a claimed row.
LEMMA SideQuiet ==
  ASSUME TypeOK, WorkInv, NEW w \in Workers, Side(w)
  PROVE  Quiet
<1>0. arrived \in Nat
  BY Numbers DEF TypeOK
<1> USE <1>0
<1>1. work[w].toDraft # "SENT" /\ (work[w].at \notin Apart => work[w].m \in Inbound)
  BY DEF WorkInv, JobOK
<1>a. CASE Stale(w) \/ Classify(w) \/ Persist(w) \/ Queue(w) \/ ListQueued(w) \/ StartFlush(w)
           \/ NextRow(w) \/ (\E m \in Inbound : StartSend(w, m) \/ StartRevise(w, m))
  <2>1. UNCHANGED <<arrived, draft, row, replies, config, mailed, hist>>
    BY <1>a DEF Stale, Classify, Persist, Queue, ListQueued, StartFlush, NextRow, StartSend, StartRevise
  <2> QED
    BY <2>1 DEF Quiet, config, hist
<1>b. CASE Suppress(w) \/ StartKill(w) \/ Arrive(w)
  BY <1>b DEF Quiet, Suppress, StartKill, Arrive, config, hist
<1>c. CASE DropRows(w)
  <2>1. Cancel(Inbound, {"QUEUED", "HELD"})
    BY <1>c DEF DropRows
  <2> QED
    BY <1>c, <2>1, CancelQuiet DEF DropRows, Quiet, config, hist
<1>d. CASE StaleRows(w)
  <2>1. Cancel(Inbound \ {Msg(w)}, {"QUEUED"})
    BY <1>d DEF StaleRows
  <2> QED
    BY <1>d, <2>1, CancelQuiet DEF StaleRows, Quiet, config, hist
<1>e. CASE CancelOwn(w)
  <2>1. Cancel({Msg(w)}, {"QUEUED", "HELD"})
    BY <1>e DEF CancelOwn
  <2> QED
    BY <1>e, <2>1, CancelQuiet DEF CancelOwn, Quiet, config, hist
<1>f. CASE CancelRows(w)
  <2>1. Cancel(work[w].todo, {"QUEUED"})
    BY <1>f DEF CancelRows
  <2> QED
    BY <1>f, <2>1, CancelQuiet DEF CancelRows, Quiet, config, hist
<1>g. CASE StaleDrafts(w) \/ CancelDrafts(w)
  <2>1. \A m \in Inbound : draft'[m] \in {draft[m], "CANCELLED", work[w].toDraft}
    BY <1>g DEF StaleDrafts, CancelDrafts
  <2>2. \A m \in Inbound : draft'[m] = "SENT" => draft[m] = "SENT"
    BY <1>1, <2>1
  <2> QED
    BY <1>g, <2>2 DEF StaleDrafts, CancelDrafts, Quiet, config, hist
<1>h. CASE Upsert(w) \/ PutDraft(w) \/ Queued(w)
  <2>1. \A m \in Inbound : draft'[m] \in {draft[m], "QUEUED", work[w].toDraft}
    BY <1>h DEF Upsert, PutDraft, Queued, TypeOK
  <2>2. \A m \in Inbound : draft'[m] = "SENT" => draft[m] = "SENT"
    BY <1>1, <2>1
  <2> QED
    BY <1>h, <2>2 DEF Upsert, PutDraft, Queued, Quiet, config, hist
<1>i. CASE QueueRow(w)
  <2>1. Msg(w) \in Inbound
    BY <1>1, <1>i DEF QueueRow, At, Apart, Msg
  <2>2. CASE row' = [row EXCEPT ![Msg(w)] = [status |-> "QUEUED", tries |-> 0, due |-> Manual(w)]]
             /\ overtaken' = IF InRow(Msg(w), {"SENDING", "SENT"})
                             THEN overtaken \cup {Msg(w)} ELSE overtaken
    <3>1. \A m \in Inbound : row'[m] = IF m = Msg(w)
                                       THEN [status |-> "QUEUED", tries |-> 0, due |-> Manual(w)]
                                       ELSE row[m]
      BY <2>1, <2>2 DEF TypeOK
    <3>2. \A m \in Inbound :
            /\ row'[m].status = "SENT" => row[m].status = "SENT"
            /\ m \notin overtaken' /\ row[m].status \in {"SENDING", "SENT"}
                 => row'[m].status = row[m].status
      BY <2>1, <2>2, <3>1 DEF InRow
    <3> QED
      BY <1>i, <2>2, <3>2 DEF QueueRow, Quiet, config, hist
  <2>3. CASE UNCHANGED <<row, overtaken>>
    BY <1>i, <2>3 DEF QueueRow, Quiet, config, hist
  <2> QED
    BY <1>i, <2>2, <2>3 DEF QueueRow
<1> QED
  BY <1>a, <1>b, <1>c, <1>d, <1>e, <1>f, <1>g, <1>h, <1>i DEF Side, Handler, Opens

\* A reply that becomes due.
LEMMA TickQuiet ==
  ASSUME TypeOK, NEW m \in Inbound, Tick(m)
  PROVE  Quiet /\ work' = work
<1>1. \A n \in Inbound : row'[n].status = row[n].status
  BY DEF TypeOK, Tick
<1> QED
  BY <1>1, Numbers DEF Quiet, Tick, TypeOK, config, hist

\* Every step is one of these.
LEMMA NextCases ==
  ASSUME TypeOK, WorkInv, Next
  PROVE  \/ Quiet /\ work' = work
         \/ KillOff
         \/ \E w \in Workers : \E j : Aside(w, j) /\ Quiet
         \/ \E w \in Workers :
              \/ Claim(w) \/ Load(w) \/ Guard(w) \/ Check(w) \/ Send(w) \/ SentRow(w)
              \/ SentDraft(w) \/ SentCount(w) \/ SendFails(w) \/ Caught(w) \/ PutRow(w)
              \/ Crash(w)
<1>1. ASSUME NEW w \in Workers, Side(w)
      PROVE  \E x \in Workers : \E j : Aside(x, j) /\ Quiet
  BY <1>1, HandlerAside, OpensAside, SideQuiet DEF Side
<1>2. CASE SetAuto
  BY <1>2, Numbers DEF SetAuto, Quiet, hist, Click, TypeOK
<1>3. ASSUME NEW w \in Workers, Arrive(w), work' = work
      PROVE  Quiet
  BY <1>3, Numbers DEF Arrive, Quiet, hist, config, TypeOK
<1>4. ASSUME NEW w \in Workers,
             \/ Arrive(w) \/ Handler(w) \/ Switch(w) \/ StartFlush(w) \/ NextRow(w)
             \/ PutDraft(w) \/ CancelOwn(w)
             \/ \E m \in Inbound : StartSend(w, m) \/ StartRevise(w, m)
      PROVE  Side(w) \/ (Quiet /\ work' = work)
  BY <1>3, <1>4 DEF Side, Opens, Switch
<1> QED
  BY <1>1, <1>2, <1>4, TickQuiet DEF Next, Deliver

-----------------------------------------------------------------------------
(* Every step keeps the types *)

Row == [status : RowStatuses \cup {"NONE"}, tries : Nat, due : BOOLEAN]

\* All of TypeOK but the workers.
DataOK ==
  /\ arrived \in 0 .. Last /\ replies \in 0 .. MaxReplies + 1
  /\ draft \in [Inbound -> DraftStatuses \cup {"NONE"}] /\ row \in [Inbound -> Row]
  /\ kill \in BOOLEAN /\ auto \in BOOLEAN /\ suppressed \in BOOLEAN
  /\ mailed \in [Inbound -> 0 .. 2]
  /\ clicks \in 0 .. MaxClicks /\ mishaps \in 0 .. MaxMishaps
  /\ lost \subseteq Inbound /\ overtaken \subseteq Inbound /\ crowded \in BOOLEAN

\* What is below its bound can be increased.
LEMMA Counts ==
  ASSUME TypeOK
  PROVE  /\ clicks < MaxClicks => clicks + 1 \in 0 .. MaxClicks
         /\ mishaps < MaxMishaps => mishaps + 1 \in 0 .. MaxMishaps
         /\ arrived < Last => arrived + 1 \in 0 .. Last
         /\ replies <= MaxReplies => replies + 1 \in 0 .. MaxReplies + 1
         /\ ~(replies > MaxReplies) => replies + 1 \in 0 .. MaxReplies + 1
BY Numbers DEF TypeOK

\* What the steps make of a row is a row.
LEMMA RowTypes ==
  ASSUME TypeOK, NEW m \in Inbound
  PROVE  /\ row[m] \in Row /\ row[m].tries + 1 \in Nat
         /\ \A s \in RowStatuses : [row[m] EXCEPT !.status = s] \in Row
         /\ [row[m] EXCEPT !.due = TRUE] \in Row
         /\ [row[m] EXCEPT !.status = "SENDING", !.tries = @ + 1] \in Row
         /\ [row[m] EXCEPT !.status = "QUEUED", !.due = FALSE] \in Row
<1>1. row[m] \in Row /\ row[m].tries + 1 \in Nat
  BY DEF TypeOK, Row
<1>2. \A s \in RowStatuses : [row[m] EXCEPT !.status = s] \in Row
  BY <1>1 DEF Row
<1>3. [row[m] EXCEPT !.due = TRUE] \in Row
  BY <1>1 DEF Row
<1>4. [row[m] EXCEPT !.status = "SENDING", !.tries = @ + 1] \in Row
  BY <1>1 DEF Row, RowStatuses
<1>5. [row[m] EXCEPT !.status = "QUEUED", !.due = FALSE] \in Row
  BY <1>1 DEF Row, RowStatuses
<1> QED
  BY <1>1, <1>2, <1>3, <1>4, <1>5

\* A step at one row gives it a row.
LEMMA RowSet ==
  ASSUME TypeOK, NEW m \in Inbound, NEW r \in Row, row' = [row EXCEPT ![m] = r]
  PROVE  row' \in [Inbound -> Row]
BY DEF TypeOK, Row

\* Cancelled rows are rows.
LEMMA CancelTypes ==
  ASSUME TypeOK, NEW ms, NEW ss, Cancel(ms, ss)
  PROVE  row' \in [Inbound -> Row]
<1>1. \A m \in Inbound : [row[m] EXCEPT !.status = "CANCELLED"] \in Row /\ row[m] \in Row
  BY RowTypes DEF RowStatuses
<1> QED
  BY <1>1 DEF Cancel

\* Every step keeps the types of what is not a worker's.
LEMMA DataStep ==
  ASSUME TypeOK, WorkInv, Next
  PROVE  DataOK'
<1>0. DataOK
  BY DEF TypeOK, DataOK, Row
<1> SUFFICES ASSUME NEW w \in Workers,
               \/ Arrive(w) \/ Handler(w) \/ Switch(w) \/ StartFlush(w) \/ NextRow(w)
               \/ Deliver(w) \/ CancelOwn(w) \/ Crash(w)
               \/ \E m \in Inbound : StartSend(w, m) \/ StartRevise(w, m)
               \/ KillOff \/ SetAuto \/ \E m \in Inbound : Tick(m)
             PROVE  DataOK'
  BY AiReplyAssumption DEF Next
<1>1. /\ work[w].toDraft \in DraftStatuses \cup {"NONE"} /\ work[w].toRow \in RowStatuses \cup {"NONE"}
      /\ work[w].at \notin Apart => work[w].m \in Inbound
  BY DEF TypeOK, Jobs, WorkInv, JobOK
<1>a. CASE \/ Stale(w) \/ Classify(w) \/ Persist(w) \/ Queue(w) \/ ListQueued(w)
           \/ StartFlush(w) \/ NextRow(w) \/ Load(w) \/ Check(w)
  <2>1. UNCHANGED <<arrived, draft, row, replies, config, mailed, bounds, hist>>
    BY <1>a DEF Stale, Classify, Persist, Queue, ListQueued, StartFlush, NextRow, Load, Check
  <2> QED
    BY <1>0, <2>1 DEF DataOK, config, bounds, hist
<1>b. CASE Arrive(w)
  BY <1>0, <1>b, Counts DEF Arrive, DataOK, config, bounds, hist
<1>c. CASE Suppress(w)
  BY <1>0, <1>c DEF Suppress, DataOK, bounds, hist
<1>d. CASE StartKill(w) \/ KillOff \/ SetAuto
  BY <1>0, <1>d, Counts DEF StartKill, KillOff, SetAuto, Click, DataOK, hist
<1>e. CASE \E m \in Inbound : StartSend(w, m) \/ StartRevise(w, m)
  <2>1. Click /\ UNCHANGED <<arrived, draft, row, replies, config, mailed, hist>>
    BY <1>e DEF StartSend, StartRevise
  <2> QED
    BY <1>0, <2>1, Counts DEF Click, DataOK, config, hist
<1>f. CASE DropRows(w) \/ StaleRows(w) \/ CancelOwn(w) \/ CancelRows(w)
  <2>1. row' \in [Inbound -> Row]
    BY <1>f, CancelTypes DEF DropRows, StaleRows, CancelOwn, CancelRows
  <2>2. UNCHANGED <<arrived, draft, replies, config, mailed, bounds, hist>>
    BY <1>f DEF DropRows, StaleRows, CancelOwn, CancelRows
  <2> QED
    BY <1>0, <2>1, <2>2 DEF DataOK, config, bounds, hist
<1>g. CASE \/ StaleDrafts(w) \/ CancelDrafts(w) \/ Upsert(w) \/ PutDraft(w) \/ Queued(w)
           \/ SentDraft(w)
  <2>1. draft' \in [Inbound -> DraftStatuses \cup {"NONE"}]
    BY <1>0, <1>1, <1>g DEF StaleDrafts, CancelDrafts, Upsert, PutDraft, Queued, SentDraft, DataOK,
       DraftStatuses
  <2>2. UNCHANGED <<arrived, row, replies, config, mailed, bounds, hist>>
    BY <1>g DEF StaleDrafts, CancelDrafts, Upsert, PutDraft, Queued, SentDraft
  <2> QED
    BY <1>0, <2>1, <2>2 DEF DataOK, config, bounds, hist
<1>h. CASE QueueRow(w)
  <2>1. Msg(w) \in Inbound
    BY <1>1, <1>h DEF QueueRow, At, Apart, Msg
  <2>2. [status |-> "QUEUED", tries |-> 0, due |-> Manual(w)] \in Row
    BY DEF Row, RowStatuses, Manual
  <2>3. row' \in [Inbound -> Row]
    BY <1>0, <1>h, <2>1, <2>2, RowSet DEF QueueRow, DataOK
  <2>4. overtaken' \subseteq Inbound
    BY <1>0, <1>h, <2>1 DEF QueueRow, DataOK
  <2> QED
    BY <1>0, <1>h, <2>3, <2>4 DEF QueueRow, DataOK, config, bounds
<1>i. CASE Claim(w) \/ SentRow(w) \/ Caught(w) \/ PutRow(w)
  <2>1. Msg(w) \in Inbound
    BY <1>1, <1>i DEF Claim, SentRow, Caught, PutRow, At, Apart, Msg
  <2>2. row' \in [Inbound -> Row]
    <3>1. CASE Claim(w)
      <4>1. \/ row' = row
            \/ row' = [row EXCEPT ![Msg(w)] = [row[Msg(w)] EXCEPT !.status = "SENDING", !.tries = @ + 1]]
        BY <3>1, ClaimStep
      <4>2. [row[Msg(w)] EXCEPT !.status = "SENDING", !.tries = @ + 1] \in Row
        BY <2>1, RowTypes
      <4> QED
        BY <1>0, <2>1, <4>1, <4>2, RowSet DEF DataOK
    <3>2. CASE Caught(w)
      BY <1>0, <2>1, <3>2, RowTypes, RowSet DEF Caught, DataOK
    <3>3. ASSUME NEW s \in RowStatuses \cup {"NONE"}, row' = [row EXCEPT ![Msg(w)].status = s]
          PROVE  row' \in [Inbound -> Row]
      <4>1. row' = [row EXCEPT ![Msg(w)] = [row[Msg(w)] EXCEPT !.status = s]]
        BY <1>0, <2>1, <3>3 DEF DataOK
      <4>2. [row[Msg(w)] EXCEPT !.status = s] \in Row
        BY <2>1, RowTypes, <3>3 DEF Row
      <4> QED
        BY <2>1, <4>1, <4>2, RowSet
    <3>4. CASE SentRow(w)
      BY <3>3, <3>4 DEF SentRow, RowStatuses
    <3>5. CASE PutRow(w)
      BY <1>1, <3>3, <3>5 DEF PutRow
    <3> QED
      BY <1>i, <3>1, <3>2, <3>4, <3>5
  <2>3. UNCHANGED <<arrived, draft, replies, config, mailed, bounds, hist>>
    BY <1>i DEF Claim, SentRow, Caught, PutRow
  <2> QED
    BY <1>0, <2>2, <2>3 DEF DataOK, config, bounds, hist
<1>j. CASE \E m \in Inbound : Tick(m)
  <2>1. PICK m \in Inbound : Tick(m)
    BY <1>j
  <2>2. row' = [row EXCEPT ![m] = [row[m] EXCEPT !.due = TRUE]]
    BY <1>0, <2>1 DEF Tick, DataOK
  <2>3. row' \in [Inbound -> Row]
    BY <2>2, RowTypes, RowSet
  <2> QED
    BY <1>0, <2>1, <2>3 DEF Tick, DataOK, config, bounds, hist
<1>k. CASE Guard(w)
  <2>1. crowded' \in BOOLEAN
    BY <1>k DEF Guard
  <2>2. UNCHANGED <<arrived, draft, row, replies, config, mailed, bounds, lost, overtaken>>
    BY <1>k DEF Guard
  <2> QED
    BY <1>0, <2>1, <2>2 DEF DataOK, config, bounds
<1>l. CASE Send(w)
  <2>1. Msg(w) \in Inbound
    BY <1>1, <1>l DEF Send, At, Apart, Msg
  <2>2. mailed' \in [Inbound -> 0 .. 2]
    BY <1>0, <1>l, <2>1 DEF Send, DataOK
  <2> QED
    BY <1>0, <1>l, <2>2 DEF Send, DataOK, config, bounds, hist
<1>m. CASE SentCount(w)
  <2>1. replies' \in 0 .. MaxReplies + 1
    BY <1>0, <1>m, Counts DEF SentCount, DataOK
  <2> QED
    BY <1>0, <1>m, <2>1 DEF SentCount, DataOK, config, bounds, hist
<1>n. CASE SendFails(w) \/ Crash(w)
  <2>1. lost' \subseteq Inbound
    BY <1>0, <1>1, <1>n DEF SendFails, Crash, Recording, DataOK, Apart, Msg
  <2>2. replies' \in 0 .. MaxReplies + 1
    BY <1>0, <1>n, Counts DEF SendFails, Crash, DataOK
  <2>3. mishaps' \in 0 .. MaxMishaps /\ clicks' = clicks
    BY <1>n, Counts DEF SendFails, Crash, Mishap
  <2>4. UNCHANGED <<arrived, draft, row, config, mailed, overtaken, crowded>>
    BY <1>n DEF SendFails, Crash
  <2> QED
    BY <1>0, <2>1, <2>2, <2>3, <2>4 DEF DataOK, config
<1> QED
  BY <1>a, <1>b, <1>c, <1>d, <1>e, <1>f, <1>g, <1>h, <1>i, <1>j, <1>k, <1>l, <1>m, <1>n
  DEF Handler, Switch, Deliver

\* Turning the kill switch off takes it off what forbade a delivery.
LEMMA KillOffWork ==
  ASSUME TypeOK, WorkInv, KillOff
  PROVE  /\ work' \in [Workers -> Jobs] /\ WorkInv'
         /\ \A w \in Workers :
              /\ work'[w].at = work[w].at /\ work'[w].op = work[w].op /\ work'[w].m = work[w].m
              /\ work'[w].late = work[w].late \ {"kill"}
<1>1. ASSUME NEW w \in Workers
      PROVE  /\ work'[w] \in Jobs /\ JobOK(work'[w])
             /\ work'[w].at = work[w].at /\ work'[w].op = work[w].op /\ work'[w].m = work[w].m
             /\ work'[w].late = work[w].late \ {"kill"}
  <2> DEFINE j == [work[w] EXCEPT !.late = @ \ {"kill"}]
  <2>1. work'[w] = j /\ work[w] \in Jobs /\ JobOK(work[w])
    BY DEF KillOff, TypeOK, WorkInv
  <2>2. /\ j \in Jobs /\ j.at = work[w].at /\ j.op = work[w].op /\ j.m = work[w].m
        /\ j.late = work[w].late \ {"kill"}
        /\ j.toRow = work[w].toRow /\ j.toDraft = work[w].toDraft
    BY <2>1 DEF Jobs
  <2> HIDE DEF j
  <2> QED
    BY <2>1, <2>2 DEF JobOK
<1> QED
  BY <1>1 DEF KillOff, WorkInv

\* Every other step that has a job of a worker change, changes one.
LEMMA LandStep ==
  ASSUME TypeOK, WorkInv, Next
  PROVE  \/ work' = work \/ KillOff \/ \E w \in Workers : \E j : Lands(w, j)
<1>1. ASSUME NEW w \in Workers,
             \/ Claim(w) \/ Load(w) \/ Guard(w) \/ Check(w) \/ Send(w) \/ SentRow(w)
             \/ SentDraft(w) \/ SentCount(w) \/ SendFails(w) \/ Caught(w) \/ PutRow(w)
             \/ Crash(w)
      PROVE  \E j : Lands(w, j)
  <2>1. CASE Claim(w) \/ Load(w) \/ Guard(w) \/ Check(w)
    BY <2>1, ClaimStep, LoadStep, GuardStep, CheckStep DEF Goes, Ends, Gives
  <2>2. CASE Send(w) \/ Caught(w) \/ PutRow(w) \/ Crash(w)
    BY <2>2, SendStep, CaughtStep, PutRowStep, CrashStep DEF Goes, Ends, Gives
  <2>3. CASE SentRow(w) \/ SentDraft(w) \/ SentCount(w) \/ SendFails(w)
    BY <2>3, RecordStep DEF Goes, Ends
  <2> QED
    BY <1>1, <2>1, <2>2, <2>3
<1> QED
  BY <1>1, NextCases DEF Aside

\* Every step keeps the types, and what the workers know.
LEMMA TypeStep ==
  ASSUME TypeOK, WorkInv, [Next]_vars
  PROVE  TypeOK' /\ WorkInv'
<1>1. CASE Next
  <2>1. work' \in [Workers -> Jobs] /\ WorkInv'
    BY <1>1, LandStep, LandsWell, KillOffWork DEF TypeOK, WorkInv
  <2> QED
    BY <1>1, <2>1, DataStep DEF TypeOK, DataOK, Row
<1>2. CASE UNCHANGED vars
  BY <1>2 DEF vars, config, bounds, hist, TypeOK, WorkInv
<1> QED
  BY <1>1, <1>2

-----------------------------------------------------------------------------
(* What was forbidden when it was claimed never sends *)

\* The kill switch (k) is still on and stops the delivery before it looks for newer
\* messages; of messages and suppressions (n, s) there is only more.
LateOK(j, n, k, s) ==
  /\ j.at \notin {"load", "guard", "check"} => j.late = {}
  /\ "kill" \in j.late => k /\ j.op # "send" /\ j.at # "check"
  /\ "newer" \in j.late => n > j.m /\ j.op # "send"
  /\ "suppressed" \in j.late => s
LateInv == \A w \in Workers : LateOK(work[w], arrived, kill, suppressed)

\* Settings that only get stricter.
Stricter ==
  (kill => kill') /\ (suppressed => suppressed') /\ arrived <= arrived'

\* What is noted of a worker stays true while it waits.
LEMMA LateKept ==
  ASSUME TypeOK, TypeOK', Stricter, NEW j \in Jobs, LateOK(j, arrived, kill, suppressed)
  PROVE  LateOK(j, arrived', kill', suppressed')
<1>1. arrived \in Nat /\ arrived' \in Nat /\ j.m \in Nat
  BY Numbers DEF TypeOK, Jobs
<1> QED
  BY <1>1 DEF LateOK, Stricter

\* A step after which what the worker has noted is true keeps the invariant.
LEMMA LateLands ==
  ASSUME TypeOK, WorkInv, TypeOK', LateInv, Stricter,
         NEW w \in Workers, NEW j, Lands(w, j), LateOK(j, arrived', kill', suppressed')
  PROVE  LateInv'
<1>1. ASSUME NEW x \in Workers
      PROVE  LateOK(work'[x], arrived', kill', suppressed')
  <2>1. CASE x = w
    BY <2>1, LandsWell
  <2>2. CASE x # w
    <3>1. work'[x] = work[x] /\ work[x] \in Jobs
      BY <2>2, LandsWell DEF TypeOK
    <3> QED
      BY <3>1, LateKept DEF LateInv
  <2> QED
    BY <2>1, <2>2
<1> QED
  BY <1>1 DEF LateInv

\* Every step does: the guard stops a kill, the check what is newer or suppressed.
LEMMA LateStep ==
  ASSUME TypeOK, WorkInv, TypeOK', WorkInv', LateInv, [Next]_vars
  PROVE  LateInv'
<1>0. ASSUME NEW w \in Workers
      PROVE  /\ work[w] \in Jobs /\ JobOK(work[w]) /\ LateOK(work[w], arrived, kill, suppressed)
  BY DEF TypeOK, WorkInv, LateInv
<1>1. CASE UNCHANGED vars
  BY <1>1 DEF vars, config, LateInv
<1>2. CASE Quiet /\ work' = work
  BY <1>0, <1>2, LateKept DEF Quiet, Stricter, LateInv
<1>3. CASE KillOff
  <2>1. /\ arrived' = arrived /\ suppressed' = suppressed
    BY <1>3 DEF KillOff
  <2>2. ASSUME NEW w \in Workers
        PROVE  LateOK(work'[w], arrived', kill', suppressed')
    <3>1. /\ work'[w].at = work[w].at /\ work'[w].op = work[w].op /\ work'[w].m = work[w].m
          /\ work'[w].late = work[w].late \ {"kill"}
      BY <1>3, KillOffWork
    <3> QED
      BY <1>0, <2>1, <3>1 DEF LateOK
  <2> QED
    BY <2>2 DEF LateInv
<1>4. ASSUME NEW w \in Workers, NEW j, Aside(w, j), Quiet
      PROVE  LateInv'
  <2>1. Stricter /\ Lands(w, j)
    BY <1>4 DEF Aside, Quiet, Stricter
  <2>2. work[w].late = {}
    BY <1>0, <1>4 DEF Aside, LateOK, Past, Tried, Held
  <2>3. LateOK(j, arrived', kill', suppressed')
    BY <1>4, <2>2 DEF Aside, LateOK
  <2> QED
    BY <2>1, <2>3, LateLands
<1>5. ASSUME NEW w \in Workers,
             \/ Claim(w) \/ Load(w) \/ Guard(w) \/ Check(w) \/ Send(w) \/ SentRow(w)
             \/ SentDraft(w) \/ SentCount(w) \/ SendFails(w) \/ Caught(w) \/ PutRow(w)
             \/ Crash(w)
      PROVE  LateInv'
  <2>0. arrived' = arrived /\ kill' = kill /\ suppressed' = suppressed /\ Stricter
    <3>1. UNCHANGED <<arrived, config>>
      BY <1>5 DEF Claim, Load, Guard, Check, Send, SentRow, SentDraft, SentCount, SendFails,
         Caught, PutRow, Crash
    <3> QED
      BY <3>1, Numbers DEF config, Stricter, TypeOK
  <2>1. ASSUME NEW j, Lands(w, j), LateOK(j, arrived, kill, suppressed)
        PROVE  LateInv'
    BY <2>0, <2>1, LateLands
  <2>2. ASSUME NEW j, Lands(w, j), j.late = {}
        PROVE  LateInv'
    BY <2>1, <2>2 DEF LateOK
  <2>3. ASSUME NEW j, NEW at, Goes(w, j, at), work[w].at \notin {"load", "guard", "check"}
        PROVE  LateInv'
    BY <1>0, <2>2, <2>3 DEF Goes, LateOK
  <2>a. CASE Claim(w)
    <3>1. PICK j : \/ Ends(w, j)
                   \/ /\ Lands(w, j) /\ j.at = "load" /\ j.m = work[w].m /\ j.op = work[w].op
                      /\ j.late = Forbidden(w)
      BY <2>a, ClaimStep
    <3>2. CASE Ends(w, j)
      BY <2>2, <3>2 DEF Ends
    <3>3. CASE Lands(w, j) /\ j.at = "load" /\ j.m = work[w].m /\ j.op = work[w].op
               /\ j.late = Forbidden(w)
      <4>1. LateOK(j, arrived, kill, suppressed)
        BY <3>3 DEF LateOK, Forbidden, Manual, Msg
      <4> QED
        BY <2>1, <3>3, <4>1
    <3> QED
      BY <3>1, <3>2, <3>3
  <2>b. CASE Load(w)
    <3>1. PICK j : \/ Gives(w, j)
                   \/ Goes(w, j, "check") /\ Manual(w)
                   \/ Goes(w, j, "guard") /\ ~Manual(w)
      BY <2>b, LoadStep
    <3>2. CASE Gives(w, j)
      BY <2>2, <3>2 DEF Gives
    <3>3. CASE ~Gives(w, j)
      <4>1. LateOK(j, arrived, kill, suppressed)
        BY <1>0, <3>1, <3>3 DEF LateOK, Goes, Manual
      <4> QED
        BY <2>1, <3>1, <3>3, <4>1 DEF Goes
    <3> QED
      BY <3>2, <3>3
  <2>c. CASE Guard(w)
    <3>1. PICK j : Gives(w, j) \/ (Goes(w, j, "check") /\ ~kill)
      BY <2>c, GuardStep
    <3>2. CASE Gives(w, j)
      BY <2>2, <3>2 DEF Gives
    <3>3. CASE Goes(w, j, "check") /\ ~kill
      <4>1. LateOK(j, arrived, kill, suppressed)
        BY <1>0, <3>3 DEF LateOK, Goes
      <4> QED
        BY <2>1, <3>3, <4>1 DEF Goes
    <3> QED
      BY <3>1, <3>2, <3>3
  <2>d. CASE Check(w)
    <3>1. PICK j : \/ Gives(w, j)
                   \/ Goes(w, j, "send") /\ ~suppressed /\ ~(arrived > Msg(w) /\ ~Manual(w))
      BY <2>d, CheckStep
    <3>2. CASE Gives(w, j)
      BY <2>2, <3>2 DEF Gives
    <3>3. CASE Goes(w, j, "send") /\ ~suppressed /\ ~(arrived > Msg(w) /\ ~Manual(w))
      <4>1. work[w].at = "check" /\ work[w].late \in SUBSET {"kill", "newer", "suppressed"}
        BY <1>0, <2>d DEF Check, At, Jobs
      <4>2. "kill" \notin work[w].late /\ "newer" \notin work[w].late
            /\ "suppressed" \notin work[w].late
        BY <1>0, <3>3, <4>1 DEF LateOK, Manual, Msg
      <4>3. work[w].late = {}
        BY <4>1, <4>2
      <4> QED
        BY <2>2, <3>3, <4>3 DEF Goes
    <3> QED
      BY <3>1, <3>2, <3>3
  <2>e. CASE Send(w)
    BY <2>e, <2>2, SendStep
  <2>f. CASE SentRow(w) \/ SentDraft(w) \/ SentCount(w) \/ SendFails(w)
    <3>1. work[w].at \notin {"load", "guard", "check"}
      BY <2>f DEF SentRow, SentDraft, SentCount, SendFails, Sending, Recording, At
    <3>2. (\E j : Ends(w, j)) \/ \E at \in {"sentDraft", "sentCount", "caught"} : \E j : Goes(w, j, at)
      BY <2>f, RecordStep
    <3> QED
      BY <2>2, <2>3, <3>1, <3>2 DEF Ends
  <2>g. CASE Caught(w)
    BY <2>g, <2>2, CaughtStep DEF Gives, Ends
  <2>h. CASE PutRow(w)
    <3>1. work[w].at = "putRow"
      BY <2>h DEF PutRow, At
    <3> QED
      BY <2>h, <3>1, <2>2, <2>3, PutRowStep DEF Ends
  <2>i. CASE Crash(w)
    BY <2>i, <2>2, CrashStep DEF Ends
  <2> QED
    BY <1>5, <2>a, <2>b, <2>c, <2>d, <2>e, <2>f, <2>g, <2>h, <2>i
<1> QED
  BY <1>1, <1>2, <1>3, <1>4, <1>5, NextCases

-----------------------------------------------------------------------------
(* What passes for sent was mailed *)

\* Who records a reply has mailed it.
MailedInv ==
  /\ SentWasMailed
  /\ \A w \in Workers : Recording(w) => mailed[Msg(w)] > 0

\* The status of the worker's row is set, and that of no other row.
Puts(w, s) ==
  \A m \in Inbound : row'[m].status = IF m = Msg(w) THEN s ELSE row[m].status

\* What the steps of a delivery make of the statuses.
LEMMA PutsRow ==
  ASSUME TypeOK, WorkInv, NEW w \in Workers
  PROVE  /\ Claim(w) => row' = row \/ Puts(w, "SENDING")
         /\ SentRow(w) => Puts(w, "SENT")
         /\ Caught(w) => row' = row \/ Puts(w, "QUEUED")
         /\ PutRow(w) => Puts(w, work[w].toRow)
<1>1. row \in [Inbound -> Row] /\ (work[w].at \notin Apart => Msg(w) \in Inbound)
  BY DEF TypeOK, Row, WorkInv, JobOK, Msg
<1>2. ASSUME NEW r, Msg(w) \in Inbound, row' = [row EXCEPT ![Msg(w)] = r]
      PROVE  Puts(w, r.status)
  BY <1>1, <1>2 DEF Puts
<1>3. ASSUME NEW s, Msg(w) \in Inbound, row' = [row EXCEPT ![Msg(w)].status = s]
      PROVE  Puts(w, s)
  <2>1. ASSUME NEW m \in Inbound
        PROVE  row'[m].status = IF m = Msg(w) THEN s ELSE row[m].status
    <3>1. row[m] \in Row
      BY <1>1
    <3>2. row'[m] = IF m = Msg(w) THEN [row[m] EXCEPT !.status = s] ELSE row[m]
      BY <1>1, <1>3
    <3> QED
      BY <3>1, <3>2 DEF Row
  <2> QED
    BY <2>1 DEF Puts
<1>4. ASSUME Claim(w) \/ SentRow(w) \/ Caught(w) \/ PutRow(w)
      PROVE  Msg(w) \in Inbound
  BY <1>1, <1>4 DEF Claim, SentRow, Caught, PutRow, At, Apart
<1>5. Claim(w) => row' = row \/ Puts(w, "SENDING")
  <2> SUFFICES ASSUME Claim(w), row' # row PROVE Puts(w, "SENDING")
    OBVIOUS
  <2> DEFINE r == [row[Msg(w)] EXCEPT !.status = "SENDING", !.tries = @ + 1]
  <2>1. row' = [row EXCEPT ![Msg(w)] = r]
    BY ClaimStep
  <2>2. r.status = "SENDING"
    BY <1>1, <1>4 DEF Row
  <2> HIDE DEF r
  <2> QED
    BY <1>2, <1>4, <2>1, <2>2
<1>6. Caught(w) => row' = row \/ Puts(w, "QUEUED")
  <2> SUFFICES ASSUME Caught(w), row' # row PROVE Puts(w, "QUEUED")
    OBVIOUS
  <2> DEFINE r == [row[Msg(w)] EXCEPT !.status = "QUEUED", !.due = FALSE]
  <2>1. row' = [row EXCEPT ![Msg(w)] = r]
    BY CaughtStep
  <2>2. r.status = "QUEUED"
    BY <1>1, <1>4 DEF Row
  <2> HIDE DEF r
  <2> QED
    BY <1>2, <1>4, <2>1, <2>2
<1>7. SentRow(w) => Puts(w, "SENT")
  BY <1>3, <1>4 DEF SentRow
<1>8. PutRow(w) => Puts(w, work[w].toRow)
  BY <1>3, <1>4 DEF PutRow
<1> QED
  BY <1>5, <1>6, <1>7, <1>8

\* What is mailed stays so, and what becomes SENT was mailed.
SentGrows ==
  \A m \in Inbound :
    /\ mailed[m] > 0 => mailed'[m] > 0
    /\ draft'[m] = "SENT" => draft[m] = "SENT" \/ mailed'[m] > 0
    /\ row'[m].status = "SENT" => row[m].status = "SENT" \/ mailed'[m] > 0

\* Then nothing passes for sent that was not.
LEMMA SentKept ==
  ASSUME SentWasMailed, SentGrows
  PROVE  SentWasMailed'
BY DEF SentWasMailed, SentGrows, InRow

\* Nor does the worker that steps record what it did not mail.
LEMMA MailedLands ==
  ASSUME TypeOK, WorkInv, MailedInv, SentGrows, NEW w \in Workers, NEW j, Lands(w, j),
         j.at \in {"sentRow", "sentDraft", "sentCount"} => mailed'[j.m] > 0
  PROVE  MailedInv'
<1>1. ASSUME NEW x \in Workers, work'[x].at \in {"sentRow", "sentDraft", "sentCount"}
      PROVE  mailed'[work'[x].m] > 0
  <2>1. CASE x = w
    BY <1>1, <2>1, LandsWell
  <2>2. CASE x # w
    <3>1. work'[x] = work[x]
      BY <2>2, LandsWell
    <3>2. work[x].m \in Inbound
      BY <1>1, <3>1 DEF WorkInv, JobOK, Apart
    <3> QED
      BY <1>1, <3>1, <3>2 DEF MailedInv, SentGrows, Recording, Msg
  <2> QED
    BY <2>1, <2>2
<1> QED
  BY <1>1, SentKept DEF MailedInv, Recording, Msg

\* Every step is such a step: only who has mailed a reply writes SENT.
LEMMA MailedStep ==
  ASSUME TypeOK, WorkInv, TypeOK', WorkInv', MailedInv, [Next]_vars
  PROVE  MailedInv'
<1>1. CASE UNCHANGED vars
  BY <1>1 DEF vars, MailedInv, SentWasMailed, InRow, Recording, Msg
<1>2. ASSUME Quiet PROVE SentGrows
  BY <1>2 DEF Quiet, SentGrows
<1>3. CASE Quiet /\ work' = work
  BY <1>2, <1>3, SentKept DEF MailedInv, Quiet, Recording, Msg
<1>4. CASE KillOff
  <2>1. UNCHANGED <<draft, row, mailed>>
    BY <1>4 DEF KillOff
  <2>2. \A w \in Workers : work'[w].at = work[w].at /\ work'[w].m = work[w].m
    BY <1>4, KillOffWork
  <2> QED
    BY <2>1, <2>2 DEF MailedInv, SentWasMailed, InRow, Recording, Msg
<1>5. ASSUME NEW w \in Workers, NEW j, Aside(w, j), Quiet
      PROVE  MailedInv'
  BY <1>2, <1>5, MailedLands DEF Aside, Past, Tried, Held
<1>6. ASSUME NEW w \in Workers,
             \/ Claim(w) \/ Load(w) \/ Guard(w) \/ Check(w) \/ Send(w) \/ SentRow(w)
             \/ SentDraft(w) \/ SentCount(w) \/ SendFails(w) \/ Caught(w) \/ PutRow(w)
             \/ Crash(w)
      PROVE  MailedInv'
  <2>0. /\ work[w].at \notin Apart => work[w].m \in Inbound
        /\ Recording(w) => mailed[Msg(w)] > 0
        /\ work[w].toRow # "SENT"
    BY DEF WorkInv, JobOK, MailedInv
  <2>1. ASSUME UNCHANGED <<draft, row, mailed>> PROVE SentGrows
    BY <2>1 DEF SentGrows
  <2>2. ASSUME NEW s, Puts(w, s), s # "SENT", UNCHANGED <<draft, mailed>> PROVE SentGrows
    BY <2>2 DEF SentGrows, Puts
  <2>a. CASE Claim(w) \/ Caught(w) \/ PutRow(w)
    <3>1. UNCHANGED <<draft, mailed>>
      BY <2>a DEF Claim, Caught, PutRow
    <3>2. SentGrows
      BY <2>0, <2>1, <2>2, <2>a, <3>1, PutsRow
    <3>3. \E j : Lands(w, j) /\ j.at \in {"idle", "next", "load", "putRow", "putDraft"}
      <4>1. CASE Claim(w)
        BY <4>1, ClaimStep DEF Ends
      <4>2. CASE Caught(w)
        BY <4>2, CaughtStep DEF Ends, Gives
      <4>3. CASE PutRow(w)
        BY <4>3, PutRowStep DEF Ends, Goes
      <4> QED
        BY <2>a, <4>1, <4>2, <4>3
    <3> QED
      BY <3>2, <3>3, MailedLands
  <2>b. CASE Load(w) \/ Guard(w) \/ Check(w) \/ Crash(w)
    <3>1. UNCHANGED <<draft, row, mailed>>
      BY <2>b DEF Load, Guard, Check, Crash
    <3>2. \E j : Lands(w, j) /\ j.at \in {"idle", "next", "check", "guard", "send", "putRow"}
      BY <2>b, LoadStep, GuardStep, CheckStep, CrashStep DEF Ends, Gives, Goes
    <3> QED
      BY <2>1, <3>1, <3>2, MailedLands
  <2>c. CASE Send(w)
    <3>1. work[w].m \in Inbound
      BY <2>0, <2>c DEF Send, At, Apart
    <3>2. mailed'[work[w].m] > 0 /\ \A m \in Inbound : mailed[m] > 0 => mailed'[m] > 0
      BY <2>c, <3>1 DEF Send, Msg, TypeOK
    <3>3. SentGrows
      BY <2>c, <3>2 DEF Send, SentGrows
    <3> QED
      BY <2>c, <3>2, <3>3, SendStep, MailedLands
  <2>d. CASE SentRow(w)
    <3>1. Recording(w) /\ work[w].m \in Inbound /\ UNCHANGED <<draft, mailed>>
      BY <2>0, <2>d DEF SentRow, At, Apart, Recording
    <3>2. SentGrows
      BY <2>0, <2>d, <3>1, PutsRow DEF SentGrows, Puts
    <3> QED
      BY <2>0, <2>d, <3>1, <3>2, RecordStep, MailedLands DEF Goes, Msg
  <2>e. CASE SentDraft(w)
    <3>1. Recording(w) /\ work[w].m \in Inbound /\ UNCHANGED <<row, mailed>>
      BY <2>0, <2>e DEF SentDraft, At, Apart, Recording
    <3>2. SentGrows
      BY <2>0, <2>e, <3>1 DEF SentDraft, SentGrows, TypeOK
    <3> QED
      BY <2>0, <2>e, <3>1, <3>2, RecordStep, MailedLands DEF Goes, Msg
  <2>f. CASE SentCount(w) \/ SendFails(w)
    <3>1. UNCHANGED <<draft, row, mailed>>
      BY <2>f DEF SentCount, SendFails
    <3>2. \E j : Lands(w, j) /\ j.at \in {"idle", "next", "caught"}
      BY <2>f, RecordStep DEF Goes, Ends
    <3> QED
      BY <2>1, <3>1, <3>2, MailedLands
  <2> QED
    BY <1>6, <2>a, <2>b, <2>c, <2>d, <2>e, <2>f
<1> QED
  BY <1>1, <1>3, <1>4, <1>5, <1>6, NextCases

-----------------------------------------------------------------------------
(* A reply goes out twice only for a cause *)

\* The message whose row the worker has claimed.
Holds(w, m) == work[w].at \in Held /\ Msg(w) = m

\* One worker at most has claimed the row, which is SENDING as long as it has; a
\* reply that was mailed is SENT, or its worker is about to write that.
Once(m) ==
  /\ \A w, x \in Workers : Holds(w, m) /\ Holds(x, m) => w = x
  /\ \A w \in Workers : Holds(w, m) => row[m].status = "SENDING"
  /\ mailed[m] <= 1
  /\ mailed[m] = 1 =>
       row[m].status = "SENT" \/ \E w \in Workers : At(w, "sentRow") /\ Msg(w) = m
OnceInv == \A m \in Inbound \ (lost \cup overtaken) : Once(m)

\* A step that claims and mails nothing, undoes no SENDING that another worker has
\* claimed and no SENT, and leaves sentRow for SENT.
LEMMA OnceLands ==
  ASSUME TypeOK, WorkInv, NEW w \in Workers, NEW j, Lands(w, j), NEW m \in Inbound, Once(m),
         mailed'[m] = mailed[m],
         j.at \in Held /\ j.m = m => Holds(w, m),
         row[m].status = "SENDING" /\ ((j.at \in Held /\ j.m = m) \/ ~Holds(w, m))
           => row'[m].status = "SENDING",
         row[m].status = "SENT" => row'[m].status = "SENT",
         At(w, "sentRow") /\ Msg(w) = m
           => (j.at = "sentRow" /\ j.m = m) \/ row'[m].status = "SENT"
  PROVE  Once(m)'
<1>0. work'[w] = j /\ \A x \in Workers \ {w} : work'[x] = work[x]
  BY LandsWell
<1> DEFINE HoldsNext(x) == work'[x].at \in Held /\ work'[x].m = m
<1>1. \A x \in Workers : HoldsNext(x) => Holds(x, m)
  BY <1>0 DEF Holds, Msg
<1>2. \A x, y \in Workers : HoldsNext(x) /\ HoldsNext(y) => x = y
  BY <1>1 DEF Once
<1>3. ASSUME NEW x \in Workers, HoldsNext(x)
      PROVE  row'[m].status = "SENDING"
  <2>1. Holds(x, m) /\ row[m].status = "SENDING"
    BY <1>1, <1>3 DEF Once
  <2>2. CASE x = w
    BY <1>0, <1>3, <2>1, <2>2
  <2>3. CASE x # w
    BY <2>1, <2>3 DEF Once
  <2> QED
    BY <2>2, <2>3
<1>4. ASSUME mailed'[m] = 1
      PROVE  \/ row'[m].status = "SENT"
             \/ \E x \in Workers : work'[x].at = "sentRow" /\ work'[x].m = m
  <2>1. CASE row[m].status = "SENT"
    BY <2>1
  <2>2. ASSUME NEW x \in Workers, At(x, "sentRow"), Msg(x) = m
        PROVE  row'[m].status = "SENT" \/ (work'[x].at = "sentRow" /\ work'[x].m = m)
    <3>1. CASE x = w
      BY <1>0, <2>2, <3>1
    <3>2. CASE x # w
      BY <1>0, <2>2, <3>2 DEF At, Msg
    <3> QED
      BY <3>1, <3>2
  <2> QED
    BY <1>4, <2>1, <2>2 DEF Once
<1> QED
  BY <1>2, <1>3, <1>4 DEF Once, Holds, At, Msg

\* A row of which no worker changes its claim.
LEMMA OnceKept ==
  ASSUME NEW m \in Inbound, Once(m), mailed'[m] = mailed[m],
         row[m].status \in {"SENDING", "SENT"} => row'[m].status = row[m].status,
         \A w \in Workers : work'[w].at = work[w].at /\ work'[w].m = work[w].m
  PROVE  Once(m)'
BY DEF Once, Holds, At, Msg

\* Every step keeps it: a claim finds the row QUEUED, so that nobody has it, and who
\* sends finds its reply not yet mailed.
LEMMA OnceStep ==
  ASSUME TypeOK, WorkInv, TypeOK', WorkInv', OnceInv, [Next]_vars
  PROVE  OnceInv'
<1>1. CASE UNCHANGED vars
  BY <1>1 DEF vars, hist, OnceInv, Once, Holds, At, Msg
<1>2. CASE Quiet /\ work' = work
  BY <1>2, OnceKept DEF Quiet, OnceInv
<1>3. CASE KillOff
  <2>1. UNCHANGED <<row, mailed, lost, overtaken>>
    BY <1>3 DEF KillOff, hist
  <2>2. \A w \in Workers : work'[w].at = work[w].at /\ work'[w].m = work[w].m
    BY <1>3, KillOffWork
  <2> QED
    BY <2>1, <2>2, OnceKept DEF OnceInv
<1>4. ASSUME NEW w \in Workers, NEW j, Aside(w, j), Quiet
      PROVE  OnceInv'
  <2>1. /\ Lands(w, j) /\ j.at \notin Held /\ work[w].at \notin Held /\ work[w].at # "sentRow"
    BY <1>4 DEF Aside, Past, Tried, Held
  <2>2. ASSUME NEW m \in Inbound \ (lost' \cup overtaken')
        PROVE  Once(m)'
    <3>1. Once(m) /\ mailed'[m] = mailed[m]
      BY <1>4, <2>2 DEF OnceInv, Quiet
    <3>2. row[m].status \in {"SENDING", "SENT"} => row'[m].status = row[m].status
      BY <1>4, <2>2 DEF Quiet
    <3> QED
      BY <2>1, <3>1, <3>2, OnceLands DEF At
  <2> QED
    BY <2>2 DEF OnceInv
<1>5. ASSUME NEW w \in Workers,
             \/ Claim(w) \/ Load(w) \/ Guard(w) \/ Check(w) \/ Send(w) \/ SentRow(w)
             \/ SentDraft(w) \/ SentCount(w) \/ SendFails(w) \/ Caught(w) \/ PutRow(w)
             \/ Crash(w),
             NEW m \in Inbound \ (lost' \cup overtaken')
      PROVE  Once(m)'
  <2>0. /\ Once(m) /\ m \notin lost \cup overtaken
        /\ work[w].at \notin Apart => work[w].m \in Inbound
    <3>1. lost \subseteq lost' /\ overtaken \subseteq overtaken'
      BY <1>5 DEF Claim, Load, Guard, Check, Send, SentRow, SentDraft, SentCount, SendFails,
         Caught, PutRow, Crash, hist
    <3> QED
      BY <1>5, <3>1 DEF OnceInv, WorkInv, JobOK
  <2>1. Holds(w, m) => row[m].status = "SENDING"
    BY <2>0 DEF Once
  \* The row of the worker is not written,
  <2>2. ASSUME NEW j, Lands(w, j), row' = row, mailed' = mailed,
               j.at \in Held => work[w].at \in Held /\ j.m = Msg(w), ~At(w, "sentRow")
        PROVE  Once(m)'
    BY <2>0, <2>2, OnceLands DEF Holds
  \* or it is, by a worker that gives it up.
  <2>3. ASSUME NEW j, Lands(w, j), NEW s, Puts(w, s), mailed' = mailed,
               j.at \notin Held, work[w].at \in Held, At(w, "sentRow") => s = "SENT"
        PROVE  Once(m)'
    BY <2>0, <2>1, <2>3, OnceLands DEF Holds, Puts
  <2>a. CASE Claim(w)
    <3>1. work[w].at = "claim" /\ mailed' = mailed
      BY <2>a DEF Claim, At
    <3>2. PICK j : \/ Ends(w, j) /\ row' = row
                   \/ /\ Lands(w, j) /\ j.at = "load" /\ j.m = work[w].m
                      /\ InRow(Msg(w), {"QUEUED"})
                      /\ row' = [row EXCEPT ![Msg(w)] =
                                   [row[Msg(w)] EXCEPT !.status = "SENDING", !.tries = @ + 1]]
      BY <2>a, ClaimStep
    <3>3. CASE Ends(w, j) /\ row' = row
      BY <2>2, <3>1, <3>3 DEF Ends, At, Held
    <3>4. CASE Lands(w, j) /\ j.at = "load" /\ j.m = work[w].m /\ InRow(Msg(w), {"QUEUED"})
      <4>1. Msg(w) \in Inbound /\ row[Msg(w)].status = "QUEUED"
        BY <2>0, <3>1, <3>4 DEF Apart, Msg, InRow
      <4>2. row' = row \/ Puts(w, "SENDING")
        BY <2>a, PutsRow
      <4>3. CASE m # Msg(w)
        <5>1. row'[m].status = row[m].status
          BY <4>2, <4>3 DEF Puts
        <5> QED
          BY <2>0, <3>1, <3>4, <4>3, <5>1, OnceLands DEF Holds, At, Msg
      <4>4. CASE m = Msg(w)
        <5>1. \A x \in Workers : ~Holds(x, m)
          BY <2>0, <4>1, <4>4 DEF Once
        <5>2. mailed[m] # 1
          BY <2>0, <4>1, <4>4, <5>1 DEF Once, Holds, Held, At
        <5>3. row'[m].status = "SENDING"
          <6>1. Puts(w, "SENDING")
            <7>1. row \in [Inbound -> Row]
              BY DEF TypeOK, Row
            <7>2. row'[Msg(w)] = [row[Msg(w)] EXCEPT !.status = "SENDING", !.tries = @ + 1]
              BY <3>2, <3>4, <4>1, <7>1, IdleJob DEF Ends
            <7>3. row[Msg(w)] \in Row
              BY <4>1, <7>1
            <7>4. row'[Msg(w)].status = "SENDING"
              BY <7>2, <7>3 DEF Row
            <7> QED
              BY <4>1, <4>2, <7>4
          <6> QED
            BY <4>4, <6>1 DEF Puts
        <5>4. work'[w] = j /\ \A x \in Workers \ {w} : work'[x] = work[x]
          BY <3>4, LandsWell
        <5>5. \A x \in Workers : work'[x].at \in Held /\ work'[x].m = m => x = w
          BY <5>1, <5>4 DEF Holds, Msg
        <5> QED
          BY <2>0, <3>1, <5>2, <5>3, <5>5 DEF Once, Holds, Msg
      <4> QED
        BY <4>3, <4>4
    <3> QED
      BY <3>2, <3>3, <3>4
  <2>b. CASE Load(w) \/ Guard(w) \/ Check(w)
    <3>1. row' = row /\ mailed' = mailed /\ work[w].at \in Held /\ ~At(w, "sentRow")
      BY <2>b DEF Load, Guard, Check, At, Held
    <3>2. \E j : Lands(w, j) /\ j.m = work[w].m
      BY <2>b, LoadStep, GuardStep, CheckStep DEF Gives, Goes
    <3> QED
      BY <2>2, <3>1, <3>2 DEF Msg
  <2>c. CASE Send(w)
    <3>1. work[w].at = "send" /\ row' = row /\ Msg(w) \in Inbound
      BY <2>0, <2>c DEF Send, At, Apart, Msg
    <3>2. \A n \in Inbound : mailed'[n] = IF n = Msg(w) THEN (IF mailed[n] = 2 THEN 2 ELSE mailed[n] + 1)
                                          ELSE mailed[n]
      BY <2>c, <3>1 DEF Send, TypeOK
    <3>3. PICK j : Lands(w, j) /\ j.at = "sentRow" /\ j.m = work[w].m
      BY <2>c, SendStep
    <3>4. CASE m # Msg(w)
      BY <2>0, <3>1, <3>2, <3>3, <3>4, OnceLands DEF Holds, At, Msg
    <3>5. CASE m = Msg(w)
      <4>1. Holds(w, m) /\ row[m].status = "SENDING" /\ \A x \in Workers : Holds(x, m) => x = w
        BY <2>0, <3>1, <3>5 DEF Once, Holds, Held
      <4>2. ~\E x \in Workers : At(x, "sentRow") /\ Msg(x) = m
        BY <3>1, <4>1 DEF Holds, Held, At
      <4>3. mailed'[m] = 1
        <5>1. mailed[m] = 0
          BY <2>0, <4>1, <4>2 DEF Once, TypeOK
        <5> QED
          BY <3>2, <3>5, <5>1
      <4>4. work'[w] = j /\ \A x \in Workers \ {w} : work'[x] = work[x]
        BY <3>3, LandsWell
      <4>5. \A x \in Workers : work'[x].at \in Held /\ work'[x].m = m => x = w
        BY <4>1, <4>4 DEF Holds, Msg
      <4>6. work'[w].at = "sentRow" /\ work'[w].m = m
        BY <3>3, <3>5, <4>4 DEF Msg
      <4> QED
        BY <3>1, <4>1, <4>3, <4>5, <4>6 DEF Once, Holds, At, Msg
    <3> QED
      BY <3>4, <3>5
  <2>d. CASE SentRow(w)
    <3>1. work[w].at \in Held /\ mailed' = mailed /\ Puts(w, "SENT")
      BY <2>d, PutsRow DEF SentRow, At, Held
    <3>2. \E j : Lands(w, j) /\ j.at \notin Held
      BY <2>d, RecordStep DEF Goes, Held
    <3> QED
      BY <2>3, <3>1, <3>2
  <2>e. CASE SentDraft(w) \/ SentCount(w)
    <3>1. row' = row /\ mailed' = mailed /\ ~At(w, "sentRow")
      BY <2>e DEF SentDraft, SentCount, At
    <3>2. \E j : Lands(w, j) /\ j.at \notin Held
      BY <2>e, RecordStep DEF Goes, Ends, Held
    <3> QED
      BY <2>2, <3>1, <3>2
  <2>f. CASE SendFails(w) \/ Crash(w)
    <3>1. row' = row /\ mailed' = mailed /\ (Recording(w) => lost' = lost \cup {Msg(w)})
      BY <2>f DEF SendFails, Crash
    <3>2. PICK j : /\ Lands(w, j)
                   /\ j.at \in Held => j.m = work[w].m /\ work[w].at \in Held \cup {"sentDraft", "sentCount"}
      <4>1. SendFails(w) => work[w].at \in Held \cup {"sentDraft", "sentCount"}
        BY DEF SendFails, Sending, Recording, At, Held
      <4> QED
        BY <2>f, <4>1, RecordStep, CrashStep DEF Goes, Ends, Held
    <3>3. CASE Recording(w)
      <4>1. m # Msg(w)
        BY <1>5, <3>1, <3>3
      <4> QED
        BY <2>0, <3>1, <3>2, <4>1, OnceLands DEF Holds, Msg
    <3>4. CASE ~Recording(w)
      BY <2>2, <3>1, <3>2, <3>4 DEF Recording, At, Msg
    <3> QED
      BY <3>3, <3>4
  <2>g. CASE Caught(w)
    <3>1. work[w].at = "caught" /\ work[w].at \in Held /\ mailed' = mailed /\ ~At(w, "sentRow")
      BY <2>g DEF Caught, At, Held
    <3>2. PICK j : (Gives(w, j) /\ row' = row) \/ Ends(w, j)
      BY <2>g, CaughtStep
    <3>3. row' = row \/ Puts(w, "QUEUED")
      BY <2>g, PutsRow
    <3>4. CASE row' = row
      BY <2>2, <3>1, <3>2, <3>4 DEF Gives, Ends, Held, Msg
    <3>5. CASE Ends(w, j) /\ Puts(w, "QUEUED")
      BY <2>3, <3>1, <3>5 DEF Ends, Held
    <3> QED
      BY <3>2, <3>3, <3>4, <3>5
  <2>h. CASE PutRow(w)
    <3>1. work[w].at \in Held /\ mailed' = mailed /\ ~At(w, "sentRow") /\ Puts(w, work[w].toRow)
      BY <2>h, PutsRow DEF PutRow, At, Held
    <3>2. \E j : Lands(w, j) /\ j.at \notin Held
      BY <2>h, PutRowStep DEF Ends, Goes, Held
    <3> QED
      BY <2>3, <3>1, <3>2
  <2> QED
    BY <1>5, <2>a, <2>b, <2>c, <2>d, <2>e, <2>f, <2>g, <2>h
<1> QED
  BY <1>1, <1>2, <1>3, <1>4, <1>5, NextCases DEF OnceInv

-----------------------------------------------------------------------------
(* The limit of replies *)

\* Between the count of the replies and its update there is one call at most, which
\* found room, unless two were there together.
CountInv ==
  crowded \/ /\ replies <= MaxReplies
             /\ \A w \in Workers : Counting(w) => replies < MaxReplies
             /\ \A w, x \in Workers : Counting(w) /\ Counting(x) => w = x

\* A state of a worker between the two.
InCount(j) == j.op = "flush" /\ j.at \in {"check", "send", "sentRow", "sentDraft", "sentCount"}

\* A step that counts nothing and does not pass the guard.
LEMMA CountLands ==
  ASSUME TypeOK, WorkInv, CountInv, NEW w \in Workers, NEW j, Lands(w, j),
         InCount(j) => Counting(w), replies' = replies, crowded => crowded'
  PROVE  CountInv'
<1>1. \A x \in Workers : InCount(work'[x]) => Counting(x)
  BY LandsWell DEF InCount, Counting
<1> QED
  BY <1>1 DEF CountInv, Counting, InCount

\* Every step keeps it: who passes the guard finds room, and nobody else or crowded.
LEMMA CountStep ==
  ASSUME TypeOK, WorkInv, TypeOK', WorkInv', CountInv, [Next]_vars
  PROVE  CountInv'
<1>1. CASE UNCHANGED vars
  BY <1>1 DEF vars, hist, CountInv, Counting
<1>2. CASE Quiet /\ work' = work
  BY <1>2 DEF Quiet, CountInv, Counting
<1>3. CASE KillOff
  <2>1. replies' = replies /\ crowded' = crowded
    BY <1>3 DEF KillOff, hist
  <2>2. \A w \in Workers : work'[w].at = work[w].at /\ work'[w].op = work[w].op
    BY <1>3, KillOffWork
  <2> QED
    BY <2>1, <2>2 DEF CountInv, Counting
<1>4. ASSUME NEW w \in Workers, NEW j, Aside(w, j), Quiet
      PROVE  CountInv'
  <2>1. Lands(w, j) /\ ~InCount(j)
    BY <1>4 DEF Aside, Past, Tried, Held, InCount
  <2> QED
    BY <1>4, <2>1, CountLands DEF Quiet
<1>5. ASSUME NEW w \in Workers,
             \/ Claim(w) \/ Load(w) \/ Guard(w) \/ Check(w) \/ Send(w) \/ SentRow(w)
             \/ SentDraft(w) \/ SentCount(w) \/ SendFails(w) \/ Caught(w) \/ PutRow(w)
             \/ Crash(w)
      PROVE  CountInv'
  <2>0. work[w].at \in Tried => work[w].op \in {"flush", "send"}
    BY DEF WorkInv, JobOK
  <2>1. ASSUME NEW j, Lands(w, j), replies' = replies, crowded => crowded',
               j.at \notin {"check", "send", "sentRow", "sentDraft", "sentCount"}
        PROVE  CountInv'
    BY <2>1, CountLands DEF InCount
  <2>2. ASSUME NEW j, Lands(w, j), replies' = replies, crowded => crowded', j.op = work[w].op,
               work[w].at \in {"check", "send", "sentRow", "sentDraft", "sentCount"}
        PROVE  CountInv'
    BY <2>2, CountLands DEF InCount, Counting
  <2>a. CASE Claim(w) \/ Crash(w)
    <3>1. crowded' = crowded /\ (replies' = replies)
      BY <2>a DEF Claim, Crash, hist
    <3>2. \E j : Lands(w, j) /\ j.at \in {"idle", "next", "load"}
      BY <2>a, ClaimStep, CrashStep DEF Ends
    <3> QED
      BY <2>1, <3>1, <3>2
  <2>b. CASE Load(w)
    <3>1. crowded' = crowded /\ (replies' = replies)
      BY <2>b DEF Load, hist
    <3>2. \E j : Lands(w, j) /\ ~InCount(j)
      BY <2>b, LoadStep DEF Gives, Goes, InCount, Manual
    <3> QED
      BY <3>1, <3>2, CountLands
  <2>c. CASE Guard(w)
    <3>1. crowded' = (crowded \/ \E x \in Workers : Counting(x)) /\ replies' = replies
      BY <2>c DEF Guard
    <3>2. PICK j : Gives(w, j) \/ (Goes(w, j, "check") /\ replies < MaxReplies)
      BY <2>c, GuardStep
    <3>3. CASE Gives(w, j)
      BY <2>1, <3>1, <3>3 DEF Gives
    <3>4. CASE Goes(w, j, "check") /\ replies < MaxReplies
      <4>1. CASE crowded'
        BY <4>1 DEF CountInv
      <4>2. CASE ~crowded'
        <5>1. \A x \in Workers : ~Counting(x)
          BY <3>1, <4>2
        <5>2. \A x \in Workers \ {w} : work'[x] = work[x]
          BY <3>4, LandsWell DEF Goes
        <5>3. \A x \in Workers : InCount(work'[x]) => x = w
          BY <5>1, <5>2 DEF Counting, InCount
        <5>4. replies' < MaxReplies /\ replies' <= MaxReplies
          BY <3>1, <3>4, Numbers DEF TypeOK
        <5> QED
          BY <5>3, <5>4 DEF CountInv, Counting, InCount
      <4> QED
        BY <4>1, <4>2
    <3> QED
      BY <3>2, <3>3, <3>4
  <2>d. CASE Check(w) \/ Send(w) \/ SentRow(w) \/ SentDraft(w)
    <3>1. /\ crowded' = crowded /\ (replies' = replies)
          /\ work[w].at \in {"check", "send", "sentRow", "sentDraft", "sentCount"}
      BY <2>d DEF Check, Send, SentRow, SentDraft, At, hist
    <3>2. \E j : Lands(w, j) /\ (j.at = "putRow" \/ j.op = work[w].op)
      BY <2>d, CheckStep, SendStep, RecordStep DEF Gives, Goes
    <3> QED
      BY <2>1, <2>2, <3>1, <3>2
  <2>e. CASE SentCount(w) \/ SendFails(w)
    <3>1. PICK j : Lands(w, j) /\ j.at \in {"idle", "next", "caught"}
      BY <2>e, RecordStep DEF Goes, Ends
    <3>2. crowded' = crowded
      BY <2>e DEF SentCount, SendFails, hist
    <3>3. CASE replies' = replies
      BY <2>1, <3>1, <3>2, <3>3
    <3>4. CASE replies' # replies
      <4>1. replies' = replies + 1 /\ work[w].at = "sentCount" /\ ~Manual(w)
        BY <2>e, <3>4 DEF SentCount, SendFails, At
      <4>2. Counting(w)
        BY <2>0, <4>1 DEF Counting, Manual, Tried
      <4>3. CASE crowded
        BY <3>2, <4>3 DEF CountInv
      <4>4. CASE ~crowded
        <5>1. replies < MaxReplies /\ \A x \in Workers : Counting(x) => x = w
          BY <4>2, <4>4 DEF CountInv
        <5>2. replies' <= MaxReplies
          BY <4>1, <5>1, Numbers DEF TypeOK
        <5>3. work'[w] = j /\ \A x \in Workers \ {w} : work'[x] = work[x]
          BY <3>1, LandsWell
        <5>4. \A x \in Workers : ~InCount(work'[x])
          BY <3>1, <5>1, <5>3 DEF Counting, InCount
        <5> QED
          BY <5>2, <5>4 DEF CountInv, Counting, InCount
      <4> QED
        BY <4>3, <4>4
    <3> QED
      BY <3>3, <3>4
  <2>f. CASE Caught(w) \/ PutRow(w)
    <3>1. crowded' = crowded /\ (replies' = replies)
      BY <2>f DEF Caught, PutRow, hist
    <3>2. \E j : Lands(w, j) /\ j.at \in {"idle", "next", "putRow", "putDraft"}
      <4>1. CASE Caught(w)
        BY <4>1, CaughtStep DEF Ends, Gives
      <4>2. CASE PutRow(w)
        BY <4>2, PutRowStep DEF Ends, Goes
      <4> QED
        BY <2>f, <4>1, <4>2
    <3> QED
      BY <2>1, <3>1, <3>2
  <2> QED
    BY <1>5, <2>a, <2>b, <2>c, <2>d, <2>e, <2>f
<1> QED
  BY <1>1, <1>2, <1>3, <1>4, <1>5, NextCases

-----------------------------------------------------------------------------
(* The theorems *)

IInv == TypeOK /\ WorkInv /\ LateInv /\ MailedInv /\ OnceInv /\ CountInv

\* At first nobody is at work and nothing was mailed.
LEMMA InitIInv == Init => IInv
<1> SUFFICES ASSUME Init PROVE IInv
  OBVIOUS
<1>1. \A w \in Workers : work[w] = NoJob /\ work[w].at = "idle"
  BY IdleJob DEF Init
<1>2. \A m \in Inbound : draft[m] = "NONE" /\ row[m].status = "NONE" /\ mailed[m] = 0
  BY DEF Init
<1>3. TypeOK
  <2>1. [status |-> "NONE", tries |-> 0, due |-> FALSE]
          \in [status : RowStatuses \cup {"NONE"}, tries : Nat, due : BOOLEAN]
    OBVIOUS
  <2>2. /\ row \in [Inbound -> [status : RowStatuses \cup {"NONE"}, tries : Nat, due : BOOLEAN]]
        /\ draft \in [Inbound -> DraftStatuses \cup {"NONE"}]
        /\ work \in [Workers -> Jobs] /\ mailed \in [Inbound -> 0 .. 2]
    <3>1. row \in [Inbound -> [status : RowStatuses \cup {"NONE"}, tries : Nat, due : BOOLEAN]]
      BY <2>1 DEF Init
    <3>2. draft \in [Inbound -> DraftStatuses \cup {"NONE"}]
      BY DEF Init
    <3>3. work \in [Workers -> Jobs]
      BY IdleJob DEF Init
    <3>4. mailed \in [Inbound -> 0 .. 2]
      BY DEF Init
    <3> QED
      BY <3>1, <3>2, <3>3, <3>4
  <2>3. /\ arrived \in 0 .. Last /\ replies \in 0 .. MaxReplies + 1
        /\ clicks \in 0 .. MaxClicks /\ mishaps \in 0 .. MaxMishaps
    BY Numbers DEF Init
  <2>4. /\ kill \in BOOLEAN /\ auto \in BOOLEAN /\ suppressed \in BOOLEAN
        /\ lost \subseteq Inbound /\ overtaken \subseteq Inbound /\ crowded \in BOOLEAN
    BY DEF Init
  <2> QED
    BY <2>2, <2>3, <2>4 DEF TypeOK
<1>4. WorkInv
  BY <1>1, IdleJob DEF WorkInv
<1>5. LateInv
  BY <1>1, IdleJob DEF LateInv, LateOK
<1>6. MailedInv
  BY <1>1, <1>2, IdleJob DEF MailedInv, SentWasMailed, InRow, Recording
<1>7. OnceInv
  <2>1. \A w \in Workers, m \in Inbound : ~Holds(w, m)
    BY <1>1 DEF Holds, Held
  <2> QED
    BY <1>2, <2>1 DEF OnceInv, Once
<1>8. CountInv
  <2>1. \A w \in Workers : ~Counting(w)
    BY <1>1 DEF Counting
  <2>2. replies <= MaxReplies
    BY Numbers DEF Init
  <2> QED
    BY <2>1, <2>2 DEF CountInv
<1> QED
  BY <1>3, <1>4, <1>5, <1>6, <1>7, <1>8 DEF IInv

\* Every step keeps the invariant.
LEMMA StepIInv == IInv /\ [Next]_vars => IInv'
<1> SUFFICES ASSUME IInv, [Next]_vars PROVE IInv'
  OBVIOUS
<1>1. TypeOK' /\ WorkInv'
  BY TypeStep DEF IInv
<1> QED
  BY <1>1, LateStep, MailedStep, OnceStep, CountStep DEF IInv

\* So it always holds.
LEMMA Inductive == Spec => []IInv
BY InitIInv, StepIInv, PTL DEF Spec

\* Every variable has its type, in every interleaving of the calls.
THEOREM TypeCorrect == Spec => []TypeOK
<1>1. IInv => TypeOK
  BY DEF IInv
<1> QED
  BY Inductive, <1>1, PTL

\* deliverOutbox never brings to the provider a reply that was forbidden when its
\* row was claimed, by the kill switch, a newer message or a suppression.
THEOREM LateNeverSendsAlways == Spec => []LateNeverSends
<1>1. IInv => LateNeverSends
  BY DEF IInv, LateInv, LateOK, LateNeverSends, At
<1> QED
  BY Inductive, <1>1, PTL

\* A draft or a row that says SENT was accepted by the provider.
THEOREM SentWasMailedAlways == Spec => []SentWasMailed
<1>1. IInv => SentWasMailed
  BY DEF IInv, MailedInv
<1> QED
  BY Inductive, <1>1, PTL

\* A reply is mailed twice only if a write after the provider's yes failed, or its
\* row was queued again by a call that had read it before.
THEOREM TwiceNeedsCauseAlways == Spec => []TwiceNeedsCause
<1>1. IInv => TwiceNeedsCause
  BY DEF IInv, OnceInv, Once, TwiceNeedsCause
<1> QED
  BY Inductive, <1>1, PTL

\* maxRepliesPerConversation holds unless two deliveries counted together.
THEOREM RepliesLimitedAlways == Spec => []RepliesLimited
<1>1. IInv => RepliesLimited
  BY DEF IInv, CountInv, RepliesLimited
<1> QED
  BY Inductive, <1>1, PTL

=============================================================================
