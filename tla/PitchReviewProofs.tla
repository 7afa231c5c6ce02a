-------------------------- MODULE PitchReviewProofs --------------------------
(***************************************************************************)
(* Proofs about PitchReview, for any audits, users, limits and bounds.      *)
(***************************************************************************)
EXTENDS PitchReview, FiniteSetTheorems, TLAPS

(* Superseding pitches leaves their number and the others as they are.      *)
LEMMA SupersededEffect ==
  ASSUME pitches \in Seq(Status), NEW ids \in SUBSET (1 .. Len(pitches))
  PROVE  /\ Superseded(ids) \in Seq(Status)
         /\ Len(Superseded(ids)) = Len(pitches)
         /\ \A i \in ids : Superseded(ids)[i] = "SUPERSEDED"
         /\ \A i \in (1 .. Len(pitches)) \ ids : Superseded(ids)[i] = pitches[i]
<1>1. Superseded(ids) \in [1 .. Len(pitches) -> Status]
  BY DEF Superseded, Status
<1>2. Len(pitches) \in Nat
  OBVIOUS
<1>3. Superseded(ids) \in Seq(Status) /\ Len(Superseded(ids)) = Len(pitches)
  BY <1>1, <1>2
<1> QED
  BY <1>3 DEF Superseded

(* A pitch that is created comes last.                                      *)
LEMMA CreatedEffect ==
  ASSUME pitches \in Seq(Status), NEW s \in Status
  PROVE  /\ Append(pitches, s) \in Seq(Status)
         /\ Len(Append(pitches, s)) = Len(pitches) + 1
         /\ \A i \in 1 .. Len(pitches) : Append(pitches, s)[i] = pitches[i]
         /\ Append(pitches, s)[Len(pitches) + 1] = s
  OBVIOUS

(* what a worker may be, with n pitches                                     *)
WorkerType(n) ==
  [at : {"idle", "listed", "failing"} \cup Inside, force : BOOLEAN, auto : BOOLEAN,
   row : BOOLEAN, ids : SUBSET (1 .. n)]

\* A worker stays of its type wherever a step puts it, with pitches there are.
LEMMA WorkerTypes ==
  ASSUME TypeOK
  PROVE  /\ Len(pitches) \in Nat
         /\ worker \in [Workers -> WorkerType(Len(pitches))]
         /\ \A n \in Nat : Idle \in WorkerType(n)
         /\ \A w \in Workers, n \in Nat :
              \A place \in {"idle", "listed", "failing"} \cup Inside, ids \in SUBSET (1 .. n) :
                Step(w, place, ids) \in WorkerType(n)
BY DEF TypeOK, WorkerType, Idle, Step

(* Before anything happens there are no pitches.                            *)
LEMMA TypeInit == Init => TypeOK
<1> SUFFICES ASSUME Init PROVE TypeOK
  OBVIOUS
<1>1. pitches \in Seq(Status) /\ Len(pitches) = 0
  BY DEF Init
<1>2. worker \in [Workers -> WorkerType(Len(pitches))]
  BY <1>1 DEF Init, Idle, WorkerType
<1>3. approving \in [Users -> 0 .. Len(pitches)] /\ late \subseteq 1 .. Len(pitches)
  BY <1>1 DEF Init
<1>4. /\ audit \in {"none", "PENDING", "DONE", "FAILED"}
      /\ attempts \in Nat /\ audited \in Nat /\ mixed \in BOOLEAN /\ begun \in Nat
      /\ clicks \in 0 .. MaxClicks /\ deaths \in 0 .. MaxDeaths /\ started \in 0 .. MaxAudits
  <2>1. 0 \in 0 .. MaxClicks /\ 0 \in 0 .. MaxDeaths /\ 0 \in 0 .. MaxAudits
    BY PitchAssumption
  <2> QED
    BY <2>1 DEF Init
<1> QED
  BY <1>1, <1>2, <1>3, <1>4 DEF TypeOK, WorkerType

(* The row keeps its type when an audit writes it.                          *)
LEMMA AuditType ==
  ASSUME TypeOK, NEW w \in Workers,
         \/ List(w) \/ Regenerate(w) \/ Begin(w) \/ LimitReached(w) \/ RowDone(w)
         \/ CompanyDone(w) \/ CompanyFails(w) \/ Dies(w)
  PROVE  TypeOK'
<1> USE WorkerTypes, PitchAssumption
<1>a. worker[w] \in WorkerType(Len(pitches))
  OBVIOUS
<1>1. CASE List(w)
  <2>1. worker' \in [Workers -> WorkerType(Len(pitches))]
    BY <1>1, <1>a DEF List, Goes
  <2> QED
    BY <1>1, <2>1 DEF List, TypeOK, WorkerType, counts, company
<1>2. CASE Regenerate(w)
  <2>1. worker' \in [Workers -> WorkerType(Len(pitches))]
    BY <1>2, <1>a DEF Regenerate, WorkerType
  <2> QED
    BY <1>2, <2>1 DEF Regenerate, TypeOK, WorkerType, Click, company
<1>3. CASE Begin(w)
  <2>1. worker' \in [Workers -> WorkerType(Len(pitches))]
    BY <1>3, <1>a DEF Begin, WorkerType, Inside
  <2> QED
    BY <1>3, <2>1 DEF Begin, TypeOK, WorkerType
<1>4. CASE LimitReached(w)
  BY <1>4 DEF LimitReached, TypeOK, WorkerType, counts, company, history
<1>5. CASE RowDone(w)
  <2>1. worker' \in [Workers -> WorkerType(Len(pitches))]
    BY <1>5, <1>a DEF RowDone, WorkerType, Inside
  <2> QED
    BY <1>5, <2>1 DEF RowDone, TypeOK, WorkerType, counts, history
<1>6. CASE CompanyDone(w)
  <2>1. worker' \in [Workers -> WorkerType(Len(pitches))]
    BY <1>6, <1>a DEF CompanyDone, Goes, Inside, Upsert
  <2> QED
    BY <1>6, <2>1 DEF CompanyDone, TypeOK, WorkerType, counts, history
<1>7. CASE CompanyFails(w)
  BY <1>7 DEF CompanyFails, TypeOK, WorkerType, counts, history
<1>8. CASE Dies(w)
  BY <1>8 DEF Dies, TypeOK, WorkerType, company, history
<1> QED
  BY <1>1, <1>2, <1>3, <1>4, <1>5, <1>6, <1>7, <1>8

(* A decision leaves the number of pitches as it is.                        *)
LEMMA DecidedEffect ==
  ASSUME pitches \in Seq(Status), NEW i \in 1 .. Len(pitches), NEW s \in Status
  PROVE  /\ [pitches EXCEPT ![i] = s] \in Seq(Status)
         /\ Len([pitches EXCEPT ![i] = s]) = Len(pitches)
         /\ [pitches EXCEPT ![i] = s][i] = s
         /\ \A j \in (1 .. Len(pitches)) \ {i} : [pitches EXCEPT ![i] = s][j] = pitches[j]
  OBVIOUS

(* What was said of fewer pitches can be said of more.                      *)
LEMMA WorkerGrows ==
  ASSUME NEW n \in Nat, NEW m \in Nat, n <= m
  PROVE  WorkerType(n) \subseteq WorkerType(m)
<1>1. SUBSET (1 .. n) \subseteq SUBSET (1 .. m)
  OBVIOUS
<1> QED
  BY <1>1 DEF WorkerType

(* The steps of upsertPitchForContact keep the types.                       *)
LEMMA UpsertType ==
  ASSUME TypeOK, NEW w \in Workers,
         Look(w) \/ Supersede(w) \/ ListDrafts(w) \/ Clear(w)
  PROVE  TypeOK'
<1> USE WorkerTypes, PitchAssumption
<1>a. worker[w] \in WorkerType(Len(pitches))
  OBVIOUS
<1>b. pitches \in Seq(Status)
  BY DEF TypeOK
<1>1. CASE Look(w)
  <2>1. worker' \in [Workers -> WorkerType(Len(pitches))]
    <3>1. CASE Goes(w, "drafts")
      BY <3>1 DEF Goes, Inside, Upsert
    <3>2. CASE worker' = [worker EXCEPT ![w] = Idle]
      BY <3>2
    <3>3. CASE \E i \in 1 .. Len(pitches) :
                 worker' = [worker EXCEPT ![w] = Step(w, "supersede", {i})]
      BY <3>3 DEF Inside, Upsert
    <3> QED
      BY <1>1, <3>1, <3>2, <3>3 DEF Look
  <2> QED
    BY <1>1, <2>1 DEF Look, TypeOK, WorkerType, company, history, counts
<1>2. CASE ListDrafts(w)
  <2>1. worker' \in [Workers -> WorkerType(Len(pitches))]
    BY <1>2 DEF ListDrafts, Inside, Upsert
  <2> QED
    BY <1>2, <2>1 DEF ListDrafts, TypeOK, WorkerType, company, history, counts
<1>3. CASE Supersede(w) \/ Clear(w)
  <2>1. worker[w].ids \in SUBSET (1 .. Len(pitches))
    BY <1>a DEF WorkerType
  <2>2. pitches' \in Seq(Status) /\ Len(pitches') = Len(pitches)
    BY <1>3, <1>b, <2>1, SupersededEffect DEF Supersede, Clear
  <2>3. worker' \in [Workers -> WorkerType(Len(pitches))]
    BY <1>3 DEF Supersede, Clear, Goes, Inside, Upsert
  <2> QED
    BY <1>3, <2>2, <2>3 DEF Supersede, Clear, TypeOK, WorkerType, company, history, counts
<1> QED
  BY <1>1, <1>2, <1>3

(* So do the decisions of users.                                            *)
LEMMA UserType ==
  ASSUME TypeOK,
         \/ \E u \in Users : Approve(u) \/ \E i \in 1 .. Len(pitches) : ReadToApprove(u, i)
         \/ \E i \in 1 .. Len(pitches) : Reject(i)
  PROVE  TypeOK'
<1> USE WorkerTypes, PitchAssumption
<1>1. ASSUME NEW u \in Users, NEW i \in 1 .. Len(pitches), ReadToApprove(u, i) PROVE TypeOK'
  BY <1>1 DEF ReadToApprove, TypeOK, Click, company, history
<1>2. ASSUME NEW u \in Users, Approve(u) PROVE TypeOK'
  <2>1. approving[u] \in 1 .. Len(pitches)
    BY <1>2 DEF Approve, TypeOK
  <2>2. pitches' \in Seq(Status) /\ Len(pitches') = Len(pitches)
    BY <1>2, <2>1, DecidedEffect DEF Approve, TypeOK, Status
  <2>3. late' \subseteq 1 .. Len(pitches) /\ mixed' \in BOOLEAN
    BY <1>2, <2>1 DEF Approve, Decided, TypeOK
  <2>4. approving' \in [Users -> 0 .. Len(pitches)]
    BY <1>2 DEF Approve, TypeOK
  <2> QED
    BY <1>2, <2>2, <2>3, <2>4 DEF Approve, Decided, TypeOK, company, counts
<1>3. ASSUME NEW i \in 1 .. Len(pitches), Reject(i) PROVE TypeOK'
  <2>1. pitches' \in Seq(Status) /\ Len(pitches') = Len(pitches)
    BY <1>3, DecidedEffect DEF Reject, TypeOK, Status, Open
  <2> QED
    BY <1>3, <2>1 DEF Reject, Decided, TypeOK, company, Click
<1> QED
  BY <1>1, <1>2, <1>3

-----------------------------------------------------------------------------
(* the audits whose row counts and may still be taken back                  *)
Rows == {w \in Workers : worker[w].row /\ worker[w].at \in Inside}

(* a failure takes a row from the day's count only where it is counted      *)
Counted == audited >= Cardinality(Rows)

(* The audits with a row of today are finitely many.                        *)
LEMMA RowsFinite ==
  IsFiniteSet(Rows) /\ Cardinality(Rows) \in Nat
BY PitchAssumption, FS_Subset, FS_CardinalityType DEF Rows

\* An audit that fails takes a row from the count only where one is counted.
LEMMA UncountedType ==
  ASSUME TypeOK, Counted, NEW w \in Workers, worker[w].at \in Inside
  PROVE  Uncounted(w) \in Nat
<1>1. CASE worker[w].row
  <2>1. w \in Rows
    BY <1>1 DEF Rows
  <2>2. Cardinality(Rows) # 0
    BY <2>1, RowsFinite, FS_EmptySet
  <2> QED
    BY <1>1, <2>2, RowsFinite DEF Counted, Uncounted, TypeOK
<1>2. CASE ~worker[w].row
  BY <1>2 DEF Uncounted, TypeOK
<1> QED
  BY <1>1, <1>2

\* So a failure keeps the types.
LEMMA FailType ==
  ASSUME TypeOK, Counted, NEW w \in Workers, Fails(w)
  PROVE  TypeOK'
<1> USE WorkerTypes
<1>1. worker' \in [Workers -> WorkerType(Len(pitches))]
  BY DEF Fails, Goes
<1>2. audited' \in Nat
  BY UncountedType DEF Fails
<1> QED
  BY <1>1, <1>2 DEF Fails, TypeOK, WorkerType, history, counts

\* A pitch is added, and the audit ends or fails.
LEMMA CreateType ==
  ASSUME TypeOK, Counted, NEW w \in Workers, Create(w)
  PROVE  TypeOK'
<1> USE WorkerTypes
<1>1. pitches \in Seq(Status) /\ Len(pitches) + 1 \in Nat
  BY DEF TypeOK
<1>2. pitches' \in Seq(Status) /\ Len(pitches') = Len(pitches) + 1
  BY <1>1, CreatedEffect DEF Create, Status, Open
<1>3. worker' \in [Workers -> WorkerType(Len(pitches) + 1)]
  <2>1. worker \in [Workers -> WorkerType(Len(pitches) + 1)]
    BY <1>1, WorkerGrows
  <2>2. worker' = [worker EXCEPT ![w] = Idle] \/ worker' = [worker EXCEPT ![w] = Step(w, "failing", {})]
    BY DEF Create, Goes
  <2>3. Idle \in WorkerType(Len(pitches) + 1) /\ Step(w, "failing", {}) \in WorkerType(Len(pitches) + 1)
    BY <1>1
  <2> QED
    BY <2>1, <2>2, <2>3
<1>4. approving' \in [Users -> 0 .. Len(pitches) + 1] /\ late' \subseteq 1 .. Len(pitches) + 1
  BY DEF Create, TypeOK, history
<1>5. audited' \in Nat
  BY UncountedType DEF Create, TypeOK, Inside, Upsert
<1> QED
  BY <1>2, <1>3, <1>4, <1>5 DEF Create, TypeOK, WorkerType, history, counts

(* Every step keeps the count at the rows that may be taken back, or above. *)
LEMMA CountedNext ==
  ASSUME TypeOK, Counted, [Next]_vars
  PROVE  Counted'
<1> USE WorkerTypes, RowsFinite
<1>1. ASSUME UNCHANGED <<worker, audited>> PROVE Counted'
  BY <1>1 DEF Counted, Rows
<1>2. ASSUME audited' = audited, Rows' \subseteq Rows PROVE Counted'
  <2>1. Cardinality(Rows') <= Cardinality(Rows) /\ Cardinality(Rows') \in Nat
    BY <1>2, FS_Subset, FS_CardinalityType
  <2> QED
    BY <1>2, <2>1 DEF Counted, TypeOK
<1>3. ASSUME NEW w \in Workers, Auditing(w) PROVE Counted'
  <2> DEFINE now == worker'[w]
  <2>0. \A v \in Workers \ {w} : worker'[v] = worker[v]
    BY <1>3 DEF Auditing, List, Regenerate, Begin, LimitReached, RowDone, CompanyDone, Look,
       Supersede, ListDrafts, Clear, Create, Fails, CompanyFails, Dies, Goes
  <2>1. CASE RowDone(w)
    <3>1. Rows' = Rows \cup {w} /\ audited' = audited + 1
      BY <2>0, <2>1 DEF RowDone, Rows, Inside
    <3>2. /\ IsFiniteSet(Rows \cup {w})
          /\ Cardinality(Rows \cup {w}) =
               IF w \in Rows THEN Cardinality(Rows) ELSE Cardinality(Rows) + 1
      BY FS_AddElement
    <3> QED
      BY <3>1, <3>2 DEF Counted, TypeOK
  <2>2. ASSUME worker[w].at \in Inside, now.at = "failing", audited' = Uncounted(w)
        PROVE  Counted'
    <3>1. Rows' = Rows \ {w} /\ (worker[w].row <=> w \in Rows)
      BY <2>0, <2>2 DEF Rows, Inside, Upsert
    <3>2. /\ IsFiniteSet(Rows')
          /\ Cardinality(Rows') = IF w \in Rows THEN Cardinality(Rows) - 1 ELSE Cardinality(Rows)
      BY <3>1, FS_RemoveElement
    <3> QED
      BY <2>2, <3>1, <3>2 DEF Counted, Uncounted, TypeOK
  <2>6. CASE Fails(w)
    BY <2>2, <2>6 DEF Fails, Goes, Step
  <2>3. CASE CompanyDone(w) \/ Supersede(w) \/ ListDrafts(w) \/ Clear(w)
    <3>1. now.row = worker[w].row /\ worker[w].at \in Inside
      BY <2>3 DEF CompanyDone, Supersede, ListDrafts, Clear, Goes, Step, Inside, Upsert
    <3> QED
      BY <1>2, <2>0, <2>3, <3>1 DEF Rows, CompanyDone, Supersede, ListDrafts, Clear, company
  <2>4. CASE Look(w)
    <3>1. now = Idle \/ now.row = worker[w].row
      BY <2>4 DEF Look, Goes, Step
    <3>2. now.row = FALSE \/ now.row = worker[w].row
      BY <3>1 DEF Idle
    <3> QED
      BY <1>2, <2>0, <2>4, <3>2 DEF Rows, Look, Inside, Upsert, company
  <2>5. CASE \/ List(w) \/ Regenerate(w) \/ Begin(w) \/ LimitReached(w)
             \/ Create(w) /\ now = Idle /\ audited' = audited
             \/ CompanyFails(w) \/ Dies(w)
    <3>1. now.at \notin Inside \/ now.row = FALSE
      BY <2>5 DEF List, Regenerate, Begin, LimitReached, CompanyFails, Dies, Goes, Step,
         Idle, Inside, Upsert
    <3>2. Rows' \subseteq Rows
      BY <2>0, <3>1 DEF Rows
    <3> QED
      BY <1>2, <2>5, <3>2 DEF List, Regenerate, Begin, LimitReached, CompanyFails, Dies, company
  <2>7. CASE Create(w)
    <3>1. \/ now = Idle /\ audited' = audited
          \/ worker[w].at \in Inside /\ now.at = "failing" /\ audited' = Uncounted(w)
      BY <2>7 DEF Create, Goes, Step, Inside, Upsert
    <3> QED
      BY <2>2, <2>5, <2>7, <3>1
  <2> QED
    BY <1>3, <2>1, <2>3, <2>4, <2>5, <2>6, <2>7 DEF Auditing
<1>4. ASSUME NEW u \in Users, Approve(u) PROVE Counted'
  BY <1>1, <1>4 DEF Approve, Decided, company
<1>5. ASSUME NEW u \in Users, NEW i \in 1 .. Len(pitches), ReadToApprove(u, i) PROVE Counted'
  BY <1>1, <1>5 DEF ReadToApprove, company
<1>6. ASSUME NEW i \in 1 .. Len(pitches), Reject(i) PROVE Counted'
  BY <1>1, <1>6 DEF Reject, Decided, company
<1> QED
  BY <1>1, <1>3, <1>4, <1>5, <1>6 DEF Next, vars, company

-----------------------------------------------------------------------------
(* Types and the count together are inductive.                              *)
LEMMA TypeNext ==
  ASSUME TypeOK, Counted, [Next]_vars
  PROVE  TypeOK'
<1>1. CASE UNCHANGED vars
  BY <1>1 DEF TypeOK, vars, company, history, counts
<1>2. ASSUME NEW w \in Workers, Auditing(w) PROVE TypeOK'
  BY <1>2, AuditType, UpsertType, FailType, CreateType DEF Auditing
<1> QED
  BY <1>1, <1>2, UserType DEF Next

(* At first no audit has a row.                                             *)
LEMMA CountedInit == Init => Counted
<1> SUFFICES ASSUME Init PROVE Counted
  OBVIOUS
<1>1. Rows = {}
  BY DEF Init, Rows, Idle
<1> QED
  BY <1>1, FS_EmptySet DEF Counted, Init

(* The count of the day always covers the audits that have a row.           *)
LEMMA CountedAlways == Spec => [](TypeOK /\ Counted)
<1>1. TypeOK /\ Counted /\ [Next]_vars => (TypeOK /\ Counted)'
  BY TypeNext, CountedNext
<1> QED
  BY <1>1, CountedInit, TypeInit, PTL DEF Spec

(* Every variable keeps its type; above all the day's count of audits does  *)
(* not fall below zero, however failures, deaths and other audits mix.      *)
THEOREM TypeCorrect == Spec => []TypeOK
BY CountedAlways, PTL

-----------------------------------------------------------------------------
(* What an audit does to the pitches that are there: it leaves them or      *)
(* supersedes those it holds, and may add one.                              *)
LEMMA PitchesOfAudit ==
  ASSUME TypeOK, NEW w \in Workers, Auditing(w)
  PROVE  /\ late' = late /\ approving' = approving /\ Len(pitches) <= Len(pitches')
         /\ \A i \in 1 .. Len(pitches) :
              \/ pitches'[i] = pitches[i]
              \/ /\ worker[w].at \in {"supersede", "clear"} /\ i \in worker[w].ids
                 /\ pitches'[i] = "SUPERSEDED"
         /\ \A v \in Workers \ {w} : worker'[v] = worker[v]
<1>a. worker[w].ids \in SUBSET (1 .. Len(pitches)) /\ pitches \in Seq(Status)
  BY DEF TypeOK
<1>1. CASE Supersede(w) \/ Clear(w)
  <2>1. /\ pitches' = Superseded(worker[w].ids) /\ worker[w].at \in {"supersede", "clear"}
        /\ late' = late /\ approving' = approving
        /\ \A v \in Workers \ {w} : worker'[v] = worker[v]
    BY <1>1, WorkerTypes DEF Supersede, Clear, Goes, history
  <2>2. Len(pitches) \in Nat
    BY <1>a
  <2> QED
    BY <1>a, <2>1, <2>2, SupersededEffect
<1>2. CASE Create(w)
  BY <1>2, <1>a, CreatedEffect, WorkerTypes DEF Create, Goes, history, Status, Open
<1>3. CASE ~(Supersede(w) \/ Clear(w) \/ Create(w))
  <2> USE WorkerTypes
  <2>1. /\ pitches' = pitches /\ late' = late /\ approving' = approving
        /\ \A v \in Workers \ {w} : worker'[v] = worker[v]
    <3>1. CASE List(w) \/ Regenerate(w) \/ Begin(w) \/ LimitReached(w) \/ RowDone(w)
               \/ CompanyDone(w)
      BY <3>1 DEF List, Regenerate, Begin, LimitReached, RowDone, CompanyDone, Goes, history
    <3>2. CASE Look(w)
      BY <3>2 DEF Look, Goes, history
    <3>3. CASE ListDrafts(w) \/ Fails(w) \/ CompanyFails(w) \/ Dies(w)
      BY <3>3 DEF ListDrafts, Fails, CompanyFails, Dies, Goes, history
    <3> QED
      BY <1>3, <3>1, <3>2, <3>3 DEF Auditing
  <2>2. Len(pitches) \in Nat
    BY <1>a
  <2> QED
    BY <2>1, <2>2
<1> QED
  BY <1>1, <1>2, <1>3

(* What users do to them: a decision during an audit is remembered.         *)
LEMMA PitchesOfUsers ==
  ASSUME TypeOK,
         \/ \E u \in Users : Approve(u) \/ \E i \in 1 .. Len(pitches) : ReadToApprove(u, i)
         \/ \E i \in 1 .. Len(pitches) : Reject(i)
  PROVE  /\ UNCHANGED <<worker, audit, attempts, audited, begun, deaths>>
         /\ Len(pitches') = Len(pitches) /\ late \subseteq late'
         /\ \/ pitches' = pitches /\ mixed' = mixed
            \/ \E i \in 1 .. Len(pitches) :
                 /\ pitches'[i] # "SUPERSEDED"
                 /\ Busy # {} => i \in late' /\ mixed'
                 /\ pitches[i] = "SUPERSEDED" \/ mixed => mixed'
                 /\ \A j \in (1 .. Len(pitches)) \ {i} : pitches'[j] = pitches[j]
<1>1. ASSUME NEW u \in Users, NEW i \in 1 .. Len(pitches), ReadToApprove(u, i)
      PROVE  /\ UNCHANGED <<worker, company, begun, deaths, late, mixed, pitches>>
  BY <1>1 DEF ReadToApprove, Click, history
<1>2. ASSUME NEW i \in 1 .. Len(pitches), NEW s \in Status \ {"SUPERSEDED"},
             pitches' = [pitches EXCEPT ![i] = s], Decided(i)
      PROVE  /\ UNCHANGED <<worker, company, begun>>
             /\ Len(pitches') = Len(pitches) /\ late \subseteq late'
             /\ pitches'[i] # "SUPERSEDED"
             /\ Busy # {} => i \in late' /\ mixed'
             /\ pitches[i] = "SUPERSEDED" \/ mixed => mixed'
             /\ \A j \in (1 .. Len(pitches)) \ {i} : pitches'[j] = pitches[j]
  <2>1. pitches \in Seq(Status) /\ s \in Status
    BY DEF TypeOK
  <2>2. /\ Len(pitches') = Len(pitches) /\ pitches'[i] # "SUPERSEDED"
        /\ \A j \in (1 .. Len(pitches)) \ {i} : pitches'[j] = pitches[j]
    BY <1>2, <2>1, DecidedEffect
  <2>3. /\ UNCHANGED <<worker, company, begun>> /\ late \subseteq late'
        /\ Busy # {} => i \in late'
    BY <1>2 DEF Decided
  <2>4. Busy # {} \/ pitches[i] = "SUPERSEDED" \/ mixed => mixed'
    BY <1>2, Zenon DEF Decided
  <2> QED
    BY <2>2, <2>3, <2>4
<1>3. ASSUME NEW u \in Users, Approve(u)
      PROVE  /\ approving[u] \in 1 .. Len(pitches) /\ Decided(approving[u])
             /\ pitches' = [pitches EXCEPT ![approving[u]] = "APPROVED"]
             /\ deaths' = deaths
  BY <1>3 DEF Approve, TypeOK, counts
<1>4. ASSUME NEW i \in 1 .. Len(pitches), Reject(i)
      PROVE  Decided(i) /\ pitches' = [pitches EXCEPT ![i] = "REJECTED"] /\ deaths' = deaths
  BY <1>4 DEF Reject, Click
<1>5. {"APPROVED", "REJECTED"} \subseteq Status \ {"SUPERSEDED"}
  BY DEF Status, Open
<1> QED
  BY <1>1, <1>2, <1>3, <1>4, <1>5 DEF company

(* what an audit holds to supersede: an approved pitch only if a user had it *)
(* regenerated or decided on it while the audit was under way               *)
Found(w) ==
  /\ worker[w].at = "supersede" => worker[w].force
  /\ worker[w].at = "clear" =>
       \A i \in worker[w].ids : pitches[i] = "APPROVED" => i \in late

(* What an audit holds to clear or to supersede stays as it found it.       *)
LEMMA FoundNext ==
  ASSUME TypeOK, \A w \in Workers : Found(w), [Next]_vars
  PROVE  \A w \in Workers : Found(w)'
<1> SUFFICES ASSUME NEW v \in Workers PROVE Found(v)'
  OBVIOUS
<1>a. worker[v].ids \in SUBSET (1 .. Len(pitches))
  BY DEF TypeOK
<1>1. CASE UNCHANGED vars
  BY <1>1 DEF vars, history, Found
<1>2. ASSUME NEW w \in Workers, Auditing(w), v # w PROVE Found(v)'
  BY <1>2, <1>a, PitchesOfAudit DEF Found
<1>3. ASSUME Auditing(v) PROVE Found(v)'
  <2>1. CASE Look(v)
    BY <2>1 DEF Look, Found, Goes, Step, Idle, TypeOK
  <2>2. CASE ListDrafts(v)
    BY <2>2 DEF ListDrafts, Found, Step, TypeOK, Open
  <2>3. CASE ~(Look(v) \/ ListDrafts(v))
    <3>1. worker'[v].at \notin {"supersede", "clear"}
      BY <1>3, <2>3 DEF Auditing, List, Regenerate, Begin, LimitReached, RowDone, CompanyDone,
         Supersede, Clear, Create, Fails, CompanyFails, Dies, Goes, Step, Idle, TypeOK
    <3> QED
      BY <3>1 DEF Found
  <2> QED
    BY <2>1, <2>2, <2>3
<1>4. ASSUME worker' = worker, late \subseteq late', Len(pitches') = Len(pitches),
             \/ pitches' = pitches
             \/ \E i \in 1 .. Len(pitches) :
                  /\ Busy # {} => i \in late'
                  /\ \A j \in (1 .. Len(pitches)) \ {i} : pitches'[j] = pitches[j]
      PROVE  Found(v)'
  <2>1. worker[v].at = "clear" => Busy # {}
    BY DEF Busy
  <2> QED
    BY <1>4, <1>a, <2>1 DEF Found
<1> QED
  BY <1>1, <1>2, <1>3, <1>4, PitchesOfUsers DEF Next

(* A step that supersedes an approved pitch was forced, or decided on late. *)
LEMMA ApprovedStep ==
  ASSUME TypeOK, \A w \in Workers : Found(w), [Next]_vars,
         NEW i \in 1 .. Len(pitches), pitches[i] = "APPROVED", pitches'[i] = "SUPERSEDED"
  PROVE  i \in late \/ \E w \in Workers : worker[w].force
<1>1. CASE UNCHANGED vars
  BY <1>1 DEF vars
<1>2. ASSUME NEW w \in Workers, Auditing(w)
      PROVE  i \in late \/ worker[w].force
  BY <1>2, PitchesOfAudit DEF Found
<1> QED
  BY <1>1, <1>2, PitchesOfUsers DEF Next

(* However audits overlap, fail and die, an approved pitch is superseded by *)
(* a regeneration only, or if it was decided on during an audit.            *)
THEOREM ApprovedAlwaysStays == Spec => ApprovedStays
<1> DEFINE Inv == TypeOK /\ Counted /\ \A w \in Workers : Found(w)
<1>1. Init => \A w \in Workers : Found(w)
  BY DEF Init, Idle, Found
<1>2. Inv /\ [Next]_vars => Inv'
  BY TypeNext, CountedNext, FoundNext
<1>3. Inv /\ [Next]_vars =>
        [\A i \in 1 .. Len(pitches) :
           pitches[i] = "APPROVED" /\ pitches'[i] = "SUPERSEDED" =>
             i \in late \/ \E w \in Workers : worker[w].force]_vars
  BY ApprovedStep
<1>4. Init /\ [][Next]_vars => []Inv
  <2>1. Init => Inv
    BY <1>1, TypeInit, CountedInit
  <2> QED
    BY <1>2, <2>1, PTL
<1> QED
  BY <1>3, <1>4, PTL DEF Spec, ApprovedStays

-----------------------------------------------------------------------------
(* a DONE company without a pitch is still being worked on                  *)
Ahead ==
  deaths = 0 /\ audit = "DONE" =>
    \/ \E i \in 1 .. Len(pitches) : pitches[i] # "SUPERSEDED"
    \/ \E w \in Workers : worker[w].at \in Upsert \cup {"failing"}

\* A company that is DONE keeps its pitch, or an audit is about to write one.
LEMMA AheadNext ==
  ASSUME TypeOK, Ahead, [Next]_vars
  PROVE  Ahead'
<1> USE WorkerTypes
<1>1. CASE UNCHANGED vars
  BY <1>1 DEF vars, company, counts, Ahead
<1>2. ASSUME NEW w \in Workers, Auditing(w) PROVE Ahead'
  <2>1. CASE List(w) \/ Regenerate(w) \/ LimitReached(w) \/ RowDone(w)
    <3>1. worker[w].at \notin Upsert \cup {"failing"}
      BY <2>1 DEF List, Regenerate, LimitReached, RowDone, Upsert
    <3> QED
      BY <1>2, <2>1, <3>1, PitchesOfAudit DEF List, Regenerate, LimitReached, RowDone,
         company, counts, Click, Ahead
  <2>2. CASE Begin(w) \/ CompanyFails(w)
    BY <2>2 DEF Begin, CompanyFails, Ahead
  <2>3. CASE CompanyDone(w) \/ Supersede(w) \/ ListDrafts(w) \/ Clear(w) \/ Fails(w)
    <3>1. worker'[w].at \in Upsert \cup {"failing"}
      BY <2>3 DEF CompanyDone, Supersede, ListDrafts, Clear, Fails, Goes, Step, Upsert
    <3> QED
      BY <3>1 DEF Ahead
  <2>4. CASE Look(w)
    <3>1. \/ worker'[w].at \in Upsert
          \/ \E i \in 1 .. Len(pitches) : pitches[i] = "APPROVED"
      BY <2>4 DEF Look, Goes, Step, Upsert
    <3> QED
      BY <2>4, <3>1 DEF Look, Ahead
  <2>5. CASE Create(w)
    <3>1. /\ Len(pitches) + 1 \in 1 .. Len(pitches')
          /\ pitches'[Len(pitches) + 1] # "SUPERSEDED"
      BY <2>5, CreatedEffect DEF Create, TypeOK, Status, Open
    <3> QED
      BY <3>1 DEF Ahead
  <2>6. CASE Dies(w)
    BY <2>6 DEF Dies, Ahead, TypeOK
  <2> QED
    BY <1>2, <2>1, <2>2, <2>3, <2>4, <2>5, <2>6 DEF Auditing
<1>3. ASSUME UNCHANGED <<worker, audit, deaths>>, Len(pitches') = Len(pitches),
             \/ pitches' = pitches
             \/ \E i \in 1 .. Len(pitches) : pitches'[i] # "SUPERSEDED"
      PROVE  Ahead'
  BY <1>3 DEF Ahead
<1> QED
  BY <1>1, <1>2, <1>3, PitchesOfUsers DEF Next

(* As long as no process dies, a company is not DONE without a pitch once   *)
(* nobody works on it: an audit that could not write one takes DONE back.   *)
THEOREM DoneAlwaysHasPitch == Spec => []DoneHasPitch
<1> DEFINE Inv == TypeOK /\ Counted /\ Ahead
<1>1. Init => Inv
  <2>1. Init => Ahead
    BY DEF Init, Ahead
  <2> QED
    BY <2>1, TypeInit, CountedInit
<1>2. Inv /\ [Next]_vars => Inv'
  BY TypeNext, CountedNext, AheadNext
<1>3. Inv => DoneHasPitch
  BY DEF Ahead, DoneHasPitch, Busy, Upsert
<1> QED
  BY <1>1, <1>2, <1>3, PTL DEF Spec

-----------------------------------------------------------------------------
(* The states of a contact whose audits and decisions never overlapped:     *)
(* one audit at a time,                                                     *)
Single == \A v, w \in Busy : v = w

(* which knows the company's status and holds every pitch it should,        *)
Knows(w) ==
  /\ worker[w].at = "listed" /\ ~worker[w].force => Eligible
  /\ worker[w].at \in {"audit", "row"} => audit = "PENDING"
  /\ worker[w].at \in Upsert => audit = "DONE"
  /\ \A i \in 1 .. Len(pitches) : pitches[i] # "SUPERSEDED" =>
       /\ worker[w].at \in {"supersede", "clear"} => i \in worker[w].ids
       /\ worker[w].at = "drafts" => pitches[i] \in Open
       /\ worker[w].at # "create"

(* one pitch that is not superseded,                                        *)
Current ==
  \A i, j \in 1 .. Len(pitches) :
    pitches[i] # "SUPERSEDED" /\ pitches[j] # "SUPERSEDED" => i = j

(* and attempts that count the audits: a company left PENDING was left so   *)
(* by an audit that died                                                    *)
Within ==
  /\ begun <= attempts /\ begun <= MaxAttempts + deaths
  /\ audit = "none" => begun = 0
  /\ audit = "PENDING" /\ (\A w \in Workers : worker[w].at \in {"idle", "listed"}) =>
       begun < MaxAttempts + deaths

Alone == ~mixed => Single /\ (\A w \in Workers : Knows(w)) /\ Current /\ Within

(* At first nobody is at work and there is no pitch.                        *)
LEMMA AloneInit == Init => Alone
<1> SUFFICES ASSUME Init PROVE Alone
  OBVIOUS
<1>1. Len(pitches) = 0 /\ \A w \in Workers : worker[w] = Idle
  BY DEF Init
<1>2. Single /\ Current /\ \A w \in Workers : Knows(w)
  BY <1>1 DEF Single, Busy, Current, Knows, Idle, Upsert
<1>3. Within
  BY PitchAssumption DEF Init, Within
<1> QED
  BY <1>2, <1>3 DEF Alone

(* One audit's step while no other is under way.                            *)
LEMMA AloneAudit ==
  ASSUME TypeOK, Alone, NEW w \in Workers, Auditing(w), ~mixed'
  PROVE  /\ ~mixed /\ Single' /\ Current' /\ Within'
         /\ \A v \in Workers : Knows(v)'
<1> USE WorkerTypes, PitchAssumption
<1>1. mixed' = mixed \/ (Busy = {} /\ ~mixed)
  <2>1. CASE List(w) \/ Regenerate(w)
    BY <2>1 DEF List, Regenerate
  <2>2. CASE ~(List(w) \/ Regenerate(w))
    BY <2>2 DEF Auditing, Begin, LimitReached, RowDone, CompanyDone, Look, Supersede,
       ListDrafts, Clear, Create, Fails, CompanyFails, Dies, history
  <2> QED
    BY <2>1, <2>2
<1>2. ~mixed /\ Single /\ (\A v \in Workers : Knows(v)) /\ Current /\ Within
  BY <1>1 DEF Alone
<1>3. \A v \in Workers \ {w} : worker[v].at = "idle" /\ worker'[v] = worker[v]
  <2>1. CASE List(w) \/ Regenerate(w)
    <3>1. Busy = {}
      BY <2>1, <1>2 DEF List, Regenerate
    <3> QED
      BY <3>1, PitchesOfAudit DEF Busy
  <2>2. CASE ~(List(w) \/ Regenerate(w))
    <3>1. w \in Busy
      BY <2>2 DEF Auditing, Begin, LimitReached, RowDone, CompanyDone, Look, Supersede,
         ListDrafts, Clear, Create, Fails, CompanyFails, Dies, Busy, Inside, Upsert
    <3> QED
      BY <3>1, <1>2, PitchesOfAudit DEF Busy, Single
  <2> QED
    BY <2>1, <2>2
<1>4. Single'
  BY <1>3 DEF Single, Busy
<1>5. \A v \in Workers \ {w} : Knows(v)'
  BY <1>3 DEF Knows, Upsert
<1>6. Knows(w) /\ Current /\ Within
  BY <1>2
<1>7. worker[w].ids \in SUBSET (1 .. Len(pitches)) /\ pitches \in Seq(Status)
  BY DEF TypeOK
<1>8. Knows(w)' /\ Current' /\ Within'
  <2>1. CASE List(w) \/ Regenerate(w)
    <3>1. UNCHANGED <<pitches, company, begun, deaths>> /\ worker'[w].at = "listed"
      BY <2>1 DEF List, Regenerate, Goes, Step, Click, counts
    <3>2. worker[w].at = "idle" /\ (worker'[w].force \/ Eligible)
      BY <2>1 DEF List, Regenerate
    <3> QED
      BY <1>3, <1>6, <3>1, <3>2 DEF Knows, Current, Within, company, Eligible, Upsert
  <2>2. CASE Begin(w)
    <3>1. /\ UNCHANGED <<pitches, deaths>> /\ worker'[w].at = "audit" /\ audit' = "PENDING"
          /\ worker[w].at = "listed" /\ attempts' = attempts + 1
          /\ begun' = IF worker[w].force THEN begun ELSE begun + 1
      BY <2>2 DEF Begin
    <3>2. Knows(w)' /\ Current'
      BY <1>6, <3>1 DEF Knows, Current, Upsert
    <3>3. ~worker[w].force => begun < MaxAttempts + deaths
      <4>1. \A v \in Workers : worker[v].at \in {"idle", "listed"}
        BY <1>3, <3>1
      <4> QED
        BY <1>6, <3>1, <4>1 DEF Knows, Within, Eligible, TypeOK
    <3>4. begun' <= attempts' /\ begun' <= MaxAttempts + deaths
      BY <1>6, <3>1, <3>3 DEF Within, TypeOK
    <3>5. Within'
      BY <3>1, <3>4 DEF Within
    <3> QED
      BY <3>2, <3>5
  <2>3. CASE LimitReached(w)
    <3>1. UNCHANGED <<pitches, company, begun, deaths>> /\ worker'[w].at = "idle"
      BY <2>3 DEF LimitReached, history, counts, Idle
    <3> QED
      BY <1>3, <1>6, <2>3, <3>1 DEF LimitReached, Knows, Current, Within, company, Upsert
  <2>4. CASE RowDone(w)
    <3>1. UNCHANGED <<pitches, audit, attempts, begun, deaths>> /\ worker'[w].at = "row"
      BY <2>4 DEF RowDone, history, counts
    <3> QED
      BY <1>6, <2>4, <3>1 DEF RowDone, Knows, Current, Within, Upsert
  <2>5. CASE CompanyDone(w)
    <3>1. /\ UNCHANGED <<pitches, attempts, begun, deaths>>
          /\ worker'[w].at = "look" /\ audit' = "DONE"
      BY <2>5 DEF CompanyDone, Goes, Step, history, counts
    <3> QED
      BY <1>6, <3>1 DEF Knows, Current, Within, Upsert
  <2>6. CASE Look(w)
    <3>1. UNCHANGED <<pitches, audit, attempts, begun, deaths>> /\ audit = "DONE"
      BY <1>6, <2>6 DEF Look, company, history, counts, Knows, Upsert
    <3>2. Current' /\ Within'
      BY <1>6, <3>1 DEF Current, Within
    <3>3. Knows(w)'
      <4>1. CASE Goes(w, "drafts") /\ \A i \in 1 .. Len(pitches) : pitches[i] # "APPROVED"
        <5>1. worker'[w].at = "drafts"
          BY <4>1 DEF Goes, Step
        <5>2. \A i \in 1 .. Len(pitches) : pitches[i] \in Status
          BY <1>7
        <5> QED
          BY <3>1, <4>1, <5>1, <5>2 DEF Knows, Status
      <4>2. CASE worker' = [worker EXCEPT ![w] = Idle]
        BY <3>1, <4>2 DEF Knows, Idle, Upsert
      <4>3. ASSUME NEW i \in 1 .. Len(pitches), pitches[i] = "APPROVED",
                   worker' = [worker EXCEPT ![w] = Step(w, "supersede", {i})]
            PROVE  Knows(w)'
        <5>1. worker'[w].at = "supersede" /\ worker'[w].ids = {i}
          BY <4>3 DEF Step
        <5>2. \A j \in 1 .. Len(pitches) : pitches[j] # "SUPERSEDED" => j = i
          BY <1>6, <4>3 DEF Current
        <5> QED
          BY <3>1, <5>1, <5>2 DEF Knows
      <4> QED
        BY <2>6, <4>1, <4>2, <4>3 DEF Look
    <3> QED
      BY <3>2, <3>3
  <2>7. CASE Supersede(w) \/ Clear(w)
    <3>1. /\ UNCHANGED <<audit, attempts, begun, deaths>> /\ audit = "DONE"
          /\ worker'[w].at \in {"drafts", "create"}
          /\ pitches' = Superseded(worker[w].ids)
          /\ \A i \in 1 .. Len(pitches) : pitches[i] # "SUPERSEDED" => i \in worker[w].ids
      BY <1>6, <2>7 DEF Supersede, Clear, Goes, Step, company, history, counts, Knows, Upsert
    <3>2. Len(pitches') = Len(pitches) /\ \A i \in 1 .. Len(pitches) : pitches'[i] = "SUPERSEDED"
      BY <1>7, <3>1, SupersededEffect
    <3> QED
      BY <1>6, <3>1, <3>2 DEF Knows, Current, Within
  <2>8. CASE ListDrafts(w)
    <3>1. /\ UNCHANGED <<pitches, audit, attempts, begun, deaths>> /\ audit = "DONE"
          /\ worker[w].at = "drafts" /\ worker'[w].at = "clear"
          /\ worker'[w].ids = {i \in 1 .. Len(pitches) : pitches[i] \in Open}
      BY <1>6, <2>8 DEF ListDrafts, Step, company, history, counts, Knows, Upsert
    <3> QED
      BY <1>6, <3>1 DEF Knows, Current, Within
  <2>9. CASE Create(w)
    <3>1. /\ UNCHANGED <<audit, attempts, begun, deaths>> /\ audit = "DONE"
          /\ worker'[w].at \in {"idle", "failing"}
          /\ \A i \in 1 .. Len(pitches) : pitches[i] = "SUPERSEDED"
      BY <1>6, <2>9 DEF Create, Goes, Step, Idle, history, counts, Knows, Upsert
    <3>2. /\ Len(pitches') = Len(pitches) + 1
          /\ \A i \in 1 .. Len(pitches) : pitches'[i] = "SUPERSEDED"
      BY <1>7, <2>9, <3>1, CreatedEffect DEF Create, Status, Open
    <3>3. Current'
      BY <1>7, <3>2 DEF Current
    <3> QED
      BY <1>6, <3>1, <3>3 DEF Knows, Within, Upsert
  <2>10. CASE Fails(w)
    <3>1. UNCHANGED <<pitches, audit, attempts, begun, deaths>> /\ worker'[w].at = "failing"
      BY <2>10 DEF Fails, Goes, Step, history, counts
    <3> QED
      BY <1>6, <3>1 DEF Knows, Current, Within, Upsert
  <2>11. CASE CompanyFails(w)
    <3>1. /\ UNCHANGED <<pitches, attempts, begun, deaths>>
          /\ worker'[w].at = "idle" /\ audit' = "FAILED"
      BY <2>11 DEF CompanyFails, Idle, history, counts
    <3> QED
      BY <1>6, <3>1 DEF Knows, Current, Within, Upsert
  <2>12. CASE Dies(w)
    <3>1. /\ UNCHANGED <<pitches, audit, attempts, begun>>
          /\ worker'[w].at = "idle" /\ deaths' = deaths + 1
      BY <2>12 DEF Dies, Idle, company, history
    <3> QED
      BY <1>6, <3>1 DEF Knows, Current, Within, Upsert, TypeOK
  <2> QED
    BY <2>1, <2>2, <2>3, <2>4, <2>5, <2>6, <2>7, <2>8, <2>9, <2>10, <2>11, <2>12 DEF Auditing
<1> QED
  BY <1>2, <1>4, <1>5, <1>8

(* Every step keeps them so, or marks that something overlapped.            *)
LEMMA AloneNext ==
  ASSUME TypeOK, Alone, [Next]_vars
  PROVE  Alone'
<1> SUFFICES ASSUME ~mixed'
             PROVE  Single' /\ (\A v \in Workers : Knows(v)') /\ Current' /\ Within'
  BY DEF Alone
<1>1. CASE UNCHANGED vars
  <2>1. Single /\ (\A w \in Workers : Knows(w)) /\ Current /\ Within
    BY <1>1 DEF Alone, vars, history
  <2> QED
    BY <1>1, <2>1 DEF vars, company, history, counts, Single, Busy, Knows, Current, Within, Eligible
<1>2. ASSUME NEW w \in Workers, Auditing(w)
      PROVE  Single' /\ (\A v \in Workers : Knows(v)') /\ Current' /\ Within'
  BY <1>2, AloneAudit
<1>3. ASSUME UNCHANGED <<worker, audit, attempts, audited, begun, deaths>>,
             Len(pitches') = Len(pitches), pitches' = pitches, mixed' = mixed
      PROVE  Single' /\ (\A v \in Workers : Knows(v)') /\ Current' /\ Within'
  <2>1. Single /\ (\A w \in Workers : Knows(w)) /\ Current /\ Within
    BY <1>3 DEF Alone
  <2> QED
    BY <1>3, <2>1 DEF Single, Busy, Knows, Current, Within, Eligible
<1>4. ASSUME UNCHANGED <<worker, audit, attempts, audited, begun, deaths>>,
             Len(pitches') = Len(pitches), NEW i \in 1 .. Len(pitches),
             Busy # {} => mixed', pitches[i] = "SUPERSEDED" \/ mixed => mixed',
             \A j \in (1 .. Len(pitches)) \ {i} : pitches'[j] = pitches[j]
      PROVE  Single' /\ (\A v \in Workers : Knows(v)') /\ Current' /\ Within'
  <2>1. Busy = {} /\ pitches[i] # "SUPERSEDED" /\ Current /\ Within
    BY <1>4 DEF Alone
  <2>2. Single' /\ \A v \in Workers : Knows(v)'
    BY <1>4, <2>1 DEF Busy, Single, Knows, Upsert
  <2>3. Current'
    BY <1>4, <2>1 DEF Current
  <2>4. Within'
    BY <1>4, <2>1 DEF Within
  <2> QED
    BY <2>2, <2>3, <2>4
<1> QED
  BY <1>1, <1>2, <1>3, <1>4, PitchesOfUsers DEF Next

\* As long as nothing was mixed one audit is at work and knows what there is.
LEMMA AloneAlways == Spec => [](TypeOK /\ Alone)
<1>1. Init => TypeOK /\ Counted /\ Alone
  BY TypeInit, CountedInit, AloneInit
<1>2. TypeOK /\ Counted /\ Alone /\ [Next]_vars => (TypeOK /\ Counted /\ Alone)'
  BY TypeNext, CountedNext, AloneNext
<1> QED
  BY <1>1, <1>2, PTL DEF Spec

(* A set whose members are all equal has at most one.                       *)
LEMMA AtMostOne ==
  ASSUME NEW L, \A i, j \in L : i = j
  PROVE  Cardinality(L) <= 1
<1>1. CASE L = {}
  BY <1>1, FS_EmptySet
<1>2. ASSUME NEW i \in L PROVE Cardinality(L) <= 1
  <2>1. L = {i}
    BY <1>2
  <2>2. Cardinality(L) = 1
    BY <2>1, FS_Singleton
  <2> QED
    BY <2>2
<1> QED
  BY <1>1, <1>2

(* A contact whose audits and decisions never overlapped has one pitch that *)
(* is not superseded at most, whatever failed or died on the way.           *)
THEOREM OneCurrentAlways == Spec => []OneCurrent
<1>1. TypeOK /\ Alone => OneCurrent
  BY AtMostOne DEF Alone, OneCurrent, Current
<1> QED
  BY <1>1, AloneAlways, PTL

(* As long as audits do not overlap, nobody pays for more of them than      *)
(* maxAttempts allows, one more for each process that died.                 *)
THEOREM AttemptsBounded == Spec => []AuditsWithinAttempts
<1>1. Alone => AuditsWithinAttempts
  BY DEF Alone, Within, AuditsWithinAttempts
<1> QED
  BY <1>1, AloneAlways, PTL
=============================================================================
