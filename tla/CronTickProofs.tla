--------------------------- MODULE CronTickProofs ---------------------------
(***************************************************************************)
(* Proofs about CronTick, for every finite set of requests and any number   *)
(* of processes, connections, jobs and mishaps.                             *)
(***************************************************************************)
EXTENDS CronTick, FiniteSetTheorems, TLAPS

-----------------------------------------------------------------------------
(* Type correctness *)

\* A lock that is held names the connection that holds it, and no other does.
LEMMA LockForm ==
  ASSUME NEW l \in Locks
  PROVE  /\ l.depth \in Nat
         /\ l = Free <=> l.depth = 0
         /\ l # Free => l.conn \in Conns /\ l.conn[1] \in Procs
         /\ \A p \in Procs : \A c \in Pool(p) :
              c[1] = p /\ c \in Conns /\ (l.conn = c => l # Free)
<1>1. CASE l = Free
  <2>1. l.conn = <<>> /\ l.depth = 0
    BY <1>1 DEF Free
  <2>2. \A c \in Conns : c # <<>>
    <3> SUFFICES ASSUME NEW q \in Procs, NEW i \in 1 .. PoolSize PROVE <<q, i>> # <<>>
      BY DEF Conns
    <3> QED
      OBVIOUS
  <2> QED
    BY <1>1, <2>1, <2>2 DEF Pool
<1>2. CASE l # Free
  <2>1. l \in [conn : Conns, depth : 1 .. MaxDepth]
    BY <1>2 DEF Locks
  <2>2. l.conn \in Conns /\ l.depth \in 1 .. MaxDepth
    BY <2>1
  <2>3. l.depth \in Nat /\ l.depth # 0
    BY <2>2, CronAssumption
  <2> QED
    BY <1>2, <2>2, <2>3 DEF Conns, Pool
<1> QED
  BY <1>1, <1>2

\* Every step of the script, the route, the pool and the crashes keeps the types.
LEMMA TypeStep == TypeOK /\ [Next]_vars => TypeOK'
<1> SUFFICES ASSUME TypeOK, [Next]_vars PROVE TypeOK'
  OBVIOUS
<1> USE DEF TypeOK, hist, At
<1>moved. \A t \in Ticks : \A at \in Spots : Goto(t, at) => tick' \in [Ticks -> Requests]
  <2> SUFFICES ASSUME NEW t \in Ticks, NEW at \in Spots, Goto(t, at)
               PROVE  tick' \in [Ticks -> Requests]
    OBVIOUS
  <2>1. [tick[t] EXCEPT !.at = at] \in Requests
    BY DEF Requests
  <2> QED
    BY <2>1 DEF Goto
<1>idle. \A q \in Procs : Idle(q) \in Requests
  BY DEF Idle, Requests, Spots
<1>ended. \A t \in Ticks : End(t) => tick' \in [Ticks -> Requests]
  <2> SUFFICES ASSUME NEW t \in Ticks, End(t) PROVE tick' \in [Ticks -> Requests]
    OBVIOUS
  <2>1. Idle(tick[t].proc) \in Requests
    BY <1>idle DEF Requests
  <2> QED
    BY <2>1 DEF End
<1>mishap. Mishap => mishaps' \in 0 .. MaxMishaps
  BY CronAssumption DEF Mishap
<1>free. Free \in Locks
  BY DEF Locks
<1>1. ASSUME NEW t \in Ticks, NEW p \in Procs, Post(t, p) PROVE TypeOK'
  <2>1. [Idle(p) EXCEPT !.at = "lock"] \in Requests
    BY DEF Idle, Requests, Spots
  <2>2. tick' \in [Ticks -> Requests]
    BY <1>1, <2>1 DEF Post
  <2>3. script' = {t} /\ Cardinality({t}) = 1
    BY <1>1, FS_Singleton DEF Post
  <2> QED
    BY <1>1, <2>2, <2>3 DEF Post
<1>2. ASSUME NEW t \in Ticks, Answer(t) \/ GiveUp(t) PROVE TypeOK'
  <2>1. Cardinality({}) <= 1
    BY FS_EmptySet
  <2>2. script' \subseteq Ticks /\ Cardinality(script') <= 1
    BY <1>2, <2>1 DEF Answer, GiveUp
  <2>3. UNCHANGED <<tick, lock, mishaps, dropped, stray>> /\ outlived' \in BOOLEAN
    BY <1>2 DEF Answer, GiveUp
  <2> QED
    BY <2>2, <2>3
<1>3. ASSUME NEW t \in Ticks, TryLock(t) PROVE TypeOK'
  <2>1. PICK c \in Pool(tick[t].proc) :
          \/ lock' = lock
          \/ lock' = [conn |-> c, depth |-> 1]
          \/ lock.conn = c /\ lock.depth < MaxDepth /\ lock' = [lock EXCEPT !.depth = @ + 1]
    BY <1>3 DEF TryLock
  <2>2. tick[t].proc \in Procs
    BY DEF Requests
  <2>3. lock' \in Locks
    <3>1. CASE lock' = [conn |-> c, depth |-> 1]
      BY <3>1, <2>2, CronAssumption DEF Locks, Pool
    <3>2. CASE lock.conn = c /\ lock.depth < MaxDepth /\ lock' = [lock EXCEPT !.depth = @ + 1]
      <4>1. lock \in [conn : Conns, depth : 1 .. MaxDepth]
        BY <3>2, <2>2, LockForm DEF Locks
      <4>2. lock' \in [conn : Conns, depth : 1 .. MaxDepth]
        BY <3>2, <4>1, CronAssumption
      <4> QED
        BY <4>2 DEF Locks
    <3> QED
      BY <2>1, <3>1, <3>2
  <2>4. tick' \in [Ticks -> Requests]
    BY <1>3, <1>moved DEF TryLock, Spots
  <2> QED
    BY <1>3, <2>3, <2>4 DEF TryLock
<1>4. ASSUME NEW t \in Ticks, Skip(t) PROVE TypeOK'
  BY <1>4, <1>ended DEF Skip
<1>5. ASSUME NEW t \in Ticks, Start(t) PROVE TypeOK'
  <2>1. [tick[t] EXCEPT !.at = "jobs", !.todo = Jobs] \in Requests
    BY DEF Requests, Spots
  <2>2. tick' = [tick EXCEPT ![t] = [tick[t] EXCEPT !.at = "jobs", !.todo = Jobs]]
    BY <1>5 DEF Start
  <2>3. tick' \in [Ticks -> Requests]
    BY <2>1, <2>2
  <2> QED
    BY <1>5, <2>3 DEF Start
<1>6. ASSUME NEW t \in Ticks, NEW j \in Jobs, Job(t, j) PROVE TypeOK'
  <2>1. [tick[t] EXCEPT !.todo = tick[t].todo \ {j}] \in Requests
    BY DEF Requests
  <2>2. tick' = [tick EXCEPT ![t] = [tick[t] EXCEPT !.todo = tick[t].todo \ {j}]]
    BY <1>6 DEF Job
  <2>3. tick' \in [Ticks -> Requests]
    BY <2>1, <2>2
  <2> QED
    BY <1>6, <2>3 DEF Job
<1>7. ASSUME NEW t \in Ticks, Joined(t) \/ Finish(t) PROVE TypeOK'
  BY <1>7, <1>moved DEF Joined, Finish, Spots
<1>8. ASSUME NEW t \in Ticks, Release(t) PROVE TypeOK'
  <2>1. PICK c \in Pool(tick[t].proc) :
          \/ lock' = lock
          \/ lock.conn = c /\ lock.depth = 1 /\ lock' = Free
          \/ lock.conn = c /\ lock.depth # 1 /\ lock' = [lock EXCEPT !.depth = @ - 1]
    BY <1>8 DEF Release
  <2>2. tick[t].proc \in Procs
    BY DEF Requests
  <2>3. lock' \in Locks
    <3>1. CASE lock.conn = c /\ lock.depth # 1 /\ lock' = [lock EXCEPT !.depth = @ - 1]
      <4>1. lock \in [conn : Conns, depth : 1 .. MaxDepth]
        BY <3>1, <2>2, LockForm DEF Locks
      <4>2. lock' \in [conn : Conns, depth : 1 .. MaxDepth]
        BY <3>1, <4>1, CronAssumption
      <4> QED
        BY <4>2 DEF Locks
    <3> QED
      BY <2>1, <3>1, <1>free
  <2>4. stray' \in BOOLEAN
    BY <1>8 DEF Release
  <2> QED
    BY <1>8, <2>3, <2>4, <1>ended DEF Release
<1>9. ASSUME NEW t \in Ticks, Throw(t) PROVE TypeOK'
  <2>1. tick' \in [Ticks -> Requests]
    BY <1>9, <1>ended, <1>moved DEF Throw, Spots
  <2> QED
    BY <1>9, <2>1, <1>mishap DEF Throw
<1>10. ASSUME Drop PROVE TypeOK'
  <2>1. dropped' \in BOOLEAN
    BY <1>10 DEF Drop
  <2> QED
    BY <1>10, <2>1, <1>mishap, <1>free DEF Drop
<1>11. ASSUME NEW p \in Procs, Die(p) PROVE TypeOK'
  <2>1. tick' \in [Ticks -> Requests]
    BY <1>11, <1>idle DEF Die
  <2>2. lock' \in Locks
    BY <1>11, <1>free DEF Die
  <2> QED
    BY <1>11, <2>1, <2>2, <1>mishap DEF Die
<1>12. CASE UNCHANGED vars
  BY <1>12 DEF vars
<1> QED
  BY <1>1, <1>2, <1>3, <1>4, <1>5, <1>6, <1>7, <1>8, <1>9, <1>10, <1>11, <1>12
  DEF Next, Route

-----------------------------------------------------------------------------
(* The flock *)

\* Who posts holds the flock, and gives it back with the answer or outlived.
LEMMA FlockStep == TypeOK /\ FlockInv /\ [Next]_vars => FlockInv'
<1> SUFFICES ASSUME TypeOK, FlockInv, [Next]_vars PROVE FlockInv'
  OBVIOUS
<1> USE DEF TypeOK, FlockInv, hist, At
<1>1. ASSUME NEW t \in Ticks, NEW p \in Procs, Post(t, p) PROVE FlockInv'
  BY <1>1 DEF Post, Idle
<1>2. ASSUME NEW t \in Ticks, Answer(t) PROVE FlockInv'
  <2>1. script = {t}
    <3>1. IsFiniteSet(script)
      BY CronAssumption, FS_Subset
    <3>2. {t} \subseteq script /\ IsFiniteSet({t}) /\ Cardinality({t}) = 1
      BY <1>2, FS_Singleton DEF Answer
    <3>3. Cardinality(script) \in Nat /\ Cardinality({t}) <= Cardinality(script)
      BY <3>1, <3>2, FS_CardinalityType, FS_Subset
    <3>4. Cardinality({t}) = Cardinality(script)
      BY <3>2, <3>3
    <3> QED
      BY <3>1, <3>2, <3>4, FS_Subset
  <2> QED
    BY <1>2, <2>1 DEF Answer
<1>3. ASSUME NEW t \in Ticks, GiveUp(t) PROVE FlockInv'
  BY <1>3 DEF GiveUp
<1>4. ASSUME NEW t \in Ticks, Route(t) PROVE FlockInv'
  <2>1. \A u \in Ticks : u # t => tick'[u] = tick[u]
    BY <1>4 DEF Route, TryLock, Skip, Start, Job, Joined, Finish, Release, Goto, End
  <2>2. ~At(t, "idle") /\ UNCHANGED <<script, outlived>>
    BY <1>4 DEF Route, TryLock, Skip, Start, Job, Joined, Finish, Release
  <2> QED
    BY <2>1, <2>2
<1>5. ASSUME NEW t \in Ticks, Throw(t) PROVE FlockInv'
  <2>1. \A u \in Ticks : u # t => tick'[u] = tick[u]
    BY <1>5 DEF Throw, Goto, End
  <2>2. ~At(t, "idle") /\ UNCHANGED <<script, outlived>>
    BY <1>5 DEF Throw
  <2> QED
    BY <2>1, <2>2
<1>6. CASE Drop
  BY <1>6 DEF Drop
<1>7. ASSUME NEW p \in Procs, Die(p) PROVE FlockInv'
  BY <1>7 DEF Die, Idle
<1>8. CASE UNCHANGED vars
  BY <1>8 DEF vars
<1> QED
  BY <1>1, <1>2, <1>3, <1>4, <1>5, <1>6, <1>7, <1>8 DEF Next

-----------------------------------------------------------------------------
(* The advisory lock: what a step does to the workers and to the lock *)

\* There are finitely many workers.
LEMMA FiniteWorkers ==
  /\ IsFiniteSet(Workers) /\ Cardinality(Workers) \in Nat
  /\ IsFiniteSet(Holders) /\ Cardinality(Holders) \in Nat
  /\ Holders \subseteq Workers
<1>1. Workers \subseteq Ticks /\ Holders \subseteq Workers
  BY DEF Workers, Holders
<1>2. IsFiniteSet(Workers) /\ IsFiniteSet(Holders)
  BY <1>1, CronAssumption, FS_Subset
<1> QED
  BY <1>1, <1>2, FS_CardinalityType

\* The same after a step.
LEMMA FiniteWorkersNext ==
  /\ IsFiniteSet(Workers') /\ Cardinality(Workers') \in Nat
  /\ IsFiniteSet(Holders') /\ Cardinality(Holders') \in Nat
  /\ Holders' \subseteq Workers'
<1>1. Workers' \subseteq Ticks /\ Holders' \subseteq Workers'
  BY DEF Workers, Holders
<1>2. IsFiniteSet(Workers') /\ IsFiniteSet(Holders')
  BY <1>1, CronAssumption, FS_Subset
<1> QED
  BY <1>1, <1>2, FS_CardinalityType

\* Nobody starts or ends work, and the lock stays as it is.
LEMMA Still ==
  ASSUME TypeOK, LockInv, StrayInv,
         Workers' = Workers, \A u \in Workers : tick'[u].proc = tick[u].proc,
         lock' = lock, dropped' = dropped, stray' = stray
  PROVE  LockInv' /\ StrayInv'
<1>1. Holders' = Holders
  BY DEF Holders
<1> QED
  BY <1>1 DEF LockInv, StrayInv

\* A request takes the lock, for the first time or again, and starts work.
LEMMA Enter ==
  ASSUME TypeOK, TypeOK', LockInv, StrayInv,
         NEW t \in Ticks, t \notin Workers, Workers' = Workers \cup {t},
         \A u \in Ticks : tick'[u].proc = tick[u].proc,
         NEW c \in Pool(tick[t].proc),
         lock = Free \/ lock.conn = c,
         lock'.conn = c, lock'.depth = lock.depth + 1,
         dropped' = dropped, stray' = stray
  PROVE  LockInv' /\ StrayInv'
<1>1. lock.depth \in Nat /\ (lock = Free <=> lock.depth = 0)
  BY LockForm DEF TypeOK
<1>2. tick[t].proc \in Procs /\ c[1] = tick[t].proc
  BY LockForm DEF TypeOK, Requests
<1>3. lock' # Free
  BY <1>1 DEF Free
<1>4. Cardinality(Workers') = Cardinality(Workers) + 1
  BY FiniteWorkers, FS_AddElement
<1>5. t \in Holders' /\ Holders' = {u \in Workers' : tick[u].proc = tick[t].proc}
  BY <1>2, <1>3 DEF Holders, Workers
<1>6. CASE lock = Free
  <2>1. Holders = {} /\ lock'.depth = 1
    BY <1>1, <1>6 DEF Holders
  <2>2. LockInv'
    <3> SUFFICES ASSUME ~dropped PROVE Workers' \subseteq Holders' /\ Cardinality(Workers') <= 1
      BY <2>1 DEF LockInv
    <3>1. Workers = {}
      BY <2>1 DEF LockInv
    <3> QED
      BY <1>4, <1>5, <3>1, FS_EmptySet
  <2>3. StrayInv'
    <3>1. Cardinality(Holders') # 0
      BY <1>5, FiniteWorkersNext, FS_EmptySet
    <3> QED
      BY <2>1, <3>1, FiniteWorkersNext DEF StrayInv
  <2> QED
    BY <2>2, <2>3
<1>7. CASE lock # Free
  <2>1. Holders = {u \in Workers : tick[u].proc = tick[t].proc}
    BY <1>2, <1>7 DEF Holders
  <2>2. Holders' = Holders \cup {t} /\ t \notin Holders
    BY <1>5, <2>1
  <2>3. Cardinality(Holders') = Cardinality(Holders) + 1
    BY <2>2, FiniteWorkers, FS_AddElement
  <2>4. LockInv'
    BY <1>1, <1>4, <2>2, FiniteWorkers DEF LockInv
  <2>5. StrayInv'
    BY <1>1, <2>3, FiniteWorkers DEF StrayInv
  <2> QED
    BY <2>4, <2>5
<1> QED
  BY <1>6, <1>7

\* A request ends work and leaves the lock behind.
LEMMA Abandon ==
  ASSUME TypeOK, LockInv, StrayInv,
         NEW t \in Workers, Workers' = Workers \ {t},
         \A u \in Ticks : tick'[u].proc = tick[u].proc,
         lock' = lock, dropped' = dropped, stray' = TRUE
  PROVE  LockInv' /\ StrayInv'
<1>1. lock.depth \in Nat
  BY LockForm DEF TypeOK
<1>2. Cardinality(Workers') = Cardinality(Workers) - 1
  BY FiniteWorkers, FS_RemoveElement
<1>3. Holders' = Holders \ {t}
  BY DEF Holders, Workers
<1> QED
  BY <1>1, <1>2, <1>3, FiniteWorkers DEF LockInv, StrayInv

\* A request ends work and gives the lock back once.
LEMMA Leave ==
  ASSUME TypeOK, TypeOK', LockInv, StrayInv,
         NEW t \in Workers, Workers' = Workers \ {t},
         \A u \in Ticks : tick'[u].proc = tick[u].proc,
         NEW c \in Pool(tick[t].proc), lock.conn = c,
         lock'.depth = lock.depth - 1, lock' # Free => lock'.conn = c,
         dropped' = dropped, stray' = stray
  PROVE  LockInv' /\ StrayInv'
<1>t. t \in Ticks
  BY DEF Workers
<1>1. tick[t].proc \in Procs /\ c[1] = tick[t].proc /\ lock # Free
  BY <1>t, LockForm DEF TypeOK, Requests
<1>2. lock.depth \in Nat /\ lock.depth # 0
  BY <1>1, LockForm DEF TypeOK
<1>3. lock' = Free <=> lock'.depth = 0
  BY LockForm DEF TypeOK
<1>4. Cardinality(Workers') = Cardinality(Workers) - 1
  BY FiniteWorkers, FS_RemoveElement
<1>5. t \in Holders
  BY <1>1 DEF Holders
<1>6. CASE lock' = Free
  <2>1. lock'.depth = 0
    BY <1>3, <1>6
  <2>2. StrayInv'
    BY <2>1, FiniteWorkersNext DEF StrayInv
  <2>3. LockInv'
    <3> SUFFICES ASSUME ~dropped PROVE Workers' = {} /\ Cardinality(Workers') <= 0
      BY <2>1, <1>6 DEF LockInv
    <3>1. Cardinality(Workers') = 0
      BY <1>2, <1>4, <2>1, FiniteWorkers, FiniteWorkersNext DEF LockInv
    <3> QED
      BY <3>1, FiniteWorkersNext, FS_EmptySet
  <2> QED
    BY <2>2, <2>3
<1>7. CASE lock' # Free
  <2>1. Holders' = Holders \ {t}
    BY <1>1, <1>7 DEF Holders, Workers
  <2>2. Cardinality(Holders') = Cardinality(Holders) - 1
    BY <1>5, <2>1, FiniteWorkers, FS_RemoveElement
  <2>3. LockInv'
    BY <1>2, <1>4, <2>1, FiniteWorkers DEF LockInv
  <2>4. StrayInv'
    BY <1>2, <2>2, FiniteWorkers DEF StrayInv
  <2> QED
    BY <2>3, <2>4
<1> QED
  BY <1>6, <1>7

-----------------------------------------------------------------------------
(* The advisory lock: the steps *)

(* Every step keeps what the advisory lock stands for.                      *)
LEMMA LockStep ==
  TypeOK /\ TypeOK' /\ LockInv /\ StrayInv /\ [Next]_vars => LockInv' /\ StrayInv'
<1> SUFFICES ASSUME TypeOK, TypeOK', LockInv, StrayInv, [Next]_vars
             PROVE  LockInv' /\ StrayInv'
  OBVIOUS
<1> USE DEF hist, At
<1>type. tick \in [Ticks -> Requests]
  BY DEF TypeOK
\* Only the place of t changes, from a working one to a working one or between
\* two others: Still applies.
<1>goto. ASSUME NEW t \in Ticks, NEW at \in Spots, tick'[t].at = at, tick'[t].proc = tick[t].proc,
                \A u \in Ticks : u # t => tick'[u] = tick[u],
                Working(t) <=> at \in {"start", "jobs", "finish", "release"}
         PROVE  Workers' = Workers /\ \A u \in Workers : tick'[u].proc = tick[u].proc
  <2>1. \A u \in Ticks : Working(u)' <=> Working(u)
    BY <1>goto DEF Working
  <2> QED
    BY <1>goto, <2>1 DEF Workers
<1>ended. ASSUME NEW t \in Ticks, End(t)
          PROVE  /\ Workers' = Workers \ {t}
                 /\ \A u \in Ticks : tick'[u].proc = tick[u].proc
  <2>1. tick'[t] = Idle(tick[t].proc) /\ \A u \in Ticks : u # t => tick'[u] = tick[u]
    BY <1>ended, <1>type DEF End
  <2>2. ~Working(t)' /\ \A u \in Ticks : u # t => (Working(u)' <=> Working(u))
    BY <2>1 DEF Working, Idle
  <2> QED
    BY <2>1, <2>2 DEF Workers, Idle
<1>1. ASSUME NEW t \in Ticks, NEW p \in Procs, Post(t, p) PROVE LockInv' /\ StrayInv'
  <2>1. tick'[t].at = "lock" /\ \A u \in Ticks : u # t => tick'[u] = tick[u]
    BY <1>1, <1>type DEF Post, Idle
  <2>2. ~Working(t) /\ ~Working(t)' /\ \A u \in Ticks : u # t => (Working(u)' <=> Working(u))
    BY <1>1, <2>1 DEF Post, Working
  <2>3. Workers' = Workers /\ \A u \in Workers : tick'[u].proc = tick[u].proc
    BY <2>1, <2>2 DEF Workers
  <2> QED
    BY <1>1, <2>3, Still DEF Post
<1>2. ASSUME NEW t \in Ticks, Answer(t) \/ GiveUp(t) PROVE LockInv' /\ StrayInv'
  <2>1. UNCHANGED <<tick, lock, dropped, stray>>
    BY <1>2 DEF Answer, GiveUp
  <2>2. Workers' = Workers
    BY <2>1 DEF Workers, Working
  <2> QED
    BY <2>1, <2>2, Still
<1>3. ASSUME NEW t \in Ticks, TryLock(t) PROVE LockInv' /\ StrayInv'
  <2>1. t \notin Workers
    BY <1>3 DEF TryLock, Workers, Working
  <2>2. ASSUME UNCHANGED lock, Goto(t, "skip") PROVE LockInv' /\ StrayInv'
    <3>1. tick'[t].at = "skip" /\ tick'[t].proc = tick[t].proc
      BY <2>2, <1>type DEF Goto, Requests
    <3>2. ~Working(t) /\ \A u \in Ticks : u # t => tick'[u] = tick[u]
      BY <1>3, <2>2, <1>type DEF TryLock, Goto, Working
    <3>3. Workers' = Workers /\ \A u \in Workers : tick'[u].proc = tick[u].proc
      BY <3>1, <3>2, <1>goto DEF Spots
    <3> QED
      BY <1>3, <2>2, <3>3, Still DEF TryLock
  <2>3. ASSUME NEW c \in Pool(tick[t].proc), Goto(t, "start"),
               \/ lock = Free /\ lock' = [conn |-> c, depth |-> 1]
               \/ lock.conn = c /\ lock' = [lock EXCEPT !.depth = @ + 1]
        PROVE  LockInv' /\ StrayInv'
    <3>1. tick'[t].at = "start" /\ \A u \in Ticks : tick'[u].proc = tick[u].proc
                                                  /\ (u # t => tick'[u] = tick[u])
      BY <2>3, <1>type DEF Goto, Requests
    <3>2. Working(t)' /\ \A u \in Ticks : u # t => (Working(u)' <=> Working(u))
      BY <3>1 DEF Working
    <3>3. Workers' = Workers \cup {t}
      BY <3>2 DEF Workers
    <3>4. lock'.conn = c /\ lock'.depth = lock.depth + 1
      <4>1. CASE lock = Free /\ lock' = [conn |-> c, depth |-> 1]
        BY <4>1 DEF Free
      <4>2. CASE lock.conn = c /\ lock' = [lock EXCEPT !.depth = @ + 1]
        <5>1. lock \in [conn : Conns, depth : 1 .. MaxDepth]
          BY <4>2, <2>3, <1>type, LockForm DEF TypeOK, Locks, Requests
        <5> QED
          BY <4>2, <5>1
      <4> QED
        BY <2>3, <4>1, <4>2
    <3>5. lock = Free \/ lock.conn = c
      BY <2>3
    <3>6. UNCHANGED <<dropped, stray>>
      BY <1>3 DEF TryLock
    <3> QED
      BY <2>1, <3>1, <3>3, <3>4, <3>5, <3>6, Enter
  <2> QED
    BY <1>3, <2>2, <2>3 DEF TryLock
<1>4. ASSUME NEW t \in Ticks, Skip(t) PROVE LockInv' /\ StrayInv'
  <2>1. Workers' = Workers /\ \A u \in Workers : tick'[u].proc = tick[u].proc
    BY <1>4, <1>ended DEF Skip, Workers, Working
  <2> QED
    BY <1>4, <2>1, Still DEF Skip
<1>5. ASSUME NEW t \in Ticks, Start(t) \/ Joined(t) \/ Finish(t) \/ \E j \in Jobs : Job(t, j)
      PROVE  LockInv' /\ StrayInv'
  <2>1. /\ tick'[t].at \in {"jobs", "finish", "release"}
        /\ tick'[t].proc = tick[t].proc
        /\ \A u \in Ticks : u # t => tick'[u] = tick[u]
    BY <1>5, <1>type DEF Start, Joined, Finish, Job, Goto, Requests
  <2>2. Working(t)
    BY <1>5 DEF Start, Joined, Finish, Job, Working
  <2>3. Workers' = Workers /\ \A u \in Workers : tick'[u].proc = tick[u].proc
    BY <2>1, <2>2, <1>goto DEF Spots
  <2> QED
    BY <1>5, <2>3, Still DEF Start, Joined, Finish, Job
<1>6. ASSUME NEW t \in Ticks, Release(t) PROVE LockInv' /\ StrayInv'
  <2>1. t \in Workers
    BY <1>6 DEF Release, Workers, Working
  <2>2. /\ Workers' = Workers \ {t}
        /\ \A u \in Ticks : tick'[u].proc = tick[u].proc
    BY <1>6, <1>ended DEF Release
  <2>3. ASSUME UNCHANGED lock, stray' = TRUE PROVE LockInv' /\ StrayInv'
    BY <1>6, <2>1, <2>2, <2>3, Abandon DEF Release
  <2>4. ASSUME NEW c \in Pool(tick[t].proc), lock.conn = c, UNCHANGED stray,
               lock' = IF lock.depth = 1 THEN Free ELSE [lock EXCEPT !.depth = @ - 1]
        PROVE  LockInv' /\ StrayInv'
    <3>1. lock \in [conn : Conns, depth : 1 .. MaxDepth]
      BY <2>4, <1>type, LockForm DEF TypeOK, Locks, Requests
    <3>2. lock'.depth = lock.depth - 1 /\ (lock' # Free => lock'.conn = c)
      BY <2>4, <3>1 DEF Free
    <3>3. UNCHANGED dropped
      BY <1>6 DEF Release
    <3> QED
      BY <2>1, <2>2, <2>4, <3>2, <3>3, Leave
  <2> QED
    BY <1>6, <2>3, <2>4 DEF Release
<1>7. ASSUME NEW t \in Ticks, Throw(t) PROVE LockInv' /\ StrayInv'
  <2>1. CASE tick[t].at \in {"lock", "skip"} /\ End(t) /\ UNCHANGED stray
    <3>1. Workers' = Workers /\ \A u \in Workers : tick'[u].proc = tick[u].proc
      BY <2>1, <1>ended DEF Workers, Working
    <3> QED
      BY <1>7, <2>1, <3>1, Still DEF Throw
  <2>2. CASE tick[t].at \in {"start", "release"} /\ End(t) /\ stray' = TRUE
    <3>1. t \in Workers
      BY <2>2 DEF Workers, Working
    <3>2. /\ Workers' = Workers \ {t}
          /\ \A u \in Ticks : tick'[u].proc = tick[u].proc
      BY <2>2, <1>ended
    <3> QED
      BY <1>7, <2>2, <3>1, <3>2, Abandon DEF Throw
  <2>3. CASE At(t, "finish") /\ Goto(t, "release") /\ UNCHANGED stray
    <3>1. tick'[t].at = "release" /\ tick'[t].proc = tick[t].proc
      BY <2>3, <1>type DEF Goto, Requests
    <3>2. Working(t) /\ \A u \in Ticks : u # t => tick'[u] = tick[u]
      BY <2>3, <1>type DEF Goto, Working
    <3>3. Workers' = Workers /\ \A u \in Workers : tick'[u].proc = tick[u].proc
      BY <3>1, <3>2, <1>goto DEF Spots
    <3> QED
      BY <1>7, <2>3, <3>3, Still DEF Throw
  <2> QED
    BY <1>7, <2>1, <2>2, <2>3 DEF Throw
<1>8. CASE Drop
  <2>1. Workers' = Workers /\ lock' = Free /\ stray' = stray
    BY <1>8 DEF Drop, Workers, Working
  <2>2. lock'.depth = 0
    BY <2>1 DEF Free
  <2>3. StrayInv'
    BY <2>2, FiniteWorkersNext DEF StrayInv
  <2>4. LockInv'
    <3> SUFFICES ASSUME ~dropped' PROVE Workers' = {} /\ Cardinality(Workers') = 0
      BY <2>2 DEF LockInv
    <3> QED
      BY <1>8, <2>1, FS_EmptySet DEF Drop
  <2> QED
    BY <2>3, <2>4
<1>9. ASSUME NEW p \in Procs, Die(p) PROVE LockInv' /\ StrayInv'
  <2>1. \A u \in Ticks : tick'[u] = IF tick[u].proc = p THEN Idle(p) ELSE tick[u]
    BY <1>9 DEF Die
  <2>2. \A u \in Ticks : Working(u)' <=> Working(u) /\ tick[u].proc # p
    BY <2>1 DEF Working, Idle
  <2>3. Workers' = {u \in Workers : tick[u].proc # p}
    BY <2>2 DEF Workers
  <2>4. CASE lock.conn \in Pool(p)
    <3>1. lock' = Free /\ lock'.depth = 0
      BY <1>9, <2>4 DEF Die, Free
    <3>2. StrayInv'
      BY <3>1, FiniteWorkersNext DEF StrayInv
    <3>3. LockInv'
      <4> SUFFICES ASSUME ~dropped' PROVE Workers' = {} /\ Cardinality(Workers') = 0
        BY <3>1 DEF LockInv
      <4>1. lock.conn[1] = p
        BY <2>4 DEF Pool
      <4>2. Workers \subseteq Holders
        BY <1>9 DEF Die, LockInv
      <4> QED
        BY <2>3, <4>1, <4>2, FS_EmptySet DEF Holders
    <3> QED
      BY <3>2, <3>3
  <2>5. CASE lock.conn \notin Pool(p)
    <3>1. lock' = lock /\ UNCHANGED <<dropped, stray>>
      BY <1>9, <2>5 DEF Die
    <3>2. lock # Free => lock.conn[1] # p
      BY <2>5, LockForm DEF TypeOK, Pool
    <3>3. Holders' = Holders
      BY <2>1, <2>3, <3>1, <3>2 DEF Holders, Workers
    <3>4. Workers' \subseteq Workers /\ Cardinality(Workers') <= Cardinality(Workers)
      BY <2>3, FiniteWorkers, FS_Subset
    <3>5. lock.depth \in Nat
      BY LockForm DEF TypeOK
    <3> QED
      BY <3>1, <3>3, <3>4, <3>5, FiniteWorkers, FiniteWorkersNext DEF LockInv, StrayInv
  <2> QED
    BY <2>4, <2>5
<1>10. CASE UNCHANGED vars
  <2>1. Workers' = Workers /\ UNCHANGED <<tick, lock, dropped, stray>>
    BY <1>10 DEF vars, Workers, Working
  <2> QED
    BY <2>1, Still
<1> QED
  BY <1>1, <1>2, <1>3, <1>4, <1>5, <1>6, <1>7, <1>8, <1>9, <1>10 DEF Next, Route

-----------------------------------------------------------------------------
(* The theorems *)

\* The inductive invariant of the cron's two locks: whoever posts holds the flock,
\* the workers belong to the process of the lock's session, and the lock is taken as
\* often as there are workers.
THEOREM CronInvariant == Spec => []CronInv
<1>1. Init => CronInv
  <2> SUFFICES ASSUME Init PROVE CronInv
    OBVIOUS
  <2>1. PICK p \in Procs : tick = [t \in Ticks |-> Idle(p)]
    BY DEF Init
  <2>2. Workers = {} /\ Holders = {} /\ {t \in Ticks : ~At(t, "idle")} = {}
    BY <2>1 DEF Workers, Holders, Working, Idle, At
  <2>3. Cardinality({}) = 0
    BY FS_EmptySet
  <2>4. tick \in [Ticks -> Requests] /\ lock \in Locks /\ lock.depth = 0
    BY <2>1 DEF Init, Idle, Requests, Spots, Locks, Free
  <2>5. TypeOK
    <3>1. script = {} /\ script \subseteq Ticks /\ Cardinality(script) <= 1
      BY <2>3 DEF Init
    <3>2. mishaps \in 0 .. MaxMishaps
      BY CronAssumption DEF Init
    <3>3. outlived \in BOOLEAN /\ dropped \in BOOLEAN /\ stray \in BOOLEAN
      BY DEF Init
    <3> QED
      BY <2>4, <3>1, <3>2, <3>3 DEF TypeOK
  <2> QED
    BY <2>2, <2>3, <2>4, <2>5 DEF Init, CronInv, FlockInv, LockInv, StrayInv
<1>2. CronInv /\ [Next]_vars => CronInv'
  BY TypeStep, FlockStep, LockStep DEF CronInv
<1> QED
  BY <1>1, <1>2, PTL DEF Spec

\* The flock keeps ticks apart until a request outlives its script.
THEOREM FlockExcludes == Spec => []OneTickUnlessOutlived
<1>1. CronInv => OneTickUnlessOutlived
  <2> SUFFICES ASSUME CronInv, ~outlived
               PROVE  Cardinality({t \in Ticks : ~At(t, "idle")}) <= 1
    BY DEF OneTickUnlessOutlived
  <2> DEFINE Busy == {t \in Ticks : ~At(t, "idle")}
  <2>1. Busy \subseteq script /\ Cardinality(script) <= 1 /\ script \subseteq Ticks
    BY DEF CronInv, FlockInv, TypeOK
  <2>2. IsFiniteSet(script)
    BY <2>1, CronAssumption, FS_Subset
  <2>3. IsFiniteSet(Busy) /\ Cardinality(Busy) <= Cardinality(script)
    BY <2>1, <2>2, FS_Subset
  <2>4. Cardinality(Busy) \in Nat /\ Cardinality(script) \in Nat
    BY <2>2, <2>3, FS_CardinalityType
  <2>5. Cardinality(Busy) <= 1
    BY <2>1, <2>3, <2>4
  <2> QED
    BY <2>5
<1> QED
  BY <1>1, CronInvariant, PTL

\* Ticks of two processes never work at the same time, whatever connection each
\* query is given, unless the database ended the session that held the lock.
THEOREM LockExcludesProcesses == Spec => []ProcessesExclude
<1>1. CronInv => ProcessesExclude
  BY DEF CronInv, LockInv, ProcessesExclude, Holders
<1> QED
  BY <1>1, CronInvariant, PTL

\* A lock that is taken more often than there are workers was not given back by some.
THEOREM LockLeftByStray == Spec => []LeftOnlyByStray
<1>1. CronInv => LeftOnlyByStray
  <2> SUFFICES ASSUME CronInv, ~stray PROVE lock.depth <= Cardinality(Workers)
    BY LockForm, FiniteWorkers DEF CronInv, TypeOK, LeftOnlyByStray
  <2>1. Cardinality(Holders) <= Cardinality(Workers)
    BY FiniteWorkers, FS_Subset
  <2> QED
    BY <2>1, LockForm, FiniteWorkers DEF CronInv, StrayInv, TypeOK
<1> QED
  BY <1>1, CronInvariant, PTL
=============================================================================
