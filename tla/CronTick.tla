------------------------------ MODULE CronTick ------------------------------
(***************************************************************************)
(* The tick of the cron: scripts/cron-tick.sh under its flock, the route    *)
(* POST /api/cron/automation, which runs every job of the system, and the   *)
(* Postgres advisory lock of CronTickService that keeps ticks apart.        *)
(*                                                                         *)
(* An advisory lock belongs to the database session that took it, can be    *)
(* taken again by it, and must be given back as often.  Prisma runs each    *)
(* query on any free connection of its process's pool: the session that     *)
(* takes the lock need not be the one that is asked to give it back.        *)
(***************************************************************************)
EXTENDS Naturals, FiniteSets

CONSTANTS
  Ticks,       \* requests in flight at the same time
  Procs,       \* server processes behind the endpoint
  PoolSize,    \* connections of a process
  Jobs,        \* what a tick runs (automation, sequences, outbound, ...)
  MaxDepth,    \* bound: how often a session takes the lock again
  MaxMishaps   \* bound: statements that fail, lost connections, dead processes

ASSUME CronAssumption ==
  /\ Ticks # {} /\ IsFiniteSet(Ticks) /\ Procs # {}
  /\ PoolSize \in Nat \ {0} /\ MaxDepth \in Nat \ {0} /\ MaxMishaps \in Nat

Conns   == Procs \X (1 .. PoolSize)
Pool(p) == {c \in Conns : c[1] = p}
Free    == [conn |-> <<>>, depth |-> 0]

VARIABLES
  script,    \* the request the script holding the flock waits for
  tick,      \* the state of every request
  lock,      \* the advisory lock: its session and how often it took it
  mishaps,   \* what the bound counts
  outlived,  \* history: a request outlived its script (curl's --max-time)
  dropped,   \* history: the session holding the lock ended under a tick
  stray      \* history: a release went to another session, or was not made

hist == <<outlived, dropped, stray>>
vars == <<script, tick, lock, mishaps, hist>>

Spots == {"idle", "lock", "skip", "start", "jobs", "finish", "release"}

Requests == [at : Spots, proc : Procs, todo : SUBSET Jobs]
Locks    == {Free} \cup [conn : Conns, depth : 1 .. MaxDepth]

TypeOK ==
  /\ script \subseteq Ticks /\ Cardinality(script) <= 1
  /\ tick \in [Ticks -> Requests]
  /\ lock \in Locks
  /\ mishaps \in 0 .. MaxMishaps
  /\ outlived \in BOOLEAN /\ dropped \in BOOLEAN /\ stray \in BOOLEAN

Idle(p) == [at |-> "idle", proc |-> p, todo |-> {}]

Init ==
  /\ script = {}
  /\ \E p \in Procs : tick = [t \in Ticks |-> Idle(p)]
  /\ lock = Free
  /\ mishaps = 0
  /\ outlived = FALSE /\ dropped = FALSE /\ stray = FALSE

-----------------------------------------------------------------------------
At(t, at)   == tick[t].at = at
Goto(t, at) == tick' = [tick EXCEPT ![t].at = at]
End(t)      == tick' = [tick EXCEPT ![t] = Idle(tick[t].proc)]
Mishap      == mishaps < MaxMishaps /\ mishaps' = mishaps + 1

\* Between the lock and its release.
Working(t) == tick[t].at \in {"start", "jobs", "finish", "release"}
Workers    == {t \in Ticks : Working(t)}

\* Mutant: the script does not look at the flock.
PostUnlocked(t, p) ==
  /\ At(t, "idle")
  /\ script' = {t}
  /\ tick' = [tick EXCEPT ![t] = [Idle(p) EXCEPT !.at = "lock"]]
  /\ UNCHANGED <<lock, mishaps, hist>>

\* The script, if no other holds the flock, posts a request to some process.
Post(t, p) ==
  /\ script = {} /\ At(t, "idle")
  /\ script' = {t}
  /\ tick' = [tick EXCEPT ![t] = [Idle(p) EXCEPT !.at = "lock"]]
  /\ UNCHANGED <<lock, mishaps, hist>>

\* The answer comes, or curl gives up after 240 s and the request goes on alone.
Answer(t) ==
  /\ t \in script /\ At(t, "idle")
  /\ script' = {}
  /\ UNCHANGED <<tick, lock, mishaps, hist>>

GiveUp(t) ==
  /\ t \in script /\ ~At(t, "idle")
  /\ script' = {}
  /\ outlived' = TRUE
  /\ UNCHANGED <<tick, lock, mishaps, dropped, stray>>

-----------------------------------------------------------------------------
(* The route *)

\* Mutant: a lock that is held is not refused.
TryLockAnyway(t) ==
  /\ At(t, "lock")
  /\ \E c \in Pool(tick[t].proc) :
       lock' = IF lock.conn = c /\ lock.depth < MaxDepth THEN [lock EXCEPT !.depth = @ + 1]
               ELSE IF lock = Free THEN [conn |-> c, depth |-> 1] ELSE lock
  /\ Goto(t, "start")
  /\ UNCHANGED <<script, mishaps, hist>>

\* tryAcquireLock, on any connection of the pool.
TryLock(t) ==
  /\ At(t, "lock")
  /\ \E c \in Pool(tick[t].proc) :
       \/ /\ lock = Free
          /\ lock' = [conn |-> c, depth |-> 1]
          /\ Goto(t, "start")
       \/ /\ lock.conn = c /\ lock.depth < MaxDepth
          /\ lock' = [lock EXCEPT !.depth = @ + 1]
          /\ Goto(t, "start")
       \/ /\ lock # Free /\ lock.conn # c
          /\ UNCHANGED lock
          /\ Goto(t, "skip")
  /\ UNCHANGED <<script, mishaps, hist>>

\* The tick that was skipped is logged.
Skip(t) ==
  /\ At(t, "skip")
  /\ End(t)
  /\ UNCHANGED <<script, lock, mishaps, hist>>

\* startTick, before the try block that releases the lock.
Start(t) ==
  /\ At(t, "start")
  /\ tick' = [tick EXCEPT ![t].at = "jobs", ![t].todo = Jobs]
  /\ UNCHANGED <<script, lock, mishaps, hist>>

\* The jobs run side by side; an error is noted and ends its job alone.
Job(t, j) ==
  /\ At(t, "jobs") /\ j \in tick[t].todo
  /\ tick' = [tick EXCEPT ![t].todo = @ \ {j}]
  /\ UNCHANGED <<script, lock, mishaps, hist>>

Joined(t) ==
  /\ At(t, "jobs") /\ tick[t].todo = {}
  /\ Goto(t, "finish")
  /\ UNCHANGED <<script, lock, mishaps, hist>>

Finish(t) ==
  /\ At(t, "finish")
  /\ Goto(t, "release")
  /\ UNCHANGED <<script, lock, mishaps, hist>>

\* releaseLock, on any connection: one that does not hold the lock gives nothing
\* back, and nobody looks at the answer.
Release(t) ==
  /\ At(t, "release")
  /\ \E c \in Pool(tick[t].proc) :
       \/ /\ lock.conn = c
          /\ lock' = IF lock.depth = 1 THEN Free ELSE [lock EXCEPT !.depth = @ - 1]
          /\ UNCHANGED stray
       \/ /\ lock.conn # c
          /\ UNCHANGED lock
          /\ stray' = TRUE
  /\ End(t)
  /\ UNCHANGED <<script, mishaps, outlived, dropped>>

\* Mutant: the release is not in a finally block.
ThrowPast(t) ==
  /\ Mishap
  /\ ~At(t, "idle") /\ ~At(t, "jobs")
  /\ End(t)
  /\ stray' = (stray \/ tick[t].at \in {"start", "release"})
  /\ UNCHANGED <<script, lock, outlived, dropped>>

\* A statement fails: the lock is given back if the try block was entered, and
\* the failure of the release itself is swallowed.
Throw(t) ==
  /\ Mishap
  /\ \/ tick[t].at \in {"lock", "skip"} /\ End(t) /\ UNCHANGED stray
     \/ tick[t].at \in {"start", "release"} /\ End(t) /\ stray' = TRUE
     \/ At(t, "finish") /\ Goto(t, "release") /\ UNCHANGED stray
  /\ UNCHANGED <<script, lock, outlived, dropped>>

\* A session ends, and its lock with it.
Drop ==
  /\ lock # Free
  /\ Mishap
  /\ lock' = Free
  /\ dropped' = (dropped \/ Workers # {})
  /\ UNCHANGED <<script, tick, outlived, stray>>

\* A process dies with its requests and its sessions.
Die(p) ==
  /\ Mishap
  /\ tick' = [t \in Ticks |-> IF tick[t].proc = p THEN Idle(p) ELSE tick[t]]
  /\ lock' = IF lock.conn \in Pool(p) THEN Free ELSE lock
  /\ UNCHANGED <<script, hist>>

Route(t) ==
  \/ TryLock(t) \/ Skip(t) \/ Start(t) \/ Joined(t) \/ Finish(t) \/ Release(t)
  \/ \E j \in Jobs : Job(t, j)

Next ==
  \/ \E t \in Ticks : Answer(t) \/ GiveUp(t) \/ Route(t) \/ Throw(t)
                      \/ \E p \in Procs : Post(t, p)
  \/ Drop
  \/ \E p \in Procs : Die(p)

Spec == Init /\ [][Next]_vars

-----------------------------------------------------------------------------
(* Properties *)

\* The flock alone keeps ticks apart as long as no request outlives its script.
OneTickUnlessOutlived == ~outlived => Cardinality({t \in Ticks : ~At(t, "idle")}) <= 1

\* Whatever session each release reaches, the lock stays with the process of the
\* ticks at work: those of two processes never overlap, unless the database ended
\* the session that held it.
ProcessesExclude ==
  dropped \/ \A t, u \in Workers : tick[t].proc = tick[u].proc

\* The lock that nobody works under was left behind by a release that went astray;
\* it then keeps out the ticks that come by another session.
LeftOnlyByStray == lock.depth > Cardinality(Workers) => stray

\* The invariant the three rest on.  The workers of the process that holds the lock:
Holders == {t \in Workers : lock # Free /\ lock.conn[1] = tick[t].proc}

FlockInv == outlived \/ {t \in Ticks : ~At(t, "idle")} \subseteq script
LockInv  == dropped \/ (Workers \subseteq Holders /\ Cardinality(Workers) <= lock.depth)
StrayInv == stray \/ lock.depth <= Cardinality(Holders)
CronInv  == TypeOK /\ FlockInv /\ LockInv /\ StrayInv

\* A comment that the code does not keep: "returns false if another tick holds it".
OneTick == Cardinality(Workers) <= 1
=============================================================================
