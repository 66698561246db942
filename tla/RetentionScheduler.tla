------------------------- MODULE RetentionScheduler -------------------------
(***************************************************************************)
(* The in-process retention scheduler of the gateway                       *)
(* (packages/gateway/src/retention/scheduler.ts), in every instance of the *)
(* server (server.ts) beside the others of a deployment.                   *)
(*                                                                         *)
(* A tick takes a session-level advisory lock on a reserved connection and *)
(* runs the job on the other connections of the pool, one transaction per  *)
(* app.  What a transaction deletes is Retention's subject; here it        *)
(* commits or fails.  Postgres frees the lock with the session, whether    *)
(* the job has ended or not.                                               *)
(***************************************************************************)
EXTENDS Naturals

CONSTANTS
    Processes,      \* instances of the gateway
    Apps,           \* how many apps there are
    MaxTicks,       \* bound on the ticks of a process
    MaxStarts,      \* bound on its starts
    Free            \* nobody holds the lock

ASSUME SchedulerAssumption ==
    Apps \in Nat /\ MaxTicks \in Nat /\ MaxStarts \in Nat /\ Free \notin Processes

VARIABLES
    server,         \* "up", "closing" (SIGTERM), "ended" (the pool too) or "down"
    running,        \* the flag of its scheduler
    tick,           \* its tick: [pc, session, next]; session: its reserved connection lives
    holder,         \* whose session has RETENTION_ADVISORY_LOCK_KEY
    ticks, starts   \* of each process, for the bounds

schedulerVars == <<server, running, tick, holder, ticks, starts>>

NoTick == [pc |-> "idle", session |-> FALSE, next |-> 0]

SchedulerInit ==
    /\ server = [p \in Processes |-> "up"]
    /\ running = [p \in Processes |-> FALSE]
    /\ tick = [p \in Processes |-> NoTick]
    /\ holder = Free
    /\ ticks = [p \in Processes |-> 0]
    /\ starts = [p \in Processes |-> 1]

At(p, pc) == tick[p].pc = pc
Goto(p, pc) == tick' = [tick EXCEPT ![p].pc = pc]
Lifetime == <<server, ticks, starts>>

\* A query works while the pool is open; it may always fail.
PoolOpen(p) == server[p] \in {"up", "closing"}

-----------------------------------------------------------------------------
(* A tick.                                                                 *)

\* A timer: the first run or the interval, until stop() clears them.
Timer(p) ==
    /\ server[p] = "up" /\ ticks[p] < MaxTicks
    /\ ticks' = [ticks EXCEPT ![p] = @ + 1]
    /\ IF running[p]
       THEN UNCHANGED <<running, tick>>                   \* already_running
       ELSE running' = [running EXCEPT ![p] = TRUE] /\ Goto(p, "reserve")
    /\ UNCHANGED <<server, holder, starts>>

Reserve(p) ==
    /\ At(p, "reserve") /\ PoolOpen(p)
    /\ tick' = [tick EXCEPT ![p].pc = "lock", ![p].session = TRUE]
    /\ UNCHANGED <<running, holder, Lifetime>>

\* pg_try_advisory_lock, which does not wait: lock_held ends the tick.
TryLock(p) ==
    /\ At(p, "lock") /\ tick[p].session
    /\ IF holder = Free
       THEN holder' = p /\ Goto(p, "list")
       ELSE Goto(p, "release") /\ UNCHANGED holder
    /\ UNCHANGED <<running, Lifetime>>

\* runRetention: the apps, oldest id first.
ListApps(p) ==
    /\ At(p, "list") /\ PoolOpen(p)
    /\ tick' = [tick EXCEPT ![p].pc = "prune", ![p].next = 1]
    /\ UNCHANGED <<running, holder, Lifetime>>

\* Variant: a lock of the transaction, freed by the first commit.
FreedByCommit(p) == IF holder = p THEN Free ELSE holder
AfterCommit(p) == holder

\* runOne: an app that is pruned, is kept, or has an unreadable policy, or
\* fails; the next one follows all the same.
PruneApp(p) ==
    /\ At(p, "prune") /\ tick[p].next <= Apps
    /\ tick' = [tick EXCEPT ![p].next = @ + 1]
    /\ \/ PoolOpen(p) /\ holder' = AfterCommit(p)
       \/ UNCHANGED holder
    /\ UNCHANGED <<running, Lifetime>>

RunEnds(p) ==
    /\ At(p, "prune") /\ tick[p].next > Apps
    /\ Goto(p, "unlock")
    /\ UNCHANGED <<running, holder, Lifetime>>

\* reserve, the lock query or the list of apps throws; work's error passes
\* through the unlock, the others go straight to the end.
Throws(p) ==
    /\ \/ At(p, "reserve") /\ Goto(p, "finally")
       \/ At(p, "lock") /\ Goto(p, "release")
       \/ At(p, "list") /\ Goto(p, "unlock")
    /\ UNCHANGED <<running, holder, Lifetime>>

\* Variant: an error that comes from the unlock leaves the lock as it is.
KeptByError(p) == holder
Unlocked(p) == IF holder = p THEN Free ELSE holder

\* finally: pg_advisory_unlock on the reserved connection; with the session
\* gone it throws, and there is nothing left to free.
Unlock(p) ==
    /\ At(p, "unlock")
    /\ holder' = Unlocked(p) /\ Goto(p, "release")
    /\ UNCHANGED <<running, Lifetime>>

Release(p) ==
    /\ At(p, "release")
    /\ tick' = [tick EXCEPT ![p].pc = "finally", ![p].session = FALSE]
    /\ UNCHANGED <<running, holder, Lifetime>>

\* The error is a log line; the flag is reset whatever happened.
TickEnds(p) ==
    /\ At(p, "finally")
    /\ running' = [running EXCEPT ![p] = FALSE]
    /\ tick' = [tick EXCEPT ![p] = NoTick]
    /\ UNCHANGED <<holder, Lifetime>>

-----------------------------------------------------------------------------
(* What happens to connections and processes.                              *)

\* The reserved connection breaks: the server ends the session.
LoseSession(p) ==
    /\ tick[p].session
    /\ tick' = [tick EXCEPT ![p].session = FALSE]
    /\ holder' = IF holder = p THEN Free ELSE holder
    /\ UNCHANGED <<running, Lifetime>>

\* SIGTERM: stop() clears the timers; a tick that runs goes on.
Shutdown(p) ==
    /\ server[p] = "up"
    /\ server' = [server EXCEPT ![p] = "closing"]
    /\ UNCHANGED <<running, tick, holder, ticks, starts>>

\* database.close(), once the requests are answered: it does not wait for a
\* tick, whose reserved connection it ends.
ClosePool(p) ==
    /\ server[p] = "closing"
    /\ server' = [server EXCEPT ![p] = "ended"]
    /\ tick' = [tick EXCEPT ![p].session = FALSE]
    /\ holder' = IF holder = p THEN Free ELSE holder
    /\ UNCHANGED <<running, ticks, starts>>

\* The process exits after the close or the grace period, or is killed.
Exit(p) ==
    /\ server[p] # "down"
    /\ server' = [server EXCEPT ![p] = "down"]
    /\ running' = [running EXCEPT ![p] = FALSE]
    /\ tick' = [tick EXCEPT ![p] = NoTick]
    /\ holder' = IF holder = p THEN Free ELSE holder
    /\ UNCHANGED <<ticks, starts>>

Boot(p) ==
    /\ server[p] = "down" /\ starts[p] < MaxStarts
    /\ server' = [server EXCEPT ![p] = "up"]
    /\ starts' = [starts EXCEPT ![p] = @ + 1]
    /\ UNCHANGED <<running, tick, holder, ticks>>

Work(p) ==
    \/ Reserve(p) \/ TryLock(p) \/ ListApps(p) \/ PruneApp(p) \/ RunEnds(p)
    \/ Throws(p) \/ Unlock(p) \/ Release(p) \/ TickEnds(p)

SchedulerNext ==
    \E p \in Processes :
        \/ Work(p) \/ Timer(p) \/ LoseSession(p) \/ Shutdown(p) \/ ClosePool(p)
        \/ Exit(p) \/ Boot(p)

\* Promises of the driver settle, so a tick goes on.
SchedulerSpec ==
    /\ SchedulerInit /\ [][SchedulerNext]_schedulerVars
    /\ \A p \in Processes : WF_schedulerVars(Work(p))

-----------------------------------------------------------------------------
(* Properties.                                                             *)

Pruning(p) == At(p, "list") \/ At(p, "prune")

\* scheduler.ts, rule 1: no two instances prune at a time, in a rolling deploy
\* either, unless one of them has lost the session its lock was taken on.
OneRunnerPerLock ==
    \A p, q \in Processes :
        Pruning(p) /\ Pruning(q) /\ p # q => ~tick[p].session \/ ~tick[q].session

\* scheduler.ts, rule 2: whatever fails, and wherever SIGTERM finds it, a tick
\* comes to an end and leaves the lock to the other instances.
LockIsReturned == \A p \in Processes : running[p] \/ holder = p ~> ~running[p] /\ holder # p
=============================================================================
