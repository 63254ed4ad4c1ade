------------------------------ MODULE JobQueue ------------------------------
(***************************************************************************)
(* The job service of the hola server: RealJobService and the              *)
(* DeploymentLocks it owns (packages/server/src/services/core/jobs.ts).    *)
(*                                                                         *)
(* The server is one JavaScript thread.  An action below is the code from  *)
(* one await to the next: everything in it happens at once, and anything   *)
(* else may run before the following action.  SQLite calls take effect     *)
(* when they are made; only their caller continues later.                  *)
(*                                                                         *)
(* row and born survive a restart (the jobs table); every other variable   *)
(* of the program is lost in Crash.                                        *)
(***************************************************************************)
EXTENDS Integers, Sequences, FiniteSets

CONSTANTS
  Jobs,            \* job ids
  Deployments,     \* deployment ids
  NoDeployment,    \* a job that belongs to no deployment (fleet-wide prepare)
  DeploymentOf,    \* payload.deploymentId of every job
  Workers,         \* calls of runExclusive, one call each per process
  MaxConcurrency,  \* HOLA_JOBS_CONCURRENCY
  CancelTargets,   \* bound: the jobs somebody may call cancelJob on
  DiscardTargets,  \* bound: the deployments discardDeploymentJobs is called on
  ClearTargets,    \* bound: the terminal statuses clearJobs is called with
  MaxCrashes,      \* bound on restarts
  MaxFaults        \* bound on database calls that throw

ASSUME JobQueueAssumption ==
  /\ NoDeployment \notin Deployments
  /\ DeploymentOf \in [Jobs -> Deployments \cup {NoDeployment}]
  /\ IsFiniteSet(Jobs)
  /\ MaxConcurrency \in Nat \ {0}
  /\ CancelTargets \subseteq Jobs
  /\ DiscardTargets \subseteq Deployments
  /\ MaxCrashes \in Nat
  /\ MaxFaults \in Nat

Terminal == {"completed", "failed", "cancelled"}
Statuses == {"absent", "pending", "running"} \cup Terminal

ASSUME ClearTargetsAssumption == ClearTargets \subseteq Terminal

(* Where runJob(id) is waiting: for the write of 'cancelled' or 'running'   *)
(* at its start, for the executor, at a checkpoint or in a sleep of the     *)
(* simulated steps, for the write of its outcome, for its last log line.    *)
Phases == {"none", "revoking", "starting", "executing", "checkpoint",
           "sleeping", "completing", "simCompleting", "cancelling",
           "failing", "closing"}

VARIABLES
  row,        \* jobs table: the status of every job
  born,       \* jobs table: the order of created_at
  queue,      \* this.queue, as a set ...
  turn,       \* ... and the order in which its entries were pushed
  pushed,     \* pushes so far in this process
  held,       \* DeploymentLocks.held
  waiters,    \* DeploymentLocks.waiters
  running,    \* this.running
  cancelled,  \* this.cancelled
  phase,      \* where each runJob is
  create,     \* createJob of each job: none, inserting, done
  cancel,     \* cancelJob of each job: none, the status it read, or written
  discard,    \* discardDeploymentJobs of each deployment
  clearing,   \* the rows a clearJobs call has read and not yet deleted
  excl,       \* each runExclusive call
  started,    \* this.started
  startup,    \* this.startup: where recoverAndStart is
  orphans,    \* its snapshot of the rows left running
  pending,    \* its snapshot of the rows left pending
  crashes,
  faults

tableVars == <<row, born>>
schedVars == <<queue, turn, pushed, held, running, phase>>
callVars  == <<create, cancel, discard, clearing>>
lockVars  == <<waiters, excl>>
bootVars  == <<started, startup, orphans, pending>>
boundVars == <<crashes, faults>>
vars == <<tableVars, schedVars, callVars, lockVars, bootVars, boundVars, cancelled>>

Active == {j \in Jobs : phase[j] # "none"}
Idle   == [jobs |-> {}, at |-> "idle"]

(* isDeploymentBusy *)
Busy(d) == d \in held \/ \E j \in queue : DeploymentOf[j] = d

Init ==
  /\ row = [j \in Jobs |-> "absent"]
  /\ born = [j \in Jobs |-> 0]
  /\ queue = {}
  /\ turn = [j \in Jobs |-> 0]
  /\ pushed = 0
  /\ held = {}
  /\ waiters = [d \in Deployments |-> <<>>]
  /\ running = 0
  /\ cancelled = {}
  /\ phase = [j \in Jobs |-> "none"]
  /\ create = [j \in Jobs |-> "none"]
  /\ cancel = [j \in Jobs |-> "none"]
  /\ discard = [d \in Deployments |-> Idle]
  /\ clearing = {}
  /\ excl = [w \in Workers |-> [at |-> "idle", on |-> NoDeployment]]
  /\ started = FALSE
  /\ startup = "idle"
  /\ orphans = {}
  /\ pending = {}
  /\ crashes = 0
  /\ faults = 0

-----------------------------------------------------------------------------
(* tick: dispatch entries from the front of the queue while slots remain,   *)
(* skipping every entry whose deployment is held or has just been taken by  *)
(* an entry further ahead.  q, t, h, n are the queue, its order, the held   *)
(* keys and the number of running jobs the handler leaves behind.           *)
(* Mutant: the lock set is looked up once, before the loop. *)
RunnableLockedOnce(q, t, h) ==
  {j \in q : DeploymentOf[j] = NoDeployment \/ DeploymentOf[j] \notin h}

Runnable(q, t, h) ==
  {j \in q : \/ DeploymentOf[j] = NoDeployment
             \/ /\ DeploymentOf[j] \notin h
                /\ \A k \in q : DeploymentOf[k] = DeploymentOf[j] => t[j] <= t[k]}

Picked(q, t, h, n) ==
  LET runnable == Runnable(q, t, h)
  IN  {j \in runnable :
         n + Cardinality({k \in runnable : t[k] < t[j]}) < MaxConcurrency}

(* The synchronous prefix of runJob is part of the tick: it counts the job  *)
(* and issues the write of its first status.                                *)
Tick(q, t, h, n, ph, rw, flags) ==
  LET picked == Picked(q, t, h, n)
  IN  /\ queue' = q \ picked
      /\ turn' = [j \in Jobs |-> IF j \in picked THEN 0 ELSE t[j]]
      /\ held' = h \cup ({DeploymentOf[j] : j \in picked} \ {NoDeployment})
      /\ running' = n + Cardinality(picked)
      /\ phase' = [j \in Jobs |->
                     IF j \notin picked THEN ph[j]
                     ELSE IF j \in flags THEN "revoking" ELSE "starting"]
      /\ row' = [j \in Jobs |->
                   IF j \notin picked \/ rw[j] = "absent" THEN rw[j]
                   ELSE IF j \in flags THEN "cancelled" ELSE "running"]

(* repo.update: UPDATE ... WHERE id = ?, which misses a deleted row. *)
Stored(j, status) ==
  IF row[j] = "absent" THEN row ELSE [row EXCEPT ![j] = status]

-----------------------------------------------------------------------------
(* ensureStarted / recoverAndStart *)

(* Mutant: recovery is started by every caller, not only on a cold service. *)
EnsureStartedAgain ==
  /\ startup = "idle"
  /\ startup' = "opening"
  /\ UNCHANGED <<tableVars, schedVars, callVars, lockVars, boundVars, cancelled,
                 started, orphans, pending>>

(* Any public entry point of a cold service starts recovery, once. *)
EnsureStarted ==
  /\ ~started
  /\ startup = "idle"
  /\ startup' = "opening"
  /\ UNCHANGED <<tableVars, schedVars, callVars, lockVars, boundVars, cancelled,
                 started, orphans, pending>>

(* db.initialize has resolved: read the rows left running. *)
ReadOrphans ==
  /\ startup = "opening"
  /\ startup' = "orphansRead"
  /\ orphans' = {j \in Jobs : row[j] = "running"}
  /\ UNCHANGED <<tableVars, schedVars, callVars, lockVars, boundVars, cancelled,
                 started, pending>>

(* db.initialize rejects: the promise is dropped, the next caller retries. *)
InitializeFails ==
  /\ startup = "opening"
  /\ faults < MaxFaults
  /\ faults' = faults + 1
  /\ startup' = "idle"
  /\ UNCHANGED <<tableVars, schedVars, callVars, lockVars, cancelled, crashes,
                 started, orphans, pending>>

(* Mutant: every unfinished row is resumed, the orphans too. *)
ReadPendingUnfinished ==
  /\ startup = "orphansRead"
  /\ startup' = "failing"
  /\ pending' = {j \in Jobs : row[j] \in {"pending", "running"}}
  /\ UNCHANGED <<tableVars, schedVars, callVars, lockVars, boundVars, cancelled,
                 started, orphans>>

ReadPending ==
  /\ startup = "orphansRead"
  /\ startup' = "failing"
  /\ pending' = {j \in Jobs : row[j] = "pending"}
  /\ UNCHANGED <<tableVars, schedVars, callVars, lockVars, boundVars, cancelled,
                 started, orphans>>

(* findByStatus lists rows newest first (ORDER BY created_at DESC). *)
FailOrphan(j) ==
  /\ startup = "failing"
  /\ j \in orphans
  /\ \A k \in orphans : born[k] <= born[j]
  /\ row' = Stored(j, "failed")
  /\ orphans' = orphans \ {j}
  /\ UNCHANGED <<born, schedVars, callVars, lockVars, boundVars, cancelled,
                 started, startup, pending>>

(* started = true and the enqueue of every pending row, newest first, run   *)
(* in one step; a tick after each push takes what one tick at the end does. *)
OpenScheduling(resumed) ==
  /\ started' = TRUE
  /\ startup' = "idle"
  /\ orphans' = {}
  /\ pending' = {}
  /\ pushed' = pushed + Cardinality(resumed)
  /\ Tick(queue \cup resumed,
          [j \in Jobs |->
             IF j \in resumed
             THEN pushed + Cardinality({k \in resumed : born[k] >= born[j]})
             ELSE turn[j]],
          held, running, phase, row, cancelled)
  /\ UNCHANGED <<born, callVars, lockVars, cancelled>>

(* Mutant: scheduling opens before the orphans are failed. *)
RecoverEarly ==
  /\ startup = "failing"
  /\ OpenScheduling(pending)
  /\ UNCHANGED boundVars

Recover ==
  /\ startup = "failing"
  /\ orphans = {}
  /\ OpenScheduling(pending)
  /\ UNCHANGED boundVars

(* A database error in recovery is logged, and what was read is resumed. *)
RecoverFails ==
  /\ startup \in {"orphansRead", "failing"}
  /\ faults < MaxFaults
  /\ faults' = faults + 1
  /\ OpenScheduling(pending)
  /\ UNCHANGED crashes

-----------------------------------------------------------------------------
(* createJob *)

Insert(j) ==
  /\ started
  /\ create[j] = "none"
  /\ create' = [create EXCEPT ![j] = "inserting"]
  /\ row' = [row EXCEPT ![j] = "pending"]
  /\ born' = [born EXCEPT ![j] = 1 + Cardinality({k \in Jobs : born[k] > 0})]
  /\ UNCHANGED <<schedVars, cancel, discard, clearing, lockVars, bootVars,
                 boundVars, cancelled>>

(* repo.create reads the row back; a row that is gone makes createJob throw. *)
Enqueue(j) ==
  /\ create[j] = "inserting"
  /\ create' = [create EXCEPT ![j] = "done"]
  /\ IF row[j] = "absent"
     THEN UNCHANGED <<row, schedVars>>
     ELSE /\ pushed' = pushed + 1
          /\ Tick(queue \cup {j}, [turn EXCEPT ![j] = pushed + 1],
                  held, running, phase, row, cancelled)
  /\ UNCHANGED <<born, cancel, discard, clearing, lockVars, bootVars,
                 boundVars, cancelled>>

-----------------------------------------------------------------------------
(* runJob, after the write of its first status *)

Enter(j, p) == phase' = [phase EXCEPT ![j] = p]

(* The catch clause for anything but JobCancelledError. *)
Caught(j) ==
  /\ row' = Stored(j, "failed")
  /\ Enter(j, "failing")

RunJobFrame == <<born, queue, turn, pushed, held, running, callVars, lockVars,
                 bootVars>>

(* The row is running: hand over to the executor.  A row that was deleted   *)
(* meanwhile makes update throw.                                            *)
Started(j) ==
  /\ phase[j] = "starting"
  /\ IF row[j] = "absent"
     THEN Caught(j)
     ELSE Enter(j, "executing") /\ UNCHANGED row
  /\ UNCHANGED <<RunJobFrame, cancelled, boundVars>>

ExecutorHandles(j) ==
  /\ phase[j] = "executing"
  /\ row' = Stored(j, "completed")
  /\ Enter(j, "completing")
  /\ UNCHANGED <<RunJobFrame, cancelled, boundVars>>

ExecutorThrows(j) ==
  /\ phase[j] = "executing"
  /\ Caught(j)
  /\ UNCHANGED <<RunJobFrame, cancelled, boundVars>>

(* The executor saw ctx.isCancelled() and threw JobCancelledError. *)
ExecutorCancels(j) ==
  /\ phase[j] = "executing"
  /\ j \in cancelled
  /\ row' = Stored(j, "cancelled")
  /\ Enter(j, "cancelling")
  /\ UNCHANGED <<RunJobFrame, cancelled, boundVars>>

(* The executor does not know the job: simulated steps, each a checkpoint   *)
(* and a sleep.  All but the last change nothing the model keeps, so they   *)
(* are one checkpoint.                                                      *)
ExecutorDeclines(j) ==
  /\ phase[j] = "executing"
  /\ Enter(j, "checkpoint")
  /\ UNCHANGED <<row, RunJobFrame, cancelled, boundVars>>

Checkpoint(j) ==
  /\ phase[j] = "checkpoint"
  /\ IF j \in cancelled
     THEN row' = Stored(j, "cancelled") /\ Enter(j, "revoking")
     ELSE Enter(j, "sleeping") /\ UNCHANGED row
  /\ UNCHANGED <<RunJobFrame, cancelled, boundVars>>

(* updateProgress of a deleted row throws. *)
Slept(j) ==
  /\ phase[j] = "sleeping"
  /\ IF row[j] = "absent"
     THEN Caught(j)
     ELSE row' = Stored(j, "completed") /\ Enter(j, "simCompleting")
  /\ UNCHANGED <<RunJobFrame, cancelled, boundVars>>

(* The outcome is written: drop the flag, except after a simulated run or   *)
(* an ordinary failure.  If the row is gone the write throws: into the      *)
(* catch clause from the try block, out of runJob from the catch clause.    *)
Settled(j) ==
  /\ phase[j] \in {"revoking", "completing", "simCompleting", "cancelling", "failing"}
  /\ IF row[j] = "absent" /\ phase[j] \notin {"cancelling", "failing"}
     THEN Caught(j) /\ UNCHANGED cancelled
     ELSE /\ Enter(j, "closing")
          /\ cancelled' = IF row[j] = "absent" \/ phase[j] \in {"simCompleting", "failing"}
                          THEN cancelled ELSE cancelled \ {j}
          /\ UNCHANGED row
  /\ UNCHANGED <<RunJobFrame, boundVars>>

(* A database call of runJob throws; the write of 'failed' in the catch     *)
(* clause may throw too, and then leaves runJob at once.                    *)
StoreFails(j) ==
  /\ phase[j] \in {"revoking", "starting", "sleeping", "completing",
                   "simCompleting", "cancelling", "failing"}
  /\ faults < MaxFaults
  /\ faults' = faults + 1
  /\ \/ phase[j] \notin {"cancelling", "failing"} /\ Caught(j)
     \/ Enter(j, "closing") /\ UNCHANGED row
  /\ UNCHANGED <<RunJobFrame, cancelled, crashes>>

(* Mutant: the lock of a finished job is not released. *)
FinishKeepingLock(j) ==
  /\ phase[j] = "closing"
  /\ Tick(queue, turn, held, running - 1, [phase EXCEPT ![j] = "none"], row, cancelled)
  /\ UNCHANGED <<born, pushed, lockVars, callVars, bootVars, boundVars, cancelled>>

(* Mutant: the next waiter is taken off the list and never woken. *)
FinishForgettingWaiter(j) ==
  LET d == DeploymentOf[j]
  IN  /\ phase[j] = "closing"
      /\ waiters' = IF d # NoDeployment /\ waiters[d] # <<>>
                    THEN [waiters EXCEPT ![d] = Tail(@)] ELSE waiters
      /\ Tick(queue, turn, held \ {d}, running - 1, [phase EXCEPT ![j] = "none"],
              row, cancelled)
      /\ UNCHANGED <<born, pushed, excl, callVars, bootVars, boundVars, cancelled>>

(* Mutant: no tick in the finally clause. *)
FinishWithoutTick(j) ==
  LET d == DeploymentOf[j]
      handOff == d # NoDeployment /\ waiters[d] # <<>>
  IN  /\ phase[j] = "closing"
      /\ IF handOff
         THEN /\ excl' = [excl EXCEPT ![Head(waiters[d])].at = "inside"]
              /\ waiters' = [waiters EXCEPT ![d] = Tail(@)]
         ELSE UNCHANGED lockVars
      /\ held' = IF handOff THEN held ELSE held \ {d}
      /\ running' = running - 1
      /\ phase' = [phase EXCEPT ![j] = "none"]
      /\ UNCHANGED <<row, born, queue, turn, pushed, callVars, bootVars, boundVars,
                     cancelled>>

(* finally: free the slot, hand the lock to the next waiter or free it,     *)
(* and tick.                                                                *)
Finish(j) ==
  LET d == DeploymentOf[j]
      handOff == d # NoDeployment /\ waiters[d] # <<>>
  IN  /\ phase[j] = "closing"
      /\ IF handOff
         THEN /\ excl' = [excl EXCEPT ![Head(waiters[d])].at = "inside"]
              /\ waiters' = [waiters EXCEPT ![d] = Tail(@)]
         ELSE UNCHANGED lockVars
      /\ Tick(queue, turn, IF handOff THEN held ELSE held \ {d}, running - 1,
              [phase EXCEPT ![j] = "none"], row, cancelled)
      /\ UNCHANGED <<born, pushed, callVars, bootVars, boundVars, cancelled>>

-----------------------------------------------------------------------------
(* runExclusive *)

ExclusiveEnter(w, d) ==
  /\ excl[w].at = "idle"
  /\ IF d \in held
     THEN /\ excl' = [excl EXCEPT ![w] = [at |-> "waiting", on |-> d]]
          /\ waiters' = [waiters EXCEPT ![d] = Append(@, w)]
          /\ UNCHANGED held
     ELSE /\ excl' = [excl EXCEPT ![w] = [at |-> "inside", on |-> d]]
          /\ held' = held \cup {d}
          /\ UNCHANGED waiters
  /\ UNCHANGED <<tableVars, queue, turn, pushed, running, phase, callVars,
                 bootVars, boundVars, cancelled>>

(* Mutant: release clears the key although it wakes a waiter. *)
ExclusiveLeaveClearing(w) ==
  LET d == excl[w].on
  IN  /\ excl[w].at = "inside"
      /\ held' = held \ {d}
      /\ IF waiters[d] # <<>>
         THEN /\ excl' = [excl EXCEPT ![w].at = "ticking",
                                      ![Head(waiters[d])].at = "inside"]
              /\ waiters' = [waiters EXCEPT ![d] = Tail(@)]
         ELSE excl' = [excl EXCEPT ![w].at = "ticking"] /\ UNCHANGED waiters
      /\ UNCHANGED <<tableVars, queue, turn, pushed, running, phase, callVars,
                     bootVars, boundVars, cancelled>>

(* fn has settled: release.  The tick of the outer finally runs later. *)
ExclusiveLeave(w) ==
  LET d == excl[w].on
  IN  /\ excl[w].at = "inside"
      /\ IF waiters[d] # <<>>
         THEN /\ excl' = [excl EXCEPT ![w].at = "ticking",
                                      ![Head(waiters[d])].at = "inside"]
              /\ waiters' = [waiters EXCEPT ![d] = Tail(@)]
              /\ UNCHANGED held
         ELSE /\ excl' = [excl EXCEPT ![w].at = "ticking"]
              /\ held' = held \ {d}
              /\ UNCHANGED waiters
      /\ UNCHANGED <<tableVars, queue, turn, pushed, running, phase, callVars,
                     bootVars, boundVars, cancelled>>

ExclusiveTick(w) ==
  /\ excl[w].at = "ticking"
  /\ excl' = [excl EXCEPT ![w].at = "done"]
  /\ Tick(queue, turn, held, running, phase, row, cancelled)
  /\ UNCHANGED <<born, pushed, waiters, callVars, bootVars, boundVars, cancelled>>

-----------------------------------------------------------------------------
(* cancelJob: reads the row, and acts on what it read after an await *)

CancelRead(j) ==
  /\ j \in CancelTargets
  /\ cancel[j] = "none"
  /\ row[j] \in {"pending", "running"}
  /\ cancel' = [cancel EXCEPT ![j] = row[j]]
  /\ UNCHANGED <<tableVars, schedVars, create, discard, clearing, lockVars,
                 bootVars, boundVars, cancelled>>

(* Mutant: cancelling a running job frees its slot at once. *)
CancelActFreeingSlot(j) ==
  /\ cancel[j] \in {"pending", "running"}
  /\ cancelled' = cancelled \cup {j}
  /\ queue' = queue \ {j}
  /\ cancel' = [cancel EXCEPT ![j] = IF @ = "running" THEN "none" ELSE "written"]
  /\ row' = Stored(j, "cancelled")
  /\ running' = IF cancel[j] = "running" THEN running - 1 ELSE running
  /\ UNCHANGED <<born, turn, pushed, held, phase, create, discard,
                 clearing, lockVars, bootVars, boundVars>>

CancelAct(j) ==
  /\ cancel[j] \in {"pending", "running"}
  /\ cancelled' = cancelled \cup {j}
  /\ queue' = queue \ {j}
  /\ IF cancel[j] = "running"
     THEN cancel' = [cancel EXCEPT ![j] = "none"] /\ UNCHANGED row
     ELSE cancel' = [cancel EXCEPT ![j] = "written"] /\ row' = Stored(j, "cancelled")
  /\ UNCHANGED <<born, turn, pushed, held, running, phase, create, discard,
                 clearing, lockVars, bootVars, boundVars>>

CancelDone(j) ==
  /\ cancel[j] = "written"
  /\ cancel' = [cancel EXCEPT ![j] = "none"]
  /\ cancelled' = IF row[j] = "absent" THEN cancelled ELSE cancelled \ {j}
  /\ UNCHANGED <<tableVars, schedVars, create, discard, clearing, lockVars,
                 bootVars, boundVars>>

-----------------------------------------------------------------------------
(* discardDeploymentJobs *)

DiscardStart(d) ==
  LET dropped == {j \in queue : DeploymentOf[j] = d}
  IN  /\ d \in DiscardTargets
      /\ discard[d].at = "idle"
      /\ discard' = [discard EXCEPT ![d] = [jobs |-> dropped, at |-> "dropping"]]
      /\ queue' = queue \ dropped
      /\ UNCHANGED <<tableVars, turn, pushed, held, running, phase, create, cancel,
                     clearing, lockVars, bootVars, boundVars, cancelled>>

(* Mutant: a dropped entry keeps its row. *)
DiscardRowUnwritten(d, j) ==
  /\ discard[d].at = "dropping"
  /\ j \in discard[d].jobs
  /\ discard' = [discard EXCEPT ![d].jobs = @ \ {j}]
  /\ cancelled' = cancelled \cup {j}
  /\ UNCHANGED <<tableVars, schedVars, create, cancel, clearing, lockVars, bootVars,
                 boundVars>>

(* One round of the loop; the flag is raised and dropped again around the   *)
(* write of a job that no runJob is looking at.                             *)
DiscardRow(d, j) ==
  /\ discard[d].at = "dropping"
  /\ j \in discard[d].jobs
  /\ \A k \in discard[d].jobs : turn[j] <= turn[k]
  /\ discard' = [discard EXCEPT ![d].jobs = @ \ {j}]
  /\ cancelled' = cancelled \ {j}
  /\ \/ row' = Stored(j, "cancelled") /\ UNCHANGED faults
     \/ /\ faults < MaxFaults          \* .catch(() => undefined)
        /\ faults' = faults + 1
        /\ UNCHANGED row
  /\ UNCHANGED <<born, schedVars, create, cancel, clearing, lockVars, bootVars,
                 crashes>>

DiscardScan(d) ==
  /\ discard[d].at = "dropping"
  /\ discard[d].jobs = {}
  /\ discard' = [discard EXCEPT ![d] =
       [jobs |-> {j \in Jobs : row[j] = "running" /\ DeploymentOf[j] = d},
        at |-> "flagging"]]
  /\ UNCHANGED <<tableVars, schedVars, create, cancel, clearing, lockVars,
                 bootVars, boundVars, cancelled>>

(* Mutant: the rows of running jobs are written from the snapshot. *)
DiscardFlagWriting(d) ==
  /\ discard[d].at = "flagging"
  /\ cancelled' = cancelled \cup discard[d].jobs
  /\ row' = [j \in Jobs |-> IF j \in discard[d].jobs THEN "cancelled" ELSE row[j]]
  /\ discard' = [discard EXCEPT ![d] = [jobs |-> {}, at |-> "done"]]
  /\ UNCHANGED <<born, schedVars, create, cancel, clearing, lockVars,
                 bootVars, boundVars>>

DiscardFlag(d) ==
  /\ discard[d].at = "flagging"
  /\ cancelled' = cancelled \cup discard[d].jobs
  /\ discard' = [discard EXCEPT ![d] = [jobs |-> {}, at |-> "done"]]
  /\ UNCHANGED <<tableVars, schedVars, create, cancel, clearing, lockVars,
                 bootVars, boundVars>>

-----------------------------------------------------------------------------
(* clearJobs: reads the rows of one terminal status, deletes them one by one *)

ClearRead(s) ==
  /\ started
  /\ clearing = {}
  /\ s \in ClearTargets
  /\ clearing' = {j \in Jobs : row[j] = s}
  /\ clearing' # {}
  /\ UNCHANGED <<tableVars, schedVars, create, cancel, discard, lockVars,
                 bootVars, boundVars, cancelled>>

ClearDelete(j) ==
  /\ j \in clearing
  /\ clearing' = clearing \ {j}
  /\ row' = [row EXCEPT ![j] = "absent"]
  /\ UNCHANGED <<born, schedVars, create, cancel, discard, lockVars, bootVars,
                 boundVars, cancelled>>

-----------------------------------------------------------------------------
(* The process dies and comes up again with its table. *)
Crash ==
  /\ crashes < MaxCrashes
  /\ crashes' = crashes + 1
  /\ queue' = {}
  /\ turn' = [j \in Jobs |-> 0]
  /\ pushed' = 0
  /\ held' = {}
  /\ waiters' = [d \in Deployments |-> <<>>]
  /\ running' = 0
  /\ cancelled' = {}
  /\ phase' = [j \in Jobs |-> "none"]
  /\ create' = [j \in Jobs |-> IF create[j] = "none" THEN "none" ELSE "done"]
  /\ cancel' = [j \in Jobs |-> "none"]
  /\ discard' = [d \in Deployments |-> Idle]
  /\ clearing' = {}
  /\ excl' = [w \in Workers |-> [at |-> "idle", on |-> NoDeployment]]
  /\ started' = FALSE
  /\ startup' = "idle"
  /\ orphans' = {}
  /\ pending' = {}
  /\ UNCHANGED <<tableVars, faults>>

RecoveryStep ==
  \/ EnsureStarted
  \/ ReadOrphans
  \/ InitializeFails
  \/ ReadPending
  \/ \E j \in Jobs : FailOrphan(j)
  \/ Recover
  \/ RecoverFails

RunJob(j) ==
  \/ Started(j)
  \/ ExecutorHandles(j)
  \/ ExecutorThrows(j)
  \/ ExecutorCancels(j)
  \/ ExecutorDeclines(j)
  \/ Checkpoint(j)
  \/ Slept(j)
  \/ Settled(j)
  \/ StoreFails(j)
  \/ Finish(j)

RunExclusive(w) ==
  \/ \E d \in Deployments : ExclusiveEnter(w, d)
  \/ ExclusiveLeave(w)
  \/ ExclusiveTick(w)

Discard(d) ==
  \/ DiscardStart(d)
  \/ \E j \in Jobs : DiscardRow(d, j)
  \/ DiscardScan(d)
  \/ DiscardFlag(d)

Next ==
  \/ RecoveryStep
  \/ \E j \in Jobs : Insert(j) \/ Enqueue(j) \/ RunJob(j)
  \/ \E w \in Workers : RunExclusive(w)
  \/ \E j \in Jobs : CancelRead(j) \/ CancelAct(j) \/ CancelDone(j)
  \/ \E d \in Deployments : Discard(d)
  \/ \E s \in Terminal : ClearRead(s)
  \/ \E j \in Jobs : ClearDelete(j)
  \/ Crash

(* Every await of the server settles: database calls, the executor (its     *)
(* Compose calls carry timeouts) and the body of runExclusive return, and   *)
(* some entry point (the health check) finds a cold service.  Nobody has to *)
(* create, cancel, discard or clear anything.                               *)
Fairness ==
  /\ WF_vars(RecoveryStep)
  /\ \A j \in Jobs : WF_vars(Enqueue(j)) /\ WF_vars(RunJob(j))
  /\ \A w \in Workers : WF_vars(ExclusiveLeave(w)) /\ WF_vars(ExclusiveTick(w))
  /\ \A j \in Jobs : WF_vars(CancelAct(j)) /\ WF_vars(CancelDone(j))
  /\ \A d \in Deployments :
       /\ WF_vars(\E j \in Jobs : DiscardRow(d, j))
       /\ WF_vars(DiscardScan(d))
       /\ WF_vars(DiscardFlag(d))

Spec == Init /\ [][Next]_vars
FairSpec == Spec /\ Fairness
-----------------------------------------------------------------------------
(* Properties *)

TypeOK ==
  /\ row \in [Jobs -> Statuses]
  /\ born \in [Jobs -> Nat]
  /\ queue \subseteq Jobs
  /\ turn \in [Jobs -> Nat]
  /\ pushed \in Nat
  /\ held \subseteq Deployments
  /\ waiters \in [Deployments -> Seq(Workers)]
  /\ running \in Nat
  /\ cancelled \subseteq Jobs
  /\ phase \in [Jobs -> Phases]
  /\ create \in [Jobs -> {"none", "inserting", "done"}]
  /\ cancel \in [Jobs -> {"none", "pending", "running", "written"}]
  /\ discard \in [Deployments -> [jobs : SUBSET Jobs,
                                  at : {"idle", "dropping", "flagging", "done"}]]
  /\ clearing \subseteq Jobs
  /\ excl \in [Workers -> [at : {"idle", "waiting", "inside", "ticking", "done"},
                           on : Deployments \cup {NoDeployment}]]
  /\ started \in BOOLEAN
  /\ startup \in {"idle", "opening", "orphansRead", "failing"}
  /\ orphans \subseteq Jobs
  /\ pending \subseteq Jobs
  /\ crashes \in Nat
  /\ faults \in Nat

Inside(d) == {w \in Workers : excl[w].at = "inside" /\ excl[w].on = d}
ActiveOn(d) == {j \in Active : DeploymentOf[j] = d}

(* Lifecycle work for one deployment never overlaps (jobs.ts:30): a         *)
(* dispatched job, from the tick that took it to its finally clause, and    *)
(* the body of a runExclusive call exclude each other and themselves.       *)
LifecycleExclusion ==
  \A d \in Deployments :
    /\ \A j, k \in ActiveOn(d) : j = k
    /\ \A v, w \in Inside(d) : v = w
    /\ ActiveOn(d) = {} \/ Inside(d) = {}

(* A key is held exactly while somebody owns it: no path through runJob or  *)
(* runExclusive leaks the lock or frees it twice.                           *)
HeldExactlyWhileOwned ==
  \A d \in Deployments : d \in held <=> ActiveOn(d) # {} \/ Inside(d) # {}

(* The slot counter counts the jobs in flight and stays within the limit,   *)
(* whatever failed on the way.                                              *)
SlotsAccountedFor ==
  running = Cardinality(Active) /\ running <= MaxConcurrency

(* cancelJob acts on a status it read before an await (jobs.ts:503), so it  *)
(* may write over what has happened since: the properties of a row are      *)
(* about the jobs nobody cancels.                                           *)
Uncancelled == Jobs \ CancelTargets

(* Taken off the queue by discardDeploymentJobs, its row not yet written.   *)
Dropped(d, j) == discard[d].at = "dropping" /\ j \in discard[d].jobs

(* While scheduling is open every pending row is queued, on its way into   *)
(* the queue or being discarded; the queue holds pending rows only; and a   *)
(* row says running only while a runJob of this process drives it.          *)
RowsMatchQueue ==
  started /\ faults = 0 =>
    \A j \in Uncancelled :
      /\ row[j] = "pending" => \/ j \in queue
                               \/ create[j] = "inserting"
                               \/ \E d \in Deployments : Dropped(d, j)
      /\ j \in queue => row[j] = "pending"
      /\ row[j] = "running" => j \in Active

(* No job is lost, and none is run twice by one process, however many       *)
(* callers raced for recovery and wherever the last process stopped: rows   *)
(* match the queue (database faults excepted), and what enters it is        *)
(* pending and not in flight.                                               *)
EachJobDrivenOnce ==
  [][/\ RowsMatchQueue'
     /\ \A j \in Uncancelled \cap (queue' \ queue) : row[j] = "pending" /\ phase[j] = "none"]_vars

(* Who works on a deployment, and who waits for it, seen as the lock of     *)
(* LifecycleLock.                                                           *)
OwnersOf(d) == {<<"job", j>> : j \in ActiveOn(d)} \cup {<<"call", w>> : w \in Inside(d)}

Lock == INSTANCE LifecycleLock
          WITH Callers <- Workers, owners <- [d \in Deployments |-> OwnersOf(d)], line <- waiters

(* The job service implements the lock: a deployment has one owner at a     *)
(* time, and a waiter is never overtaken by the dispatcher nor by another   *)
(* waiter (jobs.ts:30-47).                                                  *)
ImplementsLock == Lock!Spec

(* A recorded outcome is final: no later write of runJob, recovery or       *)
(* discard replaces it.  (A read-back that throws after markCompleted    *)
(* excepted: the catch clause then records a failure over it.)              *)
OutcomeIsFinal ==
  [][faults' = faults =>
       \A j \in Uncancelled : row[j] \in Terminal => row'[j] \in {row[j], "absent"}]_vars

(* Every job that is queued reaches an outcome, across restarts, and every  *)
(* runExclusive call that waits gets its turn unless the process dies.      *)
NobodyStarves ==
  /\ \A j \in Jobs : row[j] \in {"pending", "running"} ~> row[j] \in Terminal \cup {"absent"}
  /\ \A w \in Workers : excl[w].at = "waiting" ~> excl[w].at # "waiting"
=============================================================================
