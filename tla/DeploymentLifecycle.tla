------------------------- MODULE DeploymentLifecycle -------------------------
(***************************************************************************)
(* One deployment of the hola server: the API calls that change it         *)
(* (createFromDraft, promote, rollback, executeAction, deleteDeployment),  *)
(* the lifecycle jobs they start (runLifecycleJob), the record on disk and *)
(* its rehydration after a restart                                         *)
(* (packages/server/src/services/core/deployment.ts).                      *)
(*                                                                         *)
(* As in JobQueue, an action is the code from one await to the next.  A    *)
(* call or job that writes a file is at a stage named for the write; the   *)
(* action of that stage lands the write, whose content was fixed when the  *)
(* stage began, and runs the code that follows it.  Two writes of one file *)
(* may land in either order.                                               *)
(*                                                                         *)
(* The job service appears here as what JobQueue guarantees of it for one  *)
(* deployment: one holder of the lifecycle lock, waiters of runExclusive   *)
(* before queued jobs, queued jobs in order, each when a slot is free.     *)
(***************************************************************************)
EXTENDS Sequences, FiniteSets, Naturals

CONSTANTS
  Calls,        \* API calls; the release a call creates and the job it starts bear its name
  Original,     \* the active release of a deployment installed earlier
  NoRelease,
  Installed,    \* whether the deployment exists in the initial state
  Requests,     \* bound: the requests clients send, [op, wants]
  MaxUnderWay,  \* bound: how many calls may be under way at once
  MaxCrashes,   \* bound on restarts
  MaxFaults     \* bound on writes that throw

Operations == {"create", "promote", "rollback", "start", "restart", "stop",
               "delete", "uninstall", "forceUninstall"}
Wishes == {"job", "snapshot", "data"}   \* autoStart, snapshot, restoreData

ASSUME LifecycleAssumption ==
  /\ Original \notin Calls /\ NoRelease \notin Calls \cup {Original}
  /\ "missing" \notin Calls \cup {Original, NoRelease}
  /\ IsFiniteSet(Calls)
  /\ Requests \subseteq [op : Operations, wants : SUBSET Wishes]
  /\ Installed \in BOOLEAN /\ MaxUnderWay \in Nat
  /\ MaxCrashes \in Nat /\ MaxFaults \in Nat

Releases == Calls \cup {Original}
Uninstalls == {"uninstall", "forceUninstall"}

(* The fields of a deployment record that steer the lifecycle: status,      *)
(* currentReleaseId, and the release whose version is displayed.            *)
Absent == [status |-> "absent", current |-> NoRelease, version |-> NoRelease]

VARIABLES
  listed,      \* this.deployments has the record
  deployment,  \* the record object, which calls and jobs hold on to
  release,     \* this.releases: status of each release, or "none"
  meta,        \* metadata.json
  pointer,     \* the file current
  stored,      \* releases/<id>/metadata.json: status, or "none"
  staged,      \* the releases whose compose file is on disk
  runtime,     \* runtime/docker-compose.yml exists
  snapshot,    \* the pre-upgrade snapshot kept for each release
  containers,  \* the release whose containers are up
  data,        \* the app data root: the release that last ran on it
  call,        \* each API call
  job,         \* each job
  holder,      \* who has the lifecycle lock: <<>>, <<"call", c>> or <<"job", j>>
  waiting,     \* runExclusive calls waiting for it
  queue,       \* the job queue
  issued,      \* the jobs in the order of their rows
  cold,        \* job recovery has not run since the last restart
  crashes,
  faults

memory  == <<listed, deployment, release>>
records == <<meta, pointer, stored, staged>>
disk    == <<records, runtime, snapshot>>
host    == <<containers, data>>
lock    == <<holder, waiting, queue>>
table   == <<issued, cold>>
bounds  == <<crashes, faults>>
vars    == <<memory, disk, host, call, job, lock, table, bounds>>

NoCall == [op |-> "none", wants |-> {}, at |-> "idle", rel |-> NoRelease,
           old |-> NoRelease, doc |-> Absent]
NoJob  == [act |-> "none", at |-> "none", goal |-> NoRelease, restore |-> FALSE,
           rel |-> NoRelease, flagged |-> FALSE, doc |-> Absent]

Settled   == {"idle", "returned", "failed", "lost"}
Finished  == {"none", "completed", "failed", "cancelled"}
UnderWay       == {c \in Calls : call[c].at \notin Settled}
NoCallUnderWay == UnderWay = {}
NoJobUnderWay  == \A j \in Calls : job[j].at \in Finished

Init ==
  /\ listed = Installed
  /\ deployment = IF Installed THEN [status |-> "running", current |-> Original, version |-> Original]
                               ELSE Absent
  /\ release = [r \in Releases |-> IF Installed /\ r = Original THEN "active" ELSE "none"]
  /\ meta = deployment
  /\ pointer = deployment.current
  /\ stored = release
  /\ staged = IF Installed THEN {Original} ELSE {}
  /\ runtime = Installed
  /\ snapshot = [r \in Releases |-> "missing"]
  /\ containers = deployment.current
  /\ data = deployment.current
  /\ call = [c \in Calls |-> NoCall]
  /\ job = [j \in Calls |-> NoJob]
  /\ holder = <<>> /\ waiting = <<>> /\ queue = <<>>
  /\ issued = <<>> /\ cold = FALSE
  /\ crashes = 0 /\ faults = 0

-----------------------------------------------------------------------------
(* The lifecycle lock.  A holder that leaves hands it to the first waiter,  *)
(* else the dispatcher may give it to the first queued job.                 *)
Busy == holder # <<>> \/ queue # <<>>

Granted(c) == IF call[c].op = "promote" THEN "capturing" ELSE "tearing"

HandedCalls(cl) ==
  IF waiting = <<>> THEN cl ELSE [cl EXCEPT ![Head(waiting)].at = Granted(Head(waiting))]

(* tick with the key free: the first queued job takes it, unless jobs of    *)
(* other deployments fill the slots.                                        *)
Tick(q, jb) ==
  \/ /\ q # <<>>
     /\ holder' = <<"job", Head(q)>>
     /\ queue' = Tail(q)
     /\ job' = [jb EXCEPT ![Head(q)].at = "starting"]
  \/ holder' = <<>> /\ queue' = q /\ job' = jb

LeaveLock(jb) ==
  \/ /\ waiting # <<>>
     /\ holder' = <<"call", Head(waiting)>> /\ waiting' = Tail(waiting)
     /\ job' = jb /\ UNCHANGED queue
  \/ waiting = <<>> /\ Tick(queue, jb) /\ UNCHANGED waiting

(* The tick of another deployment's job that ends, or the one runExclusive  *)
(* owes after a release.                                                    *)
TickLater ==
  /\ holder = <<>> /\ queue # <<>>
  /\ Tick(queue, job) /\ holder' # <<>>
  /\ UNCHANGED <<memory, disk, host, call, waiting, table, bounds>>

(* Mutant: nobody is waited for. *)
RunExclusiveTaking(c, cl) ==
  /\ holder' = <<"call", c>>
  /\ call' = [cl EXCEPT ![c].at = Granted(c)]
  /\ UNCHANGED <<waiting, queue>>

(* runExclusive: cl is the calls once the caller has done its own part.     *)
RunExclusive(c, cl) ==
  /\ IF holder = <<>>
     THEN /\ holder' = <<"call", c>>
          /\ call' = [cl EXCEPT ![c].at = Granted(c)]
          /\ UNCHANGED waiting
     ELSE /\ waiting' = Append(waiting, c)
          /\ call' = [cl EXCEPT ![c].at = "waiting"]
          /\ UNCHANGED holder
  /\ UNCHANGED queue

(* createJob: q is the queue with the new job, jb its entry.                *)
Dispatch(q, jb) ==
  /\ \/ holder = <<>> /\ Tick(q, jb)
     \/ holder # <<>> /\ queue' = q /\ job' = jb /\ UNCHANGED holder
  /\ UNCHANGED waiting

-----------------------------------------------------------------------------
(* API calls.  A refusal (404, 409) has no effect and is not a step.        *)
Ended(cl, c, outcome) ==
  [cl EXCEPT ![c].at = outcome, ![c].old = NoRelease, ![c].doc = Absent]

Request(c, op, w) ==
  /\ call[c].at = "idle"
  /\ Cardinality(UnderWay) < MaxUnderWay
  /\ [op |-> op, wants |-> w] \in Requests

Opened(c, op, w, stage, rel) ==
  [call EXCEPT ![c] = [op |-> op, wants |-> w, at |-> stage, rel |-> rel,
                       old |-> NoRelease, doc |-> Absent]]

CreateFromDraft(c) == \E w \in SUBSET Wishes :
  /\ Request(c, "create", w)
  /\ ~Installed /\ \A d \in Calls : call[d].op # "create"   \* a fresh deployment id
  /\ deployment' = [status |-> "installing", current |-> NoRelease, version |-> c]
  /\ listed' = TRUE
  /\ release' = [release EXCEPT ![c] = "creating"]
  /\ call' = Opened(c, "create", w, "staging", c)
  /\ UNCHANGED <<disk, host, job, lock, table, bounds>>

(* Mutant: promote does not refuse while a job is queued or running.        *)
PromoteWhileBusy(c) == \E w \in SUBSET Wishes :
  /\ Request(c, "promote", w)
  /\ listed
  /\ release' = [release EXCEPT ![c] = "creating"]
  /\ call' = Opened(c, "promote", w, "staging", c)
  /\ UNCHANGED <<listed, deployment, disk, host, job, lock, table, bounds>>

Promote(c) == \E w \in SUBSET Wishes :
  /\ Request(c, "promote", w)
  /\ listed /\ ~Busy
  /\ release' = [release EXCEPT ![c] = "creating"]
  /\ call' = Opened(c, "promote", w, "staging", c)
  /\ UNCHANGED <<listed, deployment, disk, host, job, lock, table, bounds>>

(* Mutant: the artifacts are not copied. *)
StageNothing(c) ==
  /\ call[c].at = "staging"
  /\ call' = [call EXCEPT ![c].at = "saving"]
  /\ UNCHANGED <<memory, disk, host, job, lock, table, bounds>>

(* stageReleaseArtifacts, then persistRelease. *)
Stage(c) ==
  /\ call[c].at = "staging"
  /\ staged' = staged \cup {c}
  /\ call' = [call EXCEPT ![c].at = "saving"]
  /\ UNCHANGED <<memory, meta, pointer, stored, runtime, snapshot, host, job, lock, table, bounds>>

(* promoteRelease up to its first write: demote the active release, or, if  *)
(* there is none to demote, activate the target at once.                    *)
BeginSwitch(c, cl) ==
  LET rel == cl[c].rel
      old == deployment.current
  IN  IF ~listed \/ release[rel] = "none"
      THEN /\ call' = Ended(cl, c, "failed")
           /\ UNCHANGED release
      ELSE IF old \notin {NoRelease, rel} /\ release[old] # "none"
      THEN /\ call' = [cl EXCEPT ![c].at = "demoting", ![c].old = old]
           /\ release' = [release EXCEPT ![old] = "stopped"]
      ELSE /\ call' = [cl EXCEPT ![c].at = "activating", ![c].old = NoRelease]
           /\ release' = [release EXCEPT ![rel] = "active"]

(* Mutant: the snapshot is filed under the new release. *)
SaveNamingTarget(c) ==
  /\ call[c].at = "saving"
  /\ stored' = [stored EXCEPT ![c] = "creating"]
  /\ \/ /\ call[c].op = "create"
        /\ call' = [call EXCEPT ![c].at = "registering", ![c].doc = deployment]
        /\ UNCHANGED <<release, lock>>
     \/ /\ call[c].op = "promote"
        /\ RunExclusive(c, [call EXCEPT ![c].old = c])
        /\ UNCHANGED release
  /\ UNCHANGED <<listed, deployment, meta, pointer, staged, runtime, snapshot, host, job, table, bounds>>

(* The new release is on disk: create writes the record; promote captures a *)
(* snapshot under the lock if one was asked for.                            *)
Save(c) ==
  /\ call[c].at = "saving"
  /\ stored' = [stored EXCEPT ![c] = "creating"]
  /\ \/ /\ call[c].op = "create"
        /\ call' = [call EXCEPT ![c].at = "registering", ![c].doc = deployment]
        /\ UNCHANGED <<release, lock>>
     \/ /\ call[c].op = "promote"
        /\ "snapshot" \in call[c].wants /\ deployment.current # NoRelease
        /\ RunExclusive(c, [call EXCEPT ![c].old = deployment.current])
        /\ UNCHANGED release
     \/ /\ call[c].op = "promote"
        /\ "snapshot" \notin call[c].wants \/ deployment.current = NoRelease
        /\ BeginSwitch(c, call)
        /\ UNCHANGED lock
  /\ UNCHANGED <<listed, deployment, meta, pointer, staged, runtime, snapshot, host, job, table, bounds>>

Register(c) ==
  /\ call[c].at = "registering"
  /\ meta' = call[c].doc
  /\ BeginSwitch(c, call)
  /\ UNCHANGED <<listed, deployment, pointer, stored, staged, runtime, snapshot, host, job, lock, table, bounds>>

(* capturePreUpgradeSnapshot: the data root is archived under the release   *)
(* the call read before it asked for the lock.  A failure fails the promote.*)
CaptureSnapshot(c) ==
  /\ call[c].at = "capturing"
  /\ \/ /\ snapshot' = [snapshot EXCEPT ![call[c].old] = data]
        /\ BeginSwitch(c, HandedCalls(call))
     \/ /\ call' = Ended(HandedCalls(call), c, "failed")
        /\ UNCHANGED <<snapshot, release>>
  /\ LeaveLock(job)
  /\ UNCHANGED <<listed, deployment, records, runtime, host, table, bounds>>

(* Mutant: the demoted release is not written. *)
DemoteReleaseUnsaved(c) ==
  /\ call[c].at = "demoting"
  /\ release' = [release EXCEPT ![call[c].rel] = "active"]
  /\ call' = [call EXCEPT ![c].at = "activating"]
  /\ UNCHANGED <<listed, deployment, disk, host, job, lock, table, bounds>>

DemoteRelease(c) ==
  /\ call[c].at = "demoting"
  /\ stored' = [stored EXCEPT ![call[c].old] = "stopped"]
  /\ release' = [release EXCEPT ![call[c].rel] = "active"]
  /\ call' = [call EXCEPT ![c].at = "activating"]
  /\ UNCHANGED <<listed, deployment, meta, pointer, staged, runtime, snapshot, host, job, lock, table, bounds>>

ActivateRelease(c) ==
  /\ call[c].at = "activating"
  /\ stored' = [stored EXCEPT ![call[c].rel] = "active"]
  /\ deployment' = [deployment EXCEPT !.current = call[c].rel]
  /\ listed' = TRUE
  /\ call' = [call EXCEPT ![c].at = "recording", ![c].doc = deployment']
  /\ UNCHANGED <<release, meta, pointer, staged, runtime, snapshot, host, job, lock, table, bounds>>

RecordRelease(c) ==
  /\ call[c].at = "recording"
  /\ meta' = call[c].doc
  /\ call' = [call EXCEPT ![c].at = "pointing"]
  /\ UNCHANGED <<memory, pointer, stored, staged, runtime, snapshot, host, job, lock, table, bounds>>

(* Mutant: the pointer is written only by the first promotion. *)
SwitchPointerOnce(c) ==
  /\ call[c].at = "pointing"
  /\ pointer' = IF pointer = NoRelease THEN call[c].rel ELSE pointer
  /\ call' = Ended(call, c, "returned")
  /\ UNCHANGED <<memory, meta, stored, staged, runtime, snapshot, host, job, lock, table, bounds>>

(* writeCurrentPointer ends promoteRelease.  promote then moves the         *)
(* displayed version; rollback shares promoteRelease but has no such step.  *)
SwitchPointer(c) ==
  /\ call[c].at = "pointing"
  /\ pointer' = call[c].rel
  /\ \/ /\ call[c].op = "promote" /\ listed
        /\ deployment' = [deployment EXCEPT !.version = c]
        /\ call' = [call EXCEPT ![c].at = "syncing", ![c].doc = deployment']
     \/ /\ call[c].op = "promote" /\ ~listed
        /\ call' = Ended(call, c, "failed")
        /\ UNCHANGED deployment
     \/ /\ \/ call[c].op = "rollback"
           \/ call[c].op = "create" /\ "job" \in call[c].wants
        /\ call' = [call EXCEPT ![c].at = "launching"]
        /\ UNCHANGED deployment
     \/ /\ call[c].op = "create" /\ "job" \notin call[c].wants
        /\ call' = Ended(call, c, "returned")
        /\ UNCHANGED deployment
  /\ UNCHANGED <<listed, release, meta, stored, staged, runtime, snapshot, host, job, lock, table, bounds>>

SyncVersion(c) ==
  /\ call[c].at = "syncing"
  /\ meta' = call[c].doc
  /\ call' = IF "job" \in call[c].wants THEN [call EXCEPT ![c].at = "launching"]
                                        ELSE Ended(call, c, "returned")
  /\ UNCHANGED <<memory, pointer, stored, staged, runtime, snapshot, host, job, lock, table, bounds>>

(* rollback: to any release the server knows; by default one that is not    *)
(* current.                                                                 *)
Rollback(c) == \E w \in SUBSET Wishes, r \in Releases :
  /\ Request(c, "rollback", w)
  /\ listed /\ ~Busy
  /\ release[r] # "none"
  /\ BeginSwitch(c, Opened(c, "rollback", w, "idle", r))
  /\ UNCHANGED <<listed, deployment, disk, host, job, lock, table, bounds>>

(* executeAction does not look whether the deployment is busy.              *)
ExecuteAction(c) == \E op \in {"start", "restart", "stop", "delete"}, w \in SUBSET Wishes :
  /\ Request(c, op, w)
  /\ listed
  /\ call' = Opened(c, op, w, "launching", NoRelease)
  /\ UNCHANGED <<memory, disk, host, job, lock, table, bounds>>

ActionStatus(op) == IF op \in {"stop", "delete"} THEN "stopped" ELSE "installing"

JobOf(c) ==
  [act |-> IF call[c].op \in {"create", "promote"} THEN "deploy" ELSE call[c].op,
   at |-> "queued", goal |-> call[c].rel, restore |-> "data" \in call[c].wants,
   rel |-> NoRelease, flagged |-> FALSE, doc |-> Absent]

(* createJob, which first waits for recovery.  rollback and executeAction   *)
(* then set the status in the object they hold, list it and write it.       *)
Launch(c) ==
  /\ call[c].at = "launching" /\ ~cold
  /\ issued' = Append(issued, c)
  /\ Dispatch(Append(queue, c), [job EXCEPT ![c] = JobOf(c)])
  /\ IF call[c].op \in {"create", "promote"}
     THEN /\ call' = Ended(call, c, "returned")
          /\ UNCHANGED <<listed, deployment>>
     ELSE /\ deployment' = [deployment EXCEPT !.status = ActionStatus(call[c].op)]
          /\ listed' = TRUE
          /\ call' = [call EXCEPT ![c].at = "closing", ![c].doc = deployment']
  /\ UNCHANGED <<release, disk, host, cold, bounds>>

Close(c) ==
  /\ call[c].at = "closing"
  /\ meta' = call[c].doc
  /\ call' = Ended(call, c, "returned")
  /\ UNCHANGED <<memory, pointer, stored, staged, runtime, snapshot, host, job, lock, table, bounds>>

-----------------------------------------------------------------------------
(* deleteDeployment and performDelete. *)
(* Mutant: the uninstall neither refuses nor takes the lock.                *)
DeleteDeploymentAtOnce(c) == \E op \in Uninstalls :
  /\ Request(c, op, {})
  /\ listed
  /\ call' = Opened(c, op, {}, "tearing", NoRelease)
  /\ UNCHANGED <<memory, disk, host, job, lock, table, bounds>>

DeleteDeployment(c) == \E op \in Uninstalls :
  /\ Request(c, op, {})
  /\ listed /\ (op = "forceUninstall" \/ ~Busy)
  /\ call' = Opened(c, op, {}, "discarding", NoRelease)
  /\ UNCHANGED <<memory, disk, host, job, lock, table, bounds>>

(* Mutant: performDelete without runExclusive. *)
DiscardJobsUnlocked(c) ==
  /\ call[c].at = "discarding"
  /\ job' = [j \in Calls |->
       IF \E i \in DOMAIN queue : queue[i] = j THEN [job[j] EXCEPT !.at = "cancelled"] ELSE job[j]]
  /\ queue' = <<>>
  /\ call' = [call EXCEPT ![c].at = "tearing"]
  /\ UNCHANGED <<memory, disk, host, holder, waiting, table, bounds>>

(* discardDeploymentJobs, then the lock, which force does not wait for.     *)
DiscardJobs(c) ==
  /\ call[c].at = "discarding"
  /\ job' = [j \in Calls |->
       IF \E i \in DOMAIN queue : queue[i] = j THEN [job[j] EXCEPT !.at = "cancelled"]
       ELSE IF job[j].at \notin Finished \cup {"queued"} THEN [job[j] EXCEPT !.flagged = TRUE]
       ELSE job[j]]
  /\ queue' = <<>>
  /\ IF call[c].op = "uninstall" /\ holder # <<>>
     THEN /\ waiting' = Append(waiting, c)
          /\ call' = [call EXCEPT ![c].at = "waiting"]
          /\ UNCHANGED holder
     ELSE /\ holder' = IF call[c].op = "uninstall" THEN <<"call", c>> ELSE holder
          /\ call' = [call EXCEPT ![c].at = "tearing"]
          /\ UNCHANGED waiting
  /\ UNCHANGED <<memory, disk, host, table, bounds>>

(* The end of an uninstall: only the unforced one holds the lock. *)
LeaveDelete(c, outcome) ==
  IF holder = <<"call", c>>
  THEN /\ call' = Ended(HandedCalls(call), c, outcome)
       /\ LeaveLock(job)
  ELSE /\ call' = Ended(call, c, outcome)
       /\ UNCHANGED <<job, lock>>

(* teardownContainers: no compose file, nothing to stop.  A stop that fails *)
(* aborts the uninstall unless it is forced.                                *)
Teardown(c) ==
  /\ call[c].at = "tearing"
  /\ \/ /\ listed
        /\ containers' = IF runtime THEN NoRelease ELSE containers
        /\ call' = [call EXCEPT ![c].at = "deprovisioning"]
        /\ UNCHANGED <<job, lock>>
     \/ /\ listed /\ runtime /\ call[c].op = "forceUninstall"
        /\ call' = [call EXCEPT ![c].at = "deprovisioning"]
        /\ UNCHANGED <<containers, job, lock>>
     \/ /\ listed /\ runtime /\ call[c].op = "uninstall"
        /\ LeaveDelete(c, "failed")
        /\ UNCHANGED containers
     \/ /\ ~listed
        /\ LeaveDelete(c, "returned")
        /\ UNCHANGED containers
  /\ UNCHANGED <<memory, disk, data, table, bounds>>

(* onDeprovision never blocks; the record and its releases leave memory. *)
Unlist(c) ==
  /\ call[c].at = "deprovisioning"
  /\ listed' = FALSE
  /\ release' = [r \in Releases |-> "none"]
  /\ call' = [call EXCEPT ![c].at = "wiping"]
  /\ UNCHANGED <<deployment, disk, host, job, lock, table, bounds>>

(* removeStorage, whose failure is logged and stepped over. *)
RemoveStorage(c) ==
  /\ call[c].at = "wiping"
  /\ \/ /\ meta' = Absent /\ pointer' = NoRelease
        /\ stored' = [r \in Releases |-> "none"]
        /\ staged' = {} /\ runtime' = FALSE
        /\ snapshot' = [r \in Releases |-> "missing"]
        /\ UNCHANGED faults
     \/ /\ faults < MaxFaults /\ faults' = faults + 1
        /\ UNCHANGED disk
  /\ call' = [call EXCEPT ![c].at = "reclaiming"]
  /\ UNCHANGED <<memory, host, job, lock, table, crashes>>

(* removeAppData, likewise, and the end of the uninstall. *)
RemoveAppData(c) ==
  /\ call[c].at = "reclaiming"
  /\ \/ data' = NoRelease /\ UNCHANGED faults
     \/ faults < MaxFaults /\ faults' = faults + 1 /\ UNCHANGED data
  /\ LeaveDelete(c, "returned")
  /\ UNCHANGED <<memory, disk, containers, table, crashes>>

-----------------------------------------------------------------------------
(* runLifecycleJob. *)
JobEnds(j, outcome) ==
  /\ call' = HandedCalls(call)
  /\ LeaveLock([job EXCEPT ![j].at = outcome, ![j].doc = Absent])

(* The executor sets the status in the object it looked up, lists it again  *)
(* and writes it: the last thing it does, whether it succeeded or not.      *)
Settle(j, status, stage) ==
  /\ deployment' = [deployment EXCEPT !.status = status]
  /\ listed' = TRUE
  /\ job' = [job EXCEPT ![j].at = stage, ![j].doc = deployment']
  /\ UNCHANGED <<release, call, lock>>

Succeeds(j, status) == Settle(j, status, "reporting")
(* Mutant: the catch does not set the status. *)
ThrowsSilently(j) == Settle(j, deployment.status, "failing")

Throws(j) == Settle(j, "error", "failing")

Proceed(j, stage) ==
  /\ job' = [job EXCEPT ![j].at = stage]
  /\ UNCHANGED <<memory, call, lock>>

(* Without a record the executor declines; a job created for a release that *)
(* is no longer the active one is refused, outside the try.                 *)
OffTarget(j) ==
  job[j].goal # NoRelease /\ deployment.current \notin {NoRelease, job[j].goal}

StartJob(j) ==
  /\ job[j].at = "starting"
  /\ \/ ~listed /\ JobEnds(j, "completed") /\ UNCHANGED memory
     \/ listed /\ OffTarget(j) /\ JobEnds(j, "failed") /\ UNCHANGED memory
     \/ /\ listed /\ ~OffTarget(j)
        /\ Proceed(j, CASE job[j].act \in {"stop", "delete"} -> "stopping"
                        [] job[j].act = "rollback" /\ job[j].restore -> "quieting"
                        [] OTHER -> "preparing")
  /\ UNCHANGED <<disk, host, table, bounds>>

(* composeDown needs the compose file and may fail. *)
(* Mutant: the result of composeDown is ignored. *)
StopAppUnchecked(j) ==
  /\ job[j].at = "stopping"
  /\ containers' \in {NoRelease, containers}
  /\ Succeeds(j, "stopped")
  /\ UNCHANGED <<disk, data, table, bounds>>

StopApp(j) ==
  /\ job[j].at = "stopping"
  /\ \/ runtime /\ containers' = NoRelease /\ Succeeds(j, "stopped")
     \/ /\ UNCHANGED containers
        /\ IF job[j].act = "delete" THEN Succeeds(j, "stopped") ELSE Throws(j)
  /\ UNCHANGED <<disk, data, table, bounds>>

(* A data-aware rollback: stop, find the target's snapshot, replace the     *)
(* data root.  A snapshot of an empty data root restores nothing.           *)
(* Mutant: a missing snapshot is stepped over. *)
QuietSkippingMissing(j) ==
  /\ job[j].at = "quieting"
  /\ runtime /\ containers' = NoRelease
  /\ Proceed(j, IF snapshot[job[j].goal] \in {"missing", NoRelease} THEN "preparing" ELSE "restoring")
  /\ UNCHANGED <<disk, data, table, bounds>>

Quiet(j) ==
  /\ job[j].at = "quieting"
  /\ \/ /\ runtime /\ containers' = NoRelease
        /\ CASE snapshot[job[j].goal] = "missing" -> Throws(j)
             [] snapshot[job[j].goal] = NoRelease -> Proceed(j, "preparing")
             [] OTHER -> Proceed(j, "restoring")
     \/ UNCHANGED containers /\ Throws(j)
  /\ UNCHANGED <<disk, data, table, bounds>>

(* restoreTarGzInto stages the archive: a failure leaves the data as it was.*)
Restore(j) ==
  /\ job[j].at = "restoring"
  /\ \/ snapshot[job[j].goal] # "missing" /\ data' = snapshot[job[j].goal] /\ Proceed(j, "preparing")
     \/ UNCHANGED data /\ Throws(j)
  /\ UNCHANGED <<disk, containers, table, bounds>>

(* materializeCompose: the job brings up the release that is active now.    *)
Prepare(j) ==
  /\ job[j].at = "preparing"
  /\ \/ /\ deployment.current \in staged
        /\ runtime' = TRUE
        /\ job' = [job EXCEPT ![j].rel = deployment.current,
                              ![j].at = IF job[j].act = "restart" THEN "upping" ELSE "pulling"]
        /\ UNCHANGED <<memory, call, lock>>
     \/ UNCHANGED runtime /\ Throws(j)
  /\ UNCHANGED <<records, snapshot, host, table, bounds>>

(* composePull, then the only checkpoint of a cancelled job. *)
Pull(j) ==
  /\ job[j].at = "pulling"
  /\ \/ ~job[j].flagged /\ Proceed(j, "upping")
     \/ Throws(j)
  /\ UNCHANGED <<disk, host, table, bounds>>

(* composeUp: the app runs on the data root.  It fails without its compose  *)
(* file, and may fail with the containers up or not.                        *)
Up(j) ==
  /\ job[j].at = "upping"
  /\ \/ /\ runtime
        /\ containers' = job[j].rel /\ data' = job[j].rel
        /\ Succeeds(j, "running") \/ Throws(j)
     \/ UNCHANGED host /\ Throws(j)
  /\ UNCHANGED <<disk, table, bounds>>

Report(j) ==
  /\ job[j].at = "reporting"
  /\ meta' = job[j].doc
  /\ JobEnds(j, "completed")
  /\ UNCHANGED <<memory, pointer, stored, staged, runtime, snapshot, host, table, bounds>>

ReportFailure(j) ==
  /\ job[j].at = "failing"
  /\ meta' = job[j].doc
  /\ JobEnds(j, "failed")
  /\ UNCHANGED <<memory, pointer, stored, staged, runtime, snapshot, host, table, bounds>>

-----------------------------------------------------------------------------
(* Writes that throw, restarts, and the job service's recovery. *)
Writing == {"staging", "saving", "registering", "demoting", "activating", "recording",
            "pointing", "syncing", "launching", "closing"}

CallWriteFails(c) ==
  /\ call[c].at \in Writing
  /\ faults < MaxFaults /\ faults' = faults + 1
  /\ call' = Ended(call, c, "failed")
  /\ UNCHANGED <<memory, disk, host, job, lock, table, crashes>>

JobWriteFails(j) ==
  /\ faults < MaxFaults /\ faults' = faults + 1
  /\ \/ job[j].at = "reporting" /\ Throws(j)
     \/ job[j].at = "failing" /\ JobEnds(j, "failed") /\ UNCHANGED memory
  /\ UNCHANGED <<disk, host, table, crashes>>

(* loadFromStorage: the record needs metadata.json; the pointer, when there *)
(* is one, overrides the active release it names.                           *)
Reloaded == [meta EXCEPT !.current = IF pointer # NoRelease THEN pointer ELSE meta.current]

(* The row of a job that was starting may still be pending; every other job *)
(* that was not queued has become an orphan.                                *)
Crash == \E resumed \in SUBSET {j \in Calls : job[j].at = "starting"} :
  /\ crashes < MaxCrashes /\ crashes' = crashes + 1
  /\ listed' = (meta # Absent)
  /\ deployment' = IF meta # Absent THEN Reloaded ELSE Absent
  /\ release' = IF meta # Absent THEN stored ELSE [r \in Releases |-> "none"]
  /\ call' = [c \in Calls |-> IF call[c].at \in Settled THEN call[c] ELSE Ended(call, c, "lost")[c]]
  /\ job' = [j \in Calls |->
       IF job[j].at \in Finished \cup {"queued"} THEN job[j]
       ELSE [job[j] EXCEPT !.at = IF j \in resumed THEN "queued" ELSE "failed", !.doc = Absent]]
  /\ holder' = <<>> /\ waiting' = <<>> /\ queue' = <<>>
  /\ cold' = TRUE
  /\ UNCHANGED <<disk, host, issued, faults>>

(* Pending jobs are resumed newest first. *)
Pending == {j \in Calls : job[j].at = "queued"}

NewestFirst(q) ==
  /\ {q[i] : i \in 1..Len(q)} = Pending
  /\ \A i, k \in 1..Len(q) : i < k =>
       \E m, n \in 1..Len(issued) : n < m /\ issued[m] = q[i] /\ issued[n] = q[k]

(* Mutant: recovery fails the orphans and resumes nothing. *)
RecoverForgetting ==
  /\ cold /\ cold' = FALSE
  /\ UNCHANGED <<memory, disk, host, call, job, lock, issued, bounds>>

Recover ==
  /\ cold /\ cold' = FALSE
  /\ \E q \in [1..Cardinality(Pending) -> Pending] : NewestFirst(q) /\ Dispatch(q, job)
  /\ UNCHANGED <<memory, disk, host, call, issued, bounds>>

-----------------------------------------------------------------------------
Calling(c) ==
  \/ CreateFromDraft(c) \/ Promote(c) \/ Rollback(c) \/ ExecuteAction(c) \/ DeleteDeployment(c)

CallStep(c) ==
  \/ Stage(c) \/ Save(c) \/ Register(c) \/ CaptureSnapshot(c)
  \/ DemoteRelease(c) \/ ActivateRelease(c) \/ RecordRelease(c) \/ SwitchPointer(c)
  \/ SyncVersion(c) \/ Launch(c) \/ Close(c)
  \/ DiscardJobs(c) \/ Teardown(c) \/ Unlist(c) \/ RemoveStorage(c) \/ RemoveAppData(c)

JobStep(j) ==
  \/ StartJob(j) \/ StopApp(j) \/ Quiet(j) \/ Restore(j) \/ Prepare(j) \/ Pull(j) \/ Up(j)
  \/ Report(j) \/ ReportFailure(j)

Next ==
  \/ \E c \in Calls : Calling(c) \/ CallStep(c) \/ CallWriteFails(c)
  \/ \E j \in Calls : JobStep(j) \/ JobWriteFails(j)
  \/ TickLater \/ Crash \/ Recover

Spec == Init /\ [][Next]_vars

(* The runtime runs every continuation, every file write and compose call   *)
(* returns (the compose calls have timeouts), so jobs of other deployments  *)
(* end too; recovery starts with the first request that needs the job       *)
(* service.                                                                 *)
Fairness ==
  /\ \A c \in Calls : WF_vars(CallStep(c))
  /\ \A j \in Calls : WF_vars(JobStep(j))
  /\ WF_vars(TickLater)
  /\ WF_vars(Recover)

FairSpec == Spec /\ Fairness

-----------------------------------------------------------------------------
(* Properties. *)
Docs == [status : {"absent", "installing", "running", "stopped", "error"},
         current : Releases \cup {NoRelease}, version : Releases \cup {NoRelease}]
ReleaseStates == {"none", "creating", "active", "stopped"}

(* The types of the variables, and the lock is held by a call or a job that *)
(* is at a stage where the code runs under it.                              *)
TypeOK ==
  /\ listed \in BOOLEAN /\ deployment \in Docs /\ meta \in Docs
  /\ release \in [Releases -> ReleaseStates] /\ stored \in [Releases -> ReleaseStates]
  /\ pointer \in Releases \cup {NoRelease} /\ staged \subseteq Releases /\ runtime \in BOOLEAN
  /\ snapshot \in [Releases -> Releases \cup {NoRelease, "missing"}]
  /\ containers \in Releases \cup {NoRelease} /\ data \in Releases \cup {NoRelease}
  /\ holder \in {<<>>} \cup ({"call", "job"} \X Calls)
  /\ \A j \in Calls : holder = <<"job", j>> <=> job[j].at \notin Finished \cup {"queued"}
  /\ holder = <<>> => waiting = <<>>

Lock == INSTANCE LifecycleLock
          WITH Deployments <- {"this"}, Jobs <- Calls, Callers <- Calls,
               owners <- [d \in {"this"} |-> IF holder = <<>> THEN {} ELSE {holder}],
               line <- [d \in {"this"} |-> waiting]

(* Calls and jobs share the lock of their deployment as the job service     *)
(* hands it out (JobQueue!ImplementsLock): the state machine here assumes   *)
(* of it what JobQueue has been shown to give.                              *)
SharesLock == Lock!Spec

(* The data root is replaced or removed only while no container of the app  *)
(* is up; otherwise the one who changes it is the app that has just come up.*)
(* (restoreAppDataSnapshot, performDelete, the F09 and F10 comments.)       *)
DataTouchedOnlyWhileDown ==
  [][data' # data => containers = NoRelease \/ data' = containers']_vars

ComesUp(j) == job[j].at = "upping" /\ job'[j].at = "reporting"

(* A deploy or rollback job that succeeds has brought up the release it was *)
(* created for (assertNotBusy, and the target guard of runLifecycleJob).    *)
JobBringsUpItsTarget ==
  [][\A j \in Calls : ComesUp(j) /\ job[j].goal # NoRelease => containers' = job[j].goal]_vars

(* A data-aware rollback that succeeds boots its release on the data its    *)
(* snapshot holds: it never succeeds without a snapshot, and nothing comes  *)
(* between the restore and the start.                                       *)
RollbackRestores ==
  [][\A j \in Calls :
       ComesUp(j) /\ job[j].act = "rollback" /\ job[j].restore =>
         /\ snapshot[job[j].goal] # "missing"
         /\ snapshot[job[j].goal] # NoRelease => data = snapshot[job[j].goal]]_vars

OneActive ==
  /\ pointer = deployment.current /\ stored = release
  /\ \A r \in Releases : release[r] = "active" <=> r = deployment.current

(* Between calls exactly one release of a deployment that has one is        *)
(* active, in memory, in its file and in the pointer (promoteRelease); and  *)
(* a pre-upgrade snapshot is filed under the release being replaced.        *)
PromotionConsistent ==
  [][/\ (NoCallUnderWay /\ listed => OneActive)'
     /\ \A c \in Calls : snapshot' # snapshot /\ call[c].at = "capturing" /\ call'[c].at # "capturing"
          => call[c].old = deployment.current]_vars

(* Once calls and jobs are through, a deployment that says running has its  *)
(* containers up and one that says stopped has none; and once a job has     *)
(* been executed, it does not go on installing.                             *)
TruthfulStatus ==
  NoCallUnderWay /\ NoJobUnderWay /\ listed =>
    /\ deployment.status = "running" => containers # NoRelease
    /\ deployment.status = "stopped" => containers = NoRelease
    /\ (\E j \in Calls : job[j].at \in {"completed", "failed"}) => deployment.status # "installing"

(* An uninstalled deployment stays uninstalled, in memory and on disk.      *)
NoTombstone ==
  (\E c \in Calls : call[c].op \in Uninstalls /\ call[c].at = "returned")
    => ~listed /\ meta = Absent

PointerNamesStagedRelease ==
  pointer # NoRelease /\ faults = 0 => pointer \in staged /\ stored[pointer] # "none" /\ meta # Absent

(* The release a restart will make active has its record, its metadata and  *)
(* its compose file on disk, at every moment; and a restart between calls   *)
(* brings back the deployment, its active release and its history.  (Unless *)
(* a write had failed: a rollback may then name the release that write left *)
(* half made.)                                                              *)
RestartLosesNothing ==
  [][/\ PointerNamesStagedRelease'
     /\ crashes' # crashes /\ faults = 0 /\ NoCallUnderWay /\ listed =>
          listed' /\ deployment'.current = deployment.current /\ release' = release]_vars

(* Nobody waits for ever: every call returns and every queued job ends,     *)
(* across a restart.                                                        *)
EverythingEnds ==
  \A c \in Calls : /\ call[c].at \notin Settled ~> call[c].at \in Settled
                   /\ job[c].at = "queued" ~> job[c].at \in Finished
=============================================================================
