--------------------------- MODULE RestoreOnInstall ---------------------------
(***************************************************************************)
(* An app installed from a capture of another install's data: the deploy   *)
(* job that restores it before the app starts for the first time, the jobs *)
(* and calls an operator may send around it, and the source it captures    *)
(* (performRestoreOnInstall and runLifecycleJob,                           *)
(* packages/server/src/services/core/deployment.ts).                       *)
(*                                                                         *)
(* The lifecycle lock gives the target one job at a time.  The source's    *)
(* lock is not taken: the source goes on living while it is captured.      *)
(***************************************************************************)
EXTENDS Naturals

CONSTANTS
  MaxJobs,      \* bound on the jobs of the target
  MaxTroubles   \* bound on steps that fail, restarts and changes of the source

Actions == {"start", "restart", "stop"}   \* the deploy job runs as a start

VARIABLES
  record,    \* the target's record: what of it steers a restore
  saved,     \* the same on disk
  root,      \* the target's data root, markers aside
  app,       \* the target's containers
  job,
  source,    \* the source deployment: its status, and whether its dump lies there
  jobs, troubles,
  excused    \* a postHook failed, or the server stopped while the source was prepared

vars == <<record, saved, root, app, job, source, jobs, troubles, excused>>

(* The root: nothing; part of a payload; the payload; the payload with all  *)
(* its restore steps done; what an app wrote that started on no payload.    *)
Roots  == {"empty", "part", "payload", "restored", "own"}
NoJob  == [at |-> "idle", act |-> "none", refusal |-> "none"]

Init ==
  /\ record = [status |-> "installing", started |-> FALSE, restored |-> FALSE, promoted |-> FALSE]
  /\ saved = record
  /\ root \in {"empty", "own"}     \* somebody may have put data there before
  /\ app = "down"
  /\ job = [NoJob EXCEPT !.at = "choosing", !.act = "start"]
  /\ source \in [status : {"running", "stopped"}, dumped : {FALSE}]
  /\ jobs = 1 /\ troubles = 0 /\ excused = FALSE

Trouble == troubles < MaxTroubles /\ troubles' = troubles + 1
GoTo(stage) == job' = [job EXCEPT !.at = stage]
Fails == Trouble /\ GoTo("failing")

(* persistDeployment writes the record, or throws.                          *)
Persist(then) ==
  \/ saved' = record' /\ GoTo(then) /\ UNCHANGED troubles
  \/ Fails /\ UNCHANGED saved

-----------------------------------------------------------------------------
(* executeAction: the job and the status it starts from, saved at once.     *)
Act(a) ==
  /\ job.at = "idle" /\ jobs < MaxJobs
  /\ jobs' = jobs + 1
  /\ record' = [record EXCEPT !.status = IF a = "stop" THEN "stopped" ELSE "installing"]
  /\ saved' = record'
  /\ job' = [at |-> "choosing", act |-> a, refusal |-> "none"]
  /\ UNCHANGED <<root, app, source, troubles, excused>>

(* promote makes another release the active one: no restore from then on.   *)
Promote ==
  /\ job.at = "idle" /\ ~record.promoted
  /\ record' = [record EXCEPT !.promoted = TRUE]
  /\ saved' = record'
  /\ UNCHANGED <<root, app, job, source, jobs, troubles, excused>>

-----------------------------------------------------------------------------
(* runLifecycleJob. *)
WillRestore == ~record.restored /\ ~record.promoted

(* A start materializes and pulls before it restores; a restart does not    *)
(* restore; a stop takes everything down.                                   *)
Choose ==
  /\ job.at = "choosing"
  /\ \/ /\ job.act = "stop"
        /\ app' = "down"
        /\ record' = [record EXCEPT !.status = "stopped"]
        /\ Persist("idle")
     \/ /\ job.act # "stop"
        /\ GoTo(IF job.act = "start" /\ WillRestore THEN "checking" ELSE "upping")
        /\ UNCHANGED <<record, saved, app, troubles>>
     \/ Fails /\ UNCHANGED <<record, saved, app>>
  /\ UNCHANGED <<root, source, jobs, excused>>

(* Mutant: the refusal is not classified. *)
Unclassified == "RESTORE_REFUSED"

(* classifyNonEmptyTarget: whose data is in the way.                        *)
Refusal == IF record.started THEN "RESTORE_INCOMPLETE" ELSE "RESTORE_TARGET_NOT_EMPTY"

CheckTarget ==
  /\ job.at = "checking"
  /\ job' = IF root = "empty" THEN [job EXCEPT !.at = "acquiring"]
            ELSE [job EXCEPT !.at = "failing", !.refusal = Refusal]
  /\ UNCHANGED <<record, saved, root, app, source, jobs, troubles, excused>>

(* checkCandidateStillEligible; only a running source has hooks to run.     *)
CheckSource ==
  /\ job.at = "acquiring"
  /\ GoTo(CASE source.status = "running" -> "quiescing"
            [] source.status = "stopped" -> "capturing"
            [] OTHER -> "failing")
  /\ UNCHANGED <<record, saved, root, app, source, jobs, troubles, excused>>

(* The preHooks: one that fails may have written a dump, and the postHooks  *)
(* of those started run at once.  A source that stopped meanwhile fails them.*)
Quiesce ==
  /\ job.at = "quiescing"
  /\ \/ /\ source.status = "running"
        /\ source' = [source EXCEPT !.dumped = TRUE]
        /\ GoTo("capturing")
        /\ UNCHANGED <<troubles, excused>>
     \/ /\ source.status = "running" /\ Trouble
        /\ source' \in {[source EXCEPT !.dumped = d] : d \in BOOLEAN}
        /\ excused' = (excused \/ source'.dumped)      \* its postHook failed too
        /\ GoTo("failing")
     \/ /\ source.status # "running"
        /\ GoTo("failing")
        /\ UNCHANGED <<source, troubles, excused>>
  /\ UNCHANGED <<record, saved, root, app, jobs>>

(* Mutant: the postHooks run only once the archive is written.              *)
CaptureCleaningOnSuccess ==
  /\ job.at = "capturing"
  /\ \/ /\ source' = [source EXCEPT !.dumped = FALSE]
        /\ GoTo("marking") /\ UNCHANGED <<troubles, excused>>
     \/ /\ Fails /\ UNCHANGED <<source, excused>>
  /\ UNCHANGED <<record, saved, root, app, jobs>>

(* The capture is archived, or is not; the postHooks run either way, and in *)
(* a source that runs no more they fail.                                    *)
Capture ==
  /\ job.at = "capturing"
  /\ \/ GoTo("marking") /\ UNCHANGED troubles
     \/ Fails
  /\ \/ /\ source.status = "running"
        /\ source' = [source EXCEPT !.dumped = FALSE]
        /\ UNCHANGED excused
     \/ /\ source.status # "running"
        /\ excused' = (excused \/ source.dumped)
        /\ UNCHANGED source
  /\ UNCHANGED <<record, saved, root, app, jobs>>

(* Mutant: markRestoreStarted leaves the flush to a later write.            *)
MarkUnsaved ==
  /\ job.at = "marking"
  /\ record' = [record EXCEPT !.started = TRUE]
  /\ GoTo("landing")
  /\ UNCHANGED <<saved, root, app, source, jobs, troubles, excused>>

(* markRestoreStarted *)
Mark ==
  /\ job.at = "marking"
  /\ record' = [record EXCEPT !.started = TRUE]
  /\ Persist("landing")
  /\ UNCHANGED <<root, app, source, jobs, excused>>

(* restoreTarGzInto, or landDirInto, which may stop half way.               *)
Land ==
  /\ job.at = "landing"
  /\ \/ root' = "payload" /\ GoTo("applying") /\ UNCHANGED troubles
     \/ root' \in {"empty", "part"} /\ Fails
  /\ UNCHANGED <<record, saved, app, source, jobs, excused>>

(* Mutant: a hook that fails does not fail the restore.                     *)
ApplyRegardless ==
  /\ job.at = "applying"
  /\ app' = "hooks" /\ record' = [record EXCEPT !.restored = TRUE] /\ GoTo("upping")
  /\ \/ root' = "restored" /\ UNCHANGED troubles
     \/ Trouble /\ UNCHANGED root
  /\ UNCHANGED <<saved, source, jobs, excused>>

(* applyRestoredPayload: discards, marker, credentials, the hook services   *)
(* and the hooks.  The first failure fails the install, and leaves what is  *)
(* there and what runs.                                                     *)
Apply ==
  /\ job.at = "applying"
  /\ \/ /\ root' = "restored" /\ app' = "hooks"
        /\ record' = [record EXCEPT !.restored = TRUE]
        /\ GoTo("upping") /\ UNCHANGED troubles
     \/ /\ app' \in {app, "hooks"} /\ Fails
        /\ UNCHANGED <<root, record>>
  /\ UNCHANGED <<saved, source, jobs, excused>>

(* The app starts, on whatever is in its root.                              *)
ComposeUp ==
  /\ job.at = "upping"
  /\ app' = "up"
  /\ root' = IF root = "empty" THEN "own" ELSE root
  /\ \/ GoTo("ending") /\ UNCHANGED troubles
     \/ Fails
  /\ UNCHANGED <<record, saved, source, jobs, excused>>

End ==
  /\ job.at = "ending"
  /\ record' = [record EXCEPT !.status = "running"]
  /\ Persist("idle")
  /\ UNCHANGED <<root, app, source, jobs, excused>>

(* The catch of runLifecycleJob; its own write may throw as well.           *)
Fail ==
  /\ job.at = "failing"
  /\ record' = [record EXCEPT !.status = "error"]
  /\ \/ saved' = record' /\ UNCHANGED troubles
     \/ Trouble /\ UNCHANGED saved
  /\ GoTo("idle")
  /\ UNCHANGED <<root, app, source, jobs, excused>>

-----------------------------------------------------------------------------
(* The source's own life: its jobs, its uninstall.                          *)
SourceMoves(s) ==
  /\ source.status \notin {s, "gone"}
  /\ Trouble
  /\ source' = [status |-> s, dumped |-> source.dumped /\ s # "gone"]
  /\ UNCHANGED <<record, saved, root, app, job, jobs, excused>>

(* The server stops and starts again; containers go on running.             *)
Crash ==
  /\ Trouble
  /\ record' = saved
  /\ root' \in IF job.at = "landing" THEN {"empty", "part", "payload"} ELSE {root}
  /\ job' = NoJob
  /\ excused' = (excused \/ source.dumped)
  /\ UNCHANGED <<saved, app, source, jobs>>

JobStep ==
  \/ Choose \/ CheckTarget \/ CheckSource \/ Quiesce \/ Capture \/ Mark
  \/ Land \/ Apply \/ ComposeUp \/ End \/ Fail

Next ==
  \/ JobStep \/ Promote \/ Crash
  \/ \E a \in Actions : Act(a)
  \/ \E s \in {"running", "stopped", "changing", "gone"} : SourceMoves(s)

Spec == Init /\ [][Next]_vars

(* A job that runs goes on. *)
Fairness == WF_vars(JobStep)

FairSpec == Spec /\ Fairness

-----------------------------------------------------------------------------
(* Types of the variables of a restored install. *)
Records == [status : {"installing", "running", "stopped", "error"},
            started : BOOLEAN, restored : BOOLEAN, promoted : BOOLEAN]
Stages  == {"idle", "choosing", "checking", "acquiring", "quiescing", "capturing", "marking",
            "landing", "applying", "upping", "ending", "failing"}
Shapes ==
  /\ record \in Records /\ saved \in Records /\ root \in Roots
  /\ job \in [at : Stages, act : Actions \cup {"none"},
              refusal : {"none", "RESTORE_INCOMPLETE", "RESTORE_TARGET_NOT_EMPTY"}]
TypeOK ==
  /\ Shapes
  /\ app \in {"down", "hooks", "up"}
  /\ source \in [status : {"running", "stopped", "changing", "gone"}, dumped : BOOLEAN]
  /\ jobs \in 0..MaxJobs /\ troubles \in 0..MaxTroubles /\ excused \in BOOLEAN

(* However often an install that restores is tried again, and whatever      *)
(* failed or was lost in a restart before, its start jobs bring the app up  *)
(* only on a root that was restored completely (FR-022); and a refusal that *)
(* blames somebody else's data is right: nothing of this install's own      *)
(* restore lies in the root.                                                *)
StartRestored == ComposeUp /\ job.act = "start" /\ ~record.promoted => root = "restored"
RefusalRight ==
  job.refusal = "RESTORE_TARGET_NOT_EMPTY" => root \notin {"part", "payload", "restored"}

StartsRestored == [][StartRestored /\ RefusalRight']_vars

-----------------------------------------------------------------------------
(* The inductive invariant of StartsRestored.                               *)

(* A record that says so, in memory or on disk, is of a restored root.      *)
RecordsTrue == record.restored \/ saved.restored => root = "restored"

(* What lands is recorded first: where something of the payload may lie, a  *)
(* server that starts again knows that it is this install's own.            *)
OwnLeftovers == {"part", "payload", "restored"}
KnownAsOwn ==
  root \in OwnLeftovers \/ job.at = "landing" => record.started /\ saved.started

(* What a job finds in the root at its stages: a restore begins in an empty *)
(* one, and the app of a restoring start comes up on a restored one.        *)
AtItsStage ==
  /\ job.at \in {"acquiring", "quiescing", "capturing", "marking", "landing"} => root = "empty"
  /\ job.at = "applying" => root = "payload"
  /\ job.at = "upping" /\ job.act = "start" /\ ~record.promoted => root = "restored"

(* A job that is refused ends, and what it was refused for stays as it was. *)
RefusedEnds == job.refusal # "none" => job.at \in {"failing", "idle"}

InstallInv == Shapes /\ RecordsTrue /\ KnownAsOwn /\ AtItsStage /\ RefusedEnds /\ RefusalRight

(* The source does not stay prepared: its dump is removed again, unless a   *)
(* postHook could not run or the server stopped.                            *)
Prepared == source.dumped
Excused  == excused

SourceReleased == Prepared ~> (~Prepared \/ Excused)
=============================================================================
