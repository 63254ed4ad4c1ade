------------------------------ MODULE DataPush ------------------------------
(***************************************************************************)
(* hola app data push (packages/cli/src/commands/deployments/data-push.ts) *)
(* moves a local directory into an app's data.  The server stops and       *)
(* starts the app as jobs, which the command watches by polling, and runs  *)
(* the app's hook; the bytes go over SSH, past the server.  Meanwhile      *)
(* others may act on the same deployment, requests and commands fail, the  *)
(* server restarts, and the command itself may be killed.                  *)
(*                                                                         *)
(* The jobs of one deployment run one at a time, in order (JobQueue).      *)
(***************************************************************************)
EXTENDS Naturals

CONSTANTS
  MaxMeddling,    \* bound on what others do to the deployment and its jobs
  MaxTroubles     \* bound on requests, jobs and commands that fail

Settled == {"completed", "failed", "cancelled"}
Jobs    == {"stop", "start"}

VARIABLES
  target,     \* the declared target: whether it stops the app, and has a hook
  app,        \* whether the deployment is there, and its containers are up
  was,        \* whether they were when the push began
  job,        \* the status of the rows of the push's jobs, "none" without a row
  push,       \* the command
  data,       \* what lies in the target, whose it is, whether the hook saw it
  meddled,    \* others have acted on the app or on the jobs
  others, troubles

vars == <<target, app, was, job, push, data, meddled, others, troubles>>

Init ==
  /\ target \in [stop : BOOLEAN, hook : BOOLEAN]
  /\ \E up \in BOOLEAN : app = [there |-> TRUE, up |-> up] /\ was = up
  /\ job = [j \in Jobs |-> "none"]
  /\ push = [at |-> "begin", quiesced |-> FALSE, exit |-> 0, complained |-> FALSE, lost |-> FALSE]
  /\ data = [bytes |-> "old", owned |-> {"directory", "files"}, seen |-> FALSE]
  /\ meddled = FALSE /\ others = 0 /\ troubles = 0

Trouble == troubles < MaxTroubles /\ troubles' = troubles + 1

(* The answer of a request, and of none: the server refuses or is not there.*)
Answers(outcome, failure) ==
  \/ app.there /\ outcome /\ UNCHANGED troubles
  \/ ~app.there /\ failure /\ UNCHANGED <<job, troubles>>
  \/ Trouble /\ failure /\ UNCHANGED job

(* An exception: the command goes on with its finally.                      *)
Throws == push' = [push EXCEPT !.at = "finally", !.exit = 1]

-----------------------------------------------------------------------------
(* The targets are listed and a mirror push is confirmed; the directory's   *)
(* owner can be read.                                                       *)
Begin ==
  /\ push.at = "begin"
  /\ was' = app.up
  /\ \/ app.there /\ push' = [push EXCEPT !.at = IF target.stop THEN "stop" ELSE "transfer"]
        /\ UNCHANGED troubles
     \/ ~app.there /\ Throws /\ UNCHANGED troubles
     \/ Trouble /\ Throws
  /\ UNCHANGED <<target, app, job, data, meddled, others>>

(* Mutant: the app is taken to be stopped only once its job was seen to end.*)
OnceStopped(p) == p

(* What the command knows when the stop has been asked for.                 *)
Asked(p) == [p EXCEPT !.quiesced = TRUE]

(* POST actions/stop, whose answer may be lost though the job is queued.    *)
Stop ==
  /\ push.at = "stop"
  /\ \/ Answers(/\ job' = [job EXCEPT !["stop"] = "pending"]
                /\ push' = [Asked(push) EXCEPT !.at = "watch-stop"], Throws)
     \/ /\ app.there /\ Trouble
        /\ job' = [job EXCEPT !["stop"] = "pending"]
        /\ push' = [push EXCEPT !.at = "finally", !.exit = 1, !.lost = TRUE]
  /\ UNCHANGED <<target, app, was, data, meddled, others>>

(* Mutant: a job that has been started is as good as done.                  *)
NoLongerPending(status) == status \in {"running", "completed", "failed"}

(* What watchJob takes for the end of a job.                                *)
Ended(status) == status \in {"completed", "failed"}

(* watchJob, whose result neither of its callers here looks at. It polls a  *)
(* cancelled job for ever, and throws when the row is gone.                 *)
Watch(j, at, ended, gone) ==
  /\ push.at = at
  /\ \/ Ended(job[j]) /\ ended /\ UNCHANGED troubles
     \/ job[j] = "none" /\ gone /\ UNCHANGED troubles
     \/ Trouble /\ gone
  /\ UNCHANGED <<target, app, was, job, data, meddled, others>>

WatchStop == Watch("stop", "watch-stop",
  push' = [push EXCEPT !.at = "transfer", !.quiesced = TRUE], Throws)

(* rsync begins, and ends or fails half way. As root with -a it sets the    *)
(* owners to the sender's, which may or may not be the app's.               *)
Transfer ==
  /\ push.at = "transfer"
  /\ push' = [push EXCEPT !.at = "moving"]
  /\ data' = [data EXCEPT !.bytes = "part"]
  /\ UNCHANGED <<target, app, was, job, meddled, others, troubles>>

Transferred ==
  /\ push.at = "moving"
  /\ \/ /\ \E owned \in {{}, {"directory"}, {"directory", "files"}} :
             data' = [data EXCEPT !.bytes = "new", !.owned = owned]
        /\ push' = [push EXCEPT !.at = "chown"] /\ UNCHANGED troubles
     \/ Trouble /\ Throws /\ UNCHANGED data
  /\ UNCHANGED <<target, app, was, job, meddled, others>>

(* Mutant: a chown that fails is noted, whatever it has left.               *)
NeverWrong(owned) == TRUE

(* What the second look at the owner makes of it, if it can read it: it     *)
(* looks at the directory alone, and chown -R may have got no further.      *)
StillOwned(owned) == "directory" \in owned

Chown ==
  /\ push.at = "chown"
  /\ LET next == IF target.hook THEN "hook" ELSE "finally" IN
     \/ /\ data' = [data EXCEPT !.owned = {"directory", "files"}]
        /\ push' = [push EXCEPT !.at = next] /\ UNCHANGED troubles
     \/ /\ Trouble
        /\ \E owned \in {data.owned, data.owned \cup {"directory"}}, read \in BOOLEAN :
             /\ data' = [data EXCEPT !.owned = owned]
             /\ push' = [push EXCEPT !.at = next,
                                     !.exit = IF read /\ StillOwned(owned) THEN @ ELSE 1]
  /\ UNCHANGED <<target, app, was, job, meddled, others>>

(* POST push-hooks: the hook runs in the app's containers, so it fails when *)
(* they are down; its failure is reported, an error of the request thrown.  *)
Hook ==
  /\ push.at = "hook"
  /\ \/ /\ app.there /\ app.up
        /\ data' = [data EXCEPT !.seen = TRUE]
        /\ \/ push' = [push EXCEPT !.at = "finally"] /\ UNCHANGED troubles
           \/ Trouble /\ Throws
     \/ /\ ~app.up /\ UNCHANGED <<data, troubles>> /\ Throws
     \/ /\ Trouble /\ UNCHANGED data /\ Throws
  /\ UNCHANGED <<target, app, was, job, meddled, others>>

(* The finally: an app that was asked to stop is started again.             *)
StartAgain ==
  /\ push.at = "finally"
  /\ IF push.quiesced
     THEN LET complains == push' = [push EXCEPT !.at = "ended", !.exit = 1, !.complained = TRUE]
          IN  Answers(/\ job' = [job EXCEPT !["start"] = "pending"]
                      /\ push' = [push EXCEPT !.at = "watch-start"], complains)
     ELSE push' = [push EXCEPT !.at = "ended"] /\ UNCHANGED <<job, troubles>>
  /\ UNCHANGED <<target, app, was, data, meddled, others>>

WatchStart == Watch("start", "watch-start",
  push' = [push EXCEPT !.at = "ended"],
  push' = [push EXCEPT !.at = "ended", !.exit = 1, !.complained = TRUE])

(* The process is killed: no finally runs.                                  *)
Killed ==
  /\ push.at \notin {"ended", "killed"}
  /\ Trouble
  /\ push' = [push EXCEPT !.at = "killed", !.exit = 1]
  /\ UNCHANGED <<target, app, was, job, data, meddled, others>>

-----------------------------------------------------------------------------
(* The job service: a job starts when none of its deployment runs and none  *)
(* is before it.                                                            *)
JobStarts(j) ==
  /\ job[j] = "pending" /\ "running" \notin {job[k] : k \in Jobs}
  /\ j = "start" => job["stop"] # "pending"
  /\ job' = [job EXCEPT ![j] = "running"]
  /\ UNCHANGED <<target, app, was, push, data, meddled, others, troubles>>

(* A compose call that fails may have done its work or not.                 *)
JobEnds(j) ==
  /\ job[j] = "running"
  /\ LET up == j = "start" IN
     \/ app' = [app EXCEPT !.up = up] /\ UNCHANGED troubles
        /\ job' = [job EXCEPT ![j] = "completed"]
     \/ Trouble /\ app' \in {app, [app EXCEPT !.up = up]}
        /\ job' = [job EXCEPT ![j] = "failed"]
  /\ UNCHANGED <<target, was, push, data, meddled, others>>

(* A restart fails the job that ran; what is pending is resumed.            *)
Crash ==
  /\ Trouble
  /\ \E j \in Jobs : job[j] = "running" /\ job' = [job EXCEPT ![j] = "failed"]
  /\ UNCHANGED <<target, app, was, push, data, meddled, others>>

(* Others start or stop the app; cancel a job that waits, or a start before *)
(* its compose up; clear the jobs that are over; or uninstall the app, which *)
(* cancels the jobs that wait.                                              *)
Meddle ==
  /\ push.at # "ended" /\ app.there
  /\ others < MaxMeddling /\ others' = others + 1 /\ meddled' = TRUE
  /\ LET idle    == "running" \notin {job[k] : k \in Jobs}
         turn(from, to) == [j \in Jobs |-> IF job[j] \in from THEN to ELSE job[j]]
     IN  \/ idle /\ app' = [app EXCEPT !.up = ~@] /\ UNCHANGED job
         \/ /\ UNCHANGED app
            /\ \E j \in Jobs :
                 /\ job[j] \in {"pending"} \cup (IF j = "start" THEN {"running"} ELSE {})
                 /\ job' = [job EXCEPT ![j] = "cancelled"]
         \/ job' = turn(Settled, "none") /\ UNCHANGED app
         \/ /\ idle /\ app' = [there |-> FALSE, up |-> FALSE]
            /\ job' = turn({"pending"}, "cancelled")
  /\ UNCHANGED <<target, was, push, data, troubles>>

Next ==
  \/ Begin \/ Stop \/ WatchStop \/ Transfer \/ Transferred \/ Chown \/ Hook
  \/ StartAgain \/ WatchStart \/ Killed
  \/ \E j \in Jobs : JobStarts(j) \/ JobEnds(j)
  \/ Crash \/ Meddle

Spec == Init /\ [][Next]_vars

-----------------------------------------------------------------------------
(* Types of the variables.                                                  *)
Pushes == [at : {"begin", "stop", "watch-stop", "transfer", "moving", "chown", "hook", "finally",
                 "watch-start", "ended", "killed"},
           quiesced : BOOLEAN, exit : {0, 1}, complained : BOOLEAN, lost : BOOLEAN]
Datas  == [bytes : {"old", "part", "new"}, owned : SUBSET {"directory", "files"}, seen : BOOLEAN]

Shapes ==
  /\ target \in [stop : BOOLEAN, hook : BOOLEAN] /\ app \in [there : BOOLEAN, up : BOOLEAN]
  /\ job \in [Jobs -> Settled \cup {"none", "pending", "running"}]
  /\ push \in Pushes /\ data \in Datas
  /\ was \in BOOLEAN /\ meddled \in BOOLEAN

TypeOK == Shapes /\ others \in 0..MaxMeddling /\ troubles \in 0..MaxTroubles

(* A target that wants the app stopped is written while it is down, unless  *)
(* the stop failed, which the command does not look at, or others started it.*)
StoppedMeanwhile ==
  push.at = "moving" /\ target.stop => ~app.up \/ job["stop"] = "failed" \/ meddled

(* When all is over the app is up if it was, unless the start failed or the *)
(* command said so, was killed, never learned that its stop was queued, or  *)
(* others acted on the app or its jobs.                                     *)
NotLeftDown ==
  push.at = "ended" /\ was /\ (\A j \in Jobs : job[j] \in Settled \cup {"none"}) =>
    app.up \/ job["start"] = "failed" \/ push.complained \/ push.lost \/ meddled

(* A push that reports no error has moved everything, to a directory that   *)
(* is the app's own, and the hook has seen it.                              *)
SuccessMeansDone ==
  push.at = "ended" /\ push.exit = 0 =>
    data.bytes = "new" /\ "directory" \in data.owned /\ (target.hook => data.seen)

(* The invariant behind them, in its parts: how far the command is, and its *)
(* jobs.                                                                    *)
JobsFollow ==
  /\ push.at \in {"begin", "stop"} => job["stop"] = "none"
  /\ push.quiesced => job["stop"] # "none"
  /\ job["stop"] # "none" => push.quiesced \/ push.lost
  /\ push.at \in {"transfer", "moving"} /\ target.stop => job["stop"] \in {"completed", "failed"}
  /\ job["start"] # "none" => push.quiesced /\ push.at \in {"watch-start", "ended", "killed"}
  /\ push.at = "watch-start" => push.quiesced
  /\ push.at = "ended" /\ push.quiesced /\ ~push.complained =>
       job["start"] \in {"completed", "failed"}
  /\ job["start"] \in {"running", "completed", "failed"} => job["stop"] \in {"completed", "failed"}
  /\ "cancelled" \notin {job[j] : j \in Jobs}

(* Whether the containers are up.                                           *)
AppFollows ==
  /\ app.there
  /\ job["stop"] = "none" => app.up = was
  /\ job["stop"] = "completed" /\ job["start"] \in {"none", "pending", "running"} => ~app.up
  /\ job["start"] = "completed" => app.up

(* What a push that has met no error has done.                              *)
DoneSoFar ==
  /\ push.at \in {"chown", "hook", "finally", "watch-start", "ended"} => data.bytes = "new"
  /\ push.at \in {"hook", "finally", "watch-start", "ended"} => "directory" \in data.owned
  /\ push.at \in {"finally", "watch-start", "ended"} /\ target.hook => data.seen

PushInv ==
  /\ Shapes
  /\ ~meddled => JobsFollow /\ AppFollows
  /\ push.exit = 0 => DoneSoFar /\ push.at # "killed"
=============================================================================
