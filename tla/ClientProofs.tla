---------------------------- MODULE ClientProofs ----------------------------
(***************************************************************************)
(* The theorems of those components of MCServices that belong to the web   *)
(* client and the command line, for any values of its constants: a push of *)
(* data, the commands on the host, the page of the dashboard and the       *)
(* wizard.  Each has the inductive invariant of its module, which promises *)
(* nothing while another component runs, and its proof under the names the *)
(* component gives its variables.                                          *)
(***************************************************************************)
EXTENDS MCServices, Integers, Sequences, TLAPS

-----------------------------------------------------------------------------
(* The inductive invariant of a push, while it runs.                        *)
PushesInv == which = "push" => X!PushInv

(* It holds at first.                                                       *)
LEMMA InitPush == Init => PushesInv
<1> SUFFICES ASSUME X!Init PROVE X!PushInv
  BY Zenon DEF Init, PushesInv
<1>1. X!Shapes
  <2>1. PICK up \in BOOLEAN : v2 = [there |-> TRUE, up |-> up] /\ v3 = up
    BY DEF X!Init
  <2>2. v4 \in [X!Jobs -> X!Settled \cup {"none", "pending", "running"}]
    BY DEF X!Init
  <2>3. v6 \in X!Datas
    BY DEF X!Init, X!Datas
  <2>4. v5 \in X!Pushes
    BY DEF X!Init, X!Pushes
  <2> QED
    BY <2>1, <2>2, <2>3, <2>4 DEF X!Init, X!Shapes
<1>2. X!JobsFollow
  BY DEF X!Init, X!JobsFollow, X!Jobs
<1>3. X!AppFollows
  BY DEF X!Init, X!AppFollows, X!Jobs
<1>4. X!DoneSoFar /\ v5.at # "killed"
  BY DEF X!Init, X!DoneSoFar
<1> QED
  BY <1>1, <1>2, <1>3, <1>4 DEF X!PushInv

(* Every step of the command, of the server and of others keeps it.         *)
LEMMA PushSteps == ASSUME X!PushInv, X!Next PROVE X!PushInv'
<1> DEFINE target == v1  app == v2  was == v3  job == v4  push == v5  data == v6  meddled == v7
<1>0. X!PushInv /\ X!Shapes /\ push \in X!Pushes
  BY DEF X!PushInv, X!Shapes
<1>1. CASE X!Begin
  <2>1. /\ push.at = "begin" /\ push' \in X!Pushes
        /\ push'.quiesced = push.quiesced /\ push'.complained = push.complained /\ push'.lost = push.lost
        /\ \/ push'.at = "finally" /\ push'.exit = 1
           \/ push'.at = "stop" /\ push'.exit = push.exit
           \/ push'.at = "transfer" /\ ~target.stop /\ push'.exit = push.exit
        /\ UNCHANGED <<target, app, job, data, meddled>> /\ was' = app.up
    BY <1>0, <1>1 DEF X!Begin, X!Throws, X!Pushes, X!Shapes
  <2>2. X!Shapes'
    BY <1>0, <2>1 DEF X!Shapes, X!Jobs, X!Settled, X!Pushes, X!Datas
  <2>3. ~meddled' => X!JobsFollow'
    BY <1>0, <2>1 DEF X!PushInv, X!Shapes, X!JobsFollow, X!Jobs
  <2>4. ~meddled' => X!AppFollows'
    BY <1>0, <2>1 DEF X!PushInv, X!Shapes, X!JobsFollow, X!AppFollows, X!Jobs
  <2>5. push'.exit = 0 => X!DoneSoFar' /\ push'.at # "killed"
    BY <1>0, <2>1 DEF X!PushInv, X!DoneSoFar
  <2> QED
    BY <2>2, <2>3, <2>4, <2>5 DEF X!PushInv
<1>2. CASE X!Stop
  <2>1. /\ push.at = "stop" /\ push' \in X!Pushes /\ push'.complained = push.complained
        /\ \/ /\ job' = [job EXCEPT !["stop"] = "pending"] /\ push'.at = "watch-stop" /\ push'.quiesced
              /\ push'.exit = push.exit /\ push'.lost = push.lost
           \/ /\ push'.at = "finally" /\ push'.exit = 1 /\ push'.quiesced = push.quiesced
              /\ \/ job' = job /\ push'.lost = push.lost
                 \/ job' = [job EXCEPT !["stop"] = "pending"] /\ push'.lost
        /\ UNCHANGED <<target, app, was, data, meddled>>
    BY <1>0, <1>2 DEF X!Stop, X!Answers, X!Asked, X!Throws, X!Pushes, X!Shapes
  <2>2. X!Shapes'
    BY <1>0, <2>1 DEF X!Shapes, X!Jobs, X!Settled, X!Pushes, X!Datas
  <2>3. ~meddled' => X!JobsFollow'
    BY <1>0, <2>1 DEF X!PushInv, X!Shapes, X!JobsFollow, X!Jobs
  <2>4. ~meddled' => X!AppFollows'
    BY <1>0, <2>1 DEF X!PushInv, X!Shapes, X!JobsFollow, X!AppFollows, X!Jobs
  <2>5. push'.exit = 0 => X!DoneSoFar' /\ push'.at # "killed"
    BY <1>0, <2>1 DEF X!PushInv, X!DoneSoFar
  <2> QED
    BY <2>2, <2>3, <2>4, <2>5 DEF X!PushInv
<1>3. CASE X!WatchStop
  <2>1. /\ push.at = "watch-stop" /\ push' \in X!Pushes
        /\ push'.complained = push.complained /\ push'.lost = push.lost
        /\ \/ /\ job["stop"] \in {"completed", "failed"} /\ push'.at = "transfer"
              /\ push'.quiesced /\ push'.exit = push.exit
           \/ push'.at = "finally" /\ push'.exit = 1 /\ push'.quiesced = push.quiesced
        /\ UNCHANGED <<target, app, was, data, meddled>> /\ job' = job
    BY <1>0, <1>3 DEF X!WatchStop, X!Watch, X!Ended, X!Throws, X!Pushes, X!Shapes
  <2>2. X!Shapes'
    BY <1>0, <2>1 DEF X!Shapes, X!Jobs, X!Settled, X!Pushes, X!Datas
  <2>3. ~meddled' => X!JobsFollow'
    BY <1>0, <2>1 DEF X!PushInv, X!Shapes, X!JobsFollow, X!Jobs
  <2>4. ~meddled' => X!AppFollows'
    BY <1>0, <2>1 DEF X!PushInv, X!Shapes, X!JobsFollow, X!AppFollows, X!Jobs
  <2>5. push'.exit = 0 => X!DoneSoFar' /\ push'.at # "killed"
    BY <1>0, <2>1 DEF X!PushInv, X!DoneSoFar
  <2> QED
    BY <2>2, <2>3, <2>4, <2>5 DEF X!PushInv
<1>4. CASE X!Transfer
  <2>1. /\ push.at = "transfer" /\ push' \in X!Pushes /\ push'.at = "moving"
        /\ push'.quiesced = push.quiesced /\ push'.complained = push.complained /\ push'.lost = push.lost
        /\ push'.exit = push.exit /\ data' \in X!Datas
        /\ UNCHANGED <<target, app, was, job, meddled>>
    BY <1>0, <1>4 DEF X!Transfer, X!Pushes, X!Datas, X!Shapes
  <2>2. X!Shapes'
    BY <1>0, <2>1 DEF X!Shapes, X!Jobs, X!Settled, X!Pushes, X!Datas
  <2>3. ~meddled' => X!JobsFollow'
    BY <1>0, <2>1 DEF X!PushInv, X!Shapes, X!JobsFollow, X!Jobs
  <2>4. ~meddled' => X!AppFollows'
    BY <1>0, <2>1 DEF X!PushInv, X!Shapes, X!JobsFollow, X!AppFollows, X!Jobs
  <2>5. push'.exit = 0 => X!DoneSoFar' /\ push'.at # "killed"
    BY <1>0, <2>1 DEF X!PushInv, X!DoneSoFar
  <2> QED
    BY <2>2, <2>3, <2>4, <2>5 DEF X!PushInv
<1>5. CASE X!Transferred
  <2>1. /\ push.at = "moving" /\ push' \in X!Pushes /\ data' \in X!Datas
        /\ push'.quiesced = push.quiesced /\ push'.complained = push.complained /\ push'.lost = push.lost
        /\ \/ push'.at = "chown" /\ push'.exit = push.exit /\ data'.bytes = "new"
           \/ push'.at = "finally" /\ push'.exit = 1
        /\ UNCHANGED <<target, app, was, job, meddled>>
    <3>1. CASE push' = [push EXCEPT !.at = "chown"]
      <4>1. PICK owned \in {{}, {"directory"}, {"directory", "files"}} :
              data' = [data EXCEPT !.bytes = "new", !.owned = owned]
        BY <1>0, <1>5, <3>1 DEF X!Transferred, X!Throws, X!Pushes
      <4>2. data \in X!Datas /\ owned \in SUBSET {"directory", "files"}
        BY <1>0 DEF X!Shapes
      <4> QED
        BY <1>0, <1>5, <3>1, <4>1, <4>2 DEF X!Transferred, X!Pushes, X!Datas
    <3>2. CASE X!Throws /\ data' = data
      BY <1>0, <1>5, <3>2 DEF X!Transferred, X!Throws, X!Pushes, X!Shapes
    <3> QED
      BY <1>5, <3>1, <3>2 DEF X!Transferred
  <2>2. X!Shapes'
    BY <1>0, <2>1 DEF X!Shapes, X!Jobs, X!Settled, X!Pushes, X!Datas
  <2>3. ~meddled' => X!JobsFollow'
    BY <1>0, <2>1 DEF X!PushInv, X!Shapes, X!JobsFollow, X!Jobs
  <2>4. ~meddled' => X!AppFollows'
    BY <1>0, <2>1 DEF X!PushInv, X!Shapes, X!JobsFollow, X!AppFollows, X!Jobs
  <2>5. push'.exit = 0 => X!DoneSoFar' /\ push'.at # "killed"
    BY <1>0, <2>1 DEF X!PushInv, X!DoneSoFar
  <2> QED
    BY <2>2, <2>3, <2>4, <2>5 DEF X!PushInv
<1>6. CASE X!Chown
  <2>1. /\ push.at = "chown" /\ push' \in X!Pushes /\ data' \in X!Datas
        /\ push'.quiesced = push.quiesced /\ push'.complained = push.complained /\ push'.lost = push.lost
        /\ push'.at = (IF target.hook THEN "hook" ELSE "finally") /\ data'.bytes = data.bytes
        /\ push'.exit = 1 \/ (push'.exit = push.exit /\ "directory" \in data'.owned)
        /\ UNCHANGED <<target, app, was, job, meddled>>
    <3>1. PICK owned \in SUBSET {"directory", "files"}, exit \in {push.exit, 1} :
            /\ data' = [data EXCEPT !.owned = owned]
            /\ push' = [push EXCEPT !.at = IF target.hook THEN "hook" ELSE "finally", !.exit = exit]
            /\ exit = 1 \/ "directory" \in owned
      <4>1. data \in X!Datas /\ data.owned \in SUBSET {"directory", "files"}
        BY <1>0 DEF X!Shapes, X!Datas
      <4>2. CASE /\ data' = [data EXCEPT !.owned = {"directory", "files"}]
                 /\ push' = [push EXCEPT !.at = IF target.hook THEN "hook" ELSE "finally"]
        <5>1. push' = [push EXCEPT !.at = IF target.hook THEN "hook" ELSE "finally", !.exit = push.exit]
          BY <1>0, <4>2 DEF X!Pushes
        <5> QED
          BY <4>2, <5>1
      <4>3. ASSUME NEW owned \in {data.owned, data.owned \cup {"directory"}}, NEW read \in BOOLEAN,
                   data' = [data EXCEPT !.owned = owned],
                   push' = [push EXCEPT !.at = IF target.hook THEN "hook" ELSE "finally",
                                        !.exit = IF read /\ X!StillOwned(owned) THEN push.exit ELSE 1]
            PROVE  \E o \in SUBSET {"directory", "files"}, exit \in {push.exit, 1} :
                     /\ data' = [data EXCEPT !.owned = o]
                     /\ push' = [push EXCEPT !.at = IF target.hook THEN "hook" ELSE "finally", !.exit = exit]
                     /\ exit = 1 \/ "directory" \in o
        <5>1. owned \in SUBSET {"directory", "files"}
          BY <4>1, <4>3
        <5>2. CASE read /\ X!StillOwned(owned)
          BY <4>3, <5>1, <5>2 DEF X!StillOwned
        <5>3. CASE ~(read /\ X!StillOwned(owned))
          BY <4>3, <5>1, <5>3
        <5> QED
          BY <5>2, <5>3
      <4> QED
        BY <1>6, <4>2, <4>3 DEF X!Chown
    <3> QED
      BY <1>0, <1>6, <3>1 DEF X!Chown, X!Pushes, X!Datas, X!Shapes
  <2>2. X!Shapes'
    BY <1>0, <2>1 DEF X!Shapes, X!Jobs, X!Settled, X!Pushes, X!Datas
  <2>3. ~meddled' => X!JobsFollow'
    BY <1>0, <2>1 DEF X!PushInv, X!Shapes, X!JobsFollow, X!Jobs
  <2>4. ~meddled' => X!AppFollows'
    BY <1>0, <2>1 DEF X!PushInv, X!Shapes, X!JobsFollow, X!AppFollows, X!Jobs
  <2>5. push'.exit = 0 => X!DoneSoFar' /\ push'.at # "killed"
    BY <1>0, <2>1 DEF X!PushInv, X!DoneSoFar
  <2> QED
    BY <2>2, <2>3, <2>4, <2>5 DEF X!PushInv
<1>7. CASE X!Hook
  <2>1. /\ push.at = "hook" /\ push' \in X!Pushes /\ data' \in X!Datas /\ push'.at = "finally"
        /\ push'.quiesced = push.quiesced /\ push'.complained = push.complained /\ push'.lost = push.lost
        /\ data'.bytes = data.bytes /\ data'.owned = data.owned
        /\ push'.exit = 1 \/ (push'.exit = push.exit /\ data'.seen)
        /\ UNCHANGED <<target, app, was, job, meddled>>
    <3>1. data \in X!Datas
      BY <1>0 DEF X!Shapes
    <3>2. data' = data \/ data' = [data EXCEPT !.seen = TRUE]
      BY <1>7 DEF X!Hook
    <3>3. /\ data' \in X!Datas /\ data'.bytes = data.bytes /\ data'.owned = data.owned
          /\ data' # data => data'.seen
      BY <3>1, <3>2 DEF X!Datas
    <3>4. X!Throws \/ (push' = [push EXCEPT !.at = "finally"] /\ data' = [data EXCEPT !.seen = TRUE])
      BY <1>7 DEF X!Hook
    <3>5. data' = [data EXCEPT !.seen = TRUE] => data'.seen
      BY <3>1 DEF X!Datas
    <3>6. /\ push' \in X!Pushes /\ push'.at = "finally"
          /\ push'.quiesced = push.quiesced /\ push'.complained = push.complained /\ push'.lost = push.lost
          /\ push'.exit = 1 \/ (push'.exit = push.exit /\ data'.seen)
      BY <1>0, <3>4, <3>5 DEF X!Throws, X!Pushes
    <3> QED
      BY <1>7, <3>3, <3>6 DEF X!Hook
  <2>2. X!Shapes'
    BY <1>0, <2>1 DEF X!Shapes, X!Jobs, X!Settled, X!Pushes, X!Datas
  <2>3. ~meddled' => X!JobsFollow'
    BY <1>0, <2>1 DEF X!PushInv, X!Shapes, X!JobsFollow, X!Jobs
  <2>4. ~meddled' => X!AppFollows'
    BY <1>0, <2>1 DEF X!PushInv, X!Shapes, X!JobsFollow, X!AppFollows, X!Jobs
  <2>5. push'.exit = 0 => X!DoneSoFar' /\ push'.at # "killed"
    BY <1>0, <2>1 DEF X!PushInv, X!DoneSoFar
  <2> QED
    BY <2>2, <2>3, <2>4, <2>5 DEF X!PushInv
<1>8. CASE X!StartAgain
  <2>1. /\ push.at = "finally" /\ push' \in X!Pushes
        /\ push'.quiesced = push.quiesced /\ push'.lost = push.lost
        /\ \/ /\ push.quiesced /\ job' = [job EXCEPT !["start"] = "pending"] /\ push'.at = "watch-start"
              /\ push'.exit = push.exit /\ push'.complained = push.complained
           \/ push'.at = "ended" /\ job' = job /\ push'.exit = 1 /\ push'.complained
           \/ /\ ~push.quiesced /\ push'.at = "ended" /\ job' = job
              /\ push'.exit = push.exit /\ push'.complained = push.complained
        /\ UNCHANGED <<target, app, was, data, meddled>>
    <3>1. \/ /\ push.quiesced /\ job' = [job EXCEPT !["start"] = "pending"]
             /\ push' = [push EXCEPT !.at = "watch-start"]
          \/ job' = job /\ push' = [push EXCEPT !.at = "ended", !.exit = 1, !.complained = TRUE]
          \/ ~push.quiesced /\ job' = job /\ push' = [push EXCEPT !.at = "ended"]
      BY <1>8 DEF X!StartAgain, X!Answers
    <3>2. push.at = "finally" /\ UNCHANGED <<target, app, was, data, meddled>>
      BY <1>8 DEF X!StartAgain
    <3> QED
      BY <1>0, <3>1, <3>2 DEF X!Pushes
  <2>2. X!Shapes'
    BY <1>0, <2>1 DEF X!Shapes, X!Jobs, X!Settled, X!Pushes, X!Datas
  <2>3. ~meddled' => X!JobsFollow'
    BY <1>0, <2>1 DEF X!PushInv, X!Shapes, X!JobsFollow, X!Jobs
  <2>4. ~meddled' => X!AppFollows'
    BY <1>0, <2>1 DEF X!PushInv, X!Shapes, X!JobsFollow, X!AppFollows, X!Jobs
  <2>5. push'.exit = 0 => X!DoneSoFar' /\ push'.at # "killed"
    BY <1>0, <2>1 DEF X!PushInv, X!DoneSoFar
  <2> QED
    BY <2>2, <2>3, <2>4, <2>5 DEF X!PushInv
<1>9. CASE X!WatchStart
  <2>1. /\ push.at = "watch-start" /\ push' \in X!Pushes /\ push'.at = "ended"
        /\ push'.quiesced = push.quiesced /\ push'.lost = push.lost
        /\ \/ /\ job["start"] \in {"completed", "failed"}
              /\ push'.exit = push.exit /\ push'.complained = push.complained
           \/ push'.exit = 1 /\ push'.complained
        /\ UNCHANGED <<target, app, was, data, meddled>> /\ job' = job
    BY <1>0, <1>9 DEF X!WatchStart, X!Watch, X!Ended, X!Pushes, X!Shapes
  <2>2. X!Shapes'
    BY <1>0, <2>1 DEF X!Shapes, X!Jobs, X!Settled, X!Pushes, X!Datas
  <2>3. ~meddled' => X!JobsFollow'
    BY <1>0, <2>1 DEF X!PushInv, X!Shapes, X!JobsFollow, X!Jobs
  <2>4. ~meddled' => X!AppFollows'
    BY <1>0, <2>1 DEF X!PushInv, X!Shapes, X!JobsFollow, X!AppFollows, X!Jobs
  <2>5. push'.exit = 0 => X!DoneSoFar' /\ push'.at # "killed"
    BY <1>0, <2>1 DEF X!PushInv, X!DoneSoFar
  <2> QED
    BY <2>2, <2>3, <2>4, <2>5 DEF X!PushInv
<1>10. CASE X!Killed
  <2>1. /\ push' \in X!Pushes /\ push'.at = "killed" /\ push'.exit = 1
        /\ push'.quiesced = push.quiesced /\ push'.complained = push.complained /\ push'.lost = push.lost
        /\ UNCHANGED <<target, app, was, data, meddled>> /\ job' = job
    BY <1>0, <1>10 DEF X!Killed, X!Pushes, X!Shapes
  <2>2. X!Shapes'
    BY <1>0, <2>1 DEF X!Shapes, X!Jobs, X!Settled, X!Pushes, X!Datas
  <2>3. ~meddled' => X!JobsFollow'
    BY <1>0, <2>1 DEF X!PushInv, X!Shapes, X!JobsFollow, X!Jobs
  <2>4. ~meddled' => X!AppFollows'
    BY <1>0, <2>1 DEF X!PushInv, X!Shapes, X!JobsFollow, X!AppFollows, X!Jobs
  <2>5. push'.exit = 0 => X!DoneSoFar' /\ push'.at # "killed"
    BY <1>0, <2>1 DEF X!PushInv, X!DoneSoFar
  <2> QED
    BY <2>2, <2>3, <2>4, <2>5 DEF X!PushInv
<1>11. ASSUME NEW j \in X!Jobs, X!JobStarts(j) PROVE X!PushInv'
  <2>1. /\ job[j] = "pending" /\ job' = [job EXCEPT ![j] = "running"]
        /\ "running" \notin {job[k] : k \in X!Jobs} /\ (j = "start" => job["stop"] # "pending")
        /\ UNCHANGED <<target, app, was, push, data, meddled>>
    BY <1>0, <1>11 DEF X!JobStarts
  <2>2. X!Shapes'
    BY <1>0, <2>1 DEF X!Shapes, X!Jobs, X!Settled, X!Pushes, X!Datas
  <2>3. ~meddled' => X!JobsFollow'
    <3>1. job["stop"] # "running" /\ job["start"] # "running"
      BY <2>1 DEF X!Jobs
    <3>2. CASE j = "stop"
      BY <1>0, <2>1, <3>1, <3>2 DEF X!PushInv, X!Shapes, X!JobsFollow, X!Jobs, X!Settled
    <3>3. CASE j = "start"
      BY <1>0, <2>1, <3>1, <3>3 DEF X!PushInv, X!Shapes, X!JobsFollow, X!Jobs, X!Settled
    <3> QED
      BY <3>2, <3>3 DEF X!Jobs
  <2>4. ~meddled' => X!AppFollows'
    BY <1>0, <2>1 DEF X!PushInv, X!Shapes, X!JobsFollow, X!AppFollows, X!Jobs
  <2>5. push'.exit = 0 => X!DoneSoFar' /\ push'.at # "killed"
    BY <1>0, <2>1 DEF X!PushInv, X!DoneSoFar
  <2> QED
    BY <2>2, <2>3, <2>4, <2>5 DEF X!PushInv
<1>12. ASSUME NEW j \in X!Jobs, X!JobEnds(j) PROVE X!PushInv'
  <2>1. /\ job[j] = "running" /\ app'.there = app.there
        /\ app' \in [there : BOOLEAN, up : BOOLEAN]
        /\ \/ job' = [job EXCEPT ![j] = "completed"] /\ app'.up = (j = "start")
           \/ job' = [job EXCEPT ![j] = "failed"]
        /\ UNCHANGED <<target, was, push, data, meddled>>
    BY <1>0, <1>12 DEF X!JobEnds, X!Shapes
  <2>2. X!Shapes'
    BY <1>0, <2>1 DEF X!Shapes, X!Jobs, X!Settled, X!Pushes, X!Datas
  <2>3. ~meddled' => X!JobsFollow'
    BY <1>0, <2>1 DEF X!PushInv, X!Shapes, X!JobsFollow, X!Jobs
  <2>4. ~meddled' => X!AppFollows'
    BY <1>0, <2>1 DEF X!PushInv, X!Shapes, X!JobsFollow, X!AppFollows, X!Jobs
  <2>5. push'.exit = 0 => X!DoneSoFar' /\ push'.at # "killed"
    BY <1>0, <2>1 DEF X!PushInv, X!DoneSoFar
  <2> QED
    BY <2>2, <2>3, <2>4, <2>5 DEF X!PushInv
<1>13. CASE X!Crash
  <2>1. /\ \E j \in X!Jobs : job[j] = "running" /\ job' = [job EXCEPT ![j] = "failed"]
        /\ UNCHANGED <<target, app, was, push, data, meddled>>
    BY <1>0, <1>13 DEF X!Crash
  <2>2. X!Shapes'
    BY <1>0, <2>1 DEF X!Shapes, X!Jobs, X!Settled, X!Pushes, X!Datas
  <2>3. ~meddled' => X!JobsFollow'
    BY <1>0, <2>1 DEF X!PushInv, X!Shapes, X!JobsFollow, X!Jobs
  <2>4. ~meddled' => X!AppFollows'
    BY <1>0, <2>1 DEF X!PushInv, X!Shapes, X!JobsFollow, X!AppFollows, X!Jobs
  <2>5. push'.exit = 0 => X!DoneSoFar' /\ push'.at # "killed"
    BY <1>0, <2>1 DEF X!PushInv, X!DoneSoFar
  <2> QED
    BY <2>2, <2>3, <2>4, <2>5 DEF X!PushInv
<1>14. CASE X!Meddle
  <2>1. /\ meddled' = TRUE /\ app' \in [there : BOOLEAN, up : BOOLEAN]
        /\ job' \in [X!Jobs -> X!Settled \cup {"none", "pending", "running"}]
        /\ UNCHANGED <<target, was, push, data>>
    <3>1. /\ app \in [there : BOOLEAN, up : BOOLEAN]
          /\ job \in [X!Jobs -> X!Settled \cup {"none", "pending", "running"}]
      BY <1>0 DEF X!Shapes
    <3>2. \/ app' = app
          \/ app' = [app EXCEPT !.up = ~app.up]
          \/ app' = [there |-> FALSE, up |-> FALSE]
      BY <1>14 DEF X!Meddle
    <3>3. app' \in [there : BOOLEAN, up : BOOLEAN]
      <4>1. CASE app' = [app EXCEPT !.up = ~app.up]
        <5>1. app.up = TRUE \/ app.up = FALSE
          BY <3>1
        <5>2. CASE app.up = TRUE
          BY <3>1, <4>1, <5>2
        <5>3. CASE app.up = FALSE
          BY <3>1, <4>1, <5>3
        <5> QED
          BY <5>1, <5>2, <5>3
      <4>2. CASE app' = [there |-> FALSE, up |-> FALSE]
        BY <4>2
      <4> QED
        BY <3>1, <3>2, <4>1, <4>2
    <3>4. \/ job' = job
          \/ \E j \in X!Jobs : job' = [job EXCEPT ![j] = "cancelled"]
          \/ job' = [j \in X!Jobs |-> IF job[j] \in X!Settled THEN "none" ELSE job[j]]
          \/ job' = [j \in X!Jobs |-> IF job[j] \in {"pending"} THEN "cancelled" ELSE job[j]]
      BY <1>14 DEF X!Meddle
    <3>5. job' \in [X!Jobs -> X!Settled \cup {"none", "pending", "running"}]
      BY <3>1, <3>4 DEF X!Settled
    <3> QED
      BY <1>14, <3>3, <3>5 DEF X!Meddle
  <2>2. X!Shapes'
    BY <1>0, <2>1 DEF X!Shapes, X!Jobs, X!Settled, X!Pushes, X!Datas
  <2>3. ~meddled' => X!JobsFollow'
    BY <1>0, <2>1 DEF X!PushInv, X!Shapes, X!JobsFollow, X!Jobs
  <2>4. ~meddled' => X!AppFollows'
    BY <1>0, <2>1 DEF X!PushInv, X!Shapes, X!JobsFollow, X!AppFollows, X!Jobs
  <2>5. push'.exit = 0 => X!DoneSoFar' /\ push'.at # "killed"
    BY <1>0, <2>1 DEF X!PushInv, X!DoneSoFar
  <2> QED
    BY <2>2, <2>3, <2>4, <2>5 DEF X!PushInv
<1> QED
  BY <1>1, <1>2, <1>3, <1>4, <1>5, <1>6, <1>7, <1>8, <1>9, <1>10, <1>11, <1>12, <1>13, <1>14 DEF X!Next

(* It is inductive.                                                         *)
LEMMA NextPush == PushesInv /\ [Next]_vars => PushesInv'
<1> SUFFICES ASSUME PushesInv, [Next]_vars, which' = "push" PROVE X!PushInv'
  BY DEF PushesInv
<1>1. which = "push"
  BY Zenon DEF Next, vars
<1>2. X!PushInv
  BY <1>1 DEF PushesInv
<1>3. CASE Next
  <2>1. X!Next
    BY <1>1, <1>3, Zenon DEF Next
  <2> QED
    BY <1>2, <2>1, PushSteps
<1>4. CASE UNCHANGED vars
  BY <1>2, <1>4 DEF vars, X!PushInv, X!Shapes, X!JobsFollow, X!AppFollows, X!DoneSoFar, X!Pushes,
                    X!Datas, X!Jobs, X!Settled
<1> QED
  BY <1>3, <1>4

(* PushKeepsWord: a push writes under a stopped app where it was to, leaves *)
(* no app down that was up, and reports success only when all of it was     *)
(* done, but for the cases the property excepts (data-push.ts).             *)
THEOREM PushKeepsWordHolds == Spec => []PushKeepsWord
<1>1. X!PushInv => X!StoppedMeanwhile
  BY DEF X!PushInv, X!Shapes, X!JobsFollow, X!AppFollows, X!Pushes, X!Jobs, X!Settled,
         X!StoppedMeanwhile
<1>2. X!PushInv => X!NotLeftDown
  BY DEF X!PushInv, X!Shapes, X!JobsFollow, X!AppFollows, X!Pushes, X!Jobs, X!Settled,
         X!NotLeftDown
<1>3. X!PushInv => X!SuccessMeansDone
  BY DEF X!PushInv, X!Shapes, X!DoneSoFar, X!SuccessMeansDone
<1>4. PushesInv => PushKeepsWord
  BY <1>1, <1>2, <1>3 DEF PushesInv, PushKeepsWord
<1> QED
  BY <1>4, InitPush, NextPush, PTL DEF Spec

-----------------------------------------------------------------------------
(* The inductive invariant of the platform on its host, while it is run.    *)
HostsInv == which = "host" => I!HostInv

(* The command goes on to a stage, or ends there.                           *)
Continues(stage, exit) ==
  /\ v9' \in I!Commands
  /\ v9'.at = stage /\ v9'.exit = exit /\ v9'.cmd = v9.cmd /\ v9'.target = v9.target
  /\ v9'.option = v9.option /\ v9'.backup = v9.backup /\ v9'.was = v9.was
  /\ v9'.behind = v9.behind

(* A host without an install has no .env.                                   *)
LEMMA NoEnvIs == I!NoEnv \in I!Envs /\ ~I!NoEnv.there /\ I!NoEnv.mode = "" /\ I!NoEnv.profiles = {}
  BY DEF I!NoEnv, I!Envs

(* A command that goes on changes its stage only.                           *)
LEMMA GoesIs == ASSUME I!Shapes, NEW stage \in I!Stages, I!Goes(stage)
  PROVE Continues(stage, v9.exit)
  BY DEF I!Shapes, I!Goes, Continues, I!Commands

(* One that fails ends with an error.                                       *)
LEMMA FailsIs == ASSUME I!Shapes, I!Fails PROVE Continues("ended", 1)
  BY DEF I!Shapes, I!Fails, Continues, I!Commands, I!Stages

(* Whatever comes of setting values in .env, one of these is what is there. *)
LEMMA SetsIs ==
  ASSUME I!Shapes, NEW new \in I!Envs, NEW stage \in I!Stages, I!Sets(new, stage)
  PROVE  /\ v4' \in I!Envs /\ v10' \in BOOLEAN
         /\ \/ v4' = new /\ (v10 => v10') /\ Continues(stage, v9.exit)
            \/ /\ (v10 => v10') /\ Continues("ended", 1)
               /\ \/ v4' = new
                  \/ /\ v4'.secrets = new.secrets /\ v4'.there = v4.there
                     /\ v4'.mode = v4.mode /\ v4'.profiles = v4.profiles
            \/ v10' /\ Continues("ended", 1) /\ v4'.mode = "" /\ v4'.profiles = {}
<1> DEFINE latest == v1  ours == v2  files == v3  env == v4  archive == v5  volumes
             == v6  issued == v7  up == v8  run == v9  torn == v10  kept == v11  runs == v12
             troubles == v13
<1>1. CASE env' = new /\ I!Goes(stage) /\ UNCHANGED <<torn, troubles>>
  <2>1. Continues(stage, run.exit)
    BY <1>1, GoesIs
  <2> QED
    BY <1>1, <2>1 DEF I!Shapes
<1>2. CASE I!Fails /\ env' = new /\ UNCHANGED torn
  <2>1. Continues("ended", 1)
    BY <1>2, FailsIs
  <2> QED
    BY <1>2, <2>1 DEF I!Shapes
<1>3. CASE I!Fails /\ env' = [env EXCEPT !.secrets = new.secrets] /\ UNCHANGED torn
  <2>1. Continues("ended", 1)
    BY <1>3, FailsIs
  <2>2. /\ env' \in I!Envs /\ env'.secrets = new.secrets /\ env'.there = env.there
        /\ env'.mode = env.mode /\ env'.profiles = env.profiles
    BY <1>3 DEF I!Shapes, I!Envs
  <2> QED
    BY <1>3, <2>1, <2>2 DEF I!Shapes
<1>4. CASE I!Fails /\ env' = [I!NoEnv EXCEPT !.there = TRUE] /\ torn' = TRUE
  <2>1. Continues("ended", 1)
    BY <1>4, FailsIs
  <2>2. env' \in I!Envs /\ env'.mode = "" /\ env'.profiles = {}
    BY <1>4 DEF I!NoEnv, I!Envs
  <2> QED
    BY <1>4, <2>1, <2>2 DEF I!Shapes
<1> QED
  BY <1>1, <1>2, <1>3, <1>4 DEF I!Sets

(* Every step on the host keeps the invariant.                              *)
LEMMA HostSteps == ASSUME I!HostInv, I!Next PROVE I!HostInv'
<1> DEFINE latest == v1  ours == v2  files == v3  env == v4  archive == v5  volumes
             == v6  issued == v7  up == v8  run == v9  torn == v10  kept == v11  runs == v12
             troubles == v13
<1>0. /\ I!Shapes /\ I!SecretsTogether /\ I!ArchivedFirst /\ I!SuccessMeansRunning /\ I!UnderWay
         /\ I!Matched
      /\ I!Outpost /\ I!Snapshot /\ I!Brought /\ I!Onward
      /\ latest \in Nat /\ files.stamp \in Nat /\ run.target \in Nat
  BY DEF I!HostInv, I!Shapes, I!Bundled, I!Commands
<1>1. CASE I!Publish
  <2>1. latest' = latest + 1 /\ latest' \in Nat /\ UNCHANGED <<run, runs>>
    BY <1>0, <1>1 DEF I!Publish
  <2>2. UNCHANGED <<files, env, archive, volumes, issued, up, torn, kept>>
    BY <1>1 DEF I!Publish, I!host
  <2>3. I!Shapes'
    BY <1>0, <2>1, <2>2 DEF I!Shapes
  <2> QED
    BY <1>0, <2>1, <2>2, <2>3 DEF I!HostInv, I!SecretsTogether, I!ArchivedFirst,
                                  I!SuccessMeansRunning, I!Sso, I!UnderWay, I!Works, I!Matched,
                                  I!Outpost, I!Snapshot, I!Brought, I!Onward
<1>2. CASE I!Types
  <2>1. /\ run.at = "ended" /\ run' \in I!Commands /\ run'.target \in 1..latest /\ run'.exit = 0
        /\ ~run'.was.there /\ runs' \in Nat /\ runs' # 0
        /\ UNCHANGED <<latest, files, env, archive, volumes, issued, up, torn, kept>>
    <3>1. run' \in [cmd : {"bootstrap", "update", "teardown"}, at : {"probe", "self", "stop"},
                    target : 1..latest, option : BOOLEAN, backup : BOOLEAN, was : {I!NoEnv},
                    behind : {FALSE}, exit : {0}]
      BY <1>2 DEF I!Types
    <3>2. run' \in I!Commands
      <4>1. \A version \in 1..latest : version \in Nat
        BY <1>0
      <4> QED
        BY <3>1, <4>1, NoEnvIs DEF I!Commands, I!Stages
    <3>3. run'.target \in 1..latest /\ run'.exit = 0 /\ run'.was = I!NoEnv
      BY <3>1
    <3>4. /\ run.at = "ended" /\ runs' = runs + 1
          /\ UNCHANGED <<latest, files, env, archive, volumes, issued, up, torn, kept>>
      BY <1>2 DEF I!Types, I!host
    <3> QED
      <4>1. runs' \in Nat /\ runs' # 0
        BY <1>0, <3>4 DEF I!Shapes
      <4> QED
        BY <3>2, <3>3, <3>4, <4>1, NoEnvIs, Zenon
  <2>2. \/ run'.cmd = "bootstrap" /\ run'.at = "probe"
        \/ run'.cmd = "update" /\ run'.at = "self"
        \/ run'.cmd = "teardown" /\ run'.at = "stop"
    BY <1>2 DEF I!Types, I!First
  <2>3. I!Shapes'
    BY <1>0, <2>1 DEF I!Shapes
  <2> QED
    BY <1>0, <2>1, <2>2, <2>3 DEF I!HostInv, I!SecretsTogether, I!ArchivedFirst,
                                  I!SuccessMeansRunning, I!Sso, I!UnderWay, I!Works, I!Matched,
                                  I!Outpost, I!Snapshot, I!Brought, I!Onward
<1>3. CASE I!Dies
  <2>1. run.at # "ended" /\ Continues("ended", 1)
    BY <1>0, <1>3, FailsIs DEF I!Dies
  <2>2. UNCHANGED <<files, env, archive, volumes, issued, up, torn, kept>>
        /\ UNCHANGED <<latest, runs>>
    BY <1>3 DEF I!Dies, I!host, I!Rest
  <2>3. I!Shapes'
    BY <1>0, <2>1, <2>2 DEF I!Shapes, Continues
  <2> QED
    BY <1>0, <2>1, <2>2, <2>3 DEF I!HostInv, Continues, I!SecretsTogether, I!ArchivedFirst,
                                  I!SuccessMeansRunning, I!Sso, I!UnderWay, I!Works, I!Matched,
                                  I!Outpost, I!Snapshot, I!Brought, I!Onward
<1>4. CASE I!SelfUpdate
  <2>1. /\ run.cmd = "update" /\ run.at = "self" /\ run' \in I!Commands /\ run'.at = "read"
           /\ run'.exit = run.exit
        /\ run'.cmd = run.cmd /\ run'.was = run.was /\ run'.backup = run.backup
        /\ \/ run'.target = latest
           \/ run'.target = run.target /\ (~run'.behind => latest <= run.target)
    <3>1. CASE run' = [run EXCEPT !.at = "read", !.target = latest]
      BY <1>0, <1>4, <3>1 DEF I!SelfUpdate, I!At, I!Shapes, I!Commands, I!Stages
    <3>2. CASE run' = [run EXCEPT !.at = "read", !.behind = latest > run.target]
      <4> DEFINE b == latest > run.target
      <4>1. run' = [run EXCEPT !.at = "read", !.behind = b] /\ b \in BOOLEAN
        BY <3>2
      <4>2. ~b => latest <= run.target
        BY <1>0
      <4> HIDE DEF b
      <4> QED
        BY <1>0, <1>4, <4>1, <4>2 DEF I!SelfUpdate, I!At, I!Shapes, I!Commands, I!Stages
    <3> QED
      BY <1>4, <3>1, <3>2 DEF I!SelfUpdate, I!SelfUpdated
  <2>2. UNCHANGED <<files, env, archive, volumes, issued, up, torn, kept>>
        /\ UNCHANGED <<latest, runs>>
    BY <1>4 DEF I!SelfUpdate, I!host, I!Rest
  <2>3. I!Shapes'
    BY <1>0, <2>1, <2>2 DEF I!Shapes
  <2>4. I!SecretsTogether'
    BY <1>0, <2>1, <2>2 DEF I!SecretsTogether
  <2>5. I!ArchivedFirst'
    BY <1>0, <2>1, <2>2 DEF I!ArchivedFirst, I!Snapshot
  <2>6. I!SuccessMeansRunning'
    BY <1>0, <2>1, <2>2 DEF I!SuccessMeansRunning, I!Sso, I!Works, I!Brought
  <2>7. I!UnderWay'
    BY <1>0, <2>1, <2>2 DEF I!UnderWay, I!Works
  <2>8. I!Matched'
    BY <1>0, <2>1, <2>2 DEF I!Matched, I!UnderWay, I!Works, I!Sso, I!SecretsTogether
  <2>9. I!Outpost'
    BY <1>0, <2>1, <2>2 DEF I!Outpost, I!Works, I!Sso
  <2>10. I!Snapshot'
    BY <1>0, <2>1, <2>2 DEF I!Snapshot
  <2>11. I!Brought'
    BY <1>0, <2>1, <2>2 DEF I!Brought, I!Works, I!Sso, I!UnderWay
  <2>12. I!Onward'
    BY <1>0, <2>1, <2>2 DEF I!Onward
  <2> QED
    BY <2>3, <2>4, <2>5, <2>6, <2>7, <2>8, <2>9, <2>10, <2>11, <2>12 DEF I!HostInv
<1>5. CASE I!Probe
  <2>1. /\ run.cmd = "bootstrap" /\ run.at = "probe"
        /\ \/ I!Goes("reset") \/ I!Fails
           \/ ~I!Existing /\ I!Goes("fetch")
    BY <1>5 DEF I!Probe, I!At
  <2>2. \/ Continues("reset", run.exit)
        \/ Continues("ended", 1)
        \/ volumes = 0 /\ Continues("fetch", run.exit)
    BY <1>0, <2>1, GoesIs, FailsIs DEF I!Existing, I!Stages
  <2>3. UNCHANGED <<files, env, archive, volumes, issued, up, torn, kept>>
        /\ UNCHANGED <<latest, runs>>
    BY <1>5 DEF I!Probe, I!host, I!Rest
  <2>4. I!Shapes'
    BY <1>0, <2>1, <2>2, <2>3 DEF I!Shapes, Continues
  <2> QED
    BY <1>0, <2>1, <2>2, <2>3, <2>4 DEF I!HostInv, Continues, I!SecretsTogether, I!ArchivedFirst,
         I!SuccessMeansRunning, I!Sso, I!UnderWay, I!Works, I!Matched, I!Outpost, I!Snapshot,
         I!Brought, I!Onward
<1>6. CASE I!Reset
  <2>1. run.cmd = "bootstrap" /\ run.at = "reset" /\ Continues("fetch", run.exit)
    BY <1>0, <1>6, GoesIs DEF I!Reset, I!At, I!Stages
  <2>2. /\ up' \in I!Containers /\ (up' = up \/ (up'.sso = 0 /\ up'.ldap = {}))
        /\ volumes' \in {0, volumes} /\ issued' \in {0, issued}
        /\ (volumes' = 0 => (up'.sso = 0 \/ volumes = 0)) /\ kept' = (kept \/ volumes' # 0)
    BY <1>0, <1>6 DEF I!Reset, I!Downed, I!Down, I!Swept, I!Shapes, I!Containers
  <2>3. UNCHANGED <<files, env, archive, torn, latest, runs>>
    BY <1>6 DEF I!Reset, I!Rest
  <2>4. I!Shapes'
    BY <1>0, <2>1, <2>2, <2>3 DEF I!Shapes, Continues
  <2>5. I!SecretsTogether'
    BY <1>0, <2>1, <2>2, <2>3 DEF Continues, I!SecretsTogether
  <2>6. I!ArchivedFirst'
    BY <1>0, <2>1, <2>2, <2>3 DEF Continues, I!ArchivedFirst, I!Snapshot
  <2>7. I!SuccessMeansRunning'
    BY <1>0, <2>1, <2>2, <2>3 DEF Continues, I!SuccessMeansRunning, I!Sso, I!Works, I!Brought
  <2>8. I!UnderWay'
    BY <1>0, <2>1, <2>2, <2>3 DEF Continues, I!UnderWay, I!Works
  <2>9. I!Matched'
    BY <1>0, <2>1, <2>2, <2>3 DEF Continues, I!Matched, I!UnderWay, I!Works, I!Sso,
                                  I!SecretsTogether
  <2>10. I!Outpost'
    BY <1>0, <2>1, <2>2, <2>3 DEF Continues, I!Outpost, I!Works, I!Sso
  <2>11. I!Snapshot'
    BY <1>0, <2>1, <2>2, <2>3 DEF Continues, I!Snapshot
  <2>12. I!Brought'
    BY <1>0, <2>1, <2>2, <2>3 DEF Continues, I!Brought, I!Works, I!Sso, I!UnderWay
  <2>13. I!Onward'
    BY <1>0, <2>1, <2>2, <2>3 DEF Continues, I!Onward
  <2> QED
    BY <2>4, <2>5, <2>6, <2>7, <2>8, <2>9, <2>10, <2>11, <2>12, <2>13 DEF I!HostInv
<1>7. CASE I!Read
  <2>1. /\ run.cmd = "update" /\ run.at = "read"
        /\ \/ /\ env.there /\ run' = [run EXCEPT !.at = IF run.backup THEN "backup" ELSE "sso",
                 !.was = env]
           \/ I!Fails
    BY <1>7 DEF I!Read, I!At
  <2>2. \/ /\ env.there /\ run' \in I!Commands /\ run'.was = env /\ run'.exit = run.exit
              /\ run'.cmd = run.cmd
           /\ run'.target = run.target /\ run'.backup = run.backup /\ run'.behind = run.behind
           /\ run'.at = IF run.backup THEN "backup" ELSE "sso"
        \/ Continues("ended", 1)
    BY <1>0, <2>1, FailsIs DEF I!Shapes, I!Commands, I!Stages
  <2>3. UNCHANGED <<files, env, archive, volumes, issued, up, torn, kept>>
        /\ UNCHANGED <<latest, runs>>
    BY <1>7 DEF I!Read, I!host, I!Rest
  <2>4. I!Shapes'
    BY <1>0, <2>1, <2>2, <2>3 DEF I!Shapes, Continues
  <2> QED
    BY <1>0, <2>1, <2>2, <2>3, <2>4 DEF I!HostInv, Continues, I!SecretsTogether, I!ArchivedFirst,
         I!SuccessMeansRunning, I!Sso, I!UnderWay, I!Works, I!Matched, I!Outpost, I!Snapshot,
         I!Brought, I!Onward
<1>8. CASE I!Backup
  <2>1. /\ run.cmd = "update" /\ run.at = "backup"
        /\ \/ archive' = env /\ I!Goes("sso")
           \/ I!Fails /\ UNCHANGED archive
    BY <1>8 DEF I!Backup, I!At, I!Halts
  <2>2. \/ archive' = env /\ Continues("sso", run.exit)
        \/ UNCHANGED archive /\ Continues("ended", 1)
    BY <1>0, <2>1, GoesIs, FailsIs DEF I!Stages
  <2>3. archive' \in I!Envs
    BY <1>0, <2>2 DEF I!Shapes
  <2>4. UNCHANGED <<files, env, volumes, issued, up, torn, kept, latest, runs>>
    BY <1>8 DEF I!Backup, I!Rest
  <2>5. I!Shapes'
    BY <1>0, <2>1, <2>2, <2>3, <2>4 DEF I!Shapes, Continues
  <2> QED
    BY <1>0, <2>1, <2>2, <2>3, <2>4, <2>5 DEF I!HostInv, Continues, I!SecretsTogether,
         I!ArchivedFirst, I!SuccessMeansRunning, I!Sso, I!UnderWay, I!Works, I!Matched, I!Outpost,
         I!Snapshot, I!Brought, I!Onward
<1>9. CASE I!EnableSso
  <2>1. /\ run.cmd = "update" /\ run.at = "sso"
        /\ \/ env.mode = "none" /\ I!Sets([env EXCEPT !.mode = "authentik"], "fetch")
           \/ I!Goes("fetch") /\ UNCHANGED <<env, torn>>
    BY <1>9 DEF I!EnableSso, I!At
  <2>2. LET new == [env EXCEPT !.mode = "authentik"] IN
          /\ new \in I!Envs /\ new.secrets = env.secrets /\ new.there = env.there
             /\ new.profiles = env.profiles
          /\ new.mode = "authentik"
    BY <1>0 DEF I!Shapes, I!Envs
  <2>3. /\ env' \in I!Envs /\ torn' \in BOOLEAN
        /\ \/ Continues("fetch", run.exit) /\ (torn => torn')
              /\ env'.secrets = env.secrets /\ env'.there = env.there
                 /\ env'.profiles = env.profiles
              /\ env'.mode \in {env.mode, "authentik"}
           \/ Continues("ended", 1) /\ (torn => torn') /\ env'.secrets = env.secrets
              /\ env'.there = env.there
              /\ env'.profiles = env.profiles /\ env'.mode \in {env.mode, "authentik"}
           \/ torn' /\ Continues("ended", 1) /\ env'.mode = "" /\ env'.profiles = {}
    BY <1>0, <2>1, <2>2, SetsIs, GoesIs DEF I!Stages, I!Shapes
  <2>4. UNCHANGED <<files, archive, volumes, issued, up, kept, latest, runs>>
    BY <1>9 DEF I!EnableSso, I!Rest
  <2>5. I!Shapes'
    BY <1>0, <2>1, <2>2, <2>3, <2>4 DEF I!Shapes, Continues
  <2>6. I!SecretsTogether'
    BY <1>0, <2>1, <2>2, <2>3, <2>4 DEF Continues, I!SecretsTogether
  <2>7. I!ArchivedFirst'
    BY <1>0, <2>1, <2>2, <2>3, <2>4 DEF Continues, I!ArchivedFirst, I!Snapshot
  <2>8. I!SuccessMeansRunning'
    BY <1>0, <2>1, <2>2, <2>3, <2>4 DEF Continues, I!SuccessMeansRunning, I!Sso, I!Works, I!Brought
  <2>9. I!UnderWay'
    BY <1>0, <2>1, <2>2, <2>3, <2>4 DEF Continues, I!UnderWay, I!Works
  <2>10. I!Matched'
    BY <1>0, <2>1, <2>2, <2>3, <2>4 DEF Continues, I!Matched, I!UnderWay, I!Works, I!Sso,
         I!SecretsTogether
  <2>11. I!Outpost'
    BY <1>0, <2>1, <2>2, <2>3, <2>4 DEF Continues, I!Outpost, I!Works, I!Sso
  <2>12. I!Snapshot'
    BY <1>0, <2>1, <2>2, <2>3, <2>4 DEF Continues, I!Snapshot
  <2>13. I!Brought'
    BY <1>0, <2>1, <2>2, <2>3, <2>4 DEF Continues, I!Brought, I!Works, I!Sso, I!UnderWay
  <2>14. I!Onward'
    BY <1>0, <2>1, <2>2, <2>3, <2>4 DEF Continues, I!Onward
  <2> QED
    BY <2>5, <2>6, <2>7, <2>8, <2>9, <2>10, <2>11, <2>12, <2>13, <2>14 DEF I!HostInv
<1>10. CASE I!Fetch
  <2>1. /\ run.cmd \in {"bootstrap", "update"} /\ run.at = "fetch"
        /\ \/ files' = [stamp |-> run.target, rest |-> run.target] /\ I!Goes("write")
           \/ I!Fails /\ files' \in [stamp : {files.stamp, run.target}, rest : {files.rest,
              run.target}]
    BY <1>10 DEF I!Fetch, I!At, I!Incomplete
  <2>2. /\ files' \in I!Bundled /\ files'.stamp \in {files.stamp, run.target}
        /\ \/ Continues("ended", 1)
           \/ /\ Continues("write", run.exit)
              /\ files' = [stamp |-> run.target, rest |-> run.target]
    BY <1>0, <2>1, GoesIs, FailsIs DEF I!Stages, I!Shapes, I!Bundled
  <2>3. UNCHANGED <<env, archive, volumes, issued, up, torn, kept, latest, runs>>
    BY <1>10 DEF I!Fetch, I!Rest
  <2>4. I!Shapes'
    BY <1>0, <2>1, <2>2, <2>3 DEF I!Shapes, Continues
  <2> QED
    BY <1>0, <2>1, <2>2, <2>3, <2>4 DEF I!HostInv, Continues, I!SecretsTogether, I!ArchivedFirst,
         I!SuccessMeansRunning, I!Sso, I!UnderWay, I!Works, I!Matched, I!Outpost, I!Snapshot,
         I!Brought, I!Onward
<1>11. CASE I!Write
  <2>1. run.cmd \in {"bootstrap", "update"} /\ run.at = "write"
    BY <1>11 DEF I!Write, I!At
  <2>2. Continues("secrets", run.exit) \/ (run.cmd = "bootstrap" /\ Continues("ended", 1))
    BY <1>0, <1>11, GoesIs, FailsIs DEF I!Write, I!At, I!Stages
  <2>3. /\ env' \in I!Envs
        /\ \/ run.cmd = "update" /\ env' = env
           \/ run.cmd = "bootstrap" /\ env'.there /\ (env'.mode = "none" => env'.profiles = {})
    <3>1. CASE run.cmd = "update"
      BY <1>0, <1>11, <3>1 DEF I!Write, I!Shapes
    <3>2. CASE run.cmd # "update"
      <4>1. /\ env' \in [there : {TRUE}, named : BOOLEAN, mode : {"", "none", "authentik"},
                          secrets : {0}, profiles : {{}, {"authentik", "ldap"}}, token : {0}]
            /\ env'.mode = "none" => env'.profiles = {}
        BY <1>11, <3>2 DEF I!Write
      <4> QED
        <5>1. env' \in I!Envs
          <6>1. ASSUME NEW e \in [there : {TRUE}, named : BOOLEAN, mode : {"", "none", "authentik"},
                                  secrets : {0}, profiles : {{}, {"authentik", "ldap"}},
                                  token : {0}]
                PROVE  e \in I!Envs
            <7>1. /\ e.there \in BOOLEAN /\ e.named \in BOOLEAN
                     /\ e.mode \in {"", "none", "authentik"}
                  /\ e.profiles \in {{}, {"authentik", "ldap"}}
              BY <6>1, Zenon
            <7>2. e.secrets = 0 /\ e.token = 0 /\ 0 \in Nat
              BY <6>1
            <7>3. e = [there |-> e.there, named |-> e.named, mode |-> e.mode, secrets |-> e.secrets,
                       profiles |-> e.profiles, token |-> e.token]
              BY <6>1
            <7>4. e.profiles \in SUBSET {"authentik", "ldap"}
              BY <7>1
            <7> QED
              BY <7>1, <7>2, <7>3, <7>4, Zenon DEF I!Envs
          <6> QED
            BY <4>1, <6>1
        <5>2. env'.there
          BY <4>1
        <5> QED
          BY <2>1, <3>2, <4>1, <5>1, <5>2
    <3> QED
      BY <3>1, <3>2
  <2>4. UNCHANGED <<files, archive, volumes, issued, up, torn, kept, latest, runs>>
    BY <1>11 DEF I!Write, I!Rest
  <2>5. I!Shapes'
    BY <1>0, <2>1, <2>2, <2>3, <2>4 DEF I!Shapes, Continues
  <2>6. I!SecretsTogether'
    BY <1>0, <2>1, <2>2, <2>3, <2>4 DEF Continues, I!SecretsTogether
  <2>7. I!ArchivedFirst'
    BY <1>0, <2>1, <2>2, <2>3, <2>4 DEF Continues, I!ArchivedFirst, I!Snapshot
  <2>8. I!SuccessMeansRunning'
    BY <1>0, <2>1, <2>2, <2>3, <2>4 DEF Continues, I!SuccessMeansRunning, I!Sso, I!Works, I!Brought
  <2>9. I!UnderWay'
    BY <1>0, <2>1, <2>2, <2>3, <2>4 DEF Continues, I!UnderWay, I!Works
  <2>10. I!Matched'
    BY <1>0, <2>1, <2>2, <2>3, <2>4 DEF Continues, I!Matched, I!UnderWay, I!Works, I!Sso,
         I!SecretsTogether
  <2>11. I!Outpost'
    BY <1>0, <2>1, <2>2, <2>3, <2>4 DEF Continues, I!Outpost, I!Works, I!Sso
  <2>12. I!Snapshot'
    BY <1>0, <2>1, <2>2, <2>3, <2>4 DEF Continues, I!Snapshot
  <2>13. I!Brought'
    BY <1>0, <2>1, <2>2, <2>3, <2>4 DEF Continues, I!Brought, I!Works, I!Sso, I!UnderWay
  <2>14. I!Onward'
    BY <1>0, <2>1, <2>2, <2>3, <2>4 DEF Continues, I!Onward
  <2> QED
    BY <2>5, <2>6, <2>7, <2>8, <2>9, <2>10, <2>11, <2>12, <2>13, <2>14 DEF I!HostInv
<1>12. CASE I!Secrets
  <2>1. /\ run.cmd \in {"bootstrap", "update"} /\ run.at = "secrets"
        /\ I!Sets(IF I!Sso THEN [env EXCEPT !.secrets = I!Ensured(@),
           !.profiles = {"authentik"} \cup I!Staged(env)]
                ELSE env, "up")
    BY <1>12 DEF I!Secrets, I!At
  <2>2. PICK new \in I!Envs :
          /\ I!Sets(new, "up") /\ new.there = env.there /\ new.mode = env.mode
          /\ (env.secrets # 0 => new.secrets = env.secrets)
          /\ (env.mode # "none" => new.secrets # 0 /\ "authentik" \in new.profiles)
          /\ (env.mode = "none" => "ldap" \notin new.profiles) /\ (new.token = 0
             => "ldap" \notin new.profiles)
    <3> DEFINE e == [env EXCEPT !.secrets = I!Ensured(@),
    !.profiles = {"authentik"} \cup I!Staged(env)]
    <3>1. CASE env.mode = "none"
      BY <1>0, <2>1, <3>1 DEF I!Sso, I!Shapes, I!Outpost
    <3>2. CASE env.mode # "none"
      <4>1. I!Ensured(env.secrets) \in Nat \ {0} /\ (env.secrets # 0
            => I!Ensured(env.secrets) = env.secrets)
        BY <1>0, <2>1 DEF I!Ensured, I!Shapes, I!Envs, I!UnderWay
      <4>2. /\ {"authentik"} \cup I!Staged(env) \in SUBSET {"authentik", "ldap"}
            /\ env.token = 0 => "ldap" \notin {"authentik"} \cup I!Staged(env)
        BY <1>0 DEF I!Staged, I!Shapes, I!Envs
      <4>3. /\ e \in I!Envs /\ e.there = env.there /\ e.mode = env.mode /\ e.token = env.token
            /\ e.secrets = I!Ensured(env.secrets) /\ e.profiles = {"authentik"} \cup I!Staged(env)
        <5> DEFINE n == I!Ensured(env.secrets)  p == {"authentik"} \cup I!Staged(env)
        <5>1. n \in Nat /\ p \in SUBSET {"authentik", "ldap"}
              /\ e = [env EXCEPT !.secrets = n, !.profiles = p]
          BY <4>1, <4>2
        <5> HIDE DEF n, p, e
        <5>2. /\ e \in I!Envs /\ e.there = env.there /\ e.mode = env.mode /\ e.token = env.token
              /\ e.secrets = n /\ e.profiles = p
          BY <1>0, <5>1 DEF I!Shapes, I!Envs
        <5> QED
          BY <5>2 DEF n, p
      <4>4. I!Sets(e, "up")
        BY <2>1, <3>2 DEF I!Sso
      <4> HIDE DEF e
      <4> QED
        BY <3>2, <4>1, <4>2, <4>3, <4>4
    <3> QED
      BY <3>1, <3>2
  <2>3. /\ env' \in I!Envs /\ torn' \in BOOLEAN
          /\ \/ env' = new /\ (torn => torn') /\ Continues("up", run.exit)
             \/ /\ (torn => torn') /\ Continues("ended", 1)
                /\ \/ env' = new
                   \/ /\ env'.secrets = new.secrets /\ env'.there = env.there
                      /\ env'.mode = env.mode /\ env'.profiles = env.profiles
             \/ torn' /\ Continues("ended", 1) /\ env'.mode = "" /\ env'.profiles = {}
    BY <1>0, <2>2, SetsIs DEF I!Stages
  <2>4. UNCHANGED <<files, archive, volumes, issued, up, kept, latest, runs>>
    BY <1>12 DEF I!Secrets, I!Rest
  <2>5. I!Shapes'
    BY <1>0, <2>1, <2>2, <2>3, <2>4 DEF I!Shapes, Continues
  <2>6. I!SecretsTogether'
    BY <1>0, <2>1, <2>2, <2>3, <2>4 DEF Continues, I!SecretsTogether
  <2>7. I!ArchivedFirst'
    BY <1>0, <2>1, <2>2, <2>3, <2>4 DEF Continues, I!ArchivedFirst, I!Snapshot
  <2>8. I!SuccessMeansRunning'
    BY <1>0, <2>1, <2>2, <2>3, <2>4 DEF Continues, I!SuccessMeansRunning, I!Sso, I!Works, I!Brought
  <2>9. I!UnderWay'
    BY <1>0, <2>1, <2>2, <2>3, <2>4 DEF Continues, I!UnderWay, I!Works
  <2>10. I!Matched'
    BY <1>0, <2>1, <2>2, <2>3, <2>4 DEF Continues, I!Matched, I!UnderWay, I!Works, I!Sso,
         I!SecretsTogether
  <2>11. I!Outpost'
    BY <1>0, <2>1, <2>2, <2>3, <2>4 DEF Continues, I!Outpost, I!Works, I!Sso
  <2>12. I!Snapshot'
    BY <1>0, <2>1, <2>2, <2>3, <2>4 DEF Continues, I!Snapshot
  <2>13. I!Brought'
    BY <1>0, <2>1, <2>2, <2>3, <2>4 DEF Continues, I!Brought, I!Works, I!Sso, I!UnderWay
  <2>14. I!Onward'
    BY <1>0, <2>1, <2>2, <2>3, <2>4 DEF Continues, I!Onward
  <2> QED
    BY <2>5, <2>6, <2>7, <2>8, <2>9, <2>10, <2>11, <2>12, <2>13, <2>14 DEF I!HostInv
<1>13. CASE I!Up
  <2>1. /\ run.cmd \in {"bootstrap", "update"} /\ run.at = "up"
        /\ \E some \in SUBSET env.profiles :
             /\ up' = I!Started(some)
             /\ I!Fails \/ (I!Goes("token") /\ some = env.profiles)
    BY <1>13 DEF I!Up, I!At
  <2>2. PICK some \in SUBSET env.profiles :
             /\ up' = I!Started(some)
             /\ \/ Continues("ended", 1)
                \/ Continues("token", run.exit) /\ some = env.profiles
    BY <1>0, <2>1, GoesIs, FailsIs DEF I!Stages
  <2>3. /\ up' \in I!Containers /\ up'.core = files.stamp
        /\ up'.sso = (IF "authentik" \in some THEN env.secrets ELSE up.sso)
        /\ 0 \notin up'.ldap
    BY <1>0, <2>1, <2>2 DEF I!Started, I!Shapes, I!Containers, I!Envs, I!Bundled, I!Outpost,
                            I!Works, I!SecretsTogether
  <2>4. volumes' = (IF volumes = 0 THEN up'.sso ELSE volumes) /\ volumes' \in Nat
    BY <1>0, <1>13, <2>3 DEF I!Up, I!Shapes, I!Containers
  <2>5. UNCHANGED <<files, env, archive, issued, torn, kept, latest, runs>>
    BY <1>13 DEF I!Up, I!Rest
  <2>6. I!Shapes'
    BY <1>0, <2>1, <2>2, <2>3, <2>4, <2>5 DEF I!Shapes, Continues
  <2> QED
    BY <1>0, <2>1, <2>2, <2>3, <2>4, <2>5, <2>6 DEF I!HostInv, Continues, I!SecretsTogether,
         I!ArchivedFirst, I!SuccessMeansRunning, I!Sso, I!UnderWay, I!Works, I!Matched, I!Outpost,
         I!Snapshot, I!Brought, I!Onward
<1>14. CASE I!Token
  <2>1. /\ run.cmd \in {"bootstrap", "update"} /\ run.at = "token"
        /\ \/ /\ I!Sso /\ (env.token # 0 \/ issued # 0)
              /\ I!Sets([env EXCEPT !.token = IF @ = 0 THEN issued ELSE @,
                 !.profiles = @ \cup {"ldap"}], "ldap")
           \/ I!Goes("ended") /\ UNCHANGED <<env, torn>>
    BY <1>14 DEF I!Token, I!At
  <2>2. LET new == [env EXCEPT !.token = IF @ = 0 THEN issued ELSE @,
        !.profiles = @ \cup {"ldap"}] IN
          /\ new \in I!Envs /\ new.secrets = env.secrets /\ new.there = env.there
             /\ new.mode = env.mode
          /\ new.profiles = env.profiles \cup {"ldap"} /\ (new.token = 0 => env.token = 0
             /\ issued = 0)
    BY <1>0 DEF I!Shapes, I!Envs
  <2>3. /\ env' \in I!Envs /\ torn' \in BOOLEAN
        /\ \/ /\ env.mode # "none" /\ Continues("ldap", run.exit) /\ (torn => torn')
                 /\ env'.secrets = env.secrets
              /\ env'.there = env.there /\ env'.mode = env.mode /\ env'.token # 0
              /\ env'.profiles = env.profiles \cup {"ldap"}
           \/ Continues("ended", run.exit) /\ env' = env /\ (torn => torn')
           \/ /\ Continues("ended", 1) /\ (torn => torn') /\ env'.secrets = env.secrets
              /\ env'.there = env.there /\ env'.mode = env.mode
              /\ env'.profiles = env.profiles \/ (env.mode # "none"
                 /\ env'.profiles = env.profiles \cup {"ldap"})
           \/ torn' /\ Continues("ended", 1) /\ env'.mode = "" /\ env'.profiles = {}
    <3>1. CASE I!Goes("ended") /\ UNCHANGED <<env, torn>>
      BY <1>0, <3>1, GoesIs DEF I!Stages, I!Shapes
    <3>2. CASE I!Sso /\ (env.token # 0 \/ issued # 0) /\ ~(I!Goes("ended")
               /\ UNCHANGED <<env, torn>>)
      <4>1. PICK new \in I!Envs :
              /\ I!Sets(new, "ldap") /\ new.secrets = env.secrets /\ new.there = env.there
                 /\ new.mode = env.mode
              /\ new.profiles = env.profiles \cup {"ldap"} /\ new.token # 0
        BY <2>1, <2>2, <3>2
      <4>2. env.mode # "none"
        BY <3>2 DEF I!Sso
      <4> QED
        BY <1>0, <4>1, <4>2, SetsIs DEF I!Stages
    <3> QED
      BY <2>1, <3>1, <3>2
  <2>4. UNCHANGED <<files, archive, volumes, issued, up, kept, latest, runs>>
    BY <1>14 DEF I!Token, I!Rest
  <2>5. I!Shapes'
    BY <1>0, <2>1, <2>2, <2>3, <2>4 DEF I!Shapes, Continues
  <2>6. I!SecretsTogether'
    BY <1>0, <2>1, <2>2, <2>3, <2>4 DEF Continues, I!SecretsTogether
  <2>7. I!ArchivedFirst'
    BY <1>0, <2>1, <2>2, <2>3, <2>4 DEF Continues, I!ArchivedFirst, I!Snapshot
  <2>8. I!SuccessMeansRunning'
    BY <1>0, <2>1, <2>2, <2>3, <2>4 DEF Continues, I!SuccessMeansRunning, I!Sso, I!Works, I!Brought
  <2>9. I!UnderWay'
    BY <1>0, <2>1, <2>2, <2>3, <2>4 DEF Continues, I!UnderWay, I!Works
  <2>10. I!Matched'
    BY <1>0, <2>1, <2>2, <2>3, <2>4 DEF Continues, I!Matched, I!UnderWay, I!Works, I!Sso,
         I!SecretsTogether
  <2>11. I!Outpost'
    BY <1>0, <2>1, <2>2, <2>3, <2>4 DEF Continues, I!Outpost, I!Works, I!Sso
  <2>12. I!Snapshot'
    BY <1>0, <2>1, <2>2, <2>3, <2>4 DEF Continues, I!Snapshot
  <2>13. I!Brought'
    BY <1>0, <2>1, <2>2, <2>3, <2>4 DEF Continues, I!Brought, I!Works, I!Sso, I!UnderWay
  <2>14. I!Onward'
    BY <1>0, <2>1, <2>2, <2>3, <2>4 DEF Continues, I!Onward
  <2> QED
    BY <2>5, <2>6, <2>7, <2>8, <2>9, <2>10, <2>11, <2>12, <2>13, <2>14 DEF I!HostInv
<1>15. CASE I!Ldap
  <2>1. run.cmd \in {"bootstrap", "update"} /\ run.at = "ldap" /\ Continues("ended", run.exit)
    BY <1>0, <1>15, GoesIs DEF I!Ldap, I!At, I!Stages
  <2>2. /\ up' \in I!Containers /\ up'.core = up.core /\ up'.sso = up.sso /\ 0 \notin up'.ldap
    BY <1>0, <1>15, <2>1 DEF I!Ldap, I!Shapes, I!Containers, I!Envs, I!Outpost, I!Works
  <2>3. UNCHANGED <<files, env, archive, volumes, issued, torn, kept, latest, runs>>
    BY <1>15 DEF I!Ldap, I!Rest
  <2>4. I!Shapes'
    BY <1>0, <2>1, <2>2, <2>3 DEF I!Shapes, Continues
  <2> QED
    BY <1>0, <2>1, <2>2, <2>3, <2>4 DEF I!HostInv, Continues, I!SecretsTogether, I!ArchivedFirst,
         I!SuccessMeansRunning, I!Sso, I!UnderWay, I!Works, I!Matched, I!Outpost, I!Snapshot,
         I!Brought, I!Onward
<1>16. CASE I!Provisions
  <2>1. issued' = volumes /\ UNCHANGED <<latest, ours, files, env, archive, volumes, up, run, torn,
        kept, runs>>
    BY <1>16 DEF I!Provisions
  <2>2. I!Shapes'
    BY <1>0, <2>1 DEF I!Shapes
  <2> QED
    BY <1>0, <2>1, <2>2 DEF I!HostInv, I!SecretsTogether, I!ArchivedFirst, I!SuccessMeansRunning,
                            I!Sso, I!UnderWay, I!Works, I!Matched, I!Outpost, I!Snapshot, I!Brought,
                            I!Onward
<1>17. CASE I!StopStack
  <2>1. run.cmd = "teardown" /\ run.at = "stop" /\ Continues("remove", run.exit)
    BY <1>0, <1>17, GoesIs DEF I!StopStack, I!Teardown, I!At, I!Stages
  <2>2. /\ up' \in I!Containers /\ (up' = up \/ (up'.sso = 0 /\ up'.ldap = {}))
           /\ UNCHANGED <<files, env>>
        /\ \/ UNCHANGED <<volumes, issued>>
           \/ volumes' = 0 /\ issued' = 0 /\ up'.sso = 0
    <3>1. /\ up' = I!Downed(TRUE) \/ UNCHANGED <<volumes, issued, up>>
          /\ \/ UNCHANGED <<volumes, issued>>
             \/ I!Found /\ volumes' = 0 /\ issued' = 0 /\ up' = I!Downed(TRUE)
          /\ UNCHANGED <<files, env>>
      BY <1>17 DEF I!StopStack, I!Teardown
    <3> QED
      BY <1>0, <3>1 DEF I!Downed, I!Down, I!Shapes, I!Containers
  <2>3. UNCHANGED <<archive, torn, kept, latest, runs>>
    BY <1>17 DEF I!StopStack, I!Teardown, I!Rest
  <2>4. I!Shapes'
    BY <1>0, <2>1, <2>2, <2>3 DEF I!Shapes, Continues
  <2>5. I!SecretsTogether'
    BY <1>0, <2>1, <2>2, <2>3 DEF Continues, I!SecretsTogether
  <2>6. I!ArchivedFirst'
    BY <1>0, <2>1, <2>2, <2>3 DEF Continues, I!ArchivedFirst, I!Snapshot
  <2>7. I!SuccessMeansRunning'
    BY <1>0, <2>1, <2>2, <2>3 DEF Continues, I!SuccessMeansRunning, I!Sso, I!Works, I!Brought
  <2>8. I!UnderWay'
    BY <1>0, <2>1, <2>2, <2>3 DEF Continues, I!UnderWay, I!Works
  <2>9. I!Matched'
    BY <1>0, <2>1, <2>2, <2>3 DEF Continues, I!Matched, I!UnderWay, I!Works, I!Sso,
                                  I!SecretsTogether
  <2>10. I!Outpost'
    BY <1>0, <2>1, <2>2, <2>3 DEF Continues, I!Outpost, I!Works, I!Sso
  <2>11. I!Snapshot'
    BY <1>0, <2>1, <2>2, <2>3 DEF Continues, I!Snapshot
  <2>12. I!Brought'
    BY <1>0, <2>1, <2>2, <2>3 DEF Continues, I!Brought, I!Works, I!Sso, I!UnderWay
  <2>13. I!Onward'
    BY <1>0, <2>1, <2>2, <2>3 DEF Continues, I!Onward
  <2> QED
    BY <2>4, <2>5, <2>6, <2>7, <2>8, <2>9, <2>10, <2>11, <2>12, <2>13 DEF I!HostInv
<1>18. CASE I!RemoveContainers
  <2>1. run.cmd = "teardown" /\ run.at = "remove" /\ (Continues("ended", run.exit)
        \/ Continues("sweep", run.exit))
    BY <1>0, <1>18, GoesIs DEF I!RemoveContainers, I!Teardown, I!At, I!Stages
  <2>2. /\ up' \in I!Containers /\ up'.sso = up.sso /\ up'.ldap = up.ldap
        /\ UNCHANGED <<files, env, volumes, issued>>
    <3>1. /\ up' = [up EXCEPT !.core = 0] \/ UNCHANGED up
          /\ UNCHANGED <<files, env, volumes, issued>>
      BY <1>18 DEF I!RemoveContainers, I!Teardown
    <3> QED
      BY <1>0, <3>1 DEF I!Shapes, I!Containers
  <2>3. UNCHANGED <<archive, torn, kept, latest, runs>>
    BY <1>18 DEF I!RemoveContainers, I!Teardown, I!Rest
  <2>4. I!Shapes'
    BY <1>0, <2>1, <2>2, <2>3 DEF I!Shapes, Continues
  <2>5. I!SecretsTogether'
    BY <1>0, <2>1, <2>2, <2>3 DEF Continues, I!SecretsTogether
  <2>6. I!ArchivedFirst'
    BY <1>0, <2>1, <2>2, <2>3 DEF Continues, I!ArchivedFirst, I!Snapshot
  <2>7. I!SuccessMeansRunning'
    BY <1>0, <2>1, <2>2, <2>3 DEF Continues, I!SuccessMeansRunning, I!Sso, I!Works, I!Brought
  <2>8. I!UnderWay'
    BY <1>0, <2>1, <2>2, <2>3 DEF Continues, I!UnderWay, I!Works
  <2>9. I!Matched'
    BY <1>0, <2>1, <2>2, <2>3 DEF Continues, I!Matched, I!UnderWay, I!Works, I!Sso,
                                  I!SecretsTogether
  <2>10. I!Outpost'
    BY <1>0, <2>1, <2>2, <2>3 DEF Continues, I!Outpost, I!Works, I!Sso
  <2>11. I!Snapshot'
    BY <1>0, <2>1, <2>2, <2>3 DEF Continues, I!Snapshot
  <2>12. I!Brought'
    BY <1>0, <2>1, <2>2, <2>3 DEF Continues, I!Brought, I!Works, I!Sso, I!UnderWay
  <2>13. I!Onward'
    BY <1>0, <2>1, <2>2, <2>3 DEF Continues, I!Onward
  <2> QED
    BY <2>4, <2>5, <2>6, <2>7, <2>8, <2>9, <2>10, <2>11, <2>12, <2>13 DEF I!HostInv
<1>19. CASE I!Sweep
  <2>1. run.cmd = "teardown" /\ run.at = "sweep" /\ Continues("wipe", run.exit)
    BY <1>0, <1>19, GoesIs DEF I!Sweep, I!Teardown, I!At, I!Stages
  <2>2. /\ volumes' \in {0, volumes} /\ (volumes' = volumes \/ up.sso = 0)
           /\ issued' \in {0, issued}
        /\ UNCHANGED <<files, env, up>>
    BY <1>0, <1>19, NoEnvIs DEF I!Sweep, I!Teardown, I!Swept, I!Shapes
  <2>3. UNCHANGED <<archive, torn, kept, latest, runs>>
    BY <1>19 DEF I!Sweep, I!Teardown, I!Rest
  <2>4. I!Shapes'
    BY <1>0, <2>1, <2>2, <2>3 DEF I!Shapes, Continues
  <2>5. I!SecretsTogether'
    BY <1>0, <2>1, <2>2, <2>3 DEF Continues, I!SecretsTogether
  <2>6. I!ArchivedFirst'
    BY <1>0, <2>1, <2>2, <2>3 DEF Continues, I!ArchivedFirst, I!Snapshot
  <2>7. I!SuccessMeansRunning'
    BY <1>0, <2>1, <2>2, <2>3 DEF Continues, I!SuccessMeansRunning, I!Sso, I!Works, I!Brought
  <2>8. I!UnderWay'
    BY <1>0, <2>1, <2>2, <2>3 DEF Continues, I!UnderWay, I!Works
  <2>9. I!Matched'
    BY <1>0, <2>1, <2>2, <2>3 DEF Continues, I!Matched, I!UnderWay, I!Works, I!Sso,
                                  I!SecretsTogether
  <2>10. I!Outpost'
    BY <1>0, <2>1, <2>2, <2>3 DEF Continues, I!Outpost, I!Works, I!Sso
  <2>11. I!Snapshot'
    BY <1>0, <2>1, <2>2, <2>3 DEF Continues, I!Snapshot
  <2>12. I!Brought'
    BY <1>0, <2>1, <2>2, <2>3 DEF Continues, I!Brought, I!Works, I!Sso, I!UnderWay
  <2>13. I!Onward'
    BY <1>0, <2>1, <2>2, <2>3 DEF Continues, I!Onward
  <2> QED
    BY <2>4, <2>5, <2>6, <2>7, <2>8, <2>9, <2>10, <2>11, <2>12, <2>13 DEF I!HostInv
<1>20. CASE I!Wipe
  <2>1. run.cmd = "teardown" /\ run.at = "wipe" /\ Continues("ended", run.exit)
    BY <1>0, <1>20, GoesIs DEF I!Wipe, I!Teardown, I!At, I!Stages
  <2>2. /\ UNCHANGED <<volumes, issued, up>>
        /\ \/ UNCHANGED <<files, env>>
           \/ files' \in I!Bundled /\ files'.stamp = 0 /\ env' = I!NoEnv /\ env' \in I!Envs
              /\ ~env'.there /\ env'.profiles = {}
    <3>1. /\ UNCHANGED <<volumes, issued, up>>
          /\ \/ UNCHANGED <<files, env>>
             \/ files' = [stamp |-> 0, rest |-> 0] /\ env' = I!NoEnv
      BY <1>20 DEF I!Wipe, I!Teardown
    <3>2. [stamp |-> 0, rest |-> 0] \in I!Bundled /\ [stamp |-> 0, rest |-> 0].stamp = 0
      BY DEF I!Bundled
    <3> QED
      BY <3>1, <3>2, NoEnvIs
  <2>3. UNCHANGED <<archive, torn, kept, latest, runs>>
    BY <1>20 DEF I!Wipe, I!Teardown, I!Rest
  <2>4. I!Shapes'
    BY <1>0, <2>1, <2>2, <2>3 DEF I!Shapes, Continues
  <2> QED
    BY <1>0, <2>1, <2>2, <2>3, <2>4 DEF I!HostInv, Continues, I!SecretsTogether, I!ArchivedFirst,
         I!SuccessMeansRunning, I!Sso, I!UnderWay, I!Works, I!Matched, I!Outpost, I!Snapshot,
         I!Brought, I!Onward
<1> QED
  BY <1>1, <1>2, <1>3, <1>4, <1>5, <1>6, <1>7, <1>8, <1>9, <1>10, <1>11, <1>12, <1>13, <1>14, <1>15,
       <1>16, <1>17, <1>18, <1>19, <1>20 DEF I!Next

(* It holds at first.                                                       *)
LEMMA FirstHost == ASSUME I!Init PROVE I!HostInv
<1> DEFINE latest == v1  ours == v2  files == v3  env == v4  archive == v5  volumes
             == v6  issued == v7  up == v8  run == v9  torn == v10  kept == v11  runs == v12
             troubles == v13
<1>1. I!Idle \in I!Commands /\ I!Idle.cmd = "none" /\ I!Idle.at = "ended" /\ I!Idle.target = 0
  BY NoEnvIs DEF I!Idle, I!Commands, I!Stages
<1>2. I!Down \in I!Containers /\ I!Down.sso = 0 /\ I!Down.ldap = {}
  BY DEF I!Down, I!Containers
<1>3. I!Shapes
  BY <1>1, <1>2, NoEnvIs DEF I!Init, I!Shapes, I!Bundled
<1>4. files.stamp = 0 /\ run.target = 0 /\ latest = 1
  BY <1>1 DEF I!Init
<1>5. I!SecretsTogether /\ I!ArchivedFirst /\ I!SuccessMeansRunning /\ I!UnderWay /\ I!Snapshot
      /\ I!Brought /\ I!Onward
  BY <1>1, <1>2, <1>4 DEF I!Init, I!SecretsTogether, I!ArchivedFirst, I!SuccessMeansRunning,
                          I!UnderWay, I!Works, I!Snapshot, I!Brought, I!Onward
<1>6. I!Matched /\ I!Outpost
  BY <1>1, NoEnvIs DEF I!Init, I!Matched, I!Outpost, I!Works
<1> QED
  BY <1>3, <1>5, <1>6 DEF I!HostInv

(* No step goes back unasked.                                               *)
LEMMA NeverBack == ASSUME I!HostInv, I!Next PROVE I!NoDowngrade
<1> DEFINE latest == v1  ours == v2  files == v3  env == v4  archive == v5  volumes
             == v6  issued == v7  up == v8  run == v9  torn == v10  kept == v11  runs == v12
             troubles == v13
<1>0. /\ I!Shapes /\ I!Onward /\ files.stamp \in Nat /\ run.target \in Nat
  BY DEF I!HostInv, I!Shapes, I!Bundled, I!Commands
<1>1. CASE UNCHANGED files
  BY <1>0, <1>1 DEF I!NoDowngrade
<1>2. CASE I!Fetch
  <2>1. /\ run.at = "fetch" /\ files'.stamp \in {files.stamp, run.target}
    BY <1>2 DEF I!Fetch, I!At
  <2> QED
    BY <1>0, <2>1 DEF I!NoDowngrade, I!Onward
<1>3. CASE I!Wipe
  <2>1. run.cmd = "teardown"
    BY <1>3 DEF I!Wipe, I!Teardown, I!At
  <2> QED
    BY <2>1 DEF I!NoDowngrade
<1>4. I!Next => UNCHANGED files \/ I!Fetch \/ I!Wipe
  BY DEF I!Next, I!Publish, I!Types, I!Dies, I!SelfUpdate, I!Probe, I!Reset, I!Read, I!Backup,
         I!EnableSso, I!Write, I!Secrets, I!Up, I!Token, I!Ldap, I!Provisions, I!StopStack,
         I!RemoveContainers, I!Sweep, I!Teardown, I!host
<1> QED
  BY <1>1, <1>2, <1>3, <1>4

(* The invariant holds at first, whichever component runs.                  *)
LEMMA InitHost == Init => HostsInv
<1> SUFFICES ASSUME I!Init PROVE I!HostInv
  BY Zenon DEF Init, HostsInv
<1> QED
  BY FirstHost

(* It is inductive, and no step goes back unasked.                          *)
LEMMA NextHost ==
  HostsInv /\ [Next]_vars =>
    /\ HostsInv'
    /\ [which = "host" =>
          /\ I!SecretsTogether' /\ I!ArchivedFirst' /\ I!SuccessMeansRunning'
          /\ I!NoDowngrade]_vars
<1> SUFFICES ASSUME HostsInv, [Next]_vars, which = "host" \/ which' = "host"
             PROVE  I!HostInv' /\ I!NoDowngrade
  BY DEF HostsInv, I!HostInv
<1>1. which = "host"
  BY Zenon DEF Next, vars
<1>2. I!HostInv
  BY <1>1 DEF HostsInv
<1>3. CASE Next
  <2>1. I!Next
    BY <1>1, <1>3, Zenon DEF Next
  <2> QED
    BY <1>2, <2>1, HostSteps, NeverBack
<1>4. CASE UNCHANGED vars
  <2>1. UNCHANGED <<v1, v2, v3, v4, v5, v6, v7, v8, v9, v10, v11, v12>>
    BY <1>4 DEF vars
  <2>2. I!HostInv'
    BY <1>2, <2>1 DEF I!HostInv, I!Shapes, I!SecretsTogether, I!ArchivedFirst,
                      I!SuccessMeansRunning, I!Sso, I!UnderWay, I!Works, I!Matched, I!Outpost,
                      I!Snapshot, I!Brought, I!Onward
  <2>3. v3.stamp \in Nat
    BY <1>2 DEF I!HostInv, I!Shapes, I!Bundled
  <2> QED
    BY <2>1, <2>2, <2>3 DEF I!NoDowngrade
<1> QED
  BY <1>3, <1>4

(* HostStaysWhole: however commands fail half way and are tried again, the  *)
(* platform keeps the secrets its database was made with, is changed after  *)
(* a snapshot only, is what a command that succeeds says it is, and goes    *)
(* back to no older version (bootstrap.ts, update.ts, install.sh), but for  *)
(* the cases the property excepts.                                          *)
THEOREM HostStaysWholeHolds == Spec => HostStaysWhole
<1>1. HostsInv /\ [Next]_vars =>
        [which = "host" =>
           /\ I!SecretsTogether' /\ I!ArchivedFirst' /\ I!SuccessMeansRunning'
           /\ I!NoDowngrade]_vars
  BY NextHost
<1> QED
  BY <1>1, InitHost, NextHost, PTL DEF Spec, HostStaysWhole

-----------------------------------------------------------------------------
(* The inductive invariant of the page, while it runs.                      *)
ViewsInv == which = "live" => L!ViewInv

(* What an answer, and what is asked for, look like.                        *)
LEMMA Replies ==
  ASSUME v1 \in Nat
  PROVE  /\ L!Idle \in L!KnownReply /\ L!Idle.at = "idle"
         /\ L!Sent \in L!KnownReply /\ L!Sent.at = "sent"
         /\ ~L!Idle.cached /\ ~L!Sent.cached
<1>1. L!Unseen \in L!Known
  BY DEF L!Known, L!Unseen
<1> QED
  BY <1>1 DEF L!Idle, L!Sent, L!KnownReply

(* The same of what is asked, with something kept or without.               *)
LEMMA Askings ==
  ASSUME v1 \in Nat, NEW kept \in L!Known
  PROVE  L!Asked(kept) \in L!KnownReply /\ (L!Asked(kept).at = "answered" => L!Asked(kept).cached)
<1>1. CASE kept = L!Unseen
  BY <1>1, Replies DEF L!Asked
<1>2. CASE kept # L!Unseen
  BY <1>2 DEF L!Asked, L!KnownReply
<1> QED
  BY <1>1, <1>2

(* And of an answer.                                                        *)
LEMMA AnswersFrom ==
  ASSUME v1 \in Nat, NEW r \in L!KnownReply
  PROVE  /\ L!Answered(r) \in L!KnownReply
         /\ L!Answered(r).at = "answered" /\ L!Answered(r).saw = v1
            /\ L!Answered(r).cached = r.cached
<1> DEFINE server == v1
<1>1. server \in L!Known
  BY DEF L!Known
<1> QED
  BY <1>1 DEF L!Answered, L!KnownReply

(* What the page shows, and what it is asking.                              *)
Views == [page : L!Pages, data : L!Known, fetch : L!KnownReply]

(* What is fetched next when a query is asked again that shows data by      *)
(* then: what it was asked for before only where the data are the same; the *)
(* request that is dropped runs on.                                         *)
LEMMA Refetches ==
  ASSUME L!ViewInv, NEW kept \in L!Known, NEW v \in Views,
         v.fetch = L!Idle \/ v = v8 \/ (v.fetch = v8.fetch /\ v.data \notin {L!Unseen, L!Gone}),
         L!Refetch(v, kept)
  PROVE  /\ v8' \in Views /\ v8'.data = v.data
         /\ \/ v8'.fetch = L!Idle \/ v8'.fetch = L!Asked(kept)
            \/ v8'.fetch = v8.fetch /\ v8'.data = v8.data
         /\ v10' \in {v10, v8.fetch} /\ v10' \in L!KnownReply /\ ~v10'.cached
<1> DEFINE server == v1  view == v8  stray == v10  act == v11
<1>1. server \in Nat /\ view \in Views /\ stray \in L!KnownReply /\ ~stray.cached
  BY StatesAssumption DEF L!ViewInv, L!NothingAhead, L!AnswersAreNews, Views, L!Versions, L!Gone
<1>2. /\ stray' = stray \/ (stray' = view.fetch /\ ~view.fetch.cached)
      /\ view' = IF L!Restarts(v) THEN [v EXCEPT !.fetch = L!Asked(kept)] ELSE v
  BY DEF L!Refetch
<1>3. view.fetch \in L!KnownReply /\ v.fetch \in L!KnownReply
  BY <1>1 DEF Views
<1>4. stray' \in {stray, view.fetch} /\ stray' \in L!KnownReply /\ ~stray'.cached
  BY <1>1, <1>2, <1>3
<1>5. L!Asked(kept) \in L!KnownReply
  BY <1>1, Askings
<1>6. CASE L!Restarts(v)
  <2>1. view' = [v EXCEPT !.fetch = L!Asked(kept)]
    BY <1>2, <1>6
  <2>2. view' \in Views /\ view'.data = v.data /\ view'.fetch = L!Asked(kept)
    BY <1>5, <2>1 DEF Views
  <2> QED
    BY <1>4, <2>2
<1>7. CASE ~L!Restarts(v)
  <2>1. view' = v
    BY <1>2, <1>7
  <2>2. v.fetch = L!Idle \/ v = view
    BY <1>7 DEF L!Restarts, L!Gone
  <2> QED
    BY <1>4, <2>1, <2>2
<1> QED
  BY <1>6, <1>7

(* What an answer from before the operator's own action is not.             *)
KnowsOwnAction(r) == r.at = "answered" /\ ~r.cached => r.saw >= v11.led

(* The invariant, when a query is asked again and the server stays as it is.*)
LEMMA RefetchKeeps ==
  ASSUME L!ViewInv, NEW kept \in L!Known, NEW v \in Views,
         v.fetch = L!Idle \/ v = v8 \/ (v.fetch = v8.fetch /\ v.data \notin {L!Unseen, L!Gone}),
         L!Refetch(v, kept), v1' = v1, v3' \in Seq(L!Known), v9' \in L!Known,
         v11' \in [at : {"none", "sent", "handled", "confirmed"}, led : L!Known, crossed : BOOLEAN],
         v11'.at = "confirmed" /\ ~v11'.crossed =>
           /\ v11'.led = v11.led /\ (v9' = L!Unseen \/ v9' >= v11.led)
           /\ KnowsOwnAction(v8.fetch) /\ KnowsOwnAction(v10)
  PROVE  L!ViewInv'
<1> DEFINE server == v1  view == v8  stray == v10
<1>1. server \in Nat
  BY StatesAssumption DEF L!ViewInv, L!NothingAhead, L!Versions, L!Gone
<1>2. /\ view' \in Views /\ view'.data = v.data
      /\ \/ view'.fetch = L!Idle \/ view'.fetch = L!Asked(kept)
         \/ view'.fetch = view.fetch /\ view'.data = view.data
      /\ stray' \in {stray, view.fetch} /\ stray' \in L!KnownReply /\ ~stray'.cached
  BY Refetches
<1>3. L!NothingAhead'
  BY <1>2 DEF L!ViewInv, L!NothingAhead, Views, L!Known, L!KnownReply
<1>4. L!Idle.at = "idle" /\ (L!Asked(kept).at = "answered" => L!Asked(kept).cached)
  BY <1>1, Replies, Askings
<1>5. L!AnswersAreNews'
  BY <1>2, <1>4 DEF L!ViewInv, L!AnswersAreNews
<1>6. L!KeepsOwnAction'
  BY <1>2, <1>4 DEF L!KeepsOwnAction, KnowsOwnAction
<1> QED
  BY <1>3, <1>5, <1>6 DEF L!ViewInv

(* A step of the stream, or of the operator, leaves the requests alone.     *)
LEMMA QuietKeeps ==
  ASSUME L!ViewInv, UNCHANGED <<v1, v8, v9, v10, v11>>, v3' \in Seq(L!Known)
  PROVE  L!ViewInv'
  BY DEF L!ViewInv, L!NothingAhead, L!AnswersAreNews, L!KeepsOwnAction, L!Known, L!KnownReply

(* The server goes on; what is known stays known.                           *)
LEMMA ServerKeeps ==
  ASSUME L!ViewInv, v1' \in L!Versions \cup {L!Gone}, v1' >= v1,
         UNCHANGED <<v3, v8, v9, v10>>,
         v11' = v11 \/ /\ v11.at # "confirmed" /\ v11'.at # "confirmed"
                       /\ v11' \in [at : {"none", "sent", "handled", "confirmed"}, led : L!Known',
                                    crossed : BOOLEAN]
  PROVE  L!ViewInv'
<1> DEFINE server == v1  events == v3  view == v8  cache == v9  stray == v10  act == v11
<1>1. server \in Nat /\ server' \in Nat
  BY StatesAssumption DEF L!ViewInv, L!NothingAhead, L!Versions, L!Gone
<1>2. L!Known \subseteq L!Known'
  BY <1>1 DEF L!Known
<1>3. L!KnownReply \subseteq L!KnownReply'
  BY <1>2 DEF L!KnownReply
<1>4. events' \in Seq(L!Known')
  <2>1. events \in Seq(L!Known)
    BY DEF L!ViewInv, L!NothingAhead
  <2> QED
    BY <1>2, <2>1
<1>5. /\ view' \in [page : L!Pages, data : L!Known', fetch : L!KnownReply']
      /\ cache' \in L!Known' /\ stray' \in L!KnownReply'
  BY <1>2, <1>3 DEF L!ViewInv, L!NothingAhead
<1>6. act' \in [at : {"none", "sent", "handled", "confirmed"}, led : L!Known', crossed : BOOLEAN]
  BY <1>2 DEF L!ViewInv, L!NothingAhead
<1>7. L!NothingAhead'
  BY <1>4, <1>5, <1>6 DEF L!NothingAhead
<1>8. L!AnswersAreNews' /\ L!KeepsOwnAction'
  BY DEF L!ViewInv, L!AnswersAreNews, L!KeepsOwnAction
<1> QED
  BY <1>7, <1>8 DEF L!ViewInv

(* A step of the page's own request, with the server as it is.              *)
LEMMA FetchKeeps ==
  ASSUME L!ViewInv, UNCHANGED <<v1, v3, v11>>, v9' \in L!Known,
         v8' \in Views, v10' \in L!KnownReply, ~v10'.cached,
         v8'.fetch.at = "answered" /\ ~v8'.fetch.cached => v8'.fetch.saw >= v8'.data,
         v11.at = "confirmed" /\ ~v11.crossed =>
           /\ v9' = L!Unseen \/ v9' >= v11.led
           /\ KnowsOwnAction(v8'.fetch) /\ KnowsOwnAction(v10')
  PROVE  L!ViewInv'
<1>1. L!NothingAhead'
  BY DEF L!ViewInv, L!NothingAhead, Views, L!Known, L!KnownReply
<1> QED
  BY <1>1 DEF L!ViewInv, L!AnswersAreNews, L!KeepsOwnAction, KnowsOwnAction

(* What the invariant says of each of its parts.                            *)
LEMMA ViewParts ==
  ASSUME L!ViewInv
  PROVE  /\ v1 \in Nat /\ v1 \in L!Versions \cup {L!Gone} /\ v8 \in Views
         /\ v8.data \in L!Known /\ v8.fetch \in L!KnownReply /\ v8.fetch.saw \in L!Known
         /\ v9 \in L!Known /\ v10 \in L!KnownReply /\ ~v10.cached /\ v10.saw \in L!Known
         /\ v11 \in [at : {"none", "sent", "handled", "confirmed"}, led : L!Known,
            crossed : BOOLEAN]
         /\ v3 \in Seq(L!Known) /\ <<>> \in Seq(L!Known)
         /\ v11.led <= v1 /\ v8.data <= v1 /\ L!Unseen \in L!Known
         /\ v11.at = "confirmed" /\ ~v11.crossed =>
              /\ v9 = L!Unseen \/ v9 >= v11.led
              /\ KnowsOwnAction(v8.fetch) /\ KnowsOwnAction(v10)
         /\ v8.fetch.at = "answered" /\ ~v8.fetch.cached => v8.fetch.saw >= v8.data
<1> DEFINE server == v1  view == v8  stray == v10  act == v11
<1>1. server \in Nat
  BY StatesAssumption DEF L!ViewInv, L!NothingAhead, L!Versions, L!Gone
<1>2. view \in Views /\ view.fetch \in L!KnownReply /\ stray \in L!KnownReply /\ act.led \in L!Known
  BY DEF L!ViewInv, L!NothingAhead, Views
<1>3. view.fetch.saw \in L!Known /\ stray.saw \in L!Known /\ view.data \in L!Known
  BY <1>2 DEF L!KnownReply, Views
<1>4. act.led <= server /\ view.data <= server /\ L!Unseen \in L!Known
  BY <1>1, <1>2, <1>3 DEF L!Known, L!Unseen
<1> QED
  BY <1>1, <1>2, <1>3, <1>4 DEF L!ViewInv, L!NothingAhead, L!AnswersAreNews, L!KeepsOwnAction,
                                KnowsOwnAction

(* The page is answered what the server says by now.                        *)
LEMMA AnswerKeeps == ASSUME L!ViewInv, L!Answer PROVE L!ViewInv'
<1> DEFINE server == v1  events == v3  view == v8  cache == v9  stray == v10  act == v11
<1>1. /\ view' = [view EXCEPT !.fetch = L!Answered(view.fetch)]
      /\ UNCHANGED <<server, events, cache, stray, act>>
  BY DEF L!Answer, L!stream
<1>2. /\ L!Answered(view.fetch) \in L!KnownReply /\ L!Answered(view.fetch).at = "answered"
      /\ L!Answered(view.fetch).saw = server
  BY ViewParts, AnswersFrom
<1>3. view' \in Views /\ view'.fetch = L!Answered(view.fetch) /\ view'.data = view.data
  BY <1>1, <1>2, ViewParts DEF Views
<1>4. view'.fetch.saw >= view'.data /\ KnowsOwnAction(view'.fetch)
  BY <1>2, <1>3, ViewParts DEF KnowsOwnAction
<1> QED
  BY <1>1, <1>3, <1>4, ViewParts, FetchKeeps

(* The answer arrives; what is kept of it knows what it knew.               *)
LEMMA ArriveKeeps == ASSUME L!ViewInv, L!Arrive PROVE L!ViewInv'
<1> DEFINE server == v1  events == v3  view == v8  cache == v9  stray == v10  act == v11
<1>1. /\ view.fetch.at = "answered" /\ UNCHANGED <<server, events, stray, act>>
      /\ cache' = IF view.fetch.cached \/ L!NotFound(view.fetch) THEN cache ELSE view.fetch.saw
  BY DEF L!Arrive, L!stream
<1>2. view' \in Views /\ view'.fetch.at = "idle"
  <2> DEFINE data == IF L!NotFound(view.fetch) THEN view.data ELSE view.fetch.saw
  <2>1. view' = [view EXCEPT !.data = data, !.fetch = L!Idle]
    BY DEF L!Arrive
  <2>2. data \in L!Known
    BY ViewParts
  <2> HIDE DEF data
  <2> QED
    BY <2>1, <2>2, ViewParts, Replies DEF Views
<1>3. /\ cache' \in L!Known
      /\ act.at = "confirmed" /\ ~act.crossed => cache' = L!Unseen \/ cache' >= act.led
  BY <1>1, ViewParts DEF KnowsOwnAction
<1> QED
  BY <1>1, <1>2, <1>3, ViewParts, FetchKeeps DEF KnowsOwnAction

(* A fetch fails.                                                           *)
LEMMA FetchFailsKeeps == ASSUME L!ViewInv, L!FetchFails PROVE L!ViewInv'
<1> DEFINE server == v1  events == v3  view == v8  cache == v9  stray == v10  act == v11
<1>1. view' = [view EXCEPT !.fetch = L!Idle] /\ UNCHANGED <<server, events, cache, stray, act>>
  BY DEF L!FetchFails, L!stream
<1>2. view' \in Views /\ view'.fetch.at = "idle"
  BY <1>1, ViewParts, Replies DEF Views
<1> QED
  BY <1>1, <1>2, ViewParts, FetchKeeps DEF KnowsOwnAction

(* The request that was dropped is answered, and its answer kept.           *)
LEMMA StrayKeeps == ASSUME L!ViewInv, L!Straying PROVE L!ViewInv'
<1> DEFINE server == v1  events == v3  view == v8  cache == v9  stray == v10  act == v11
<1>1. CASE L!StrayAnswer
  <2>1. stray' = L!Answered(stray) /\ UNCHANGED <<server, events, view, cache, act>>
    BY <1>1 DEF L!StrayAnswer, L!stream
  <2>2. stray' \in L!KnownReply /\ ~stray'.cached /\ stray'.saw = server
    BY <2>1, ViewParts, AnswersFrom
  <2> QED
    BY <2>1, <2>2, ViewParts, FetchKeeps DEF KnowsOwnAction
<1>2. CASE L!StrayArrive
  <2>1. /\ stray.at = "answered" /\ stray' = L!Idle /\ UNCHANGED <<server, events, view, act>>
        /\ cache' \in {cache, stray.saw}
    BY <1>2 DEF L!StrayArrive, L!stream
  <2>2. /\ cache' \in L!Known
        /\ act.at = "confirmed" /\ ~act.crossed => cache' = L!Unseen \/ cache' >= act.led
    BY <2>1, ViewParts DEF KnowsOwnAction
  <2>3. stray' \in L!KnownReply /\ ~stray'.cached /\ stray'.at = "idle"
    BY <2>1, ViewParts, Replies
  <2> QED
    BY <2>1, <2>2, <2>3, ViewParts, FetchKeeps DEF KnowsOwnAction
<1> QED
  BY <1>1, <1>2 DEF L!Straying

(* What was kept is dropped.                                                *)
LEMMA ExpireKeeps == ASSUME L!ViewInv, L!Expire PROVE L!ViewInv'
<1> DEFINE server == v1  events == v3  view == v8  cache == v9  stray == v10  act == v11
<1>1. cache' = L!Unseen /\ UNCHANGED <<server, events, view, stray, act>>
  BY DEF L!Expire, L!stream
<1> QED
  BY <1>1, ViewParts, FetchKeeps

(* The page asks by itself.                                                 *)
LEMMA AskKeeps == ASSUME L!ViewInv, L!Ask PROVE L!ViewInv'
<1> DEFINE server == v1  events == v3  view == v8  cache == v9  stray == v10  act == v11
<1>1. view' = [view EXCEPT !.fetch = L!Asked(cache)]
      /\ UNCHANGED <<server, events, cache, stray, act>>
  BY DEF L!Ask, L!stream
<1>2. L!Asked(cache) \in L!KnownReply /\ (L!Asked(cache).at = "answered" => L!Asked(cache).cached)
  BY ViewParts, Askings
<1>3. view' \in Views /\ view'.fetch = L!Asked(cache)
  BY <1>1, <1>2, ViewParts DEF Views
<1> QED
  BY <1>1, <1>2, <1>3, ViewParts, FetchKeeps DEF KnowsOwnAction

(* The server is asked for the operator's action, and has carried it out.   *)
LEMMA ActHandledKeeps == ASSUME L!ViewInv, L!ActHandled PROVE L!ViewInv'
<1> DEFINE server == v1  events == v3  view == v8  cache == v9  stray == v10  act == v11
<1>1. /\ act.at = "sent" /\ server < MaxStates /\ server' = server + 1
      /\ act' = [act EXCEPT !.at = "handled", !.led = server + 1]
      /\ UNCHANGED <<events, view, cache, stray>>
  BY DEF L!ActHandled, L!stream
<1>2. server' \in L!Versions \cup {L!Gone} /\ server' \in L!Known' /\ server' >= server
  BY <1>1, ViewParts, StatesAssumption DEF L!Versions, L!Known
<1>3. /\ act'.at = "handled"
      /\ act' \in [at : {"none", "sent", "handled", "confirmed"}, led : L!Known', crossed : BOOLEAN]
  BY <1>1, <1>2, ViewParts
<1> QED
  BY <1>1, <1>2, <1>3, ServerKeeps

(* The answer to the action drops what is kept; what is on its way by then  *)
(* has crossed it, or knows of it.                                          *)
LEMMA ActConfirmedKeeps == ASSUME L!ViewInv, L!ActConfirmed PROVE L!ViewInv'
<1> DEFINE server == v1  events == v3  view == v8  cache == v9  stray == v10  act == v11
<1>1. /\ act.at = "handled" /\ act' = [act EXCEPT !.at = "confirmed", !.crossed = L!Crossing]
      /\ cache' = L!Unseen /\ L!Refetch(view, L!Unseen) /\ UNCHANGED <<server, events>>
  BY DEF L!ActConfirmed, L!stream
<1>2. /\ act'.at = "confirmed" /\ act'.led = act.led /\ (act'.crossed <=> L!Crossing)
      /\ act' \in [at : {"none", "sent", "handled", "confirmed"}, led : L!Known, crossed : BOOLEAN]
  <2>1. L!Crossing \in BOOLEAN
    BY DEF L!Crossing
  <2> QED
    BY <1>1, <2>1, ViewParts
<1>3. ~L!Crossing => KnowsOwnAction(view.fetch) /\ KnowsOwnAction(stray)
  BY ViewParts DEF L!Crossing, KnowsOwnAction, L!Known
<1> QED
  BY <1>1, <1>2, <1>3, ViewParts, RefetchKeeps

(* An event patches the page with nothing older and has it ask again.       *)
LEMMA EventPatches ==
  ASSUME L!ViewInv, L!HandleEvent
  PROVE  /\ v3' \in Seq(L!Known) /\ UNCHANGED <<v1, v9, v11>>
         /\ \E w \in Views :
              /\ w.fetch = L!Idle \/ w = v8 \/ (w.fetch = v8.fetch
                 /\ w.data \notin {L!Unseen, L!Gone})
              /\ w.data >= v8.data /\ L!Refetch(w, v9)
<1> DEFINE server == v1  events == v3  view == v8  cache == v9  act == v11
<1> DEFINE v == Head(events)
           w == IF view.page = "list" THEN view
                ELSE IF v = L!Gone THEN [view EXCEPT !.data = L!Gone,
                !.fetch = L!Idle] ELSE L!Patched(view, v)
<1>1. /\ events # <<>> /\ events' = Tail(events) /\ L!Refetch(w, cache)
      /\ UNCHANGED <<server, cache, act>>
  BY DEF L!HandleEvent
<1>2. v \in L!Known /\ events' \in Seq(L!Known)
  BY <1>1, ViewParts
<1>0. \/ w = view
      \/ w = [view EXCEPT !.data = L!Gone, !.fetch = L!Idle] /\ v = L!Gone
      \/ w = [view EXCEPT !.data = v] /\ view.data # L!Unseen /\ ~(v < view.data) /\ v # L!Gone
  BY DEF L!Patched
<1> HIDE DEF v, w
<1>3. CASE w = view
  <2>1. w \in Views /\ w.data >= view.data
    BY <1>3, ViewParts DEF L!Known
  <2> QED
    BY <1>1, <1>2, <1>3, <2>1
<1>4. CASE w = [view EXCEPT !.data = L!Gone, !.fetch = L!Idle] /\ v = L!Gone
  <2>1. w \in Views /\ w.fetch = L!Idle /\ w.data = L!Gone
    BY <1>2, <1>4, ViewParts, Replies DEF Views
  <2>2. L!Gone >= view.data
    BY <1>2, <1>4, ViewParts, StatesAssumption DEF L!Known, L!Versions, L!Gone
  <2> QED
    BY <1>1, <1>2, <2>1, <2>2
<1>5. CASE w = [view EXCEPT !.data = v] /\ view.data # L!Unseen /\ ~(v < view.data) /\ v # L!Gone
  <2>1. w \in Views /\ w.fetch = view.fetch /\ w.data = v
    BY <1>2, <1>5, ViewParts DEF Views
  <2>2. v # L!Unseen /\ v >= view.data
    BY <1>2, <1>5, ViewParts DEF L!Known, L!Unseen
  <2> QED
    BY <1>1, <1>2, <1>5, <2>1, <2>2
<1> QED
  BY <1>0, <1>3, <1>4, <1>5

(* So it keeps the invariant.                                               *)
LEMMA HandleEventKeeps == ASSUME L!ViewInv, L!HandleEvent PROVE L!ViewInv'
  BY ViewParts, EventPatches, RefetchKeeps

(* A connection that is back has the page ask again.                        *)
LEMMA OpenedKeeps == ASSUME L!ViewInv, L!Opened PROVE L!ViewInv'
<1> DEFINE server == v1  events == v3  view == v8  cache == v9  stray == v10  act == v11
<1>1. UNCHANGED <<server, events, cache, act>>
  BY DEF L!Opened
<1>2. L!Refetch(view, cache) \/ UNCHANGED <<view, stray>>
  BY DEF L!Opened
<1> QED
  BY <1>1, <1>2, ViewParts, RefetchKeeps, QuietKeeps

(* Every step keeps the invariant.                                          *)
LEMMA NextView == ASSUME L!ViewInv, [L!Next]_(L!vars) PROVE L!ViewInv'
<1> DEFINE server == v1  events == v3  view == v8  cache == v9  stray == v10  act == v11
<1>1. CASE L!Change
  <2>1. /\ server' \in {server + 1, L!Gone} /\ server # L!Gone
        /\ UNCHANGED <<events, view, cache, stray, act>>
    BY <1>1 DEF L!Change, L!stream
  <2>2. server' \in L!Versions \cup {L!Gone} /\ server' >= server
    BY <2>1, ViewParts, StatesAssumption DEF L!Versions, L!Gone
  <2> QED
    BY <2>1, <2>2, ServerKeeps
<1>2. CASE L!Emit
  <2>1. events' = events \/ events' = Append(events, server)
    BY <1>2 DEF L!Emit
  <2>2. server \in L!Known
    BY ViewParts DEF L!Known
  <2>3. events' \in Seq(L!Known)
    BY <2>1, <2>2, ViewParts
  <2> QED
    BY <1>2, <2>3, QuietKeeps DEF L!Emit
<1>3. CASE L!EmitNothing
  BY <1>3, ViewParts, QuietKeeps DEF L!EmitNothing, L!stream
<1>4. CASE L!Act
  <2>1. act' = [act EXCEPT !.at = "sent"] /\ act.at = "none"
        /\ UNCHANGED <<server, events, view, cache, stray>>
    BY <1>4 DEF L!Act, L!stream
  <2>2. L!Known' = L!Known /\ act'.at = "sent"
        /\ act' \in [at : {"none", "sent", "handled", "confirmed"}, led : L!Known,
           crossed : BOOLEAN]
    BY <2>1, ViewParts DEF L!Known
  <2> QED
    BY <2>1, <2>2, ViewParts, ServerKeeps
<1>5. CASE L!Subscribe \/ L!HeartbeatTimeout \/ L!Reconnect \/ L!Lose \/ L!Refused \/ L!LoseSilently
  BY <1>5, ViewParts, QuietKeeps DEF L!Subscribe, L!HeartbeatTimeout, L!Reconnect, L!Lose,
                                     L!Refused, L!LoseSilently, L!HandleError
<1>6. CASE UNCHANGED L!vars
  BY <1>6, ViewParts, QuietKeeps DEF L!vars, L!stream
<1> QED
  BY <1>1, <1>2, <1>3, <1>4, <1>5, <1>6, AnswerKeeps, ArriveKeeps, FetchFailsKeeps, StrayKeeps,
     ExpireKeeps, AskKeeps, ActHandledKeeps, ActConfirmedKeeps, HandleEventKeeps, OpenedKeeps
     DEF L!Next, L!Fetching, L!Acting, L!Streaming

(* It holds when the page opens.                                            *)
LEMMA InitView == L!Init => L!ViewInv
<1> DEFINE server == v1  events == v3  view == v8  cache == v9  stray == v10  act == v11
<1> SUFFICES ASSUME L!Init PROVE L!ViewInv
  OBVIOUS
<1>1. /\ server = 1 /\ events = <<>> /\ cache = L!Unseen /\ stray = L!Idle
      /\ view \in [page : L!Pages, data : {L!Unseen}, fetch : {L!Sent}]
      /\ act = [at |-> "none", led |-> L!Unseen, crossed |-> FALSE]
  BY DEF L!Init
<1>2. L!Unseen \in L!Known /\ server \in Nat
  BY <1>1 DEF L!Known, L!Unseen
<1>3. /\ L!Idle \in L!KnownReply /\ ~L!Idle.cached /\ L!Sent \in L!KnownReply /\ L!Sent.at = "sent"
  BY <1>2, Replies
<1>4. L!NothingAhead
  BY <1>1, <1>2, <1>3, StatesAssumption DEF L!NothingAhead, L!Versions, L!Gone
<1> QED
  BY <1>1, <1>3, <1>4 DEF L!ViewInv, L!AnswersAreNews, L!KeepsOwnAction

(* No step takes the page back, but for what was kept.                      *)
LEMMA PageNeverBack == ASSUME L!ViewInv, L!Next PROVE L!Forward
<1> DEFINE view == v8  cache == v9
<1>1. CASE view' = view
  BY <1>1, ViewParts DEF L!Forward, L!Known
<1>2. CASE L!Answer \/ L!FetchFails \/ L!Ask
  <2>1. view'.data = view.data
    BY <1>2, ViewParts DEF L!Answer, L!FetchFails, L!Ask, Views
  <2> QED
    BY <2>1, ViewParts DEF L!Forward, L!Known
<1>3. CASE L!Arrive
  <2>1. view'.data = IF L!NotFound(view.fetch) THEN view.data ELSE view.fetch.saw
    BY <1>3, ViewParts DEF L!Arrive, Views
  <2> QED
    BY <1>3, <2>1, ViewParts DEF L!Arrive, L!Forward, L!Known
<1>4. CASE \E v \in {view}, kept \in {cache, L!Unseen} : L!Refetch(v, kept)
  <2>1. view'.data = view.data
    BY <1>4, ViewParts, Refetches
  <2> QED
    BY <2>1, ViewParts DEF L!Forward, L!Known
<1>5. CASE L!HandleEvent
  BY <1>5, ViewParts, EventPatches, Refetches DEF L!Forward
<1>6. CASE L!Opened
  BY <1>1, <1>4, <1>6 DEF L!Opened
<1>7. CASE L!ActConfirmed
  BY <1>4, <1>7 DEF L!ActConfirmed
<1>8. CASE L!Change \/ L!Emit \/ L!EmitNothing \/ L!Straying \/ L!Expire \/ L!Act
           \/ L!ActHandled \/ L!Subscribe
           \/ L!HeartbeatTimeout \/ L!Reconnect \/ L!Lose \/ L!Refused \/ L!LoseSilently
  BY <1>1, <1>8 DEF L!Change, L!Emit, L!EmitNothing, L!Straying, L!StrayAnswer, L!StrayArrive,
                    L!Expire, L!Act, L!ActHandled, L!Subscribe, L!HeartbeatTimeout, L!Reconnect,
                    L!Lose, L!Refused, L!LoseSilently, L!HandleError
<1> QED
  BY <1>2, <1>3, <1>5, <1>6, <1>7, <1>8 DEF L!Next, L!Fetching, L!Acting, L!Streaming

(* The invariant holds at first, whichever component runs.                  *)
LEMMA InitViews == Init => ViewsInv
  BY InitView, Zenon DEF Init, ViewsInv

(* It is inductive, and no step takes the page back or hides what its       *)
(* operator did.                                                            *)
LEMMA NextViews ==
  ViewsInv /\ [Next]_vars =>
    ViewsInv' /\ [which = "live" => L!Forward /\ L!OwnActionShown']_vars
<1> SUFFICES ASSUME ViewsInv, [Next]_vars, which = "live" \/ which' = "live"
             PROVE  /\ L!ViewInv'
                    /\ (L!Forward /\ L!OwnActionShown') \/ UNCHANGED vars
  BY DEF ViewsInv
<1>1. which = "live"
  BY Zenon DEF Next, vars
<1>2. L!ViewInv
  BY <1>1 DEF ViewsInv
<1>3. CASE Next
  <2>1. L!Next
    BY <1>1, <1>3, Zenon DEF Next
  <2>2. L!ViewInv'
    BY <1>2, <2>1, NextView
  <2>3. L!OwnActionShown'
    BY <2>2 DEF L!ViewInv, L!KeepsOwnAction, L!OwnActionShown
  <2> QED
    BY <1>2, <2>1, <2>2, <2>3, PageNeverBack
<1>4. CASE UNCHANGED vars
  <2>1. UNCHANGED L!vars
    BY <1>4 DEF vars, L!vars, L!stream
  <2> QED
    BY <1>2, <1>4, <2>1, NextView
<1> QED
  BY <1>3, <1>4

(* ShowsNothingOlder: no page goes back to an older state, but for what was *)
(* kept from before the stream broke (useGlobalQueryEvents.ts), and no      *)
(* answer from before it hides what the page's own operator did             *)
(* (sdk-adapter.ts), but for the requests the property excepts.             *)
THEOREM ShowsNothingOlderHolds == Spec => ShowsNothingOlder
<1>1. ViewsInv /\ [Next]_vars => [which = "live" => L!Forward /\ L!OwnActionShown']_vars
  BY NextViews
<1> QED
  BY <1>1, InitViews, NextViews, PTL DEF Spec, ShowsNothingOlder

-----------------------------------------------------------------------------
(* The inductive invariant of the wizard, while it runs.                    *)
WizardsInv == which = "wizard" => W!WizardInv

(* What the constant records are.                                           *)
LEMMA WizardConstants ==
  /\ W!First \in W!Choices /\ W!NoDraft \in W!Drafts /\ ~W!NoDraft.there
  /\ W!Quiet.at = "idle" /\ W!None \notin W!Ids /\ W!NoInstall.at = "no"
  BY WizardAssumption DEF W!First, W!Choices, W!NoDraft, W!Drafts, W!Quiet, W!None, W!Ids,
                          W!NoInstall, W!All, W!Forms

(* The settings of a form that was not edited.                              *)
LEMMA AllIs ==
  /\ W!All(0) \in W!Forms /\ W!All(0)["app"] = 0 /\ W!All(0)["system"] = 0
  /\ W!All(-1) \in W!Forms
  BY DEF W!All, W!Forms, W!Kinds

(* What is left of a form when the draft is replaced.                       *)
LEMMA ResetIs ==
  ASSUME v6 \in W!Forms
  PROVE  W!Reset \in W!Forms /\ W!Reset["app"] = 0 /\ W!Reset["system"] = v6["system"]
  BY DEF W!Reset, W!Forms, W!Kinds

(* What a function that replaces the draft has.                             *)
LEMMA WorkIs ==
  ASSUME W!Shapes, NEW t \in W!Tasks
  PROVE  /\ v8[t] \in W!Works /\ v8[t].at \in W!Stages /\ v8[t].old \in W!Ids \cup {W!None}
         /\ v8[t].for \in W!Choices /\ v8[t].previous \in W!Choices
  BY DEF W!Shapes, W!Works, W!Stages

(* The same when one of them goes on.                                       *)
LEMMA WorkGoesOn ==
  ASSUME W!Shapes, NEW t \in W!Tasks, NEW w \in W!Works, v8' = [v8 EXCEPT ![t] = w]
  PROVE  /\ v8' \in [W!Tasks -> W!Works] /\ v8'[t] = w /\ \A u \in W!Tasks \ {t} : v8'[u] = v8[u]
         /\ \A u \in W!Tasks \ {t} : u \in W!Replacing' <=> u \in W!Replacing
         /\ t \in W!Replacing' <=> w.at \notin {"idle", "due"}
  BY DEF W!Shapes, W!Works, W!Stages, W!Replacing

(* What is excused stays so, but for a mishap.                              *)
LEMMA ExcuseIs ==
  ASSUME NEW why, NEW when \in BOOLEAN, W!Excuse(why, when)
  PROVE  v12' = IF when THEN v12 \cup {why} ELSE v12
  BY DEF W!Excuse

(* A function begins to replace the draft while no other does.              *)
LEMMA ReplaceBegins ==
  ASSUME W!Agreed, NEW t \in W!Tasks, NEW w \in W!Works, v8' = [v8 EXCEPT ![t] = w],
         W!Replacing = {}, v3' \in {"restore", "settings", "summary"}, W!Open, v4' \in W!Choices,
         UNCHANGED <<v1, v2, v5, v6, v9, v10, v11, v12>>,
         v11.at \notin {"finalizing", "deploying"},
         \/ /\ w.at = "removing" /\ t # "mount" /\ w.old = v5 /\ v5 # W!None
            /\ w.for.channel = v4'.channel \/ t = "channel"
         \/ w.at = "creating" /\ w.for = v4' /\ v5 = W!None
  PROVE  W!Agreed'
<1> DEFINE draft == v5  task == v8
<1>1. /\ task' \in [W!Tasks -> W!Works] /\ task'[t] = w
         /\ \A u \in W!Tasks \ {t} : task'[u] = task[u]
      /\ W!Replacing' = {t}
  <2>1. W!Replacing' \subseteq W!Tasks
    BY DEF W!Replacing
  <2>2. /\ task' \in [W!Tasks -> W!Works] /\ task'[t] = w
        /\ \A u \in W!Tasks \ {t} : task'[u] = task[u]
        /\ \A u \in W!Tasks \ {t} : u \in W!Replacing' <=> u \in W!Replacing
        /\ t \in W!Replacing' <=> w.at \notin {"idle", "due"}
    BY WorkGoesOn DEF W!Agreed
  <2>3. \A u : u \in W!Replacing' <=> u = t
    BY <2>1, <2>2
  <2> QED
    BY <2>2, <2>3
<1>2. W!Shapes'
  BY <1>1 DEF W!Agreed, W!Shapes, W!Works, W!Stages
<1>3. W!Open'
  BY DEF W!Open
<1>4. W!Replaces'
  BY <1>1, <1>3 DEF W!Agreed, W!Replaces
<1>5. W!Shown' /\ W!Saved' /\ W!Installs'
  BY <1>1 DEF W!Shown, W!Saved, W!Installs
<1>6. W!InstalledAsShown'
  BY DEF W!Agreed, W!InstalledAsShown
<1>7. W!NoneForgotten'
  BY <1>3 DEF W!Agreed, W!NoneForgotten, W!Replacing
<1> QED
  BY <1>2, <1>4, <1>5, <1>6, <1>7 DEF W!Agreed

(* Without a draft, nothing is being installed.                             *)
LEMMA DecideKeeps ==
  ASSUME W!Agreed, "crossed" \notin v12', NEW r \in {1, 2}, W!Decide(r)
  PROVE  W!Agreed'
<1> DEFINE drafts == v1  deployed == v2  page == v3  chosen == v4  draft == v5  form == v6
           task == v8  patches == v9  removals == v10  install == v11  excuses == v12
<1>1. W!Replacing = {} /\ excuses' = excuses
  BY DEF W!Decide, W!Excuse
<1>2. /\ page = "restore" /\ page' = "settings" /\ draft = W!None /\ W!Open /\ W!Open'
      /\ UNCHANGED <<drafts, deployed, draft, form, patches, removals, install>>
      /\ chosen' = [chosen EXCEPT !.restore = r]
  BY DEF W!Decide, W!Open
<1>3. chosen' \in W!Choices /\ install.at \notin {"finalizing", "deploying"}
  BY <1>2 DEF W!Agreed, W!Shapes, W!Choices, W!Installs
<1>4. CASE task' = W!Creating("mount", chosen')
  <2> DEFINE w == [task["mount"] EXCEPT !.at = "creating", !.old = W!None, !.for = chosen']
  <2>1. task' = [task EXCEPT !["mount"] = w]
    BY <1>4, WorkIs DEF W!Creating, W!Agreed, W!Shapes, W!Tasks
  <2>2. w \in W!Works /\ w.at = "creating" /\ w.for = chosen'
    BY <1>3, WorkIs DEF W!Works, W!Stages, W!Tasks, W!Agreed
  <2> HIDE DEF w
  <2> QED
    BY <1>1, <1>2, <1>3, <2>1, <2>2, ReplaceBegins DEF W!Tasks
<1>5. CASE UNCHANGED task
  <2>1. W!Shapes' /\ W!Replacing' = {}
    BY <1>1, <1>2, <1>3, <1>5 DEF W!Agreed, W!Shapes, W!Replacing
  <2>2. W!Replaces'
    BY <1>1, <1>2, <1>5, <2>1 DEF W!Agreed, W!Replaces
  <2>3. W!Shown' /\ W!Saved' /\ W!Installs'
    BY <1>2, <1>3 DEF W!Shown, W!Saved, W!Installs
  <2>4. W!InstalledAsShown' /\ W!NoneForgotten'
    BY <1>1, <1>2, <1>5, <2>1 DEF W!Agreed, W!InstalledAsShown, W!NoneForgotten
  <2> QED
    BY <2>1, <2>2, <2>3, <2>4 DEF W!Agreed
<1> QED
  BY <1>4, <1>5 DEF W!Decide

(* A draft is asked for again.                                              *)
LEMMA RetryKeeps == ASSUME W!Agreed, "crossed" \notin v12', W!Retry PROVE W!Agreed'
<1> DEFINE drafts == v1  deployed == v2  page == v3  chosen == v4  draft == v5  form == v6
           task == v8  patches == v9  removals == v10  install == v11  excuses == v12
<1>1. /\ W!Replacing = {} /\ W!Open /\ draft = W!None /\ task' = W!Creating("mount", chosen)
      /\ UNCHANGED <<drafts, deployed, page, chosen, draft, form, patches, removals, install,
         excuses>>
  BY DEF W!Retry, W!Excuse
<1>2. /\ chosen \in W!Choices /\ install.at \notin {"finalizing", "deploying"}
      /\ page \in {"restore", "settings", "summary"}
  BY <1>1 DEF W!Agreed, W!Shapes, W!Installs, W!Open
<1> DEFINE w == [task["mount"] EXCEPT !.at = "creating", !.old = W!None, !.for = chosen]
<1>3. task' = [task EXCEPT !["mount"] = w]
  BY <1>1, WorkIs DEF W!Creating, W!Agreed, W!Shapes, W!Tasks
<1>4. w \in W!Works /\ w.at = "creating" /\ w.for = chosen
  BY <1>2, WorkIs DEF W!Works, W!Stages, W!Tasks, W!Agreed
<1> HIDE DEF w
<1> QED
  BY <1>1, <1>2, <1>3, <1>4, ReplaceBegins DEF W!Tasks

(* The draft is to be replaced by one for another choice.                   *)
LEMMA ReplaceKeeps ==
  ASSUME W!Agreed, "crossed" \notin v12', NEW t \in {"channel", "restore"},
         NEW choice \in W!Choices,
         t = "restore" => choice.channel = v4.channel, W!Replace(t, choice)
  PROVE  W!Agreed'
<1> DEFINE drafts == v1  deployed == v2  page == v3  chosen == v4  draft == v5  form == v6
           task == v8  patches == v9  removals == v10  install == v11  excuses == v12
<1>1. /\ W!Replacing = {} /\ install.at = "no" /\ draft # W!None /\ W!Open
      /\ UNCHANGED <<drafts, deployed, page, chosen, draft, form, patches, removals, install,
         excuses>>
  BY DEF W!Replace, W!Excuse, W!Rendered
<1> DEFINE w == [at |-> "removing", old |-> draft, for |-> choice, previous |-> chosen]
<1>2. task' = [task EXCEPT ![t] = w]
  BY DEF W!Replace
<1>3. /\ w \in W!Works /\ w.at = "removing" /\ w.for = choice /\ w.old = draft
      /\ page \in {"restore", "settings", "summary"} /\ chosen \in W!Choices
  BY <1>1 DEF W!Agreed, W!Shapes, W!Works, W!Stages, W!Open
<1> HIDE DEF w
<1> QED
  BY <1>1, <1>2, <1>3, ReplaceBegins DEF W!Tasks

(* Both ways to ask for it.                                                 *)
LEMMA SwitchKeeps ==
  ASSUME W!Agreed, "crossed" \notin v12', NEW x \in {1, 2}, W!SwitchChannel(x) \/ W!ChangeRestore(x)
  PROVE  W!Agreed'
<1> DEFINE chosen == v4  draft == v5
<1>1. /\ [chosen EXCEPT !.channel = x] \in W!Choices /\ [chosen EXCEPT !.restore = x] \in W!Choices
      /\ [chosen EXCEPT !.restore = x].channel = chosen.channel
  BY DEF W!Agreed, W!Shapes, W!Choices
<1> QED
  BY <1>1, ReplaceKeeps DEF W!SwitchChannel, W!ChangeRestore

(* The function that replaces the draft goes on to the next of its requests.*)
LEMMA ReplaceGoesOn ==
  ASSUME W!Agreed, NEW t \in W!Replacing, v8[t].at # "created",
         NEW w \in W!Works, v8' = [v8 EXCEPT ![t] = w], w.at \in {"creating", "created"},
         UNCHANGED <<v2, v3, v5, v9, v10, v11>>,
         v6' \in W!Forms, v4' \in W!Choices, v1' \in [W!Ids -> W!Drafts], w.for = v4',
         "kept" \in v12 => "kept" \in v12',
         v5 = W!None \/ ~v1'[v5].there \/ "kept" \in v12',
         w.at = "created" =>
           /\ w.old \in W!Ids \ {v5}
           /\ v1'[w.old] =
                [for |-> v4', settings |-> W!All(0), staged |-> W!All(-1), there |-> TRUE]
           /\ \A p \in v9 : p.draft # w.old,
         \A d \in W!Ids : v1'[d].there => v1[d].there \/ (w.at = "created" /\ w.old = d)
  PROVE  W!Agreed'
<1> DEFINE draft == v5  task == v8  removals == v10
<1>1. t \in W!Tasks /\ \A u \in W!Replacing : u = t
  BY DEF W!Agreed, W!Replaces, W!Replacing
<1>2. /\ task' \in [W!Tasks -> W!Works] /\ task'[t] = w
         /\ \A u \in W!Tasks \ {t} : task'[u] = task[u]
      /\ W!Replacing' = {t}
  <2>1. W!Replacing \subseteq W!Tasks /\ W!Replacing' \subseteq W!Tasks
    BY DEF W!Replacing
  <2>2. /\ task' \in [W!Tasks -> W!Works] /\ task'[t] = w
           /\ \A u \in W!Tasks \ {t} : task'[u] = task[u]
        /\ \A u \in W!Tasks \ {t} : u \in W!Replacing' <=> u \in W!Replacing
        /\ t \in W!Replacing'
    BY <1>1, WorkGoesOn DEF W!Agreed
  <2> QED
    BY <1>1, <2>1, <2>2
<1>3. W!Shapes'
  BY <1>2 DEF W!Agreed, W!Shapes, W!Works, W!Stages
<1>4. W!Open /\ W!Open' /\ removals = {}
  BY DEF W!Agreed, W!Replaces, W!Open
<1>5. W!Replaces'
  BY <1>1, <1>2, <1>4 DEF W!Agreed, W!Replaces
<1>6. W!Shown' /\ W!Saved' /\ W!Installs'
  BY <1>2 DEF W!Agreed, W!Shown, W!Saved, W!Installs
<1>7. W!InstalledAsShown'
  BY DEF W!Agreed, W!InstalledAsShown
<1>8. W!NoneForgotten'
  BY <1>1, <1>2, <1>4 DEF W!Agreed, W!NoneForgotten
<1> QED
  BY <1>3, <1>5, <1>6, <1>7, <1>8 DEF W!Agreed

(* A function asks for a draft: its record.                                 *)
LEMMA CreatingIs ==
  ASSUME W!Agreed, NEW t \in W!Tasks, NEW choice \in W!Choices
  PROVE  \E w \in W!Works : /\ W!Creating(t, choice) = [v8 EXCEPT ![t] = w]
                          /\ w.at = "creating" /\ w.for = choice
<1> DEFINE draft == v5  task == v8
<1> DEFINE w == [task[t] EXCEPT !.at = "creating", !.old = W!None, !.for = choice]
<1>1. W!Creating(t, choice) = [task EXCEPT ![t] = w]
  BY DEF W!Creating, W!Agreed, W!Shapes
<1>2. w \in W!Works /\ w.at = "creating" /\ w.for = choice
  BY WorkIs DEF W!Works, W!Stages, W!Agreed
<1> QED
  BY <1>1, <1>2

(* The old draft is gone, or was kept.                                      *)
LEMMA RemovedKeeps ==
  ASSUME W!Agreed, NEW t \in W!Tasks, W!Removed(t)
  PROVE  W!Agreed'
<1> DEFINE drafts == v1  deployed == v2  page == v3  chosen == v4  draft == v5  form == v6
           task == v8  patches == v9  removals == v10  install == v11  excuses == v12
<1>1. /\ task[t].at = "removing" /\ t \in W!Replacing /\ t \in {"channel", "restore"}
      /\ task[t].old = draft /\ draft \in W!Ids
      /\ t = "restore" => task[t].for.channel = chosen.channel
  BY DEF W!Removed, W!Replacing, W!Agreed, W!Replaces, W!Shapes, W!Tasks, W!None
<1>2. /\ UNCHANGED <<deployed, page, draft, patches, removals, install>> /\ form' = W!Reset
      /\ task' = W!Creating(t, W!NewChoice(t))
      /\ chosen' = IF t = "channel" THEN [chosen EXCEPT !.channel = task[t].for.channel]
                   ELSE [chosen EXCEPT !.restore = task[t].for.restore]
  BY DEF W!Removed
<1>3. W!NewChoice(t) = chosen' /\ chosen' \in W!Choices
  <2>1. chosen \in W!Choices /\ task[t].for \in W!Choices
    BY WorkIs DEF W!Agreed, W!Shapes
  <2> QED
    BY <1>1, <1>2, <2>1 DEF W!NewChoice, W!Choices
<1>4. PICK w \in W!Works : task' = [task EXCEPT ![t] = w] /\ w.at = "creating" /\ w.for = chosen'
  <2>1. task' = W!Creating(t, chosen')
    BY <1>2, <1>3
  <2>2. \E w \in W!Works : W!Creating(t, chosen') = [task EXCEPT ![t] = w] /\ w.at = "creating"
        /\ w.for = chosen'
    BY <1>3, CreatingIs
  <2> QED
    BY <2>1, <2>2
<1>5. drafts \in [W!Ids -> W!Drafts] /\ form' \in W!Forms
  BY <1>2, ResetIs DEF W!Agreed, W!Shapes
<1>6. CASE drafts' = [drafts EXCEPT ![task[t].old] = W!NoDraft] /\ UNCHANGED excuses
  <2>1. /\ drafts' \in [W!Ids -> W!Drafts] /\ ~drafts'[draft].there
        /\ \A d \in W!Ids : drafts'[d].there => drafts[d].there
    BY <1>1, <1>5, <1>6, WizardConstants
  <2> QED
    BY <1>1, <1>2, <1>3, <1>4, <1>5, <1>6, <2>1, ReplaceGoesOn
<1>7. CASE W!Excuse("kept", TRUE) /\ UNCHANGED drafts
  BY <1>1, <1>2, <1>3, <1>4, <1>5, <1>7, ReplaceGoesOn DEF W!Excuse
<1> QED
  BY <1>6, <1>7 DEF W!Removed

(* The server makes a draft of a number that nothing stands for.            *)
LEMMA CreatedKeeps ==
  ASSUME W!Agreed, NEW t \in W!Tasks, W!Created(t)
  PROVE  W!Agreed'
<1> DEFINE drafts == v1  deployed == v2  page == v3  chosen == v4  draft == v5  form == v6
           task == v8  patches == v9  removals == v10  install == v11  excuses == v12
<1>1. /\ task[t].at = "creating" /\ t \in W!Replacing /\ task[t].for = chosen
      /\ draft = W!None \/ ~drafts[draft].there \/ "kept" \in excuses
  BY DEF W!Created, W!Replacing, W!Agreed, W!Replaces
<1>2. PICK d \in W!Ids \ W!Mentioned :
        /\ drafts' = [drafts EXCEPT ![d] =
             [for |-> task[t].for, settings |-> W!All(0), staged |-> W!All(-1), there |-> TRUE]]
        /\ task' = [task EXCEPT ![t].at = "created", ![t].old = d]
  BY DEF W!Created
<1>3. UNCHANGED <<deployed, page, chosen, draft, form, patches, removals, install, excuses>>
  BY DEF W!Created
<1>4. d # draft /\ (\A p \in patches : p.draft # d) /\ ~drafts[d].there
  BY <1>2 DEF W!Mentioned
<1>5. drafts \in [W!Ids -> W!Drafts] /\ chosen \in W!Choices /\ form \in W!Forms
  BY DEF W!Agreed, W!Shapes
<1> DEFINE w == [task[t] EXCEPT !.at = "created", !.old = d]
<1>6. task' = [task EXCEPT ![t] = w]
  BY <1>2 DEF W!Agreed, W!Shapes
<1>7. w \in W!Works /\ w.at = "created" /\ w.old = d /\ w.for = chosen
  BY <1>1, WorkIs DEF W!Works, W!Stages, W!Agreed
<1> HIDE DEF w
<1>8. /\ drafts' \in [W!Ids -> W!Drafts]
         /\ drafts'[d] =
              [for |-> chosen, settings |-> W!All(0), staged |-> W!All(-1), there |-> TRUE]
      /\ \A e \in W!Ids \ {d} : drafts'[e] = drafts[e]
  BY <1>1, <1>2, <1>5, AllIs DEF W!Drafts
<1>9. draft = W!None \/ ~drafts'[draft].there \/ "kept" \in excuses'
  BY <1>1, <1>3, <1>4, <1>8 DEF W!Agreed, W!Shapes
<1> QED
  BY <1>1, <1>3, <1>4, <1>5, <1>6, <1>7, <1>8, <1>9, ReplaceGoesOn

(* The function that replaces the draft is over, with a new one or none.    *)
LEMMA ReplaceEnds ==
  ASSUME W!Agreed, NEW t \in W!Replacing, v8' = [v8 EXCEPT ![t] = W!Quiet],
         UNCHANGED <<v1, v2, v9, v10, v11>>,
         v6' \in W!Forms, v3' \in {"restore", "settings", "summary"}, v4' \in W!Choices,
         "kept" \in v12 => "kept" \in v12', v5' \in W!Ids \cup {W!None},
         v5' # W!None =>
           v8[t].at = "created" /\ v5' = v8[t].old /\ v4' = v4 /\ v6'["app"] = 0
           /\ (v6'["system"] = 0 \/ "carried" \in v12'),
         v5' = W!None /\ "kept" \notin v12' => v8[t].at # "created",
         v8[t].at # "removing"
  PROVE  W!Agreed'
<1> DEFINE drafts == v1  page == v3  chosen == v4  draft == v5  task == v8  patches == v9
           removals == v10  install == v11  excuses == v12
<1>1. t \in W!Tasks /\ \A u \in W!Replacing : u = t
  BY DEF W!Agreed, W!Replaces, W!Replacing
<1>2. W!Quiet \in W!Works /\ W!Quiet.at = "idle"
  BY WizardConstants DEF W!Quiet, W!Works, W!Stages
<1>3. /\ task' \in [W!Tasks -> W!Works] /\ task'[t] = W!Quiet
      /\ \A u \in W!Tasks \ {t} : task'[u] = task[u]
  BY <1>1, <1>2, WorkGoesOn DEF W!Agreed
<1>4. W!Replacing' = {}
  BY <1>1, <1>2, <1>3 DEF W!Replacing
<1>5. W!Shapes'
  BY <1>3 DEF W!Agreed, W!Shapes, W!Works, W!Stages
<1>6. W!Open /\ W!Open' /\ removals = {} /\ install.at \notin {"finalizing", "deploying"}
  BY DEF W!Agreed, W!Replaces, W!Installs, W!Open
<1>7. W!Replaces'
  BY <1>1, <1>2, <1>3, <1>4, <1>6 DEF W!Agreed, W!Replaces
<1>8. draft' # W!None =>
        /\ drafts[draft'] =
             [for |-> chosen, settings |-> W!All(0), staged |-> W!All(-1), there |-> TRUE]
        /\ \A p \in patches : p.draft # draft'
  BY DEF W!Agreed, W!Replaces
<1>9. W!Shown' /\ W!Saved'
  BY <1>8, AllIs DEF W!Shown, W!Saved, W!Matches
<1>10. W!Installs' /\ W!InstalledAsShown'
  BY <1>6 DEF W!Agreed, W!Installs, W!InstalledAsShown
<1>11. W!NoneForgotten'
  <2> SUFFICES ASSUME "kept" \notin excuses', NEW d \in W!Ids, drafts[d].there PROVE d = draft'
    BY <1>6 DEF W!NoneForgotten
  <2>1. "kept" \notin excuses /\ d # draft
    BY WizardConstants DEF W!Agreed, W!Replaces
  <2>2. task[t].at = "created" /\ task[t].old = d
    BY <1>1, <1>6, <2>1 DEF W!Agreed, W!NoneForgotten
  <2> QED
    BY <2>2
<1> QED
  BY <1>5, <1>7, <1>9, <1>10, <1>11 DEF W!Agreed

(* The page has its draft.                                                  *)
LEMMA AnsweredKeeps == ASSUME W!Agreed, NEW t \in W!Tasks, W!Answered(t) PROVE W!Agreed'
<1> DEFINE drafts == v1  deployed == v2  page == v3  chosen == v4  draft == v5  form == v6
           task == v8  patches == v9  removals == v10  install == v11  excuses == v12
<1>1. task[t].at = "created" /\ t \in W!Replacing
  BY DEF W!Answered, W!Replacing
<1>2. W!Open /\ page \in {"restore", "settings", "summary"} /\ chosen \in W!Choices
  BY <1>1 DEF W!Agreed, W!Replaces, W!Shapes, W!Open
<1>3. /\ draft' = task[t].old /\ form' = W!Reset /\ task' = [task EXCEPT ![t] = W!Quiet]
      /\ page' \in {"restore", "settings", "summary"}
      /\ UNCHANGED <<drafts, deployed, chosen, patches, removals, install>>
  BY <1>2 DEF W!Answered, W!Turned
<1>4. task[t].old \in W!Ids
  BY <1>1 DEF W!Agreed, W!Replaces
<1>5. draft' # W!None /\ draft' \in W!Ids /\ chosen' \in W!Choices
  BY <1>2, <1>3, <1>4, WizardConstants
<1>6. form' \in W!Forms /\ form'["app"] = 0 /\ form'["system"] = form["system"]
  BY <1>3, ResetIs DEF W!Agreed, W!Shapes
<1>7. ("kept" \in excuses => "kept" \in excuses') /\ (form["system"] = 0 \/ "carried" \in excuses')
  BY DEF W!Answered, W!Excuse
<1> QED
  BY <1>1, <1>3, <1>5, <1>6, <1>7, ReplaceEnds

(* The page is left without a draft, and the choice is the one that worked. *)
LEMMA CreateFailsKeeps == ASSUME W!Agreed, NEW t \in W!Tasks, W!CreateFails(t) PROVE W!Agreed'
<1> DEFINE drafts == v1  deployed == v2  page == v3  chosen == v4  draft == v5  form == v6
           task == v8  patches == v9  removals == v10  install == v11  excuses == v12
<1>1. task[t].at \in {"creating", "created"} /\ t \in W!Replacing
  BY DEF W!CreateFails, W!Replacing
<1>2. /\ W!Open /\ page \in {"restore", "settings", "summary"} /\ chosen \in W!Choices
      /\ form \in W!Forms
  BY <1>1 DEF W!Agreed, W!Replaces, W!Shapes, W!Open
<1>3. /\ draft' = W!None /\ task' = [task EXCEPT ![t] = W!Quiet] /\ form' = form
      /\ page' \in {"restore", "settings", "summary"}
      /\ UNCHANGED <<drafts, deployed, patches, removals, install>>
  BY <1>2 DEF W!CreateFails, W!Turned
<1>4. chosen' \in W!Choices
  <2>1. task[t].previous \in W!Choices
    BY WorkIs DEF W!Agreed
  <2>2. chosen' \in {[chosen EXCEPT !.channel = task[t].previous.channel],
                     [chosen EXCEPT !.restore = task[t].previous.restore], chosen}
    BY DEF W!CreateFails, W!Tasks
  <2> QED
    BY <1>2, <2>1, <2>2 DEF W!Choices
<1>5. excuses' = IF task[t].at = "created" THEN excuses \cup {"kept"} ELSE excuses
  BY DEF W!CreateFails, W!Excuse
<1> QED
  BY <1>1, <1>2, <1>3, <1>4, <1>5, ReplaceEnds

-----------------------------------------------------------------------------
(* What the page does while no function replaces its draft, or beside one.  *)

(* A step that leaves the drafts, the functions and what is promised of an  *)
(* install alone.                                                           *)
LEMMA PageKeeps ==
  ASSUME W!Agreed, UNCHANGED <<v1, v2, v4, v5, v8>>,
         v3' \in {"restore", "settings", "summary"}, W!Open, v6' \in W!Forms,
         v9' \subseteq W!Updates, v10' = v10,
         v11' \in W!Tries,
         "kept" \in v12 => "kept" \in v12',
         \A p \in v9' \ v9 : p.draft = v5, v5 # W!None,
         W!Shown', W!Saved', W!Installs'
  PROVE  W!Agreed'
<1> DEFINE task == v8  patches == v9
<1>1. W!Shapes' /\ W!Replacing' = W!Replacing /\ W!Open'
  BY DEF W!Agreed, W!Shapes, W!Replacing, W!Open
<1>2. W!Replaces'
  <2>1. \A t \in W!Replacing : task[t].at = "created" => \A p \in patches' : p.draft # task[t].old
    BY DEF W!Agreed, W!Replaces
  <2> QED
    BY <1>1, <2>1 DEF W!Agreed, W!Replaces
<1>3. W!InstalledAsShown' /\ W!NoneForgotten'
  BY <1>1 DEF W!Agreed, W!InstalledAsShown, W!NoneForgotten
<1> QED
  BY <1>1, <1>2, <1>3 DEF W!Agreed

(* A setting is changed while nothing is being installed.                   *)
LEMMA EditKeeps ==
  ASSUME W!Agreed, "crossed" \notin v12', NEW k \in W!Kinds \cup {"volumes"}, W!Edit(k)
  PROVE  W!Agreed'
<1> DEFINE drafts == v1  deployed == v2  page == v3  chosen == v4  draft == v5  form == v6
           task == v8  patches == v9  removals == v10  install == v11  excuses == v12
<1> DEFINE sent == IF k \in W!Kinds THEN {k} ELSE W!Kinds
           u == [draft |-> draft, then |-> "stay", sends |-> sent,
                 settings |-> [j \in W!Kinds |-> IF j \in sent THEN form'[j] ELSE 0]]
<1>1. /\ page = "settings" /\ page' = page /\ draft \in W!Ids /\ draft # W!None
      /\ form \in W!Forms /\ patches \subseteq W!Updates
      /\ UNCHANGED <<drafts, deployed, chosen, draft, task, removals, install>>
  BY DEF W!Edit, W!Agreed, W!Shapes
<1>2. /\ form' \in W!Forms
      /\ \A j \in W!Kinds : form[j] \in Int /\ form'[j] \in Int /\ form[j] <= form'[j]
  <2>1. CASE k \in W!Kinds
    BY <1>1, <2>1 DEF W!Edit, W!Forms
  <2>2. CASE k \notin W!Kinds
    BY <1>1, <2>2 DEF W!Edit, W!Forms
  <2> QED
    BY <2>1, <2>2
<1>3. patches' = patches \cup {u}
  BY DEF W!Edit, W!Update
<1>4. /\ u \in W!Updates /\ u.then = "stay" /\ u.draft = draft /\ u.sends \subseteq W!Kinds
      /\ \A j \in u.sends : u.settings[j] = form'[j]
  BY <1>1, <1>2 DEF W!Updates, W!Forms
<1> HIDE DEF u
<1>5. install.at = "no" /\ W!Open /\ install \in W!Tries
  BY <1>1 DEF W!Edit, W!Open, W!Agreed, W!Shapes
<1>6. /\ "mishap" \notin excuses' => "mishap" \notin excuses /\ \A p \in patches : p.then = "stay"
      /\ "kept" \in excuses => "kept" \in excuses'
  BY DEF W!Edit
<1>7. W!Replacing' = W!Replacing /\ W!Open'
  BY <1>1 DEF W!Replacing, W!Open
<1>8. W!Shown'
  <2> SUFFICES ASSUME W!Replacing = {}
               PROVE  /\ drafts[draft].there /\ drafts[draft].for = chosen
                      /\ \A p \in patches' : p.draft = draft =>
                           \A j \in p.sends : p.settings[j] <= form'[j]
    BY <1>1, <1>7 DEF W!Shown
  <2>1. /\ drafts[draft].there /\ drafts[draft].for = chosen
        /\ \A p \in patches : p.draft = draft => \A j \in p.sends : p.settings[j] <= form[j]
    BY <1>1, <1>5 DEF W!Agreed, W!Shown
  <2>2. ASSUME NEW p \in patches, p.draft = draft, NEW j \in p.sends
        PROVE  p.settings[j] <= form'[j]
    <3>1. j \in W!Kinds /\ p.settings[j] \in Int
      BY <1>1 DEF W!Updates, W!Forms
    <3> QED
      BY <1>2, <2>1, <2>2, <3>1
  <2>3. \A j \in u.sends : u.settings[j] <= form'[j]
    BY <1>2, <1>4
  <2> QED
    BY <1>3, <2>1, <2>2, <2>3
<1>9. W!Saved'
  BY <1>1, <1>3, <1>4, <1>5, <1>6 DEF W!Saved
<1>10. W!Installs'
  BY <1>1, <1>5 DEF W!Installs
<1>11. /\ patches' \subseteq W!Updates /\ \A p \in patches' \ patches : p.draft = draft
       /\ page' \in {"restore", "settings", "summary"} /\ install' \in W!Tries
  BY <1>1, <1>3, <1>4, <1>5
<1> QED
  BY <1>1, <1>2, <1>5, <1>6, <1>8, <1>9, <1>10, <1>11, PageKeeps

(* All the settings are sent, before the page turns.                        *)
LEMMA ForwardKeeps == ASSUME W!Agreed, W!Forward PROVE W!Agreed'
<1> DEFINE drafts == v1  deployed == v2  page == v3  chosen == v4  draft == v5  form == v6
           task == v8  patches == v9  removals == v10  install == v11  excuses == v12
<1> DEFINE u == [draft |-> draft, then |-> W!Following[page], sends |-> W!Kinds,
                 settings |-> [j \in W!Kinds |-> IF j \in W!Kinds THEN form[j] ELSE 0]]
<1>1. /\ page \in {"restore", "settings"} /\ page' = page /\ draft \in W!Ids /\ draft # W!None
         /\ form' = form
      /\ form \in W!Forms /\ patches' = patches \cup {u} /\ patches \subseteq W!Updates
      /\ UNCHANGED <<drafts, deployed, chosen, draft, task, removals, install, excuses>>
  BY DEF W!Forward, W!Update, W!Agreed, W!Shapes, W!Following
<1>2. u \in W!Updates /\ u.draft = draft /\ u.settings = form /\ u.sends = W!Kinds
  BY <1>1 DEF W!Updates, W!Following, W!Forms
<1>3. W!Open /\ W!Open' /\ W!Replacing' = W!Replacing /\ install \in W!Tries
  BY <1>1 DEF W!Open, W!Replacing, W!Agreed, W!Shapes, W!Tries
<1> HIDE DEF u
<1>4. W!Shown'
  <2>1. \A j \in u.sends : u.settings[j] <= form[j]
    BY <1>1, <1>2 DEF W!Forms
  <2> QED
    BY <1>1, <1>2, <1>3, <2>1 DEF W!Agreed, W!Shown
<1>5. W!Saved'
  BY <1>1, <1>2, <1>3 DEF W!Agreed, W!Saved, W!Matches, W!Complete
<1>6. W!Installs'
  BY <1>1, <1>3 DEF W!Agreed, W!Installs
<1>7. patches' \subseteq W!Updates /\ \A p \in patches' \ patches : p.draft = draft
  BY <1>1, <1>2
<1> QED
  BY <1>1, <1>3, <1>4, <1>5, <1>6, <1>7, PageKeeps DEF W!Tries

(* The page turns back.                                                     *)
LEMMA BackKeeps == ASSUME W!Agreed, W!Back PROVE W!Agreed'
<1> DEFINE drafts == v1  deployed == v2  page == v3  chosen == v4  draft == v5  form == v6
           task == v8  patches == v9  removals == v10  install == v11  excuses == v12
<1>1. /\ page' \in {"restore", "settings"} /\ W!Open
      /\ UNCHANGED <<drafts, deployed, chosen, draft, form, task, patches, removals, install,
         excuses>>
  BY DEF W!Back, W!Rendered
<1>2. W!Open /\ W!Open' /\ W!Replacing' = W!Replacing
  BY <1>1 DEF W!Open, W!Replacing
<1>3. W!Shapes' /\ W!Replaces' /\ W!Shown'
  BY <1>1, <1>2 DEF W!Agreed, W!Shapes, W!Replaces, W!Shown
<1>4. W!Saved' /\ W!Installs'
  BY <1>1, <1>2 DEF W!Agreed, W!Saved, W!Complete, W!Installs
<1>5. W!InstalledAsShown' /\ W!NoneForgotten'
  BY <1>1, <1>2 DEF W!Agreed, W!InstalledAsShown, W!NoneForgotten
<1> QED
  BY <1>3, <1>4, <1>5 DEF W!Agreed

(* What an answered update leaves as it was.                                *)
LEMMA AnswerLeaves ==
  ASSUME W!Agreed, NEW p \in v9, v1' = W!Applied(p) \/ UNCHANGED v1
  PROVE  /\ v1' \in [W!Ids -> W!Drafts] /\ p.draft \in W!Ids /\ p.settings \in W!Forms
         /\ p.then \in {"stay", "settings", "summary"} /\ p.sends \subseteq W!Kinds
         /\ \A d \in W!Ids :
              /\ v1'[d].there = v1[d].there /\ v1'[d].for = v1[d].for
              /\ v1'[d].staged = v1[d].staged
              /\ v1[d].settings \in W!Forms /\ v1'[d].settings \in W!Forms
              /\ d # p.draft => v1'[d] = v1[d]
         /\ v1' = W!Applied(p) /\ v1[p.draft].there =>
              \A k \in W!Kinds : v1'[p.draft].settings[k] =
                IF k \in p.sends THEN p.settings[k] ELSE v1[p.draft].settings[k]
<1> DEFINE drafts == v1
<1>1. drafts \in [W!Ids -> W!Drafts] /\ p \in W!Updates
  BY DEF W!Agreed, W!Shapes
<1>2. /\ p.draft \in W!Ids /\ p.settings \in W!Forms /\ p.then \in {"stay", "settings", "summary"}
      /\ p.sends \subseteq W!Kinds
  BY <1>1 DEF W!Updates
<1>3. \A d \in W!Ids : drafts[d] \in W!Drafts /\ drafts[d].settings \in W!Forms
  BY <1>1 DEF W!Drafts
<1>4. CASE UNCHANGED drafts /\ ~(drafts' = W!Applied(p) /\ drafts[p.draft].there)
  BY <1>1, <1>2, <1>3, <1>4
<1>5. CASE drafts' = W!Applied(p) /\ drafts[p.draft].there
  <2> DEFINE y == [k \in W!Kinds |-> IF k \in p.sends THEN p.settings[k]
                                                      ELSE drafts[p.draft].settings[k]]
  <2>1. y \in W!Forms
    BY <1>2, <1>3 DEF W!Forms
  <2>2. \A k \in W!Kinds : y[k] =
          IF k \in p.sends THEN p.settings[k] ELSE drafts[p.draft].settings[k]
    OBVIOUS
  <2>3. drafts' = [drafts EXCEPT ![p.draft].settings = y]
    BY <1>1, <1>2, <1>5 DEF W!Applied
  <2> HIDE DEF y
  <2>4. drafts' \in [W!Ids -> W!Drafts]
    BY <1>1, <1>2, <2>1, <2>3 DEF W!Drafts
  <2>5. \A d \in W!Ids : drafts'[d] =
               IF d = p.draft THEN [drafts[d] EXCEPT !.settings = y] ELSE drafts[d]
    BY <1>1, <1>2, <2>3
  <2>6. drafts'[p.draft].settings = y
    BY <1>2, <1>3, <2>5 DEF W!Drafts
  <2>7. \A d \in W!Ids :
          /\ drafts'[d].there = drafts[d].there /\ drafts'[d].for = drafts[d].for
          /\ drafts'[d].staged = drafts[d].staged
          /\ d # p.draft => drafts'[d] = drafts[d]
    BY <1>2, <1>3, <2>5 DEF W!Drafts
  <2>8. \A d \in W!Ids : drafts'[d].settings \in W!Forms
    BY <2>4 DEF W!Drafts
  <2>9. \A k \in W!Kinds : drafts'[p.draft].settings[k] =
          IF k \in p.sends THEN p.settings[k] ELSE drafts[p.draft].settings[k]
    BY <2>2, <2>6
  <2>10. \A d \in W!Ids :
           /\ drafts'[d].there = drafts[d].there /\ drafts'[d].for = drafts[d].for
           /\ drafts'[d].staged = drafts[d].staged
           /\ drafts[d].settings \in W!Forms /\ drafts'[d].settings \in W!Forms
           /\ d # p.draft => drafts'[d] = drafts[d]
    BY <1>3, <2>7, <2>8
  <2> QED
    BY <1>2, <2>4, <2>9, <2>10, Zenon
<1>6. UNCHANGED drafts \/ (drafts' = W!Applied(p) /\ drafts[p.draft].there)
  BY DEF W!Applied
<1> QED
  BY <1>4, <1>5, <1>6

(* When no mishap is left, the draft has what is shown, or all of that is   *)
(* still on its way.                                                        *)
LEMMA AnswerSaves == ASSUME W!Agreed, NEW p \in v9, W!PatchEnds(p) PROVE W!Saved'
<1> DEFINE drafts == v1  page == v3  draft == v5  form == v6  task == v8  patches == v9
           install == v11  excuses == v12
<1>1. drafts' = W!Applied(p) \/ UNCHANGED drafts
  BY DEF W!PatchEnds
<1>2. /\ patches' = patches \ {p} /\ UNCHANGED <<draft, form, task, install>>
      /\ page' = IF W!Open /\ p.then # "stay" THEN p.then ELSE page
  BY DEF W!PatchEnds
<1>3. SUFFICES ASSUME W!Open', W!Replacing = {}, draft # W!None, "mishap" \notin excuses'
               PROVE  \/ W!Matches(drafts'[draft].settings, form, excuses')
                      \/ /\ page' # "summary" /\ install.at = "no"
                         /\ \A q \in patches' : q.then # "stay" => W!Complete(q)
  BY <1>2 DEF W!Saved, W!Replacing, W!Complete
<1>4. /\ W!Open /\ draft \in W!Ids /\ form \in W!Forms
      /\ p.sends \subseteq W!Kinds /\ p.draft \in W!Ids
  BY <1>1, <1>2, <1>3, AnswerLeaves DEF W!Open, W!Agreed, W!Shapes
<1>5. drafts' = W!Applied(p) /\ ~W!Overtaken(p) /\ excuses' = excuses \ W!MadeGood(p)
  BY <1>3 DEF W!PatchEnds, W!Excuse
<1>6. /\ drafts[p.draft].there
      /\ \A k \in p.sends : ~(p.settings[k] < drafts[p.draft].settings[k])
  BY <1>5 DEF W!Overtaken
<1>7. \A k \in W!Kinds : /\ form[k] \in Int /\ p.settings[k] \in Int
                         /\ drafts[draft].settings[k] \in Int
  BY <1>1, <1>4, AnswerLeaves DEF W!Forms
<1>8. p.draft = draft => \A k \in p.sends : p.settings[k] <= form[k]
  BY <1>3, <1>4 DEF W!Agreed, W!Shown
<1>9. /\ p.draft # draft => drafts'[draft] = drafts[draft]
      /\ p.draft = draft => \A k \in W!Kinds : drafts'[draft].settings[k] =
           IF k \in p.sends THEN p.settings[k] ELSE drafts[draft].settings[k]
  BY <1>1, <1>4, <1>5, <1>6, AnswerLeaves
<1>10. CASE W!Complete(p)
  <2>1. drafts'[draft].settings["app"] = form["app"]
    BY <1>9, <1>10 DEF W!Complete, W!Kinds
  <2>2. drafts'[draft].settings["system"] = form["system"]
    BY <1>9, <1>10 DEF W!Complete, W!Kinds
  <2> QED
    BY <2>1, <2>2 DEF W!Matches
<1>11. CASE ~W!Complete(p)
  <2>1. "mishap" \notin excuses
    BY <1>3, <1>5, <1>11 DEF W!MadeGood
  <2>2. \/ W!Matches(drafts[draft].settings, form, excuses)
        \/ /\ page # "summary" /\ install.at = "no"
           /\ \A q \in patches : q.then # "stay" => W!Complete(q)
    BY <1>3, <1>4, <2>1 DEF W!Agreed, W!Saved
  <2>3. CASE W!Matches(drafts[draft].settings, form, excuses)
    <3>1. CASE p.draft # draft
      <4>1. "carried" \in excuses => "carried" \in excuses'
        BY <1>5, <3>1 DEF W!MadeGood
      <4> QED
        BY <1>9, <2>3, <3>1, <4>1 DEF W!Matches
    <3>2. CASE p.draft = draft
      <4>1. drafts'[draft].settings["app"] = form["app"]
        BY <1>4, <1>6, <1>7, <1>8, <1>9, <2>3, <3>2 DEF W!Matches, W!Kinds
      <4>2. drafts'[draft].settings["system"] = form["system"] \/ "carried" \in excuses'
        <5>1. CASE "carried" \notin excuses
          BY <1>4, <1>6, <1>7, <1>8, <1>9, <2>3, <3>2, <5>1 DEF W!Matches, W!Kinds
        <5>2. CASE "carried" \in excuses /\ "carried" \notin excuses'
          <6>1. "system" \in p.sends /\ p.settings["system"] = form["system"]
            BY <1>5, <5>2 DEF W!MadeGood
          <6> QED
            BY <1>9, <3>2, <6>1 DEF W!Kinds
        <5> QED
          BY <5>1, <5>2
      <4> QED
        BY <4>1, <4>2 DEF W!Matches
    <3> QED
      BY <3>1, <3>2
  <2>4. CASE /\ page # "summary" /\ install.at = "no"
             /\ \A q \in patches : q.then # "stay" => W!Complete(q)
    <3>1. p.then = "stay"
      BY <1>11, <2>4
    <3> QED
      BY <1>2, <2>4, <3>1
  <2> QED
    BY <2>2, <2>3, <2>4
<1> QED
  BY <1>10, <1>11

(* An update is answered, refused or lost.                                  *)
LEMMA PatchEndsKeeps == ASSUME W!Agreed, NEW p \in v9, W!PatchEnds(p) PROVE W!Agreed'
<1> DEFINE drafts == v1  deployed == v2  page == v3  chosen == v4  draft == v5  form == v6
           task == v8  patches == v9  removals == v10  install == v11  excuses == v12
<1>1. drafts' = W!Applied(p) \/ UNCHANGED drafts
  BY DEF W!PatchEnds
<1>2. /\ patches' = patches \ {p} /\ page' = IF W!Open /\ p.then # "stay" THEN p.then ELSE page
      /\ UNCHANGED <<deployed, chosen, draft, form, task, removals, install>>
      /\ "kept" \in excuses <=> "kept" \in excuses'
  BY DEF W!PatchEnds, W!Excuse, W!MadeGood
<1>3. /\ drafts' \in [W!Ids -> W!Drafts] /\ p.draft \in W!Ids
         /\ p.then \in {"stay", "settings", "summary"}
      /\ \A d \in W!Ids :
           /\ drafts'[d].there = drafts[d].there /\ drafts'[d].for = drafts[d].for
           /\ drafts'[d].staged = drafts[d].staged
           /\ d # p.draft => drafts'[d] = drafts[d]
  BY <1>1, AnswerLeaves
<1>4. W!Open' <=> W!Open
  BY <1>2, <1>3 DEF W!Open
<1>5. W!Shapes' /\ W!Replacing' = W!Replacing
  BY <1>2, <1>3 DEF W!Agreed, W!Shapes, W!Replacing
<1>6. draft \in W!Ids \cup {W!None} /\ \A t \in W!Tasks : task[t].old \in W!Ids \cup {W!None}
  BY WorkIs DEF W!Agreed, W!Shapes
<1>7. W!Replaces'
  <2>1. \A t \in W!Replacing : task[t].at = "created" => drafts'[task[t].old] = drafts[task[t].old]
    BY <1>3 DEF W!Agreed, W!Replaces
  <2>2. draft = W!None \/ drafts'[draft].there = drafts[draft].there
    BY <1>3, <1>6
  <2>3. UNCHANGED <<task, chosen, draft, removals>> /\ patches' \subseteq patches
    BY <1>2
  <2>4. "kept" \in excuses <=> "kept" \in excuses'
    BY <1>2
  <2>5. ASSUME NEW t \in W!Replacing
        PROVE  /\ task[t].at # "removing" => draft = W!None \/ ~drafts'[draft].there
                  \/ "kept" \in excuses'
               /\ task[t].at = "created" =>
                    /\ drafts'[task[t].old] =
                         [for |-> chosen, settings |-> W!All(0), staged |-> W!All(-1), there |-> TRUE]
                    /\ \A q \in patches' : q.draft # task[t].old
    BY <2>1, <2>2, <2>3, <2>4 DEF W!Agreed, W!Replaces
  <2> QED
    BY <1>4, <1>5, <2>3, <2>5 DEF W!Agreed, W!Replaces
<1>8. W!Shown'
  BY <1>2, <1>3, <1>4, <1>5, <1>6 DEF W!Agreed, W!Shown
<1>9. W!Installs'
  BY <1>2, <1>3, <1>4, <1>5, <1>6 DEF W!Agreed, W!Installs
<1>10. W!InstalledAsShown' /\ W!NoneForgotten'
  BY <1>2, <1>3, <1>4, <1>5 DEF W!Agreed, W!InstalledAsShown, W!NoneForgotten
<1> QED
  BY <1>5, <1>7, <1>8, <1>9, <1>10, AnswerSaves DEF W!Agreed

-----------------------------------------------------------------------------
(* The install goes on, the page shown.                                     *)
LEMMA InstallGoesOn ==
  ASSUME W!Agreed, UNCHANGED <<v2, v3, v4, v5, v6, v8, v9, v10, v12>>,
         v11' \in W!Tries, v1' \in [W!Ids -> W!Drafts], W!Installs', W!Saved',
         \A d \in W!Ids : v1'[d].there = v1[d].there /\ v1'[d].for = v1[d].for,
         v1' = v1 \/ W!Replacing = {}
  PROVE  W!Agreed'
<1> DEFINE draft == v5
<1>1. W!Shapes' /\ W!Replacing' = W!Replacing /\ (W!Open' <=> W!Open)
  BY DEF W!Agreed, W!Shapes, W!Replacing, W!Open, W!Tries
<1>2. W!Replaces'
  BY <1>1 DEF W!Agreed, W!Replaces
<1>3. draft \in W!Ids \cup {W!None}
  BY DEF W!Agreed, W!Shapes
<1>4. W!Shown'
  BY <1>1, <1>3 DEF W!Agreed, W!Shown
<1>5. W!InstalledAsShown' /\ W!NoneForgotten'
  BY <1>1 DEF W!Agreed, W!InstalledAsShown, W!NoneForgotten
<1> QED
  BY <1>1, <1>2, <1>4, <1>5 DEF W!Agreed

(* What is shown is to be installed.                                        *)
LEMMA InstallKeeps == ASSUME W!Agreed, "crossed" \notin v12', W!Install PROVE W!Agreed'
<1> DEFINE drafts == v1  deployed == v2  page == v3  chosen == v4  draft == v5  form == v6
           task == v8  patches == v9  removals == v10  install == v11  excuses == v12
<1>1. /\ page = "summary" /\ draft # W!None /\ install.at = "no" /\ W!Replacing = {}
         /\ excuses' = excuses
      /\ install' = [at |-> "finalizing", draft |-> draft, shown |-> chosen, settings |-> form,
                     excused |-> {}]
      /\ UNCHANGED <<drafts, deployed, page, chosen, draft, form, task, patches, removals>>
  BY DEF W!Install, W!Excuse
<1>2. install' \in W!Tries /\ drafts \in [W!Ids -> W!Drafts] /\ W!Open /\ W!Replacing' = {}
      /\ W!Open'
  BY <1>1 DEF W!Agreed, W!Shapes, W!Tries, W!Open, W!Replacing
<1>3. W!Installs'
  BY <1>1, <1>2 DEF W!Installs
<1>4. W!Saved'
  BY <1>1, <1>2 DEF W!Agreed, W!Saved
<1> QED
  BY <1>1, <1>2, <1>3, <1>4, InstallGoesOn

(* The settings the server has are staged.                                  *)
LEMMA FinalizedKeeps == ASSUME W!Agreed, "crossed" \notin v12', W!Finalized PROVE W!Agreed'
<1> DEFINE drafts == v1  deployed == v2  page == v3  chosen == v4  draft == v5  form == v6
           task == v8  patches == v9  removals == v10  install == v11  excuses == v12
<1> DEFINE d == install.draft
<1>1. /\ install.at = "finalizing" /\ drafts' = [drafts EXCEPT ![d].staged = drafts[d].settings]
      /\ install' = [install EXCEPT !.at = "deploying",
                     !.excused = excuses \cap {"carried", "mishap"}]
      /\ UNCHANGED <<deployed, page, chosen, draft, form, task, patches, removals, excuses>>
  BY DEF W!Finalized
<1>2. /\ W!Open /\ W!Replacing = {} /\ draft # W!None /\ d = draft /\ install.shown = chosen
      /\ install.settings = form /\ d \in W!Ids
  BY <1>1 DEF W!Agreed, W!Installs, W!Shapes
<1>3. drafts \in [W!Ids -> W!Drafts] /\ install \in W!Tries
  BY DEF W!Agreed, W!Shapes, W!Tries
<1> HIDE DEF d
<1>4. /\ drafts' \in [W!Ids -> W!Drafts] /\ drafts'[d].staged = drafts[d].settings
      /\ drafts'[d].settings = drafts[d].settings
      /\ \A e \in W!Ids : drafts'[e].there = drafts[e].there /\ drafts'[e].for = drafts[e].for
  <2>1. drafts[d] \in W!Drafts
    BY <1>2, <1>3
  <2>2. drafts' \in [W!Ids -> W!Drafts]
    BY <1>1, <1>2, <1>3, <2>1 DEF W!Drafts
  <2>3. \A e \in W!Ids : drafts'[e] =
               IF e = d THEN [drafts[d] EXCEPT !.staged = drafts[d].settings] ELSE drafts[e]
    BY <1>1, <1>2, <1>3
  <2> QED
    BY <1>2, <2>1, <2>2, <2>3 DEF W!Drafts
<1>5. /\ install' \in W!Tries /\ install'.at = "deploying" /\ install'.draft = draft
      /\ install'.shown = chosen /\ install'.settings = form
      /\ install'.excused = excuses \cap {"carried", "mishap"}
  <2>1. excuses \cap {"carried", "mishap"} \in SUBSET {"carried", "mishap"}
    OBVIOUS
  <2> QED
    BY <1>1, <1>2, <1>3, <2>1 DEF W!Tries, d
<1>6. "mishap" \notin excuses => W!Matches(drafts[d].settings, form, excuses)
  BY <1>1, <1>2 DEF W!Agreed, W!Saved
<1>7. W!Open' /\ W!Replacing' = {}
  BY <1>1, <1>2 DEF W!Open, W!Replacing
<1>8. W!Installs'
  <2>1. "mishap" \notin install'.excused => W!Matches(drafts'[d].staged, form, install'.excused)
    BY <1>4, <1>5, <1>6 DEF W!Matches
  <2> QED
    BY <1>1, <1>2, <1>5, <1>7, <2>1 DEF W!Installs
<1>9. W!Saved'
  BY <1>1, <1>2, <1>4, <1>6 DEF W!Saved
<1> QED
  BY <1>1, <1>2, <1>4, <1>5, <1>8, <1>9, InstallGoesOn

(* The deployment that is made, when nothing was excused.                   *)
LEMMA DeploymentIs ==
  ASSUME W!Agreed, v11.at \in {"finalizing", "deploying"}
  PROVE  /\ W!Deployment \in W!Installed /\ W!Open /\ W!Replacing = {} /\ v5 \in W!Ids
         /\ v11.at = "deploying" => W!AsShown(W!Deployment)
<1> DEFINE drafts == v1  page == v3  chosen == v4  draft == v5  form == v6  install == v11
<1>1. /\ W!Open /\ W!Replacing = {} /\ draft # W!None
      /\ install.draft = draft /\ install.shown = chosen /\ install.settings = form
      /\ install.at = "deploying" /\ "mishap" \notin install.excused
           => W!Matches(drafts[draft].staged, form, install.excused)
  BY DEF W!Agreed, W!Installs
<1>2. draft \in W!Ids
  BY <1>1 DEF W!Agreed, W!Shapes
<1>3. drafts[draft].for = chosen
  BY <1>1 DEF W!Agreed, W!Shown
<1>4. install.excused \in SUBSET {"carried", "mishap"}
  BY DEF W!Agreed, W!Shapes, W!Tries
<1> DEFINE same == {x \in {"choice"} : drafts[install.draft].for = install.shown}
                     \cup {k \in W!Kinds : drafts[install.draft].staged[k] = install.settings[k]}
<1>5. W!Deployment = [asShown |-> same, excused |-> install.excused]
  BY DEF W!Deployment
<1>6. same \in SUBSET ({"choice"} \cup W!Kinds)
  OBVIOUS
<1>7. "choice" \in same
  BY <1>1, <1>3
<1>8. \A k \in W!Kinds : k \in same <=> drafts[draft].staged[k] = form[k]
  BY <1>1 DEF W!Kinds
<1> HIDE DEF same
<1>9. W!Deployment \in W!Installed
  BY <1>4, <1>5, <1>6 DEF W!Installed
<1>10. ASSUME install.at = "deploying" PROVE W!AsShown(W!Deployment)
  <2> SUFFICES ASSUME "mishap" \notin install.excused
               PROVE  {"choice", "app"} \subseteq same
                      /\ ("system" \in same \/ "carried" \in install.excused)
    BY <1>5 DEF W!AsShown
  <2>1. W!Matches(drafts[draft].staged, form, install.excused)
    BY <1>1, <1>10
  <2>2. "app" \in W!Kinds /\ "system" \in W!Kinds
    BY DEF W!Kinds
  <2> QED
    BY <1>7, <1>8, <2>1, <2>2 DEF W!Matches
<1> QED
  BY <1>1, <1>2, <1>9, <1>10

(* It is installed, and the page is left.                                   *)
LEMMA DeployedKeeps == ASSUME W!Agreed, W!Deployed PROVE W!Agreed'
<1> DEFINE drafts == v1  deployed == v2  page == v3  chosen == v4  draft == v5  form == v6
           task == v8  patches == v9  removals == v10  install == v11  excuses == v12
<1>1. /\ install.at = "deploying" /\ deployed' = {W!Deployment} /\ page' = "left"
      /\ install' = [W!NoInstall EXCEPT !.at = "done"] /\ form' = W!All(0)
      /\ UNCHANGED <<drafts, chosen, draft, task, patches, removals, excuses>>
  BY DEF W!Deployed
<1>2. /\ W!Deployment \in W!Installed /\ W!Open /\ W!Replacing = {}
      /\ W!AsShown(W!Deployment)
  BY <1>1, DeploymentIs
<1>3. install' \in W!Tries /\ install'.at = "done" /\ form' \in W!Forms
  BY <1>1, AllIs DEF W!NoInstall, W!Tries, W!First, W!Choices, W!None
<1>4. ~W!Open' /\ W!Replacing' = {}
  BY <1>1, <1>2 DEF W!Open, W!Replacing
<1>5. W!Shapes'
  BY <1>1, <1>2, <1>3 DEF W!Agreed, W!Shapes, W!Tries
<1>6. W!Replaces'
  BY <1>1, <1>4 DEF W!Agreed, W!Replaces
<1>7. W!Shown' /\ W!Saved' /\ W!Installs'
  BY <1>3, <1>4 DEF W!Shown, W!Saved, W!Installs
<1>8. W!InstalledAsShown'
  BY <1>1, <1>2 DEF W!InstalledAsShown, W!AsShown
<1>9. W!NoneForgotten'
  BY <1>1, <1>2, <1>4 DEF W!Agreed, W!NoneForgotten
<1> QED
  BY <1>5, <1>6, <1>7, <1>8, <1>9 DEF W!Agreed

(* The install is over, though the server may have made the deployment.     *)
LEMMA InstallFailsKeeps == ASSUME W!Agreed, W!InstallFails PROVE W!Agreed'
<1> DEFINE drafts == v1  deployed == v2  page == v3  chosen == v4  draft == v5  form == v6
           task == v8  patches == v9  removals == v10  install == v11  excuses == v12
<1>1. /\ install.at \in {"finalizing", "deploying"} /\ install' = W!NoInstall
      /\ deployed' = deployed \/ (deployed' = {W!Deployment} /\ install.at = "deploying")
      /\ UNCHANGED <<drafts, page, chosen, draft, form, task, patches, removals, excuses>>
  BY DEF W!InstallFails
<1>2. /\ W!Deployment \in W!Installed /\ W!Open /\ W!Replacing = {}
      /\ install.at = "deploying" => W!AsShown(W!Deployment)
  BY <1>1, DeploymentIs
<1>3. W!NoInstall \in W!Tries /\ W!NoInstall.at = "no"
  BY AllIs DEF W!NoInstall, W!Tries, W!First, W!Choices, W!None
<1>4. W!Open' /\ W!Replacing' = {}
  BY <1>1, <1>2 DEF W!Open, W!Replacing
<1>5. W!Shapes'
  BY <1>1, <1>2, <1>3 DEF W!Agreed, W!Shapes, W!Tries
<1>6. W!Replaces'
  BY <1>1, <1>2, <1>4 DEF W!Agreed, W!Replaces
<1>7. W!Shown' /\ W!Installs'
  BY <1>1, <1>2, <1>3, <1>4 DEF W!Agreed, W!Shown, W!Installs
<1>8. W!Saved'
  BY <1>1, <1>2, <1>3, <1>4 DEF W!Agreed, W!Saved
<1>9. W!InstalledAsShown'
  BY <1>1, <1>2 DEF W!Agreed, W!InstalledAsShown, W!AsShown
<1>10. W!NoneForgotten'
  BY <1>1, <1>2, <1>4 DEF W!Agreed, W!NoneForgotten
<1> QED
  BY <1>5, <1>6, <1>7, <1>8, <1>9, <1>10 DEF W!Agreed

(* The page is left while nothing goes on: its draft is on its way out.     *)
LEMMA LeaveKeeps == ASSUME W!Agreed, "crossed" \notin v12', W!Leave PROVE W!Agreed'
<1> DEFINE drafts == v1  deployed == v2  page == v3  chosen == v4  draft == v5  form == v6
           task == v8  patches == v9  removals == v10  install == v11  excuses == v12
<1>1. /\ W!Open /\ W!Replacing = {} /\ install.at = "no" /\ page' = "left"
      /\ removals' = removals \cup W!Abandoned /\ form' = W!All(0)
      /\ UNCHANGED <<drafts, deployed, chosen, draft, task, patches, install, excuses>>
  BY DEF W!Leave, W!Excuse
<1>2. ~W!Open' /\ W!Replacing' = {}
  BY <1>1 DEF W!Open, W!Replacing
<1>3. W!Abandoned \subseteq W!Ids /\ (draft \in W!Ids => draft \in W!Abandoned)
  BY WizardConstants DEF W!Abandoned, W!Agreed, W!Shapes
<1>4. W!Shapes'
  BY <1>1, <1>3, AllIs DEF W!Agreed, W!Shapes
<1>5. W!Replaces'
  BY <1>1, <1>2 DEF W!Agreed, W!Replaces
<1>6. W!Shown' /\ W!Saved' /\ W!Installs'
  BY <1>1, <1>2 DEF W!Shown, W!Saved, W!Installs
<1>7. W!InstalledAsShown'
  BY <1>1 DEF W!Agreed, W!InstalledAsShown
<1>8. W!NoneForgotten'
  BY <1>1, <1>2, <1>3 DEF W!Agreed, W!NoneForgotten
<1> QED
  BY <1>4, <1>5, <1>6, <1>7, <1>8 DEF W!Agreed

(* The draft of a page that was left is gone, or was kept.                  *)
LEMMA RemovalEndsKeeps == ASSUME W!Agreed, NEW d \in v10, W!RemovalEnds(d) PROVE W!Agreed'
<1> DEFINE drafts == v1  deployed == v2  page == v3  chosen == v4  draft == v5  form == v6
           task == v8  patches == v9  removals == v10  install == v11  excuses == v12
<1>1. /\ ~W!Open /\ W!Replacing = {} /\ d \in W!Ids /\ install.at \notin {"finalizing", "deploying"}
      /\ drafts \in [W!Ids -> W!Drafts]
  BY DEF W!Agreed, W!Replaces, W!Shapes, W!Installs
<1>2. /\ removals' = removals \ {d}
      /\ UNCHANGED <<deployed, page, chosen, draft, form, task, patches, install>>
      /\ \/ drafts' = [drafts EXCEPT ![d] = W!NoDraft] /\ UNCHANGED excuses
         \/ excuses' = excuses \cup {"kept"} /\ UNCHANGED drafts
  BY DEF W!RemovalEnds, W!Excuse
<1>3. ~W!Open' /\ W!Replacing' = {}
  BY <1>1, <1>2 DEF W!Open, W!Replacing
<1>4. W!Shapes'
  BY <1>1, <1>2, WizardConstants DEF W!Agreed, W!Shapes
<1>5. W!Replaces'
  BY <1>1, <1>2, <1>3 DEF W!Agreed, W!Replaces
<1>6. W!Shown' /\ W!Saved' /\ W!Installs'
  BY <1>1, <1>2, <1>3 DEF W!Shown, W!Saved, W!Installs
<1>7. W!InstalledAsShown'
  BY <1>2 DEF W!Agreed, W!InstalledAsShown
<1>8. W!NoneForgotten'
  <2> SUFFICES ASSUME "kept" \notin excuses', NEW e \in W!Ids, drafts'[e].there
               PROVE  e \in removals' \/ (e = draft /\ deployed # {})
    BY <1>2 DEF W!NoneForgotten
  <2>1. "kept" \notin excuses /\ e # d /\ drafts[e].there
    BY <1>1, <1>2, WizardConstants
  <2> QED
    BY <1>1, <1>2, <2>1 DEF W!Agreed, W!NoneForgotten
<1> QED
  BY <1>4, <1>5, <1>6, <1>7, <1>8 DEF W!Agreed

-----------------------------------------------------------------------------
(* Before anything crosses, every step keeps the wizard and the server      *)
(* agreed; from then on nothing is promised.                                *)
LEMMA NextWizard == ASSUME W!WizardInv, W!Next PROVE W!WizardInv'
<1> DEFINE patches == v9  removals == v10  excuses == v12
<1> SUFFICES ASSUME W!Agreed, "crossed" \notin excuses' PROVE W!Agreed'
  BY DEF W!WizardInv, W!Next
<1>1. ASSUME NEW x \in {1, 2}, W!Decide(x) \/ W!SwitchChannel(x) \/ W!ChangeRestore(x)
             PROVE W!Agreed'
  BY <1>1, DecideKeeps, SwitchKeeps
<1>2. ASSUME NEW t \in W!Tasks, W!Removed(t) \/ W!Created(t) \/ W!Answered(t)
             \/ W!CreateFails(t) PROVE W!Agreed'
  BY <1>2, RemovedKeeps, CreatedKeeps, AnsweredKeeps, CreateFailsKeeps
<1>3. ASSUME \/ W!Retry \/ (\E k \in W!Kinds \cup {"volumes"} : W!Edit(k)) \/ W!Forward
             \/ W!Back \/ (\E p \in patches : W!PatchEnds(p))
      PROVE  W!Agreed'
  BY <1>3, RetryKeeps, EditKeeps, ForwardKeeps, BackKeeps, PatchEndsKeeps
<1>4. ASSUME W!Install \/ W!Finalized \/ W!Deployed \/ W!InstallFails PROVE W!Agreed'
  BY <1>4, InstallKeeps, FinalizedKeeps, DeployedKeeps, InstallFailsKeeps
<1>5. ASSUME W!Leave \/ \E d \in removals : W!RemovalEnds(d) PROVE W!Agreed'
  BY <1>5, LeaveKeeps, RemovalEndsKeeps
<1> QED
  BY <1>1, <1>2, <1>3, <1>4, <1>5 DEF W!Next

(* A wizard that was just opened.                                           *)
LEMMA InitWizard == ASSUME W!Init PROVE W!WizardInv
<1> DEFINE drafts == v1  deployed == v2  page == v3  chosen == v4  draft == v5  form == v6
           task == v8  patches == v9  removals == v10  install == v11
<1>1. /\ drafts = [d \in W!Ids |-> W!NoDraft] /\ deployed = {} /\ page = "restore"
         /\ chosen = W!First
      /\ draft = W!None /\ form = W!All(0) /\ patches = {} /\ removals = {} /\ install = W!NoInstall
      /\ task = [t \in W!Tasks |-> [W!Quiet EXCEPT !.at = IF t = "mount" THEN "due" ELSE "idle"]]
  BY DEF W!Init
<1>2. W!Quiet \in W!Works /\ W!First \in W!Choices /\ W!NoInstall \in W!Tries
      /\ W!NoInstall.at = "no"
  BY AllIs DEF W!Quiet, W!Works, W!Stages, W!First, W!Choices, W!None, W!NoInstall, W!Tries
<1>3. /\ task \in [W!Tasks -> W!Works]
      /\ \A t \in W!Tasks : task[t].at = IF t = "mount" THEN "due" ELSE "idle"
  BY <1>1, <1>2 DEF W!Works, W!Stages
<1>4. W!Replacing = {} /\ W!Open
  BY <1>1, <1>3 DEF W!Replacing, W!Open
<1>5. W!Shapes
  BY <1>1, <1>2, <1>3, WizardConstants, AllIs DEF W!Shapes, W!Works, W!Stages, W!Tries
<1>6. W!Replaces
  BY <1>1, <1>3, <1>4 DEF W!Replaces, W!Tasks
<1>7. W!Shown /\ W!Saved /\ W!Installs /\ W!InstalledAsShown
  BY <1>1, <1>2 DEF W!Shown, W!Saved, W!Installs, W!InstalledAsShown
<1>8. W!NoneForgotten
  BY <1>1, WizardConstants DEF W!NoneForgotten
<1> QED
  BY <1>5, <1>6, <1>7, <1>8 DEF W!WizardInv, W!Agreed

(* What it promises.                                                        *)
LEMMA WizardPromises == ASSUME W!WizardInv PROVE W!InstallsWhatIsShown /\ W!NothingLeftBehind
<1>1. W!InstallsWhatIsShown
  BY DEF W!WizardInv, W!Agreed, W!InstalledAsShown, W!InstallsWhatIsShown
<1>2. W!NothingLeftBehind
  BY DEF W!WizardInv, W!Agreed, W!NoneForgotten, W!NothingLeftBehind
<1> QED
  BY <1>1, <1>2

(* Nothing changes while nothing happens.                                   *)
LEMMA WizardIdles == ASSUME W!WizardInv, UNCHANGED W!vars PROVE W!WizardInv'
<1> DEFINE drafts == v1  deployed == v2  page == v3  chosen == v4  draft == v5  form == v6
           task == v8  patches == v9  removals == v10  install == v11  excuses == v12
<1>1. UNCHANGED <<drafts, deployed, page, chosen, draft, form, task, patches, removals, install,
                  excuses>>
  BY DEF W!vars
<1>2. W!Open' = W!Open /\ W!Replacing' = W!Replacing
  BY <1>1 DEF W!Open, W!Replacing
<1> SUFFICES ASSUME W!Agreed PROVE W!Agreed'
  BY <1>1 DEF W!WizardInv
<1>3. W!Shapes' /\ W!Replaces'
  BY <1>1, <1>2 DEF W!Agreed, W!Shapes, W!Replaces
<1>4. W!Shown' /\ W!Saved' /\ W!Installs'
  BY <1>1, <1>2 DEF W!Agreed, W!Shown, W!Saved, W!Complete, W!Installs
<1>5. W!InstalledAsShown' /\ W!NoneForgotten'
  BY <1>1, <1>2 DEF W!Agreed, W!InstalledAsShown, W!NoneForgotten
<1> QED
  BY <1>3, <1>4, <1>5 DEF W!Agreed

(* The invariant holds at first, whichever component runs.                  *)
LEMMA InitWizards == Init => WizardsInv
  BY InitWizard, Zenon DEF Init, WizardsInv

(* It is inductive.                                                         *)
LEMMA NextWizards == WizardsInv /\ [Next]_vars => WizardsInv'
<1> SUFFICES ASSUME WizardsInv, [Next]_vars, which' = "wizard" PROVE W!WizardInv'
  BY DEF WizardsInv
<1>1. which = "wizard"
  BY Zenon DEF Next, vars
<1>2. W!WizardInv
  BY <1>1 DEF WizardsInv
<1>3. CASE Next
  <2>1. W!Next
    BY <1>1, <1>3, Zenon DEF Next
  <2> QED
    BY <1>2, <2>1, NextWizard
<1>4. CASE UNCHANGED vars
  <2>1. UNCHANGED W!vars
    BY <1>4 DEF vars, W!vars
  <2> QED
    BY <1>2, <2>1, WizardIdles
<1> QED
  BY <1>3, <1>4

(* WizardTrue: what is installed is what the wizard showed, and it leaves   *)
(* no drafts behind (InstallWizard.tsx), but for the crossings, losses and  *)
(* failures the properties except.                                          *)
THEOREM WizardTrueHolds == Spec => []WizardTrue
<1>1. WizardsInv => WizardTrue
  BY WizardPromises DEF WizardsInv, WizardTrue
<1> QED
  BY <1>1, InitWizards, NextWizards, PTL DEF Spec
=============================================================================
