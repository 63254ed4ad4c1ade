--------------------------- MODULE LifecycleProofs ---------------------------
(***************************************************************************)
(* The lifecycle of one deployment, for any calls, requests, restarts and  *)
(* faults: its calls and jobs use the lock as LifecycleLock says, and what *)
(* they do under it to containers, data and snapshots does not interfere.  *)
(*                                                                         *)
(* LockInv is the inductive invariant of the lock: who holds it is at a    *)
(* stage whose code runs under it, and the calls in line and the jobs in   *)
(* the queue are those whose stage says so.  DataInv relates the stages    *)
(* under the lock to containers, data root and snapshots.                  *)
(*                                                                         *)
(* The second part is about one call at a time (OneAtATime): each is       *)
(* answered before the next is made, while the jobs they start, restarts   *)
(* and faults may come at any time.  Its invariants say, for each stage of *)
(* the one call under way, how far the record in memory, its files and the *)
(* pointer are apart, and which jobs may be under way beside it.           *)
(***************************************************************************)
EXTENDS DeploymentLifecycle, FiniteSetTheorems, SequenceTheorems, TLAPS

Rel == Releases \cup {NoRelease}

CallStages ==
  Writing \cup {"idle", "waiting", "capturing", "discarding", "tearing", "deprovisioning",
                "wiping", "reclaiming", "returned", "failed", "lost"}
Working == {"starting", "stopping", "quieting", "restoring", "preparing", "pulling", "upping",
            "reporting", "failing"}
JobStages == Working \cup {"none", "queued", "completed", "failed", "cancelled"}

CallRecord == [op : Operations \cup {"none"}, wants : SUBSET Wishes, at : CallStages,
               rel : Rel, old : Rel, doc : Docs]
JobRecord == [act : Operations \cup {"none", "deploy"}, at : JobStages, goal : Rel,
              restore : BOOLEAN, rel : Rel, flagged : BOOLEAN, doc : Docs]

RecordTypes ==
  /\ listed \in BOOLEAN /\ deployment \in Docs /\ meta \in Docs
  /\ release \in [Releases -> ReleaseStates] /\ stored \in [Releases -> ReleaseStates]
  /\ pointer \in Rel /\ staged \subseteq Releases /\ runtime \in BOOLEAN
  /\ snapshot \in [Releases -> Rel \cup {"missing"}]
  /\ containers \in Rel /\ data \in Rel

LockTypes ==
  /\ call \in [Calls -> CallRecord] /\ job \in [Calls -> JobRecord]
  /\ holder \in {<<>>} \cup ({"call", "job"} \X Calls)
  /\ waiting \in Seq(Calls) /\ queue \in Seq(Calls) /\ issued \in Seq(Calls)
  /\ cold \in BOOLEAN /\ crashes \in Nat /\ faults \in Nat

Members(s)  == {s[i] : i \in 1..Len(s)}
Distinct(s) == \A i, k \in 1..Len(s) : s[i] = s[k] => i = k

(* The stages of a call whose code runs under the lock. *)
Tearing == {"tearing", "deprovisioning", "wiping", "reclaiming"}
Holds(c) ==
  \/ call[c].at = "capturing"
  \/ call[c].op = "uninstall" /\ call[c].at \in Tearing

HolderInv ==
  /\ \A j \in Calls : job[j].at \in Working <=> holder = <<"job", j>>
  /\ \A c \in Calls : Holds(c) <=> holder = <<"call", c>>

LineInv ==
  /\ Distinct(waiting)
  /\ Members(waiting) = {c \in Calls : call[c].at = "waiting"}
  /\ holder = <<>> => waiting = <<>>

(* After a restart pending jobs are in their rows only.                     *)
QueueInv ==
  /\ Distinct(queue) /\ Distinct(issued)
  /\ Members(issued) = {j \in Calls : job[j].at # "none"}
  /\ ~cold => Members(queue) = {j \in Calls : job[j].at = "queued"}
  /\ cold => queue = <<>>

(* What stages say about the operation; a call starts one job, and starts   *)
(* it late.                                                                 *)
RightOp(c) ==
  /\ call[c].at = "idle" <=> call[c].op = "none"
  /\ call[c].at = "waiting" => call[c].op \in {"promote", "uninstall"}
  /\ call[c].at = "capturing" => call[c].op = "promote"
  /\ call[c].at \in Tearing \cup {"discarding"} => call[c].op \in Uninstalls

Late == {"closing", "returned", "failed", "lost"}

StageInv ==
  \A c \in Calls : RightOp(c) /\ (job[c].at # "none" => call[c].at \in Late)

LockInv == RecordTypes /\ LockTypes /\ HolderInv /\ LineInv /\ QueueInv /\ StageInv

(* The job of a rollback has a release to go to.                            *)
GoalInv ==
  \A c \in Calls :
    /\ call[c].op = "rollback" => call[c].rel \in Releases
    /\ job[c].act = "rollback" => job[c].goal \in Releases
    /\ job[c].at \in {"quieting", "restoring"} => job[c].act = "rollback" /\ job[c].restore

(* The lock keeps apart what the calls and jobs do as long as nobody        *)
(* forces an uninstall, which does not wait for it.                         *)
Unforced == \A r \in Requests : r.op # "forceUninstall"

AskedInv == \A c \in Calls : call[c].op # "none" => \E r \in Requests : r.op = call[c].op

(* No containers while a snapshot is restored or the deployment is torn     *)
(* down, and none without a compose file to stop them by.                   *)
DownInv ==
  /\ ~runtime => containers = NoRelease
  /\ \A c \in Calls : call[c].at \in {"deprovisioning", "wiping", "reclaiming"} => containers = NoRelease
  /\ \A j \in Calls : job[j].at = "restoring" => containers = NoRelease

(* From the restore to the start, the data root is what the snapshot holds. *)
RestoredInv ==
  \A j \in Calls :
    /\ job[j].at = "restoring" => snapshot[job[j].goal] # NoRelease
    /\ job[j].act = "rollback" /\ job[j].restore /\ job[j].at \in {"preparing", "pulling", "upping"} =>
         /\ snapshot[job[j].goal] # "missing"
         /\ snapshot[job[j].goal] # NoRelease => data = snapshot[job[j].goal]

DataInv == AskedInv /\ DownInv /\ RestoredInv

-----------------------------------------------------------------------------
(* Sequences without repetition. *)
LEMMA AppendMembers ==
  ASSUME NEW S, NEW s \in Seq(S), NEW x \in S
  PROVE  /\ Append(s, x) \in Seq(S)
         /\ Members(Append(s, x)) = Members(s) \cup {x}
         /\ Distinct(s) /\ x \notin Members(s) => Distinct(Append(s, x))
<1>1. /\ Append(s, x) \in Seq(S) /\ Len(Append(s, x)) = Len(s) + 1
      /\ \A i \in 1..Len(s) : Append(s, x)[i] = s[i]
      /\ Append(s, x)[Len(s) + 1] = x
      /\ Len(s) \in Nat
  BY AppendProperties, LenProperties
<1>2. \A i : i \in 1..(Len(s) + 1) <=> i \in 1..Len(s) \/ i = Len(s) + 1
  BY <1>1
<1>3. Members(Append(s, x)) = Members(s) \cup {x}
  BY <1>1, <1>2 DEF Members
<1>4. ASSUME Distinct(s), x \notin Members(s)
      PROVE  Distinct(Append(s, x))
  BY <1>1, <1>2, <1>4 DEF Distinct, Members
<1> QED
  BY <1>1, <1>3, <1>4

LEMMA TailMembers ==
  ASSUME NEW S, NEW s \in Seq(S), s # <<>>, Distinct(s)
  PROVE  /\ Head(s) \in S /\ Head(s) \in Members(s)
         /\ Tail(s) \in Seq(S) /\ Distinct(Tail(s))
         /\ Members(Tail(s)) = Members(s) \ {Head(s)}
<1>1. /\ Head(s) \in S /\ Tail(s) \in Seq(S) /\ Len(Tail(s)) = Len(s) - 1
      /\ Head(s) = s[1]
      /\ \A i \in 1..Len(Tail(s)) : Tail(s)[i] = s[i + 1]
      /\ Len(s) \in Nat /\ Len(s) > 0
  BY HeadTailProperties, LenProperties, EmptySeq
<1>2. Distinct(Tail(s))
  BY <1>1 DEF Distinct
<1>3. Members(Tail(s)) \subseteq Members(s) \ {Head(s)}
  <2> SUFFICES ASSUME NEW i \in 1..Len(Tail(s))
               PROVE  Tail(s)[i] \in Members(s) \ {Head(s)}
    BY DEF Members
  <2>1. i + 1 \in 1..Len(s) /\ i + 1 # 1 /\ 1 \in 1..Len(s) /\ Tail(s)[i] = s[i + 1]
    BY <1>1
  <2> QED
    BY <1>1, <2>1 DEF Members, Distinct
<1>4. Members(s) \ {Head(s)} \subseteq Members(Tail(s))
  <2> SUFFICES ASSUME NEW i \in 1..Len(s), s[i] # Head(s)
               PROVE  s[i] \in Members(Tail(s))
    BY DEF Members
  <2>1. i - 1 \in 1..Len(Tail(s)) /\ Tail(s)[i - 1] = s[i]
    BY <1>1
  <2> QED
    BY <2>1 DEF Members
<1>5. Head(s) \in Members(s)
  BY <1>1 DEF Members
<1> QED
  BY <1>1, <1>2, <1>3, <1>4, <1>5

LEMMA NoMembers == \A s : Len(s) = 0 => Members(s) = {} /\ Distinct(s)
  BY DEF Members, Distinct

(* A dispatch from a free lock: the first job of the queue, or nobody. *)
LEMMA TickTakes ==
  ASSUME NEW q \in Seq(Calls), NEW jb \in [Calls -> JobRecord], Tick(q, jb), Distinct(q),
         q # <<>> => Members(q) = {j \in Calls : jb[j].at = "queued"},
         \A j \in Calls : jb[j].at \notin Working
  PROVE  /\ holder' = <<>> \/ \E j \in Calls : holder' = <<"job", j>>
         /\ \A j \in Calls : job'[j].at \in Working <=> holder' = <<"job", j>>
         /\ Distinct(queue') /\ queue' \in Seq(Calls)
         /\ q # <<>> => Members(queue') = {j \in Calls : job'[j].at = "queued"}
         /\ q = <<>> => queue' = <<>> /\ job' = jb
         /\ \A j \in Calls : job'[j].at = "none" <=> jb[j].at = "none"
         /\ job' \in [Calls -> JobRecord]
<1>1. CASE holder' = <<>> /\ queue' = q /\ job' = jb
  BY <1>1
<1>2. CASE /\ q # <<>>
           /\ holder' = <<"job", Head(q)>>
           /\ queue' = Tail(q)
           /\ job' = [jb EXCEPT ![Head(q)].at = "starting"]
  <2>1. /\ Head(q) \in Calls /\ Head(q) \in Members(q)
        /\ Tail(q) \in Seq(Calls) /\ Distinct(Tail(q))
        /\ Members(Tail(q)) = Members(q) \ {Head(q)}
    BY <1>2, TailMembers
  <2>2. /\ job' \in [Calls -> JobRecord]
        /\ job'[Head(q)].at = "starting"
        /\ \A j \in Calls \ {Head(q)} : job'[j] = jb[j]
    BY <1>2, <2>1 DEF JobRecord, JobStages, Working
  <2> QED
    BY <1>2, <2>1, <2>2 DEF Working
<1> QED
  BY <1>1, <1>2 DEF Tick

-----------------------------------------------------------------------------
(* The steps of the lock one deployment sees. *)
Taken  == holder = <<>> /\ waiting' = waiting /\ holder' # <<>>
Joined == holder # <<>> /\ holder' = holder /\ \E c \in Calls : waiting' = Append(waiting, c)
Left   ==
  /\ holder # <<>>
  /\ \/ waiting # <<>> /\ holder' = <<"call", Head(waiting)>> /\ waiting' = Tail(waiting)
     \/ waiting = <<>> /\ waiting' = <<>> /\ (holder' = <<>> \/ \E j \in Calls : holder' = <<"job", j>>)
Freed  == holder' = <<>> /\ waiting' = <<>>
LockMove == Taken \/ Joined \/ Left \/ Freed \/ UNCHANGED <<holder, waiting>>

OrderInv == HolderInv /\ LineInv /\ QueueInv /\ StageInv
LockStep == OrderInv' /\ LockMove

(* A call goes on without touching the lock. *)
LEMMA CallMoves ==
  ASSUME LockInv, LockTypes', NEW c \in Calls,
         \A d \in Calls \ {c} : call'[d] = call[d],
         call[c].at # "waiting", call'[c].at # "waiting",
         Holds(c)' <=> Holds(c), RightOp(c)',
         job[c].at # "none" => call'[c].at \in Late,
         UNCHANGED <<job, lock, table>>
  PROVE  LockStep
<1> USE DEF lock, table
<1>1. \A d \in Calls \ {c} : (Holds(d)' <=> Holds(d)) /\ (RightOp(d)' <=> RightOp(d))
  BY DEF Holds, RightOp
<1>2. HolderInv'
  BY <1>1 DEF LockInv, HolderInv
<1>3. LineInv'
  BY DEF LockInv, LineInv, LockTypes
<1>4. QueueInv'
  BY DEF LockInv, QueueInv
<1>5. StageInv'
  BY <1>1 DEF LockInv, StageInv, Late
<1> QED
  BY <1>2, <1>3, <1>4, <1>5 DEF LockStep, OrderInv, LockMove

(* A job goes on under the lock. *)
LEMMA JobMoves ==
  ASSUME LockInv, LockTypes', NEW j \in Calls,
         \A k \in Calls \ {j} : job'[k] = job[k],
         job[j].at \in Working, job'[j].at \in Working,
         UNCHANGED <<call, lock, table>>
  PROVE  LockStep
<1> USE DEF lock, table, Working
<1>1. HolderInv'
  BY DEF LockInv, HolderInv, Holds
<1>2. LineInv'
  BY DEF LockInv, LineInv
<1>3. QueueInv'
  BY DEF LockInv, QueueInv
<1>4. StageInv'
  BY DEF LockInv, StageInv, RightOp
<1> QED
  BY <1>1, <1>2, <1>3, <1>4 DEF LockStep, OrderInv, LockMove

(* The holder leaves: jb are the jobs and call' the calls, the first in     *)
(* line aside, once it has done so.                                         *)
LEMMA HolderLeaves ==
  ASSUME LockInv, LockTypes', holder # <<>>, UNCHANGED table,
         NEW jb \in [Calls -> JobRecord], LeaveLock(jb),
         \A j \in Calls : /\ jb[j].at \notin Working
                          /\ jb[j].at = "queued" <=> job[j].at = "queued"
                          /\ jb[j].at = "none" <=> job[j].at = "none",
         waiting # <<>> => /\ call'[Head(waiting)].at = Granted(Head(waiting))
                           /\ call'[Head(waiting)].op = call[Head(waiting)].op,
         \A d \in Calls : waiting = <<>> \/ d # Head(waiting) =>
            /\ call'[d].at = "waiting" <=> call[d].at = "waiting"
            /\ ~Holds(d)' /\ RightOp(d)'
            /\ job[d].at # "none" => call'[d].at \in Late
  PROVE  LockStep
<1> USE DEF table
<1>1. CASE waiting = <<>>
  <2>1. Tick(queue, jb) /\ waiting' = <<>>
    BY <1>1 DEF LeaveLock
  <2>2. queue # <<>> => Members(queue) = {j \in Calls : jb[j].at = "queued"}
    BY DEF LockInv, QueueInv
  <2>3. Distinct(queue) /\ queue \in Seq(Calls)
    BY DEF LockInv, QueueInv, LockTypes
  <2>4. /\ holder' = <<>> \/ \E j \in Calls : holder' = <<"job", j>>
        /\ \A j \in Calls : job'[j].at \in Working <=> holder' = <<"job", j>>
        /\ Distinct(queue') /\ queue' \in Seq(Calls)
        /\ queue # <<>> => Members(queue') = {j \in Calls : job'[j].at = "queued"}
        /\ queue = <<>> => queue' = <<>> /\ job' = jb
        /\ \A j \in Calls : job'[j].at = "none" <=> jb[j].at = "none"
    BY <2>1, <2>2, <2>3, TickTakes
  <2>5. HolderInv'
    BY <1>1, <2>4 DEF HolderInv
  <2>6. LineInv'
    BY <1>1, <2>1 DEF LockInv, LineInv, Members, Distinct
  <2>7. QueueInv'
    BY <2>2, <2>4 DEF LockInv, QueueInv
  <2>8. StageInv'
    BY <1>1, <2>4 DEF StageInv
  <2> QED
    BY <1>1, <2>1, <2>4, <2>5, <2>6, <2>7, <2>8 DEF LockStep, OrderInv, LockMove, Left
<1>2. CASE waiting # <<>>
  <2>0. PICK h \in Calls : h = Head(waiting)
    BY <1>2, TailMembers DEF LockInv, LineInv, LockTypes
  <2>1. /\ holder' = <<"call", h>> /\ waiting' = Tail(waiting)
        /\ job' = jb /\ queue' = queue
    BY <1>2, <2>0 DEF LeaveLock
  <2>2. /\ h \in Members(waiting)
        /\ Distinct(Tail(waiting)) /\ Members(Tail(waiting)) = Members(waiting) \ {h}
    BY <1>2, <2>0, TailMembers DEF LockInv, LineInv, LockTypes
  <2>3. call[h].at = "waiting" /\ call[h].op \in {"promote", "uninstall"}
    BY <2>2 DEF LockInv, LineInv, StageInv, RightOp
  <2>4. /\ call'[h].at = IF call[h].op = "promote" THEN "capturing" ELSE "tearing"
        /\ call'[h].op = call[h].op
    BY <1>2, <2>0 DEF Granted
  <2>5. Holds(h)' /\ RightOp(h)' /\ call'[h].at # "waiting" /\ job[h].at = "none"
    BY <2>2, <2>3, <2>4 DEF Holds, RightOp, Tearing, Uninstalls, LockInv, StageInv, Late
  <2>6. \A d \in Calls \ {h} :
            /\ call'[d].at = "waiting" <=> call[d].at = "waiting"
            /\ ~Holds(d)' /\ RightOp(d)'
            /\ job[d].at # "none" => call'[d].at \in Late
    BY <2>0
  <2>7. HolderInv'
    BY <2>1, <2>2, <2>5, <2>6 DEF HolderInv
  <2>8. LineInv'
    BY <2>1, <2>2, <2>5, <2>6 DEF LockInv, LineInv
  <2>9. QueueInv'
    BY <2>1 DEF LockInv, QueueInv
  <2>10. StageInv'
    BY <2>1, <2>2, <2>5, <2>6 DEF StageInv
  <2> QED
    BY <1>2, <2>0, <2>1, <2>7, <2>8, <2>9, <2>10 DEF LockStep, OrderInv, LockMove, Left
<1> QED
  BY <1>1, <1>2

-----------------------------------------------------------------------------
(* What the helpers of the actions return. *)
Typed == RecordTypes /\ LockTypes

LEMMA Constants == NoRelease \in Rel /\ Absent \in Docs /\ Releases \subseteq Rel /\ Calls \subseteq Releases
  BY DEF Rel, Docs, Absent, Releases

LEMMA EndedCall ==
  ASSUME NEW cl \in [Calls -> CallRecord], NEW c \in Calls, NEW outcome \in CallStages
  PROVE  /\ Ended(cl, c, outcome) \in [Calls -> CallRecord]
         /\ Ended(cl, c, outcome)[c].at = outcome
         /\ Ended(cl, c, outcome)[c].op = cl[c].op
         /\ Ended(cl, c, outcome)[c].rel = cl[c].rel
         /\ \A d \in Calls \ {c} : Ended(cl, c, outcome)[d] = cl[d]
  BY Constants DEF Ended, CallRecord

LEMMA Handed ==
  ASSUME LockInv
  PROVE  /\ HandedCalls(call) \in [Calls -> CallRecord]
         /\ waiting # <<>> =>
              /\ Head(waiting) \in Calls /\ call[Head(waiting)].at = "waiting"
              /\ HandedCalls(call)[Head(waiting)].at = Granted(Head(waiting))
              /\ Granted(Head(waiting)) \in {"capturing", "tearing"}
         /\ \A d \in Calls : /\ HandedCalls(call)[d].op = call[d].op
                             /\ HandedCalls(call)[d].rel = call[d].rel
                             /\ waiting = <<>> \/ d # Head(waiting) => HandedCalls(call)[d] = call[d]
<1>1. CASE waiting = <<>>
  BY <1>1 DEF HandedCalls, LockInv, LockTypes
<1>2. CASE waiting # <<>>
  <2>1. PICK h \in Calls : h = Head(waiting) /\ h \in Members(waiting)
    BY <1>2, TailMembers DEF LockInv, LineInv, LockTypes
  <2>2. call[h].at = "waiting"
    BY <2>1 DEF LockInv, LineInv
  <2>3. Granted(h) \in CallStages
    BY DEF Granted, CallStages
  <2>4. HandedCalls(call) = [call EXCEPT ![h].at = Granted(h)]
    BY <1>2, <2>1 DEF HandedCalls
  <2>5. call \in [Calls -> CallRecord]
    BY DEF LockInv, LockTypes
  <2>6. Granted(h) \in {"capturing", "tearing"}
    BY DEF Granted
  <2> QED
    BY <1>2, <2>1, <2>2, <2>3, <2>4, <2>5, <2>6 DEF CallRecord
<1> QED
  BY <1>1, <1>2

LEMMA LeaveTypes ==
  ASSUME LockInv, NEW jb \in [Calls -> JobRecord], LeaveLock(jb),
         \A j \in Calls : /\ jb[j].at \notin Working
                          /\ jb[j].at = "queued" <=> job[j].at = "queued"
  PROVE  /\ holder' \in {<<>>} \cup ({"call", "job"} \X Calls)
         /\ waiting' \in Seq(Calls) /\ queue' \in Seq(Calls) /\ job' \in [Calls -> JobRecord]
<1>1. CASE waiting # <<>>
  <2>1. PICK h \in Calls : h = Head(waiting) /\ Tail(waiting) \in Seq(Calls)
    BY <1>1, TailMembers DEF LockInv, LockTypes, LineInv
  <2>2. holder' = <<"call", h>> /\ waiting' = Tail(waiting) /\ job' = jb /\ queue' = queue
    BY <1>1, <2>1 DEF LeaveLock
  <2> QED
    BY <2>1, <2>2 DEF LockInv, LockTypes
<1>2. CASE waiting = <<>>
  BY <1>2, TickTakes DEF LeaveLock, LockInv, LockTypes, QueueInv
<1> QED
  BY <1>1, <1>2

(* promoteRelease begins, or finds its release gone.                        *)
LEMMA SwitchBegins ==
  ASSUME RecordTypes, NEW cl \in [Calls -> CallRecord], NEW c \in Calls, BeginSwitch(c, cl)
  PROVE  /\ release' \in [Releases -> ReleaseStates]
         /\ call' \in [Calls -> CallRecord]
         /\ call'[c].at \in {"failed", "demoting", "activating"}
         /\ call'[c].op = cl[c].op /\ call'[c].rel = cl[c].rel
         /\ \A d \in Calls \ {c} : call'[d] = cl[d]
<1> DEFINE old == deployment.current
<1>0. /\ release \in [Releases -> ReleaseStates] /\ old \in Rel
      /\ {"failed", "demoting", "activating"} \subseteq CallStages
      /\ {"stopped", "active"} \subseteq ReleaseStates
  BY DEF RecordTypes, Docs, Rel, CallStages, Writing, ReleaseStates
<1>1. CASE call' = Ended(cl, c, "failed") /\ UNCHANGED release
  BY <1>1, EndedCall DEF RecordTypes, CallStages
<1>2. CASE /\ call' = [cl EXCEPT ![c].at = "demoting", ![c].old = old]
           /\ release' = [release EXCEPT ![old] = "stopped"]
  BY <1>0, <1>2 DEF CallRecord
<1>3. CASE /\ call' = [cl EXCEPT ![c].at = "activating", ![c].old = NoRelease]
           /\ release' = [release EXCEPT ![cl[c].rel] = "active"]
  BY <1>0, <1>3, Constants DEF CallRecord
<1> QED
  BY <1>1, <1>2, <1>3 DEF BeginSwitch

-----------------------------------------------------------------------------
(* The steps. *)
LEMMA InitLock == Init => LockInv
<1> SUFFICES ASSUME Init PROVE LockInv
  OBVIOUS
<1>1. NoCall \in CallRecord /\ NoJob \in JobRecord /\ Absent \in Docs
  BY DEF NoCall, NoJob, CallRecord, JobRecord, CallStages, JobStages, Docs, Absent, Rel
<1>2. RecordTypes
  BY LifecycleAssumption DEF Init, RecordTypes, Absent, Docs, Rel, Releases, ReleaseStates
<1>3. LockTypes
  BY <1>1, EmptySeq DEF Init, LockTypes
<1>4. HolderInv
  BY DEF Init, HolderInv, Holds, NoCall, NoJob, Working
<1>5. LineInv /\ QueueInv
  BY NoMembers, EmptySeq DEF Init, LineInv, QueueInv, NoCall, NoJob
<1>6. StageInv
  BY DEF Init, StageInv, RightOp, NoCall, NoJob, Tearing, Uninstalls
<1> QED
  BY <1>2, <1>3, <1>4, <1>5, <1>6 DEF LockInv

LEMMA OpenedIs ==
  ASSUME LockTypes, NEW c \in Calls, NEW op \in Operations, NEW w \in SUBSET Wishes,
         NEW stage \in CallStages, NEW rel \in Rel, NEW cl, cl = Opened(c, op, w, stage, rel)
  PROVE  /\ cl \in [Calls -> CallRecord]
         /\ cl[c].at = stage /\ cl[c].op = op /\ cl[c].rel = rel
         /\ \A d \in Calls \ {c} : cl[d] = call[d]
  BY Constants DEF Opened, CallRecord, LockTypes

(* A call opens: it leaves idle for a stage that is not under the lock.     *)
LEMMA CallOpens ==
  ASSUME LockInv, NEW c \in Calls, NEW op \in Operations, NEW w \in SUBSET Wishes,
         NEW stage \in {"staging", "launching", "discarding"}, NEW rel \in Rel,
         call[c].at = "idle", stage = "discarding" => op \in Uninstalls,
         call' = Opened(c, op, w, stage, rel), UNCHANGED <<job, lock, table, bounds>>
  PROVE  LockTypes' /\ LockStep
<1>1. /\ call' \in [Calls -> CallRecord]
      /\ call'[c].at = stage /\ call'[c].op = op
      /\ \A d \in Calls \ {c} : call'[d] = call[d]
  <2> stage \in CallStages
    BY DEF CallStages, Writing
  <2> QED
    BY OpenedIs DEF LockInv
<1>2. LockTypes'
  BY <1>1 DEF LockInv, LockTypes, lock, table, bounds
<1>3. RightOp(c)' /\ op # "none" /\ job[c].at = "none" /\ ~Holds(c)' /\ ~Holds(c)
  BY <1>1 DEF RightOp, LockInv, StageInv, Late, Tearing, Holds, Operations
<1> QED
  BY <1>1, <1>2, <1>3, CallMoves

(* A call that writes files goes on, outside the lock.                      *)
LEMMA CallWrites ==
  ASSUME LockInv, NEW c \in Calls, call' \in [Calls -> CallRecord],
         \A d \in Calls \ {c} : call'[d] = call[d],
         call'[c].op = call[c].op, call[c].at \in Writing,
         call'[c].at \in Writing \cup {"returned", "failed"},
         call[c].at = "closing" => call'[c].at \in {"returned", "failed"},
         crashes' \in Nat, faults' \in Nat, UNCHANGED <<job, lock, table>>
  PROVE  LockTypes' /\ LockStep
<1>1. LockTypes'
  BY DEF LockInv, LockTypes, lock, table
<1>2. RightOp(c)' /\ (job[c].at # "none" => call'[c].at \in Late)
  BY DEF RightOp, LockInv, StageInv, Late, Tearing, Writing
<1>3. ~Holds(c) /\ ~Holds(c)'
  BY DEF Holds, Writing, Tearing
<1>4. call[c].at # "waiting" /\ call'[c].at # "waiting"
  BY DEF Writing
<1> QED
  BY <1>1, <1>2, <1>3, <1>4, CallMoves

LEMMA StageIs ==
  ASSUME LockTypes, NEW c \in Calls, NEW stage \in CallStages, call' = [call EXCEPT ![c].at = stage]
  PROVE  /\ call' \in [Calls -> CallRecord]
         /\ call'[c].at = stage /\ call'[c].op = call[c].op
         /\ \A d \in Calls \ {c} : call'[d] = call[d]
  BY DEF LockTypes, CallRecord

LEMMA StageDocIs ==
  ASSUME LockTypes, NEW c \in Calls, NEW stage \in CallStages, NEW doc \in Docs,
         call' = [call EXCEPT ![c].at = stage, ![c].doc = doc]
  PROVE  /\ call' \in [Calls -> CallRecord]
         /\ call'[c].at = stage /\ call'[c].op = call[c].op
         /\ \A d \in Calls \ {c} : call'[d] = call[d]
  BY DEF LockTypes, CallRecord

LEMMA WritingStages == Writing \cup {"returned", "failed", "waiting", "capturing", "tearing"} \subseteq CallStages
  BY DEF CallStages

LEMMA EndsNow ==
  ASSUME LockTypes, NEW c \in Calls, NEW outcome \in {"returned", "failed"}, call' = Ended(call, c, outcome)
  PROVE  /\ call' \in [Calls -> CallRecord]
         /\ call'[c].at = outcome /\ call'[c].op = call[c].op
         /\ \A d \in Calls \ {c} : call'[d] = call[d]
  BY EndedCall, WritingStages DEF LockTypes

LEMMA CreateFromDraftStep ==
  ASSUME LockInv, NEW c \in Calls, CreateFromDraft(c)
  PROVE  Typed' /\ LockStep
<1>1. PICK w \in SUBSET Wishes :
        /\ call[c].at = "idle"
        /\ deployment' = [status |-> "installing", current |-> NoRelease, version |-> c]
        /\ listed' = TRUE
        /\ release' = [release EXCEPT ![c] = "creating"]
        /\ call' = Opened(c, "create", w, "staging", c)
        /\ UNCHANGED <<disk, host, job, lock, table, bounds>>
  BY DEF CreateFromDraft, Request
<1>2. deployment' \in Docs
  BY <1>1, Constants DEF Docs, Rel
<1>3. RecordTypes'
  BY <1>1, <1>2, Constants DEF LockInv, RecordTypes, disk, records, host, ReleaseStates
<1>4. LockTypes' /\ LockStep
  BY <1>1, CallOpens, Constants DEF Operations
<1> QED
  BY <1>3, <1>4 DEF Typed

LEMMA PromoteStep ==
  ASSUME LockInv, NEW c \in Calls, Promote(c)
  PROVE  Typed' /\ LockStep
<1>1. PICK w \in SUBSET Wishes :
        /\ call[c].at = "idle"
        /\ release' = [release EXCEPT ![c] = "creating"]
        /\ call' = Opened(c, "promote", w, "staging", c)
        /\ UNCHANGED <<listed, deployment, disk, host, job, lock, table, bounds>>
  BY DEF Promote, Request
<1>2. RecordTypes'
  BY <1>1, Constants DEF LockInv, RecordTypes, disk, records, host, ReleaseStates
<1>3. LockTypes' /\ LockStep
  BY <1>1, CallOpens, Constants DEF Operations
<1> QED
  BY <1>2, <1>3 DEF Typed

LEMMA ExecuteActionStep ==
  ASSUME LockInv, NEW c \in Calls, ExecuteAction(c)
  PROVE  Typed' /\ LockStep
<1>1. PICK op \in {"start", "restart", "stop", "delete"}, w \in SUBSET Wishes :
        /\ call[c].at = "idle"
        /\ call' = Opened(c, op, w, "launching", NoRelease)
        /\ UNCHANGED <<memory, disk, host, job, lock, table, bounds>>
  BY DEF ExecuteAction, Request
<1>2. RecordTypes'
  BY <1>1 DEF LockInv, RecordTypes, memory, disk, records, host
<1>3. LockTypes' /\ LockStep
  BY <1>1, CallOpens, Constants DEF Operations
<1> QED
  BY <1>2, <1>3 DEF Typed

LEMMA DeleteDeploymentStep ==
  ASSUME LockInv, NEW c \in Calls, DeleteDeployment(c)
  PROVE  Typed' /\ LockStep
<1>1. PICK op \in Uninstalls :
        /\ call[c].at = "idle"
        /\ call' = Opened(c, op, {}, "discarding", NoRelease)
        /\ UNCHANGED <<memory, disk, host, job, lock, table, bounds>>
  BY DEF DeleteDeployment, Request
<1>2. RecordTypes'
  BY <1>1 DEF LockInv, RecordTypes, memory, disk, records, host
<1>3. LockTypes' /\ LockStep
  BY <1>1, CallOpens, Constants DEF Operations, Uninstalls
<1> QED
  BY <1>2, <1>3 DEF Typed

LEMMA RollbackStep ==
  ASSUME LockInv, NEW c \in Calls, Rollback(c)
  PROVE  Typed' /\ LockStep
<1>1. PICK w \in SUBSET Wishes, r \in Releases :
        /\ call[c].at = "idle"
        /\ BeginSwitch(c, Opened(c, "rollback", w, "idle", r))
        /\ UNCHANGED <<listed, deployment, disk, host, job, lock, table, bounds>>
  BY DEF Rollback, Request
<1>2. PICK cl : cl = Opened(c, "rollback", w, "idle", r)
  OBVIOUS
<1>3. /\ cl \in [Calls -> CallRecord] /\ cl[c].op = "rollback"
      /\ \A d \in Calls \ {c} : cl[d] = call[d]
  <2> "idle" \in CallStages /\ "rollback" \in Operations /\ r \in Rel
    BY Constants DEF CallStages, Operations
  <2> QED
    BY <1>2, OpenedIs DEF LockInv
<1>4. /\ release' \in [Releases -> ReleaseStates]
      /\ call' \in [Calls -> CallRecord]
      /\ call'[c].at \in {"failed", "demoting", "activating"}
      /\ call'[c].op = "rollback"
      /\ \A d \in Calls \ {c} : call'[d] = call[d]
  BY <1>1, <1>2, <1>3, SwitchBegins DEF LockInv
<1>5. RecordTypes'
  BY <1>1, <1>4 DEF LockInv, RecordTypes, disk, records, host
<1>6. LockTypes'
  BY <1>1, <1>4 DEF LockInv, LockTypes, lock, table, bounds
<1>7. /\ RightOp(c)' /\ job[c].at = "none" /\ ~Holds(c)' /\ ~Holds(c)
      /\ call[c].at # "waiting" /\ call'[c].at # "waiting"
  BY <1>1, <1>4 DEF RightOp, LockInv, StageInv, Late, Tearing, Holds
<1> QED
  BY <1>1, <1>4, <1>5, <1>6, <1>7, CallMoves DEF Typed

LEMMA StageStep ==
  ASSUME LockInv, NEW c \in Calls, Stage(c)
  PROVE  Typed' /\ LockStep
<1>1. /\ call[c].at = "staging" /\ staged' = staged \cup {c}
      /\ call' = [call EXCEPT ![c].at = "saving"]
      /\ UNCHANGED <<memory, meta, pointer, stored, runtime, snapshot, host, job, lock, table, bounds>>
  BY DEF Stage
<1>2. RecordTypes'
  BY <1>1, Constants DEF LockInv, RecordTypes, memory, host
<1>3. LockTypes' /\ LockStep
  BY <1>1, StageIs, CallWrites, WritingStages DEF LockInv, LockTypes, Writing, bounds
<1> QED
  BY <1>2, <1>3 DEF Typed

LEMMA RegisterStep ==
  ASSUME LockInv, NEW c \in Calls, Register(c)
  PROVE  Typed' /\ LockStep
<1>1. /\ call[c].at = "registering" /\ meta' = call[c].doc
      /\ BeginSwitch(c, call)
      /\ UNCHANGED <<listed, deployment, pointer, stored, staged, runtime, snapshot, host, job, lock, table, bounds>>
  BY DEF Register
<1>2. /\ release' \in [Releases -> ReleaseStates] /\ call' \in [Calls -> CallRecord]
      /\ call'[c].at \in {"failed", "demoting", "activating"} /\ call'[c].op = call[c].op
      /\ \A d \in Calls \ {c} : call'[d] = call[d]
      /\ call[c].doc \in Docs
  BY <1>1, SwitchBegins DEF LockInv, LockTypes, CallRecord
<1>3. RecordTypes'
  BY <1>1, <1>2 DEF LockInv, RecordTypes, host
<1>4. LockTypes' /\ LockStep
  BY <1>1, <1>2, CallWrites DEF LockInv, LockTypes, Writing, bounds
<1> QED
  BY <1>3, <1>4 DEF Typed

LEMMA DemoteReleaseStep ==
  ASSUME LockInv, NEW c \in Calls, DemoteRelease(c)
  PROVE  Typed' /\ LockStep
<1>1. /\ call[c].at = "demoting"
      /\ stored' = [stored EXCEPT ![call[c].old] = "stopped"]
      /\ release' = [release EXCEPT ![call[c].rel] = "active"]
      /\ call' = [call EXCEPT ![c].at = "activating"]
      /\ UNCHANGED <<listed, deployment, meta, pointer, staged, runtime, snapshot, host, job, lock, table, bounds>>
  BY DEF DemoteRelease
<1>2. RecordTypes'
  BY <1>1 DEF LockInv, RecordTypes, ReleaseStates, host
<1>3. LockTypes' /\ LockStep
  BY <1>1, StageIs, CallWrites, WritingStages DEF LockInv, LockTypes, Writing, bounds
<1> QED
  BY <1>2, <1>3 DEF Typed

LEMMA ActivateReleaseStep ==
  ASSUME LockInv, NEW c \in Calls, ActivateRelease(c)
  PROVE  Typed' /\ LockStep
<1>1. /\ call[c].at = "activating"
      /\ stored' = [stored EXCEPT ![call[c].rel] = "active"]
      /\ deployment' = [deployment EXCEPT !.current = call[c].rel]
      /\ listed' = TRUE
      /\ call' = [call EXCEPT ![c].at = "recording", ![c].doc = deployment']
      /\ UNCHANGED <<release, meta, pointer, staged, runtime, snapshot, host, job, lock, table, bounds>>
  BY DEF ActivateRelease
<1>2. deployment' \in Docs
  <2> call[c].rel \in Rel /\ deployment \in Docs
    BY DEF LockInv, LockTypes, CallRecord, RecordTypes
  <2> QED
    BY <1>1 DEF Docs, Rel
<1>3. RecordTypes'
  BY <1>1, <1>2 DEF LockInv, RecordTypes, ReleaseStates, host
<1>4. LockTypes' /\ LockStep
  <2> "recording" \in CallStages
    BY DEF CallStages, Writing
  <2>1. /\ call' \in [Calls -> CallRecord] /\ call'[c].at = "recording" /\ call'[c].op = call[c].op
        /\ \A d \in Calls \ {c} : call'[d] = call[d]
    BY <1>1, <1>2, StageDocIs DEF LockInv
  <2> QED
    BY <1>1, <2>1, CallWrites DEF LockInv, LockTypes, Writing, bounds
<1> QED
  BY <1>3, <1>4 DEF Typed

LEMMA RecordReleaseStep ==
  ASSUME LockInv, NEW c \in Calls, RecordRelease(c)
  PROVE  Typed' /\ LockStep
<1>1. /\ call[c].at = "recording" /\ meta' = call[c].doc
      /\ call' = [call EXCEPT ![c].at = "pointing"]
      /\ UNCHANGED <<memory, pointer, stored, staged, runtime, snapshot, host, job, lock, table, bounds>>
  BY DEF RecordRelease
<1>2. RecordTypes'
  BY <1>1 DEF LockInv, LockTypes, CallRecord, RecordTypes, memory, host
<1>3. LockTypes' /\ LockStep
  BY <1>1, StageIs, CallWrites, WritingStages DEF LockInv, LockTypes, Writing, bounds
<1> QED
  BY <1>2, <1>3 DEF Typed

LEMMA SwitchPointerStep ==
  ASSUME LockInv, NEW c \in Calls, SwitchPointer(c)
  PROVE  Typed' /\ LockStep
<1>1. /\ call[c].at = "pointing" /\ pointer' = call[c].rel
      /\ UNCHANGED <<listed, release, meta, stored, staged, runtime, snapshot, host, job, lock, table, bounds>>
  BY DEF SwitchPointer
<1>2. call[c].rel \in Rel /\ deployment \in Docs
  BY DEF LockInv, LockTypes, CallRecord, RecordTypes
<1>3. /\ deployment' \in Docs /\ call' \in [Calls -> CallRecord]
      /\ call'[c].at \in {"syncing", "failed", "launching", "returned"} /\ call'[c].op = call[c].op
      /\ \A d \in Calls \ {c} : call'[d] = call[d]
  <2>0. {"syncing", "launching"} \subseteq CallStages
    BY DEF CallStages, Writing
  <2>1. CASE /\ deployment' = [deployment EXCEPT !.version = c]
             /\ call' = [call EXCEPT ![c].at = "syncing", ![c].doc = deployment']
    <3>1. deployment' \in Docs
      BY <1>2, <2>1, Constants DEF Docs, Rel
    <3> QED
      BY <2>0, <2>1, <3>1, StageDocIs DEF LockInv
  <2>2. CASE UNCHANGED deployment /\ call' = Ended(call, c, "failed")
    BY <1>2, <2>2, EndsNow DEF LockInv
  <2>3. CASE UNCHANGED deployment /\ call' = [call EXCEPT ![c].at = "launching"]
    BY <1>2, <2>0, <2>3, StageIs DEF LockInv
  <2>4. CASE UNCHANGED deployment /\ call' = Ended(call, c, "returned")
    BY <1>2, <2>4, EndsNow DEF LockInv
  <2> QED
    BY <2>1, <2>2, <2>3, <2>4 DEF SwitchPointer
<1>4. RecordTypes'
  BY <1>1, <1>2, <1>3 DEF LockInv, RecordTypes, host
<1>5. LockTypes' /\ LockStep
  BY <1>1, <1>3, CallWrites DEF LockInv, LockTypes, Writing, bounds
<1> QED
  BY <1>4, <1>5 DEF Typed

LEMMA SyncVersionStep ==
  ASSUME LockInv, NEW c \in Calls, SyncVersion(c)
  PROVE  Typed' /\ LockStep
<1>1. /\ call[c].at = "syncing" /\ meta' = call[c].doc
      /\ call' = [call EXCEPT ![c].at = "launching"] \/ call' = Ended(call, c, "returned")
      /\ UNCHANGED <<memory, pointer, stored, staged, runtime, snapshot, host, job, lock, table, bounds>>
  BY DEF SyncVersion
<1>2. RecordTypes'
  BY <1>1 DEF LockInv, LockTypes, CallRecord, RecordTypes, memory, host
<1>3. /\ call' \in [Calls -> CallRecord]
      /\ call'[c].at \in {"launching", "returned"} /\ call'[c].op = call[c].op
      /\ \A d \in Calls \ {c} : call'[d] = call[d]
  BY <1>1, StageIs, EndsNow, WritingStages DEF LockInv, Writing
<1>4. LockTypes' /\ LockStep
  BY <1>1, <1>3, CallWrites DEF LockInv, LockTypes, Writing, bounds
<1> QED
  BY <1>2, <1>4 DEF Typed

LEMMA CloseStep ==
  ASSUME LockInv, NEW c \in Calls, Close(c)
  PROVE  Typed' /\ LockStep
<1>1. /\ call[c].at = "closing" /\ meta' = call[c].doc
      /\ call' = Ended(call, c, "returned")
      /\ UNCHANGED <<memory, pointer, stored, staged, runtime, snapshot, host, job, lock, table, bounds>>
  BY DEF Close
<1>2. RecordTypes'
  BY <1>1 DEF LockInv, LockTypes, CallRecord, RecordTypes, memory, host
<1>3. LockTypes' /\ LockStep
  BY <1>1, EndsNow, CallWrites DEF LockInv, LockTypes, Writing, bounds
<1> QED
  BY <1>2, <1>3 DEF Typed

LEMMA CallWriteFailsStep ==
  ASSUME LockInv, NEW c \in Calls, CallWriteFails(c)
  PROVE  Typed' /\ LockStep
<1>1. /\ call[c].at \in Writing /\ faults' = faults + 1
      /\ call' = Ended(call, c, "failed")
      /\ UNCHANGED <<memory, disk, host, job, lock, table, crashes>>
  BY DEF CallWriteFails
<1>2. RecordTypes'
  BY <1>1 DEF LockInv, RecordTypes, memory, disk, records, host
<1>3. LockTypes' /\ LockStep
  BY <1>1, EndsNow, CallWrites DEF LockInv, LockTypes
<1> QED
  BY <1>2, <1>3 DEF Typed

(* runExclusive: the caller has the lock or joins the line.                 *)
LEMMA RunExclusiveStep ==
  ASSUME LockInv, NEW c \in Calls, NEW cl \in [Calls -> CallRecord], RunExclusive(c, cl),
         \A d \in Calls \ {c} : cl[d] = call[d], cl[c].op = call[c].op,
         call[c].at = "saving", call[c].op = "promote", UNCHANGED <<job, table, bounds>>
  PROVE  LockTypes' /\ LockStep
<1>1. /\ queue' = queue /\ Granted(c) = "capturing"
      /\ job[c].at = "none" /\ ~Holds(c) /\ c \notin Members(waiting)
  BY DEF RunExclusive, Granted, LockInv, StageInv, LineInv, Late, Holds, Tearing
<1>2. CASE holder = <<>>
  <2>1. /\ holder' = <<"call", c>> /\ waiting' = waiting
        /\ call' = [cl EXCEPT ![c].at = "capturing"]
    BY <1>1, <1>2 DEF RunExclusive
  <2>2. /\ call' \in [Calls -> CallRecord]
        /\ call'[c].at = "capturing" /\ call'[c].op = "promote"
        /\ \A d \in Calls \ {c} : call'[d] = call[d]
    BY <2>1, WritingStages DEF CallRecord
  <2>3. LockTypes'
    BY <1>1, <2>1, <2>2 DEF LockInv, LockTypes, table, bounds
  <2>4. HolderInv'
    BY <1>2, <2>1, <2>2 DEF LockInv, HolderInv, Holds
  <2>5. LineInv'
    BY <1>1, <2>1, <2>2 DEF LockInv, LineInv
  <2>6. QueueInv'
    BY <1>1 DEF LockInv, QueueInv, table
  <2>7. StageInv'
    BY <1>1, <2>2 DEF LockInv, StageInv, RightOp, Late, Tearing
  <2> QED
    BY <1>2, <2>1, <2>3, <2>4, <2>5, <2>6, <2>7 DEF LockStep, OrderInv, LockMove, Taken
<1>3. CASE holder # <<>>
  <2>1. /\ holder' = holder /\ waiting' = Append(waiting, c)
        /\ call' = [cl EXCEPT ![c].at = "waiting"]
    BY <1>3 DEF RunExclusive
  <2>2. /\ call' \in [Calls -> CallRecord]
        /\ call'[c].at = "waiting" /\ call'[c].op = "promote"
        /\ \A d \in Calls \ {c} : call'[d] = call[d]
    BY <2>1, WritingStages DEF CallRecord
  <2>3. /\ waiting' \in Seq(Calls) /\ Distinct(waiting')
        /\ Members(waiting') = Members(waiting) \cup {c}
    BY <1>1, <2>1, AppendMembers DEF LockInv, LockTypes, LineInv
  <2>4. LockTypes'
    BY <1>1, <2>1, <2>2, <2>3 DEF LockInv, LockTypes, table, bounds
  <2>5. HolderInv'
    BY <1>1, <2>1, <2>2 DEF LockInv, HolderInv, Holds
  <2>6. LineInv'
    BY <1>3, <2>1, <2>2, <2>3 DEF LockInv, LineInv
  <2>7. QueueInv'
    BY <1>1 DEF LockInv, QueueInv, table
  <2>8. StageInv'
    BY <1>1, <2>2 DEF LockInv, StageInv, RightOp, Late, Tearing
  <2> QED
    BY <1>3, <2>1, <2>4, <2>5, <2>6, <2>7, <2>8 DEF LockStep, OrderInv, LockMove, Joined
<1> QED
  BY <1>2, <1>3

LEMMA SaveStep ==
  ASSUME LockInv, NEW c \in Calls, Save(c)
  PROVE  Typed' /\ LockStep
<1>1. /\ call[c].at = "saving" /\ stored' = [stored EXCEPT ![c] = "creating"]
      /\ UNCHANGED <<listed, deployment, meta, pointer, staged, runtime, snapshot, host, job, table, bounds>>
  BY DEF Save
<1>2. deployment \in Docs /\ deployment.current \in Rel /\ stored' \in [Releases -> ReleaseStates]
      /\ "registering" \in CallStages
  BY <1>1 DEF LockInv, RecordTypes, Docs, Rel, ReleaseStates, CallStages, Writing
<1>3. CASE /\ call' = [call EXCEPT ![c].at = "registering", ![c].doc = deployment]
           /\ UNCHANGED <<release, lock>>
  <2>1. RecordTypes'
    BY <1>1, <1>2, <1>3 DEF LockInv, RecordTypes, host
  <2>2. LockTypes' /\ LockStep
    BY <1>1, <1>2, <1>3, StageDocIs, CallWrites DEF LockInv, LockTypes, Writing, bounds
  <2> QED
    BY <2>1, <2>2 DEF Typed
<1>4. CASE /\ call[c].op = "promote"
           /\ RunExclusive(c, [call EXCEPT ![c].old = deployment.current])
           /\ UNCHANGED release
  <2>1. RecordTypes'
    BY <1>1, <1>2, <1>4 DEF LockInv, RecordTypes, host
  <2>2. PICK cl : cl = [call EXCEPT ![c].old = deployment.current]
    OBVIOUS
  <2>3. /\ cl \in [Calls -> CallRecord] /\ cl[c].op = call[c].op
        /\ \A d \in Calls \ {c} : cl[d] = call[d]
    BY <1>2, <2>2 DEF LockInv, LockTypes, CallRecord
  <2>4. LockTypes' /\ LockStep
    BY <1>1, <1>4, <2>2, <2>3, RunExclusiveStep
  <2> QED
    BY <2>1, <2>4 DEF Typed
<1>5. CASE BeginSwitch(c, call) /\ UNCHANGED lock
  <2>1. /\ release' \in [Releases -> ReleaseStates] /\ call' \in [Calls -> CallRecord]
        /\ call'[c].at \in {"failed", "demoting", "activating"} /\ call'[c].op = call[c].op
        /\ \A d \in Calls \ {c} : call'[d] = call[d]
    BY <1>5, SwitchBegins DEF LockInv, LockTypes
  <2>2. RecordTypes'
    BY <1>1, <1>2, <2>1 DEF LockInv, RecordTypes, host
  <2>3. LockTypes' /\ LockStep
    BY <1>1, <1>5, <2>1, CallWrites DEF LockInv, LockTypes, Writing, bounds
  <2> QED
    BY <2>2, <2>3 DEF Typed
<1> QED
  BY <1>3, <1>4, <1>5 DEF Save

(* The holder of the lock is a call that ends or goes on outside it.        *)
LEMMA CallLeaves ==
  ASSUME LockInv, NEW c \in Calls, holder = <<"call", c>>, LeaveLock(job),
         call' \in [Calls -> CallRecord], call'[c].op = call[c].op,
         call'[c].at \in {"failed", "returned", "demoting", "activating"},
         \A d \in Calls \ {c} : call'[d] = HandedCalls(call)[d],
         crashes' \in Nat, faults' \in Nat, UNCHANGED table
  PROVE  LockTypes' /\ LockStep
<1>1. /\ \A j \in Calls : job[j].at \notin Working
      /\ \A d \in Calls : Holds(d) <=> d = c
  BY DEF LockInv, HolderInv
<1>2. LockTypes'
  BY <1>1, LeaveTypes DEF LockInv, LockTypes, table
<1>3. Holds(c) /\ call[c].op # "none" /\ call[c].at # "waiting" /\ job[c].at = "none"
  BY <1>1 DEF Holds, Tearing, LockInv, StageInv, RightOp, Late
<1>4. waiting # <<>> =>
        /\ Head(waiting) \in Calls /\ Head(waiting) # c
        /\ call'[Head(waiting)].at = Granted(Head(waiting))
        /\ call'[Head(waiting)].op = call[Head(waiting)].op
  BY <1>3, Handed
<1>5. \A d \in Calls : waiting = <<>> \/ d # Head(waiting) =>
            /\ call'[d].at = "waiting" <=> call[d].at = "waiting"
            /\ ~Holds(d)' /\ RightOp(d)'
            /\ job[d].at # "none" => call'[d].at \in Late
  <2> SUFFICES ASSUME NEW d \in Calls, waiting = <<>> \/ d # Head(waiting)
               PROVE  /\ call'[d].at = "waiting" <=> call[d].at = "waiting"
                      /\ ~Holds(d)' /\ RightOp(d)'
                      /\ job[d].at # "none" => call'[d].at \in Late
    OBVIOUS
  <2>1. CASE d = c
    BY <1>3, <2>1 DEF Holds, Tearing, RightOp
  <2>2. CASE d # c
    <3>1. call'[d] = call[d]
      BY <2>2, Handed
    <3> QED
      BY <1>1, <2>2, <3>1 DEF Holds, RightOp, LockInv, StageInv
  <2> QED
    BY <2>1, <2>2
<1>6. job \in [Calls -> JobRecord]
  BY DEF LockInv, LockTypes
<1> QED
  BY <1>1, <1>2, <1>4, <1>5, <1>6, HolderLeaves

LEMMA CaptureSnapshotStep ==
  ASSUME LockInv, NEW c \in Calls, CaptureSnapshot(c)
  PROVE  Typed' /\ LockStep
<1>1. /\ call[c].at = "capturing" /\ LeaveLock(job)
      /\ UNCHANGED <<listed, deployment, records, runtime, host, table, bounds>>
  BY DEF CaptureSnapshot
<1>2. /\ holder = <<"call", c>> /\ call[c].op = "promote"
      /\ waiting # <<>> => Head(waiting) # c
  BY <1>1, Handed DEF LockInv, HolderInv, Holds, StageInv, RightOp
<1>3. PICK cl : cl = HandedCalls(call)
  OBVIOUS
<1>4. cl \in [Calls -> CallRecord] /\ cl[c].op = call[c].op
  BY <1>3, Handed
<1>5. /\ call' \in [Calls -> CallRecord] /\ call'[c].op = call[c].op
      /\ call'[c].at \in {"failed", "returned", "demoting", "activating"}
      /\ \A d \in Calls \ {c} : call'[d] = cl[d]
      /\ release' \in [Releases -> ReleaseStates]
      /\ snapshot' \in [Releases -> Rel \cup {"missing"}]
  <2>1. CASE snapshot' = [snapshot EXCEPT ![call[c].old] = data] /\ BeginSwitch(c, cl)
    BY <1>4, <2>1, SwitchBegins DEF LockInv, RecordTypes
  <2>2. CASE call' = Ended(cl, c, "failed") /\ UNCHANGED <<snapshot, release>>
    <3>1. "failed" \in CallStages
      BY WritingStages
    <3> QED
      BY <1>4, <2>2, <3>1, EndedCall DEF LockInv, RecordTypes
  <2> QED
    BY <1>3, <2>1, <2>2 DEF CaptureSnapshot
<1>6. RecordTypes'
  BY <1>1, <1>5 DEF LockInv, RecordTypes, records, host
<1>7. LockTypes' /\ LockStep
  BY <1>1, <1>2, <1>3, <1>5, CallLeaves DEF LockInv, LockTypes, bounds
<1> QED
  BY <1>6, <1>7 DEF Typed

(* The end of an uninstall, whether it holds the lock or was forced.        *)
LEMMA LeaveDeleteStep ==
  ASSUME LockInv, NEW c \in Calls, NEW outcome \in {"returned", "failed"}, LeaveDelete(c, outcome),
         call[c].at \in Tearing, crashes' \in Nat, faults' \in Nat, UNCHANGED table
  PROVE  LockTypes' /\ LockStep
<1>1. CASE holder = <<"call", c>>
  <2>1. PICK cl : cl = HandedCalls(call)
    OBVIOUS
  <2>2. call' = Ended(cl, c, outcome) /\ LeaveLock(job)
    BY <1>1, <2>1 DEF LeaveDelete
  <2>3. cl \in [Calls -> CallRecord] /\ cl[c].op = call[c].op /\ outcome \in CallStages
    BY <2>1, Handed, WritingStages
  <2>4. /\ call' \in [Calls -> CallRecord] /\ call'[c].op = call[c].op
        /\ call'[c].at \in {"failed", "returned"}
        /\ \A d \in Calls \ {c} : call'[d] = HandedCalls(call)[d]
    BY <2>1, <2>2, <2>3, EndedCall
  <2> QED
    BY <1>1, <2>2, <2>4, CallLeaves
<1>2. CASE holder # <<"call", c>>
  <2>1. call' = Ended(call, c, outcome) /\ UNCHANGED <<job, lock>>
    BY <1>2 DEF LeaveDelete
  <2>2. /\ call' \in [Calls -> CallRecord] /\ call'[c].op = call[c].op
        /\ call'[c].at \in {"failed", "returned"}
        /\ \A d \in Calls \ {c} : call'[d] = call[d]
    BY <2>1, EndsNow DEF LockInv
  <2>3. LockTypes'
    BY <2>1, <2>2 DEF LockInv, LockTypes, lock, table
  <2>4. ~Holds(c) /\ ~Holds(c)' /\ call[c].at # "waiting" /\ call'[c].at # "waiting"
    BY <1>2, <2>2 DEF LockInv, HolderInv, Holds, Tearing
  <2>5. RightOp(c)' /\ call'[c].at \in Late
    BY <2>2 DEF LockInv, StageInv, RightOp, Tearing, Late
  <2> QED
    BY <2>1, <2>2, <2>3, <2>4, <2>5, CallMoves
<1> QED
  BY <1>1, <1>2

(* An uninstall goes on.                                                    *)
LEMMA TearingGoesOn ==
  ASSUME LockInv, NEW c \in Calls, NEW stage \in Tearing, call[c].at \in Tearing,
         call' = [call EXCEPT ![c].at = stage], crashes' \in Nat, faults' \in Nat,
         UNCHANGED <<job, lock, table>>
  PROVE  LockTypes' /\ LockStep
<1>1. /\ call' \in [Calls -> CallRecord] /\ call'[c].at = stage /\ call'[c].op = call[c].op
      /\ \A d \in Calls \ {c} : call'[d] = call[d]
  BY StageIs DEF LockInv, CallStages, Tearing
<1>2. LockTypes'
  BY <1>1 DEF LockInv, LockTypes, lock, table
<1>3. /\ call[c].at # "waiting" /\ call'[c].at # "waiting" /\ RightOp(c)'
      /\ Holds(c)' <=> Holds(c)
      /\ job[c].at = "none"
  BY <1>1 DEF Holds, RightOp, Tearing, Late, LockInv, StageInv
<1> QED
  BY <1>1, <1>2, <1>3, CallMoves

LEMMA TeardownStep ==
  ASSUME LockInv, NEW c \in Calls, Teardown(c)
  PROVE  Typed' /\ LockStep
<1>1. /\ call[c].at = "tearing" /\ UNCHANGED <<memory, disk, data, table, bounds>>
      /\ containers' \in {NoRelease, containers}
  BY DEF Teardown
<1>2. RecordTypes'
  BY <1>1, Constants DEF LockInv, RecordTypes, memory, disk, records
<1>3. crashes' \in Nat /\ faults' \in Nat /\ UNCHANGED table
  BY <1>1 DEF LockInv, LockTypes, bounds
<1>4. LockTypes' /\ LockStep
  <2>1. CASE call' = [call EXCEPT ![c].at = "deprovisioning"] /\ UNCHANGED <<job, lock>>
    BY <1>1, <1>3, <2>1, TearingGoesOn DEF Tearing
  <2>2. CASE LeaveDelete(c, "failed") \/ LeaveDelete(c, "returned")
    BY <1>1, <1>3, <2>2, LeaveDeleteStep DEF Tearing
  <2> QED
    BY <2>1, <2>2 DEF Teardown
<1> QED
  BY <1>2, <1>4 DEF Typed

LEMMA UnlistStep ==
  ASSUME LockInv, NEW c \in Calls, Unlist(c)
  PROVE  Typed' /\ LockStep
<1>1. /\ call[c].at = "deprovisioning" /\ listed' = FALSE
      /\ release' = [r \in Releases |-> "none"]
      /\ call' = [call EXCEPT ![c].at = "wiping"]
      /\ UNCHANGED <<deployment, disk, host, job, lock, table, bounds>>
  BY DEF Unlist
<1>2. RecordTypes'
  BY <1>1 DEF LockInv, RecordTypes, ReleaseStates, disk, records, host
<1>3. LockTypes' /\ LockStep
  BY <1>1, TearingGoesOn DEF LockInv, LockTypes, bounds, Tearing
<1> QED
  BY <1>2, <1>3 DEF Typed

LEMMA RemoveStorageStep ==
  ASSUME LockInv, NEW c \in Calls, RemoveStorage(c)
  PROVE  Typed' /\ LockStep
<1>1. /\ call[c].at = "wiping" /\ call' = [call EXCEPT ![c].at = "reclaiming"]
      /\ faults' \in {faults, faults + 1}
      /\ UNCHANGED <<memory, host, job, lock, table, crashes>>
  BY DEF RemoveStorage
<1>2. RecordTypes'
  <2>1. CASE /\ meta' = Absent /\ pointer' = NoRelease
             /\ stored' = [r \in Releases |-> "none"]
             /\ staged' = {} /\ runtime' = FALSE
             /\ snapshot' = [r \in Releases |-> "missing"]
    BY <1>1, <2>1, Constants DEF LockInv, RecordTypes, ReleaseStates, memory, host
  <2>2. CASE UNCHANGED disk
    BY <1>1, <2>2 DEF LockInv, RecordTypes, memory, host, disk, records
  <2> QED
    BY <2>1, <2>2 DEF RemoveStorage
<1>3. crashes' \in Nat /\ faults' \in Nat
  BY <1>1 DEF LockInv, LockTypes
<1>4. LockTypes' /\ LockStep
  BY <1>1, <1>3, TearingGoesOn DEF Tearing
<1> QED
  BY <1>2, <1>4 DEF Typed

LEMMA RemoveAppDataStep ==
  ASSUME LockInv, NEW c \in Calls, RemoveAppData(c)
  PROVE  Typed' /\ LockStep
<1>1. /\ call[c].at = "reclaiming" /\ LeaveDelete(c, "returned")
      /\ faults' \in {faults, faults + 1} /\ data' \in {NoRelease, data}
      /\ UNCHANGED <<memory, disk, containers, table, crashes>>
  BY DEF RemoveAppData
<1>2. RecordTypes'
  BY <1>1, Constants DEF LockInv, RecordTypes, memory, disk, records
<1>3. LockTypes' /\ LockStep
  BY <1>1, LeaveDeleteStep DEF LockInv, LockTypes, Tearing
<1> QED
  BY <1>2, <1>3 DEF Typed

LEMMA DiscardJobsStep ==
  ASSUME LockInv, NEW c \in Calls, DiscardJobs(c)
  PROVE  Typed' /\ LockStep
<1>1. /\ call[c].at = "discarding" /\ queue' = <<>>
      /\ job' = [j \in Calls |->
           IF \E i \in DOMAIN queue : queue[i] = j THEN [job[j] EXCEPT !.at = "cancelled"]
           ELSE IF job[j].at \notin Finished \cup {"queued"} THEN [job[j] EXCEPT !.flagged = TRUE]
           ELSE job[j]]
      /\ UNCHANGED <<memory, disk, host, table, bounds>>
  BY DEF DiscardJobs
<1>2. RecordTypes'
  BY <1>1 DEF LockInv, RecordTypes, memory, disk, records, host
<1>3. \A j \in Calls : (\E i \in DOMAIN queue : queue[i] = j) <=> j \in Members(queue)
  BY LenProperties DEF Members, LockInv, LockTypes
<1>4. /\ job' \in [Calls -> JobRecord]
      /\ \A j \in Calls : /\ j \in Members(queue) => job'[j].at = "cancelled"
                          /\ j \notin Members(queue) => job'[j].at = job[j].at
  <2>1. job \in [Calls -> JobRecord] /\ "cancelled" \in JobStages
    BY DEF LockInv, LockTypes, JobStages
  <2>2. \A r \in JobRecord : /\ [r EXCEPT !.at = "cancelled"] \in JobRecord
                             /\ [r EXCEPT !.at = "cancelled"].at = "cancelled"
                             /\ [r EXCEPT !.flagged = TRUE] \in JobRecord
                             /\ [r EXCEPT !.flagged = TRUE].at = r.at
    BY <2>1 DEF JobRecord
  <2> QED
    BY <1>1, <1>3, <2>1, <2>2
<1>5. \A j \in Calls : /\ job'[j].at \in Working <=> job[j].at \in Working
                       /\ job'[j].at = "none" <=> job[j].at = "none"
                       /\ ~cold => job'[j].at # "queued"
  <2>1. \A j \in Members(queue) : job[j].at = "queued"
    BY NoMembers, EmptySeq DEF LockInv, QueueInv
  <2> QED
    BY <1>4, <2>1 DEF LockInv, QueueInv, Working
<1>6. QueueInv'
  BY <1>1, <1>5, NoMembers, EmptySeq DEF LockInv, QueueInv, table
<1>7. /\ call[c].op \in Uninstalls /\ job[c].at = "none" /\ c \notin Members(waiting)
      /\ ~Holds(c)
  BY <1>1 DEF LockInv, StageInv, RightOp, Tearing, Late, LineInv, Holds
<1>8. CASE call[c].op = "uninstall" /\ holder # <<>>
  <2>1. /\ waiting' = Append(waiting, c) /\ holder' = holder
        /\ call' = [call EXCEPT ![c].at = "waiting"]
    BY <1>8 DEF DiscardJobs
  <2>2. /\ call' \in [Calls -> CallRecord] /\ call'[c].at = "waiting" /\ call'[c].op = "uninstall"
        /\ \A d \in Calls \ {c} : call'[d] = call[d]
    BY <1>8, <2>1, StageIs, WritingStages DEF LockInv
  <2>3. /\ waiting' \in Seq(Calls) /\ Distinct(waiting')
        /\ Members(waiting') = Members(waiting) \cup {c}
    BY <1>7, <2>1, AppendMembers DEF LockInv, LockTypes, LineInv
  <2>4. LockTypes'
    BY <1>1, <1>4, <2>1, <2>2, <2>3, EmptySeq DEF LockInv, LockTypes, table, bounds
  <2>5. HolderInv'
    BY <1>5, <1>7, <2>1, <2>2 DEF LockInv, HolderInv, Holds, Tearing
  <2>6. LineInv'
    BY <1>8, <2>1, <2>2, <2>3 DEF LockInv, LineInv
  <2>7. StageInv'
    BY <1>5, <1>7, <2>2 DEF LockInv, StageInv, RightOp, Late, Tearing, Uninstalls
  <2> QED
    BY <1>2, <1>6, <1>8, <2>1, <2>4, <2>5, <2>6, <2>7 DEF Typed, LockStep, OrderInv, LockMove, Joined
<1>9. CASE ~(call[c].op = "uninstall" /\ holder # <<>>)
  <2>1. /\ waiting' = waiting
        /\ holder' = IF call[c].op = "uninstall" THEN <<"call", c>> ELSE holder
        /\ call' = [call EXCEPT ![c].at = "tearing"]
    BY <1>9 DEF DiscardJobs
  <2>2. /\ call' \in [Calls -> CallRecord] /\ call'[c].at = "tearing" /\ call'[c].op = call[c].op
        /\ \A d \in Calls \ {c} : call'[d] = call[d]
    BY <2>1, StageIs, WritingStages DEF LockInv
  <2>3. LockTypes'
    BY <1>1, <1>4, <2>1, <2>2, EmptySeq DEF LockInv, LockTypes, table, bounds
  <2>4. HolderInv'
    BY <1>5, <1>7, <1>9, <2>1, <2>2 DEF LockInv, HolderInv, Holds, Tearing, Uninstalls
  <2>5. LineInv'
    BY <1>7, <1>9, <2>1, <2>2 DEF LockInv, LineInv
  <2>6. StageInv'
    BY <1>5, <1>7, <2>2 DEF LockInv, StageInv, RightOp, Late, Tearing, Uninstalls
  <2>7. LockMove
    BY <1>9, <2>1 DEF LockMove, Taken
  <2> QED
    BY <1>2, <1>6, <2>3, <2>4, <2>5, <2>6, <2>7 DEF Typed, LockStep, OrderInv
<1> QED
  BY <1>8, <1>9

(* A dispatch of the queue q: who works afterwards holds the lock.          *)
LEMMA Dispatches ==
  ASSUME LockInv, NEW q \in Seq(Calls), NEW jb \in [Calls -> JobRecord], Dispatch(q, jb),
         Distinct(q), Members(q) = {j \in Calls : jb[j].at = "queued"},
         \A j \in Calls : jb[j].at \in Working <=> job[j].at \in Working
  PROVE  /\ job' \in [Calls -> JobRecord] /\ queue' \in Seq(Calls)
         /\ holder' \in {<<>>} \cup ({"call", "job"} \X Calls)
         /\ waiting' = waiting /\ (holder' = <<>> => waiting' = <<>>)
         /\ \A j \in Calls : job'[j].at \in Working <=> holder' = <<"job", j>>
         /\ \A c \in Calls : holder' = <<"call", c>> <=> holder = <<"call", c>>
         /\ Distinct(queue') /\ Members(queue') = {j \in Calls : job'[j].at = "queued"}
         /\ \A j \in Calls : job'[j].at = "none" <=> jb[j].at = "none"
         /\ LockMove
<1>1. CASE holder # <<>>
  <2>1. /\ waiting' = waiting /\ queue' = q /\ job' = jb /\ holder' = holder
    BY <1>1 DEF Dispatch
  <2>2. \A j \in Calls : job'[j].at \in Working <=> holder' = <<"job", j>>
    BY <2>1 DEF LockInv, HolderInv
  <2>3. holder \in {<<>>} \cup ({"call", "job"} \X Calls)
    BY DEF LockInv, LockTypes
  <2>4. LockMove
    BY <2>1 DEF LockMove
  <2> QED
    BY <1>1, <2>1, <2>2, <2>3, <2>4
<1>2. CASE holder = <<>>
  <2>1. Tick(q, jb) /\ waiting' = waiting
    BY <1>2 DEF Dispatch
  <2>2. \A j \in Calls : jb[j].at \notin Working
    BY <1>2 DEF LockInv, HolderInv
  <2>3. /\ holder' = <<>> \/ \E j \in Calls : holder' = <<"job", j>>
        /\ \A j \in Calls : job'[j].at \in Working <=> holder' = <<"job", j>>
        /\ Distinct(queue') /\ queue' \in Seq(Calls)
        /\ q # <<>> => Members(queue') = {j \in Calls : job'[j].at = "queued"}
        /\ q = <<>> => queue' = <<>> /\ job' = jb
        /\ \A j \in Calls : job'[j].at = "none" <=> jb[j].at = "none"
        /\ job' \in [Calls -> JobRecord]
    BY <2>1, <2>2, TickTakes
  <2>4. Members(queue') = {j \in Calls : job'[j].at = "queued"}
    BY <2>3
  <2>5. waiting = <<>>
    BY <1>2 DEF LockInv, LineInv
  <2>6. LockMove
    BY <1>2, <2>1, <2>3 DEF LockMove, Taken
  <2>7. /\ holder' \in {<<>>} \cup ({"call", "job"} \X Calls)
        /\ \A c \in Calls : holder' # <<"call", c>> /\ holder # <<"call", c>>
    <3>1. CASE holder' = <<>>
      BY <1>2, <3>1
    <3>2. ASSUME NEW j \in Calls, holder' = <<"job", j>>
          PROVE  /\ \A c \in Calls : holder' # <<"call", c>> /\ holder # <<"call", c>>
                 /\ holder' \in {"call", "job"} \X Calls
      BY <1>2, <3>2
    <3> QED
      BY <2>3, <3>1, <3>2
  <2> QED
    BY <2>1, <2>3, <2>4, <2>5, <2>6, <2>7
<1> QED
  BY <1>1, <1>2

LEMMA TickLaterStep ==
  ASSUME LockInv, TickLater
  PROVE  Typed' /\ LockStep
<1>1. /\ holder = <<>> /\ queue # <<>> /\ Tick(queue, job)
      /\ UNCHANGED <<memory, disk, host, call, waiting, table, bounds>>
  BY DEF TickLater
<1>2. RecordTypes'
  BY <1>1 DEF LockInv, RecordTypes, memory, disk, records, host
<1>3. ~cold /\ queue \in Seq(Calls) /\ job \in [Calls -> JobRecord]
  BY <1>1 DEF LockInv, QueueInv, LockTypes
<1>4. /\ Dispatch(queue, job) /\ Distinct(queue)
      /\ Members(queue) = {j \in Calls : job[j].at = "queued"}
  BY <1>1, <1>3 DEF Dispatch, LockInv, QueueInv
<1>5. /\ job' \in [Calls -> JobRecord] /\ queue' \in Seq(Calls)
      /\ holder' \in {<<>>} \cup ({"call", "job"} \X Calls)
      /\ waiting' = waiting /\ (holder' = <<>> => waiting' = <<>>)
      /\ \A j \in Calls : job'[j].at \in Working <=> holder' = <<"job", j>>
      /\ \A c \in Calls : holder' = <<"call", c>> <=> holder = <<"call", c>>
      /\ Distinct(queue') /\ Members(queue') = {j \in Calls : job'[j].at = "queued"}
      /\ \A j \in Calls : job'[j].at = "none" <=> job[j].at = "none"
      /\ LockMove
  BY <1>3, <1>4, Dispatches
<1>6. LockTypes'
  BY <1>1, <1>5 DEF LockInv, LockTypes, table, bounds
<1>7. HolderInv' /\ LineInv' /\ QueueInv' /\ StageInv'
  BY <1>1, <1>3, <1>5 DEF LockInv, HolderInv, Holds, LineInv, QueueInv, StageInv, RightOp, table
<1> QED
  BY <1>2, <1>5, <1>6, <1>7 DEF Typed, LockStep, OrderInv

LEMMA JobOfType ==
  ASSUME LockInv, NEW c \in Calls
  PROVE  JobOf(c) \in JobRecord /\ JobOf(c).at = "queued"
<1>1. /\ call[c].op \in Operations \cup {"none"} /\ call[c].rel \in Rel
      /\ Absent \in Docs /\ NoRelease \in Rel
  BY Constants DEF LockInv, LockTypes, CallRecord
<1>2. PICK act \in Operations \cup {"none", "deploy"} :
        act = IF call[c].op \in {"create", "promote"} THEN "deploy" ELSE call[c].op
  BY <1>1
<1>3. JobOf(c) = [act |-> act, at |-> "queued", goal |-> call[c].rel,
                  restore |-> "data" \in call[c].wants, rel |-> NoRelease, flagged |-> FALSE,
                  doc |-> Absent]
  BY <1>2 DEF JobOf
<1>4. "queued" \in JobStages
  BY DEF JobStages
<1> QED
  BY <1>1, <1>2, <1>3, <1>4 DEF JobRecord

LEMMA LaunchStep ==
  ASSUME LockInv, NEW c \in Calls, Launch(c)
  PROVE  Typed' /\ LockStep
<1> DEFINE q == Append(queue, c)
           jb == [job EXCEPT ![c] = JobOf(c)]
<1>1. /\ call[c].at = "launching" /\ ~cold
      /\ issued' = Append(issued, c) /\ Dispatch(q, jb)
      /\ UNCHANGED <<release, disk, host, cold, bounds>>
  BY DEF Launch
<1>2. job[c].at = "none" /\ c \notin Members(queue) /\ c \notin Members(issued)
  BY <1>1 DEF LockInv, StageInv, QueueInv, Late
<1>3. /\ q \in Seq(Calls) /\ Distinct(q) /\ Members(q) = Members(queue) \cup {c}
  BY <1>2, AppendMembers DEF LockInv, LockTypes, QueueInv
<1>4. /\ issued' \in Seq(Calls) /\ Distinct(issued') /\ Members(issued') = Members(issued) \cup {c}
  BY <1>1, <1>2, AppendMembers DEF LockInv, LockTypes, QueueInv
<1>5. /\ jb \in [Calls -> JobRecord] /\ jb[c].at = "queued"
      /\ \A j \in Calls \ {c} : jb[j] = job[j]
  BY JobOfType DEF LockInv, LockTypes
<1> HIDE DEF q, jb
<1>6. /\ Members(q) = {j \in Calls : jb[j].at = "queued"}
      /\ \A j \in Calls : jb[j].at \in Working <=> job[j].at \in Working
  BY <1>1, <1>2, <1>3, <1>5 DEF LockInv, QueueInv, Working
<1>7. /\ job' \in [Calls -> JobRecord] /\ queue' \in Seq(Calls)
      /\ holder' \in {<<>>} \cup ({"call", "job"} \X Calls)
      /\ waiting' = waiting /\ (holder' = <<>> => waiting' = <<>>)
      /\ \A j \in Calls : job'[j].at \in Working <=> holder' = <<"job", j>>
      /\ \A d \in Calls : holder' = <<"call", d>> <=> holder = <<"call", d>>
      /\ Distinct(queue') /\ Members(queue') = {j \in Calls : job'[j].at = "queued"}
      /\ \A j \in Calls : job'[j].at = "none" <=> jb[j].at = "none"
      /\ LockMove
  BY <1>1, <1>3, <1>5, <1>6, Dispatches
<1>8. /\ listed' \in BOOLEAN /\ deployment' \in Docs /\ call' \in [Calls -> CallRecord]
      /\ call'[c].at \in {"returned", "closing"} /\ call'[c].op = call[c].op
      /\ \A d \in Calls \ {c} : call'[d] = call[d]
  <2>1. CASE call' = Ended(call, c, "returned") /\ UNCHANGED <<listed, deployment>>
    BY <2>1, EndsNow DEF LockInv, RecordTypes
  <2>2. CASE /\ deployment' = [deployment EXCEPT !.status = ActionStatus(call[c].op)]
             /\ listed' = TRUE
             /\ call' = [call EXCEPT ![c].at = "closing", ![c].doc = deployment']
    <3>1. deployment' \in Docs
      BY <2>2 DEF LockInv, RecordTypes, Docs, ActionStatus
    <3>2. "closing" \in CallStages
      BY DEF CallStages, Writing
    <3> QED
      BY <2>2, <3>1, <3>2, StageDocIs DEF LockInv
  <2> QED
    BY <2>1, <2>2 DEF Launch
<1>9. RecordTypes'
  BY <1>1, <1>8 DEF LockInv, RecordTypes, disk, records, host
<1>10. LockTypes'
  BY <1>1, <1>4, <1>7, <1>8 DEF LockInv, LockTypes, bounds
<1>11. HolderInv'
  BY <1>1, <1>7, <1>8 DEF LockInv, HolderInv, Holds, Tearing
<1>12. LineInv'
  BY <1>1, <1>7, <1>8 DEF LockInv, LineInv
<1>13. QueueInv'
  BY <1>1, <1>4, <1>5, <1>7 DEF LockInv, QueueInv
<1>14. StageInv'
  BY <1>1, <1>5, <1>7, <1>8 DEF LockInv, StageInv, RightOp, Tearing, Late
<1> QED
  BY <1>7, <1>9, <1>10, <1>11, <1>12, <1>13, <1>14 DEF Typed, LockStep, OrderInv

LEMMA RecoverStep ==
  ASSUME LockInv, Recover
  PROVE  Typed' /\ LockStep
<1>1. PICK q \in [1..Cardinality(Pending) -> Pending] : NewestFirst(q) /\ Dispatch(q, job)
  BY DEF Recover
<1>2. /\ cold' = FALSE /\ UNCHANGED <<memory, disk, host, call, issued, bounds>>
  BY DEF Recover
<1>3. q \in Seq(Calls) /\ Len(q) \in Nat
  <2>1. Pending \subseteq Calls
    BY DEF Pending
  <2>2. IsFiniteSet(Pending) /\ Cardinality(Pending) \in Nat
    BY <2>1, LifecycleAssumption, FS_Subset, FS_CardinalityType
  <2> QED
    BY <1>1, <2>1, <2>2, IsASeq, LenProperties
<1>4. Members(q) = {j \in Calls : job[j].at = "queued"}
  BY <1>1 DEF NewestFirst, Members, Pending
<1>5. Distinct(q)
  <2> SUFFICES ASSUME NEW i \in 1..Len(q), NEW k \in 1..Len(q), i < k, q[i] = q[k]
               PROVE  FALSE
    BY <1>3 DEF Distinct
  <2>1. PICK m \in 1..Len(issued), n \in 1..Len(issued) :
               n < m /\ issued[m] = q[i] /\ issued[n] = q[k]
    BY <1>1 DEF NewestFirst
  <2>2. Distinct(issued) /\ Len(issued) \in Nat
    BY LenProperties DEF LockInv, LockTypes, QueueInv
  <2> QED
    BY <2>1, <2>2 DEF Distinct
<1>6. job \in [Calls -> JobRecord]
  BY DEF LockInv, LockTypes
<1>7. /\ job' \in [Calls -> JobRecord] /\ queue' \in Seq(Calls)
      /\ holder' \in {<<>>} \cup ({"call", "job"} \X Calls)
      /\ waiting' = waiting /\ (holder' = <<>> => waiting' = <<>>)
      /\ \A j \in Calls : job'[j].at \in Working <=> holder' = <<"job", j>>
      /\ \A c \in Calls : holder' = <<"call", c>> <=> holder = <<"call", c>>
      /\ Distinct(queue') /\ Members(queue') = {j \in Calls : job'[j].at = "queued"}
      /\ \A j \in Calls : job'[j].at = "none" <=> job[j].at = "none"
      /\ LockMove
  BY <1>1, <1>3, <1>4, <1>5, <1>6, Dispatches
<1>8. RecordTypes'
  BY <1>2 DEF LockInv, RecordTypes, memory, disk, records, host
<1>9. LockTypes'
  BY <1>2, <1>7 DEF LockInv, LockTypes, bounds
<1>10. HolderInv' /\ LineInv' /\ QueueInv' /\ StageInv'
  BY <1>2, <1>7 DEF LockInv, HolderInv, Holds, LineInv, QueueInv, StageInv, RightOp
<1> QED
  BY <1>7, <1>8, <1>9, <1>10 DEF Typed, LockStep, OrderInv

-----------------------------------------------------------------------------
(* Jobs.  Each holds the lock from its start to its last write. *)
LEMMA WorkingJob ==
  ASSUME LockInv, NEW j \in Calls, job[j].at \in Working
  PROVE  /\ holder = <<"job", j>> /\ job \in [Calls -> JobRecord]
         /\ \A k \in Calls \ {j} : job[k].at \notin Working
         /\ \A c \in Calls : ~Holds(c)
         /\ Working \cup {"completed", "failed"} \subseteq JobStages
  BY DEF LockInv, LockTypes, HolderInv, JobStages

LEMMA JobEndsStep ==
  ASSUME LockInv, NEW j \in Calls, job[j].at \in Working, NEW outcome \in {"completed", "failed"},
         JobEnds(j, outcome), crashes' \in Nat, faults' \in Nat, UNCHANGED table
  PROVE  LockTypes' /\ LockStep
<1>1. PICK jb : jb = [job EXCEPT ![j].at = outcome, ![j].doc = Absent]
  OBVIOUS
<1>2. call' = HandedCalls(call) /\ LeaveLock(jb)
  BY <1>1 DEF JobEnds
<1>3. /\ jb \in [Calls -> JobRecord] /\ jb[j].at = outcome
      /\ \A k \in Calls \ {j} : jb[k] = job[k]
  <2>1. outcome \in JobStages /\ Absent \in Docs /\ job \in [Calls -> JobRecord]
    BY WorkingJob, Constants
  <2> QED
    BY <1>1, <2>1 DEF JobRecord
<1>4. \A k \in Calls : /\ jb[k].at \notin Working
                       /\ jb[k].at = "queued" <=> job[k].at = "queued"
                       /\ jb[k].at = "none" <=> job[k].at = "none"
  BY <1>3, WorkingJob DEF Working
<1>5. LockTypes'
  BY <1>2, <1>3, <1>4, LeaveTypes, Handed DEF LockInv, LockTypes, table
<1>6. waiting # <<>> => /\ call'[Head(waiting)].at = Granted(Head(waiting))
                        /\ call'[Head(waiting)].op = call[Head(waiting)].op
  BY <1>2, Handed
<1>7. \A d \in Calls : waiting = <<>> \/ d # Head(waiting) =>
            /\ call'[d].at = "waiting" <=> call[d].at = "waiting"
            /\ ~Holds(d)' /\ RightOp(d)'
            /\ job[d].at # "none" => call'[d].at \in Late
  <2> SUFFICES ASSUME NEW d \in Calls, waiting = <<>> \/ d # Head(waiting)
               PROVE  /\ call'[d].at = "waiting" <=> call[d].at = "waiting"
                      /\ ~Holds(d)' /\ RightOp(d)'
                      /\ job[d].at # "none" => call'[d].at \in Late
    OBVIOUS
  <2>1. call'[d] = call[d]
    BY <1>2, Handed
  <2> QED
    BY <2>1, WorkingJob DEF Holds, RightOp, LockInv, StageInv
<1>8. holder # <<>>
  BY WorkingJob
<1> QED
  BY <1>2, <1>3, <1>4, <1>5, <1>6, <1>7, <1>8, HolderLeaves

LEMMA JobStageStep ==
  ASSUME LockInv, NEW j \in Calls, job[j].at \in Working, job' \in [Calls -> JobRecord],
         \A k \in Calls \ {j} : job'[k] = job[k], job'[j].at \in Working,
         crashes' \in Nat, faults' \in Nat, UNCHANGED <<call, lock, table>>
  PROVE  LockTypes' /\ LockStep
<1>1. LockTypes'
  BY DEF LockInv, LockTypes, lock, table
<1> QED
  BY <1>1, JobMoves

LEMMA ProceedStep ==
  ASSUME LockInv, NEW j \in Calls, job[j].at \in Working, NEW stage \in Working, Proceed(j, stage),
         crashes' \in Nat, faults' \in Nat, UNCHANGED table
  PROVE  /\ LockTypes' /\ LockStep
         /\ job'[j] = [job[j] EXCEPT !.at = stage]
         /\ \A k \in Calls \ {j} : job'[k] = job[k]
<1>1. job \in [Calls -> JobRecord] /\ stage \in JobStages
  BY WorkingJob
<1>2. job' = [job EXCEPT ![j].at = stage] /\ UNCHANGED <<call, lock>>
  BY DEF Proceed
<1>3. /\ job' \in [Calls -> JobRecord] /\ job'[j].at = stage
      /\ job'[j] = [job[j] EXCEPT !.at = stage]
      /\ \A k \in Calls \ {j} : job'[k] = job[k]
  BY <1>1, <1>2 DEF JobRecord
<1> QED
  BY <1>2, <1>3, JobStageStep

LEMMA SettleStep ==
  ASSUME LockInv, NEW j \in Calls, job[j].at \in Working,
         NEW status \in {"stopped", "running", "error"}, NEW stage \in {"reporting", "failing"},
         Settle(j, status, stage), crashes' \in Nat, faults' \in Nat, UNCHANGED table
  PROVE  /\ listed' = TRUE /\ deployment' \in Docs /\ release' = release
         /\ LockTypes' /\ LockStep
         /\ job'[j].at = stage /\ \A k \in Calls \ {j} : job'[k] = job[k]
<1>1. /\ deployment' = [deployment EXCEPT !.status = status]
      /\ listed' = TRUE
      /\ job' = [job EXCEPT ![j].at = stage, ![j].doc = deployment']
      /\ UNCHANGED <<release, call, lock>>
  BY DEF Settle
<1>2. deployment' \in Docs
  BY <1>1 DEF LockInv, RecordTypes, Docs
<1>3. job \in [Calls -> JobRecord] /\ stage \in JobStages /\ stage \in Working
  BY WorkingJob DEF Working
<1>4. /\ job' \in [Calls -> JobRecord] /\ job'[j].at = stage
      /\ \A k \in Calls \ {j} : job'[k] = job[k]
  BY <1>1, <1>2, <1>3 DEF JobRecord
<1>5. UNCHANGED <<call, lock, table>>
  BY <1>1
<1>6. LockTypes' /\ LockStep
  BY <1>3, <1>4, <1>5, JobStageStep
<1> QED
  BY <1>1, <1>2, <1>4, <1>6

LEMMA StartJobStep ==
  ASSUME LockInv, NEW j \in Calls, StartJob(j)
  PROVE  Typed' /\ LockStep
<1>1. job[j].at = "starting" /\ UNCHANGED <<disk, host, table, bounds>>
  BY DEF StartJob
<1>2. crashes' \in Nat /\ faults' \in Nat /\ UNCHANGED table /\ job[j].at \in Working
  BY <1>1 DEF LockInv, LockTypes, bounds, Working
<1>3. UNCHANGED memory
  BY DEF StartJob, Proceed
<1>4. RecordTypes'
  BY <1>1, <1>3 DEF LockInv, RecordTypes, memory, disk, records, host
<1>5. LockTypes' /\ LockStep
  <2>1. CASE JobEnds(j, "completed") \/ JobEnds(j, "failed")
    BY <1>2, <2>1, JobEndsStep
  <2>2. CASE \E stage \in Working : Proceed(j, stage)
    BY <1>2, <2>2, ProceedStep
  <2> QED
    BY <2>1, <2>2 DEF StartJob, Working
<1> QED
  BY <1>4, <1>5 DEF Typed

LEMMA StopAppStep ==
  ASSUME LockInv, NEW j \in Calls, StopApp(j)
  PROVE  Typed' /\ LockStep
<1>1. /\ job[j].at = "stopping" /\ containers' \in {NoRelease, containers}
      /\ UNCHANGED <<disk, data, table, bounds>>
  BY DEF StopApp
<1>2. /\ crashes' \in Nat /\ faults' \in Nat /\ UNCHANGED table /\ job[j].at \in Working
      /\ containers' \in Rel
  BY <1>1, Constants DEF LockInv, LockTypes, RecordTypes, bounds, Working
<1>3. Settle(j, "stopped", "reporting") \/ Settle(j, "error", "failing")
  BY DEF StopApp, Succeeds, Throws
<1>4. listed' = TRUE /\ deployment' \in Docs /\ release' = release /\ LockTypes' /\ LockStep
  BY <1>2, <1>3, SettleStep
<1>5. RecordTypes'
  BY <1>1, <1>2, <1>4 DEF LockInv, RecordTypes, disk, records
<1> QED
  BY <1>4, <1>5 DEF Typed

LEMMA QuietStep ==
  ASSUME LockInv, NEW j \in Calls, Quiet(j)
  PROVE  Typed' /\ LockStep
<1>1. /\ job[j].at = "quieting" /\ containers' \in {NoRelease, containers}
      /\ UNCHANGED <<disk, data, table, bounds>>
  BY DEF Quiet
<1>2. /\ crashes' \in Nat /\ faults' \in Nat /\ UNCHANGED table /\ job[j].at \in Working
      /\ containers' \in Rel
  BY <1>1, Constants DEF LockInv, LockTypes, RecordTypes, bounds, Working
<1>3. CASE Settle(j, "error", "failing")
  <2>1. listed' = TRUE /\ deployment' \in Docs /\ release' = release /\ LockTypes' /\ LockStep
    BY <1>2, <1>3, SettleStep
  <2>2. RecordTypes'
    BY <1>1, <1>2, <2>1 DEF LockInv, RecordTypes, disk, records
  <2> QED
    BY <2>1, <2>2 DEF Typed
<1>4. CASE Proceed(j, "preparing") \/ Proceed(j, "restoring")
  <2>1. LockTypes' /\ LockStep
    BY <1>2, <1>4, ProceedStep DEF Working
  <2>2. RecordTypes'
    BY <1>1, <1>2, <1>4 DEF LockInv, RecordTypes, Proceed, memory, disk, records
  <2> QED
    BY <2>1, <2>2 DEF Typed
<1> QED
  BY <1>3, <1>4 DEF Quiet, Throws

LEMMA RestoreStep ==
  ASSUME LockInv, GoalInv, NEW j \in Calls, Restore(j)
  PROVE  Typed' /\ LockStep
<1>1. job[j].at = "restoring" /\ UNCHANGED <<disk, containers, table, bounds>>
  BY DEF Restore
<1>2. crashes' \in Nat /\ faults' \in Nat /\ UNCHANGED table /\ job[j].at \in Working
  BY <1>1 DEF LockInv, LockTypes, bounds, Working
<1>3. CASE Settle(j, "error", "failing") /\ UNCHANGED data
  <2>1. listed' = TRUE /\ deployment' \in Docs /\ release' = release /\ LockTypes' /\ LockStep
    BY <1>2, <1>3, SettleStep
  <2>2. RecordTypes'
    BY <1>1, <1>3, <2>1 DEF LockInv, RecordTypes, disk, records
  <2> QED
    BY <2>1, <2>2 DEF Typed
<1>4. CASE /\ snapshot[job[j].goal] # "missing" /\ data' = snapshot[job[j].goal]
           /\ Proceed(j, "preparing")
  <2>1. LockTypes' /\ LockStep
    BY <1>2, <1>4, ProceedStep DEF Working
  <2>2. job[j].goal \in Releases
    BY <1>1 DEF GoalInv
  <2>3. RecordTypes'
    BY <1>1, <1>4, <2>2 DEF LockInv, RecordTypes, Proceed, memory, disk, records
  <2> QED
    BY <2>1, <2>3 DEF Typed
<1> QED
  BY <1>3, <1>4 DEF Restore, Throws

LEMMA PrepareStep ==
  ASSUME LockInv, NEW j \in Calls, Prepare(j)
  PROVE  Typed' /\ LockStep
<1>1. job[j].at = "preparing" /\ UNCHANGED <<records, snapshot, host, table, bounds>>
  BY DEF Prepare
<1>2. crashes' \in Nat /\ faults' \in Nat /\ UNCHANGED table /\ job[j].at \in Working
  BY <1>1 DEF LockInv, LockTypes, bounds, Working
<1>3. CASE Settle(j, "error", "failing") /\ UNCHANGED runtime
  <2>1. listed' = TRUE /\ deployment' \in Docs /\ release' = release /\ LockTypes' /\ LockStep
    BY <1>2, <1>3, SettleStep
  <2>2. RecordTypes'
    BY <1>1, <1>3, <2>1 DEF LockInv, RecordTypes, records, host
  <2> QED
    BY <2>1, <2>2 DEF Typed
<1>4. CASE /\ runtime' = TRUE
           /\ job' = [job EXCEPT ![j].rel = deployment.current,
                                 ![j].at = IF job[j].act = "restart" THEN "upping" ELSE "pulling"]
           /\ UNCHANGED <<memory, call, lock>>
  <2>1. PICK stage \in {"upping", "pulling"} :
          job' = [job EXCEPT ![j].rel = deployment.current, ![j].at = stage]
    BY <1>4
  <2>2. /\ job \in [Calls -> JobRecord] /\ deployment.current \in Rel
        /\ stage \in JobStages /\ stage \in Working
    BY <1>2, WorkingJob DEF LockInv, RecordTypes, Docs, Rel, Working
  <2>3. /\ job' \in [Calls -> JobRecord] /\ job'[j].at \in Working
        /\ \A k \in Calls \ {j} : job'[k] = job[k]
    BY <2>1, <2>2 DEF JobRecord
  <2>4. LockTypes' /\ LockStep
    BY <1>2, <1>4, <2>3, JobStageStep
  <2>5. RecordTypes'
    BY <1>1, <1>4 DEF LockInv, RecordTypes, memory, records, host
  <2> QED
    BY <2>4, <2>5 DEF Typed
<1> QED
  BY <1>3, <1>4 DEF Prepare, Throws

LEMMA PullStep ==
  ASSUME LockInv, NEW j \in Calls, Pull(j)
  PROVE  Typed' /\ LockStep
<1>1. job[j].at = "pulling" /\ UNCHANGED <<disk, host, table, bounds>>
  BY DEF Pull
<1>2. crashes' \in Nat /\ faults' \in Nat /\ UNCHANGED table /\ job[j].at \in Working
  BY <1>1 DEF LockInv, LockTypes, bounds, Working
<1>3. CASE Settle(j, "error", "failing")
  <2>1. listed' = TRUE /\ deployment' \in Docs /\ release' = release /\ LockTypes' /\ LockStep
    BY <1>2, <1>3, SettleStep
  <2>2. RecordTypes'
    BY <1>1, <2>1 DEF LockInv, RecordTypes, disk, records, host
  <2> QED
    BY <2>1, <2>2 DEF Typed
<1>4. CASE Proceed(j, "upping")
  <2>1. LockTypes' /\ LockStep
    BY <1>2, <1>4, ProceedStep DEF Working
  <2>2. RecordTypes'
    BY <1>1, <1>4 DEF LockInv, RecordTypes, Proceed, memory, disk, records, host
  <2> QED
    BY <2>1, <2>2 DEF Typed
<1> QED
  BY <1>3, <1>4 DEF Pull, Throws

LEMMA UpStep ==
  ASSUME LockInv, NEW j \in Calls, Up(j)
  PROVE  Typed' /\ LockStep
<1>1. /\ job[j].at = "upping" /\ UNCHANGED <<disk, table, bounds>>
      /\ containers' \in {job[j].rel, containers} /\ data' \in {job[j].rel, data}
  BY DEF Up, host
<1>2. /\ crashes' \in Nat /\ faults' \in Nat /\ UNCHANGED table /\ job[j].at \in Working
      /\ containers' \in Rel /\ data' \in Rel
  BY <1>1 DEF LockInv, LockTypes, RecordTypes, JobRecord, bounds, Working
<1>3. Settle(j, "running", "reporting") \/ Settle(j, "error", "failing")
  BY DEF Up, Succeeds, Throws
<1>4. listed' = TRUE /\ deployment' \in Docs /\ release' = release /\ LockTypes' /\ LockStep
  BY <1>2, <1>3, SettleStep
<1>5. RecordTypes'
  BY <1>1, <1>2, <1>4 DEF LockInv, RecordTypes, disk, records
<1> QED
  BY <1>4, <1>5 DEF Typed

LEMMA ReportStep ==
  ASSUME LockInv, NEW j \in Calls, Report(j) \/ ReportFailure(j)
  PROVE  Typed' /\ LockStep
<1>1. /\ job[j].at \in {"reporting", "failing"} /\ meta' = job[j].doc
      /\ JobEnds(j, "completed") \/ JobEnds(j, "failed")
      /\ UNCHANGED <<memory, pointer, stored, staged, runtime, snapshot, host, table, bounds>>
  BY DEF Report, ReportFailure
<1>2. crashes' \in Nat /\ faults' \in Nat /\ UNCHANGED table /\ job[j].at \in Working
  BY <1>1 DEF LockInv, LockTypes, bounds, Working
<1>3. LockTypes' /\ LockStep
  BY <1>1, <1>2, JobEndsStep
<1>4. RecordTypes'
  BY <1>1 DEF LockInv, LockTypes, JobRecord, RecordTypes, memory, host
<1> QED
  BY <1>3, <1>4 DEF Typed

LEMMA JobWriteFailsStep ==
  ASSUME LockInv, NEW j \in Calls, JobWriteFails(j)
  PROVE  Typed' /\ LockStep
<1>1. /\ faults' = faults + 1 /\ job[j].at \in {"reporting", "failing"}
      /\ UNCHANGED <<disk, host, table, crashes>>
  BY DEF JobWriteFails
<1>2. crashes' \in Nat /\ faults' \in Nat /\ UNCHANGED table /\ job[j].at \in Working
  BY <1>1 DEF LockInv, LockTypes, Working
<1>3. CASE Settle(j, "error", "failing")
  <2>1. listed' = TRUE /\ deployment' \in Docs /\ release' = release /\ LockTypes' /\ LockStep
    BY <1>2, <1>3, SettleStep
  <2>2. RecordTypes'
    BY <1>1, <2>1 DEF LockInv, RecordTypes, disk, records, host
  <2> QED
    BY <2>1, <2>2 DEF Typed
<1>4. CASE JobEnds(j, "failed") /\ UNCHANGED memory
  <2>1. LockTypes' /\ LockStep
    BY <1>2, <1>4, JobEndsStep
  <2>2. RecordTypes'
    BY <1>1, <1>4 DEF LockInv, RecordTypes, memory, disk, records, host
  <2> QED
    BY <2>1, <2>2 DEF Typed
<1> QED
  BY <1>3, <1>4 DEF JobWriteFails, Throws

(* A restart frees the lock; what was going on is over, or queued again.    *)
LEMMA CrashStep ==
  ASSUME LockInv, Crash
  PROVE  Typed' /\ LockStep
<1>1. PICK resumed \in SUBSET {j \in Calls : job[j].at = "starting"} :
        /\ crashes' = crashes + 1
        /\ listed' = (meta # Absent)
        /\ deployment' = IF meta # Absent THEN Reloaded ELSE Absent
        /\ release' = IF meta # Absent THEN stored ELSE [r \in Releases |-> "none"]
        /\ call' = [c \in Calls |-> IF call[c].at \in Settled THEN call[c] ELSE Ended(call, c, "lost")[c]]
        /\ job' = [j \in Calls |->
             IF job[j].at \in Finished \cup {"queued"} THEN job[j]
             ELSE [job[j] EXCEPT !.at = IF j \in resumed THEN "queued" ELSE "failed", !.doc = Absent]]
        /\ holder' = <<>> /\ waiting' = <<>> /\ queue' = <<>>
        /\ cold' = TRUE
        /\ UNCHANGED <<disk, host, issued, faults>>
  BY DEF Crash
<1>2. deployment' \in Docs
  <2>1. Reloaded \in Docs
    BY DEF Reloaded, LockInv, RecordTypes, Docs, Rel
  <2> QED
    BY <1>1, <2>1, Constants
<1>3. RecordTypes'
  BY <1>1, <1>2 DEF LockInv, RecordTypes, ReleaseStates, disk, records, host
<1>4. /\ call' \in [Calls -> CallRecord]
      /\ \A c \in Calls : /\ call'[c].op = call[c].op
                          /\ call'[c].at = IF call[c].at \in Settled THEN call[c].at ELSE "lost"
  <2>1. \A c \in Calls : /\ call[c] \in CallRecord /\ Ended(call, c, "lost")[c] \in CallRecord
                         /\ Ended(call, c, "lost")[c].at = "lost"
                         /\ Ended(call, c, "lost")[c].op = call[c].op
    BY EndedCall DEF LockInv, LockTypes, CallStages
  <2> QED
    BY <1>1, <2>1
<1>5. /\ job' \in [Calls -> JobRecord]
      /\ \A j \in Calls : job'[j].at = IF job[j].at \in Finished \cup {"queued"} THEN job[j].at
                                       ELSE IF j \in resumed THEN "queued" ELSE "failed"
  <2>1. {"queued", "failed"} \subseteq JobStages
    BY DEF JobStages
  <2>2. \A j \in Calls : job[j] \in JobRecord
    BY DEF LockInv, LockTypes
  <2>3. ASSUME NEW j \in Calls
        PROVE  /\ job'[j] \in JobRecord
               /\ job'[j].at = IF job[j].at \in Finished \cup {"queued"} THEN job[j].at
                              ELSE IF j \in resumed THEN "queued" ELSE "failed"
    <3>1. CASE job[j].at \in Finished \cup {"queued"}
      BY <1>1, <2>2, <3>1
    <3>2. CASE job[j].at \notin Finished \cup {"queued"}
      <4>1. PICK s \in {"queued", "failed"} : s = IF j \in resumed THEN "queued" ELSE "failed"
        OBVIOUS
      <4>2. job'[j] = [job[j] EXCEPT !.at = s, !.doc = Absent]
        BY <1>1, <3>2, <4>1
      <4>3. job'[j] \in JobRecord /\ job'[j].at = s
        BY <2>1, <2>2, <4>2, Constants DEF JobRecord
      <4> QED
        BY <3>2, <4>1, <4>3
    <3> QED
      BY <3>1, <3>2
  <2>4. job' = [j \in Calls |-> job'[j]]
    BY <1>1
  <2> QED
    BY <2>3, <2>4
<1>6. LockTypes'
  <2>1. /\ crashes' = crashes + 1 /\ holder' = <<>> /\ waiting' = <<>> /\ queue' = <<>> /\ cold' = TRUE
        /\ UNCHANGED <<issued, faults>>
    BY <1>1
  <2> QED
    BY <1>4, <1>5, <2>1, EmptySeq DEF LockInv, LockTypes
<1>7. \A j \in Calls : job'[j].at \notin Working /\ (job'[j].at = "none" <=> job[j].at = "none")
  BY <1>5 DEF Working, Finished
<1>8. HolderInv'
  BY <1>1, <1>4, <1>7 DEF HolderInv, Holds, Settled, Tearing
<1>9. LineInv'
  BY <1>1, <1>4, NoMembers, EmptySeq DEF LineInv, Settled
<1>10. QueueInv'
  BY <1>1, <1>7, NoMembers, EmptySeq DEF LockInv, QueueInv
<1>11. StageInv'
  BY <1>4, <1>7 DEF LockInv, StageInv, RightOp, Settled, Tearing, Late
<1>12. LockMove
  BY <1>1 DEF LockMove, Freed
<1> QED
  BY <1>3, <1>6, <1>8, <1>9, <1>10, <1>11, <1>12 DEF Typed, LockStep, OrderInv

-----------------------------------------------------------------------------
(* What most steps leave alone: the operation and release of a call, the    *)
(* task of a job, the stages of a job that is under way, and whether a call *)
(* is past the teardown of an uninstall.                                    *)
Removing == {"deprovisioning", "wiping", "reclaiming"}

CallsKept(cl) ==
  \A c \in Calls : /\ cl[c].op = call[c].op /\ cl[c].rel = call[c].rel
                   /\ cl[c].at \in Removing => call[c].at \in Removing

KeepsAsked == \A c \in Calls : call'[c].op = call[c].op /\ call'[c].rel = call[c].rel
KeepsCalls == CallsKept(call')

Midway == {"quieting", "restoring", "preparing", "pulling", "upping"}

TasksKept(jb) ==
  \A j \in Calls : /\ jb[j].act = job[j].act /\ jb[j].goal = job[j].goal
                   /\ jb[j].restore = job[j].restore
StagesKept(jb) == \A j \in Calls : jb[j].at \in Midway => jb[j].at = job[j].at

KeepsTasks == TasksKept(job')
KeepsJobs  == KeepsTasks /\ StagesKept(job')

(* A job only begins to quieten or restore if it is a rollback with data.   *)
RestoresAsAsked ==
  \A j \in Calls : job'[j].at \in {"quieting", "restoring"} =>
    job[j].at \in {"quieting", "restoring"} \/ (job[j].act = "rollback" /\ job[j].restore)

LEMMA GoalKept ==
  ASSUME GoalInv, KeepsAsked, KeepsTasks, RestoresAsAsked
  PROVE  GoalInv'
<1> SUFFICES ASSUME NEW c \in Calls
             PROVE  /\ call'[c].op = "rollback" => call'[c].rel \in Releases
                    /\ job'[c].act = "rollback" => job'[c].goal \in Releases
                    /\ job'[c].at \in {"quieting", "restoring"} => job'[c].act = "rollback" /\ job'[c].restore
  BY DEF GoalInv, Releases
<1>1. call'[c].op = call[c].op /\ call'[c].rel = call[c].rel
  BY DEF KeepsAsked
<1>2. job'[c].act = job[c].act /\ job'[c].goal = job[c].goal /\ job'[c].restore = job[c].restore
  BY DEF KeepsTasks, TasksKept
<1>3. ASSUME job'[c].at \in {"quieting", "restoring"}
      PROVE  job'[c].act = "rollback" /\ job'[c].restore
  <2>1. job[c].act = "rollback" /\ job[c].restore
    BY <1>3, Zenon DEF GoalInv, RestoresAsAsked
  <2> QED
    BY <1>2, <2>1, Zenon
<1>4. /\ call[c].op = "rollback" => call[c].rel \in Releases
      /\ job[c].act = "rollback" => job[c].goal \in Releases
  BY Zenon DEF GoalInv
<1>5. job'[c].act = job[c].act /\ job'[c].goal = job[c].goal
  BY <1>2, Zenon
<1>6. /\ call'[c].op = "rollback" => call'[c].rel \in Releases
      /\ job'[c].act = "rollback" => job'[c].goal \in Releases
  BY <1>1, <1>4, <1>5
<1> QED
  BY <1>3, <1>6, Zenon

LEMMA JobsKeepGoals ==
  ASSUME GoalInv, KeepsAsked, KeepsJobs
  PROVE  GoalInv'
<1>1. RestoresAsAsked
  <2> SUFFICES ASSUME NEW j \in Calls, job'[j].at \in {"quieting", "restoring"}
               PROVE  job[j].at \in {"quieting", "restoring"}
    BY Zenon DEF RestoresAsAsked
  <2> QED
    BY DEF KeepsJobs, StagesKept, Midway
<1> QED
  BY <1>1, GoalKept, Zenon DEF KeepsJobs

LEMMA SameJobs == ASSUME UNCHANGED job PROVE KeepsJobs
  BY DEF KeepsJobs, KeepsTasks, TasksKept, StagesKept

LEMMA AsksAlike == ASSUME KeepsCalls PROVE KeepsAsked
  BY DEF KeepsCalls, CallsKept, KeepsAsked

LEMMA SameCalls == ASSUME UNCHANGED call PROVE KeepsCalls
  BY DEF KeepsCalls, CallsKept

LEMMA CallAtKeeps ==
  ASSUME LockInv, NEW c \in Calls, NEW stage, call' = [call EXCEPT ![c].at = stage]
  PROVE  KeepsAsked /\ (stage \notin Removing \/ call[c].at \in Removing => KeepsCalls)
<1>1. \A d \in Calls : /\ call'[d].op = call[d].op /\ call'[d].rel = call[d].rel
                       /\ call'[d].at = IF d = c THEN stage ELSE call[d].at
  BY DEF LockInv, LockTypes, CallRecord
<1> QED
  BY <1>1 DEF KeepsAsked, KeepsCalls, CallsKept

LEMMA CallWritesKeeps ==
  ASSUME LockInv, NEW c \in Calls, NEW stage, NEW doc, stage \notin Removing,
         call' = [call EXCEPT ![c].at = stage, ![c].doc = doc]
  PROVE  KeepsCalls
<1>1. \A d \in Calls : /\ call'[d].op = call[d].op /\ call'[d].rel = call[d].rel
                       /\ call'[d].at = IF d = c THEN stage ELSE call[d].at
  BY DEF LockInv, LockTypes, CallRecord
<1> QED
  BY <1>1 DEF KeepsCalls, CallsKept

LEMMA EndedKeeps ==
  ASSUME NEW cl \in [Calls -> CallRecord], NEW c \in Calls, NEW outcome \in {"returned", "failed"},
         call' = Ended(cl, c, outcome), CallsKept(cl)
  PROVE  KeepsCalls
<1>0. outcome \in CallStages /\ outcome \notin Removing
  BY WritingStages DEF Removing
<1>1. /\ call'[c].op = cl[c].op /\ call'[c].rel = cl[c].rel /\ call'[c].at = outcome
      /\ \A d \in Calls \ {c} : call'[d] = cl[d]
  BY <1>0, EndedCall
<1> QED
  BY <1>0, <1>1 DEF KeepsCalls, CallsKept

LEMMA SwitchKeeps ==
  ASSUME RecordTypes, NEW cl \in [Calls -> CallRecord], NEW c \in Calls, BeginSwitch(c, cl),
         CallsKept(cl)
  PROVE  KeepsCalls
<1>1. /\ call'[c].op = cl[c].op /\ call'[c].rel = cl[c].rel
      /\ call'[c].at \in {"failed", "demoting", "activating"}
      /\ \A d \in Calls \ {c} : call'[d] = cl[d]
  BY SwitchBegins
<1> QED
  BY <1>1 DEF KeepsCalls, CallsKept, Removing

LEMMA HandedKept ==
  ASSUME LockInv
  PROVE  HandedCalls(call) \in [Calls -> CallRecord] /\ CallsKept(HandedCalls(call))
<1>1. /\ waiting # <<>> =>
              /\ HandedCalls(call)[Head(waiting)].at = Granted(Head(waiting))
              /\ Granted(Head(waiting)) \in {"capturing", "tearing"}
      /\ \A d \in Calls : /\ HandedCalls(call)[d].op = call[d].op
                          /\ HandedCalls(call)[d].rel = call[d].rel
                          /\ waiting = <<>> \/ d # Head(waiting) => HandedCalls(call)[d] = call[d]
      /\ HandedCalls(call) \in [Calls -> CallRecord]
  BY Handed
<1>2. Granted(Head(waiting)) \in {"capturing", "tearing"} => Granted(Head(waiting)) \notin Removing
  BY DEF Removing
<1> QED
  BY <1>1, <1>2 DEF CallsKept

LEMMA HandedKeeps ==
  ASSUME LockInv, call' = HandedCalls(call)
  PROVE  KeepsCalls
  BY HandedKept, Zenon DEF KeepsCalls

LEMMA LeaveDeleteKeeps ==
  ASSUME LockInv, NEW c \in Calls, NEW outcome \in {"returned", "failed"}, LeaveDelete(c, outcome)
  PROVE  KeepsCalls
<1>1. PICK cl : cl \in {call, HandedCalls(call)} /\ call' = Ended(cl, c, outcome)
  BY DEF LeaveDelete
<1>2. call \in [Calls -> CallRecord] /\ CallsKept(call)
  BY DEF LockInv, LockTypes, CallsKept
<1>3. cl \in [Calls -> CallRecord] /\ CallsKept(cl)
  BY <1>1, <1>2, HandedKept
<1> QED
  BY <1>1, <1>3, EndedKeeps

(* A call that goes on keeps what it was asked, and only a teardown gets it *)
(* to removing what the deployment left.                                    *)
LEMMA CallStepKeeps ==
  ASSUME LockInv, NEW c \in Calls, CallStep(c) \/ CallWriteFails(c)
  PROVE  KeepsAsked /\ (KeepsCalls \/ Teardown(c))
<1> SUFFICES ASSUME ~Teardown(c) PROVE KeepsCalls
  <2>1. CASE Teardown(c)
    <3>1. ASSUME LeaveDelete(c, "failed") \/ LeaveDelete(c, "returned")
          PROVE  KeepsAsked
      BY <3>1, LeaveDeleteKeeps, AsksAlike
    <3>2. ASSUME call' = [call EXCEPT ![c].at = "deprovisioning"]
          PROVE  KeepsAsked
      BY <3>2, CallAtKeeps
    <3> QED
      BY <2>1, <3>1, <3>2 DEF Teardown
  <2> QED
    BY <2>1, AsksAlike
<1>0. /\ call \in [Calls -> CallRecord] /\ CallsKept(call)
      /\ RecordTypes
  BY DEF LockInv, LockTypes, CallsKept
<1>1. ASSUME NEW stage \in Writing \cup {"waiting", "capturing", "tearing"},
             call' = [call EXCEPT ![c].at = stage]
      PROVE  KeepsCalls
  <2> stage \notin Removing
    BY DEF Writing, Removing
  <2> QED
    BY <1>1, CallAtKeeps
<1>2. ASSUME NEW stage \in Writing, NEW doc, call' = [call EXCEPT ![c].at = stage, ![c].doc = doc]
      PROVE  KeepsCalls
  <2> stage \notin Removing
    BY DEF Writing, Removing
  <2> QED
    BY <1>2, CallWritesKeeps
<1>3. ASSUME NEW outcome \in {"returned", "failed"}, call' = Ended(call, c, outcome)
      PROVE  KeepsCalls
  BY <1>0, <1>3, EndedKeeps
<1>4. ASSUME BeginSwitch(c, call)
      PROVE  KeepsCalls
  BY <1>0, <1>4, SwitchKeeps
<1>5. PICK cl \in [Calls -> CallRecord] : cl = HandedCalls(call) /\ CallsKept(cl)
  BY HandedKept
<1>10. CASE Stage(c) \/ RecordRelease(c) \/ DemoteRelease(c)
  BY <1>1, <1>10 DEF Stage, RecordRelease, DemoteRelease, Writing
<1>11. CASE Unlist(c) \/ RemoveStorage(c)
  <2>1. call[c].at \in Removing
    BY <1>11 DEF Unlist, RemoveStorage, Removing
  <2> QED
    BY <1>11, <2>1, CallAtKeeps DEF Unlist, RemoveStorage
<1>12. CASE Register(c)
  BY <1>4, <1>12 DEF Register
<1>13. CASE ActivateRelease(c)
  BY <1>2, <1>13 DEF ActivateRelease, Writing
<1>14. CASE SwitchPointer(c)
  BY <1>1, <1>2, <1>3, <1>14 DEF SwitchPointer, Writing
<1>15. CASE SyncVersion(c)
  BY <1>1, <1>3, <1>15 DEF SyncVersion, Writing
<1>16. CASE Close(c) \/ CallWriteFails(c)
  BY <1>3, <1>16 DEF Close, CallWriteFails
<1>17. CASE Launch(c)
  BY <1>2, <1>3, <1>17 DEF Launch, Writing
<1>18. CASE DiscardJobs(c)
  BY <1>1, <1>18 DEF DiscardJobs
<1>19. CASE RemoveAppData(c)
  BY <1>19, LeaveDeleteKeeps DEF RemoveAppData
<1>20. CASE CaptureSnapshot(c)
  <2>1. BeginSwitch(c, cl) \/ call' = Ended(cl, c, "failed")
    BY <1>5, <1>20 DEF CaptureSnapshot
  <2> QED
    BY <1>0, <1>5, <2>1, SwitchKeeps, EndedKeeps
<1>21. CASE Save(c)
  <2>1. CASE RunExclusive(c, [call EXCEPT ![c].old = deployment.current])
    <3>1. PICK wl : wl = [call EXCEPT ![c].old = deployment.current]
      OBVIOUS
    <3>2. deployment.current \in Rel
      BY <1>0 DEF RecordTypes, Docs, Rel
    <3>3. /\ wl \in [Calls -> CallRecord]
          /\ \A d \in Calls : wl[d].op = call[d].op /\ wl[d].rel = call[d].rel /\ wl[d].at = call[d].at
      BY <1>0, <3>1, <3>2 DEF CallRecord
    <3>4. PICK stage \in {"capturing", "waiting", "tearing"} : call' = [wl EXCEPT ![c].at = stage]
      BY <2>1, <3>1 DEF RunExclusive, Granted
    <3>5. \A d \in Calls : /\ call'[d].op = wl[d].op /\ call'[d].rel = wl[d].rel
                           /\ call'[d].at = IF d = c THEN stage ELSE wl[d].at
      BY <3>3, <3>4 DEF CallRecord
    <3> QED
      BY <3>3, <3>5 DEF KeepsCalls, CallsKept, Removing
  <2>2. CASE call' = [call EXCEPT ![c].at = "registering", ![c].doc = deployment]
    BY <1>2, <2>2 DEF Writing
  <2>3. CASE BeginSwitch(c, call)
    BY <1>4, <2>3
  <2> QED
    BY <1>21, <2>1, <2>2, <2>3 DEF Save
<1> QED
  BY <1>10, <1>11, <1>12, <1>13, <1>14, <1>15, <1>16, <1>17, <1>18, <1>19, <1>20, <1>21 DEF CallStep

(* What becomes of the jobs.                                                *)
LEMMA JobAtKeeps ==
  ASSUME NEW jb \in [Calls -> JobRecord], NEW k \in Calls, NEW stage, stage \notin Midway,
         job' = [jb EXCEPT ![k].at = stage], TasksKept(jb), StagesKept(jb)
  PROVE  KeepsJobs
<1>1. \A j \in Calls : /\ job'[j].act = jb[j].act /\ job'[j].goal = jb[j].goal
                       /\ job'[j].restore = jb[j].restore
                       /\ job'[j].at = jb[j].at \/ job'[j].at = stage
  BY DEF JobRecord
<1>2. KeepsTasks
  BY <1>1, Zenon DEF KeepsTasks, TasksKept
<1>3. StagesKept(job')
  BY <1>1, Zenon DEF StagesKept
<1> QED
  BY <1>2, <1>3 DEF KeepsJobs

LEMMA TickKeeps ==
  ASSUME NEW jb \in [Calls -> JobRecord], NEW q \in Seq(Calls), Tick(q, jb),
         TasksKept(jb), StagesKept(jb)
  PROVE  KeepsJobs
<1>1. CASE job' = jb
  BY <1>1, Zenon DEF KeepsJobs, KeepsTasks
<1>2. CASE q # <<>> /\ job' = [jb EXCEPT ![Head(q)].at = "starting"]
  <2>1. PICK h \in Calls : h = Head(q)
    BY <1>2, HeadTailProperties
  <2>2. "starting" \notin Midway
    BY DEF Midway
  <2> QED
    BY <1>2, <2>1, <2>2, JobAtKeeps
<1> QED
  BY <1>1, <1>2 DEF Tick

LEMMA LeaveKeeps ==
  ASSUME LockInv, NEW jb \in [Calls -> JobRecord], LeaveLock(jb), TasksKept(jb), StagesKept(jb)
  PROVE  KeepsJobs
<1>1. CASE job' = jb
  BY <1>1, Zenon DEF KeepsJobs, KeepsTasks
<1>2. CASE Tick(queue, jb)
  BY <1>2, TickKeeps DEF LockInv, LockTypes
<1> QED
  BY <1>1, <1>2 DEF LeaveLock

LEMMA TasksNow == TasksKept(job) /\ StagesKept(job)
  BY DEF TasksKept, StagesKept

LEMMA JobEndsKeeps ==
  ASSUME LockInv, NEW j \in Calls, NEW outcome \in {"completed", "failed"}, JobEnds(j, outcome)
  PROVE  KeepsCalls /\ KeepsJobs
<1>1. PICK jb : jb = [job EXCEPT ![j].at = outcome, ![j].doc = Absent]
  OBVIOUS
<1>2. /\ jb \in [Calls -> JobRecord]
      /\ \A k \in Calls : /\ jb[k].act = job[k].act /\ jb[k].goal = job[k].goal
                          /\ jb[k].restore = job[k].restore
                          /\ jb[k].at = job[k].at \/ jb[k].at = outcome
  <2>1. outcome \in JobStages
    BY DEF JobStages
  <2>2. job \in [Calls -> JobRecord]
    BY DEF LockInv, LockTypes
  <2>3. jb \in [Calls -> JobRecord]
    BY <1>1, <2>1, <2>2, Constants DEF JobRecord
  <2> QED
    BY <1>1, <2>2, <2>3 DEF JobRecord
<1>3. TasksKept(jb)
  BY <1>2, Zenon DEF TasksKept
<1>4. StagesKept(jb)
  BY <1>2 DEF StagesKept, Midway
<1>5. LeaveLock(jb)
  BY <1>1 DEF JobEnds
<1> QED
  BY <1>2, <1>3, <1>4, <1>5, LeaveKeeps, HandedKeeps DEF JobEnds

LEMMA SettleKeeps ==
  ASSUME LockInv, NEW j \in Calls, NEW status, NEW stage \in {"reporting", "failing"},
         Settle(j, status, stage)
  PROVE  KeepsCalls /\ KeepsJobs
<1>1. \A k \in Calls : /\ job'[k].act = job[k].act /\ job'[k].goal = job[k].goal
                       /\ job'[k].restore = job[k].restore
                       /\ job'[k].at = job[k].at \/ job'[k].at = stage
  BY DEF Settle, LockInv, LockTypes, JobRecord
<1>2. KeepsTasks
  BY <1>1, Zenon DEF KeepsTasks, TasksKept
<1>3. StagesKept(job')
  BY <1>1 DEF StagesKept, Midway
<1> QED
  BY <1>2, <1>3, SameCalls DEF KeepsJobs, Settle

(* Also for a job that goes on, whatever its stage. *)
LEMMA ProceedKeeps ==
  ASSUME LockInv, NEW j \in Calls, NEW stage, Proceed(j, stage)
  PROVE  /\ KeepsCalls /\ KeepsTasks /\ job'[j].at = stage
         /\ \A k \in Calls \ {j} : job'[k] = job[k]
<1>1. /\ \A k \in Calls : /\ job'[k].act = job[k].act /\ job'[k].goal = job[k].goal
                          /\ job'[k].restore = job[k].restore
      /\ job'[j].at = stage /\ \A k \in Calls \ {j} : job'[k] = job[k]
  BY DEF Proceed, LockInv, LockTypes, JobRecord
<1>2. KeepsTasks
  BY <1>1, Zenon DEF KeepsTasks, TasksKept
<1> QED
  BY <1>1, <1>2, SameCalls DEF Proceed

LEMMA DispatchKeeps ==
  ASSUME NEW jb \in [Calls -> JobRecord], NEW q \in Seq(Calls), Dispatch(q, jb),
         TasksKept(jb), StagesKept(jb)
  PROVE  KeepsJobs
<1>1. CASE job' = jb
  BY <1>1, Zenon DEF KeepsJobs, KeepsTasks
<1>2. CASE Tick(q, jb)
  BY <1>2, TickKeeps
<1> QED
  BY <1>1, <1>2 DEF Dispatch

LEMMA DiscardKeeps ==
  ASSUME LockInv, NEW c \in Calls, DiscardJobs(c)
  PROVE  KeepsJobs
<1>1. \A j \in Calls :
        \/ job'[j] = [job[j] EXCEPT !.at = "cancelled"]
        \/ job'[j] = [job[j] EXCEPT !.flagged = TRUE]
        \/ job'[j] = job[j]
  BY Zenon DEF DiscardJobs
<1>2. \A r \in JobRecord : /\ [r EXCEPT !.at = "cancelled"].act = r.act
                           /\ [r EXCEPT !.at = "cancelled"].goal = r.goal
                           /\ [r EXCEPT !.at = "cancelled"].restore = r.restore
                           /\ [r EXCEPT !.at = "cancelled"].at \notin Midway
                           /\ [r EXCEPT !.flagged = TRUE].act = r.act
                           /\ [r EXCEPT !.flagged = TRUE].goal = r.goal
                           /\ [r EXCEPT !.flagged = TRUE].restore = r.restore
                           /\ [r EXCEPT !.flagged = TRUE].at = r.at
  BY DEF JobRecord, Midway
<1>3. \A j \in Calls : job[j] \in JobRecord
  BY DEF LockInv, LockTypes
<1>4. \A j \in Calls : /\ job'[j].act = job[j].act /\ job'[j].goal = job[j].goal
                       /\ job'[j].restore = job[j].restore
                       /\ job'[j].at \in Midway => job'[j].at = job[j].at
  BY <1>1, <1>2, <1>3, Zenon
<1>5. KeepsTasks
  BY <1>4, Zenon DEF KeepsTasks, TasksKept
<1> QED
  BY <1>4, <1>5, Zenon DEF KeepsJobs, StagesKept

LEMMA CallStepJobs ==
  ASSUME LockInv, NEW c \in Calls, CallStep(c) \/ CallWriteFails(c)
  PROVE  KeepsJobs \/ Launch(c)
<1>0. job \in [Calls -> JobRecord] /\ TasksKept(job) /\ StagesKept(job)
  BY TasksNow DEF LockInv, LockTypes
<1>1. ASSUME NEW outcome, LeaveDelete(c, outcome)
      PROVE  KeepsJobs
  BY <1>0, <1>1, LeaveKeeps, SameJobs DEF LeaveDelete
<1>2. CASE DiscardJobs(c)
  BY <1>2, DiscardKeeps
<1>3. CASE CaptureSnapshot(c)
  BY <1>0, <1>3, LeaveKeeps DEF CaptureSnapshot
<1>4. CASE Teardown(c)
  BY <1>1, <1>4, SameJobs DEF Teardown
<1>5. CASE RemoveAppData(c)
  BY <1>1, <1>5 DEF RemoveAppData
<1>6. CASE UNCHANGED job
  BY <1>6, SameJobs
<1>7. \/ UNCHANGED job
      \/ DiscardJobs(c) \/ CaptureSnapshot(c) \/ Teardown(c) \/ RemoveAppData(c) \/ Launch(c)
  BY DEF CallStep, CallWriteFails, Stage, Save, Register, DemoteRelease, ActivateRelease,
         RecordRelease, SwitchPointer, SyncVersion, Close, Unlist, RemoveStorage
<1> QED
  BY <1>2, <1>3, <1>4, <1>5, <1>6, <1>7

(* The job of a call bears what the call was asked.                         *)
LEMMA LaunchJobs ==
  ASSUME LockInv, NEW c \in Calls, Launch(c)
  PROVE  /\ \A j \in Calls \ {c} : /\ job'[j].act = job[j].act /\ job'[j].goal = job[j].goal
                                   /\ job'[j].restore = job[j].restore
         /\ \A j \in Calls : job'[j].at \in Midway => j # c /\ job'[j].at = job[j].at
         /\ job'[c].goal = call[c].rel
         /\ job'[c].act = "rollback" => call[c].op = "rollback"
<1>1. PICK jb : jb = [job EXCEPT ![c] = JobOf(c)]
  OBVIOUS
<1>2. PICK q : q = Append(queue, c)
  OBVIOUS
<1>3. Dispatch(q, jb)
  BY <1>1, <1>2 DEF Launch
<1>4. job \in [Calls -> JobRecord] /\ queue \in Seq(Calls) /\ JobOf(c) \in JobRecord
      /\ JobOf(c).at = "queued"
  BY JobOfType DEF LockInv, LockTypes
<1>5. /\ jb \in [Calls -> JobRecord] /\ jb[c] = JobOf(c)
      /\ \A j \in Calls \ {c} : jb[j] = job[j]
  BY <1>1, <1>4
<1>6. \/ job' = jb
      \/ \E h \in Calls : job' = [jb EXCEPT ![h].at = "starting"]
  <2>1. q \in Seq(Calls) /\ q # <<>>
    BY <1>2, <1>4, AppendProperties
  <2>2. Head(q) \in Calls
    BY <2>1, HeadTailProperties
  <2> QED
    BY <1>3, <2>2 DEF Dispatch, Tick
<1>7. \A j \in Calls : /\ job'[j].act = jb[j].act /\ job'[j].goal = jb[j].goal
                       /\ job'[j].restore = jb[j].restore
                       /\ job'[j].at \in {jb[j].at, "starting"}
  BY <1>5, <1>6 DEF JobRecord
<1>8. \A j \in Calls \ {c} : /\ job'[j].act = job[j].act /\ job'[j].goal = job[j].goal
                             /\ job'[j].restore = job[j].restore
  BY <1>5, <1>7, Zenon
<1>9. \A j \in Calls : job'[j].at \in Midway => j # c /\ job'[j].at = job[j].at
  BY <1>4, <1>5, <1>7 DEF Midway
<1>10. JobOf(c).goal = call[c].rel /\ (JobOf(c).act = "rollback" => call[c].op = "rollback")
  BY DEF JobOf
<1>11. job'[c].goal = call[c].rel /\ (job'[c].act = "rollback" => call[c].op = "rollback")
  BY <1>5, <1>7, <1>10
<1> QED
  BY <1>8, <1>9, <1>11, Zenon

LEMMA CrashKeeps ==
  ASSUME LockInv, Crash
  PROVE  KeepsCalls /\ KeepsJobs
<1>0. PICK resumed : 
        /\ call' = [c \in Calls |-> IF call[c].at \in Settled THEN call[c] ELSE Ended(call, c, "lost")[c]]
        /\ job' = [j \in Calls |->
             IF job[j].at \in Finished \cup {"queued"} THEN job[j]
             ELSE [job[j] EXCEPT !.at = IF j \in resumed THEN "queued" ELSE "failed", !.doc = Absent]]
  BY DEF Crash
<1>1. /\ \A c \in Calls : call'[c] = call[c] \/ call'[c] = Ended(call, c, "lost")[c]
      /\ \A j \in Calls : \/ job'[j] = job[j]
                          \/ \E s \in {"queued", "failed"} : job'[j] = [job[j] EXCEPT !.at = s, !.doc = Absent]
  <2>1. \A c \in Calls : call'[c] = call[c] \/ call'[c] = Ended(call, c, "lost")[c]
    BY <1>0, Zenon
  <2>2. ASSUME NEW j \in Calls, job'[j] # job[j]
        PROVE  \E s \in {"queued", "failed"} : job'[j] = [job[j] EXCEPT !.at = s, !.doc = Absent]
    <3>1. job'[j] = [job[j] EXCEPT !.at = IF j \in resumed THEN "queued" ELSE "failed", !.doc = Absent]
      BY <1>0, <2>2, Zenon
    <3> QED
      BY <3>1
  <2> QED
    BY <2>1, <2>2, Zenon
<1>2. \A c \in Calls : /\ Ended(call, c, "lost")[c].op = call[c].op
                       /\ Ended(call, c, "lost")[c].rel = call[c].rel
                       /\ Ended(call, c, "lost")[c].at \notin Removing
  BY EndedCall DEF LockInv, LockTypes, CallStages, Removing
<1>3. KeepsCalls
  BY <1>1, <1>2 DEF KeepsCalls, CallsKept
<1>4. \A j \in Calls : job[j] \in JobRecord
  BY DEF LockInv, LockTypes
<1>5. \A r \in JobRecord : \A s \in {"queued", "failed"} : \A q :
        q = [r EXCEPT !.at = s, !.doc = Absent] =>
          q.act = r.act /\ q.goal = r.goal /\ q.restore = r.restore /\ q.at \notin Midway
  BY DEF JobRecord, Midway
<1>6. \A j \in Calls : /\ job'[j].act = job[j].act /\ job'[j].goal = job[j].goal
                       /\ job'[j].restore = job[j].restore
                       /\ job'[j].at \in Midway => job'[j].at = job[j].at
  <2> TAKE j \in Calls
  <2>1. CASE job'[j] = job[j]
    BY <2>1, Zenon
  <2>2. ASSUME NEW s \in {"queued", "failed"}, job'[j] = [job[j] EXCEPT !.at = s, !.doc = Absent]
        PROVE  /\ job'[j].act = job[j].act /\ job'[j].goal = job[j].goal
               /\ job'[j].restore = job[j].restore /\ job'[j].at \notin Midway
    <3>1. PICK r \in JobRecord : r = job[j]
      BY <1>4
    <3>2. PICK q : q = job'[j]
      OBVIOUS
    <3>3. q = [r EXCEPT !.at = s, !.doc = Absent]
      BY <2>2, <3>1, <3>2
    <3>4. q.act = r.act /\ q.goal = r.goal /\ q.restore = r.restore /\ q.at \notin Midway
      BY <1>5, <3>3
    <3> QED
      BY <3>1, <3>2, <3>4
  <2> QED
    BY <1>1, <2>1, <2>2, Zenon
<1>7. KeepsTasks
  BY <1>6, Zenon DEF KeepsTasks, TasksKept
<1> QED
  BY <1>3, <1>6, <1>7, Zenon DEF KeepsJobs, StagesKept

LEMMA RecoverKeeps ==
  ASSUME LockInv, Recover
  PROVE  KeepsCalls /\ KeepsJobs
<1>1. PICK q \in [1..Cardinality(Pending) -> Pending] : Dispatch(q, job)
  BY DEF Recover
<1>2. q \in Seq(Calls)
  <2>1. Pending \subseteq Calls
    BY DEF Pending
  <2>2. IsFiniteSet(Pending) /\ Cardinality(Pending) \in Nat
    BY <2>1, LifecycleAssumption, FS_Subset, FS_CardinalityType
  <2> QED
    BY <2>1, <2>2, IsASeq
<1>3. job \in [Calls -> JobRecord]
  BY DEF LockInv, LockTypes
<1>4. KeepsJobs
  BY <1>1, <1>2, <1>3, TasksNow, DispatchKeeps
<1> QED
  BY <1>4, SameCalls DEF Recover

LEMMA TickLaterKeeps ==
  ASSUME LockInv, TickLater
  PROVE  KeepsCalls /\ KeepsJobs
  BY TickKeeps, TasksNow, SameCalls DEF TickLater, LockInv, LockTypes

-----------------------------------------------------------------------------
(* GoalInv is kept by every step. *)
LEMMA CallingOpens ==
  ASSUME LockInv, NEW c \in Calls, Calling(c)
  PROVE  /\ \A d \in Calls \ {c} : call'[d] = call[d]
         /\ \E r \in Requests : r.op = call'[c].op
         /\ call'[c].at \notin Removing
         /\ call'[c].op = "rollback" => call'[c].rel \in Releases
         /\ UNCHANGED <<runtime, snapshot, host, job>>
<1>0. /\ LockTypes /\ Calls \subseteq Rel /\ NoRelease \in Rel /\ Releases \subseteq Rel
      /\ {"staging", "launching", "discarding", "idle"} \subseteq CallStages
      /\ "staging" \notin Removing /\ "launching" \notin Removing /\ "discarding" \notin Removing
  BY Constants DEF LockInv, CallStages, Writing, Removing
<1>1. ASSUME NEW op \in Operations \ {"rollback"}, NEW w \in SUBSET Wishes,
             NEW stage \in {"staging", "launching", "discarding"}, NEW rel \in Rel,
             Request(c, op, w), call' = Opened(c, op, w, stage, rel),
             UNCHANGED <<disk, host, job>>
      PROVE  /\ \A d \in Calls \ {c} : call'[d] = call[d]
             /\ \E r \in Requests : r.op = call'[c].op
             /\ call'[c].at \notin Removing
             /\ call'[c].op = "rollback" => call'[c].rel \in Releases
             /\ UNCHANGED <<runtime, snapshot, host, job>>
  <2>1. /\ call'[c].at = stage /\ call'[c].op = op
        /\ \A d \in Calls \ {c} : call'[d] = call[d]
    <3> PICK cl : cl = Opened(c, op, w, stage, rel)
      OBVIOUS
    <3> stage \in CallStages /\ op \in Operations
      BY <1>0
    <3> /\ cl[c].at = stage /\ cl[c].op = op
        /\ \A d \in Calls \ {c} : cl[d] = call[d]
      BY <1>0, OpenedIs
    <3> QED
      BY <1>1
  <2>2. \E r \in Requests : r.op = op
    BY <1>1 DEF Request
  <2> QED
    BY <1>0, <1>1, <2>1, <2>2 DEF disk
<1>2. CASE CreateFromDraft(c)
  BY <1>0, <1>1, <1>2 DEF CreateFromDraft, Operations
<1>3. CASE Promote(c)
  BY <1>0, <1>1, <1>3 DEF Promote, Operations
<1>4. CASE ExecuteAction(c)
  BY <1>0, <1>1, <1>4 DEF ExecuteAction, Operations
<1>5. CASE DeleteDeployment(c)
  BY <1>0, <1>1, <1>5 DEF DeleteDeployment, Operations, Uninstalls
<1>6. CASE Rollback(c)
  <2>1. PICK w \in SUBSET Wishes, r \in Releases :
          /\ Request(c, "rollback", w)
          /\ BeginSwitch(c, Opened(c, "rollback", w, "idle", r))
          /\ UNCHANGED <<disk, host, job>>
    BY <1>6 DEF Rollback
  <2>2. PICK cl : cl = Opened(c, "rollback", w, "idle", r)
    OBVIOUS
  <2>3. /\ cl \in [Calls -> CallRecord] /\ cl[c].op = "rollback" /\ cl[c].rel = r
        /\ \A d \in Calls \ {c} : cl[d] = call[d]
    <3> "rollback" \in Operations
      BY DEF Operations
    <3> QED
      BY <1>0, <2>2, OpenedIs
  <2>4. /\ call'[c].at \in {"failed", "demoting", "activating"}
        /\ call'[c].op = "rollback" /\ call'[c].rel = r
        /\ \A d \in Calls \ {c} : call'[d] = call[d]
    BY <2>1, <2>2, <2>3, SwitchBegins DEF LockInv
  <2>5. \E q \in Requests : q.op = "rollback"
    BY <2>1 DEF Request
  <2> QED
    BY <2>1, <2>4, <2>5 DEF disk, Removing
<1> QED
  BY <1>2, <1>3, <1>4, <1>5, <1>6 DEF Calling

LEMMA CallingGoals ==
  ASSUME LockInv, GoalInv, NEW c \in Calls, Calling(c)
  PROVE  GoalInv'
<1>1. /\ \A d \in Calls \ {c} : call'[d] = call[d]
      /\ call'[c].op = "rollback" => call'[c].rel \in Releases
      /\ UNCHANGED job
  BY CallingOpens
<1>2. \A d \in Calls : call[d].op = "rollback" => call[d].rel \in Releases
  BY Zenon DEF GoalInv
<1>3. \A d \in Calls : call'[d].op = "rollback" => call'[d].rel \in Releases
  BY <1>1, <1>2
<1> QED
  BY <1>1, <1>3, Zenon DEF GoalInv, Releases

LEMMA LaunchGoals ==
  ASSUME LockInv, GoalInv, NEW c \in Calls, Launch(c)
  PROVE  GoalInv'
<1>1. /\ \A j \in Calls \ {c} : /\ job'[j].act = job[j].act /\ job'[j].goal = job[j].goal
                                /\ job'[j].restore = job[j].restore
      /\ \A j \in Calls : job'[j].at \in Midway => j # c /\ job'[j].at = job[j].at
      /\ job'[c].goal = call[c].rel
      /\ job'[c].act = "rollback" => call[c].op = "rollback"
  BY LaunchJobs
<1>2. KeepsAsked
  BY CallStepKeeps DEF CallStep
<1>3. ASSUME NEW j \in Calls
      PROVE  call'[j].op = "rollback" => call'[j].rel \in Releases
  <2>1. call[j].op = "rollback" => call[j].rel \in Releases
    BY Zenon DEF GoalInv
  <2> QED
    BY <1>2, <2>1 DEF KeepsAsked
<1>4. ASSUME NEW j \in Calls
      PROVE  job'[j].act = "rollback" => job'[j].goal \in Releases
  <2>1. job[j].act = "rollback" => job[j].goal \in Releases
    BY Zenon DEF GoalInv
  <2>2. call[c].op = "rollback" => call[c].rel \in Releases
    BY Zenon DEF GoalInv
  <2> QED
    BY <1>1, <2>1, <2>2
<1>5. ASSUME NEW j \in Calls, job'[j].at \in {"quieting", "restoring"}
      PROVE  job'[j].act = "rollback" /\ job'[j].restore
  <2>1. job'[j].at \in Midway
    BY <1>5 DEF Midway
  <2>2. j # c /\ job[j].at \in {"quieting", "restoring"}
    BY <1>1, <1>5, <2>1
  <2>3. job[j].act = "rollback" /\ job[j].restore
    BY <2>2, Zenon DEF GoalInv
  <2> QED
    BY <1>1, <2>2, <2>3, Zenon
<1> QED
  BY <1>3, <1>4, <1>5, Zenon DEF GoalInv, Releases

LEMMA CallStepGoals ==
  ASSUME LockInv, GoalInv, NEW c \in Calls, CallStep(c) \/ CallWriteFails(c)
  PROVE  GoalInv'
<1>1. KeepsAsked /\ (KeepsJobs \/ Launch(c))
  BY CallStepKeeps, CallStepJobs
<1> QED
  BY <1>1, LaunchGoals, JobsKeepGoals

LEMMA ProceedGoals ==
  ASSUME LockInv, GoalInv, NEW j \in Calls, NEW stage, Proceed(j, stage),
         stage \in {"quieting", "restoring"} =>
           job[j].at \in {"quieting", "restoring"} \/ (job[j].act = "rollback" /\ job[j].restore)
  PROVE  GoalInv'
<1>1. /\ KeepsCalls /\ KeepsTasks /\ job'[j].at = stage
      /\ \A k \in Calls \ {j} : job'[k] = job[k]
  BY ProceedKeeps
<1>2. RestoresAsAsked
  <2> SUFFICES ASSUME NEW k \in Calls, job'[k].at \in {"quieting", "restoring"}
               PROVE  job[k].at \in {"quieting", "restoring"} \/ (job[k].act = "rollback" /\ job[k].restore)
    BY Zenon DEF RestoresAsAsked
  <2>1. CASE k = j
    BY <1>1, <2>1, Zenon
  <2>2. CASE k # j
    <3>1. job'[k] = job[k]
      BY <1>1, <2>2
    <3> QED
      BY <3>1, Zenon
  <2> QED
    BY <2>1, <2>2
<1> QED
  BY <1>1, <1>2, AsksAlike, GoalKept

LEMMA JobStepGoals ==
  ASSUME LockInv, GoalInv, NEW j \in Calls, JobStep(j) \/ JobWriteFails(j)
  PROVE  GoalInv'
<1>1. ASSUME NEW outcome \in {"completed", "failed"}, JobEnds(j, outcome)
      PROVE  GoalInv'
  BY <1>1, JobEndsKeeps, AsksAlike, JobsKeepGoals
<1>2. ASSUME NEW status, NEW stage \in {"reporting", "failing"}, Settle(j, status, stage)
      PROVE  GoalInv'
  BY <1>2, SettleKeeps, AsksAlike, JobsKeepGoals
<1>3. ASSUME NEW stage \in {"stopping", "preparing", "upping", "pulling"}, Proceed(j, stage)
      PROVE  GoalInv'
  BY <1>3, ProceedGoals
<1>4. CASE StartJob(j)
  <2>1. CASE Proceed(j, "quieting") /\ job[j].act = "rollback" /\ job[j].restore
    BY <2>1, ProceedGoals, Zenon
  <2>2. \/ JobEnds(j, "completed") \/ JobEnds(j, "failed")
        \/ Proceed(j, "stopping") \/ Proceed(j, "preparing")
        \/ Proceed(j, "quieting") /\ job[j].act = "rollback" /\ job[j].restore
    <3>1. CASE job[j].act = "rollback" /\ job[j].restore
      BY <1>4, <3>1 DEF StartJob
    <3>2. CASE ~(job[j].act = "rollback" /\ job[j].restore)
      BY <1>4, <3>2 DEF StartJob
    <3> QED
      BY <3>1, <3>2
  <2> QED
    BY <1>1, <1>3, <2>1, <2>2
<1>5. CASE StopApp(j)
  BY <1>2, <1>5 DEF StopApp, Succeeds, Throws
<1>6. CASE Quiet(j)
  <2>1. CASE Proceed(j, "restoring")
    BY <1>6, <2>1, ProceedGoals DEF Quiet
  <2>2. \/ Settle(j, "error", "failing") \/ Proceed(j, "restoring") \/ Proceed(j, "preparing")
    BY <1>6 DEF Quiet, Throws
  <2> QED
    BY <1>2, <1>3, <2>1, <2>2
<1>7. CASE Restore(j)
  BY <1>2, <1>3, <1>7 DEF Restore, Throws
<1>8. CASE Prepare(j)
  <2>1. CASE /\ job' = [job EXCEPT ![j].rel = deployment.current,
                              ![j].at = IF job[j].act = "restart" THEN "upping" ELSE "pulling"]
             /\ UNCHANGED <<memory, call, lock>>
    <3>0. PICK s \in {"upping", "pulling"} : s = IF job[j].act = "restart" THEN "upping" ELSE "pulling"
      OBVIOUS
    <3>1. /\ \A k \in Calls : /\ job'[k].act = job[k].act /\ job'[k].goal = job[k].goal
                              /\ job'[k].restore = job[k].restore
          /\ job'[j].at = s /\ \A k \in Calls \ {j} : job'[k] = job[k]
      BY <2>1, <3>0 DEF LockInv, LockTypes, JobRecord
    <3>2. KeepsTasks
      BY <3>1, Zenon DEF KeepsTasks, TasksKept
    <3>3. RestoresAsAsked
      <4> SUFFICES ASSUME NEW k \in Calls, job'[k].at \in {"quieting", "restoring"}
                   PROVE  job[k].at \in {"quieting", "restoring"}
        BY Zenon DEF RestoresAsAsked
      <4> QED
        BY <3>1
    <3> QED
      BY <2>1, <3>2, <3>3, SameCalls, AsksAlike, GoalKept
  <2> QED
    BY <1>2, <1>8, <2>1 DEF Prepare, Throws
<1>9. CASE Pull(j)
  BY <1>2, <1>3, <1>9 DEF Pull, Throws
<1>10. CASE Up(j)
  BY <1>2, <1>10 DEF Up, Throws, Succeeds
<1>11. CASE Report(j) \/ ReportFailure(j)
  BY <1>1, <1>11 DEF Report, ReportFailure
<1>12. CASE JobWriteFails(j)
  BY <1>1, <1>2, <1>12 DEF JobWriteFails, Throws
<1> QED
  BY <1>4, <1>5, <1>6, <1>7, <1>8, <1>9, <1>10, <1>11, <1>12 DEF JobStep

LEMMA InitGoals == Init => GoalInv
<1> SUFFICES ASSUME Init, NEW c \in Calls
             PROVE  /\ call[c].op = "rollback" => call[c].rel \in Releases
                    /\ job[c].act = "rollback" => job[c].goal \in Releases
                    /\ job[c].at \in {"quieting", "restoring"} => job[c].act = "rollback" /\ job[c].restore
  BY DEF GoalInv
<1>1. call[c] = NoCall /\ job[c] = NoJob
  BY DEF Init
<1>2. call[c].op = "none" /\ job[c].act = "none" /\ job[c].at = "none"
  BY <1>1 DEF NoCall, NoJob
<1> QED
  BY <1>2

-----------------------------------------------------------------------------
(* The lock. *)
IInv == LockInv /\ GoalInv

LEMMA InitIInv == Init => IInv
  BY InitLock, InitGoals, Zenon DEF IInv

LEMMA StepLock ==
  ASSUME IInv, Next
  PROVE  Typed' /\ LockStep
<1> LockInv /\ GoalInv
  BY Zenon DEF IInv
<1>1. ASSUME NEW c \in Calls, Calling(c) PROVE Typed' /\ LockStep
  BY <1>1, CreateFromDraftStep, PromoteStep, RollbackStep, ExecuteActionStep, DeleteDeploymentStep
  DEF Calling
<1>2. ASSUME NEW c \in Calls, CallStep(c) PROVE Typed' /\ LockStep
  BY <1>2, StageStep, SaveStep, RegisterStep, CaptureSnapshotStep, DemoteReleaseStep,
     ActivateReleaseStep, RecordReleaseStep, SwitchPointerStep, SyncVersionStep, LaunchStep,
     CloseStep, DiscardJobsStep, TeardownStep, UnlistStep, RemoveStorageStep, RemoveAppDataStep
  DEF CallStep
<1>3. ASSUME NEW j \in Calls, JobStep(j) PROVE Typed' /\ LockStep
  BY <1>3, StartJobStep, StopAppStep, QuietStep, RestoreStep, PrepareStep, PullStep, UpStep,
     ReportStep
  DEF JobStep
<1> QED
  BY <1>1, <1>2, <1>3, CallWriteFailsStep, JobWriteFailsStep, TickLaterStep, CrashStep, RecoverStep
  DEF Next

LEMMA StepGoals ==
  ASSUME IInv, Next
  PROVE  GoalInv'
<1> LockInv /\ GoalInv
  BY Zenon DEF IInv
<1>1. CASE TickLater \/ Crash \/ Recover
  BY <1>1, TickLaterKeeps, CrashKeeps, RecoverKeeps, AsksAlike, JobsKeepGoals
<1> QED
  BY <1>1, CallingGoals, CallStepGoals, JobStepGoals DEF Next

LEMMA StutterLock == ASSUME IInv, UNCHANGED vars PROVE IInv' /\ LockMove
<1> LockInv /\ GoalInv
  BY Zenon DEF IInv
<1>1. /\ UNCHANGED <<listed, deployment, release, meta, pointer, stored, staged, runtime, snapshot,
                     containers, data>>
      /\ UNCHANGED <<call, job, holder, waiting, queue, issued, cold, crashes, faults>>
  BY DEF vars, memory, disk, records, host, lock, table, bounds
<1>2. RecordTypes'
  BY <1>1 DEF LockInv, RecordTypes
<1>3. LockTypes'
  BY <1>1 DEF LockInv, LockTypes
<1>4. HolderInv' /\ LineInv' /\ QueueInv' /\ StageInv'
  BY <1>1 DEF LockInv, HolderInv, Holds, LineInv, QueueInv, StageInv, RightOp
<1>5. GoalInv'
  BY <1>1, SameCalls, SameJobs, AsksAlike, JobsKeepGoals
<1> QED
  BY <1>1, <1>2, <1>3, <1>4, <1>5, Zenon DEF IInv, LockInv, LockMove

LEMMA NextIInv ==
  ASSUME IInv, [Next]_vars
  PROVE  IInv' /\ LockMove
<1>1. CASE Next
  <2>1. Typed' /\ LockStep
    BY <1>1, StepLock
  <2>2. GoalInv'
    BY <1>1, StepGoals
  <2> QED
    BY <2>1, <2>2, Zenon DEF IInv, LockInv, Typed, LockStep, OrderInv
<1>2. CASE UNCHANGED vars
  BY <1>2, StutterLock
<1> QED
  BY <1>1, <1>2

(* Whatever calls, restarts and failed writes come, who has the lifecycle   *)
(* lock is at a stage whose code runs under it and everybody else is not;   *)
(* the line and the queue hold exactly the calls and jobs that wait; and a  *)
(* call starts at most one job (runExclusive, tick, discardDeploymentJobs). *)
THEOREM LockInvHolds == Spec => []IInv
  BY InitIInv, NextIInv, PTL DEF Spec

(* One deployment's calls and jobs use its lock as the job service hands it *)
(* out (runExclusive, acquire, release and tick in jobs.ts): what JobQueue  *)
(* has been proved to implement.                                            *)
THEOREM SharesLockHolds == Spec => SharesLock
<1> DEFINE own  == [d \in {"this"} |-> IF holder = <<>> THEN {} ELSE {holder}]
           line == [d \in {"this"} |-> waiting]
<1>1. Init => Lock!Init
  BY DEF Init, Lock!Init
<1>2. IInv /\ IInv' /\ LockMove => [Lock!Next]_(Lock!vars)
  <2> SUFFICES ASSUME IInv, IInv', LockMove
               PROVE  Lock!Next \/ UNCHANGED <<own, line>>
    BY DEF Lock!vars
  <2>0. /\ holder \in {<<>>} \cup ({"call", "job"} \X Calls)
        /\ holder' \in {<<>>} \cup ({"call", "job"} \X Calls)
        /\ holder = <<>> => waiting = <<>>
    BY DEF IInv, LockInv, LockTypes, LineInv
  <2>1. CASE Freed
    BY <2>1 DEF Freed, Lock!Next, Lock!Restart
  <2>2. CASE UNCHANGED <<holder, waiting>>
    BY <2>2
  <2>3. own' \in [{"this"} -> SUBSET Lock!Owners] /\ DOMAIN line' = {"this"}
    BY <2>0 DEF Lock!Owners
  <2>4. SUFFICES ASSUME Taken \/ Joined \/ Left
                 PROVE  Lock!Take("this") \/ Lock!Join("this") \/ Lock!Leave("this")
    BY <2>1, <2>2, <2>3 DEF LockMove, Lock!Next, Lock!Work
  <2>5. CASE Taken
    BY <2>0, <2>5 DEF Taken, Lock!Take, Lock!Owners
  <2>6. CASE Joined
    BY <2>0, <2>6 DEF Joined, Lock!Join
  <2>7. CASE Left
    BY <2>0, <2>7 DEF Left, Lock!Leave
  <2> QED
    BY <2>4, <2>5, <2>6, <2>7
<1>3. IInv /\ [Next]_vars => LockMove
  BY NextIInv
<1> QED
  BY <1>1, <1>2, <1>3, LockInvHolds, PTL DEF Spec, SharesLock, Lock!Spec

(* The variables have the types their declarations say, and the lock is     *)
(* held by a job exactly while it works.                                    *)
THEOREM TypesHold == Spec => []TypeOK
<1>1. IInv => TypeOK
  <2> SUFFICES ASSUME IInv PROVE TypeOK
    OBVIOUS
  <2>1. \A j \in Calls : job[j].at \in Working <=> job[j].at \notin Finished \cup {"queued"}
    BY DEF IInv, LockInv, LockTypes, JobRecord, JobStages, Working, Finished
  <2> QED
    BY <2>1 DEF IInv, LockInv, RecordTypes, LockTypes, HolderInv, LineInv, TypeOK, Rel
<1> QED
  BY <1>1, LockInvHolds, PTL

-----------------------------------------------------------------------------
(* DataInv is kept by every step as long as nobody forces an uninstall.     *)
LEMMA TearingHolds ==
  ASSUME Unforced, LockInv, AskedInv, NEW c \in Calls, call[c].at \in Tearing
  PROVE  /\ call[c].op = "uninstall" /\ holder = <<"call", c>>
         /\ \A j \in Calls : job[j].at \notin Working
<1>1. call[c].op \in Uninstalls
  BY DEF LockInv, StageInv, RightOp
<1>2. call[c].op # "forceUninstall"
  BY <1>1 DEF AskedInv, Unforced, Uninstalls
<1>3. Holds(c)
  BY <1>1, <1>2 DEF Holds, Uninstalls
<1> QED
  BY <1>1, <1>2, <1>3 DEF LockInv, HolderInv, Uninstalls

LEMMA NobodyTears ==
  ASSUME Unforced, LockInv, AskedInv, NEW j \in Calls, job[j].at \in Working
  PROVE  /\ \A c \in Calls : call[c].at \notin Tearing
         /\ \A k \in Calls \ {j} : job[k].at \notin Working
  BY TearingHolds, WorkingJob

LEMMA AskedKept == ASSUME AskedInv, KeepsAsked PROVE AskedInv'
  BY DEF AskedInv, KeepsAsked

(* Who is past the teardown, and the tasks of the jobs that are midway.     *)
RemovalsKept == \A c \in Calls : call'[c].at \in Removing => call[c].at \in Removing
MidwayKept ==
  \A j \in Calls : job'[j].at \in Midway =>
    /\ job'[j].at = job[j].at /\ job'[j].act = job[j].act
    /\ job'[j].goal = job[j].goal /\ job'[j].restore = job[j].restore

LEMMA JobsMidway == ASSUME KeepsJobs PROVE MidwayKept
  BY Zenon DEF KeepsJobs, KeepsTasks, TasksKept, StagesKept, MidwayKept

LEMMA CallsRemoving == ASSUME KeepsCalls PROVE RemovalsKept
  BY DEF KeepsCalls, CallsKept, RemovalsKept

(* A step that leaves the host and the snapshots alone. *)
LEMMA QuietData ==
  ASSUME DownInv, RestoredInv, RemovalsKept, MidwayKept,
         UNCHANGED <<runtime, snapshot, containers, data>>
  PROVE  DownInv' /\ RestoredInv'
<1>1. \A j \in Calls : job'[j].at = "restoring" => job[j].at = "restoring" /\ job'[j].goal = job[j].goal
  BY DEF MidwayKept, Midway
<1>2. DownInv'
  BY <1>1 DEF DownInv, RemovalsKept, Removing
<1>3. ASSUME NEW j \in Calls, job'[j].at = "restoring"
      PROVE  snapshot'[job'[j].goal] # NoRelease
  <2>1. snapshot[job[j].goal] # NoRelease
    BY <1>1, <1>3, Zenon DEF RestoredInv
  <2> QED
    BY <1>1, <1>3, <2>1
<1>4. ASSUME NEW j \in Calls, job'[j].act = "rollback", job'[j].restore,
             job'[j].at \in {"preparing", "pulling", "upping"}
      PROVE  /\ snapshot'[job'[j].goal] # "missing"
             /\ snapshot'[job'[j].goal] # NoRelease => data' = snapshot'[job'[j].goal]
  <2>1. job'[j].at \in Midway
    BY <1>4 DEF Midway
  <2>2. /\ job'[j].at = job[j].at /\ job'[j].act = job[j].act
        /\ job'[j].goal = job[j].goal /\ job'[j].restore = job[j].restore
    BY <2>1, Zenon DEF MidwayKept
  <2>3. job[j].restore
    BY <1>4, <2>2, Zenon
  <2>4. job[j].act = "rollback" /\ job[j].at \in {"preparing", "pulling", "upping"}
    BY <1>4, <2>2
  <2>5. /\ snapshot[job[j].goal] # "missing"
        /\ snapshot[job[j].goal] # NoRelease => data = snapshot[job[j].goal]
    BY <2>3, <2>4, Zenon DEF RestoredInv
  <2>6. job'[j].goal = job[j].goal
    BY <2>2, Zenon
  <2> QED
    BY <2>5, <2>6
<1> QED
  BY <1>2, <1>3, <1>4, Zenon DEF RestoredInv

(* A step of a call that holds the lock: no job is midway.                  *)
LEMMA IdleData ==
  ASSUME LockInv, MidwayKept, \A j \in Calls : job[j].at \notin Working,
         ~runtime' => containers' = NoRelease,
         \A c \in Calls : call'[c].at \in Removing => containers' = NoRelease
  PROVE  DownInv' /\ RestoredInv'
<1>1. \A j \in Calls : job'[j].at \notin {"restoring", "preparing", "pulling", "upping"}
  BY DEF MidwayKept, Midway, Working
<1>2. DownInv'
  BY <1>1 DEF DownInv, Removing
<1>3. RestoredInv'
  BY <1>1, Zenon DEF RestoredInv
<1> QED
  BY <1>2, <1>3

LEMMA CallingData ==
  ASSUME Unforced, LockInv, DataInv, NEW c \in Calls, Calling(c)
  PROVE  DataInv' /\ UNCHANGED data
<1> AskedInv /\ DownInv /\ RestoredInv
  BY Zenon DEF DataInv
<1>1. /\ \A d \in Calls \ {c} : call'[d] = call[d]
      /\ \E r \in Requests : r.op = call'[c].op
      /\ call'[c].at \notin Removing
      /\ UNCHANGED <<runtime, snapshot, host, job>>
  BY CallingOpens
<1>2. AskedInv'
  BY <1>1 DEF AskedInv
<1>3. RemovalsKept /\ MidwayKept
  BY <1>1, SameJobs, JobsMidway DEF RemovalsKept
<1> QED
  BY <1>1, <1>2, <1>3, QuietData, Zenon DEF host, DataInv

LEMMA LaunchData ==
  ASSUME LockInv, DataInv, NEW c \in Calls, Launch(c)
  PROVE  DataInv' /\ UNCHANGED data
<1> AskedInv /\ DownInv /\ RestoredInv
  BY Zenon DEF DataInv
<1>1. KeepsAsked /\ KeepsCalls
  <2>1. ~Teardown(c)
    BY DEF Launch, Teardown
  <2> QED
    BY <2>1, CallStepKeeps DEF CallStep
<1>2. MidwayKept
  <2>1. /\ \A j \in Calls \ {c} : /\ job'[j].act = job[j].act /\ job'[j].goal = job[j].goal
                                  /\ job'[j].restore = job[j].restore
        /\ \A j \in Calls : job'[j].at \in Midway => j # c /\ job'[j].at = job[j].at
    BY LaunchJobs
  <2> QED
    BY <2>1, Zenon DEF MidwayKept
<1>3. UNCHANGED <<runtime, snapshot, containers, data>>
  BY DEF Launch, disk, host
<1> QED
  BY <1>1, <1>2, <1>3, AskedKept, CallsRemoving, QuietData, Zenon DEF DataInv

(* The steps of a call under the lock: the snapshot is taken, the           *)
(* containers go, then the files, then the data root.                       *)
LEMMA CallStepData ==
  ASSUME Unforced, LockInv, DataInv, NEW c \in Calls, CallStep(c) \/ CallWriteFails(c)
  PROVE  DataInv' /\ (data' = data \/ containers = NoRelease)
<1> AskedInv /\ DownInv /\ RestoredInv
  BY Zenon DEF DataInv
<1>0. KeepsAsked /\ (KeepsCalls \/ Teardown(c)) /\ (KeepsJobs \/ Launch(c))
  BY CallStepKeeps, CallStepJobs
<1>1. AskedInv'
  BY <1>0, AskedKept
<1>2. CASE UNCHANGED <<runtime, snapshot, containers, data>> /\ KeepsCalls /\ KeepsJobs
  BY <1>1, <1>2, CallsRemoving, JobsMidway, QuietData, Zenon DEF DataInv
<1>3. CASE Launch(c)
  BY <1>3, LaunchData
<1>4. CASE CaptureSnapshot(c)
  <2>1. call[c].at = "capturing" /\ UNCHANGED <<runtime, host>>
    BY <1>4 DEF CaptureSnapshot
  <2>2. \A j \in Calls : job[j].at \notin Working
    BY <2>1, WorkingJob DEF Holds
  <2>3. MidwayKept /\ RemovalsKept
    BY <1>0, <1>4, <2>1, JobsMidway, CallsRemoving DEF Launch, Teardown
  <2>4. DownInv' /\ RestoredInv'
    BY <2>1, <2>2, <2>3, IdleData DEF DownInv, RemovalsKept, Removing, host
  <2> QED
    BY <1>1, <2>1, <2>4, Zenon DEF DataInv, host
<1>5. CASE Teardown(c)
  <2>1. call[c].at = "tearing" /\ UNCHANGED <<memory, disk, data>>
    BY <1>5 DEF Teardown
  <2>2. call[c].op = "uninstall" /\ \A j \in Calls : job[j].at \notin Working
    BY <2>1, TearingHolds DEF Tearing
  <2>3. MidwayKept
    BY <1>0, <2>1, JobsMidway DEF Launch
  <2>4. containers' = NoRelease \/ (UNCHANGED containers /\ KeepsCalls)
    <3>1. ASSUME NEW outcome \in {"returned", "failed"}, LeaveDelete(c, outcome)
          PROVE  KeepsCalls
      BY <3>1, LeaveDeleteKeeps
    <3> QED
      BY <1>5, <2>2, <3>1 DEF Teardown, DownInv
  <2>5. /\ ~runtime' => containers' = NoRelease
        /\ \A d \in Calls : call'[d].at \in Removing => containers' = NoRelease
    <3>1. CASE containers' = NoRelease
      BY <3>1
    <3>2. CASE UNCHANGED containers /\ KeepsCalls
      BY <2>1, <3>2, CallsRemoving DEF DownInv, RemovalsKept, Removing, disk
    <3> QED
      BY <2>4, <3>1, <3>2
  <2>6. DownInv' /\ RestoredInv'
    BY <2>2, <2>3, <2>5, IdleData
  <2> QED
    BY <1>1, <2>1, <2>6, Zenon DEF DataInv
<1>6. CASE RemoveStorage(c)
  <2>1. call[c].at = "wiping" /\ UNCHANGED host
    BY <1>6 DEF RemoveStorage
  <2>2. containers = NoRelease /\ \A j \in Calls : job[j].at \notin Working
    BY <2>1, TearingHolds DEF Tearing, DownInv
  <2>3. MidwayKept
    BY <1>0, <2>1, JobsMidway DEF Launch
  <2>4. DownInv' /\ RestoredInv'
    BY <2>1, <2>2, <2>3, IdleData DEF host
  <2> QED
    BY <1>1, <2>1, <2>4, Zenon DEF DataInv, host
<1>7. CASE RemoveAppData(c)
  <2>1. call[c].at = "reclaiming" /\ UNCHANGED <<containers, disk>>
    BY <1>7 DEF RemoveAppData
  <2>2. containers = NoRelease /\ \A j \in Calls : job[j].at \notin Working
    BY <2>1, TearingHolds DEF Tearing, DownInv
  <2>3. MidwayKept
    BY <1>0, <2>1, JobsMidway DEF Launch
  <2>4. DownInv' /\ RestoredInv'
    BY <2>1, <2>2, <2>3, IdleData
  <2> QED
    BY <1>1, <2>2, <2>4, Zenon DEF DataInv
<1>8. \/ UNCHANGED <<runtime, snapshot, containers, data>> /\ ~Teardown(c) /\ ~Launch(c)
      \/ Launch(c) \/ CaptureSnapshot(c) \/ Teardown(c) \/ RemoveStorage(c) \/ RemoveAppData(c)
  <2>1. CASE Stage(c) \/ Save(c) \/ Register(c) \/ DemoteRelease(c) \/ ActivateRelease(c)
               \/ RecordRelease(c) \/ SwitchPointer(c) \/ SyncVersion(c) \/ Close(c)
               \/ DiscardJobs(c) \/ Unlist(c) \/ CallWriteFails(c)
    BY <2>1 DEF Stage, Save, Register, DemoteRelease, ActivateRelease, RecordRelease,
         SwitchPointer, SyncVersion, Close, DiscardJobs, Unlist, CallWriteFails, disk, host
  <2> QED
    BY <2>1 DEF CallStep
<1> QED
  BY <1>0, <1>2, <1>3, <1>4, <1>5, <1>6, <1>7, <1>8

(* A job that goes on to the stage s, alone.                                *)
LEMMA WorkerData ==
  ASSUME Unforced, LockInv, DataInv, NEW j \in Calls, job[j].at \in Working, KeepsCalls, KeepsTasks,
         \A k \in Calls \ {j} : job'[k].at \in Midway => job'[k].at = job[k].at,
         ~runtime' => containers' = NoRelease,
         job'[j].at = "restoring" => containers' = NoRelease /\ snapshot'[job[j].goal] # NoRelease,
         job[j].act = "rollback" /\ job[j].restore /\ job'[j].at \in {"preparing", "pulling", "upping"} =>
           /\ snapshot'[job[j].goal] # "missing"
           /\ snapshot'[job[j].goal] # NoRelease => data' = snapshot'[job[j].goal]
  PROVE  DataInv'
<1> AskedInv /\ DownInv /\ RestoredInv
  BY Zenon DEF DataInv
<1>1. AskedInv'
  BY AsksAlike, AskedKept
<1>2. /\ \A c \in Calls : call[c].at \notin Tearing
      /\ \A k \in Calls \ {j} : job[k].at \notin Working
  BY NobodyTears
<1>3. \A c \in Calls : call'[c].at \notin Removing
  BY <1>2, CallsRemoving DEF RemovalsKept, Removing, Tearing
<1>4. \A k \in Calls \ {j} : job'[k].at \notin Midway
  <2>1. Midway \subseteq Working
    BY DEF Midway, Working
  <2> QED
    BY <1>2, <2>1
<1>5. job'[j].act = job[j].act /\ job'[j].goal = job[j].goal /\ job'[j].restore = job[j].restore
  BY Zenon DEF KeepsTasks, TasksKept
<1>6. \A k \in Calls : job'[k].at = "restoring" => containers' = NoRelease
  BY <1>4 DEF Midway
<1>7. DownInv'
  BY <1>3, <1>6 DEF DownInv, Removing
<1>8. ASSUME NEW k \in Calls, job'[k].at = "restoring"
      PROVE  snapshot'[job'[k].goal] # NoRelease
  <2>1. k = j
    BY <1>4, <1>8 DEF Midway
  <2>2. job'[j].goal = job[j].goal
    BY <1>5, Zenon
  <2> QED
    BY <1>8, <2>1, <2>2
<1>9. ASSUME NEW k \in Calls, job'[k].act = "rollback", job'[k].restore,
             job'[k].at \in {"preparing", "pulling", "upping"}
      PROVE  /\ snapshot'[job'[k].goal] # "missing"
             /\ snapshot'[job'[k].goal] # NoRelease => data' = snapshot'[job'[k].goal]
  <2>1. k = j
    BY <1>4, <1>9 DEF Midway
  <2>2. job[j].restore
    BY <1>5, <1>9, <2>1, Zenon
  <2>3. job'[j].goal = job[j].goal /\ job'[j].act = job[j].act
    BY <1>5, Zenon
  <2>4. job[j].act = "rollback" /\ job'[j].at \in {"preparing", "pulling", "upping"}
    BY <1>9, <2>1, <2>3
  <2>5. /\ snapshot'[job[j].goal] # "missing"
        /\ snapshot'[job[j].goal] # NoRelease => data' = snapshot'[job[j].goal]
    BY <2>2, <2>4, Zenon
  <2> QED
    BY <2>1, <2>3, <2>5
<1>10. RestoredInv'
  BY <1>8, <1>9, Zenon DEF RestoredInv
<1> QED
  BY <1>1, <1>7, <1>10, Zenon DEF DataInv

(* A job whose work is over, well or not.                                   *)
LEMMA DoneData ==
  ASSUME Unforced, LockInv, DataInv, NEW j \in Calls, job[j].at \in Working, KeepsCalls, KeepsJobs,
         job'[j].at \notin Midway, ~runtime' => containers' = NoRelease
  PROVE  DataInv'
<1>1. /\ job'[j].at # "restoring" /\ job'[j].at \notin {"preparing", "pulling", "upping"}
      /\ \A k \in Calls \ {j} : job'[k].at \in Midway => job'[k].at = job[k].at
  BY DEF Midway, KeepsJobs, StagesKept
<1> QED
  BY <1>1, WorkerData, Zenon DEF KeepsJobs

LEMMA SettleData ==
  ASSUME Unforced, LockInv, DataInv, NEW j \in Calls, job[j].at \in Working, NEW status,
         NEW stage \in {"reporting", "failing"}, Settle(j, status, stage),
         ~runtime' => containers' = NoRelease
  PROVE  DataInv'
<1>1. job'[j].at = stage
  BY DEF Settle, LockInv, LockTypes, JobRecord
<1>2. job'[j].at \notin Midway
  BY <1>1 DEF Midway
<1> QED
  BY <1>2, SettleKeeps, DoneData

LEMMA EndData ==
  ASSUME Unforced, LockInv, DataInv, NEW j \in Calls, job[j].at \in {"starting", "reporting", "failing"},
         NEW outcome \in {"completed", "failed"}, JobEnds(j, outcome), UNCHANGED <<runtime, containers>>
  PROVE  DataInv'
<1>1. KeepsCalls /\ KeepsJobs /\ job[j].at \in Working /\ job[j].at \notin Midway
  BY JobEndsKeeps DEF Working, Midway
<1>2. job'[j].at \notin Midway
  BY <1>1 DEF KeepsJobs, StagesKept
<1>3. ~runtime' => containers' = NoRelease
  BY DEF DataInv, DownInv
<1> QED
  BY <1>1, <1>2, <1>3, DoneData

LEMMA ProceedData ==
  ASSUME Unforced, LockInv, DataInv, NEW j \in Calls, job[j].at \in Working, NEW stage, Proceed(j, stage),
         ~runtime' => containers' = NoRelease,
         stage = "restoring" => containers' = NoRelease /\ snapshot'[job[j].goal] # NoRelease,
         job[j].act = "rollback" /\ job[j].restore /\ stage \in {"preparing", "pulling", "upping"} =>
           /\ snapshot'[job[j].goal] # "missing"
           /\ snapshot'[job[j].goal] # NoRelease => data' = snapshot'[job[j].goal]
  PROVE  DataInv'
<1>1. /\ KeepsCalls /\ KeepsTasks /\ job'[j].at = stage
      /\ \A k \in Calls \ {j} : job'[k] = job[k]
  BY ProceedKeeps
<1>2. \A k \in Calls \ {j} : job'[k].at \in Midway => job'[k].at = job[k].at
  BY <1>1
<1> QED
  BY <1>1, <1>2, WorkerData, Zenon

LEMMA StartJobData ==
  ASSUME Unforced, LockInv, DataInv, NEW j \in Calls, StartJob(j)
  PROVE  DataInv'
<1>1. job[j].at = "starting" /\ job[j].at \in Working /\ UNCHANGED <<runtime, snapshot, containers, data>>
  BY DEF StartJob, Working, disk, host
<1>2. ~runtime' => containers' = NoRelease
  BY <1>1 DEF DataInv, DownInv
<1>3. CASE JobEnds(j, "completed") \/ JobEnds(j, "failed")
  BY <1>1, <1>3, EndData
<1>4. CASE Proceed(j, "stopping") \/ Proceed(j, "quieting")
  <2>1. PICK stage \in {"stopping", "quieting"} : Proceed(j, stage)
    BY <1>4
  <2>2. stage # "restoring" /\ stage \notin {"preparing", "pulling", "upping"}
    BY <2>1
  <2> QED
    BY <1>1, <1>2, <2>1, <2>2, ProceedData, Zenon
<1>5. CASE Proceed(j, "preparing") /\ ~(job[j].act = "rollback" /\ job[j].restore)
  BY <1>1, <1>2, <1>5, ProceedData, Zenon
<1>6. \/ JobEnds(j, "completed") \/ JobEnds(j, "failed")
      \/ Proceed(j, "stopping") \/ Proceed(j, "quieting")
      \/ Proceed(j, "preparing") /\ ~(job[j].act = "rollback" /\ job[j].restore)
  <2>1. CASE job[j].act = "rollback" /\ job[j].restore
    BY <2>1 DEF StartJob
  <2>2. CASE ~(job[j].act = "rollback" /\ job[j].restore)
    BY <2>2 DEF StartJob
  <2> QED
    BY <2>1, <2>2
<1> QED
  BY <1>3, <1>4, <1>5, <1>6

LEMMA QuietJobData ==
  ASSUME Unforced, LockInv, DataInv, NEW j \in Calls, Quiet(j)
  PROVE  DataInv'
<1>1. job[j].at = "quieting" /\ job[j].at \in Working /\ UNCHANGED <<runtime, snapshot, data>>
  BY DEF Quiet, Working, disk
<1>2. ~runtime' => containers' = NoRelease
  BY <1>1 DEF Quiet, DataInv, DownInv
<1>3. CASE Settle(j, "error", "failing")
  BY <1>1, <1>2, <1>3, SettleData
<1>4. CASE Proceed(j, "preparing") /\ snapshot[job[j].goal] = NoRelease
  <2>1. /\ snapshot'[job[j].goal] # "missing"
        /\ snapshot'[job[j].goal] = NoRelease
    BY <1>1, <1>4, LifecycleAssumption
  <2> QED
    BY <1>1, <1>2, <1>4, <2>1, ProceedData
<1>5. CASE Proceed(j, "restoring") /\ containers' = NoRelease /\ snapshot[job[j].goal] # NoRelease
  <2>1. snapshot'[job[j].goal] # NoRelease
    BY <1>1, <1>5
  <2> QED
    BY <1>1, <1>2, <1>5, <2>1, ProceedData, Zenon
<1>6. \/ Settle(j, "error", "failing")
      \/ Proceed(j, "preparing") /\ snapshot[job[j].goal] = NoRelease
      \/ Proceed(j, "restoring") /\ containers' = NoRelease /\ snapshot[job[j].goal] # NoRelease
  BY DEF Quiet, Throws
<1> QED
  BY <1>3, <1>4, <1>5, <1>6

LEMMA RestoreData ==
  ASSUME Unforced, LockInv, DataInv, NEW j \in Calls, Restore(j)
  PROVE  DataInv' /\ (data' = data \/ containers = NoRelease)
<1>1. /\ job[j].at = "restoring" /\ job[j].at \in Working /\ UNCHANGED <<runtime, snapshot, containers>>
  BY DEF Restore, Working, disk
<1>2. containers = NoRelease /\ (~runtime' => containers' = NoRelease)
  BY <1>1 DEF DataInv, DownInv
<1>3. CASE Settle(j, "error", "failing")
  BY <1>1, <1>2, <1>3, SettleData
<1>4. CASE /\ snapshot[job[j].goal] # "missing" /\ data' = snapshot[job[j].goal]
           /\ Proceed(j, "preparing")
  <2>1. snapshot'[job[j].goal] # "missing" /\ data' = snapshot'[job[j].goal]
    BY <1>1, <1>4
  <2> QED
    BY <1>1, <1>2, <1>4, <2>1, ProceedData
<1> QED
  BY <1>2, <1>3, <1>4 DEF Restore, Throws

LEMMA PrepareData ==
  ASSUME Unforced, LockInv, DataInv, NEW j \in Calls, Prepare(j)
  PROVE  DataInv' /\ UNCHANGED data
<1>1. job[j].at = "preparing" /\ job[j].at \in Working /\ UNCHANGED <<snapshot, containers, data>>
  BY DEF Prepare, Working, host
<1>2. ~runtime' => containers' = NoRelease
  BY <1>1 DEF Prepare, DataInv, DownInv
<1>3. CASE Settle(j, "error", "failing")
  BY <1>1, <1>2, <1>3, SettleData
<1>4. CASE /\ job' = [job EXCEPT ![j].rel = deployment.current,
                            ![j].at = IF job[j].act = "restart" THEN "upping" ELSE "pulling"]
           /\ UNCHANGED <<memory, call, lock>>
  <2>0. PICK s \in {"upping", "pulling"} : s = IF job[j].act = "restart" THEN "upping" ELSE "pulling"
    OBVIOUS
  <2>1. /\ \A k \in Calls : /\ job'[k].act = job[k].act /\ job'[k].goal = job[k].goal
                            /\ job'[k].restore = job[k].restore
        /\ job'[j].at = s /\ \A k \in Calls \ {j} : job'[k] = job[k]
    BY <1>4, <2>0 DEF LockInv, LockTypes, JobRecord
  <2>2. KeepsTasks
    BY <2>1, Zenon DEF KeepsTasks, TasksKept
  <2>3. job[j].act = "rollback" /\ job[j].restore =>
           /\ snapshot[job[j].goal] # "missing"
           /\ snapshot[job[j].goal] # NoRelease => data = snapshot[job[j].goal]
    BY <1>1, Zenon DEF DataInv, RestoredInv
  <2>4. snapshot' = snapshot /\ data' = data /\ job'[j].at # "restoring"
        /\ \A k \in Calls \ {j} : job'[k].at \in Midway => job'[k].at = job[k].at
    BY <1>1, <2>1
  <2>5. job[j].act = "rollback" /\ job[j].restore =>
           /\ snapshot'[job[j].goal] # "missing"
           /\ snapshot'[job[j].goal] # NoRelease => data' = snapshot'[job[j].goal]
    BY <2>3, <2>4, Zenon
  <2>6. KeepsCalls
    BY <1>4, SameCalls
  <2> QED
    BY <1>1, <1>2, <2>2, <2>4, <2>5, <2>6, WorkerData, Zenon
<1> QED
  BY <1>1, <1>3, <1>4 DEF Prepare, Throws

LEMMA PullData ==
  ASSUME Unforced, LockInv, DataInv, NEW j \in Calls, Pull(j)
  PROVE  DataInv' /\ UNCHANGED data
<1>1. /\ job[j].at = "pulling" /\ job[j].at \in Working
      /\ UNCHANGED <<runtime, snapshot, containers, data>>
  BY DEF Pull, Working, disk, host
<1>2. ~runtime' => containers' = NoRelease
  BY <1>1 DEF DataInv, DownInv
<1>3. CASE Settle(j, "error", "failing")
  BY <1>1, <1>2, <1>3, SettleData
<1>4. CASE Proceed(j, "upping")
  <2>1. job[j].act = "rollback" /\ job[j].restore =>
           /\ snapshot[job[j].goal] # "missing"
           /\ snapshot[job[j].goal] # NoRelease => data = snapshot[job[j].goal]
    BY <1>1, Zenon DEF DataInv, RestoredInv
  <2>2. snapshot' = snapshot /\ data' = data
    BY <1>1
  <2>3. job[j].act = "rollback" /\ job[j].restore =>
           /\ snapshot'[job[j].goal] # "missing"
           /\ snapshot'[job[j].goal] # NoRelease => data' = snapshot'[job[j].goal]
    BY <2>1, <2>2, Zenon
  <2> QED
    BY <1>1, <1>2, <1>4, <2>3, ProceedData, Zenon
<1> QED
  BY <1>1, <1>3, <1>4 DEF Pull, Throws

LEMMA UpData ==
  ASSUME Unforced, LockInv, DataInv, NEW j \in Calls, Up(j)
  PROVE  DataInv' /\ (data' = data \/ data' = containers')
<1>1. job[j].at = "upping" /\ job[j].at \in Working /\ UNCHANGED runtime
  BY DEF Up, Working, disk
<1>2. ~runtime' => containers' = NoRelease
  BY <1>1 DEF Up, DataInv, DownInv, host
<1>3. Settle(j, "running", "reporting") \/ Settle(j, "error", "failing")
  BY DEF Up, Succeeds, Throws
<1>4. DataInv'
  BY <1>1, <1>2, <1>3, SettleData
<1>5. data' = data \/ data' = containers'
  BY DEF Up, host
<1> QED
  BY <1>4, <1>5

LEMMA JobStepData ==
  ASSUME Unforced, LockInv, DataInv, NEW j \in Calls, JobStep(j) \/ JobWriteFails(j)
  PROVE  DataInv' /\ (data' = data \/ containers = NoRelease \/ data' = containers')
<1>1. CASE StopApp(j)
  <2>1. /\ job[j].at \in Working /\ UNCHANGED <<runtime, data>>
        /\ containers' \in {NoRelease, containers}
        /\ Settle(j, "stopped", "reporting") \/ Settle(j, "error", "failing")
    BY <1>1 DEF StopApp, Working, Succeeds, Throws, disk
  <2>2. ~runtime' => containers' = NoRelease
    BY <2>1 DEF DataInv, DownInv
  <2> QED
    BY <2>1, <2>2, SettleData
<1>2. CASE Report(j) \/ ReportFailure(j)
  <2>1. /\ job[j].at \in {"starting", "reporting", "failing"}
        /\ UNCHANGED <<runtime, containers, data>>
        /\ JobEnds(j, "completed") \/ JobEnds(j, "failed")
    BY <1>2 DEF Report, ReportFailure, host
  <2> QED
    BY <2>1, EndData
<1>3. CASE JobWriteFails(j)
  <2>1. /\ job[j].at \in {"starting", "reporting", "failing"} /\ job[j].at \in Working
        /\ UNCHANGED <<runtime, containers, data>>
        /\ Settle(j, "error", "failing") \/ JobEnds(j, "failed")
    BY <1>3 DEF JobWriteFails, Working, Throws, disk, host
  <2>2. ~runtime' => containers' = NoRelease
    BY <2>1 DEF DataInv, DownInv
  <2> QED
    BY <2>1, <2>2, EndData, SettleData
<1>4. CASE StartJob(j)
  BY <1>4, StartJobData DEF StartJob, host
<1>5. CASE Quiet(j)
  BY <1>5, QuietJobData DEF Quiet
<1> QED
  BY <1>1, <1>2, <1>3, <1>4, <1>5, RestoreData, PrepareData, PullData, UpData DEF JobStep

LEMMA OtherData ==
  ASSUME LockInv, DataInv, TickLater \/ Crash \/ Recover
  PROVE  DataInv' /\ UNCHANGED data
<1> AskedInv /\ DownInv /\ RestoredInv
  BY Zenon DEF DataInv
<1>1. KeepsCalls /\ KeepsJobs
  BY TickLaterKeeps, CrashKeeps, RecoverKeeps
<1>2. UNCHANGED <<runtime, snapshot, containers, data>>
  BY DEF TickLater, Crash, Recover, disk, host
<1> QED
  BY <1>1, <1>2, AsksAlike, AskedKept, CallsRemoving, JobsMidway, QuietData, Zenon DEF DataInv

LEMMA InitData == Init => DataInv
<1> SUFFICES ASSUME Init PROVE DataInv
  OBVIOUS
<1>1. \A c \in Calls : call[c] = NoCall /\ job[c] = NoJob
  BY DEF Init
<1>2. \A c \in Calls : call[c].op = "none" /\ call[c].at = "idle" /\ job[c].act = "none" /\ job[c].at = "none"
  BY <1>1 DEF NoCall, NoJob
<1>3. AskedInv
  BY <1>2 DEF AskedInv
<1>4. DownInv
  BY <1>2 DEF Init, DownInv, Absent
<1>5. RestoredInv
  BY <1>2, Zenon DEF RestoredInv
<1> QED
  BY <1>3, <1>4, <1>5, Zenon DEF DataInv

LEMMA NextData ==
  ASSUME Unforced, IInv, DataInv, [Next]_vars
  PROVE  DataInv' /\ (data' # data => containers = NoRelease \/ data' = containers')
<1> LockInv
  BY Zenon DEF IInv
<1>1. CASE Next
  BY <1>1, CallingData, CallStepData, JobStepData, OtherData DEF Next
<1>2. CASE UNCHANGED vars
  <2>1. UNCHANGED <<runtime, snapshot, containers, data, call, job>>
    BY <1>2 DEF vars, disk, host
  <2>2. KeepsCalls /\ KeepsJobs
    BY <2>1, SameCalls, SameJobs
  <2>3. AskedInv /\ DownInv /\ RestoredInv
    BY Zenon DEF DataInv
  <2> QED
    BY <2>1, <2>2, <2>3, AsksAlike, AskedKept, CallsRemoving, JobsMidway, QuietData, Zenon DEF DataInv
<1> QED
  BY <1>1, <1>2

(* No containers are up while a snapshot is restored or the deployment is   *)
(* torn down, and from the restore to the start the data root is what the   *)
(* snapshot holds: the work under the lock is not interfered with.          *)
THEOREM DataInvHolds == ASSUME Unforced PROVE Spec => []DataInv
<1>1. IInv /\ DataInv /\ [Next]_vars => DataInv'
  BY NextData
<1> QED
  BY <1>1, InitData, LockInvHolds, PTL DEF Spec

(* The data root is replaced or removed only while no container of the app  *)
(* is up, or by the app that has just come up (restoreAppDataSnapshot,      *)
(* performDelete), however calls, jobs, restarts and faults overlap.        *)
THEOREM DataTouchedOnlyWhileDownHolds == ASSUME Unforced PROVE Spec => DataTouchedOnlyWhileDown
<1>1. IInv /\ DataInv /\ [Next]_vars => [data' # data => containers = NoRelease \/ data' = containers']_vars
  BY NextData
<1> QED
  BY <1>1, DataInvHolds, LockInvHolds, PTL DEF Spec, DataTouchedOnlyWhileDown

(* A rollback with data that succeeds boots its release on what its         *)
(* snapshot holds, and never without a snapshot (the catch of the missing   *)
(* snapshot in runLifecycleJob), whatever else is asked meanwhile.          *)
THEOREM RollbackRestoresHolds == ASSUME Unforced PROVE Spec => RollbackRestores
<1>1. DataInv => \A j \in Calls :
        ComesUp(j) /\ job[j].act = "rollback" /\ job[j].restore =>
          /\ snapshot[job[j].goal] # "missing"
          /\ snapshot[job[j].goal] # NoRelease => data = snapshot[job[j].goal]
  <2> SUFFICES ASSUME DataInv, NEW j \in Calls, ComesUp(j), job[j].act = "rollback", job[j].restore
               PROVE  /\ snapshot[job[j].goal] # "missing"
                      /\ snapshot[job[j].goal] # NoRelease => data = snapshot[job[j].goal]
    BY Zenon
  <2>1. job[j].at \in {"preparing", "pulling", "upping"}
    BY DEF ComesUp
  <2> QED
    BY <2>1, Zenon DEF DataInv, RestoredInv
<1> QED
  BY <1>1, DataInvHolds, PTL DEF RollbackRestores

-----------------------------------------------------------------------------
(* One call at a time. *)
OneAtATime == MaxUnderWay <= 1

OneCall == \A c, d \in UnderWay : c = d

Bounded == crashes <= MaxCrashes /\ faults <= MaxFaults

(* What a stage says of the operation, and an operation of its release.     *)
Changing  == {"create", "promote", "rollback"}
Acting    == {"start", "restart", "stop", "delete"}
Switching == {"demoting", "activating", "recording", "pointing"}

AskOf(c) ==
  /\ call[c].op \in {"create", "promote"} => call[c].rel = c
  /\ call[c].op \in Acting \cup Uninstalls => call[c].rel = NoRelease
  /\ call[c].at \in {"staging", "saving"} => call[c].op \in {"create", "promote"}
  /\ call[c].at = "registering" => call[c].op = "create"
  /\ call[c].at = "syncing" => call[c].op = "promote"
  /\ call[c].at \in Switching => call[c].op \in Changing
  /\ call[c].at = "launching" => call[c].op \in Changing \cup Acting
  /\ call[c].at = "closing" => call[c].op \in {"rollback"} \cup Acting

SerialInv == OneCall /\ Bounded /\ \A c \in Calls : AskOf(c)

-----------------------------------------------------------------------------
(* What a step does to the calls and the jobs. *)
Alone(c)   == \A d \in Calls \ {c} : call'[d] = call[d]
Goes(c, s) == Alone(c) /\ call'[c].op = call[c].op /\ call'[c].rel = call[c].rel /\ call'[c].at = s

(* A holder that leaves lets in the first in line. *)
CallsGoOn ==
  \A c \in Calls :
    \/ call'[c] = call[c]
    \/ /\ call[c].at = "waiting"
       /\ call'[c].at = Granted(c)
       /\ call'[c].op = call[c].op /\ call'[c].rel = call[c].rel
       /\ call'[c].old = call[c].old /\ call'[c].doc = call[c].doc

(* A queued job is started. *)
Follows(jb) ==
  \A j \in Calls :
    /\ job'[j].act = jb[j].act /\ job'[j].goal = jb[j].goal
    /\ job'[j].rel = jb[j].rel /\ job'[j].doc = jb[j].doc
    /\ \/ job'[j].at = jb[j].at
       \/ jb[j].at = "queued" /\ job'[j].at = "starting"

(* The same, unless it is an uninstall that discards the queued jobs.       *)
JobsGoOn ==
  \A j \in Calls :
    /\ job'[j].act = job[j].act /\ job'[j].goal = job[j].goal
    /\ job'[j].rel = job[j].rel /\ job'[j].doc = job[j].doc
    /\ \/ job'[j].at = job[j].at
       \/ job[j].at = "queued" /\ job'[j].at \in {"starting", "cancelled"}

LEMMA FollowsGoOn == ASSUME Follows(job) PROVE JobsGoOn
  BY DEF Follows, JobsGoOn

LEMMA JobsStay == ASSUME UNCHANGED job PROVE JobsGoOn
  BY DEF JobsGoOn

LEMMA Solo ==
  ASSUME OneCall, NEW c \in Calls, call[c].at \notin Settled
  PROVE  \A d \in Calls \ {c} : call[d].at \in Settled
  BY DEF OneCall, UnderWay

LEMMA NoLine ==
  ASSUME LockInv, OneCall, NEW c \in Calls, call[c].at \notin Settled \cup {"waiting"}
  PROVE  waiting = <<>> /\ HandedCalls(call) = call
<1>1. {d \in Calls : call[d].at = "waiting"} = {}
  BY Solo DEF Settled
<1>2. waiting = <<>>
  <2>1. waiting \in Seq(Calls) /\ Members(waiting) = {} /\ Distinct(waiting)
    BY <1>1 DEF LockInv, LockTypes, LineInv
  <2> QED
    BY <2>1, TailMembers
<1> QED
  BY <1>2 DEF HandedCalls

(* The first in the queue is a queued job. *)
LEMMA QueueHead ==
  ASSUME LockInv, queue # <<>>
  PROVE  Head(queue) \in Calls /\ job[Head(queue)].at = "queued"
<1>1. Head(queue) \in Calls /\ Head(queue) \in Members(queue)
  BY TailMembers DEF LockInv, LockTypes, QueueInv
<1> QED
  BY <1>1 DEF LockInv, QueueInv, LockTypes

LEMMA TickFollows ==
  ASSUME NEW jb \in [Calls -> JobRecord], NEW q, Tick(q, jb),
         q # <<>> => Head(q) \in Calls /\ jb[Head(q)].at = "queued"
  PROVE  Follows(jb)
<1>1. CASE job' = jb
  BY <1>1 DEF Follows
<1>2. CASE q # <<>> /\ job' = [jb EXCEPT ![Head(q)].at = "starting"]
  <2>1. PICK h \in Calls : h = Head(q) /\ jb[h].at = "queued"
    BY <1>2
  <2>2. \A j \in Calls : /\ job'[j].act = jb[j].act /\ job'[j].goal = jb[j].goal
                         /\ job'[j].rel = jb[j].rel /\ job'[j].doc = jb[j].doc
                         /\ job'[j].at = IF j = h THEN "starting" ELSE jb[j].at
    BY <1>2, <2>1 DEF JobRecord
  <2> QED
    BY <2>1, <2>2 DEF Follows
<1> QED
  BY <1>1, <1>2 DEF Tick

LEMMA LeaveFollows ==
  ASSUME LockInv, NEW jb \in [Calls -> JobRecord], LeaveLock(jb),
         \A j \in Calls : job[j].at = "queued" => jb[j].at = "queued"
  PROVE  Follows(jb)
<1>1. CASE job' = jb
  BY <1>1 DEF Follows
<1>2. CASE Tick(queue, jb)
  BY <1>2, QueueHead, TickFollows
<1> QED
  BY <1>1, <1>2 DEF LeaveLock

LEMMA DispatchFollows ==
  ASSUME NEW jb \in [Calls -> JobRecord], NEW q, Dispatch(q, jb),
         q # <<>> => Head(q) \in Calls /\ jb[Head(q)].at = "queued"
  PROVE  Follows(jb)
<1>1. CASE job' = jb
  BY <1>1 DEF Follows
<1> QED
  BY <1>1, TickFollows DEF Dispatch

LEMMA DiscardFollows ==
  ASSUME LockInv, NEW c \in Calls, DiscardJobs(c)
  PROVE  JobsGoOn
<1>1. ASSUME NEW j \in Calls, NEW i \in DOMAIN queue, queue[i] = j
      PROVE  job[j].at = "queued"
  <2>1. j \in Members(queue)
    BY <1>1, LenProperties DEF Members, LockInv, LockTypes
  <2> QED
    BY <2>1, EmptySeq DEF LockInv, QueueInv, LockTypes, Members
<1>2. \A j \in Calls :
        \/ job'[j] = [job[j] EXCEPT !.at = "cancelled"] /\ job[j].at = "queued"
        \/ job'[j] = [job[j] EXCEPT !.flagged = TRUE]
        \/ job'[j] = job[j]
  BY <1>1, Zenon DEF DiscardJobs
<1>3. job \in [Calls -> JobRecord]
  BY DEF LockInv, LockTypes
<1> QED
  BY <1>2, <1>3 DEF JobsGoOn, JobRecord

LEMMA TickLaterFollows == ASSUME LockInv, TickLater PROVE Follows(job) /\ JobsGoOn
  BY QueueHead, TickFollows, FollowsGoOn DEF TickLater, LockInv, LockTypes

LEMMA JobEndsFollows ==
  ASSUME LockInv, NEW j \in Calls, job[j].at \in Working, NEW outcome \in {"completed", "failed"},
         JobEnds(j, outcome)
  PROVE  /\ CallsGoOn
         /\ \A k \in Calls :
              /\ job'[k].act = job[k].act /\ job'[k].goal = job[k].goal /\ job'[k].rel = job[k].rel
              /\ k # j => job'[k].doc = job[k].doc
         /\ job'[j].at = outcome
         /\ \A k \in Calls \ {j} : \/ job'[k].at = job[k].at
                                   \/ job[k].at = "queued" /\ job'[k].at = "starting"
<1>1. PICK jb : jb = [job EXCEPT ![j].at = outcome, ![j].doc = Absent]
  OBVIOUS
<1>2. job \in [Calls -> JobRecord] /\ outcome \in JobStages
  BY DEF LockInv, LockTypes, JobStages
<1>3. /\ jb \in [Calls -> JobRecord] /\ jb[j].at = outcome
      /\ \A k \in Calls \ {j} : jb[k] = job[k]
      /\ jb[j].act = job[j].act /\ jb[j].goal = job[j].goal /\ jb[j].rel = job[j].rel
  BY <1>1, <1>2, Constants DEF JobRecord
<1>4. Follows(jb)
  <2>1. LeaveLock(jb)
    BY <1>1 DEF JobEnds
  <2> QED
    BY <1>3, <2>1, LeaveFollows DEF Working
<1>5. CallsGoOn
  <2>1. call' = HandedCalls(call) /\ call \in [Calls -> CallRecord]
    BY DEF JobEnds, LockInv, LockTypes
  <2>2. CASE waiting = <<>>
    BY <2>1, <2>2 DEF CallsGoOn, HandedCalls
  <2>3. CASE waiting # <<>>
    <3>1. PICK h \in Calls : h = Head(waiting) /\ call[h].at = "waiting"
      BY <2>3, Handed
    <3>2. call' = [call EXCEPT ![h].at = Granted(h)]
      BY <2>1, <2>3, <3>1 DEF HandedCalls
    <3> QED
      BY <2>1, <3>1, <3>2 DEF CallsGoOn, CallRecord
  <2> QED
    BY <2>2, <2>3
<1> QED
  BY <1>3, <1>4, <1>5 DEF Follows

-----------------------------------------------------------------------------
(* The way of a call. *)
SwitchTo(c, rel) ==
  \/ call'[c].at = "failed" /\ release' = release
  \/ /\ call'[c].at = "demoting" /\ call'[c].old = deployment.current
     /\ listed /\ release[rel] # "none"
     /\ deployment.current \in Releases \ {rel} /\ release[deployment.current] # "none"
     /\ release' = [release EXCEPT ![deployment.current] = "stopped"]
  \/ /\ call'[c].at = "activating"
     /\ listed /\ release[rel] # "none"
     /\ deployment.current \in {NoRelease, rel} \/ release[deployment.current] = "none"
     /\ release' = [release EXCEPT ![rel] = "active"]

LEMMA SwitchEffect ==
  ASSUME RecordTypes, NEW cl \in [Calls -> CallRecord], NEW c \in Calls, BeginSwitch(c, cl)
  PROVE  /\ \A d \in Calls \ {c} : call'[d] = cl[d]
         /\ call'[c].op = cl[c].op /\ call'[c].rel = cl[c].rel
         /\ SwitchTo(c, cl[c].rel)
<1>1. /\ call'[c].op = cl[c].op /\ call'[c].rel = cl[c].rel
      /\ \A d \in Calls \ {c} : call'[d] = cl[d]
  BY SwitchBegins
<1>2. PICK rel, old : rel = cl[c].rel /\ old = deployment.current
  OBVIOUS
<1>3. old \in Rel
  BY <1>2 DEF RecordTypes, Docs, Rel
<1>4. CASE ~listed \/ release[rel] = "none"
  <2>1. call' = Ended(cl, c, "failed") /\ release' = release
    BY <1>2, <1>4 DEF BeginSwitch
  <2> QED
    BY <1>1, <1>2, <2>1, EndedCall, WritingStages DEF SwitchTo
<1>5. CASE listed /\ release[rel] # "none" /\ old \notin {NoRelease, rel} /\ release[old] # "none"
  <2>1. /\ call' = [cl EXCEPT ![c].at = "demoting", ![c].old = old]
        /\ release' = [release EXCEPT ![old] = "stopped"]
    BY <1>2, <1>5 DEF BeginSwitch
  <2>2. call'[c].at = "demoting" /\ call'[c].old = old
    BY <2>1 DEF CallRecord
  <2> QED
    BY <1>1, <1>2, <1>3, <1>5, <2>1, <2>2 DEF SwitchTo, Rel
<1>6. CASE listed /\ release[rel] # "none" /\ ~(old \notin {NoRelease, rel} /\ release[old] # "none")
  <2>1. /\ call' = [cl EXCEPT ![c].at = "activating", ![c].old = NoRelease]
        /\ release' = [release EXCEPT ![rel] = "active"]
    BY <1>2, <1>6 DEF BeginSwitch
  <2>2. call'[c].at = "activating"
    BY <2>1 DEF CallRecord
  <2> QED
    BY <1>1, <1>2, <1>6, <2>1, <2>2 DEF SwitchTo
<1> QED
  BY <1>4, <1>5, <1>6

LEMMA StageGoes ==
  ASSUME LockInv, NEW c \in Calls, NEW s, call' = [call EXCEPT ![c].at = s]
  PROVE  Goes(c, s) /\ call'[c].old = call[c].old /\ call'[c].doc = call[c].doc
  BY DEF Goes, Alone, LockInv, LockTypes, CallRecord

LEMMA DocGoes ==
  ASSUME LockInv, NEW c \in Calls, NEW s, NEW doc, call' = [call EXCEPT ![c].at = s, ![c].doc = doc]
  PROVE  Goes(c, s) /\ call'[c].doc = doc
  BY DEF Goes, Alone, LockInv, LockTypes, CallRecord

LEMMA EndGoes ==
  ASSUME LockInv, NEW c \in Calls, NEW s, call' = Ended(call, c, s)
  PROVE  Goes(c, s)
  BY DEF Goes, Alone, LockInv, LockTypes, CallRecord, Ended

LEMMA SwitchGoes ==
  ASSUME LockInv, NEW c \in Calls, BeginSwitch(c, call)
  PROVE  Goes(c, call'[c].at) /\ SwitchTo(c, call[c].rel)
<1>1. RecordTypes /\ call \in [Calls -> CallRecord]
  BY DEF LockInv, LockTypes
<1> QED
  BY <1>1, SwitchEffect DEF Goes, Alone

LEMMA LeaveDeleteGoes ==
  ASSUME LockInv, OneCall, NEW c \in Calls, call[c].at \notin Settled \cup {"waiting"},
         NEW outcome, LeaveDelete(c, outcome)
  PROVE  Goes(c, outcome)
  BY NoLine, EndGoes DEF LeaveDelete

LEMMA LeaveDeleteFollows ==
  ASSUME LockInv, NEW c \in Calls, NEW outcome, LeaveDelete(c, outcome)
  PROVE  JobsGoOn
  BY LeaveFollows, JobsStay, FollowsGoOn DEF LeaveDelete, LockInv, LockTypes

(* A new release is on disk. *)
LEMMA SaveGoes ==
  ASSUME LockInv, NEW c \in Calls, Save(c)
  PROVE  \/ call[c].op = "create" /\ Goes(c, "registering") /\ call'[c].doc = deployment /\ release' = release
         \/ /\ call[c].op = "promote" /\ (Goes(c, "waiting") \/ Goes(c, "capturing"))
            /\ call'[c].old = deployment.current /\ release' = release
         \/ /\ call[c].op = "promote" /\ Goes(c, call'[c].at)
            /\ SwitchTo(c, call[c].rel)
<1>1. CASE call[c].op = "create" /\ call' = [call EXCEPT ![c].at = "registering", ![c].doc = deployment] /\ release' = release
  BY <1>1, DocGoes
<1>2. CASE call[c].op = "promote" /\ RunExclusive(c, [call EXCEPT ![c].old = deployment.current]) /\ release' = release
  <2>1. PICK cl : cl = [call EXCEPT ![c].old = deployment.current]
    OBVIOUS
  <2>2. PICK s \in {"waiting", "capturing"} : call' = [cl EXCEPT ![c].at = s]
    BY <1>2, <2>1 DEF RunExclusive, Granted
  <2>3. call \in [Calls -> CallRecord]
    BY DEF LockInv, LockTypes
  <2>4. Goes(c, s) /\ call'[c].old = deployment.current
    BY <2>1, <2>2, <2>3 DEF Goes, Alone, CallRecord
  <2> QED
    BY <1>2, <2>4
<1>3. CASE call[c].op = "promote" /\ BeginSwitch(c, call)
  BY <1>3, SwitchGoes
<1> QED
  BY <1>1, <1>2, <1>3 DEF Save

LEMMA CaptureGoes ==
  ASSUME LockInv, OneCall, NEW c \in Calls, CaptureSnapshot(c)
  PROVE  /\ Goes(c, call'[c].at) /\ JobsGoOn
         /\ SwitchTo(c, call[c].rel) \/ (call'[c].at = "failed" /\ release' = release)
         /\ snapshot' # snapshot => snapshot' = [snapshot EXCEPT ![call[c].old] = data]
<1>1. HandedCalls(call) = call
  BY NoLine DEF CaptureSnapshot, Settled
<1>2. JobsGoOn
  BY LeaveFollows, FollowsGoOn DEF CaptureSnapshot, LockInv, LockTypes
<1>3. CASE BeginSwitch(c, HandedCalls(call)) /\ snapshot' = [snapshot EXCEPT ![call[c].old] = data]
  BY <1>1, <1>2, <1>3, SwitchGoes
<1>4. CASE call' = Ended(HandedCalls(call), c, "failed") /\ UNCHANGED <<snapshot, release>>
  BY <1>1, <1>2, <1>4, EndGoes DEF Goes
<1> QED
  BY <1>3, <1>4 DEF CaptureSnapshot

LEMMA DiscardGoes ==
  ASSUME LockInv, NEW c \in Calls, DiscardJobs(c)
  PROVE  (Goes(c, "waiting") \/ Goes(c, "tearing")) /\ JobsGoOn
  BY StageGoes, DiscardFollows DEF DiscardJobs

Route(c) ==
  \/ call'[c].at \in {"returned", "failed"}
  \/ call[c].at = "staging" /\ call'[c].at = "saving"
  \/ call[c].at = "saving" /\ call[c].op = "create" /\ call'[c].at = "registering"
  \/ call[c].at = "saving" /\ call[c].op = "promote" /\ call'[c].at \in {"waiting", "capturing"}
  \/ call[c].at \in {"saving", "registering", "capturing"} /\ call'[c].at \in {"demoting", "activating"}
  \/ call[c].at = "demoting" /\ call'[c].at = "activating"
  \/ call[c].at = "activating" /\ call'[c].at = "recording"
  \/ call[c].at = "recording" /\ call'[c].at = "pointing"
  \/ call[c].at = "pointing" /\ call[c].op = "promote" /\ call'[c].at = "syncing"
  \/ call[c].at = "pointing" /\ call[c].op # "promote" /\ call'[c].at = "launching"
  \/ call[c].at = "syncing" /\ call'[c].at = "launching"
  \/ call[c].at = "launching" /\ call[c].op \notin {"create", "promote"} /\ call'[c].at = "closing"
  \/ call[c].at = "discarding" /\ call'[c].at \in {"waiting", "tearing"}
  \/ call[c].at = "tearing" /\ call'[c].at = "deprovisioning"
  \/ call[c].at = "deprovisioning" /\ call'[c].at = "wiping"
  \/ call[c].at = "wiping" /\ call'[c].at = "reclaiming"

LEMMA CallRoute ==
  ASSUME LockInv, OneCall, NEW c \in Calls, CallStep(c) \/ CallWriteFails(c)
  PROVE  /\ call[c].at \notin Settled \cup {"waiting"}
         /\ Goes(c, call'[c].at) /\ Route(c)
         /\ JobsGoOn \/ Launch(c)
<1>0. ASSUME NEW s, Goes(c, s)
      PROVE  Goes(c, call'[c].at) /\ call'[c].at = s
  BY <1>0 DEF Goes
<1>1. CASE Stage(c) \/ DemoteRelease(c) \/ RecordRelease(c) \/ Unlist(c) \/ RemoveStorage(c)
  BY <1>0, <1>1, StageGoes, JobsStay
     DEF Stage, DemoteRelease, RecordRelease, Unlist, RemoveStorage, Route, Settled
<1>2. CASE Save(c)
  BY <1>0, <1>2, SaveGoes, JobsStay DEF Save, Route, Settled, SwitchTo
<1>3. CASE Register(c)
  BY <1>0, <1>3, SwitchGoes, JobsStay DEF Register, Route, Settled, SwitchTo
<1>4. CASE CaptureSnapshot(c)
  BY <1>0, <1>4, CaptureGoes DEF CaptureSnapshot, Route, Settled, SwitchTo
<1>5. CASE ActivateRelease(c)
  BY <1>0, <1>5, DocGoes, JobsStay DEF ActivateRelease, Route, Settled
<1>6. CASE SwitchPointer(c)
  BY <1>0, <1>6, StageGoes, DocGoes, EndGoes, JobsStay DEF SwitchPointer, Route, Settled
<1>7. CASE SyncVersion(c) \/ Close(c) \/ CallWriteFails(c)
  BY <1>0, <1>7, StageGoes, EndGoes, JobsStay DEF SyncVersion, Close, CallWriteFails, Route, Settled, Writing
<1>8. CASE Launch(c)
  BY <1>0, <1>8, DocGoes, EndGoes DEF Launch, Route, Settled
<1>9. CASE DiscardJobs(c)
  BY <1>0, <1>9, DiscardGoes DEF DiscardJobs, Route, Settled
<1>10. CASE Teardown(c)
  <2>1. call[c].at \notin Settled \cup {"waiting"} /\ call[c].at = "tearing"
    BY <1>10 DEF Teardown, Settled
  <2>2. JobsGoOn
    BY <1>10, LeaveDeleteFollows, JobsStay DEF Teardown
  <2> QED
    BY <1>0, <1>10, <2>1, <2>2, StageGoes, LeaveDeleteGoes DEF Teardown, Route
<1>11. CASE RemoveAppData(c)
  <2>1. call[c].at \notin Settled \cup {"waiting"} /\ call[c].at = "reclaiming"
    BY <1>11 DEF RemoveAppData, Settled
  <2>2. JobsGoOn
    BY <1>11, LeaveDeleteFollows DEF RemoveAppData
  <2> QED
    BY <1>0, <1>11, <2>1, <2>2, LeaveDeleteGoes DEF RemoveAppData, Route
<1> QED
  BY <1>1, <1>2, <1>3, <1>4, <1>5, <1>6, <1>7, <1>8, <1>9, <1>10, <1>11 DEF CallStep

-----------------------------------------------------------------------------
(* How a call begins: nothing else is under way. *)
Opening(c) ==
  \/ CreateFromDraft(c) /\ call'[c].op = "create" /\ call'[c].rel = c /\ call'[c].at = "staging"
  \/ Promote(c) /\ call'[c].op = "promote" /\ call'[c].rel = c /\ call'[c].at = "staging"
  \/ /\ Rollback(c) /\ call'[c].op = "rollback" /\ call'[c].rel \in Releases
     /\ SwitchTo(c, call'[c].rel) /\ listed /\ ~Busy /\ release[call'[c].rel] # "none"
  \/ ExecuteAction(c) /\ call'[c].op \in Acting /\ call'[c].rel = NoRelease /\ call'[c].at = "launching"
  \/ /\ DeleteDeployment(c) /\ call'[c].op \in Uninstalls /\ call'[c].rel = NoRelease
     /\ call'[c].at = "discarding" /\ (call'[c].op = "uninstall" => ~Busy)

LEMMA NobodyUnderWay ==
  ASSUME OneAtATime, NEW c \in Calls, NEW op, NEW w, Request(c, op, w)
  PROVE  \A d \in Calls : call[d].at \in Settled
<1>1. IsFiniteSet(UnderWay)
  <2>1. UnderWay \subseteq Calls
    BY DEF UnderWay
  <2> QED
    BY <2>1, LifecycleAssumption, FS_Subset
<1>2. Cardinality(UnderWay) = 0
  BY <1>1, FS_CardinalityType, LifecycleAssumption DEF Request, OneAtATime
<1>3. UnderWay = {}
  BY <1>1, <1>2, FS_EmptySet
<1> QED
  BY <1>3 DEF UnderWay

LEMMA OpenedAs ==
  ASSUME LockInv, NEW c \in Calls, NEW op \in Operations, NEW w \in SUBSET Wishes,
         NEW stage \in {"staging", "launching", "discarding", "idle"}, NEW rel \in Rel,
         call' = Opened(c, op, w, stage, rel)
  PROVE  Alone(c) /\ call'[c].op = op /\ call'[c].rel = rel /\ call'[c].at = stage
  BY Constants DEF Opened, CallRecord, LockInv, LockTypes, Alone

LEMMA CallOpening ==
  ASSUME OneAtATime, LockInv, NEW c \in Calls, Calling(c)
  PROVE  /\ \A d \in Calls : call[d].at \in Settled
         /\ call[c].at = "idle" /\ Alone(c) /\ Opening(c) /\ UNCHANGED <<job, cold, bounds>>
<1>0. /\ Operations = Changing \cup Acting \cup Uninstalls
      /\ Calls \subseteq Rel /\ NoRelease \in Rel /\ Releases \subseteq Rel
  BY Constants DEF Operations, Changing, Acting, Uninstalls, Rel
<1>1. ASSUME NEW op, NEW w, Request(c, op, w)
      PROVE  call[c].at = "idle" /\ \A d \in Calls : call[d].at \in Settled
  BY <1>1, NobodyUnderWay DEF Request
<1>2. CASE CreateFromDraft(c)
  <2>1. PICK w \in SUBSET Wishes :
          /\ Request(c, "create", w) /\ call' = Opened(c, "create", w, "staging", c)
          /\ UNCHANGED <<job, table, bounds>>
    BY <1>2 DEF CreateFromDraft
  <2>2. Alone(c) /\ call'[c].op = "create" /\ call'[c].rel = c /\ call'[c].at = "staging"
    BY <1>0, <2>1, OpenedAs DEF Changing
  <2> QED
    BY <1>1, <1>2, <2>1, <2>2 DEF Opening, table
<1>3. CASE Promote(c)
  <2>1. PICK w \in SUBSET Wishes :
          /\ Request(c, "promote", w) /\ call' = Opened(c, "promote", w, "staging", c)
          /\ UNCHANGED <<job, table, bounds>>
    BY <1>3 DEF Promote
  <2>2. Alone(c) /\ call'[c].op = "promote" /\ call'[c].rel = c /\ call'[c].at = "staging"
    BY <1>0, <2>1, OpenedAs DEF Changing
  <2> QED
    BY <1>1, <1>3, <2>1, <2>2 DEF Opening, table
<1>4. CASE ExecuteAction(c)
  <2>1. PICK op \in Acting, w \in SUBSET Wishes :
          /\ Request(c, op, w) /\ call' = Opened(c, op, w, "launching", NoRelease)
          /\ UNCHANGED <<job, table, bounds>>
    BY <1>4 DEF ExecuteAction, Acting
  <2>2. /\ Alone(c) /\ call'[c].op = op /\ call'[c].rel = NoRelease
        /\ call'[c].at = "launching"
    BY <1>0, <2>1, OpenedAs
  <2> QED
    BY <1>1, <1>4, <2>1, <2>2 DEF Opening, table
<1>5. CASE DeleteDeployment(c)
  <2>1. PICK op \in Uninstalls :
          /\ Request(c, op, {}) /\ call' = Opened(c, op, {}, "discarding", NoRelease)
          /\ op = "forceUninstall" \/ ~Busy
          /\ UNCHANGED <<job, table, bounds>>
    BY <1>5 DEF DeleteDeployment
  <2>2. {} \in SUBSET Wishes /\ op \in Operations
    BY <1>0
  <2>3. /\ Alone(c) /\ call'[c].op = op /\ call'[c].rel = NoRelease
        /\ call'[c].at = "discarding"
    BY <1>0, <2>1, <2>2, OpenedAs
  <2>4. call'[c].op = "uninstall" => ~Busy
    BY <2>1, <2>3
  <2> QED
    BY <1>1, <1>5, <2>1, <2>3, <2>4 DEF Opening, table
<1>6. CASE Rollback(c)
  <2>1. PICK w \in SUBSET Wishes, r \in Releases :
          /\ Request(c, "rollback", w) /\ listed /\ ~Busy /\ release[r] # "none"
          /\ BeginSwitch(c, Opened(c, "rollback", w, "idle", r))
          /\ UNCHANGED <<job, table, bounds>>
    BY <1>6 DEF Rollback
  <2>2. PICK cl : cl = Opened(c, "rollback", w, "idle", r)
    OBVIOUS
  <2>3. /\ cl \in [Calls -> CallRecord] /\ cl[c].op = "rollback" /\ cl[c].rel = r
        /\ \A d \in Calls \ {c} : cl[d] = call[d]
    <3> "idle" \in CallStages /\ "rollback" \in Operations
      BY DEF CallStages, Operations
    <3> r \in Rel
      BY <1>0
    <3> QED
      BY <2>2, OpenedIs DEF LockInv
  <2>4. /\ Alone(c) /\ call'[c].op = "rollback" /\ call'[c].rel = r /\ SwitchTo(c, r)
    BY <2>1, <2>2, <2>3, SwitchEffect DEF LockInv, Alone
  <2> QED
    BY <1>1, <1>6, <2>1, <2>4 DEF Opening, table
<1> QED
  BY <1>2, <1>3, <1>4, <1>5, <1>6 DEF Calling

(* A deployment that is not busy has no job queued or at work, once the jobs*)
(* have been recovered.                                                     *)
LEMMA IdleJobs ==
  ASSUME LockInv, ~Busy, ~cold
  PROVE  \A j \in Calls : job[j].at \in Finished
<1>1. \A j \in Calls : job[j].at \notin Working
  BY DEF LockInv, HolderInv, Busy
<1>2. queue = <<>> /\ Members(queue) = {j \in Calls : job[j].at = "queued"}
  BY DEF LockInv, QueueInv, Busy
<1>3. \A j \in Calls : job[j].at # "queued"
  BY <1>2, NoMembers, EmptySeq
<1>4. \A j \in Calls : job[j].at \in JobStages
  BY DEF LockInv, LockTypes, JobRecord
<1> QED
  BY <1>1, <1>3, <1>4 DEF JobStages, Finished

-----------------------------------------------------------------------------
(* One call at a time. *)
CrashCalls == \A c \in Calls : /\ call'[c].at \in Settled
                               /\ call[c].at \in Settled => call'[c] = call[c]
                               /\ call'[c].op = call[c].op /\ call'[c].rel = call[c].rel
                               /\ call'[c].at # call[c].at => call'[c].at = "lost"

LEMMA CrashCallsHold == ASSUME LockInv, Crash PROVE CrashCalls
<1>1. call' = [c \in Calls |-> IF call[c].at \in Settled THEN call[c] ELSE Ended(call, c, "lost")[c]]
  BY DEF Crash
<1>2. call \in [Calls -> CallRecord] /\ "lost" \in CallStages /\ "lost" \in Settled
  BY DEF LockInv, LockTypes, CallStages, Settled
<1>3. \A c \in Calls : /\ Ended(call, c, "lost")[c].at = "lost"
                       /\ Ended(call, c, "lost")[c].op = call[c].op
                       /\ Ended(call, c, "lost")[c].rel = call[c].rel
  BY <1>2, EndedCall
<1> QED
  BY <1>1, <1>2, <1>3 DEF CrashCalls

LEMMA InitSerial == Init => SerialInv
  BY LifecycleAssumption
     DEF Init, SerialInv, OneCall, Bounded, UnderWay, Settled, AskOf, NoCall, Acting, Uninstalls, Switching

(* The ways a step treats the calls. *)
Steps ==
  \/ \E c \in Calls : Calling(c) \/ CallStep(c) \/ CallWriteFails(c)
  \/ \E j \in Calls : JobStep(j) \/ JobWriteFails(j)
  \/ TickLater \/ Recover \/ Crash \/ UNCHANGED vars

LEMMA NextSteps == ASSUME [Next]_vars PROVE Steps
  BY Zenon DEF Next, Steps

(* What a job does to the others: nothing, but one that ends lets in the    *)
(* next.                                                                    *)
JobsAround(j) ==
  \A k \in Calls :
    /\ job'[k].act = job[k].act /\ job'[k].goal = job[k].goal
    /\ k # j => /\ job'[k].rel = job[k].rel /\ job'[k].doc = job[k].doc
                /\ \/ job'[k].at = job[k].at
                   \/ job[k].at = "queued" /\ job'[k].at = "starting"

Ends(j) ==
  /\ job[j].at \in {"starting", "reporting", "failing"}
  /\ job'[j].at \in {"completed", "failed"}
  /\ UNCHANGED memory

Outcomes == {"running", "stopped", "error"}
Settles(j) ==
  /\ job[j].at \in Working \ {"starting", "failing"}
  /\ job'[j].at \in {"reporting", "failing"} /\ job'[j].doc = deployment' /\ job'[j].rel = job[j].rel
  /\ \E status \in Outcomes : deployment' = [deployment EXCEPT !.status = status]
  /\ listed' = TRUE /\ UNCHANGED <<release, call>>

Proceeds(j) ==
  /\ \/ /\ job[j].at = "starting" /\ job'[j].at \in {"stopping", "quieting", "preparing"}
        /\ listed /\ job'[j].rel = job[j].rel
     \/ /\ job[j].at \in {"quieting", "restoring"} /\ job'[j].at \in {"restoring", "preparing"}
        /\ job'[j].rel = job[j].rel
     \/ /\ job[j].at = "preparing" /\ job'[j].at \in {"pulling", "upping"}
        /\ job'[j].rel = deployment.current /\ deployment.current \in staged
     \/ /\ job[j].at = "pulling" /\ job'[j].at = "upping"
        /\ job'[j].rel = job[j].rel
  /\ UNCHANGED <<memory, call>>

LEMMA ProceedIs ==
  ASSUME LockInv, NEW j \in Calls, NEW stage, Proceed(j, stage)
  PROVE  /\ JobsAround(j) /\ job'[j].at = stage /\ job'[j].rel = job[j].rel
         /\ UNCHANGED <<memory, call>>
  BY DEF Proceed, JobsAround, LockInv, LockTypes, JobRecord

LEMMA SettleIs ==
  ASSUME LockInv, NEW j \in Calls, NEW status \in Outcomes, NEW stage \in {"reporting", "failing"},
         job[j].at \in Working \ {"starting", "failing"}, Settle(j, status, stage)
  PROVE  JobsAround(j) /\ Settles(j) /\ job'[j].at = stage
  BY DEF Settle, Settles, JobsAround, LockInv, LockTypes, JobRecord

LEMMA EndIs ==
  ASSUME LockInv, NEW j \in Calls, NEW outcome \in {"completed", "failed"},
         job[j].at \in {"starting", "reporting", "failing"}, JobEnds(j, outcome), UNCHANGED memory
  PROVE  JobsAround(j) /\ CallsGoOn /\ Ends(j) /\ job'[j].at = outcome
  BY JobEndsFollows DEF Ends, JobsAround, Working

JobMove(j) ==
  /\ job[j].at \in Working
  /\ JobsAround(j) /\ CallsGoOn
  /\ Ends(j) \/ Settles(j) \/ Proceeds(j)

LEMMA CallsStay == ASSUME UNCHANGED call PROVE CallsGoOn
  BY DEF CallsGoOn

LEMMA JobMoveHolds ==
  ASSUME LockInv, NEW j \in Calls, JobStep(j) \/ JobWriteFails(j)
  PROVE  JobMove(j)
<1>1. ASSUME NEW status \in Outcomes, NEW stage \in {"reporting", "failing"}, Settle(j, status, stage),
             job[j].at \in Working \ {"starting", "failing"}
      PROVE  JobMove(j)
  <2>1. JobsAround(j) /\ Settles(j)
    BY <1>1, SettleIs
  <2>2. CallsGoOn
    BY <2>1, CallsStay DEF Settles
  <2> QED
    BY <1>1, <2>1, <2>2 DEF JobMove
<1>2. ASSUME NEW outcome \in {"completed", "failed"}, JobEnds(j, outcome), UNCHANGED memory,
             job[j].at \in {"starting", "reporting", "failing"}
      PROVE  JobMove(j)
  BY <1>2, EndIs DEF JobMove, Working
<1>3. ASSUME NEW stage, Proceed(j, stage),
             \/ job[j].at = "starting" /\ stage \in {"stopping", "quieting", "preparing"} /\ listed
             \/ job[j].at \in {"quieting", "restoring"} /\ stage \in {"restoring", "preparing"}
             \/ job[j].at = "pulling" /\ stage = "upping"
      PROVE  JobMove(j)
  BY <1>3, ProceedIs, CallsStay DEF JobMove, Proceeds, Working
<1>4. CASE StartJob(j)
  <2>1. \/ JobEnds(j, "completed") /\ UNCHANGED memory
        \/ JobEnds(j, "failed") /\ UNCHANGED memory
        \/ listed /\ \E stage \in {"stopping", "quieting", "preparing"} : Proceed(j, stage)
    <3>1. PICK stage \in {"stopping", "quieting", "preparing"} :
            stage = CASE job[j].act \in {"stop", "delete"} -> "stopping"
                      [] job[j].act = "rollback" /\ job[j].restore -> "quieting"
                      [] OTHER -> "preparing"
      <4>1. CASE job[j].act = "rollback" /\ job[j].restore
        BY <4>1
      <4>2. CASE ~(job[j].act = "rollback" /\ job[j].restore)
        BY <4>2
      <4> QED
        BY <4>1, <4>2
    <3> QED
      BY <1>4, <3>1 DEF StartJob
  <2> QED
    BY <1>2, <1>3, <1>4, <2>1 DEF StartJob
<1>5. CASE StopApp(j) \/ Up(j)
  BY <1>1, <1>5 DEF StopApp, Up, Succeeds, Throws, Working, Outcomes
<1>6. CASE Quiet(j) \/ Restore(j) \/ Pull(j)
  BY <1>1, <1>3, <1>6 DEF Quiet, Restore, Pull, Throws, Working, Outcomes
<1>7. CASE Prepare(j)
  <2>1. CASE Throws(j)
    BY <1>1, <1>7, <2>1 DEF Throws, Prepare, Working, Outcomes
  <2>2. CASE /\ deployment.current \in staged
             /\ job' = [job EXCEPT ![j].rel = deployment.current,
                              ![j].at = IF job[j].act = "restart" THEN "upping" ELSE "pulling"]
             /\ UNCHANGED <<memory, call, lock>>
    <3>1. PICK s \in {"upping", "pulling"} : s = IF job[j].act = "restart" THEN "upping" ELSE "pulling"
      OBVIOUS
    <3>2. JobsAround(j) /\ job'[j].rel = deployment.current /\ job'[j].at = s
      BY <2>2, <3>1 DEF JobsAround, LockInv, LockTypes, JobRecord
    <3> QED
      BY <1>7, <2>2, <3>2, CallsStay DEF JobMove, Proceeds, Prepare, Working
  <2> QED
    BY <1>7, <2>1, <2>2 DEF Prepare
<1>8. CASE Report(j) \/ ReportFailure(j)
  BY <1>2, <1>8 DEF Report, ReportFailure
<1>9. CASE JobWriteFails(j)
  <2>1. CASE job[j].at = "reporting" /\ Throws(j)
    BY <1>1, <2>1 DEF Throws, Working, Outcomes
  <2>2. CASE job[j].at = "failing" /\ JobEnds(j, "failed") /\ UNCHANGED memory
    BY <1>2, <2>2
  <2> QED
    BY <1>9, <2>1, <2>2 DEF JobWriteFails
<1> QED
  BY <1>4, <1>5, <1>6, <1>7, <1>8, <1>9 DEF JobStep

(* Calls open, go on, wait on or are lost.                                  *)
LEMMA CallsOf ==
  ASSUME OneAtATime, LockInv, OneCall, Steps
  PROVE  \/ \E c \in Calls : /\ Alone(c) /\ Opening(c) /\ call[c].at = "idle"
                             /\ \A d \in Calls : call[d].at \in Settled
         \/ \E c \in Calls : /\ Goes(c, call'[c].at) /\ Route(c)
                             /\ call[c].at \notin Settled \cup {"waiting"}
         \/ CallsGoOn
         \/ CrashCalls
<1>1. ASSUME NEW c \in Calls, Calling(c)
      PROVE  /\ Alone(c) /\ Opening(c) /\ call[c].at = "idle"
             /\ \A d \in Calls : call[d].at \in Settled
  BY <1>1, CallOpening
<1>2. ASSUME NEW c \in Calls, CallStep(c) \/ CallWriteFails(c)
      PROVE  /\ Goes(c, call'[c].at) /\ Route(c)
             /\ call[c].at \notin Settled \cup {"waiting"}
  BY <1>2, CallRoute
<1>3. ASSUME NEW j \in Calls, JobStep(j) \/ JobWriteFails(j)
      PROVE  CallsGoOn
  BY <1>3, JobMoveHolds DEF JobMove
<1>4. ASSUME TickLater \/ Recover \/ UNCHANGED vars
      PROVE  CallsGoOn
  BY <1>4, CallsStay DEF TickLater, Recover, vars
<1> QED
  BY <1>1, <1>2, <1>3, <1>4, CrashCallsHold DEF Steps

(* Faults and restarts are counted. *)
LEMMA StepBounds ==
  ASSUME Steps
  PROVE  \/ UNCHANGED bounds
         \/ crashes' = crashes /\ faults' = faults + 1 /\ faults < MaxFaults
         \/ Crash /\ crashes' = crashes + 1 /\ crashes < MaxCrashes /\ faults' = faults
<1>1. ASSUME NEW c \in Calls, Calling(c) \/ CallStep(c) \/ CallWriteFails(c)
      PROVE  UNCHANGED bounds \/ (crashes' = crashes /\ faults' = faults + 1 /\ faults < MaxFaults)
  <2>1. CASE Calling(c)
    BY <2>1, Zenon
       DEF Calling, CreateFromDraft, Promote, Rollback, ExecuteAction, DeleteDeployment
  <2>2. CASE CallStep(c) /\ ~RemoveStorage(c) /\ ~RemoveAppData(c)
    BY <2>2, Zenon
       DEF CallStep, Stage, Save, Register, CaptureSnapshot, DemoteRelease,
           ActivateRelease, RecordRelease, SwitchPointer, SyncVersion, Launch, Close, DiscardJobs,
           Teardown, Unlist
  <2>3. CASE CallWriteFails(c) \/ RemoveStorage(c) \/ RemoveAppData(c)
    BY <2>3, Zenon DEF CallWriteFails, RemoveStorage, RemoveAppData, bounds
  <2> QED
    BY <1>1, <2>1, <2>2, <2>3
<1>2. ASSUME NEW j \in Calls, JobStep(j) \/ JobWriteFails(j)
      PROVE  UNCHANGED bounds \/ (crashes' = crashes /\ faults' = faults + 1 /\ faults < MaxFaults)
  BY <1>2, Zenon
     DEF JobStep, JobWriteFails, StartJob, StopApp, Quiet, Restore, Prepare, Pull, Up, Report, ReportFailure
<1>3. ASSUME TickLater \/ Recover \/ Crash \/ UNCHANGED vars
      PROVE  \/ UNCHANGED bounds
             \/ Crash /\ crashes' = crashes + 1 /\ crashes < MaxCrashes /\ faults' = faults
  BY <1>3, Zenon DEF TickLater, Recover, Crash, vars
<1> QED
  BY <1>1, <1>2, <1>3, Zenon DEF Steps

LEMMA BoundsKept == ASSUME LockInv, Bounded, Steps PROVE Bounded'
<1>0. crashes \in Nat /\ faults \in Nat /\ MaxFaults \in Nat /\ MaxCrashes \in Nat
  BY LifecycleAssumption DEF LockInv, LockTypes
<1> QED
  BY <1>0, StepBounds DEF Bounded, bounds

LEMMA NextSerial ==
  ASSUME OneAtATime, LockInv, SerialInv, Steps
  PROVE  SerialInv'
<1>0. OneCall /\ \A d \in Calls : AskOf(d)
  BY DEF SerialInv
<1>1. ASSUME NEW c \in Calls, Alone(c), Opening(c), \A d \in Calls : call[d].at \in Settled
      PROVE  OneCall' /\ \A d \in Calls : AskOf(d)'
  <2>1. OneCall'
    BY <1>1 DEF OneCall, UnderWay, Alone
  <2>2. \A d \in Calls \ {c} : AskOf(d)'
    BY <1>0, <1>1 DEF AskOf, Alone
  <2>3. AskOf(c)'
    BY <1>1 DEF AskOf, Opening, SwitchTo, Changing, Acting, Uninstalls, Switching
  <2> QED
    BY <2>1, <2>2, <2>3
<1>2. ASSUME NEW c \in Calls, Goes(c, call'[c].at), Route(c), call[c].at \notin Settled
      PROVE  OneCall' /\ \A d \in Calls : AskOf(d)'
  <2>1. OneCall'
    BY <1>0, <1>2, Solo DEF OneCall, UnderWay, Goes, Alone
  <2>2. \A d \in Calls \ {c} : AskOf(d)'
    BY <1>0, <1>2 DEF AskOf, Goes, Alone
  <2>3. AskOf(c)'
    <3>1. call[c].at = "capturing" => call[c].op = "promote"
      BY DEF LockInv, StageInv, RightOp
    <3> QED
      BY <1>0, <1>2, <3>1 DEF AskOf, Goes, Route, Switching, Changing, Acting
  <2> QED
    BY <2>1, <2>2, <2>3
<1>3. ASSUME CallsGoOn
      PROVE  OneCall' /\ \A d \in Calls : AskOf(d)'
  BY <1>0, <1>3 DEF OneCall, UnderWay, CallsGoOn, AskOf, Settled, Granted, Switching
<1>4. ASSUME CrashCalls
      PROVE  OneCall' /\ \A d \in Calls : AskOf(d)'
  BY <1>0, <1>4 DEF OneCall, UnderWay, CrashCalls, AskOf, Switching
<1>5. OneCall' /\ \A d \in Calls : AskOf(d)'
  BY <1>0, <1>1, <1>2, <1>3, <1>4, CallsOf
<1>6. Bounded'
  BY BoundsKept DEF SerialInv
<1> QED
  BY <1>5, <1>6 DEF SerialInv

-----------------------------------------------------------------------------
(* Before the deployment is created there is nothing. *)
Untouched == ~Installed /\ \A c \in Calls : call[c].op # "create"

Nothing ==
  /\ ~listed /\ meta = Absent /\ deployment = Absent /\ pointer = NoRelease
  /\ \A r \in Releases : release[r] = "none" /\ stored[r] = "none"
  /\ \A c \in Calls : call[c].op = "none"
UntouchedInv == Untouched => Nothing

LEMMA NoCallsNoJobs ==
  ASSUME LockInv, \A c \in Calls : call[c].op = "none"
  PROVE  \A c \in Calls : call[c].at = "idle" /\ job[c].at = "none"
  BY DEF LockInv, StageInv, RightOp, Late

LEMMA InitUntouched == Init => UntouchedInv
  BY DEF Init, UntouchedInv, Untouched, Nothing, Absent, NoCall

LEMMA NextUntouched ==
  ASSUME OneAtATime, LockInv, OneCall, UntouchedInv, Steps
  PROVE  UntouchedInv'
<1> SUFFICES ASSUME Untouched' PROVE Nothing'
  BY DEF UntouchedInv
<1>1. Untouched
  <2>1. \A c \in Calls : call[c].op = "create" => call'[c].op = "create"
    <3>1. \A c \in Calls : call[c].at = "idle" => call[c].op = "none"
      BY DEF LockInv, StageInv, RightOp
    <3> QED
      BY <3>1, CallsOf DEF Alone, Goes, CallsGoOn, CrashCalls
  <2> QED
    BY <2>1 DEF Untouched
<1>2. Nothing
  BY <1>1 DEF UntouchedInv
<1>3. \A c \in Calls : call[c].at = "idle" /\ job[c].at = "none"
  BY <1>2, NoCallsNoJobs DEF Nothing
<1>4. ASSUME NEW c \in Calls, Calling(c)
      PROVE  FALSE
  BY <1>1, <1>2, <1>4, CallOpening
     DEF Untouched, Opening, Nothing, Promote, ExecuteAction, DeleteDeployment
<1>5. ASSUME NEW c \in Calls, CallStep(c) \/ CallWriteFails(c)
      PROVE  FALSE
  BY <1>3, <1>5, CallRoute DEF Settled
<1>6. ASSUME NEW j \in Calls, JobStep(j) \/ JobWriteFails(j)
      PROVE  FALSE
  BY <1>3, <1>6, JobMoveHolds DEF JobMove, Working
<1>7. CASE TickLater \/ Recover \/ UNCHANGED vars
  <2>1. UNCHANGED <<memory, records, call>>
    BY <1>7, Zenon DEF TickLater, Recover, vars, disk
  <2> QED
    BY <1>2, <2>1 DEF Nothing, memory, records
<1>8. CASE Crash
  <2>1. \A c \in Calls : call'[c].op = call[c].op
    BY <1>8, CrashCallsHold DEF CrashCalls
  <2>2. /\ listed' = FALSE /\ deployment' = Absent /\ UNCHANGED <<meta, pointer, stored>>
        /\ release' = [r \in Releases |-> "none"]
    BY <1>2, <1>8 DEF Crash, Nothing, disk, records
  <2> QED
    BY <1>2, <2>1, <2>2 DEF Nothing, Releases
<1> QED
  BY <1>4, <1>5, <1>6, <1>7, <1>8 DEF Steps

-----------------------------------------------------------------------------
(* Before the first restart, a call that changes releases or uninstalls has *)
(* the deployment to itself until it starts its own job.                    *)
HasTurn(c) == call[c].at \notin Settled \cup {"closing"} /\ call[c].op \in Changing \cup {"uninstall"}
TurnInv == crashes = 0 =>
  /\ ~cold
  /\ \A c \in Calls : HasTurn(c) => \A j \in Calls : job[j].at \in Finished

LEMMA InitTurn == Init => TurnInv
  BY DEF Init, TurnInv, HasTurn, NoCall, Settled

LEMMA JobsFinished ==
  ASSUME JobsGoOn, \A j \in Calls : job[j].at \in Finished
  PROVE  \A j \in Calls : job'[j].at \in Finished
  BY DEF JobsGoOn, Finished

LEMMA NextTurn ==
  ASSUME OneAtATime, LockInv, SerialInv, UntouchedInv, TurnInv, Steps
  PROVE  TurnInv'
<1> SUFFICES ASSUME crashes' = 0
             PROVE  ~cold' /\ \A c \in Calls : HasTurn(c)' => \A j \in Calls : job'[j].at \in Finished
  BY DEF TurnInv
<1>0. OneCall /\ crashes \in Nat
  BY DEF SerialInv, LockInv, LockTypes
<1>1. ASSUME NEW c \in Calls, Calling(c), crashes = 0
      PROVE  ~cold' /\ \A d \in Calls : HasTurn(d)' => \A j \in Calls : job'[j].at \in Finished
  <2>1. /\ \A d \in Calls : call[d].at \in Settled
        /\ Alone(c) /\ Opening(c) /\ UNCHANGED <<job, cold, bounds>>
    BY <1>1, CallOpening
  <2>2. ~cold'
    BY <1>1, <2>1 DEF TurnInv
  <2>3. CASE CreateFromDraft(c)
    <3>1. \A d \in Calls : job[d].at = "none"
      BY <2>3, NoCallsNoJobs DEF CreateFromDraft, Untouched, UntouchedInv, Nothing
    <3> QED
      BY <2>1, <2>2, <3>1 DEF Finished
  <2>4. CASE ~Busy
    BY <1>1, <2>1, <2>2, <2>4, IdleJobs
  <2>5. CASE call'[c].op \in Acting \cup {"forceUninstall"}
    BY <2>1, <2>2, <2>5 DEF HasTurn, Alone, Changing, Acting
  <2> QED
    BY <2>1, <2>3, <2>4, <2>5 DEF Opening, Promote, Uninstalls
<1>2. ASSUME NEW c \in Calls, CallStep(c) \/ CallWriteFails(c), crashes = 0
      PROVE  ~cold' /\ \A d \in Calls : HasTurn(d)' => \A j \in Calls : job'[j].at \in Finished
  <2>1. /\ call[c].at \notin Settled \cup {"waiting"}
        /\ Goes(c, call'[c].at) /\ Route(c)
        /\ JobsGoOn \/ Launch(c)
    BY <1>0, <1>2, CallRoute
  <2>2. cold' = cold
    BY <1>2, Zenon
       DEF CallStep, CallWriteFails, Stage, Save, Register, CaptureSnapshot, DemoteRelease,
           ActivateRelease, RecordRelease, SwitchPointer, SyncVersion, Launch, Close, DiscardJobs,
           Teardown, Unlist, RemoveStorage, RemoveAppData, table
  <2>3. ASSUME NEW d \in Calls, HasTurn(d)'
        PROVE  d = c
    BY <1>0, <2>1, <2>3, Solo DEF HasTurn, Goes, Alone
  <2>4. HasTurn(c)' => HasTurn(c) /\ ~Launch(c)
    <3>1. call[c].at = "closing" => call'[c].at \in Settled
      BY <2>1 DEF Route, Settled
    <3>2. ASSUME Launch(c)
          PROVE  call'[c].at \in Settled \cup {"closing"}
      <4>1. call' = Ended(call, c, "returned") \/ call' = [call EXCEPT ![c].at = "closing", ![c].doc = deployment']
        BY <3>2 DEF Launch
      <4>2. Goes(c, "returned") \/ Goes(c, "closing")
        BY <4>1, DocGoes, EndGoes
      <4> QED
        BY <4>2 DEF Settled, Goes
    <3> QED
      BY <2>1, <3>1, <3>2 DEF HasTurn, Goes
  <2> QED
    BY <1>2, <2>1, <2>2, <2>3, <2>4, JobsFinished DEF TurnInv
<1>3. ASSUME NEW j \in Calls, JobStep(j) \/ JobWriteFails(j), crashes = 0
      PROVE  ~cold' /\ \A d \in Calls : HasTurn(d)' => \A k \in Calls : job'[k].at \in Finished
  <2>1. job[j].at \in Working /\ CallsGoOn
    BY <1>3, JobMoveHolds DEF JobMove
  <2>2. cold' = cold
    BY <1>3, Zenon
       DEF JobStep, JobWriteFails, StartJob, StopApp, Quiet, Restore, Prepare, Pull, Up, Report, ReportFailure, table
  <2>3. \A d \in Calls : ~HasTurn(d)
    BY <1>3, <2>1 DEF TurnInv, Working, Finished
  <2>4. \A d \in Calls : ~HasTurn(d)'
    BY <2>1, <2>3 DEF HasTurn, CallsGoOn, Settled
  <2> QED
    BY <1>3, <2>2, <2>4 DEF TurnInv
<1>4. ASSUME TickLater \/ UNCHANGED vars, crashes = 0
      PROVE  ~cold' /\ \A d \in Calls : HasTurn(d)' => \A k \in Calls : job'[k].at \in Finished
  <2>1. cold' = cold /\ call' = call /\ JobsGoOn
    BY <1>4, TickLaterFollows, JobsStay DEF TickLater, vars, table
  <2> QED
    BY <1>4, <2>1, JobsFinished DEF TurnInv, HasTurn
<1>5. crashes = 0 /\ ~Crash /\ ~Recover
  <2>1. crashes' = crashes \/ crashes' = crashes + 1
    BY StepBounds DEF bounds
  <2>2. crashes = 0
    BY <1>0, <2>1
  <2>3. ~Crash
    <3>1. Crash => crashes' = crashes + 1
      BY Zenon DEF Crash
    <3> QED
      BY <1>0, <3>1
  <2> QED
    BY <2>2, <2>3 DEF Recover, TurnInv
<1> QED
  BY <1>1, <1>2, <1>3, <1>4, <1>5 DEF Steps

-----------------------------------------------------------------------------
(* A job works towards the active release. *)
Switched == {"recording", "pointing", "syncing", "launching"}
Active   == {"queued"} \cup Working

TargetOf(j) ==
  /\ job[j].at \in Active /\ job[j].goal # NoRelease => deployment.current = job[j].goal
  /\ job[j].at \in {"pulling", "upping"} =>
       job[j].rel = deployment.current /\ deployment.current \in Releases
TargetInv ==
  /\ \A c \in Calls :
       call[c].at \in Switched /\ call[c].op \in Changing => deployment.current = call[c].rel
  /\ crashes = 0 => \A j \in Calls : TargetOf(j)

LEMMA LaunchFollows ==
  ASSUME LockInv, NEW c \in Calls, Launch(c)
  PROVE  /\ \A j \in Calls \ {c} :
              /\ job'[j].act = job[j].act /\ job'[j].goal = job[j].goal
              /\ job'[j].rel = job[j].rel /\ job'[j].doc = job[j].doc
              /\ \/ job'[j].at = job[j].at
                 \/ job[j].at = "queued" /\ job'[j].at = "starting"
         /\ job'[c].act = JobOf(c).act /\ job'[c].goal = call[c].rel
         /\ job'[c].at \in {"queued", "starting"} /\ job'[c].doc = Absent
<1>1. PICK jb : jb = [job EXCEPT ![c] = JobOf(c)]
  OBVIOUS
<1>2. PICK q : q = Append(queue, c)
  OBVIOUS
<1>3. /\ job \in [Calls -> JobRecord] /\ queue \in Seq(Calls) /\ JobOf(c) \in JobRecord
      /\ JobOf(c).at = "queued" /\ JobOf(c).goal = call[c].rel /\ JobOf(c).doc = Absent
  BY JobOfType DEF LockInv, LockTypes, JobOf
<1>4. /\ jb \in [Calls -> JobRecord] /\ jb[c] = JobOf(c)
      /\ \A j \in Calls \ {c} : jb[j] = job[j]
  BY <1>1, <1>3
<1>5. Head(q) \in Calls /\ jb[Head(q)].at = "queued"
  <2>1. CASE queue = <<>>
    <3>1. Head(q) = c
      BY <1>2, <2>1
    <3> QED
      BY <1>3, <1>4, <3>1
  <2>2. CASE queue # <<>>
    <3>1. Head(q) = Head(queue)
      BY <1>2, <1>3, <2>2, AppendProperties, HeadTailProperties, LenProperties, EmptySeq
    <3>2. Head(queue) \in Calls /\ job[Head(queue)].at = "queued"
      BY <2>2, QueueHead
    <3> QED
      BY <1>3, <1>4, <3>1, <3>2
  <2> QED
    BY <2>1, <2>2
<1>6. Follows(jb)
  <2>1. Dispatch(q, jb)
    BY <1>1, <1>2 DEF Launch
  <2> QED
    BY <1>4, <1>5, <2>1, DispatchFollows
<1> QED
  BY <1>3, <1>4, <1>6 DEF Follows

LEMMA CurrentKept ==
  ASSUME LockInv, Steps, ~Crash
  PROVE  \/ deployment'.current = deployment.current
         \/ \E c \in Calls : CreateFromDraft(c)
         \/ \E c \in Calls : /\ ActivateRelease(c) /\ deployment'.current = call[c].rel
                             /\ Goes(c, "recording")
<1>0. deployment \in Docs
  BY DEF LockInv, RecordTypes
<1>1. ASSUME NEW c \in Calls, Calling(c) \/ CallWriteFails(c)
      PROVE  deployment'.current = deployment.current \/ CreateFromDraft(c)
  BY <1>1, Zenon DEF Calling, CallWriteFails, Promote, Rollback, ExecuteAction, DeleteDeployment, memory
<1>2. ASSUME NEW c \in Calls, ActivateRelease(c)
      PROVE  deployment'.current = call[c].rel /\ Goes(c, "recording")
  BY <1>0, <1>2, DocGoes DEF ActivateRelease, Docs
<1>3. ASSUME NEW c \in Calls, Launch(c) \/ SwitchPointer(c)
      PROVE  deployment'.current = deployment.current
  BY <1>0, <1>3 DEF Launch, SwitchPointer, Docs
<1>4. ASSUME NEW c \in Calls, CallStep(c), ~ActivateRelease(c), ~Launch(c), ~SwitchPointer(c)
      PROVE  deployment' = deployment
  BY <1>4, Zenon
     DEF CallStep, Stage, Save, Register, CaptureSnapshot, DemoteRelease, RecordRelease, SyncVersion,
         Close, DiscardJobs, Teardown, Unlist, RemoveStorage, RemoveAppData, memory
<1>5. ASSUME NEW j \in Calls, JobStep(j) \/ JobWriteFails(j)
      PROVE  deployment'.current = deployment.current
  BY <1>0, <1>5, JobMoveHolds DEF JobMove, Ends, Settles, Proceeds, memory, Docs
<1>6. ASSUME TickLater \/ Recover \/ UNCHANGED vars
      PROVE  deployment' = deployment
  BY <1>6, Zenon DEF TickLater, Recover, vars, memory
<1> QED
  BY <1>1, <1>2, <1>3, <1>4, <1>5, <1>6 DEF Steps

LEMMA InitTarget == Init => TargetInv
  BY DEF Init, TargetInv, TargetOf, NoCall, NoJob, Switched, Active, Working

(* Jobs that go on, while the active release stays or none is at work.      *)
LEMMA TargetsKept ==
  ASSUME JobsGoOn, NEW j \in Calls, TargetOf(j),
         deployment'.current = deployment.current \/ job[j].at \in Finished
  PROVE  TargetOf(j)'
  BY DEF JobsGoOn, TargetOf, Active, Working, Finished, Releases

LEMMA NextTargetCalls ==
  ASSUME OneAtATime, LockInv, SerialInv, UntouchedInv, TargetInv, Steps
  PROVE  \A c \in Calls :
           call'[c].at \in Switched /\ call'[c].op \in Changing => deployment'.current = call'[c].rel
<1>0. OneCall
  BY DEF SerialInv
<1>1. CASE Crash
  BY <1>1, CrashCallsHold DEF CrashCalls, Settled, Switched
<1>2. CASE \E c \in Calls : CreateFromDraft(c)
  BY <1>2, CallOpening DEF Alone, Opening, Switched, Settled, SwitchTo, Changing, Acting, Calling
<1>3. CASE \E c \in Calls : ActivateRelease(c)
  <2>1. PICK c \in Calls : ActivateRelease(c)
    BY <1>3
  <2>2. Goes(c, "recording") /\ deployment'.current = call[c].rel
    BY <2>1, DocGoes DEF ActivateRelease, LockInv, RecordTypes, Docs
  <2> QED
    BY <1>0, <2>1, <2>2, Solo DEF Goes, Alone, Switched, Settled, ActivateRelease
<1>4. ASSUME ~Crash, \A d \in Calls : ~ActivateRelease(d), NEW c \in Calls,
             call'[c].at \in Switched, call'[c].op \in Changing
      PROVE  call[c].at \in Switched /\ call[c].op = call'[c].op /\ call[c].rel = call'[c].rel
  <2>1. ASSUME NEW d \in Calls, Calling(d)
        PROVE  FALSE
    BY <1>4, <2>1, CallOpening DEF Alone, Opening, Switched, Settled, SwitchTo, Changing, Acting
  <2>2. ASSUME NEW d \in Calls, CallStep(d) \/ CallWriteFails(d)
        PROVE  call[c].at \in Switched /\ call[c].op = call'[c].op /\ call[c].rel = call'[c].rel
    <3>1. CASE CallWriteFails(d)
      BY <1>4, <3>1, EndGoes DEF CallWriteFails, Goes, Alone, Switched
    <3>2. CASE CallStep(d)
      <4>1. call[d].at # "activating"
        BY <1>4, <3>2 DEF CallStep, Stage, Save, Register, CaptureSnapshot, DemoteRelease,
             RecordRelease, SwitchPointer, SyncVersion, Launch, Close, DiscardJobs, Teardown,
             Unlist, RemoveStorage, RemoveAppData
      <4> QED
        BY <1>0, <1>4, <3>2, <4>1, CallRoute DEF Goes, Alone, Route, Switched
    <3> QED
      BY <2>2, <3>1, <3>2
  <2>3. ASSUME CallsGoOn
        PROVE  call[c].at \in Switched /\ call[c].op = call'[c].op /\ call[c].rel = call'[c].rel
    BY <1>4, <2>3 DEF CallsGoOn, Switched, Granted
  <2>4. ASSUME TickLater \/ Recover \/ UNCHANGED vars
        PROVE  CallsGoOn
    BY <2>4, CallsStay DEF TickLater, Recover, vars
  <2> QED
    BY <1>4, <2>1, <2>2, <2>3, <2>4, JobMoveHolds DEF Steps, JobMove
<1>5. ASSUME deployment'.current = deployment.current, ~Crash, \A d \in Calls : ~ActivateRelease(d)
      PROVE  \A c \in Calls :
               call'[c].at \in Switched /\ call'[c].op \in Changing => deployment'.current = call'[c].rel
  BY <1>4, <1>5 DEF TargetInv
<1> QED
  BY <1>1, <1>2, <1>3, <1>5, CurrentKept

LEMMA NextTarget ==
  ASSUME OneAtATime, LockInv, SerialInv, UntouchedInv, TurnInv, TargetInv, Steps
  PROVE  TargetInv'
<1> SUFFICES ASSUME crashes' = 0 PROVE \A j \in Calls : TargetOf(j)'
  BY NextTargetCalls DEF TargetInv
<1>0. OneCall /\ crashes = 0 /\ ~Crash
  <2>1. crashes \in Nat /\ (crashes' = crashes \/ crashes' = crashes + 1)
    BY StepBounds DEF bounds, LockInv, LockTypes
  <2>2. Crash => crashes' = crashes + 1
    BY Zenon DEF Crash
  <2> QED
    BY <2>1, <2>2 DEF SerialInv
<1>1. \A j \in Calls : TargetOf(j)
  BY <1>0 DEF TargetInv
<1>2. CASE \E c \in Calls : CreateFromDraft(c)
  <2>1. PICK c \in Calls : CreateFromDraft(c)
    BY <1>2
  <2>2. \A j \in Calls : job[j].at = "none"
    BY <2>1, NoCallsNoJobs DEF CreateFromDraft, Untouched, UntouchedInv, Nothing
  <2>3. job' = job
    BY <2>1 DEF CreateFromDraft
  <2> QED
    BY <2>2, <2>3 DEF TargetOf, Active, Working
<1>3. CASE \E c \in Calls : ActivateRelease(c)
  <2>1. PICK c \in Calls : ActivateRelease(c)
    BY <1>3
  <2>2. HasTurn(c)
    BY <2>1 DEF SerialInv, AskOf, ActivateRelease, HasTurn, Switching, Settled
  <2>3. job' = job /\ \A j \in Calls : job[j].at \in Finished
    BY <1>0, <2>1, <2>2 DEF ActivateRelease, TurnInv
  <2> QED
    BY <2>3 DEF TargetOf, Active, Working, Finished
<1>4. ASSUME deployment'.current = deployment.current
      PROVE  \A j \in Calls : TargetOf(j)'
  <2>1. ASSUME JobsGoOn
        PROVE  \A j \in Calls : TargetOf(j)'
    BY <1>1, <1>4, <2>1, TargetsKept
  <2>2. ASSUME NEW c \in Calls, Launch(c)
        PROVE  \A j \in Calls : TargetOf(j)'
    <3>1. call[c].op \in Changing => deployment.current = call[c].rel
      BY <2>2 DEF Launch, TargetInv, Switched
    <3>2. call[c].op \notin Changing => call[c].rel = NoRelease
      BY <2>2 DEF Launch, SerialInv, AskOf
    <3>3. TargetOf(c)'
      BY <1>4, <2>2, <3>1, <3>2, LaunchFollows DEF TargetOf
    <3>4. \A j \in Calls \ {c} : TargetOf(j)'
      BY <1>1, <1>4, <2>2, LaunchFollows DEF TargetOf, Active, Working, Releases
    <3> QED
      BY <3>3, <3>4
  <2>3. ASSUME NEW j \in Calls, JobStep(j) \/ JobWriteFails(j)
        PROVE  \A k \in Calls : TargetOf(k)'
    <3>1. JobMove(j)
      BY <2>3, JobMoveHolds
    <3>2. \A k \in Calls \ {j} : TargetOf(k)'
      BY <1>1, <1>4, <3>1 DEF JobMove, JobsAround, TargetOf, Active, Working, Releases
    <3>3. staged \subseteq Releases
      BY DEF LockInv, RecordTypes
    <3>4. TargetOf(j)'
      BY <1>1, <1>4, <3>1, <3>3
         DEF JobMove, JobsAround, Ends, Settles, Proceeds, TargetOf, Active, Working, Releases
    <3> QED
      BY <3>2, <3>4
  <2>4. ASSUME TickLater \/ UNCHANGED vars
        PROVE  JobsGoOn
    BY <2>4, TickLaterFollows, JobsStay DEF vars
  <2>5. ASSUME NEW c \in Calls, Calling(c)
        PROVE  JobsGoOn
    BY <2>5, CallOpening, JobsStay
  <2>6. ~Recover
    BY <1>0 DEF TurnInv, Recover
  <2> QED
    BY <1>0, <2>1, <2>2, <2>3, <2>4, <2>5, <2>6, CallRoute DEF Steps
<1> QED
  BY <1>0, <1>2, <1>3, <1>4, CurrentKept

-----------------------------------------------------------------------------
(* The job that brings up its target. *)
PathInv == SerialInv /\ UntouchedInv /\ TurnInv /\ TargetInv

LEMMA NextPath ==
  ASSUME OneAtATime, LockInv, PathInv, [Next]_vars
  PROVE  PathInv'
<1>1. Steps /\ OneCall
  BY NextSteps DEF PathInv, SerialInv
<1> QED
  BY <1>1, NextSerial, NextUntouched, NextTurn, NextTarget DEF PathInv

LEMMA PathHolds == ASSUME OneAtATime PROVE Spec => []PathInv
<1>1. Init => PathInv
  BY InitSerial, InitUntouched, InitTurn, InitTarget DEF PathInv
<1>2. LockInv /\ PathInv /\ [Next]_vars => PathInv'
  BY NextPath
<1>3. IInv => LockInv
  BY DEF IInv
<1> QED
  BY <1>1, <1>2, <1>3, LockInvHolds, PTL DEF Spec

LEMMA RecoverFollows == ASSUME LockInv, Recover PROVE JobsGoOn
<1>1. PICK q \in [1..Cardinality(Pending) -> Pending] : Dispatch(q, job)
  BY DEF Recover
<1>2. /\ Pending \subseteq Calls /\ \A j \in Pending : job[j].at = "queued"
      /\ Cardinality(Pending) \in Nat
  <2>1. Pending \subseteq Calls /\ \A j \in Pending : job[j].at = "queued"
    BY DEF Pending
  <2> QED
    BY <2>1, LifecycleAssumption, FS_Subset, FS_CardinalityType
<1>3. q # <<>> => Head(q) \in Pending
  <2>1. q \in Seq(Pending)
    BY <1>2, IsASeq
  <2> QED
    BY <2>1, HeadTailProperties
<1>4. job \in [Calls -> JobRecord]
  BY DEF LockInv, LockTypes
<1> QED
  BY <1>1, <1>2, <1>3, <1>4, DispatchFollows, FollowsGoOn

(* A restart fails the jobs at work, but one that was starting may be       *)
(* pending still.                                                           *)
CrashJobs ==
  \A j \in Calls :
    /\ job'[j].act = job[j].act /\ job'[j].goal = job[j].goal
    /\ \/ job'[j] = job[j] /\ job[j].at \in Finished \cup {"queued"}
       \/ job[j].at \in Working /\ job'[j].at \in {"queued", "failed"}

LEMMA CrashJobsHold == ASSUME LockInv, Crash PROVE CrashJobs
<1>1. PICK resumed : job' = [j \in Calls |->
        IF job[j].at \in Finished \cup {"queued"} THEN job[j]
        ELSE [job[j] EXCEPT !.at = IF j \in resumed THEN "queued" ELSE "failed", !.doc = Absent]]
  BY DEF Crash
<1>2. SUFFICES ASSUME NEW j \in Calls
               PROVE  /\ job'[j].act = job[j].act /\ job'[j].goal = job[j].goal
                      /\ \/ job'[j] = job[j] /\ job[j].at \in Finished \cup {"queued"}
                         \/ job[j].at \in Working /\ job'[j].at \in {"queued", "failed"}
  BY DEF CrashJobs
<1>3. job[j] \in JobRecord
  BY DEF LockInv, LockTypes
<1>4. CASE job[j].at \in Finished \cup {"queued"}
  BY <1>1, <1>4
<1>5. CASE job[j].at \notin Finished \cup {"queued"}
  <2>1. PICK s \in {"queued", "failed"} : job'[j] = [job[j] EXCEPT !.at = s, !.doc = Absent]
    BY <1>1, <1>5
  <2>2. job'[j].act = job[j].act /\ job'[j].goal = job[j].goal /\ job'[j].at = s
    BY <1>3, <2>1 DEF JobRecord
  <2>3. job[j].at \in Working
    BY <1>3, <1>5 DEF JobRecord, JobStages, Finished
  <2> QED
    BY <2>2, <2>3
<1> QED
  BY <1>4, <1>5

(* A job that comes up has been through composeUp. *)
LEMMA ComesUpIsUp ==
  ASSUME LockInv, OneCall, NEW j \in Calls, Steps, ComesUp(j)
  PROVE  Up(j) /\ containers' = job[j].rel
<1>1. job[j].at = "upping" /\ job'[j].at = "reporting"
  BY DEF ComesUp
<1>2. ASSUME JobsGoOn
      PROVE  FALSE
  BY <1>1, <1>2 DEF JobsGoOn
<1>3. ASSUME NEW c \in Calls, Launch(c)
      PROVE  FALSE
  BY <1>1, <1>3, LaunchFollows
<1>4. ASSUME NEW c \in Calls, Calling(c)
      PROVE  JobsGoOn
  <2>1. UNCHANGED job
    BY <1>4, CallingOpens
  <2> QED
    BY <2>1, JobsStay
<1>5. ASSUME Crash
      PROVE  FALSE
  BY <1>1, <1>5, CrashJobsHold DEF CrashJobs
<1>6. PICK k \in Calls : JobStep(k) \/ JobWriteFails(k)
  BY <1>2, <1>3, <1>4, <1>5, CallRoute, TickLaterFollows, RecoverFollows, JobsStay DEF Steps, vars
<1>7. k = j
  BY <1>1, <1>6, JobMoveHolds DEF JobMove, JobsAround
<1>8. Up(j)
  BY <1>1, <1>6, <1>7
     DEF JobStep, JobWriteFails, StartJob, StopApp, Quiet, Restore, Prepare, Pull, Report, ReportFailure
<1>9. ~Throws(j)
  BY <1>1 DEF Throws, Settle, LockInv, LockTypes, JobRecord
<1> QED
  BY <1>8, <1>9 DEF Up

(* The job of a deploy or rollback brings up the release it was created for *)
(* (assertNotBusy, and the target guard of runLifecycleJob), when calls are *)
(* answered one by one and no restart leaves a job the server has forgotten.*)
THEOREM JobBringsUpItsTargetHolds ==
  ASSUME OneAtATime, MaxCrashes = 0
  PROVE  Spec => JobBringsUpItsTarget
<1>1. ASSUME LockInv, PathInv, [Next]_vars, NEW j \in Calls, ComesUp(j), job[j].goal # NoRelease
      PROVE  containers' = job[j].goal
  <2>1. Steps /\ OneCall /\ crashes = 0
    BY <1>1, NextSteps DEF PathInv, SerialInv, Bounded, LockInv, LockTypes
  <2>2. containers' = job[j].rel
    BY <1>1, <2>1, ComesUpIsUp
  <2>3. TargetOf(j) /\ job[j].at = "upping"
    BY <1>1, <2>1 DEF PathInv, TargetInv, ComesUp
  <2> QED
    BY <1>1, <2>2, <2>3 DEF TargetOf, Active, Working
<1>2. LockInv /\ PathInv /\ [Next]_vars =>
        [\A j \in Calls : ComesUp(j) /\ job[j].goal # NoRelease => containers' = job[j].goal]_vars
  BY <1>1
<1>3. IInv => LockInv
  BY DEF IInv
<1> QED
  BY <1>2, <1>3, LockInvHolds, PathHolds, PTL DEF Spec, JobBringsUpItsTarget

-----------------------------------------------------------------------------
(* Only an uninstall that has got past the teardown unlists the deployment, *)
(* and no job works on one that is not listed.                              *)
Leaving == {"wiping", "reclaiming"}
Under(c) == call[c].at \notin Settled

ListedInv ==
  /\ \A c \in Calls : Under(c) /\ call[c].at \notin Leaving => listed
  /\ \A j \in Calls : job[j].at \in Working \ {"starting"} => listed

(* What it leaves: nothing that a job or a restart would bring back.        *)
GoneInv == faults = 0 =>
  \A c \in Calls : call[c].op = "uninstall" =>
    /\ call[c].at \in Leaving \cup {"returned"} => ~listed
    /\ call[c].at \in {"reclaiming", "returned"} => meta = Absent
    /\ call[c].at = "returned" => \A d \in Calls : ~Under(d)

LEMMA InitListed == Init => ListedInv /\ GoneInv
  BY DEF Init, ListedInv, GoneInv, NoCall, NoJob, Under, Settled, Working

LEMMA ListedKept ==
  ASSUME LockInv, Steps, ~Crash
  PROVE  \/ listed' = listed
         \/ listed' = TRUE
         \/ \E c \in Calls : Unlist(c)
<1>1. ASSUME NEW c \in Calls, Calling(c) \/ CallWriteFails(c)
      PROVE  listed' = listed \/ listed' = TRUE
  BY <1>1, Zenon DEF Calling, CallWriteFails, CreateFromDraft, Promote, Rollback, ExecuteAction,
     DeleteDeployment, memory
<1>2. ASSUME NEW c \in Calls, CallStep(c), ~Unlist(c)
      PROVE  listed' = listed \/ listed' = TRUE
  BY <1>2, Zenon
     DEF CallStep, Stage, Save, Register, CaptureSnapshot, DemoteRelease, ActivateRelease, RecordRelease,
         SwitchPointer, SyncVersion, Launch, Close, DiscardJobs, Teardown, RemoveStorage, RemoveAppData, memory
<1>3. ASSUME NEW j \in Calls, JobStep(j) \/ JobWriteFails(j)
      PROVE  listed' = listed \/ listed' = TRUE
  BY <1>3, JobMoveHolds DEF JobMove, Ends, Settles, Proceeds, memory
<1>4. ASSUME TickLater \/ Recover \/ UNCHANGED vars
      PROVE  listed' = listed
  BY <1>4, Zenon DEF TickLater, Recover, vars, memory
<1> QED
  BY <1>1, <1>2, <1>3, <1>4 DEF Steps

LEMMA NextListed ==
  ASSUME OneAtATime, Unforced, LockInv, AskedInv, SerialInv, ListedInv, Steps
  PROVE  ListedInv'
<1>0. OneCall
  BY DEF SerialInv
<1>1. ASSUME NEW c \in Calls, Calling(c)
      PROVE  ListedInv'
  <2>1. Alone(c) /\ UNCHANGED job /\ \A d \in Calls : ~Under(d)
    BY <1>1, CallOpening DEF Under
  <2>2. listed'
    <3>1. CreateFromDraft(c) \/ (listed /\ listed' = listed)
      BY <1>1, Zenon DEF Calling, Promote, Rollback, ExecuteAction, DeleteDeployment, memory
    <3> QED
      BY <3>1 DEF CreateFromDraft
  <2> QED
    BY <2>1, <2>2 DEF ListedInv, Alone, Under
<1>2. ASSUME NEW c \in Calls, Unlist(c)
      PROVE  ListedInv'
  <2>1. Goes(c, "wiping") /\ UNCHANGED job /\ call[c].at = "deprovisioning"
    BY <1>2, StageGoes DEF Unlist
  <2>2. \A j \in Calls : job[j].at \notin Working
    BY <2>1, TearingHolds DEF Tearing
  <2>3. \A d \in Calls \ {c} : ~Under(d)
    BY <1>0, <2>1, Solo DEF Under, Settled
  <2> QED
    BY <2>1, <2>2, <2>3 DEF ListedInv, Goes, Alone, Leaving, Under
<1>3. ASSUME NEW c \in Calls, CallStep(c) \/ CallWriteFails(c), listed' = listed \/ listed' = TRUE
      PROVE  ListedInv'
  <2>1. /\ Goes(c, call'[c].at) /\ Route(c) /\ Under(c)
        /\ JobsGoOn \/ Launch(c)
    BY <1>0, <1>3, CallRoute DEF Under
  <2>2. \A j \in Calls : job'[j].at \in Working \ {"starting"} => job[j].at = job'[j].at
    BY <2>1, LaunchFollows DEF JobsGoOn, Working
  <2>3. \A d \in Calls : Under(d)' /\ call'[d].at \notin Leaving => Under(d) /\ call[d].at \notin Leaving
    BY <2>1 DEF Goes, Alone, Route, Under, Settled, Leaving
  <2>4. listed => listed'
    BY <1>3
  <2> QED
    BY <2>2, <2>3, <2>4 DEF ListedInv
<1>4. ASSUME NEW j \in Calls, JobStep(j) \/ JobWriteFails(j)
      PROVE  ListedInv'
  <2>1. JobMove(j)
    BY <1>4, JobMoveHolds
  <2>2. /\ listed => listed'
        /\ job'[j].at \in Working \ {"starting"} => listed'
        /\ \A k \in Calls \ {j} : job'[k].at \in Working \ {"starting"} => job[k].at = job'[k].at
    BY <2>1 DEF JobMove, JobsAround, Ends, Settles, Proceeds, memory, ListedInv, Working
  <2>3. \A d \in Calls : Under(d)' /\ call'[d].at \notin Leaving => Under(d) /\ call[d].at \notin Leaving
    BY <2>1 DEF JobMove, CallsGoOn, Under, Settled, Leaving
  <2> QED
    BY <2>2, <2>3 DEF ListedInv
<1>5. ASSUME TickLater \/ Recover \/ UNCHANGED vars
      PROVE  ListedInv'
  <2>1. listed' = listed /\ call' = call
    BY <1>5, Zenon DEF TickLater, Recover, vars, memory
  <2>2. JobsGoOn
    BY <1>5, TickLaterFollows, RecoverFollows, JobsStay DEF vars
  <2> QED
    BY <2>1, <2>2 DEF ListedInv, JobsGoOn, Follows, Working, Under
<1>6. ASSUME Crash
      PROVE  ListedInv'
  BY <1>6, CrashCallsHold, CrashJobsHold DEF CrashCalls, CrashJobs, ListedInv, Under, Working, Finished
<1> QED
  BY <1>1, <1>2, <1>3, <1>4, <1>5, <1>6, ListedKept DEF Steps

LEMMA UninstallStep ==
  ASSUME LockInv, SerialInv, NEW c \in Calls, CallStep(c), call[c].op = "uninstall"
  PROVE  DiscardJobs(c) \/ Teardown(c) \/ Unlist(c) \/ RemoveStorage(c) \/ RemoveAppData(c)
<1>1. /\ call[c].at \notin {"staging", "saving", "registering", "syncing", "launching", "closing"} \cup Switching
      /\ call[c].at # "capturing"
  BY DEF SerialInv, AskOf, Changing, Acting, LockInv, StageInv, RightOp
<1> QED
  BY <1>1
     DEF CallStep, Stage, Save, Register, CaptureSnapshot, DemoteRelease, ActivateRelease, RecordRelease,
         SwitchPointer, SyncVersion, Launch, Close, Switching

(* No call opens on a deployment that is gone.                              *)
LEMMA GoneStays ==
  ASSUME OneAtATime, LockInv, UntouchedInv, NEW c \in Calls, Calling(c), ~listed
  PROVE  \A d \in Calls : call[d].op = "none"
<1>1. CreateFromDraft(c)
  BY Zenon DEF Calling, Promote, Rollback, ExecuteAction, DeleteDeployment
<1> QED
  BY <1>1 DEF CreateFromDraft, UntouchedInv, Untouched, Nothing

LEMMA NextGone ==
  ASSUME OneAtATime, Unforced, LockInv, AskedInv, SerialInv, UntouchedInv, ListedInv, GoneInv, Steps
  PROVE  GoneInv'
<1> SUFFICES ASSUME faults' = 0, NEW c \in Calls, call'[c].op = "uninstall"
             PROVE  /\ call'[c].at \in Leaving \cup {"returned"} => ~listed'
                    /\ call'[c].at \in {"reclaiming", "returned"} => meta' = Absent
                    /\ call'[c].at = "returned" => \A d \in Calls : ~Under(d)'
  BY Zenon DEF GoneInv
<1>0. OneCall /\ faults = 0 /\ faults \in Nat
  BY StepBounds DEF bounds, LockInv, LockTypes, SerialInv
<1>00. call[c].op = "uninstall" =>
         /\ call[c].at \in Leaving \cup {"returned"} => ~listed
         /\ call[c].at \in {"reclaiming", "returned"} => meta = Absent
         /\ call[c].at = "returned" => \A d \in Calls : ~Under(d)
  BY <1>0 DEF GoneInv
<1>1. ASSUME NEW e \in Calls, Calling(e)
      PROVE  call'[c].at \notin Leaving \cup {"returned"}
  <2>1. Alone(e) /\ Opening(e) /\ \A d \in Calls : call[d].at \in Settled
    BY <1>1, CallOpening
  <2>2. CASE c = e
    BY <2>1, <2>2 DEF Opening, Leaving, Acting
  <2>3. CASE c # e
    <3>1. call'[c] = call[c]
      BY <2>1, <2>3 DEF Alone
    <3>2. listed \/ call[c].op = "none"
      BY <1>1, GoneStays
    <3> QED
      BY <1>00, <2>1, <3>1, <3>2 DEF Settled, Leaving
  <2> QED
    BY <2>2, <2>3
<1>2. ASSUME NEW e \in Calls, CallStep(e) \/ CallWriteFails(e)
      PROVE  /\ call'[c].at \in Leaving \cup {"returned"} => ~listed'
             /\ call'[c].at \in {"reclaiming", "returned"} => meta' = Absent
             /\ call'[c].at = "returned" => \A d \in Calls : ~Under(d)'
  <2>1. Under(e) /\ Goes(e, call'[e].at) /\ CallStep(e)
    BY <1>0, <1>2, CallRoute DEF Under, CallWriteFails
  <2>2. CASE c # e
    BY <1>0, <1>00, <2>1, <2>2, Solo DEF Goes, Alone, Under, Settled, Leaving
  <2>3. CASE c = e
    <3>1. call[c].op = "uninstall"
      BY <2>1, <2>3 DEF Goes
    <3>2. \A d \in Calls \ {c} : ~Under(d)'
      BY <1>0, <2>1, <2>3, Solo DEF Goes, Alone, Under
    <3>3. CASE DiscardJobs(c)
      BY <3>3, DiscardGoes DEF Goes, Leaving
    <3>4. CASE Teardown(c)
      <4>1. listed
        BY <2>1, <2>3, <3>4 DEF Teardown, ListedInv, Leaving
      <4>2. Goes(c, "deprovisioning") \/ Goes(c, "failed")
        <5>1. call[c].at \notin Settled \cup {"waiting"}
          BY <3>4 DEF Teardown, Settled
        <5> QED
          BY <1>0, <3>4, <4>1, <5>1, StageGoes, LeaveDeleteGoes DEF Teardown
      <4> QED
        BY <4>2 DEF Goes, Leaving
    <3>5. CASE Unlist(c)
      BY <3>5, StageGoes DEF Unlist, Goes
    <3>6. CASE RemoveStorage(c)
      BY <1>0, <1>00, <3>1, <3>6, StageGoes DEF RemoveStorage, Goes, Leaving, memory
    <3>7. CASE RemoveAppData(c)
      <4>1. Goes(c, "returned")
        <5>1. call[c].at \notin Settled \cup {"waiting"}
          BY <3>7 DEF RemoveAppData, Settled
        <5> QED
          BY <1>0, <3>7, <5>1, LeaveDeleteGoes DEF RemoveAppData
      <4> QED
        BY <1>00, <3>1, <3>2, <3>7, <4>1
           DEF RemoveAppData, Goes, Leaving, memory, disk, records, Under, Settled
    <3> QED
      BY <2>1, <2>3, <3>1, <3>3, <3>4, <3>5, <3>6, <3>7, UninstallStep
  <2> QED
    BY <2>2, <2>3
<1>3. ASSUME NEW j \in Calls, JobStep(j) \/ JobWriteFails(j)
      PROVE  /\ call'[c].at \in Leaving \cup {"returned"} => ~listed'
             /\ call'[c].at \in {"reclaiming", "returned"} => meta' = Absent
             /\ call'[c].at = "returned" => \A d \in Calls : ~Under(d)'
  <2>1. JobMove(j) /\ JobStep(j)
    BY <1>0, <1>3, JobMoveHolds DEF JobWriteFails
  <2> SUFFICES ASSUME call'[c].at \in Leaving \cup {"returned"}
               PROVE  ~listed' /\ meta' = meta /\ \A d \in Calls : call'[d] = call[d]
    BY <1>00 DEF Leaving, Under
  <2>2. call'[c] = call[c]
    BY <2>1 DEF JobMove, CallsGoOn, Granted, Leaving
  <2>3. call[c].at = "returned"
    <3>1. call[c].at \notin Tearing
      BY <2>1, TearingHolds DEF JobMove
    <3> QED
      BY <2>2, <3>1 DEF Tearing, Leaving
  <2>4. ~listed /\ \A d \in Calls : ~Under(d)
    BY <1>00, <2>2, <2>3
  <2>5. job[j].at = "starting"
    BY <2>1, <2>4 DEF ListedInv, JobMove
  <2>6. StartJob(j)
    BY <2>1, <2>5 DEF JobStep, StopApp, Quiet, Restore, Prepare, Pull, Up, Report, ReportFailure
  <2>7. ~listed' /\ meta' = meta
    BY <2>1, <2>4, <2>5, <2>6 DEF StartJob, disk, records, JobMove, Ends, Settles, Proceeds, memory
  <2>8. \A d \in Calls : call'[d] = call[d]
    BY <2>1, <2>4 DEF JobMove, CallsGoOn, Under, Settled
  <2> QED
    BY <2>7, <2>8
<1>4. ASSUME TickLater \/ Recover \/ UNCHANGED vars
      PROVE  listed' = listed /\ call' = call /\ meta' = meta
  BY <1>4, Zenon DEF TickLater, Recover, vars, memory, disk, records
<1>5. ASSUME Crash
      PROVE  /\ call'[c].at \in Leaving \cup {"returned"} => ~listed'
             /\ call'[c].at \in {"reclaiming", "returned"} => meta' = Absent
             /\ call'[c].at = "returned" => \A d \in Calls : ~Under(d)'
  <2>1. CrashCalls
    BY <1>5, CrashCallsHold
  <2>2. meta' = meta /\ listed' = (meta # Absent)
    BY <1>5 DEF Crash, disk, records
  <2> QED
    BY <1>00, <2>1, <2>2 DEF CrashCalls, Settled, Leaving, Under
<1>6. ASSUME TickLater \/ Recover \/ UNCHANGED vars
      PROVE  /\ call'[c].at \in Leaving \cup {"returned"} => ~listed'
             /\ call'[c].at \in {"reclaiming", "returned"} => meta' = Absent
             /\ call'[c].at = "returned" => \A d \in Calls : ~Under(d)'
  <2>1. UNCHANGED <<listed, call, meta>>
    BY <1>4, <1>6
  <2> QED
    BY <1>00, <2>1 DEF Under
<1> QED
  BY <1>1, <1>2, <1>3, <1>5, <1>6, Zenon DEF Steps, Leaving

AbsenceInv == ListedInv /\ GoneInv

LEMMA AbsenceHolds == ASSUME OneAtATime, Unforced PROVE Spec => []AbsenceInv
<1>1. Init => AbsenceInv
  BY InitListed DEF AbsenceInv
<1>2. LockInv /\ DataInv /\ PathInv /\ AbsenceInv /\ [Next]_vars => AbsenceInv'
  BY NextSteps, NextListed, NextGone DEF AbsenceInv, PathInv, DataInv
<1>3. IInv => LockInv
  BY DEF IInv
<1> QED
  BY <1>1, <1>2, <1>3, LockInvHolds, DataInvHolds, PathHolds, PTL DEF Spec

(* An uninstalled deployment stays uninstalled, in memory and on disk,      *)
(* across restarts (performDelete, and the findings on tombstones), when    *)
(* calls are answered one by one, no uninstall is forced and no removal     *)
(* fails.                                                                   *)
THEOREM NoTombstoneHolds ==
  ASSUME OneAtATime, Unforced, MaxFaults = 0
  PROVE  Spec => []NoTombstone
<1>1. ASSUME LockInv, DataInv, PathInv, AbsenceInv
      PROVE  NoTombstone
  <2>1. faults = 0
    BY <1>1 DEF PathInv, SerialInv, Bounded, LockInv, LockTypes
  <2>2. \A c \in Calls : call[c].op \in Uninstalls => call[c].op = "uninstall"
    BY <1>1 DEF DataInv, AskedInv, Unforced, Uninstalls
  <2> QED
    BY <1>1, <2>1, <2>2 DEF AbsenceInv, GoneInv, NoTombstone
<1>2. IInv => LockInv
  BY DEF IInv
<1>3. LockInv /\ DataInv /\ PathInv /\ AbsenceInv => NoTombstone
  BY <1>1
<1> QED
  BY <1>2, <1>3, LockInvHolds, DataInvHolds, PathHolds, AbsenceHolds, PTL

-----------------------------------------------------------------------------
(* The releases in memory and in their files.  They differ only while a     *)
(* call is between changing one and writing it.                             *)
Uneven  == {"staging", "saving", "demoting", "activating"}
Between == {"recording", "pointing"}

Alike(R) == \A r \in R : stored[r] = release[r]

Course(c) ==
  /\ call[c].op = "none" => release[c] = "none" /\ stored[c] = "none"
  /\ call[c].at \in {"staging", "saving"} =>
       release[c] = "creating" /\ stored[c] = "none" /\ Alike(Releases \ {c})
  /\ call[c].at = "demoting" =>
       /\ call[c].old \in Releases \ {call[c].rel} /\ call[c].rel \in Releases
       /\ stored[call[c].rel] # "none" /\ stored[call[c].old] # "none"
       /\ release[call[c].old] = "stopped" /\ Alike(Releases \ {call[c].old})
  /\ call[c].at = "activating" =>
       /\ call[c].rel \in Releases /\ stored[call[c].rel] # "none"
       /\ release[call[c].rel] = "active" /\ Alike(Releases \ {call[c].rel})
  /\ call[c].at \in Between => call[c].rel \in Releases /\ stored[call[c].rel] # "none"

Courses ==
  /\ listed /\ (\A c \in Calls : call[c].at \notin Uneven) => Alike(Releases)
  /\ \A c \in Calls : Course(c)
HistoryInv == faults = 0 => Courses

Steady(c) ==
  /\ call'[c].op = "none" => call[c].op = "none"
  /\ \/ call'[c] = call[c]
     \/ call[c].at \notin Uneven /\ call'[c].at \notin Uneven \cup Between
     \/ call[c].at = "staging" /\ call'[c].at = "saving"
     \/ call[c].at = "recording" /\ call'[c].at = "pointing" /\ call'[c].rel = call[c].rel

LEMMA CoursesKept ==
  ASSUME Courses, UNCHANGED <<release, stored>>, listed' => listed, \A c \in Calls : Steady(c)
  PROVE  Courses'
<1>1. \A c \in Calls : call[c].at \in Uneven => call'[c].at \in Uneven
  BY DEF Steady, Uneven
<1>2. ASSUME NEW c \in Calls
      PROVE  Course(c)'
  <2>1. Course(c) /\ Steady(c)
    BY DEF Courses
  <2> QED
    BY <2>1 DEF Course, Steady, Uneven, Between, Alike
<1> QED
  BY <1>1, <1>2 DEF Courses, Alike

(* Nothing lists a deployment but its creation and a restart.               *)
LEMMA ListedStays ==
  ASSUME LockInv, OneCall, ListedInv, Steps, ~Crash, \A c \in Calls : ~CreateFromDraft(c)
  PROVE  listed' => listed
<1>1. ASSUME NEW c \in Calls, Calling(c) \/ CallWriteFails(c)
      PROVE  listed' = listed
  BY <1>1, Zenon DEF Calling, CallWriteFails, Promote, Rollback, ExecuteAction, DeleteDeployment, memory
<1>2. ASSUME NEW c \in Calls, CallStep(c), ~Unlist(c), ~ActivateRelease(c), ~Launch(c)
      PROVE  listed' = listed
  BY <1>2, Zenon
     DEF CallStep, Stage, Save, Register, CaptureSnapshot, DemoteRelease, RecordRelease,
         SwitchPointer, SyncVersion, Close, DiscardJobs, Teardown, RemoveStorage, RemoveAppData, memory
<1>3. ASSUME NEW c \in Calls, ActivateRelease(c) \/ Launch(c)
      PROVE  listed
  BY <1>3 DEF ActivateRelease, Launch, ListedInv, Under, Settled, Leaving
<1>4. ASSUME NEW c \in Calls, Unlist(c)
      PROVE  ~listed'
  BY <1>4 DEF Unlist
<1>5. ASSUME NEW j \in Calls, JobStep(j) \/ JobWriteFails(j)
      PROVE  listed' => listed
  BY <1>5, JobMoveHolds DEF JobMove, Ends, Settles, Proceeds, memory, ListedInv
<1>6. ASSUME TickLater \/ Recover \/ UNCHANGED vars
      PROVE  listed' = listed
  BY <1>6, Zenon DEF TickLater, Recover, vars, memory
<1> QED
  BY <1>1, <1>2, <1>3, <1>4, <1>5, <1>6 DEF Steps

(* promoteRelease up to its first write, when memory and files agree.       *)
LEMMA SwitchCourses ==
  ASSUME RecordTypes, NEW c \in Calls, NEW rel \in Releases,
         \A r \in Releases : stored'[r] = release[r],
         \A d \in Calls : call'[d].op = "none" => release[d] = "none",
         \A d \in Calls \ {c} : call'[d].at \in Settled,
         call'[c].rel = rel, SwitchTo(c, rel)
  PROVE  Courses'
<1>0. release \in [Releases -> ReleaseStates] /\ Calls \subseteq Releases
  BY Constants DEF RecordTypes
<1>1. PICK old : old = deployment.current
  OBVIOUS
<1>2. \A d \in Calls \ {c} : call'[d].at \notin Uneven \cup Between
  BY DEF Settled, Uneven, Between
<1>3. CASE call'[c].at = "failed" /\ release' = release
  BY <1>0, <1>2, <1>3 DEF Courses, Course, Alike, Uneven, Between
<1>4. CASE /\ call'[c].at = "demoting" /\ call'[c].old = old /\ old \in Releases \ {rel}
           /\ release[rel] # "none" /\ release[old] # "none"
           /\ release' = [release EXCEPT ![old] = "stopped"]
  <2>1. release'[old] = "stopped" /\ \A r \in Releases \ {old} : release'[r] = release[r]
    BY <1>0, <1>4
  <2>2. \A d \in Calls : call'[d].op = "none" => release'[d] = "none" /\ stored'[d] = "none"
    BY <1>0, <1>4, <2>1
  <2>3. Course(c)'
    BY <1>0, <1>4, <2>1, <2>2 DEF Course, Alike, Between
  <2>4. \A d \in Calls \ {c} : Course(d)'
    BY <1>2, <2>2 DEF Course, Uneven
  <2> QED
    BY <1>4, <2>3, <2>4 DEF Courses, Uneven
<1>5. CASE /\ call'[c].at = "activating" /\ release[rel] # "none"
           /\ release' = [release EXCEPT ![rel] = "active"]
  <2>1. release'[rel] = "active" /\ \A r \in Releases \ {rel} : release'[r] = release[r]
    BY <1>0, <1>5
  <2>2. \A d \in Calls : call'[d].op = "none" => release'[d] = "none" /\ stored'[d] = "none"
    BY <1>0, <1>5, <2>1
  <2>3. Course(c)'
    BY <1>0, <1>5, <2>1, <2>2 DEF Course, Alike, Between
  <2>4. \A d \in Calls \ {c} : Course(d)'
    BY <1>2, <2>2 DEF Course, Uneven
  <2> QED
    BY <1>5, <2>3, <2>4 DEF Courses, Uneven
<1> QED
  BY <1>1, <1>3, <1>4, <1>5 DEF SwitchTo

(* The steps that change no release. *)
Passing(c) ==
  \/ Stage(c) \/ RecordRelease(c) \/ SwitchPointer(c) \/ SyncVersion(c) \/ Launch(c) \/ Close(c)
  \/ DiscardJobs(c) \/ Teardown(c) \/ RemoveAppData(c)

LEMMA PassingSteady ==
  ASSUME LockInv, OneCall, NEW c \in Calls, Passing(c)
  PROVE  UNCHANGED <<release, stored>> /\ \A d \in Calls : Steady(d)
<1>1. UNCHANGED <<release, stored>>
  BY Zenon DEF Passing, Stage, RecordRelease, SwitchPointer, SyncVersion, Launch, Close, DiscardJobs,
               Teardown, RemoveAppData, memory, disk, records
<1>2. /\ call[c].at \notin Settled
      /\ Goes(c, call'[c].at) /\ Route(c)
  BY CallRoute DEF Passing, CallStep
<1>3. Steady(c)
  <2>1. CASE Stage(c) \/ RecordRelease(c)
    <3>1. \/ Goes(c, "saving") /\ call[c].at = "staging"
          \/ Goes(c, "pointing") /\ call[c].at = "recording"
      BY <2>1, StageGoes DEF Stage, RecordRelease
    <3> QED
      BY <3>1 DEF Steady, Goes
  <2>2. CASE ~Stage(c) /\ ~RecordRelease(c)
    <3>1. call[c].at \in {"pointing", "syncing", "launching", "closing", "discarding", "tearing", "reclaiming"}
      BY <2>2 DEF Passing, SwitchPointer, SyncVersion, Launch, Close, DiscardJobs, Teardown, RemoveAppData
    <3> QED
      BY <1>2, <3>1 DEF Steady, Goes, Route, Uneven, Between
  <2> QED
    BY <2>1, <2>2
<1>4. \A d \in Calls \ {c} : Steady(d)
  BY <1>2 DEF Steady, Goes, Alone
<1> QED
  BY <1>1, <1>3, <1>4

LEMMA WaitersSteady == ASSUME LockInv, CallsGoOn PROVE \A c \in Calls : Steady(c)
  BY DEF CallsGoOn, Steady, Granted, Uneven, Between

LEMMA InitHistory == Init => HistoryInv
<1> SUFFICES ASSUME Init PROVE Courses
  BY DEF HistoryInv
<1>1. /\ release = [r \in Releases |-> IF Installed /\ r = Original THEN "active" ELSE "none"]
      /\ stored = release /\ \A c \in Calls : call[c].at = "idle"
  BY DEF Init, NoCall
<1>2. \A c \in Calls : c \in Releases /\ c # Original
  BY LifecycleAssumption DEF Releases
<1> QED
  BY <1>1, <1>2 DEF Courses, Course, Alike, Uneven, Between

LEMMA CallingCourses ==
  ASSUME OneAtATime, LockInv, UntouchedInv, Courses, NEW c \in Calls, Calling(c)
  PROVE  Courses'
<1>1. /\ \A d \in Calls : call[d].at \in Settled
      /\ Alone(c) /\ Opening(c) /\ call[c].at = "idle"
  BY CallOpening
<1>2. \A d \in Calls : call[d].at \notin Uneven \cup Between
  BY <1>1 DEF Settled, Uneven, Between
<1>3. call[c].op = "none" /\ c \in Releases /\ release \in [Releases -> ReleaseStates]
  BY <1>1, Constants DEF LockInv, StageInv, RightOp, RecordTypes
<1>4. \A d \in Calls : call[d].op = "none" => release[d] = "none" /\ stored[d] = "none"
  BY DEF Courses, Course
<1>5. \A d \in Calls \ {c} : call'[d] = call[d]
  BY <1>1 DEF Alone
<1>6. ASSUME CreateFromDraft(c) \/ Promote(c), call'[c].op \in {"create", "promote"}, call'[c].at = "staging"
      PROVE  Courses'
  <2>1. release' = [release EXCEPT ![c] = "creating"] /\ stored' = stored
    BY <1>6, Zenon DEF CreateFromDraft, Promote, disk, records
  <2>2. call'[c].op # "none" /\ call'[c].at = "staging"
    BY <1>6
  <2>3. Alike(Releases)
    <3>1. CASE Promote(c)
      BY <1>2, <3>1 DEF Courses, Promote
    <3>2. CASE CreateFromDraft(c)
      BY <3>2 DEF CreateFromDraft, UntouchedInv, Untouched, Nothing, Alike
    <3> QED
      BY <1>6, <3>1, <3>2
  <2>4. Course(c)'
    BY <1>3, <1>4, <2>1, <2>2, <2>3 DEF Course, Alike, Between
  <2>5. \A d \in Calls \ {c} : Course(d)'
    BY <1>2, <1>3, <1>5, <2>1 DEF Courses, Course, Uneven
  <2> QED
    BY <2>2, <2>4, <2>5 DEF Courses, Uneven
<1>7. ASSUME ExecuteAction(c) \/ DeleteDeployment(c), call'[c].op \in Acting \cup Uninstalls,
             call'[c].at \in {"launching", "discarding"}
      PROVE  Courses'
  <2>1. UNCHANGED <<release, stored, listed>>
    BY <1>7, Zenon DEF ExecuteAction, DeleteDeployment, memory, disk, records
  <2>2. call'[c].op # "none" /\ call'[c].at \in {"launching", "discarding"}
    BY <1>7 DEF Acting, Uninstalls
  <2>3. \A d \in Calls : Steady(d)
    BY <1>2, <1>5, <2>2 DEF Steady, Uneven, Between
  <2> QED
    BY <2>1, <2>3, CoursesKept
<1>8. ASSUME Rollback(c), call'[c].op = "rollback", call'[c].rel \in Releases,
             SwitchTo(c, call'[c].rel), listed
      PROVE  Courses'
  <2>2. stored' = stored
    BY <1>8, Zenon DEF Rollback, disk, records
  <2>3. Alike(Releases)
    BY <1>2, <1>8 DEF Courses
  <2>4. \A d \in Calls : call'[d].op = "none" => release[d] = "none"
    BY <1>4, <1>5, <1>8
  <2>5. \A d \in Calls \ {c} : call'[d].at \in Settled
    BY <1>1, <1>5
  <2> QED
    BY <1>8, <2>2, <2>3, <2>4, <2>5, SwitchCourses DEF LockInv, Alike
<1> QED
  BY <1>1, <1>6, <1>7, <1>8 DEF Opening

LEMMA RelIsRelease ==
  ASSUME GoalInv, SerialInv, NEW c \in Calls, call[c].op \in Changing
  PROVE  call[c].rel \in Releases
  BY Constants DEF SerialInv, AskOf, Changing, GoalInv

LEMMA UnlistedWhileLeaving ==
  ASSUME Unforced, LockInv, AskedInv, GoneInv, faults = 0, NEW c \in Calls, call[c].at \in Leaving
  PROVE  ~listed
<1>1. call[c].op = "uninstall"
  BY TearingHolds DEF Leaving, Tearing
<1> QED
  BY <1>1 DEF GoneInv

LEMMA CallCourses ==
  ASSUME Unforced, LockInv, GoalInv, AskedInv, SerialInv, ListedInv, GoneInv, faults = 0, faults' = 0,
         Courses, NEW c \in Calls, CallStep(c), ~Passing(c)
  PROVE  Courses'
<1>0. OneCall /\ release \in [Releases -> ReleaseStates] /\ stored \in [Releases -> ReleaseStates]
  BY DEF SerialInv, LockInv, RecordTypes
<1>1. call[c].at \notin Settled /\ Goes(c, call'[c].at) /\ Route(c)
  BY <1>0, CallRoute
<1>2. \A d \in Calls \ {c} : /\ call'[d] = call[d] /\ call[d].at \in Settled
                             /\ call[d].at \notin Uneven \cup Between
                             /\ call'[d].at \notin Uneven \cup Between
  BY <1>0, <1>1, Solo DEF Goes, Alone, Settled, Uneven, Between
<1>3. call'[c].op = call[c].op /\ call'[c].rel = call[c].rel
  BY <1>1 DEF Goes
<1>4. \A d \in Calls : call[d].op = "none" => release[d] = "none" /\ stored[d] = "none"
  BY DEF Courses, Course
<1>5. call[c].op # "none"
  BY <1>1 DEF LockInv, StageInv, RightOp, Settled
<1>6. \A d \in Calls : call'[d].op = "none" => call[d].op = "none" /\ d # c
  BY <1>2, <1>3, <1>5
<1>7. call[c].at \notin Leaving => listed
  BY <1>1 DEF ListedInv, Under
<1>8. Course(c)
  BY DEF Courses
<1>9. CASE Save(c)
  <2>1. /\ call[c].at = "saving" /\ call[c].op \in {"create", "promote"}
        /\ stored' = [stored EXCEPT ![c] = "creating"]
    BY <1>9 DEF Save
  <2>2. call[c].rel = c /\ c \in Releases
    BY <2>1, Constants DEF SerialInv, AskOf
  <2>3. \A r \in Releases : stored'[r] = release[r]
    BY <1>0, <1>8, <2>1, <2>2 DEF Course, Alike
  <2>4. CASE call'[c].at \notin Uneven \cup Between /\ release' = release
    BY <1>2, <1>4, <1>6, <2>2, <2>3, <2>4, Constants DEF Courses, Course, Alike, Uneven, Between
  <2>5. CASE SwitchTo(c, call[c].rel)
    BY <1>2, <1>3, <1>4, <1>6, <2>2, <2>3, <2>5, SwitchCourses DEF LockInv
  <2> QED
    BY <1>9, <2>4, <2>5, SaveGoes DEF Goes, Uneven, Between
<1>10. CASE Register(c) \/ CaptureSnapshot(c)
  <2>1. /\ call[c].at \in {"registering", "capturing"}
        /\ SwitchTo(c, call[c].rel) \/ (call'[c].at = "failed" /\ release' = release)
    BY <1>0, <1>10, SwitchGoes, CaptureGoes DEF Register, CaptureSnapshot
  <2>2. call[c].rel \in Releases
    BY <2>1, RelIsRelease DEF SerialInv, AskOf, LockInv, StageInv, RightOp, Changing
  <2>3. stored' = stored
    BY <1>10, Zenon DEF Register, CaptureSnapshot, records
  <2>4. \A r \in Releases : stored'[r] = release[r]
    BY <1>2, <1>7, <2>1, <2>3 DEF Courses, Uneven, Alike, Leaving
  <2>5. CASE SwitchTo(c, call[c].rel)
    BY <1>2, <1>3, <1>4, <1>6, <2>2, <2>4, <2>5, SwitchCourses DEF LockInv
  <2>6. CASE call'[c].at = "failed" /\ release' = release
    BY <1>2, <1>4, <1>6, <2>3, <2>4, <2>6, Constants DEF Courses, Course, Alike, Uneven, Between
  <2> QED
    BY <2>1, <2>5, <2>6
<1>11. CASE DemoteRelease(c)
  <2>1. PICK old, rel : old = call[c].old /\ rel = call[c].rel
    OBVIOUS
  <2>2. /\ old \in Releases \ {rel} /\ rel \in Releases /\ stored[rel] # "none" /\ stored[old] # "none"
        /\ release[old] = "stopped" /\ Alike(Releases \ {old})
    BY <1>8, <1>11, <2>1 DEF DemoteRelease, Course
  <2>3. /\ stored' = [stored EXCEPT ![old] = "stopped"] /\ release' = [release EXCEPT ![rel] = "active"]
        /\ call'[c].at = "activating"
    BY <1>1, <1>11, <2>1, StageGoes DEF DemoteRelease, Goes
  <2>4. \A r \in Releases \ {rel} : stored'[r] = release'[r]
    BY <1>0, <2>2, <2>3 DEF Alike
  <2>5. stored'[rel] # "none" /\ release'[rel] = "active"
    BY <1>0, <2>2, <2>3
  <2>6. \A d \in Calls : call'[d].op = "none" => release'[d] = "none" /\ stored'[d] = "none"
    <3>1. release[rel] # "none" /\ release[old] # "none"
      BY <2>2 DEF Alike
    <3> QED
      BY <1>0, <1>4, <1>6, <2>2, <2>3, <3>1
  <2>7. Course(c)'
    BY <1>3, <2>1, <2>2, <2>3, <2>4, <2>5, <2>6 DEF Course, Alike, Between
  <2>8. \A d \in Calls \ {c} : Course(d)'
    BY <1>2, <2>6 DEF Course, Uneven
  <2> QED
    BY <2>3, <2>7, <2>8 DEF Courses, Uneven
<1>12. CASE ActivateRelease(c)
  <2>1. PICK rel : rel = call[c].rel
    OBVIOUS
  <2>2. /\ rel \in Releases /\ stored[rel] # "none" /\ release[rel] = "active" /\ Alike(Releases \ {rel})
    BY <1>8, <1>12, <2>1 DEF ActivateRelease, Course
  <2>3. /\ stored' = [stored EXCEPT ![rel] = "active"] /\ release' = release
        /\ call'[c].at = "recording"
    BY <1>1, <1>12, <2>1, DocGoes DEF ActivateRelease, Goes
  <2>4. \A r \in Releases : stored'[r] = release'[r]
    BY <1>0, <2>2, <2>3 DEF Alike
  <2>5. stored'[rel] # "none"
    BY <1>0, <2>2, <2>3
  <2>6. \A d \in Calls : call'[d].op = "none" => release'[d] = "none" /\ stored'[d] = "none"
    BY <1>0, <1>4, <1>6, <2>2, <2>3
  <2>7. Course(c)'
    BY <1>3, <2>1, <2>2, <2>3, <2>5, <2>6 DEF Course
  <2>8. \A d \in Calls \ {c} : Course(d)'
    BY <1>2, <2>6 DEF Course, Uneven
  <2> QED
    BY <2>4, <2>7, <2>8 DEF Courses, Alike
<1>13. CASE Unlist(c)
  <2>1. /\ ~listed' /\ release' = [r \in Releases |-> "none"] /\ stored' = stored /\ call'[c].at = "wiping"
    BY <1>1, <1>13, StageGoes DEF Unlist, Goes, disk, records
  <2>2. \A d \in Calls : call'[d].op = "none" => release'[d] = "none" /\ stored'[d] = "none"
    BY <1>4, <1>6, <2>1, Constants
  <2> QED
    BY <1>2, <2>1, <2>2 DEF Courses, Course, Uneven, Between
<1>14. CASE RemoveStorage(c)
  <2>1. call'[c].at = "reclaiming" /\ call[c].at = "wiping"
    BY <1>1, <1>14, StageGoes DEF RemoveStorage, Goes
  <2>2. ~listed' /\ release' = release
    BY <1>14, <2>1, UnlistedWhileLeaving DEF Leaving, RemoveStorage, memory
  <2>3. stored' = [r \in Releases |-> "none"]
    BY <1>14 DEF RemoveStorage
  <2>4. \A d \in Calls : call'[d].op = "none" => release'[d] = "none" /\ stored'[d] = "none"
    BY <1>4, <1>6, <2>2, <2>3, Constants
  <2> QED
    BY <1>2, <2>1, <2>2, <2>4 DEF Courses, Course, Uneven, Between
<1> QED
  BY <1>9, <1>10, <1>11, <1>12, <1>13, <1>14 DEF CallStep, Passing

LEMMA NextHistory ==
  ASSUME OneAtATime, Unforced, LockInv, GoalInv, AskedInv, SerialInv, UntouchedInv, ListedInv, GoneInv,
         HistoryInv, Steps
  PROVE  HistoryInv'
<1> SUFFICES ASSUME faults' = 0 PROVE Courses'
  BY DEF HistoryInv
<1>0. OneCall /\ faults = 0 /\ Courses
  <2>1. faults \in Nat
    BY DEF LockInv, LockTypes
  <2> QED
    BY <2>1, StepBounds DEF bounds, SerialInv, HistoryInv
<1>1. ASSUME NEW c \in Calls, Calling(c)
      PROVE  Courses'
  BY <1>0, <1>1, CallingCourses
<1>2. ASSUME NEW c \in Calls, CallStep(c), ~Passing(c)
      PROVE  Courses'
  BY <1>0, <1>2, CallCourses
<1>3. ASSUME UNCHANGED <<release, stored>>, \A c \in Calls : Steady(c), ~Crash,
             \A c \in Calls : ~CreateFromDraft(c)
      PROVE  Courses'
  BY <1>0, <1>3, ListedStays, CoursesKept
<1>4. ASSUME NEW c \in Calls, CallStep(c), Passing(c), ~Crash, \A d \in Calls : ~CreateFromDraft(d)
      PROVE  Courses'
  BY <1>0, <1>3, <1>4, PassingSteady
<1>5. ASSUME NEW j \in Calls, JobStep(j), ~Crash, \A d \in Calls : ~CreateFromDraft(d)
      PROVE  Courses'
  <2>1. \A c \in Calls : Steady(c)
    BY <1>5, JobMoveHolds, WaitersSteady DEF JobMove
  <2>2. release' = release
    BY <1>5, JobMoveHolds DEF JobMove, Ends, Settles, Proceeds, memory
  <2>3. stored' = stored
    BY <1>5, Zenon DEF JobStep, StartJob, StopApp, Quiet, Restore, Prepare, Pull, Up, Report,
                       ReportFailure, disk, records
  <2> QED
    BY <1>3, <1>5, <2>1, <2>2, <2>3
<1>6. ASSUME TickLater \/ Recover \/ UNCHANGED vars, ~Crash, \A d \in Calls : ~CreateFromDraft(d)
      PROVE  Courses'
  <2>1. UNCHANGED <<release, stored, call>>
    BY <1>6, Zenon DEF TickLater, Recover, vars, memory, disk, records
  <2> QED
    BY <1>3, <1>6, <2>1 DEF Steady
<1>7. ASSUME Crash
      PROVE  Courses'
  <2>1. /\ CrashCalls /\ stored' = stored
        /\ listed' = (meta # Absent)
        /\ release' = IF meta # Absent THEN stored ELSE [r \in Releases |-> "none"]
    BY <1>7, CrashCallsHold, Zenon DEF Crash, disk, records
  <2>2. \A c \in Calls : call'[c].at \notin Uneven \cup Between
    BY <2>1 DEF CrashCalls, Settled, Uneven, Between
  <2>3. \A c \in Calls : call'[c].op = "none" => stored'[c] = "none" /\ release'[c] = "none"
    <3>1. \A c \in Calls : call[c].op = "none" => stored[c] = "none"
      BY <1>0 DEF Courses, Course
    <3>2. \A c \in Calls : call'[c].op = call[c].op /\ c \in Releases
      BY <2>1, Constants DEF CrashCalls
    <3> QED
      BY <2>1, <3>1, <3>2
  <2> QED
    BY <2>1, <2>2, <2>3 DEF Courses, Course, Alike, Uneven
<1>8. ASSUME NEW c \in Calls, CallWriteFails(c)
      PROVE  FALSE
  BY <1>0, <1>8 DEF CallWriteFails
<1>9. ASSUME NEW j \in Calls, JobWriteFails(j)
      PROVE  FALSE
  BY <1>0, <1>9 DEF JobWriteFails
<1>10. CASE \E c \in Calls : CreateFromDraft(c)
  BY <1>1, <1>10 DEF Calling
<1> QED
  BY <1>1, <1>2, <1>4, <1>5, <1>6, <1>7, <1>8, <1>9, <1>10 DEF Steps

-----------------------------------------------------------------------------
(* What each step writes. *)
Documents == {"registering", "recording", "syncing", "closing"}
Told      == {"reporting", "failing"}

LEMMA Mover ==
  ASSUME OneAtATime, LockInv, OneCall, Steps, ~Crash, faults' = faults, NEW c \in Calls
  PROVE  \/ Calling(c) \/ CallStep(c)
         \/ call'[c] = call[c]
         \/ /\ call[c].at = "waiting" /\ call'[c].at \in {"capturing", "tearing"}
            /\ call'[c].op = call[c].op /\ call'[c].old = call[c].old
<1>0. faults \in Nat
  BY DEF LockInv, LockTypes
<1>1. ASSUME NEW d \in Calls, Calling(d), d # c
      PROVE  call'[c] = call[c]
  BY <1>1, CallOpening DEF Alone
<1>2. ASSUME NEW d \in Calls, CallStep(d), d # c
      PROVE  call'[c] = call[c]
  BY <1>2, CallRoute DEF Goes, Alone
<1>3. ASSUME NEW d \in Calls, CallWriteFails(d)
      PROVE  FALSE
  BY <1>0, <1>3 DEF CallWriteFails
<1>4. ASSUME CallsGoOn
      PROVE  \/ call'[c] = call[c]
             \/ /\ call[c].at = "waiting" /\ call'[c].at \in {"capturing", "tearing"}
                /\ call'[c].op = call[c].op /\ call'[c].old = call[c].old
  BY <1>4 DEF CallsGoOn, Granted
<1>5. ASSUME NEW j \in Calls, JobStep(j) \/ JobWriteFails(j)
      PROVE  CallsGoOn
  BY <1>5, JobMoveHolds DEF JobMove
<1>6. ASSUME TickLater \/ Recover \/ UNCHANGED vars
      PROVE  call' = call
  BY <1>6, Zenon DEF TickLater, Recover, vars
<1> QED
  BY <1>1, <1>2, <1>3, <1>4, <1>5, <1>6 DEF Steps

LEMMA MetaWritten ==
  ASSUME Steps
  PROVE  \/ meta' = meta
         \/ \E c \in Calls : call[c].at \in Documents /\ meta' = call[c].doc /\ pointer' = pointer /\ CallStep(c)
         \/ \E j \in Calls : job[j].at \in Told /\ meta' = job[j].doc /\ pointer' = pointer /\ JobStep(j)
         \/ \E c \in Calls : RemoveStorage(c) /\ meta' = Absent /\ pointer' = NoRelease
<1>1. ASSUME NEW c \in Calls, Register(c) \/ RecordRelease(c) \/ SyncVersion(c) \/ Close(c)
      PROVE  call[c].at \in Documents /\ meta' = call[c].doc /\ pointer' = pointer
  BY <1>1 DEF Register, RecordRelease, SyncVersion, Close, Documents
<1>2. ASSUME NEW c \in Calls, RemoveStorage(c)
      PROVE  meta' = meta \/ (meta' = Absent /\ pointer' = NoRelease)
  BY <1>2, Zenon DEF RemoveStorage, disk, records
<1>3. ASSUME NEW c \in Calls, CallStep(c), ~Register(c), ~RecordRelease(c), ~SyncVersion(c),
             ~Close(c), ~RemoveStorage(c)
      PROVE  meta' = meta
  BY <1>3, Zenon
     DEF CallStep, Stage, Save, CaptureSnapshot, DemoteRelease, ActivateRelease, SwitchPointer, Launch,
         DiscardJobs, Teardown, Unlist, RemoveAppData, disk, records
<1>4. ASSUME NEW c \in Calls, Calling(c) \/ CallWriteFails(c)
      PROVE  meta' = meta
  BY <1>4, Zenon DEF Calling, CallWriteFails, CreateFromDraft, Promote, Rollback, ExecuteAction,
                     DeleteDeployment, disk, records
<1>5. ASSUME NEW j \in Calls, Report(j) \/ ReportFailure(j)
      PROVE  job[j].at \in Told /\ meta' = job[j].doc /\ pointer' = pointer
  BY <1>5 DEF Report, ReportFailure, Told
<1>6. ASSUME NEW j \in Calls, JobStep(j) \/ JobWriteFails(j), ~Report(j), ~ReportFailure(j)
      PROVE  meta' = meta
  BY <1>6, Zenon
     DEF JobStep, JobWriteFails, StartJob, StopApp, Quiet, Restore, Prepare, Pull, Up, disk, records
<1>7. ASSUME TickLater \/ Recover \/ Crash \/ UNCHANGED vars
      PROVE  meta' = meta
  BY <1>7, Zenon DEF TickLater, Recover, Crash, vars, disk, records
<1>8. \A c \in Calls : Register(c) \/ RecordRelease(c) \/ SyncVersion(c) \/ Close(c) \/ RemoveStorage(c)
                         => CallStep(c)
  BY DEF CallStep
<1>9. \A j \in Calls : Report(j) \/ ReportFailure(j) => JobStep(j)
  BY DEF JobStep
<1>10. ASSUME NEW c \in Calls, CallStep(c)
       PROVE  \/ meta' = meta
              \/ call[c].at \in Documents /\ meta' = call[c].doc /\ pointer' = pointer /\ CallStep(c)
              \/ RemoveStorage(c) /\ meta' = Absent /\ pointer' = NoRelease
  BY <1>1, <1>2, <1>3, <1>8, <1>10
<1>11. ASSUME NEW j \in Calls, JobStep(j) \/ JobWriteFails(j)
       PROVE  \/ meta' = meta
              \/ job[j].at \in Told /\ meta' = job[j].doc /\ pointer' = pointer /\ JobStep(j)
  BY <1>5, <1>6, <1>9, <1>11
<1> QED
  BY <1>4, <1>7, <1>10, <1>11 DEF Steps

LEMMA PointerWritten ==
  ASSUME Steps
  PROVE  \/ pointer' = pointer
         \/ \E c \in Calls : SwitchPointer(c) /\ pointer' = call[c].rel /\ meta' = meta /\ stored' = stored
         \/ \E c \in Calls : RemoveStorage(c) /\ pointer' = NoRelease
<1>1. ASSUME NEW c \in Calls, CallStep(c), ~SwitchPointer(c), ~RemoveStorage(c)
      PROVE  pointer' = pointer
  BY <1>1, Zenon
     DEF CallStep, Stage, Save, Register, CaptureSnapshot, DemoteRelease, ActivateRelease, RecordRelease,
         SyncVersion, Launch, Close, DiscardJobs, Teardown, Unlist, RemoveAppData, disk, records
<1>2. ASSUME NEW c \in Calls, SwitchPointer(c)
      PROVE  pointer' = call[c].rel /\ meta' = meta /\ stored' = stored
  BY <1>2 DEF SwitchPointer
<1>3. ASSUME NEW c \in Calls, RemoveStorage(c)
      PROVE  pointer' = pointer \/ pointer' = NoRelease
  BY <1>3, Zenon DEF RemoveStorage, disk, records
<1>4. ASSUME NEW c \in Calls, Calling(c) \/ CallWriteFails(c)
      PROVE  pointer' = pointer
  BY <1>4, Zenon DEF Calling, CallWriteFails, CreateFromDraft, Promote, Rollback, ExecuteAction,
                     DeleteDeployment, disk, records
<1>5. ASSUME NEW j \in Calls, JobStep(j) \/ JobWriteFails(j)
      PROVE  pointer' = pointer
  BY <1>5, Zenon
     DEF JobStep, JobWriteFails, StartJob, StopApp, Quiet, Restore, Prepare, Pull, Up, Report, ReportFailure,
         disk, records
<1>6. ASSUME TickLater \/ Recover \/ Crash \/ UNCHANGED vars
      PROVE  pointer' = pointer
  BY <1>6, Zenon DEF TickLater, Recover, Crash, vars, disk, records
<1> QED
  BY <1>1, <1>2, <1>3, <1>4, <1>5, <1>6 DEF Steps

(* A file of a release that is there stays until all are removed, and a new *)
(* one is written for artifacts that have been copied.                      *)
LEMMA StoredWritten ==
  ASSUME LockInv, Steps
  PROVE  \/ \A r \in Releases : stored[r] # "none" <=> stored'[r] # "none"
         \/ \E c \in Calls : Save(c) /\ \A r \in Releases : stored'[r] # "none" <=> stored[r] # "none" \/ r = c
         \/ \E c \in Calls : DemoteRelease(c) /\ stored' = [stored EXCEPT ![call[c].old] = "stopped"]
         \/ \E c \in Calls : ActivateRelease(c) /\ stored' = [stored EXCEPT ![call[c].rel] = "active"]
         \/ \E c \in Calls : RemoveStorage(c) /\ meta' = Absent /\ pointer' = NoRelease
                             /\ \A r \in Releases : stored'[r] = "none"
<1>1. ASSUME NEW c \in Calls, CallStep(c), ~Save(c), ~DemoteRelease(c), ~ActivateRelease(c), ~RemoveStorage(c)
      PROVE  stored' = stored
  BY <1>1, Zenon
     DEF CallStep, Stage, Register, CaptureSnapshot, RecordRelease, SwitchPointer,
         SyncVersion, Launch, Close, DiscardJobs, Teardown, Unlist, RemoveAppData, disk, records
<1>2. ASSUME NEW c \in Calls, Save(c)
      PROVE  \A r \in Releases : stored'[r] # "none" <=> stored[r] # "none" \/ r = c
  <2>1. stored' = [stored EXCEPT ![c] = "creating"] /\ stored \in [Releases -> ReleaseStates]
    BY <1>2 DEF Save, LockInv, RecordTypes
  <2> QED
    BY <2>1
<1>3. ASSUME NEW c \in Calls, RemoveStorage(c)
      PROVE  \/ stored' = stored
             \/ meta' = Absent /\ pointer' = NoRelease /\ \A r \in Releases : stored'[r] = "none"
  <2>1. \/ stored' = stored
        \/ meta' = Absent /\ pointer' = NoRelease /\ stored' = [r \in Releases |-> "none"]
    BY <1>3, Zenon DEF RemoveStorage, disk, records
  <2> QED
    BY <2>1
<1>4. ASSUME NEW c \in Calls, Calling(c) \/ CallWriteFails(c)
      PROVE  stored' = stored
  BY <1>4, Zenon DEF Calling, CallWriteFails, CreateFromDraft, Promote, Rollback, ExecuteAction,
                     DeleteDeployment, disk, records
<1>5. ASSUME NEW j \in Calls, JobStep(j) \/ JobWriteFails(j)
      PROVE  stored' = stored
  BY <1>5, Zenon
     DEF JobStep, JobWriteFails, StartJob, StopApp, Quiet, Restore, Prepare, Pull, Up, Report, ReportFailure,
         disk, records
<1>6. ASSUME TickLater \/ Recover \/ Crash \/ UNCHANGED vars
      PROVE  stored' = stored
  BY <1>6, Zenon DEF TickLater, Recover, Crash, vars, disk, records
<1>7. ASSUME NEW c \in Calls, DemoteRelease(c) \/ ActivateRelease(c)
      PROVE  \/ DemoteRelease(c) /\ stored' = [stored EXCEPT ![call[c].old] = "stopped"]
             \/ ActivateRelease(c) /\ stored' = [stored EXCEPT ![call[c].rel] = "active"]
  BY <1>7, Zenon DEF DemoteRelease, ActivateRelease
<1> QED
  BY <1>1, <1>2, <1>3, <1>4, <1>5, <1>6, <1>7 DEF Steps

LEMMA StagedWritten ==
  ASSUME Steps
  PROVE  \/ staged' = staged
         \/ \E c \in Calls : Stage(c) /\ staged' = staged \cup {c}
         \/ \E c \in Calls : RemoveStorage(c) /\ stored' = [r \in Releases |-> "none"]
<1>1. ASSUME NEW c \in Calls, CallStep(c), ~Stage(c), ~RemoveStorage(c)
      PROVE  staged' = staged
  BY <1>1, Zenon
     DEF CallStep, Save, Register, CaptureSnapshot, DemoteRelease, ActivateRelease, RecordRelease, SwitchPointer,
         SyncVersion, Launch, Close, DiscardJobs, Teardown, Unlist, RemoveAppData, disk, records
<1>2. ASSUME NEW c \in Calls, Stage(c)
      PROVE  staged' = staged \cup {c}
  BY <1>2 DEF Stage
<1>3. ASSUME NEW c \in Calls, RemoveStorage(c)
      PROVE  staged' = staged \/ stored' = [r \in Releases |-> "none"]
  BY <1>3, Zenon DEF RemoveStorage, disk, records
<1>4. ASSUME NEW c \in Calls, Calling(c) \/ CallWriteFails(c)
      PROVE  staged' = staged
  BY <1>4, Zenon DEF Calling, CallWriteFails, CreateFromDraft, Promote, Rollback, ExecuteAction,
                     DeleteDeployment, disk, records
<1>5. ASSUME NEW j \in Calls, JobStep(j) \/ JobWriteFails(j)
      PROVE  staged' = staged
  BY <1>5, Zenon
     DEF JobStep, JobWriteFails, StartJob, StopApp, Quiet, Restore, Prepare, Pull, Up, Report, ReportFailure,
         disk, records
<1>6. ASSUME TickLater \/ Recover \/ Crash \/ UNCHANGED vars
      PROVE  staged' = staged
  BY <1>6, Zenon DEF TickLater, Recover, Crash, vars, disk, records
<1> QED
  BY <1>1, <1>2, <1>3, <1>4, <1>5, <1>6 DEF Steps

LEMMA StoredSteps ==
  ASSUME LockInv, Courses, Steps
  PROVE  \/ \A r \in Releases : stored'[r] # "none" <=> stored[r] # "none"
         \/ \E c \in Calls : Save(c) /\ \A r \in Releases : stored'[r] # "none" <=> stored[r] # "none" \/ r = c
         \/ /\ \E c \in Calls : RemoveStorage(c)
            /\ meta' = Absent /\ pointer' = NoRelease /\ \A r \in Releases : stored'[r] = "none"
<1>0. stored \in [Releases -> ReleaseStates]
  BY DEF LockInv, RecordTypes
<1>1. ASSUME NEW c \in Calls, DemoteRelease(c), stored' = [stored EXCEPT ![call[c].old] = "stopped"]
      PROVE  \A r \in Releases : stored'[r] # "none" <=> stored[r] # "none"
  <2>1. PICK old \in Releases : old = call[c].old /\ stored[old] # "none"
    BY <1>1 DEF Courses, Course, DemoteRelease
  <2> QED
    BY <1>0, <1>1, <2>1
<1>2. ASSUME NEW c \in Calls, ActivateRelease(c), stored' = [stored EXCEPT ![call[c].rel] = "active"]
      PROVE  \A r \in Releases : stored'[r] # "none" <=> stored[r] # "none"
  <2>1. PICK rel \in Releases : rel = call[c].rel /\ stored[rel] # "none"
    BY <1>2 DEF Courses, Course, ActivateRelease
  <2> QED
    BY <1>0, <1>2, <2>1
<1> QED
  BY <1>1, <1>2, StoredWritten

LEMMA StatusWritten ==
  ASSUME LockInv, Steps, ~Crash
  PROVE  \/ deployment'.status = deployment.status
         \/ deployment'.status \in {"installing"} \cup Outcomes
<1>0. deployment \in Docs
  BY DEF LockInv, RecordTypes
<1>1. ASSUME NEW c \in Calls, CreateFromDraft(c)
      PROVE  deployment'.status = "installing"
  BY <1>1 DEF CreateFromDraft
<1>2. ASSUME NEW c \in Calls, ActivateRelease(c) \/ SwitchPointer(c)
      PROVE  deployment'.status = deployment.status
  BY <1>0, <1>2 DEF ActivateRelease, SwitchPointer, Docs
<1>3. ASSUME NEW c \in Calls, Launch(c)
      PROVE  deployment'.status = deployment.status \/ deployment'.status \in {"installing"} \cup Outcomes
  BY <1>0, <1>3 DEF Launch, ActionStatus, Docs, Outcomes
<1>4. ASSUME NEW c \in Calls, CallStep(c), ~ActivateRelease(c), ~Launch(c), ~SwitchPointer(c)
      PROVE  deployment' = deployment
  BY <1>4, Zenon
     DEF CallStep, Stage, Save, Register, CaptureSnapshot, DemoteRelease, RecordRelease, SyncVersion,
         Close, DiscardJobs, Teardown, Unlist, RemoveStorage, RemoveAppData, memory
<1>5. ASSUME NEW c \in Calls, Calling(c) \/ CallWriteFails(c), ~CreateFromDraft(c)
      PROVE  deployment' = deployment
  BY <1>5, Zenon DEF Calling, CallWriteFails, Promote, Rollback, ExecuteAction, DeleteDeployment, memory
<1>6. ASSUME NEW j \in Calls, JobStep(j) \/ JobWriteFails(j)
      PROVE  deployment'.status = deployment.status \/ deployment'.status \in Outcomes
  <2>1. Ends(j) \/ Settles(j) \/ Proceeds(j)
    BY <1>6, JobMoveHolds DEF JobMove
  <2>2. CASE Settles(j)
    BY <1>0, <2>2 DEF Settles, Docs
  <2>3. CASE Ends(j) \/ Proceeds(j)
    BY <2>3 DEF Ends, Proceeds, memory
  <2> QED
    BY <2>1, <2>2, <2>3
<1>7. ASSUME TickLater \/ Recover \/ UNCHANGED vars
      PROVE  deployment' = deployment
  BY <1>7, Zenon DEF TickLater, Recover, vars, memory
<1> QED
  BY <1>1, <1>2, <1>3, <1>4, <1>5, <1>6, <1>7 DEF Steps

(* Documents are copies of the record. *)
LEMMA CallDocs ==
  ASSUME OneAtATime, LockInv, OneCall, Steps, ~Crash, faults' = faults,
         NEW c \in Calls, call'[c].at \in Documents
  PROVE  call'[c] = call[c] \/ call'[c].doc = deployment'
<1>1. ~Calling(c)
  BY CallOpening DEF Opening, Documents, SwitchTo
<1>2. CASE CallStep(c)
  <2>1. Goes(c, call'[c].at) /\ Route(c)
    BY <1>2, CallRoute
  <2>2. call[c].at \in {"saving", "activating", "pointing", "launching"}
    BY <2>1 DEF Route, Documents
  <2>3. CASE Save(c)
    BY <2>3, SaveGoes DEF Save, Goes, Documents, SwitchTo
  <2>4. CASE ActivateRelease(c)
    BY <2>4, DocGoes DEF ActivateRelease
  <2>5. CASE SwitchPointer(c)
    BY <2>5, DocGoes, EndGoes, StageGoes DEF SwitchPointer, Goes, Documents
  <2>6. CASE Launch(c)
    <3>1. \/ call' = Ended(call, c, "returned")
          \/ call' = [call EXCEPT ![c].at = "closing", ![c].doc = deployment']
      BY <2>6, Zenon DEF Launch
    <3>2. call' # Ended(call, c, "returned")
      BY EndGoes DEF Goes, Documents
    <3> QED
      BY <3>1, <3>2, DocGoes
  <2> QED
    BY <1>2, <2>2, <2>3, <2>4, <2>5, <2>6
       DEF CallStep, Stage, Register, CaptureSnapshot, DemoteRelease, RecordRelease, SyncVersion, Close,
           DiscardJobs, Teardown, Unlist, RemoveStorage, RemoveAppData
<1> QED
  BY <1>1, <1>2, Mover DEF Documents

LEMMA JobDocs ==
  ASSUME LockInv, OneCall, Steps, NEW j \in Calls, job'[j].at \in Told
  PROVE  \/ job[j].at \in Told /\ job'[j].doc = job[j].doc
         \/ job'[j].doc = deployment' /\ listed'
<1>1. ASSUME JobsGoOn
      PROVE  job[j].at \in Told /\ job'[j].doc = job[j].doc
  BY <1>1 DEF JobsGoOn, Told
<1>2. ASSUME NEW c \in Calls, Launch(c)
      PROVE  job[j].at \in Told /\ job'[j].doc = job[j].doc
  BY <1>2, LaunchFollows DEF Told
<1>3. ASSUME NEW c \in Calls, Calling(c)
      PROVE  JobsGoOn
  <2>1. UNCHANGED job
    BY <1>3, CallingOpens
  <2> QED
    BY <2>1, JobsStay
<1>4. ~Crash
  BY CrashJobsHold DEF CrashJobs, Told, Finished
<1>5. ASSUME NEW k \in Calls, JobStep(k) \/ JobWriteFails(k)
      PROVE  \/ job[j].at \in Told /\ job'[j].doc = job[j].doc
             \/ job'[j].doc = deployment' /\ listed'
  <2>1. JobMove(k)
    BY <1>5, JobMoveHolds
  <2>2. CASE k # j
    BY <2>1, <2>2 DEF JobMove, JobsAround, Told
  <2>3. CASE k = j
    BY <2>1, <2>3 DEF JobMove, Ends, Settles, Proceeds, Told
  <2> QED
    BY <2>2, <2>3
<1>6. ASSUME TickLater \/ Recover \/ UNCHANGED vars
      PROVE  JobsGoOn
  BY <1>6, TickLaterFollows, RecoverFollows, JobsStay DEF vars
<1> QED
  BY <1>1, <1>2, <1>3, <1>4, <1>5, <1>6, CallRoute DEF Steps

-----------------------------------------------------------------------------
(* The files: a release has its compose file, the pointer names one that    *)
(* has its metadata, and nothing is ever written of a deployment that is not*)
(* there.                                                                   *)
FilesThere ==
  /\ \A r \in Releases : stored[r] # "none" => r \in staged
  /\ \A c \in Calls : call[c].at = "saving" => c \in staged
  /\ pointer # NoRelease => stored[pointer] # "none" /\ meta # Absent
  /\ \A c \in Calls : call[c].at = "pointing" => meta # Absent

RecordsThere ==
  /\ meta = Absent \/ meta.status # "absent"
  /\ \A c \in Calls : call[c].at \in Documents => call[c].doc.status # "absent"
  /\ \A j \in Calls : job[j].at \in Told => job[j].doc.status # "absent"
  /\ listed => deployment.status # "absent"

FilesInv == faults = 0 => FilesThere /\ RecordsThere

LEMMA InitFiles == Init => FilesInv
<1> SUFFICES ASSUME Init PROVE FilesThere /\ RecordsThere
  BY DEF FilesInv
<1>1. /\ stored = [r \in Releases |-> IF Installed /\ r = Original THEN "active" ELSE "none"]
      /\ staged = (IF Installed THEN {Original} ELSE {})
      /\ pointer = deployment.current /\ meta = deployment /\ listed = Installed
      /\ \A c \in Calls : call[c].at = "idle" /\ job[c].at = "none"
      /\ deployment = IF Installed THEN [status |-> "running", current |-> Original, version |-> Original]
                                   ELSE Absent
  BY DEF Init, NoCall, NoJob
<1>2. CASE Installed
  <2>1. deployment.status = "running" /\ pointer = Original /\ Original \in Releases
    BY <1>1, <1>2 DEF Releases
  <2> QED
    BY <1>1, <1>2, <2>1 DEF FilesThere, RecordsThere, Documents, Told, Absent
<1>3. CASE ~Installed
  BY <1>1, <1>3 DEF FilesThere, RecordsThere, Documents, Told, Absent
<1> QED
  BY <1>2, <1>3

LEMMA NoRemovalBeside ==
  ASSUME OneCall, NEW c \in Calls, Under(c), call[c].at # "wiping"
  PROVE  \A d \in Calls : ~RemoveStorage(d)
<1>1. \A d \in Calls : RemoveStorage(d) => d # c /\ call[d].at = "wiping"
  BY DEF RemoveStorage
<1>2. \A d \in Calls \ {c} : call[d].at \in Settled
  BY Solo DEF Under
<1> QED
  BY <1>1, <1>2 DEF Settled

LEMMA CrashRecords ==
  ASSUME LockInv, RecordsThere, Crash
  PROVE  RecordsThere'
<1>1. /\ meta' = meta /\ listed' = (meta # Absent)
      /\ meta # Absent => deployment' = Reloaded
  BY Zenon DEF Crash, disk, records
<1>2. meta # Absent => Reloaded.status # "absent"
  BY DEF Reloaded, RecordsThere, LockInv, RecordTypes, Docs
<1>3. \A c \in Calls : call'[c].at \notin Documents
  BY CrashCallsHold DEF CrashCalls, Settled, Documents
<1>4. \A j \in Calls : job'[j].at \notin Told
  BY CrashJobsHold DEF CrashJobs, Finished, Told
<1> QED
  BY <1>1, <1>2, <1>3, <1>4 DEF RecordsThere

LEMMA NextRecords ==
  ASSUME OneAtATime, LockInv, OneCall, ListedInv, ListedInv', RecordsThere, Steps, faults' = faults
  PROVE  RecordsThere'
<1>1. CASE Crash
  BY <1>1, CrashRecords
<1>2. CASE ~Crash
  <2>1. meta' = Absent \/ meta'.status # "absent"
    BY MetaWritten DEF RecordsThere, Documents, Told
  <2>2. listed' => deployment'.status # "absent"
    <3>1. CASE \E c \in Calls : CreateFromDraft(c)
      BY <3>1 DEF CreateFromDraft
    <3>2. CASE \A c \in Calls : ~CreateFromDraft(c)
      <4>1. listed' => deployment.status # "absent"
        BY <1>2, <3>2, ListedStays DEF RecordsThere
      <4> QED
        BY <1>2, <4>1, StatusWritten DEF Outcomes
    <3> QED
      BY <3>1, <3>2
  <2>3. ASSUME NEW c \in Calls, call'[c].at \in Documents
        PROVE  call'[c].doc.status # "absent"
    <3>1. listed'
      BY <2>3 DEF ListedInv, Under, Documents, Settled, Leaving
    <3> QED
      BY <1>2, <2>2, <2>3, <3>1, CallDocs DEF RecordsThere
  <2>4. ASSUME NEW j \in Calls, job'[j].at \in Told
        PROVE  job'[j].doc.status # "absent"
    BY <2>2, <2>4, JobDocs DEF RecordsThere
  <2> QED
    BY <2>1, <2>2, <2>3, <2>4 DEF RecordsThere
<1> QED
  BY <1>1, <1>2

LEMMA NextFiles ==
  ASSUME OneAtATime, LockInv, SerialInv, Courses, FilesThere, RecordsThere, Steps, faults' = faults
  PROVE  FilesThere'
<1>0. OneCall
  BY DEF SerialInv
<1>1. \A r \in Releases : stored'[r] # "none" => r \in staged'
  <2>1. SUFFICES ASSUME NEW r \in Releases, stored'[r] # "none"
                 PROVE  r \in staged'
    OBVIOUS
  <2>2. r \in staged
    BY <2>1, StoredSteps DEF FilesThere, Save
  <2> QED
    BY <2>1, <2>2, StagedWritten
<1>2. ASSUME NEW c \in Calls, call'[c].at = "saving"
      PROVE  c \in staged'
  <2>1. CASE Stage(c)
    BY <2>1 DEF Stage
  <2>2. CASE call[c].at = "saving"
    <3>1. c \in staged /\ \A d \in Calls : ~RemoveStorage(d)
      BY <1>0, <2>2, NoRemovalBeside DEF FilesThere, Under, Settled
    <3> QED
      BY <3>1, StagedWritten
  <2>3. CASE CallStep(c) /\ ~Stage(c)
    <3>1. Route(c)
      BY <1>0, <2>3, CallRoute
    <3>2. call[c].at = "staging"
      BY <1>2, <3>1 DEF Route
    <3> QED
      BY <2>3, <3>2
         DEF CallStep, Save, Register, CaptureSnapshot, DemoteRelease, ActivateRelease, RecordRelease,
             SwitchPointer, SyncVersion, Launch, Close, DiscardJobs, Teardown, Unlist, RemoveStorage,
             RemoveAppData
  <2>4. ~Calling(c)
    BY <1>2, CallOpening DEF Opening, SwitchTo
  <2>5. ~Crash
    BY <1>2, CrashCallsHold DEF CrashCalls, Settled
  <2> QED
    BY <1>0, <1>2, <2>1, <2>2, <2>3, <2>4, <2>5, Mover
<1>3. meta # Absent => meta' # Absent \/ pointer' = NoRelease
  BY MetaWritten DEF RecordsThere, Documents, Told, Absent
<1>4. ASSUME pointer' # NoRelease
      PROVE  stored'[pointer'] # "none" /\ meta' # Absent
  <2>1. pointer' \in Releases /\ stored[pointer'] # "none" /\ meta # Absent
    <3>1. CASE pointer' = pointer
      BY <1>4, <3>1 DEF FilesThere, LockInv, RecordTypes, Rel
    <3>2. ASSUME NEW c \in Calls, SwitchPointer(c), pointer' = call[c].rel
          PROVE  pointer' \in Releases /\ stored[pointer'] # "none" /\ meta # Absent
      <4>1. call[c].at = "pointing" /\ Course(c)
        BY <3>2 DEF SwitchPointer, Courses
      <4>2. call[c].rel \in Releases /\ stored[call[c].rel] # "none" /\ meta # Absent
        BY <4>1 DEF Course, Between, FilesThere
      <4> QED
        BY <3>2, <4>2
    <3> QED
      BY <1>4, <3>1, <3>2, PointerWritten
  <2>2. stored'[pointer'] # "none"
    BY <1>4, <2>1, StoredSteps
  <2> QED
    BY <1>3, <1>4, <2>1, <2>2
<1>5. ASSUME NEW c \in Calls, call'[c].at = "pointing"
      PROVE  meta' # Absent
  <2>1. ~Calling(c) /\ ~Crash
    BY <1>5, CallOpening, CrashCallsHold DEF Opening, SwitchTo, CrashCalls, Settled
  <2>2. CASE CallStep(c)
    <3>1. call[c].at = "recording"
      BY <1>0, <1>5, <2>2, CallRoute DEF Route
    <3>2. RecordRelease(c)
      BY <2>2, <3>1
         DEF CallStep, Stage, Save, Register, CaptureSnapshot, DemoteRelease, ActivateRelease,
             SwitchPointer, SyncVersion, Launch, Close, DiscardJobs, Teardown, Unlist, RemoveStorage,
             RemoveAppData
    <3> QED
      BY <3>1, <3>2 DEF RecordRelease, RecordsThere, Documents, Absent
  <2>3. CASE call[c].at = "pointing"
    <3>1. meta # Absent /\ \A d \in Calls : ~RemoveStorage(d)
      BY <1>0, <2>3, NoRemovalBeside DEF FilesThere, Under, Settled
    <3> QED
      BY <3>1, MetaWritten DEF RecordsThere, Documents, Told, Absent
  <2> QED
    BY <1>0, <1>5, <2>1, <2>2, <2>3, Mover
<1> QED
  BY <1>1, <1>2, <1>4, <1>5 DEF FilesThere

-----------------------------------------------------------------------------
(* The active release in memory is the one a restart would find, but while  *)
(* the pointer is being written.                                            *)
InBetween == \E c \in Calls : call[c].at \in Between
OnDisk    == IF pointer = NoRelease THEN meta.current ELSE pointer
Creating(c) == call[c].op = "create" /\ call[c].at \in {"staging", "saving", "registering"}

CurrentsAgree ==
  /\ \A c \in Calls : call[c].at \in Documents => call[c].doc.current = deployment.current
  /\ \A j \in Calls : job[j].at \in Told /\ pointer = NoRelease /\ ~InBetween =>
       job[j].doc.current = deployment.current
  /\ listed /\ ~InBetween => OnDisk = deployment.current
  /\ listed => meta # Absent \/ \E c \in Calls : Creating(c)
CurrentInv == faults = 0 => CurrentsAgree

LEMMA InitCurrent == Init => CurrentInv
<1> SUFFICES ASSUME Init PROVE CurrentsAgree
  BY DEF CurrentInv
<1>1. /\ pointer = deployment.current /\ meta = deployment /\ listed = Installed
      /\ \A c \in Calls : call[c].at = "idle" /\ job[c].at = "none"
      /\ deployment = IF Installed THEN [status |-> "running", current |-> Original, version |-> Original]
                                   ELSE Absent
  BY DEF Init, NoCall, NoJob
<1>2. listed => meta # Absent
  BY <1>1 DEF Absent
<1>3. OnDisk = deployment.current
  BY <1>1 DEF OnDisk
<1> QED
  BY <1>1, <1>2, <1>3 DEF CurrentsAgree, Documents, Told

LEMMA LeavesBetween ==
  ASSUME OneAtATime, LockInv, OneCall, Steps, ~Crash, faults' = faults,
         NEW c \in Calls, call[c].at \in Between
  PROVE  call'[c].at \in Between \/ SwitchPointer(c)
<1>1. ~Calling(c)
  BY CallOpening DEF Between
<1>2. ASSUME CallStep(c)
      PROVE  (RecordRelease(c) /\ call'[c].at = "pointing") \/ SwitchPointer(c)
  <2>1. RecordRelease(c) \/ SwitchPointer(c)
    BY <1>2
       DEF CallStep, Between, Stage, Save, Register, CaptureSnapshot, DemoteRelease, ActivateRelease,
           SyncVersion, Launch, Close, DiscardJobs, Teardown, Unlist, RemoveStorage, RemoveAppData
  <2>2. RecordRelease(c) => call'[c].at = "pointing"
    BY StageGoes DEF RecordRelease, Goes
  <2> QED
    BY <2>1, <2>2
<1> QED
  BY <1>1, <1>2, Mover DEF Between

LEMMA SameCurrent ==
  ASSUME LockInv, Steps, ~Crash, ~InBetween', \A c \in Calls : ~CreateFromDraft(c)
  PROVE  deployment'.current = deployment.current
  BY CurrentKept DEF Goes, InBetween, Between

LEMMA NextCallDocs ==
  ASSUME OneAtATime, LockInv, OneCall, CurrentsAgree, Steps, faults' = faults,
         NEW c \in Calls, call'[c].at \in Documents
  PROVE  call'[c].doc.current = deployment'.current
<1>1. ~Crash
  BY CrashCallsHold DEF CrashCalls, Settled, Documents
<1>2. CASE call'[c] = call[c]
  <2>1. Under(c) /\ call[c].at \in Documents
    BY <1>2 DEF Under, Documents, Settled
  <2>2. \A d \in Calls : ~CreateFromDraft(d)
    BY <2>1, CallOpening DEF Under, Calling
  <2>3. \A d \in Calls : ~ActivateRelease(d)
    <3>1. \A d \in Calls \ {c} : call[d].at \in Settled
      BY <2>1, Solo DEF Under
    <3> QED
      BY <2>1, <3>1 DEF ActivateRelease, Settled, Documents
  <2> QED
    BY <1>1, <1>2, <2>1, <2>2, <2>3, CurrentKept DEF CurrentsAgree
<1> QED
  BY <1>1, <1>2, CallDocs

LEMMA NextJobDocs ==
  ASSUME OneAtATime, Unforced, LockInv, AskedInv, SerialInv, UntouchedInv, Courses, CurrentsAgree,
         Steps, faults' = faults,
         NEW j \in Calls, job'[j].at \in Told, pointer' = NoRelease, ~InBetween'
  PROVE  job'[j].doc.current = deployment'.current
<1>0. OneCall
  BY DEF SerialInv
<1>1. ~Crash
  BY CrashJobsHold DEF CrashJobs, Finished, Told
<1>2. CASE job[j].at \in Told /\ job'[j].doc = job[j].doc
  <2>1. \A c \in Calls : ~CreateFromDraft(c)
    <3>1. ASSUME NEW c \in Calls, CreateFromDraft(c)
          PROVE  \A d \in Calls : call[d].op = "none"
      BY <3>1 DEF CreateFromDraft, UntouchedInv, Untouched, Nothing
    <3> QED
      BY <1>2, <3>1, NoCallsNoJobs DEF Told
  <2>2. deployment'.current = deployment.current
    BY <1>1, <2>1, SameCurrent
  <2>3. \A c \in Calls : ~SwitchPointer(c) \/ pointer' # call[c].rel
    <3>1. \A c \in Calls : SwitchPointer(c) => call[c].rel \in Releases
      BY DEF SwitchPointer, Courses, Course, Between
    <3> QED
      BY <3>1, LifecycleAssumption DEF Releases
  <2>4. \A c \in Calls : ~RemoveStorage(c)
    BY <1>2, TearingHolds DEF RemoveStorage, Tearing, Told, Working
  <2>5. pointer = NoRelease /\ \A c \in Calls : ~SwitchPointer(c)
    <3>1. pointer = NoRelease
      BY <2>3, <2>4, PointerWritten
    <3>2. \A c \in Calls : SwitchPointer(c) => pointer' = call[c].rel
      BY DEF SwitchPointer
    <3> QED
      BY <2>3, <3>1, <3>2
  <2>6. ~InBetween
    BY <1>0, <1>1, <2>5, LeavesBetween DEF InBetween
  <2> QED
    BY <1>2, <2>2, <2>5, <2>6 DEF CurrentsAgree
<1> QED
  BY <1>0, <1>2, JobDocs

LEMMA NextOnDisk ==
  ASSUME OneAtATime, Unforced, LockInv, AskedInv, SerialInv, UntouchedInv, TargetInv, ListedInv, GoneInv,
         Courses, RecordsThere, CurrentsAgree, Steps, faults = 0, faults' = 0, listed', ~InBetween'
  PROVE  OnDisk' = deployment'.current
<1>0. OneCall
  BY DEF SerialInv
<1>1. CASE Crash
  <2>1. deployment' = Reloaded /\ meta' = meta /\ pointer' = pointer
    BY <1>1, Zenon DEF Crash, disk, records
  <2>2. meta \in Docs
    BY DEF LockInv, RecordTypes
  <2> QED
    BY <2>1, <2>2 DEF Reloaded, OnDisk, Docs
<1>2. ASSUME NEW c \in Calls, CreateFromDraft(c)
      PROVE  OnDisk' = deployment'.current
  <2>1. meta = Absent /\ pointer = NoRelease
    BY <1>2 DEF CreateFromDraft, UntouchedInv, Untouched, Nothing
  <2>2. meta' = meta /\ pointer' = pointer
    BY <1>2, Zenon DEF CreateFromDraft, disk, records
  <2> QED
    BY <1>2, <2>1, <2>2 DEF CreateFromDraft, OnDisk, Absent
<1>3. ASSUME NEW c \in Calls, SwitchPointer(c)
      PROVE  OnDisk' = deployment'.current
  <2>1. call[c].at = "pointing" /\ pointer' = call[c].rel
    BY <1>3 DEF SwitchPointer
  <2>2. deployment.current = call[c].rel
    BY <2>1 DEF TargetInv, Switched, SerialInv, AskOf, Switching
  <2>3. call[c].rel # NoRelease
    <3>1. Course(c)
      BY DEF Courses
    <3>2. call[c].rel \in Releases
      BY <2>1, <3>1 DEF Course, Between
    <3> QED
      BY <3>2, LifecycleAssumption DEF Releases
  <2>4. deployment'.current = deployment.current
    BY <1>3 DEF SwitchPointer, LockInv, RecordTypes, Docs
  <2> QED
    BY <2>1, <2>2, <2>3, <2>4 DEF OnDisk
<1>4. CASE ~Crash /\ \A c \in Calls : ~CreateFromDraft(c) /\ ~SwitchPointer(c)
  <2>1. listed
    BY <1>0, <1>4, ListedStays
  <2>2. ~InBetween
    BY <1>0, <1>4, LeavesBetween DEF InBetween
  <2>3. deployment'.current = deployment.current /\ OnDisk = deployment.current
    BY <1>4, <2>1, <2>2, SameCurrent DEF CurrentsAgree
  <2>4. \A c \in Calls : ~RemoveStorage(c)
    BY <2>1, UnlistedWhileLeaving DEF RemoveStorage, Leaving
  <2>5. pointer' = pointer
    BY <1>4, <2>4, PointerWritten
  <2>6. meta' = meta \/ (pointer = NoRelease => meta'.current = deployment.current)
    BY <2>2, <2>4, MetaWritten DEF CurrentsAgree
  <2> QED
    BY <2>3, <2>5, <2>6 DEF OnDisk
<1> QED
  BY <1>1, <1>2, <1>3, <1>4

LEMMA NextThere ==
  ASSUME OneAtATime, Unforced, LockInv, AskedInv, SerialInv, ListedInv, GoneInv,
         RecordsThere, CurrentsAgree, Steps, faults = 0, faults' = 0, listed'
  PROVE  meta' # Absent \/ \E c \in Calls : Creating(c)'
<1>0. OneCall
  BY DEF SerialInv
<1>1. CASE Crash
  <2>1. meta' = meta /\ listed' = (meta # Absent)
    BY <1>1, Zenon DEF Crash, disk, records
  <2> QED
    BY <2>1
<1>2. ASSUME NEW c \in Calls, CreateFromDraft(c)
      PROVE  Creating(c)'
  <2>1. PICK w \in SUBSET Wishes : call' = Opened(c, "create", w, "staging", c)
    BY <1>2 DEF CreateFromDraft
  <2>2. "create" \in Operations /\ c \in Rel
    BY Constants DEF Operations
  <2>3. call'[c].op = "create" /\ call'[c].at = "staging"
    BY <2>1, <2>2, OpenedAs
  <2> QED
    BY <2>3 DEF Creating
<1>3. CASE ~Crash /\ \A c \in Calls : ~CreateFromDraft(c)
  <2>1. listed
    BY <1>0, <1>3, ListedStays
  <2>2. \A c \in Calls : ~RemoveStorage(c)
    BY <2>1, UnlistedWhileLeaving DEF RemoveStorage, Leaving
  <2>3. meta # Absent => meta' # Absent
    BY <2>2, MetaWritten DEF RecordsThere, Documents, Told, Absent
  <2>4. ASSUME NEW c \in Calls, Creating(c)
        PROVE  meta' # Absent \/ Creating(c)'
    <3>1. ~Calling(c) /\ call[c].at # "waiting"
      BY <2>4, CallOpening DEF Creating
    <3>2. CASE Stage(c)
      BY <2>4, <3>2, StageGoes DEF Stage, Goes, Creating
    <3>3. CASE Save(c)
      BY <2>4, <3>3, SaveGoes DEF Goes, Creating
    <3>4. CASE Register(c)
      BY <3>4 DEF Register, RecordsThere, Documents, Absent
    <3>5. CallStep(c) => Stage(c) \/ Save(c) \/ Register(c)
      BY <2>4
         DEF CallStep, Creating, CaptureSnapshot, DemoteRelease, ActivateRelease, RecordRelease, SwitchPointer,
             SyncVersion, Launch, Close, DiscardJobs, Teardown, Unlist, RemoveStorage, RemoveAppData
    <3>6. CASE call'[c] = call[c]
      BY <2>4, <3>6 DEF Creating
    <3> QED
      BY <1>0, <1>3, <3>1, <3>2, <3>3, <3>4, <3>5, <3>6, Mover
  <2> QED
    BY <2>1, <2>3, <2>4 DEF CurrentsAgree
<1> QED
  BY <1>1, <1>2, <1>3

LEMMA NextCurrent ==
  ASSUME OneAtATime, Unforced, LockInv, AskedInv, SerialInv, UntouchedInv, TargetInv, ListedInv, GoneInv,
         Courses, RecordsThere, CurrentsAgree, Steps, faults = 0, faults' = 0
  PROVE  CurrentsAgree'
<1>1. OneCall /\ faults' = faults
  BY DEF SerialInv
<1>2. \A c \in Calls : call'[c].at \in Documents => call'[c].doc.current = deployment'.current
  BY <1>1, NextCallDocs
<1>3. \A j \in Calls : job'[j].at \in Told /\ pointer' = NoRelease /\ ~InBetween' =>
        job'[j].doc.current = deployment'.current
  BY <1>1, NextJobDocs
<1>4. listed' /\ ~InBetween' => OnDisk' = deployment'.current
  BY NextOnDisk
<1>5. listed' => meta' # Absent \/ \E c \in Calls : Creating(c)'
  BY NextThere
<1> QED
  BY <1>2, <1>3, <1>4, <1>5 DEF CurrentsAgree

DiskInv == HistoryInv /\ FilesInv /\ CurrentInv

LEMMA NextDisk ==
  ASSUME OneAtATime, Unforced, LockInv, GoalInv, DataInv, PathInv, AbsenceInv, AbsenceInv', DiskInv,
         [Next]_vars
  PROVE  DiskInv'
<1>1. Steps /\ OneCall /\ SerialInv /\ UntouchedInv /\ TargetInv /\ ListedInv /\ GoneInv /\ AskedInv /\ ListedInv'
  BY NextSteps DEF PathInv, SerialInv, AbsenceInv, DataInv
<1>2. HistoryInv'
  BY <1>1, NextHistory DEF DiskInv
<1>3. ASSUME faults' = 0
      PROVE  /\ FilesThere' /\ RecordsThere'
             /\ CurrentsAgree'
  <2>1. faults = 0
    <3>1. faults \in Nat
      BY DEF LockInv, LockTypes
    <3> QED
      BY <1>1, <1>3, <3>1, StepBounds DEF bounds
  <2>2. Courses /\ FilesThere /\ RecordsThere /\ CurrentsAgree
    BY <2>1 DEF DiskInv, HistoryInv, FilesInv, CurrentInv
  <2>3. faults' = faults
    BY <1>3, <2>1
  <2> QED
    BY <1>1, <1>3, <2>1, <2>2, <2>3, NextRecords, NextFiles, NextCurrent
<1> QED
  BY <1>2, <1>3 DEF DiskInv, FilesInv, CurrentInv

LEMMA DiskHolds == ASSUME OneAtATime, Unforced PROVE Spec => []DiskInv
<1>1. Init => DiskInv
  BY InitHistory, InitFiles, InitCurrent DEF DiskInv
<1>2. /\ LockInv /\ GoalInv /\ DataInv /\ PathInv /\ AbsenceInv /\ AbsenceInv' /\ DiskInv /\ [Next]_vars
      => DiskInv'
  BY NextDisk
<1>3. IInv => LockInv /\ GoalInv
  BY DEF IInv
<1> QED
  BY <1>1, <1>2, <1>3, LockInvHolds, DataInvHolds, PathHolds, AbsenceHolds, PTL DEF Spec

LEMMA PointerIsStaged ==
  ASSUME LockInv, DiskInv
  PROVE  PointerNamesStagedRelease
  BY DEF LockInv, RecordTypes, Rel, DiskInv, FilesInv, FilesThere, PointerNamesStagedRelease

(* A restart finds on disk what the memory had.                             *)
LEMMA CrashLosesNothing ==
  ASSUME LockInv, DiskInv, Crash, faults = 0, NoCallUnderWay, listed
  PROVE  listed' /\ deployment'.current = deployment.current /\ release' = release
<1>1. \A c \in Calls : call[c].at \in Settled
  BY DEF NoCallUnderWay, UnderWay
<1>2. /\ \A c \in Calls : call[c].at \notin Uneven /\ ~Creating(c)
      /\ ~InBetween
  BY <1>1 DEF Settled, Uneven, Creating, InBetween, Between
<1>3. Courses /\ CurrentsAgree
  BY DEF DiskInv, HistoryInv, CurrentInv
<1>4. meta # Absent /\ OnDisk = deployment.current
  BY <1>2, <1>3 DEF CurrentsAgree
<1>5. stored = release
  <2>1. Alike(Releases)
    BY <1>2, <1>3 DEF Courses
  <2>2. stored \in [Releases -> ReleaseStates] /\ release \in [Releases -> ReleaseStates]
    BY DEF LockInv, RecordTypes
  <2> QED
    BY <2>1, <2>2 DEF Alike
<1>6. listed' /\ deployment' = Reloaded /\ release' = stored
  BY <1>4, Zenon DEF Crash
<1>7. Reloaded.current = OnDisk
  BY DEF Reloaded, OnDisk, LockInv, RecordTypes, Docs
<1> QED
  BY <1>4, <1>5, <1>6, <1>7

(* The release a restart will make active has its record, its metadata and  *)
(* its compose file on disk at every moment, and a restart between calls    *)
(* brings back the deployment, its active release and its history           *)
(* (promoteRelease writes the pointer last, loadFromStorage reads it), when *)
(* calls are answered one by one, no uninstall is forced and no write has   *)
(* failed; a job may be anywhere.                                           *)
THEOREM RestartLosesNothingHolds ==
  ASSUME OneAtATime, Unforced
  PROVE  Spec => RestartLosesNothing
<1>1. ASSUME LockInv, LockInv', DiskInv, DiskInv', [Next]_vars
      PROVE  /\ PointerNamesStagedRelease'
             /\ crashes' # crashes /\ faults = 0 /\ NoCallUnderWay /\ listed =>
                  listed' /\ deployment'.current = deployment.current /\ release' = release
  <2>1. PointerNamesStagedRelease'
    BY <1>1, PointerIsStaged, PTL
  <2>2. crashes' # crashes => Crash
    BY <1>1, NextSteps, StepBounds DEF bounds
  <2> QED
    BY <1>1, <2>1, <2>2, CrashLosesNothing
<1>2. LockInv /\ LockInv' /\ DiskInv /\ DiskInv' /\ [Next]_vars =>
        [/\ PointerNamesStagedRelease'
         /\ crashes' # crashes /\ faults = 0 /\ NoCallUnderWay /\ listed =>
              listed' /\ deployment'.current = deployment.current /\ release' = release]_vars
  BY <1>1
<1>3. IInv => LockInv
  BY DEF IInv
<1> QED
  BY <1>2, <1>3, LockInvHolds, DiskHolds, PTL DEF Spec, RestartLosesNothing

-----------------------------------------------------------------------------
(* Exactly one release is active while nothing has failed or restarted.     *)
Switchers == {"demoting", "activating"}

OnlyActive(rel) == \A r \in Releases : release[r] = "active" <=> r = rel

Actives == listed =>
  /\ (\A c \in Calls : call[c].at \notin Switchers) => OnlyActive(deployment.current)
  /\ \A c \in Calls :
       /\ call[c].at = "demoting" => call[c].old = deployment.current /\ OnlyActive(NoRelease)
       /\ call[c].at = "activating" => OnlyActive(call[c].rel)
       /\ call[c].op = "promote" /\ call[c].at \in {"waiting", "capturing"} => call[c].old = deployment.current
  /\ ~InBetween => pointer = deployment.current
ActiveInv == faults = 0 /\ crashes = 0 => Actives

LEMMA NoneIsNoRelease == NoRelease \notin Releases
  BY LifecycleAssumption DEF Releases

LEMMA InitActive == Init => ActiveInv
<1> SUFFICES ASSUME Init PROVE Actives
  BY DEF ActiveInv
<1>1. /\ pointer = deployment.current /\ listed = Installed
      /\ \A c \in Calls : call[c].at = "idle"
      /\ release = [r \in Releases |-> IF Installed /\ r = Original THEN "active" ELSE "none"]
      /\ deployment = IF Installed THEN [status |-> "running", current |-> Original, version |-> Original]
                                   ELSE Absent
  BY DEF Init, NoCall
<1>2. listed => OnlyActive(deployment.current)
  BY <1>1 DEF OnlyActive
<1> QED
  BY <1>1, <1>2 DEF Actives

(* promoteRelease demotes the one that is active. *)
LEMMA SwitchActives ==
  ASSUME RecordTypes, NEW c \in Calls, NEW rel \in Releases, OnlyActive(deployment.current),
         SwitchTo(c, rel), deployment'.current = deployment.current,
         \A d \in Calls \ {c} : call'[d].at \in Settled, call'[c].rel = rel
  PROVE  /\ (\A d \in Calls : call'[d].at \notin Switchers) => OnlyActive(deployment.current)'
         /\ \A d \in Calls :
              /\ call'[d].at = "demoting" => call'[d].old = deployment'.current /\ OnlyActive(NoRelease)'
              /\ call'[d].at = "activating" => OnlyActive(call[d].rel)'
<1>0. release \in [Releases -> ReleaseStates]
  BY DEF RecordTypes
<1>1. \A d \in Calls \ {c} : call'[d].at \notin Switchers
  BY DEF Settled, Switchers
<1>2. PICK old : old = deployment.current
  OBVIOUS
<1>3. CASE call'[c].at = "failed" /\ release' = release
  BY <1>1, <1>2, <1>3 DEF OnlyActive, Switchers
<1>4. CASE /\ call'[c].at = "demoting" /\ call'[c].old = old /\ old \in Releases \ {rel}
           /\ release' = [release EXCEPT ![old] = "stopped"]
  <2>1. \A r \in Releases : release'[r] # "active"
    BY <1>0, <1>2, <1>4 DEF OnlyActive
  <2> QED
    BY <1>1, <1>2, <1>4, <2>1, NoneIsNoRelease DEF OnlyActive, Switchers
<1>5. CASE /\ call'[c].at = "activating"
           /\ old \in {NoRelease, rel} \/ release[old] = "none"
           /\ release' = [release EXCEPT ![rel] = "active"]
  <2>1. \A r \in Releases : release'[r] = "active" <=> r = rel
    BY <1>0, <1>2, <1>5, NoneIsNoRelease DEF OnlyActive
  <2> QED
    BY <1>1, <1>2, <1>5, <2>1 DEF OnlyActive, Switchers
<1> QED
  BY <1>2, <1>3, <1>4, <1>5 DEF SwitchTo

(* The two halves of Actives: the releases, and what the pointer and a      *)
(* promote remember of them.                                                *)
ActiveReleases ==
  /\ (\A c \in Calls : call[c].at \notin Switchers) => OnlyActive(deployment.current)
  /\ \A c \in Calls :
       /\ call[c].at = "demoting" => call[c].old = deployment.current /\ OnlyActive(NoRelease)
       /\ call[c].at = "activating" => OnlyActive(call[c].rel)

LEMMA ActivesKept ==
  ASSUME ActiveReleases, UNCHANGED release, deployment'.current = deployment.current,
         \A c \in Calls : Steady(c)
  PROVE  ActiveReleases'
<1>1. \A c \in Calls : (call'[c].at \in Switchers \/ call[c].at \in Switchers) => call'[c] = call[c]
  BY DEF Steady, Switchers, Uneven
<1> QED
  BY <1>1 DEF ActiveReleases, Switchers, OnlyActive

LEMMA PointerFollows ==
  ASSUME OneAtATime, Unforced, LockInv, AskedInv, SerialInv, UntouchedInv, TargetInv, ListedInv, GoneInv,
         Actives, Steps, faults = 0, faults' = 0, ~Crash, listed', ~InBetween'
  PROVE  pointer' = deployment'.current
<1>0. OneCall
  BY DEF SerialInv
<1>1. ASSUME NEW c \in Calls, CreateFromDraft(c)
      PROVE  pointer' = deployment'.current
  <2>1. pointer = NoRelease
    BY <1>1 DEF CreateFromDraft, UntouchedInv, Untouched, Nothing
  <2>2. pointer' = pointer
    BY <1>1, Zenon DEF CreateFromDraft, disk, records
  <2> QED
    BY <1>1, <2>1, <2>2 DEF CreateFromDraft
<1>2. ASSUME NEW c \in Calls, SwitchPointer(c)
      PROVE  pointer' = deployment'.current
  <2>1. call[c].at = "pointing" /\ pointer' = call[c].rel
    BY <1>2 DEF SwitchPointer
  <2>2. deployment.current = call[c].rel
    BY <2>1 DEF TargetInv, Switched, SerialInv, AskOf, Switching
  <2>3. deployment'.current = deployment.current
    BY <1>2 DEF SwitchPointer, LockInv, RecordTypes, Docs
  <2> QED
    BY <2>1, <2>2, <2>3
<1>3. CASE \A c \in Calls : ~CreateFromDraft(c) /\ ~SwitchPointer(c)
  <2>1. listed
    BY <1>0, <1>3, ListedStays
  <2>2. ~InBetween
    BY <1>0, <1>3, LeavesBetween DEF InBetween
  <2>3. deployment'.current = deployment.current
    BY <1>3, SameCurrent
  <2>4. pointer' = pointer
    BY <1>3, <2>1, PointerWritten, UnlistedWhileLeaving DEF RemoveStorage, Leaving
  <2> QED
    BY <2>1, <2>2, <2>3, <2>4 DEF Actives
<1> QED
  BY <1>1, <1>2, <1>3

(* What a promote has read of the active release before it asked for the    *)
(* lock is still so when it has it.                                         *)
LEMMA OldIsCurrent ==
  ASSUME OneAtATime, LockInv, OneCall, ListedInv, Actives, Steps, faults' = faults, ~Crash,
         NEW c \in Calls, call'[c].op = "promote", call'[c].at \in {"waiting", "capturing"}
  PROVE  call'[c].old = deployment'.current
<1>1. ~Calling(c)
  BY CallOpening DEF Opening, SwitchTo
<1>2. CASE CallStep(c)
  <2>1. Route(c) /\ call[c].op = "promote"
    BY <1>2, CallRoute DEF Goes
  <2>2. call[c].at # "discarding"
    BY <2>1 DEF LockInv, StageInv, RightOp, Uninstalls
  <2>3. call[c].at = "saving"
    BY <2>1, <2>2 DEF Route
  <2>4. Save(c)
    BY <1>2, <2>3
       DEF CallStep, Stage, Register, CaptureSnapshot, DemoteRelease, ActivateRelease, RecordRelease,
           SwitchPointer, SyncVersion, Launch, Close, DiscardJobs, Teardown, Unlist, RemoveStorage, RemoveAppData
  <2>5. call'[c].old = deployment.current
    BY <2>1, <2>4, SaveGoes DEF SwitchTo
  <2>6. deployment' = deployment
    BY <2>4 DEF Save
  <2> QED
    BY <2>5, <2>6
<1>3. CASE call[c].op = "promote" /\ call[c].at \in {"waiting", "capturing"} /\ call'[c].old = call[c].old
  <2>1. Under(c) /\ listed
    BY <1>3 DEF Under, Settled, ListedInv, Leaving
  <2>2. \A d \in Calls : ~CreateFromDraft(d)
    BY <2>1, CallOpening DEF Under, Calling
  <2>3. \A d \in Calls : ~ActivateRelease(d)
    <3>1. \A d \in Calls \ {c} : call[d].at \in Settled
      BY <2>1, Solo DEF Under
    <3> QED
      BY <1>3, <3>1 DEF ActivateRelease, Settled
  <2>4. deployment'.current = deployment.current
    BY <2>2, <2>3, CurrentKept
  <2> QED
    BY <1>3, <2>1, <2>4 DEF Actives
<1> QED
  BY <1>1, <1>2, <1>3, Mover

LEMMA CallingActives ==
  ASSUME OneAtATime, LockInv, UntouchedInv, Courses, Actives, NEW c \in Calls, Calling(c)
  PROVE  ActiveReleases'
<1>1. /\ \A d \in Calls : call[d].at \in Settled
      /\ Alone(c) /\ Opening(c) /\ call[c].at = "idle"
  BY CallOpening
<1>2. \A d \in Calls : call[d].at \notin Switchers \cup Uneven
  BY <1>1 DEF Settled, Switchers, Uneven
<1>3. call[c].op = "none" /\ c \in Releases /\ release \in [Releases -> ReleaseStates]
  BY <1>1, Constants DEF LockInv, StageInv, RightOp, RecordTypes
<1>4. \A d \in Calls \ {c} : call'[d] = call[d]
  BY <1>1 DEF Alone
<1>5. listed => OnlyActive(deployment.current)
  BY <1>2 DEF Actives
<1>6. ASSUME CreateFromDraft(c), call'[c].at = "staging"
      PROVE  ActiveReleases'
  <2>1. /\ deployment'.current = NoRelease
        /\ release' = [release EXCEPT ![c] = "creating"]
        /\ \A r \in Releases : release[r] = "none"
    BY <1>6 DEF CreateFromDraft, UntouchedInv, Untouched, Nothing
  <2>2. OnlyActive(deployment.current)'
    BY <1>3, <2>1, NoneIsNoRelease DEF OnlyActive
  <2> QED
    BY <1>2, <1>4, <1>6, <2>2 DEF ActiveReleases, Switchers
<1>7. ASSUME Promote(c), call'[c].at = "staging"
      PROVE  ActiveReleases'
  <2>1. /\ deployment' = deployment /\ listed
        /\ release' = [release EXCEPT ![c] = "creating"]
    BY <1>7 DEF Promote
  <2>2. release[c] = "none"
    BY <1>3 DEF Courses, Course
  <2>3. OnlyActive(deployment.current)'
    BY <1>3, <1>5, <2>1, <2>2 DEF OnlyActive
  <2> QED
    BY <1>2, <1>4, <1>7, <2>3 DEF ActiveReleases, Switchers
<1>8. ASSUME ExecuteAction(c) \/ DeleteDeployment(c), call'[c].op \in Acting \cup Uninstalls,
             call'[c].at \in {"launching", "discarding"}
      PROVE  ActiveReleases'
  <2>1. UNCHANGED <<release, deployment>> /\ listed
    BY <1>8, Zenon DEF ExecuteAction, DeleteDeployment, memory
  <2> QED
    BY <1>2, <1>4, <1>5, <1>8, <2>1 DEF ActiveReleases, Switchers, OnlyActive
<1>9. ASSUME Rollback(c), call'[c].rel \in Releases, SwitchTo(c, call'[c].rel), listed
      PROVE  ActiveReleases'
  <2>1. deployment' = deployment
    BY <1>9, Zenon DEF Rollback
  <2>2. \A d \in Calls \ {c} : call'[d].at \in Settled
    BY <1>1, <1>4
  <2> QED
    BY <1>5, <1>9, <2>1, <2>2, SwitchActives DEF LockInv, ActiveReleases
<1> QED
  BY <1>1, <1>6, <1>7, <1>8, <1>9, Constants DEF Opening

LEMMA CallActives ==
  ASSUME Unforced, LockInv, GoalInv, AskedInv, SerialInv, ListedInv, GoneInv, faults = 0,
         Courses, Actives, NEW c \in Calls, CallStep(c), ~Passing(c), listed'
  PROVE  ActiveReleases'
<1>0. OneCall /\ release \in [Releases -> ReleaseStates] /\ RecordTypes
  BY DEF SerialInv, LockInv, RecordTypes
<1>1. call[c].at \notin Settled /\ Goes(c, call'[c].at) /\ Route(c)
  BY <1>0, CallRoute
<1>2. \A d \in Calls \ {c} : /\ call'[d] = call[d] /\ call[d].at \in Settled
                             /\ call[d].at \notin Switchers
  BY <1>0, <1>1, Solo DEF Goes, Alone, Settled, Switchers
<1>3. call'[c].op = call[c].op /\ call'[c].rel = call[c].rel
  BY <1>1 DEF Goes
<1>4. call[c].at \notin Leaving => listed
  BY <1>1 DEF ListedInv, Under
<1>5. ASSUME call[c].at \in {"saving", "registering", "capturing"}
      PROVE  /\ OnlyActive(deployment.current)
             /\ call[c].op \in Changing => call[c].rel \in Releases
  BY <1>2, <1>4, <1>5, RelIsRelease DEF Actives, Switchers, Leaving
<1>6. ASSUME OnlyActive(deployment.current), SwitchTo(c, call[c].rel), call[c].rel \in Releases,
             deployment' = deployment
      PROVE  ActiveReleases'
  BY <1>0, <1>2, <1>3, <1>6, SwitchActives DEF ActiveReleases
<1>7. ASSUME OnlyActive(deployment.current), call'[c].at \notin Switchers, release' = release,
             deployment' = deployment
      PROVE  ActiveReleases'
  BY <1>2, <1>7 DEF ActiveReleases, OnlyActive, Switchers
<1>8. CASE Save(c)
  <2>1. /\ call[c].at = "saving" /\ call[c].op \in Changing /\ deployment' = deployment
    BY <1>8 DEF Save, Changing
  <2>2. \/ call'[c].at \notin Switchers /\ release' = release
        \/ SwitchTo(c, call[c].rel)
    BY <1>8, SaveGoes DEF Goes, Switchers
  <2> QED
    BY <1>5, <1>6, <1>7, <2>1, <2>2
<1>9. CASE Register(c) \/ CaptureSnapshot(c)
  <2>1. /\ call[c].at \in {"registering", "capturing"} /\ call[c].op \in Changing
        /\ deployment' = deployment
    BY <1>9 DEF Register, CaptureSnapshot, SerialInv, AskOf, LockInv, StageInv, RightOp, Changing
  <2>2. \/ call'[c].at \notin Switchers /\ release' = release
        \/ SwitchTo(c, call[c].rel)
    BY <1>0, <1>9, SwitchGoes, CaptureGoes DEF Register, Switchers
  <2> QED
    BY <1>5, <1>6, <1>7, <2>1, <2>2
<1>10. CASE DemoteRelease(c)
  <2>1. PICK rel \in Releases : rel = call[c].rel
    BY <1>10 DEF DemoteRelease, Courses, Course
  <2>2. call[c].at = "demoting" /\ listed
    BY <1>4, <1>10 DEF DemoteRelease, Leaving
  <2>3. OnlyActive(NoRelease) /\ release' = [release EXCEPT ![rel] = "active"]
    BY <1>10, <2>1, <2>2 DEF DemoteRelease, Actives
  <2>4. call'[c].at = "activating"
    BY <1>10, StageGoes DEF DemoteRelease, Goes
  <2>5. OnlyActive(call[c].rel)'
    BY <1>0, <1>3, <2>1, <2>3, NoneIsNoRelease DEF OnlyActive
  <2> QED
    BY <1>2, <2>4, <2>5 DEF ActiveReleases, Switchers
<1>11. CASE ActivateRelease(c)
  <2>1. call[c].at = "activating" /\ listed
    BY <1>4, <1>11 DEF ActivateRelease, Leaving
  <2>2. OnlyActive(call[c].rel) /\ release' = release
    BY <1>11, <2>1 DEF ActivateRelease, Actives
  <2>3. deployment'.current = call[c].rel /\ call'[c].at = "recording"
    BY <1>0, <1>11, DocGoes DEF ActivateRelease, Goes, RecordTypes, Docs
  <2>4. OnlyActive(deployment.current)'
    BY <2>2, <2>3 DEF OnlyActive
  <2> QED
    BY <1>2, <2>3, <2>4 DEF ActiveReleases, Switchers
<1>12. ~Unlist(c)
  BY DEF Unlist
<1>13. ~RemoveStorage(c)
  BY UnlistedWhileLeaving DEF RemoveStorage, Leaving, memory
<1> QED
  BY <1>8, <1>9, <1>10, <1>11, <1>12, <1>13 DEF CallStep, Passing

LEMMA NextActiveReleases ==
  ASSUME OneAtATime, Unforced, LockInv, GoalInv, AskedInv, SerialInv, UntouchedInv, ListedInv, GoneInv,
         Courses, Actives, Steps, faults = 0, faults' = 0, ~Crash, listed'
  PROVE  ActiveReleases'
<1>0. OneCall /\ faults' = faults
  BY DEF SerialInv
<1>1. ASSUME NEW c \in Calls, Calling(c)
      PROVE  ActiveReleases'
  BY <1>1, CallingActives
<1>2. ASSUME NEW c \in Calls, CallStep(c), ~Passing(c)
      PROVE  ActiveReleases'
  BY <1>0, <1>2, CallActives
<1>3. ASSUME UNCHANGED release, \A c \in Calls : Steady(c), deployment'.current = deployment.current,
             \A c \in Calls : ~CreateFromDraft(c)
      PROVE  ActiveReleases'
  <2>1. listed
    BY <1>0, <1>3, ListedStays
  <2>2. ActiveReleases
    BY <2>1 DEF Actives, ActiveReleases
  <2> QED
    BY <1>3, <2>2, ActivesKept
<1>4. ASSUME NEW c \in Calls, Passing(c), \A d \in Calls : ~CreateFromDraft(d)
      PROVE  ActiveReleases'
  <2>1. UNCHANGED release /\ \A d \in Calls : Steady(d)
    BY <1>0, <1>4, PassingSteady
  <2>2. \A d \in Calls : ~ActivateRelease(d) \/ ~Goes(d, "recording")
    <3>1. call[c].at # "activating"
      BY <1>4 DEF Passing, Stage, RecordRelease, SwitchPointer, SyncVersion, Launch, Close, DiscardJobs,
                  Teardown, RemoveAppData
    <3>2. \A d \in Calls : d # c => call'[d] = call[d]
      BY <1>0, <1>4, CallRoute DEF Passing, CallStep, Goes, Alone
    <3> QED
      BY <3>1, <3>2 DEF ActivateRelease, Goes
  <2> QED
    BY <1>3, <1>4, <2>1, <2>2, CurrentKept
<1>5. ASSUME NEW j \in Calls, JobStep(j) \/ JobWriteFails(j), \A c \in Calls : ~CreateFromDraft(c)
      PROVE  ActiveReleases'
  <2>1. JobMove(j)
    BY <1>5, JobMoveHolds
  <2>2. \A c \in Calls : Steady(c)
    BY <2>1, WaitersSteady DEF JobMove
  <2>3. release' = release /\ deployment'.current = deployment.current
    BY <2>1 DEF JobMove, Ends, Settles, Proceeds, memory, LockInv, RecordTypes, Docs
  <2> QED
    BY <1>3, <1>5, <2>2, <2>3
<1>6. ASSUME TickLater \/ Recover \/ UNCHANGED vars, \A d \in Calls : ~CreateFromDraft(d)
      PROVE  ActiveReleases'
  <2>1. UNCHANGED <<release, deployment, call>>
    BY <1>6, Zenon DEF TickLater, Recover, vars, memory
  <2> QED
    BY <1>3, <1>6, <2>1 DEF Steady
<1>7. ASSUME NEW c \in Calls, CallWriteFails(c)
      PROVE  FALSE
  BY <1>0, <1>7 DEF CallWriteFails
<1>8. CASE \E c \in Calls : CreateFromDraft(c)
  BY <1>1, <1>8 DEF Calling
<1> QED
  BY <1>1, <1>2, <1>4, <1>5, <1>6, <1>7, <1>8 DEF Steps

LEMMA NextActive ==
  ASSUME OneAtATime, Unforced, LockInv, GoalInv, DataInv, PathInv, AbsenceInv, DiskInv, ActiveInv, [Next]_vars
  PROVE  ActiveInv'
<1>1. /\ Steps /\ OneCall /\ SerialInv /\ UntouchedInv /\ TargetInv /\ ListedInv /\ GoneInv /\ AskedInv
      /\ faults \in Nat /\ crashes \in Nat
  BY NextSteps DEF PathInv, SerialInv, AbsenceInv, DataInv, LockInv, LockTypes
<1> SUFFICES ASSUME faults' = 0, crashes' = 0, listed' PROVE Actives'
  BY DEF ActiveInv, Actives
<1>2. faults = 0 /\ crashes = 0 /\ ~Crash
  <2>1. \/ UNCHANGED <<crashes, faults>>
        \/ crashes' = crashes /\ faults' = faults + 1
        \/ crashes' = crashes + 1 /\ faults' = faults
    BY <1>1, StepBounds DEF bounds
  <2>2. Crash => crashes' = crashes + 1
    BY Zenon DEF Crash
  <2> QED
    BY <1>1, <2>1, <2>2
<1>3. Courses /\ Actives /\ faults' = faults
  BY <1>2 DEF DiskInv, HistoryInv, ActiveInv
<1>4. ActiveReleases'
  BY <1>1, <1>2, <1>3, NextActiveReleases
<1>5. ~InBetween' => pointer' = deployment'.current
  BY <1>1, <1>2, <1>3, PointerFollows
<1>6. \A c \in Calls : call'[c].op = "promote" /\ call'[c].at \in {"waiting", "capturing"} =>
                         call'[c].old = deployment'.current
  BY <1>1, <1>2, <1>3, OldIsCurrent
<1> QED
  BY <1>4, <1>5, <1>6 DEF Actives, ActiveReleases

LEMMA ActiveHolds == ASSUME OneAtATime, Unforced PROVE Spec => []ActiveInv
<1>1. Init => ActiveInv
  BY InitActive
<1>2. LockInv /\ GoalInv /\ DataInv /\ PathInv /\ AbsenceInv /\ DiskInv /\ ActiveInv /\ [Next]_vars
      => ActiveInv'
  BY NextActive
<1>3. IInv => LockInv /\ GoalInv
  BY DEF IInv
<1> QED
  BY <1>1, <1>2, <1>3, LockInvHolds, DataInvHolds, PathHolds, AbsenceHolds, DiskHolds, PTL DEF Spec

LEMMA OneIsActive ==
  ASSUME LockInv, DiskInv, ActiveInv, faults = 0, crashes = 0, NoCallUnderWay, listed
  PROVE  OneActive
<1>1. \A c \in Calls : call[c].at \in Settled
  BY DEF NoCallUnderWay, UnderWay
<1>2. (\A c \in Calls : call[c].at \notin Uneven \cup Switchers) /\ ~InBetween
  BY <1>1 DEF Settled, Uneven, Switchers, InBetween, Between
<1>3. Alike(Releases)
  BY <1>2 DEF DiskInv, HistoryInv, Courses
<1>4. stored = release
  <2>1. stored \in [Releases -> ReleaseStates] /\ release \in [Releases -> ReleaseStates]
    BY DEF LockInv, RecordTypes
  <2> QED
    BY <1>3, <2>1 DEF Alike
<1>5. pointer = deployment.current /\ OnlyActive(deployment.current)
  BY <1>2 DEF ActiveInv, Actives
<1> QED
  BY <1>4, <1>5 DEF OneActive, OnlyActive

(* Between calls exactly one release is active, in memory, in its file and  *)
(* in the pointer (promoteRelease), and a pre-upgrade snapshot is filed     *)
(* under the release being replaced (capturePreUpgradeSnapshot), when calls *)
(* are answered one by one, no uninstall is forced, no write fails and the  *)
(* server does not restart: a promoteRelease cut short leaves the previous  *)
(* release demoted.                                                         *)
THEOREM PromotionConsistentHolds ==
  ASSUME OneAtATime, Unforced, MaxCrashes = 0, MaxFaults = 0
  PROVE  Spec => PromotionConsistent
<1>1. ASSUME LockInv, PathInv
      PROVE  faults = 0 /\ crashes = 0
  BY <1>1 DEF PathInv, SerialInv, Bounded, LockInv, LockTypes
<1>2. ASSUME LockInv, PathInv, DiskInv, ActiveInv
      PROVE  NoCallUnderWay /\ listed => OneActive
  BY <1>1, <1>2, OneIsActive
<1>3. ASSUME LockInv, PathInv, AbsenceInv, ActiveInv
      PROVE  \A c \in Calls : call[c].at = "capturing" => call[c].old = deployment.current
  <2>1. ASSUME NEW c \in Calls, call[c].at = "capturing"
        PROVE  call[c].op = "promote" /\ listed
    BY <1>3, <2>1 DEF LockInv, StageInv, RightOp, AbsenceInv, ListedInv, Under, Settled, Leaving
  <2> QED
    BY <1>1, <1>3, <2>1 DEF ActiveInv, Actives
<1>4. /\ LockInv /\ PathInv /\ DiskInv /\ ActiveInv => (NoCallUnderWay /\ listed => OneActive)
      /\ LockInv /\ PathInv /\ AbsenceInv /\ ActiveInv =>
           \A c \in Calls : call[c].at = "capturing" => call[c].old = deployment.current
  BY <1>2, <1>3
<1>5. ASSUME \A c \in Calls : call[c].at = "capturing" => call[c].old = deployment.current,
             (NoCallUnderWay /\ listed => OneActive)'
      PROVE  /\ (NoCallUnderWay /\ listed => OneActive)'
             /\ \A c \in Calls : snapshot' # snapshot /\ call[c].at = "capturing" /\ call'[c].at # "capturing"
                  => call[c].old = deployment.current
  BY <1>5
<1>6. /\ \A c \in Calls : call[c].at = "capturing" => call[c].old = deployment.current
      /\ (NoCallUnderWay /\ listed => OneActive)'
      => [/\ (NoCallUnderWay /\ listed => OneActive)'
          /\ \A c \in Calls : snapshot' # snapshot /\ call[c].at = "capturing" /\ call'[c].at # "capturing"
               => call[c].old = deployment.current]_vars
  BY <1>5
<1>7. IInv => LockInv
  BY DEF IInv
<1> QED
  BY <1>4, <1>6, <1>7, LockInvHolds, PathHolds, AbsenceHolds, DiskHolds, ActiveHolds, PTL DEF PromotionConsistent
-----------------------------------------------------------------------------
(* The status tells the truth unless a job is at work, or the containers    *)
(* have just been torn down.                                                *)
Unset == ({"queued"} \cup Working) \ {"reporting", "failing"}
Ran   == {"reporting", "failing", "completed", "failed"}

Calm ==
  /\ deployment.status = "running" => containers # NoRelease
  /\ deployment.status = "stopped" => containers = NoRelease
  /\ deployment.status = "installing" => \A j \in Calls : job[j].at \notin Ran

Expected ==
  /\ listed /\ \A j \in Calls : job[j].at \notin Unset
  /\ \A c \in Calls : call[c].at # "deprovisioning"
StatusInv == crashes = 0 /\ Expected => Calm

(* The action delete says stopped even when the stop failed. *)
NoDelete == \A r \in Requests : r.op # "delete"

(* A job does what its call asked for. *)
ActInv == \A j \in Calls :
  /\ job[j].act \notin {"none", "deploy"} => job[j].act = call[j].op
  /\ job[j].at = "none" => job[j].act = "none"

LEMMA InitStatus == Init => StatusInv /\ ActInv
<1> SUFFICES ASSUME Init PROVE Calm /\ ActInv
  BY DEF StatusInv
<1>1. /\ containers = deployment.current
      /\ \A j \in Calls : job[j].at = "none" /\ job[j].act = "none"
      /\ deployment = IF Installed THEN [status |-> "running", current |-> Original, version |-> Original]
                                   ELSE Absent
  BY DEF Init, NoJob
<1>2. Original # NoRelease
  BY LifecycleAssumption
<1> QED
  BY <1>1, <1>2 DEF Calm, Ran, ActInv, Absent

LEMMA ActsKept ==
  ASSUME ActInv,
         \A c \in Calls : call'[c].op = call[c].op \/ job[c].act = "none",
         \A j \in Calls : job'[j].act = job[j].act /\ (job'[j].at = "none" => job[j].at = "none")
  PROVE  ActInv'
  BY DEF ActInv

LEMMA NextActs ==
  ASSUME OneAtATime, LockInv, OneCall, ActInv, Steps
  PROVE  ActInv'
<1>0. \A c \in Calls : call[c].at = "idle" => job[c].act = "none"
  BY DEF LockInv, StageInv, Late, ActInv
<1>1. ASSUME NEW c \in Calls, Launch(c)
      PROVE  ActInv'
  <2>1. /\ \A j \in Calls \ {c} : job'[j].act = job[j].act /\ (job'[j].at = "none" => job[j].at = "none")
        /\ job'[c].act = JobOf(c).act /\ job'[c].at # "none"
    BY <1>1, LaunchFollows
  <2>2. \A d \in Calls : call'[d].op = call[d].op
    <3>1. CallStep(c)
      BY <1>1, Zenon DEF CallStep
    <3> QED
      BY <3>1, CallRoute DEF Goes, Alone
  <2>3. JobOf(c).act \in {"deploy", call[c].op}
    BY DEF JobOf
  <2> QED
    BY <2>1, <2>2, <2>3 DEF ActInv
<1>2. ASSUME NEW c \in Calls, CallStep(c) \/ CallWriteFails(c), ~Launch(c)
      PROVE  ActInv'
  <2>1. Goes(c, call'[c].at) /\ JobsGoOn
    BY <1>2, CallRoute
  <2> QED
    BY <2>1, ActsKept DEF Goes, Alone, JobsGoOn
<1>3. ASSUME NEW c \in Calls, Calling(c)
      PROVE  ActInv'
  <2>1. call[c].at = "idle" /\ Alone(c) /\ UNCHANGED job
    BY <1>3, CallOpening
  <2> QED
    BY <1>0, <2>1, ActsKept DEF Alone
<1>4. ASSUME NEW j \in Calls, JobStep(j) \/ JobWriteFails(j)
      PROVE  ActInv'
  <2>1. JobsAround(j) /\ CallsGoOn /\ job'[j].at # "none"
    BY <1>4, JobMoveHolds DEF JobMove, Ends, Settles, Proceeds
  <2> QED
    BY <2>1, ActsKept DEF JobsAround, CallsGoOn
<1>5. ASSUME TickLater \/ Recover \/ UNCHANGED vars
      PROVE  ActInv'
  <2>1. call' = call /\ JobsGoOn
    BY <1>5, TickLaterFollows, RecoverFollows, JobsStay DEF TickLater, Recover, vars
  <2> QED
    BY <2>1, ActsKept DEF JobsGoOn
<1>6. ASSUME Crash
      PROVE  ActInv'
  <2>1. \A j \in Calls : job'[j].act = job[j].act /\ (job'[j].at = "none" => job[j].at = "none")
    BY <1>6, CrashJobsHold DEF CrashJobs
  <2>2. \A c \in Calls : call'[c].op = call[c].op
    BY <1>6, CrashCallsHold DEF CrashCalls
  <2> QED
    BY <2>1, <2>2, ActsKept
<1> QED
  BY <1>1, <1>2, <1>3, <1>4, <1>5, <1>6 DEF Steps

(* No job moves beside a call that is past its opening, unless it is the    *)
(* call that starts one.                                                    *)
LEMMA JobsBesideCall ==
  ASSUME LockInv, SerialInv, TurnInv, crashes = 0, Unforced, AskedInv, NEW c \in Calls,
         CallStep(c) \/ CallWriteFails(c), ~Launch(c)
  PROVE  \A j \in Calls : job'[j].at = job[j].at
<1>1. call[c].at \notin Settled \cup {"waiting"} /\ JobsGoOn
  BY CallRoute DEF SerialInv
<1>2. CASE HasTurn(c)
  <2>1. \A j \in Calls : job[j].at \in Finished
    BY <1>2 DEF TurnInv
  <2> QED
    BY <1>1, <2>1 DEF JobsGoOn, Finished
<1>3. CASE ~HasTurn(c)
  <2>1. call[c].op # "forceUninstall" /\ call[c].op \in Operations \cup {"none"}
    BY DEF Unforced, AskedInv, LockInv, LockTypes, CallRecord
  <2>2. call[c].at = "closing" \/ call[c].op \in Acting \cup {"none"}
    BY <1>1, <1>3, <2>1 DEF HasTurn, Operations, Changing, Acting, Uninstalls
  <2>3. call[c].at \in {"closing", "launching"}
    <3>1. AskOf(c) /\ RightOp(c) /\ call[c].at \in CallStages
      BY DEF SerialInv, LockInv, StageInv, LockTypes, CallRecord
    <3> QED
      BY <1>1, <2>2, <3>1
         DEF AskOf, RightOp, CallStages, Writing, Acting, Settled, Changing, Switching, Tearing, Uninstalls
  <2>4. UNCHANGED job
    BY <2>3, Zenon
       DEF CallStep, CallWriteFails, Stage, Save, Register, CaptureSnapshot, DemoteRelease,
           ActivateRelease, RecordRelease, SwitchPointer, SyncVersion, Close, DiscardJobs,
           Teardown, Unlist, RemoveStorage, RemoveAppData
  <2> QED
    BY <2>4
<1> QED
  BY <1>2, <1>3

(* Steps that leave status, containers and jobs as they are.                *)
LEMMA CalmKept ==
  ASSUME Expected => Calm, deployment'.status = deployment.status, containers' = containers,
         listed' => listed, \A j \in Calls : job'[j].at = job[j].at \/ job'[j].at \in Unset,
         \A c \in Calls : call[c].at = "deprovisioning" => ~listed' \/ call'[c].at = "deprovisioning"
  PROVE  Expected' => Calm'
<1> SUFFICES ASSUME Expected' PROVE Calm'
  OBVIOUS
<1>1. \A j \in Calls : job'[j].at = job[j].at
  BY DEF Expected
<1>2. Expected
  BY <1>1 DEF Expected
<1> QED
  BY <1>1, <1>2 DEF Calm

LEMMA CallingStatus ==
  ASSUME OneAtATime, LockInv, UntouchedInv, Expected => Calm, NEW c \in Calls, Calling(c)
  PROVE  Expected' => Calm'
<1>1. /\ call[c].at = "idle" /\ Alone(c) /\ UNCHANGED job
  BY CallOpening
<1>2. CASE CreateFromDraft(c)
  <2>1. \A j \in Calls : job[j].at = "none"
    BY <1>2, NoCallsNoJobs DEF CreateFromDraft, Untouched, UntouchedInv, Nothing
  <2>2. deployment'.status = "installing"
    BY <1>2 DEF CreateFromDraft
  <2> QED
    BY <1>1, <2>1, <2>2 DEF Calm, Ran
<1>3. CASE ~CreateFromDraft(c)
  <2>1. UNCHANGED <<listed, deployment, host>>
    BY <1>3, Zenon DEF Calling, Promote, Rollback, ExecuteAction, DeleteDeployment, memory
  <2> QED
    BY <1>1, <2>1, CalmKept DEF host, Alone
<1> QED
  BY <1>2, <1>3

LEMMA CallStatus ==
  ASSUME LockInv, SerialInv, TurnInv, ListedInv, crashes = 0, Unforced, AskedInv, Expected => Calm,
         NEW c \in Calls, CallStep(c) \/ CallWriteFails(c)
  PROVE  Expected' => Calm'
<1>0. deployment \in Docs
  BY DEF LockInv, RecordTypes
<1>1. call[c].at \notin Settled /\ Goes(c, call'[c].at) /\ OneCall
  BY CallRoute DEF SerialInv
<1>2. CASE Launch(c)
  <2>1. job'[c].at \in Unset
    BY <1>2, LaunchFollows DEF Unset, Working
  <2> QED
    BY <2>1 DEF Expected
<1>3. CASE Teardown(c) /\ call'[c].at = "deprovisioning"
  BY <1>3 DEF Expected
<1>4. CASE Unlist(c)
  BY <1>4 DEF Unlist, Expected
<1>5. CASE ~Launch(c) /\ ~Unlist(c) /\ call'[c].at # "deprovisioning"
  <2>1. \A j \in Calls : job'[j].at = job[j].at
    BY <1>5, JobsBesideCall
  <2>2. \A d \in Calls : call[d].at = "deprovisioning" => ~listed' \/ call'[d].at = "deprovisioning"
    <3>1. call[c].at # "deprovisioning"
      BY <1>5, Zenon
         DEF CallStep, CallWriteFails, Writing, Stage, Save, Register, CaptureSnapshot, DemoteRelease,
             ActivateRelease, RecordRelease, SwitchPointer, SyncVersion, Close, DiscardJobs,
             Teardown, RemoveStorage, RemoveAppData
    <3> QED
      BY <1>1, <3>1 DEF Goes, Alone
  <2>3. deployment'.status = deployment.status /\ containers' = containers /\ (listed' => listed)
    <3>1. CASE ActivateRelease(c) \/ SwitchPointer(c)
      <4>1. listed
        BY <1>1, <3>1 DEF ActivateRelease, SwitchPointer, ListedInv, Under, Leaving
      <4> QED
        BY <1>0, <3>1, <4>1 DEF ActivateRelease, SwitchPointer, Docs, host
    <3>2. CASE Teardown(c)
      <4>1. containers' = containers
        <5>1. call[c].at = "tearing"
          BY <3>2 DEF Teardown
        <5>2. Goes(c, "deprovisioning") => FALSE
          BY <1>5 DEF Goes
        <5> QED
          BY <1>1, <3>2, <5>1, <5>2, StageGoes DEF Teardown
      <4> QED
        BY <3>2, <4>1 DEF Teardown, memory
    <3>3. CASE ~ActivateRelease(c) /\ ~SwitchPointer(c) /\ ~Teardown(c)
      <4>1. UNCHANGED <<listed, deployment>>
        BY <1>5, <3>3, Zenon
           DEF CallStep, CallWriteFails, Stage, Save, Register, CaptureSnapshot, DemoteRelease,
               RecordRelease, SyncVersion, Close, DiscardJobs, RemoveStorage, RemoveAppData, memory
      <4>2. containers' = containers
        BY <1>5, <3>3, Zenon
           DEF CallStep, CallWriteFails, Stage, Save, Register, CaptureSnapshot, DemoteRelease,
               RecordRelease, SyncVersion, Close, DiscardJobs, RemoveStorage, RemoveAppData, host
      <4> QED
        BY <4>1, <4>2
    <3> QED
      BY <3>1, <3>2, <3>3
  <2> QED
    BY <2>1, <2>2, <2>3, CalmKept
<1>6. call'[c].at = "deprovisioning" => Teardown(c)
  <2>1. call[c].at = "tearing" \/ call'[c].at # "deprovisioning"
    BY CallRoute DEF SerialInv, Route
  <2>2. call[c].at = "tearing" => Teardown(c)
    BY Zenon
       DEF CallStep, CallWriteFails, Writing, Stage, Save, Register, CaptureSnapshot, DemoteRelease,
           ActivateRelease, RecordRelease, SwitchPointer, SyncVersion, Launch, Close, DiscardJobs,
           Unlist, RemoveStorage, RemoveAppData
  <2> QED
    BY <2>1, <2>2
<1> QED
  BY <1>2, <1>3, <1>4, <1>5, <1>6

(* A job that sets the status has just seen that it is so.                  *)
LEMMA SettledStatus ==
  ASSUME LockInv, NEW j \in Calls, JobStep(j) \/ JobWriteFails(j), Settles(j),
         job[j].act # "delete", job[j].at = "upping" => job[j].rel # NoRelease
  PROVE  \/ deployment'.status = "error"
         \/ deployment'.status = "stopped" /\ containers' = NoRelease
         \/ deployment'.status = "running" /\ containers' # NoRelease
<1>0. deployment \in Docs
  BY DEF LockInv, RecordTypes
<1>1. ASSUME Throws(j)
      PROVE  deployment'.status = "error"
  BY <1>0, <1>1 DEF Throws, Settle, Docs
<1>2. ASSUME NEW status, Succeeds(j, status)
      PROVE  deployment'.status = status
  BY <1>0, <1>2 DEF Succeeds, Settle, Docs
<1>3. ASSUME NEW stage, Proceed(j, stage), stage \in Working \ {"reporting", "failing"}
      PROVE  FALSE
  BY <1>3, ProceedIs DEF Settles
<1>4. CASE StopApp(j)
  BY <1>1, <1>2, <1>4 DEF StopApp
<1>5. CASE Up(j)
  <2>1. Throws(j) \/ (containers' = job[j].rel /\ job[j].at = "upping" /\ Succeeds(j, "running"))
    BY <1>5 DEF Up
  <2> QED
    BY <1>1, <1>2, <2>1
<1>6. CASE Quiet(j) \/ Restore(j) \/ Pull(j)
  BY <1>1, <1>3, <1>6 DEF Quiet, Restore, Pull, Working
<1>7. CASE Prepare(j)
  <2>1. CASE Throws(j)
    BY <1>1, <2>1
  <2>2. CASE job' = [job EXCEPT ![j].rel = deployment.current,
                                ![j].at = IF job[j].act = "restart" THEN "upping" ELSE "pulling"]
    BY <2>2 DEF Settles, LockInv, LockTypes, JobRecord
  <2> QED
    BY <1>7, <2>1, <2>2 DEF Prepare
<1>8. CASE StartJob(j) \/ Report(j) \/ ReportFailure(j)
  <2>1. job[j].at # "starting" /\ job'[j].at \in {"reporting", "failing"}
    BY DEF Settles
  <2>2. JobEnds(j, "completed") \/ JobEnds(j, "failed")
    BY <1>8, <2>1 DEF StartJob, Report, ReportFailure
  <2>3. job'[j].at \in {"completed", "failed"}
    BY <2>2, JobEndsFollows DEF Settles
  <2> QED
    BY <2>1, <2>3
<1>9. CASE JobWriteFails(j)
  <2>1. Throws(j) \/ (job[j].at = "failing" /\ JobEnds(j, "failed"))
    BY <1>9 DEF JobWriteFails
  <2> QED
    BY <1>1, <2>1 DEF Settles
<1> QED
  BY <1>4, <1>5, <1>6, <1>7, <1>8, <1>9 DEF JobStep

(* The executor ends without setting the status only if there is none to    *)
(* set, or its release is no longer the active one.                         *)
LEMMA DeclinedUnlisted ==
  ASSUME LockInv, NEW j \in Calls, JobStep(j) \/ JobWriteFails(j), Ends(j), job[j].at = "starting"
  PROVE  ~listed \/ OffTarget(j)
<1>1. StartJob(j)
  BY Zenon DEF JobStep, JobWriteFails, StopApp, Quiet, Restore, Prepare, Pull, Up, Report, ReportFailure
<1>2. ASSUME NEW stage \in {"stopping", "quieting", "preparing"}, Proceed(j, stage)
      PROVE  FALSE
  BY <1>2, ProceedIs DEF Ends
<1>3. PICK stage : stage = CASE job[j].act \in {"stop", "delete"} -> "stopping"
                             [] job[j].act = "rollback" /\ job[j].restore -> "quieting"
                             [] OTHER -> "preparing"
  OBVIOUS
<1>4. stage \in {"stopping", "quieting", "preparing"}
  <2>1. CASE job[j].act = "rollback" /\ job[j].restore
    BY <1>3, <2>1
  <2>2. CASE ~(job[j].act = "rollback" /\ job[j].restore)
    BY <1>3, <2>2
  <2> QED
    BY <2>1, <2>2
<1> QED
  BY <1>1, <1>2, <1>3, <1>4 DEF StartJob

LEMMA JobStatus ==
  ASSUME LockInv, TargetInv, ActInv, AskedInv, crashes = 0, NoDelete,
         Expected => Calm, NEW j \in Calls, JobStep(j) \/ JobWriteFails(j)
  PROVE  Expected' => Calm'
<1>1. JobMove(j) /\ TargetOf(j)
  BY JobMoveHolds DEF TargetInv
<1>2. CASE Settles(j)
  <2>1. job[j].act # "delete"
    BY DEF ActInv, AskedInv, NoDelete
  <2>2. job[j].at = "upping" => job[j].rel # NoRelease
    BY <1>1, NoneIsNoRelease DEF TargetOf
  <2> QED
    BY <1>2, <2>1, <2>2, SettledStatus DEF Calm
<1>3. CASE Proceeds(j)
  BY <1>3 DEF Proceeds, Expected, Unset, Working
<1>4. CASE Ends(j)
  <2>1. UNCHANGED <<listed, deployment>>
    BY <1>4 DEF Ends, memory
  <2>2. containers' = containers
    BY <1>4, Zenon
       DEF Ends, JobStep, JobWriteFails, StartJob, StopApp, Quiet, Restore, Prepare, Pull, Up,
           Report, ReportFailure, host
  <2>3. \A c \in Calls : call[c].at = "deprovisioning" => call'[c].at = "deprovisioning"
    BY <1>1 DEF JobMove, CallsGoOn
  <2>4. \A k \in Calls \ {j} : job'[k].at = job[k].at \/ job'[k].at \in Unset
    BY <1>1 DEF JobMove, JobsAround, Unset, Working
  <2>5. CASE job[j].at = "starting"
    <3>1. ~OffTarget(j)
      BY <1>1, <2>5 DEF OffTarget, TargetOf, Active, Working
    <3> QED
      BY <1>4, <2>1, <2>5, <3>1, DeclinedUnlisted DEF Expected
  <2>6. CASE job[j].at \in {"reporting", "failing"} /\ Expected'
    <3>1. \A k \in Calls \ {j} : job'[k].at = job[k].at
      BY <2>4, <2>6 DEF Expected
    <3>2. Expected
      BY <2>1, <2>3, <2>6, <3>1 DEF Expected, Unset
    <3>3. deployment.status # "installing"
      BY <2>6, <3>2 DEF Calm, Ran
    <3> QED
      BY <2>1, <2>2, <3>2, <3>3 DEF Calm
  <2> QED
    BY <1>4, <2>5, <2>6 DEF Ends
<1> QED
  BY <1>1, <1>2, <1>3, <1>4 DEF JobMove

LEMMA NextStatus ==
  ASSUME OneAtATime, Unforced, NoDelete, LockInv, AskedInv, SerialInv,
         UntouchedInv, TurnInv, TargetInv, ListedInv, ActInv, StatusInv, Steps
  PROVE  StatusInv'
<1> SUFFICES ASSUME crashes' = 0 PROVE Expected' => Calm'
  BY DEF StatusInv
<1>1. crashes = 0 /\ ~Crash
  <2>1. crashes \in Nat
    BY DEF LockInv, LockTypes
  <2>2. Crash => crashes' = crashes + 1
    BY Zenon DEF Crash
  <2>3. crashes' = crashes \/ crashes' = crashes + 1
    BY StepBounds DEF bounds
  <2> QED
    BY <2>1, <2>2, <2>3
<1>2. Expected => Calm
  BY <1>1 DEF StatusInv
<1>3. ASSUME NEW c \in Calls, Calling(c)
      PROVE  Expected' => Calm'
  BY <1>2, <1>3, CallingStatus
<1>4. ASSUME NEW c \in Calls, CallStep(c) \/ CallWriteFails(c)
      PROVE  Expected' => Calm'
  BY <1>1, <1>2, <1>4, CallStatus
<1>5. ASSUME NEW j \in Calls, JobStep(j) \/ JobWriteFails(j)
      PROVE  Expected' => Calm'
  BY <1>1, <1>2, <1>5, JobStatus
<1>6. ASSUME TickLater \/ UNCHANGED vars
      PROVE  Expected' => Calm'
  <2>1. UNCHANGED <<memory, host, call>>
    BY <1>6, Zenon DEF TickLater, vars
  <2>2. \A j \in Calls : job'[j].at = job[j].at \/ job'[j].at \in Unset
    BY <1>6, TickLaterFollows DEF Follows, vars, Unset, Working
  <2> QED
    BY <1>2, <2>1, <2>2, CalmKept DEF memory, host
<1>7. ~Recover
  BY <1>1 DEF Recover, TurnInv
<1> QED
  BY <1>1, <1>3, <1>4, <1>5, <1>6, <1>7 DEF Steps

LEMMA StatusHolds == ASSUME OneAtATime, Unforced, NoDelete PROVE Spec => [](StatusInv /\ ActInv)
<1>1. Init => StatusInv /\ ActInv
  BY InitStatus
<1>2. LockInv /\ DataInv /\ PathInv /\ AbsenceInv /\ StatusInv /\ ActInv /\ [Next]_vars => (StatusInv /\ ActInv)'
  BY NextSteps, NextStatus, NextActs DEF DataInv, PathInv, SerialInv, AbsenceInv
<1>3. IInv => LockInv
  BY DEF IInv
<1> QED
  BY <1>1, <1>2, <1>3, LockInvHolds, DataInvHolds, PathHolds, AbsenceHolds, PTL DEF Spec

(* Once calls and jobs are through, a deployment that says running has its  *)
(* containers up, one that says stopped has none, and none that a job has   *)
(* worked on goes on installing (the executor's try and catch), when calls  *)
(* are answered one by one, none is a forced uninstall or the action        *)
(* delete, and the server does not restart; whatever fails.                 *)
THEOREM TruthfulStatusHolds ==
  ASSUME OneAtATime, Unforced, NoDelete, MaxCrashes = 0
  PROVE  Spec => []TruthfulStatus
<1>1. ASSUME LockInv, PathInv, StatusInv
      PROVE  TruthfulStatus
  <2>1. crashes = 0
    BY <1>1 DEF PathInv, SerialInv, Bounded, LockInv, LockTypes
  <2>2. ASSUME NoCallUnderWay, NoJobUnderWay, listed
        PROVE  Calm
    <3>1. \A c \in Calls : call[c].at \in Settled
      BY <2>2 DEF NoCallUnderWay, UnderWay
    <3>2. Expected
      BY <2>2, <3>1 DEF NoJobUnderWay, Expected, Settled, Finished, Unset, Working
    <3> QED
      BY <1>1, <2>1, <3>2 DEF StatusInv
  <2> QED
    BY <2>2 DEF TruthfulStatus, Calm, Ran
<1>2. LockInv /\ PathInv /\ StatusInv => TruthfulStatus
  BY <1>1
<1>3. IInv => LockInv
  BY DEF IInv
<1> QED
  BY <1>2, <1>3, LockInvHolds, PathHolds, StatusHolds, PTL
=============================================================================
