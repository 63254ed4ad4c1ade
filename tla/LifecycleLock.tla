---------------------------- MODULE LifecycleLock ----------------------------
(***************************************************************************)
(* What the job service promises about the lifecycle work of deployments:  *)
(* one owner at a time, a job or a caller of runExclusive; callers wait in *)
(* line and come before jobs; a restart frees everything.                  *)
(*                                                                         *)
(* JobQueue implements this for any number of deployments, and             *)
(* DeploymentLifecycle uses the lock of one in no other way.  Deployments  *)
(* do not affect each other, so one step may change the state of several:  *)
(* a dispatch hands out all the keys it can.                               *)
(***************************************************************************)
EXTENDS Sequences

CONSTANTS
  Deployments,
  Jobs,
  Callers   \* of runExclusive

VARIABLES
  owners,   \* of each deployment: none or one
  line      \* the callers that wait for it

vars == <<owners, line>>

Owners == ({"job"} \X Jobs) \cup ({"call"} \X Callers)

Init ==
  /\ owners = [d \in Deployments |-> {}]
  /\ line = [d \in Deployments |-> <<>>]

(* A free deployment is taken, by anybody: nobody waits for it. *)
Take(d) ==
  /\ owners[d] = {} /\ line[d] = <<>>
  /\ \E a \in Owners : owners'[d] = {a}
  /\ line'[d] = line[d]

(* A caller joins the end of the line of a deployment that has an owner.    *)
Join(d) ==
  /\ owners[d] # {}
  /\ \E c \in Callers : line'[d] = Append(line[d], c)
  /\ owners'[d] = owners[d]

(* The owner leaves.  The first in line is the next owner; a job may follow *)
(* at once when there is no line.                                           *)
Leave(d) ==
  /\ owners[d] # {}
  /\ \/ /\ line[d] # <<>>
        /\ owners'[d] = {<<"call", Head(line[d])>>}
        /\ line'[d] = Tail(line[d])
     \/ /\ line[d] = <<>> /\ line'[d] = line[d]
        /\ owners'[d] = {} \/ \E j \in Jobs : owners'[d] = {<<"job", j>>}

Stay(d) == owners'[d] = owners[d] /\ line'[d] = line[d]

Work ==
  /\ owners' \in [Deployments -> SUBSET Owners]
  /\ DOMAIN line' = Deployments
  /\ \A d \in Deployments : Take(d) \/ Join(d) \/ Leave(d) \/ Stay(d)

Restart ==
  /\ owners' = [d \in Deployments |-> {}]
  /\ line' = [d \in Deployments |-> <<>>]

Next == Work \/ Restart

Spec == Init /\ [][Next]_vars
=============================================================================
