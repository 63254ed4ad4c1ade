----------------------- MODULE MCDeploymentLifecycle -----------------------
(***************************************************************************)
(* Instances of DeploymentLifecycle for TLC.                               *)
(***************************************************************************)
EXTENDS DeploymentLifecycle, TLC

(* Calls are interchangeable: each is any request of Requests. *)
CallSymmetry == Permutations(Calls)

Ask(op, w) == [op |-> op, wants |-> w]

(* The whole life of a deployment, without force. *)
EveryRequest ==
  {Ask("create", {}), Ask("create", {"job"}),
   Ask("promote", {"job"}), Ask("promote", {"job", "snapshot"}),
   Ask("rollback", {}), Ask("rollback", {"data"}),
   Ask("start", {}), Ask("restart", {}), Ask("stop", {}), Ask("uninstall", {})}

(* The requests whose work the lifecycle lock has to keep apart. *)
Contended ==
  {Ask("promote", {"job", "snapshot"}), Ask("rollback", {"data"}), Ask("restart", {}), Ask("uninstall", {})}

(* One request for every kind of call that waits for something. *)
Waiting ==
  {Ask("promote", {"job", "snapshot"}), Ask("rollback", {"data"}), Ask("stop", {}),
   Ask("delete", {}), Ask("uninstall", {}), Ask("forceUninstall", {})}

(* A running job meets a forced uninstall. *)
Forced == {Ask("stop", {}), Ask("restart", {}), Ask("forceUninstall", {})}
=============================================================================
