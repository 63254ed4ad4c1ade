------------------------------- MODULE Installs -------------------------------
(***************************************************************************)
(* What several installs must not share: the host an app is reached at     *)
(* (its subdomain), and, for an app of a single instance or the provider   *)
(* of a contract, the place of the one copy.  createFromDraft checks both  *)
(* and takes them several awaits later; the host is taken in the routing   *)
(* map, when the first release becomes active, or, for an app behind a     *)
(* gate, when a job has provisioned the gate; the copy when the record is  *)
(* listed (packages/server/src/services/core/deployment.ts, routing.ts).   *)
(***************************************************************************)
EXTENDS Naturals

CONSTANTS
  Deployments,
  Hosts,
  Gated,         \* deployments of apps behind a forward-auth gate
  Single,        \* deployments that would be copies of one single-instance app
  MaxTroubles    \* bound on steps that fail, and on restarts

None == "none"
Copy == "copy"   \* the place of the one copy

VARIABLES
  at,         \* how far the create or the removal of each deployment is
  host,       \* its subdomain
  gate,       \* deployments whose record holds the gate's middleware
  saved,      \* records on disk with a release they point to
  map,        \* the routing map
  config,     \* what of it Traefik has been given
  routed,     \* deployments whose route was activated since they were installed
  contested,  \* hosts and the copy, checked free by one that another was about to take
  troubles

vars == <<at, host, gate, saved, map, config, routed, contested, troubles>>

Stages == {"absent", "checking", "creating", "listed", "stuck", "installed", "removing"}

Init ==
  /\ at = [d \in Deployments |-> "absent"]
  /\ host = [d \in Deployments |-> None]
  /\ gate = {} /\ saved = {} /\ routed = {}
  /\ map = [h \in Hosts |-> None]
  /\ config = map
  /\ contested = {}
  /\ troubles = 0

Trouble == troubles < MaxTroubles /\ troubles' = troubles + 1
GoTo(d, stage) == at' = [at EXCEPT ![d] = stage]

Listed  == {d \in Deployments : at[d] \in {"listed", "stuck", "installed"}}
Underway(d) == {e \in Deployments \ {d} : at[e] \in {"checking", "creating"}}
Claimants(d) == {e \in Deployments \ {d} : at[e] \notin {"absent", "checking"} /\ host[e] = host[d]}

-----------------------------------------------------------------------------
(* createFromDraft. *)

(* assertInstanceAllowed and assertProviderAllowed see the listed records;  *)
(* the id is a fresh one.                                                   *)
Create(d, h) ==
  /\ at[d] = "absent" /\ d \notin saved
  /\ d \in Single => Single \cap Listed = {}
  /\ host' = [host EXCEPT ![d] = h]
  /\ GoTo(d, "checking")
  /\ contested' = contested \cup {c \in {Copy} : d \in Single /\ Single \cap Underway(d) # {}}
  /\ UNCHANGED <<gate, saved, map, config, routed, troubles>>

(* Mutant: only a route of another host would be a conflict.                *)
Unconflicted(d) == TRUE

(* checkSubdomain and validateRule: the routing map has no route of another *)
(* deployment for the host.                                                 *)
Conflictless(d) == map[host[d]] \in {None, d}

CheckHost(d) ==
  /\ at[d] = "checking"
  /\ IF Conflictless(d)
     THEN /\ GoTo(d, "creating")
          /\ contested' = contested \cup {h \in {host[d]} : map[h] = None /\ Claimants(d) # {}}
          /\ UNCHANGED host
     ELSE /\ GoTo(d, "absent")
          /\ host' = [host EXCEPT ![d] = None]
          /\ UNCHANGED contested
  /\ UNCHANGED <<gate, saved, map, config, routed, troubles>>

(* ensureLayout, then the record is listed. *)
List(d) ==
  /\ at[d] = "creating"
  /\ \/ GoTo(d, "listed") /\ UNCHANGED <<host, troubles>>
     \/ GoTo(d, "absent") /\ host' = [host EXCEPT ![d] = None] /\ Trouble
  /\ UNCHANGED <<gate, saved, map, config, routed, contested>>

(* activateRoute: the map changes at once; the files are written then, and  *)
(* that may fail.                                                           *)
Activate(d) ==
  /\ map' = [h \in Hosts |-> IF h = host[d] THEN d ELSE IF map[h] = d THEN None ELSE map[h]]
  /\ routed' = routed \cup {d}
  /\ \/ config' = map' /\ UNCHANGED troubles
     \/ Trouble /\ UNCHANGED config

(* stageReleaseArtifacts, the records, promoteRelease and                   *)
(* onActiveReleaseChanged.  A create that fails leaves the record listed.   *)
Release(d) ==
  /\ at[d] = "listed"
  /\ \/ /\ GoTo(d, "installed")
        /\ saved' = saved \cup {d}
        /\ IF d \in Gated \ gate THEN UNCHANGED <<map, config, routed, troubles>> ELSE Activate(d)
     \/ /\ GoTo(d, "stuck") /\ Trouble
        /\ UNCHANGED <<saved, map, config, routed>>
  /\ UNCHANGED <<host, gate, contested>>

-----------------------------------------------------------------------------
(* The jobs of an installed app: provisionAuth, completeAuthWiring.         *)
ProvisionGate(d) ==
  /\ at[d] = "installed" /\ d \in Gated \ gate
  /\ gate' = gate \cup {d}
  /\ UNCHANGED <<at, host, saved, map, config, routed, contested, troubles>>

(* Another release becomes active, or a start of a gated app is completed.  *)
Rewire(d) ==
  /\ at[d] = "installed" /\ (d \in Gated => d \in gate)
  /\ Activate(d)
  /\ UNCHANGED <<at, host, gate, saved, contested>>

-----------------------------------------------------------------------------
(* performDelete unlists the record and removes its directory, which may    *)
(* fail.                                                                    *)
Unlist(d) ==
  /\ at[d] \in {"stuck", "installed"}
  /\ GoTo(d, "removing")
  /\ \/ saved' = saved \ {d} /\ UNCHANGED troubles
     \/ Trouble /\ UNCHANGED saved
  /\ UNCHANGED <<host, gate, map, config, routed, contested>>

(* Mutant: the route is left to the next start of the server.               *)
Unrouted(d) == map

(* deactivateRoute drops every route of the deployment.                     *)
WithoutRoutes(d) == [h \in Hosts |-> IF map[h] = d THEN None ELSE map[h]]

(* onDeploymentRemoved. *)
Unroute(d) ==
  /\ at[d] = "removing"
  /\ map' = WithoutRoutes(d)
  /\ \/ config' = map' /\ UNCHANGED troubles
     \/ map' # map /\ Trouble /\ UNCHANGED config
  /\ GoTo(d, "absent")
  /\ host' = [host EXCEPT ![d] = IF d \in saved THEN @ ELSE None]
  /\ gate' = IF d \in saved THEN gate ELSE gate \ {d}
  /\ routed' = routed \ {d}
  /\ UNCHANGED <<saved, contested>>

(* The records are read again and the map is rebuilt from them; of several  *)
(* claims of a host the last one read stays.                                *)
Restart ==
  /\ Trouble
  /\ at' = [d \in Deployments |-> IF d \in saved THEN "installed" ELSE "absent"]
  /\ host' = [d \in Deployments |-> IF d \in saved THEN host[d] ELSE None]
  /\ gate' = gate \cap saved
  /\ map' \in {m \in [Hosts -> Deployments \cup {None}] :
       \A h \in Hosts : LET claims == {d \in saved : host[d] = h} IN
         IF claims = {} THEN m[h] = None ELSE m[h] \in claims}
  /\ config' = map'
  /\ routed' = saved
  /\ contested' = contested \cup {host[d] : d \in {x \in saved : at[x] \in {"absent", "removing"}}}
                            \cup {c \in {Copy} : \E x \in saved \cap Single : at[x] \in {"absent", "removing"}}
  /\ UNCHANGED saved

-----------------------------------------------------------------------------
Next ==
  \/ \E d \in Deployments :
       \/ \E h \in Hosts : Create(d, h)
       \/ CheckHost(d) \/ List(d) \/ Release(d)
       \/ ProvisionGate(d) \/ Rewire(d) \/ Unlist(d) \/ Unroute(d)
  \/ Restart

Spec == Init /\ [][Next]_vars

-----------------------------------------------------------------------------
(* Types of the variables of the installs. *)
TypeOK ==
  /\ at \in [Deployments -> Stages] /\ host \in [Deployments -> Hosts \cup {None}]
  /\ gate \subseteq Gated /\ saved \subseteq Deployments /\ routed \subseteq Deployments
  /\ map \in [Hosts -> Deployments \cup {None}] /\ config \in [Hosts -> Deployments \cup {None}]
  /\ contested \subseteq Hosts \cup {Copy} /\ troubles \in 0..MaxTroubles

(* An app keeps the host it is routed under for as long as it is installed  *)
(* and no longer, and a single-instance app has one copy, whatever else is  *)
(* installed, removed, started or lost in a restart, unless two checks were *)
(* made before either of the two claims was taken.                          *)
ClaimsHold ==
  /\ \A d \in routed : at[d] = "installed" => map[host[d]] = d \/ host[d] \in contested
  /\ \A h \in Hosts : map[h] # None => at[map[h]] # "absent"
  /\ \A d, e \in Single \cap Listed : d = e \/ Copy \in contested

-----------------------------------------------------------------------------
(* The inductive invariant behind it, in its parts. What holds of two       *)
(* claims is the same from the moment both have been checked, long before   *)
(* either shows in the routing map or in the list.                          *)
InstallTypes ==
  /\ at \in [Deployments -> Stages]
  /\ host \in [Deployments -> Hosts \cup {None}]
  /\ saved \in SUBSET Deployments
  /\ routed \in SUBSET Deployments
  /\ map \in [Hosts -> Deployments \cup {None}]

(* Past its check, a deployment has a host; a record on disk is that of an  *)
(* install that came to its release, and so is a route.                     *)
Past(d)   == at[d] \notin {"absent", "checking"}
Claims(d) == at[d] \notin {"absent", "removing"}

SavedInv ==
  \A d \in Deployments :
    /\ at[d] # "absent" \/ d \in saved => host[d] \in Hosts
    /\ d \in saved => at[d] \in {"installed", "removing", "absent"}
    /\ d \in routed => at[d] \in {"installed", "removing"}

(* A route is that of an installed app, or of one that is being removed, to *)
(* its own host.                                                            *)
MapInv ==
  \A h \in Hosts : map[h] # None => host[map[h]] = h /\ at[map[h]] \in {"installed", "removing"}

(* Two that want the same host have contested it; so have two that want to  *)
(* be the one copy.                                                         *)
HostInv ==
  \A d, e \in Deployments :
    d # e /\ Past(d) /\ Past(e) /\ host[d] = host[e] => host[d] \in contested

CopyInv ==
  \A d, e \in Single \cap Deployments : d # e /\ Claims(d) /\ Claims(e) => Copy \in contested

RoutedInv ==
  \A d \in routed : at[d] = "installed" => map[host[d]] = d \/ host[d] \in contested

(* The inductive invariant.                                                 *)
InstallInv == InstallTypes /\ SavedInv /\ MapInv /\ HostInv /\ CopyInv /\ RoutedInv
=============================================================================
