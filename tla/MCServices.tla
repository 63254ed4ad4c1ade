----------------------------- MODULE MCServices -----------------------------
(***************************************************************************)
(* Instances for TLC of what comes before and around a deployment and is   *)
(* checked for safety only: the wizard and its drafts, the choice of an    *)
(* upgrade or of what to restore, settings, bundles, identity objects, the *)
(* claims on hosts, the log, a page of the dashboard, the replacement of   *)
(* data, a push of data, an install from a capture and the platform on its *)
(* host.                                                                   *)
(* Where a component has a module of proofs, it is the one instantiated.    *)
(* As in MCPlatform, a behaviour is one of any of them, and its first      *)
(* state picks the component.  Only that one moves, so all of them use the *)
(* same variables.                                                         *)
(***************************************************************************)
EXTENDS Naturals

CONSTANTS
  Calls, Naming, Entries, Bundles, Dir, Mutable, Deployments, Apps, Dual, Hosts,
  LastVersion, Prerelease,
  Floor, Waypoints,            \* of each version of the app
  Captured, Target,            \* the data to restore is of these, the app of this
  MaxValue, MaxDigest, MaxJobs, MaxSwaps, MaxMeddling, MaxChanges,
  MaxEntries, MaxFileSize, MaxPublished, MaxCommands, MaxUploads, MaxStates,
  MaxDrafts, MaxEdits, MaxUpdates,
  MaxTroubles, MaxFailures     \* bounds on what fails

(* No deployment has the name of none.                                      *)
ASSUME DeploymentsAssumption == "none" \notin Deployments
(* Values are numbered.                                                     *)
ASSUME ValuesAssumption == MaxValue \in Nat
(* Versions are numbered, and none has the number of none.                  *)
ASSUME VersionsAssumption ==
  /\ LastVersion \in Nat \ {0}
  /\ Captured \subseteq Nat \ {0} /\ Target \in Nat /\ Waypoints[Target] \subseteq Nat
(* The log takes that many entries.                                         *)
ASSUME EntriesAssumption == MaxEntries \in Nat
(* A draft takes that many uploads.                                         *)
ASSUME UploadsAssumption == MaxUploads \in Nat
(* A deployment goes through at least one state.                            *)
ASSUME StatesAssumption == MaxStates \in Nat \ {0}
(* The wizard makes that many drafts at a time.                             *)
ASSUME WizardAssumption == MaxDrafts \in Nat

(* No version asks for an older one, and the third has the second as a      *)
(* waypoint.                                                                *)
NoFloor     == [v \in 1..LastVersion |-> 0]
ByTheSecond == [v \in 1..LastVersion |-> {w \in {2} : w < v}]

(* The version of a bundle that is not republished cannot be a file name.   *)
Sanitized   == [b \in Bundles |-> IF b \in Mutable THEN b ELSE "sanitized"]

VARIABLES
  which,     \* the component that runs
  v1, v2, v3, v4, v5, v6, v7, v8, v9, v10, v11, v12, v13

(* One draft under two requests, with one upload.                           *)
D == INSTANCE DraftProofs WITH
  Calls <- Calls, MaxFiles <- MaxUploads, MaxTroubles <- MaxTroubles,
  record <- v1, listed <- v2, cached <- v3, disk <- v4, call <- v5, uploads <- v6,
  torn <- v7, unsaved <- v8, troubles <- v9
(* Two promote calls, one of which names its version, and three versions:   *)
(* the third is a prerelease.                                               *)
U == INSTANCE Upgrades WITH
  Calls <- Calls, Naming <- Naming, LastVersion <- LastVersion, Prerelease <- Prerelease,
  Floor <- Floor, Waypoints <- Waypoints, MaxTroubles <- MaxTroubles,
  published <- v1, index <- v2, fetch <- v3, deployment <- v4, busy <- v5, call <- v6,
  troubles <- v7
(* A candidate of a version that is older than the target and its waypoint, *)
(* the same or newer; it changes once, one read or write fails.             *)
H == INSTANCE RestoreChoice WITH
  Versions <- Captured, Target <- Target, Waypoints <- Waypoints[Target], MaxChanges <- MaxChanges,
  MaxTroubles <- MaxTroubles,
  origin <- v1, app <- v2, source <- v3, capture <- v4, listing <- v5, choice <- v6,
  draft <- v7, install <- v8, stale <- v9, unmarked <- v10, changes <- v11, troubles <- v12
(* Each of the three files, two calls about two entries.                    *)
S == INSTANCE SettingsStores WITH
  Calls <- Calls, Entries <- Entries, MaxValue <- MaxValue, MaxTroubles <- MaxTroubles,
  store <- v1, file <- v2, wanted <- v3, call <- v4, troubles <- v5
(* The wizard, with the draft it shows and the one it replaces.             *)
W == INSTANCE Wizard WITH
  MaxDrafts <- MaxDrafts, MaxEdits <- MaxEdits, MaxUpdates <- MaxUpdates,
  MaxTroubles <- MaxTroubles,
  drafts <- v1, deployed <- v2, page <- v3, chosen <- v4, draft <- v5, form <- v6,
  loading <- v7, task <- v8, patches <- v9, removals <- v10, install <- v11,
  excuses <- v12, troubles <- v13
(* The bundle cache: two calls, two bundles, one of them republished once,  *)
(* the other one under a name that is sanitized.                            *)
C == INSTANCE BundleProofs WITH
  Calls <- Calls, Bundles <- Bundles, Dir <- Dir, Mutable <- Mutable, MaxDigest <- MaxDigest,
  MaxTroubles <- MaxTroubles,
  tag <- v1, disk <- v2, inUse <- v3, call <- v4, raced <- v5,
  troubles <- v6
(* The identity provider: two gates and a client with its fallback, three   *)
(* jobs.                                                                    *)
P == INSTANCE ProvisionerProofs WITH
  Deployments <- Apps, Dual <- Dual, MaxJobs <- MaxJobs, MaxTroubles <- MaxFailures,
  providers <- v1, applications <- v2, bound <- v3, ref <- v4, saved <- v5,
  job <- v6, installed <- v7, jobs <- v8, troubles <- v9, excused <- v10
(* Two installs that want the same things.                                  *)
N == INSTANCE Installs WITH
  Deployments <- Deployments, Hosts <- Hosts, Gated <- Dual,
  Single <- Deployments, MaxTroubles <- MaxFailures,
  at <- v1, host <- v2, gate <- v3, saved <- v4, map <- v5, config <- v6,
  routed <- v7, contested <- v8, troubles <- v9
(* The log on disk: four entries, files that are full after two.            *)
F == INSTANCE FileLog WITH
  MaxEntries <- MaxEntries, MaxFileSize <- MaxFileSize, MaxTroubles <- MaxFailures,
  logged <- v1, buffer <- v2, chain <- v3, at <- v4, batch <- v5, disk <- v6, size <- v7,
  returned <- v8, refused <- v9, torn <- v10, lost <- v11, troubles <- v12
(* A page of the dashboard, whose operator acts on a deployment that goes   *)
(* through three states and may be removed.                                 *)
L == INSTANCE LiveView WITH
  MaxVersion <- MaxStates, Acts <- TRUE, MaxAttempts <- MaxTroubles, MaxTroubles <- MaxTroubles,
  server <- v1, announced <- v2, events <- v3, subscribed <- v4,
  client <- v5, attempts <- v6, connectedOnce <- v7, view <- v8, cache <- v9,
  stray <- v10, act <- v11, missed <- v12, troubles <- v13
(* The replacement of a data root.                                          *)
M == INSTANCE DataSwap WITH
  MaxSwaps <- MaxSwaps, MaxFaults <- MaxFailures + 1,
  dir <- v1, at <- v2, move <- v3, crossing <- v4, found <- v5,
  excused <- v6, swaps <- v7, broken <- v8
(* An install from a capture, and its retries.                              *)
R == INSTANCE RestoreOnInstall WITH
  MaxJobs <- MaxJobs, MaxTroubles <- MaxFailures + 1,
  record <- v1, saved <- v2, root <- v3, app <- v4, job <- v5, source <- v6,
  jobs <- v7, troubles <- v8, excused <- v9
(* hola app data push, with one thing others do meanwhile and two failures. *)
X == INSTANCE DataPush WITH
  MaxMeddling <- MaxMeddling, MaxTroubles <- MaxFailures,
  target <- v1, app <- v2, was <- v3, job <- v4, push <- v5, data <- v6, meddled <- v7,
  others <- v8, troubles <- v9
(* The platform's host: two versions, three commands, one failure.          *)
I == INSTANCE HostInstall WITH
  MaxVersion <- MaxPublished, MaxRuns <- MaxCommands, MaxTroubles <- MaxTroubles,
  latest <- v1, ours <- v2, files <- v3, env <- v4, archive <- v5, volumes <- v6,
  issued <- v7, up <- v8, run <- v9, torn <- v10, kept <- v11, runs <- v12, troubles <- v13

vars == <<which, v1, v2, v3, v4, v5, v6, v7, v8, v9, v10, v11, v12, v13>>

-----------------------------------------------------------------------------
Init ==
  \/ /\ which = "drafts" /\ D!Init
     /\ v10 = 0 /\ v11 = 0 /\ v12 = 0 /\ v13 = 0
  \/ /\ which = "upgrades" /\ U!Init
     /\ v8 = 0 /\ v9 = 0 /\ v10 = 0 /\ v11 = 0 /\ v12 = 0 /\ v13 = 0
  \/ which = "choice" /\ H!Init /\ v13 = 0
  \/ /\ which = "settings" /\ S!Init
     /\ v6 = 0 /\ v7 = 0 /\ v8 = 0 /\ v9 = 0 /\ v10 = 0 /\ v11 = 0 /\ v12 = 0 /\ v13 = 0
  \/ which = "wizard" /\ W!Init
  \/ /\ which = "bundles" /\ C!Init
     /\ v7 = 0 /\ v8 = 0 /\ v9 = 0 /\ v10 = 0 /\ v11 = 0 /\ v12 = 0 /\ v13 = 0
  \/ /\ which = "provisioner" /\ P!Init
     /\ v11 = 0 /\ v12 = 0 /\ v13 = 0
  \/ /\ which = "installs" /\ N!Init
     /\ v10 = 0 /\ v11 = 0 /\ v12 = 0 /\ v13 = 0
  \/ which = "log" /\ F!Init /\ v13 = 0
  \/ which = "live" /\ L!Init
  \/ which = "host" /\ I!Init
  \/ /\ which = "swap" /\ M!Init
     /\ v9 = 0 /\ v10 = 0 /\ v11 = 0 /\ v12 = 0 /\ v13 = 0
  \/ /\ which = "restore" /\ R!Init
     /\ v10 = 0 /\ v11 = 0 /\ v12 = 0 /\ v13 = 0
  \/ /\ which = "push" /\ X!Init
     /\ v10 = 0 /\ v11 = 0 /\ v12 = 0 /\ v13 = 0

Next ==
  /\ UNCHANGED which
  /\ \/ /\ which = "drafts" /\ D!Next
        /\ UNCHANGED <<v10, v11, v12, v13>>
     \/ /\ which = "upgrades" /\ U!Next
        /\ UNCHANGED <<v8, v9, v10, v11, v12, v13>>
     \/ which = "choice" /\ H!Next /\ UNCHANGED v13
     \/ /\ which = "settings" /\ S!Next
        /\ UNCHANGED <<v6, v7, v8, v9, v10, v11, v12, v13>>
     \/ which = "wizard" /\ W!Next
     \/ /\ which = "bundles" /\ C!Next
        /\ UNCHANGED <<v7, v8, v9, v10, v11, v12, v13>>
     \/ /\ which = "provisioner" /\ P!Next
        /\ UNCHANGED <<v11, v12, v13>>
     \/ /\ which = "installs" /\ N!Next
        /\ UNCHANGED <<v10, v11, v12, v13>>
     \/ which = "log" /\ F!Next /\ UNCHANGED v13
     \/ which = "live" /\ L!Next
     \/ which = "host" /\ I!Next
     \/ /\ which = "swap" /\ M!Next
        /\ UNCHANGED <<v9, v10, v11, v12, v13>>
     \/ /\ which = "restore" /\ R!Next
        /\ UNCHANGED <<v10, v11, v12, v13>>
     \/ /\ which = "push" /\ X!Next
        /\ UNCHANGED <<v10, v11, v12, v13>>

Spec == Init /\ [][Next]_vars

-----------------------------------------------------------------------------
(* Types of the variables of every component.                               *)
TypesOK ==
  CASE which = "drafts"   -> D!TypeOK
    [] which = "upgrades" -> U!TypeOK
    [] which = "choice"   -> H!TypeOK
    [] which = "settings" -> S!TypeOK
    [] which = "wizard"   -> W!TypeOK
    [] which = "bundles"  -> C!TypeOK
    [] which = "provisioner" -> P!TypeOK
    [] which = "installs" -> N!TypeOK
    [] which = "log"      -> F!TypeOK
    [] which = "live"     -> L!TypeOK
    [] which = "host"     -> I!TypeOK
    [] which = "swap"     -> M!TypeOK
    [] which = "restore"  -> R!TypeOK
    [] which = "push"     -> X!TypeOK

(* draft.json names nothing that is not there, and a deployment is made of  *)
(* what was validated.                                                      *)
DraftsKept == which = "drafts" => D!DraftDurable /\ D!HandsOverWhatWasChecked

(* A promote never jumps over a version that is needed in between, and one  *)
(* without a version misses nothing newer.                                  *)
UpgradesRight == [][which = "upgrades" => U!AllowedSwitch /\ U!NothingMissed']_vars

(* A restored app has data and configuration the operator has agreed to,    *)
(* and what was offered is not refused without a reason.                    *)
RestoresAsAgreed ==
  which = "choice" => H!RestoresWhatWasAccepted /\ H!RefusedForAReason

(* The files hold what the operator has entered.                            *)
NothingForgotten == which = "settings" => S!NothingForgotten

(* What is installed is what the wizard showed, and it leaves no drafts     *)
(* behind.                                                                  *)
WizardTrue == which = "wizard" => W!InstallsWhatIsShown /\ W!NothingLeftBehind

(* A call that pulled a bundle returns all of it, and the digest beside a   *)
(* cached bundle is that of its files.                                      *)
BundlesWhole == which = "bundles" => C!BundlesWhole

(* An uninstall leaves nothing at the identity provider, and a gated app    *)
(* starts with its gate bound.                                              *)
IdentityFollows == [][which = "provisioner" => P!NothingOrphaned' /\ P!StartsBound]_vars

(* Hosts and single copies are held by one install each.                    *)
ClaimsHold == which = "installs" => N!ClaimsHold

(* No entry of the log is lost, doubled or out of order.                    *)
LogKept == which = "log" => F!LogKept

(* A data root that is being replaced is never in pieces only, and a        *)
(* replacement that fails leaves it as it was.                              *)
NothingLost == [][which = "swap" => M!Preserving]_vars

(* The first start of a restoring install is on restored data, and it is    *)
(* not refused over its own leftovers as if they were somebody else's.      *)
StartsRestored == [][which = "restore" => R!StartRestored /\ R!RefusalRight']_vars

(* A push of data writes under a stopped app where it was to, leaves no app *)
(* down that was up, and reports success only when all of it was done.      *)
PushKeepsWord ==
  which = "push" => X!StoppedMeanwhile /\ X!NotLeftDown /\ X!SuccessMeansDone

(* No page goes back to an older state, but for the cache, and its          *)
(* operator's own action is not hidden by an answer from before it.         *)
ShowsNothingOlder == [][which = "live" => L!Forward /\ L!OwnActionShown']_vars

(* The platform keeps the secrets its database was made with, starts no     *)
(* outpost without its token, is changed after a snapshot only, is what a   *)
(* command that succeeds says it is, and never goes back unasked.           *)
HostStaysWhole ==
  [][which = "host" =>
       /\ I!SecretsTogether' /\ I!ArchivedFirst' /\ I!SuccessMeansRunning'
       /\ I!NoDowngrade]_vars
=============================================================================
