------------------------------ MODULE Upgrades ------------------------------
(***************************************************************************)
(* What a deployment is upgraded to (packages/server/src/server.ts, the    *)
(* promote route; services/core/upgrade-target.ts, catalog.ts and          *)
(* deployment.ts; packages/shared/src/index.ts).  A catalog publishes      *)
(* versions; the server keeps its index for a day and fetches it again     *)
(* when asked to.  A promote call finds a target in the index, builds a    *)
(* draft of it, and only then judges the jump and switches.  Calls, an     *)
(* operator who changes the channel or rolls back, and the catalog's       *)
(* publisher interleave at the awaits.                                     *)
(*                                                                         *)
(* Versions are their ranks under compareVersions.                         *)
(***************************************************************************)
EXTENDS Integers, FiniteSetsExt

CONSTANTS
  Calls,          \* promote calls under way
  Naming,         \* those that name their version
  LastVersion,
  Prerelease,     \* the versions on channel "rc"; the others are stable
  Floor,          \* minFromVersion of each version; 0 is none
  Waypoints,      \* waypoints of each version
  MaxTroubles     \* bound on fetches that fail

Versions == 1..LastVersion
Original == 1      \* what was installed
Unknown  == 0      \* no version
NoFetch  == -1
Sent     == 0      \* a fetch the source has not answered yet

VARIABLES
  published,      \* the catalog lists 1..published
  index,          \* the server's copy lists 1..index
  fetch,          \* the fetch in flight, with the source's answer
  deployment,     \* what runs, what the record says, the channel it follows
  busy,           \* isDeploymentBusy: its start job has not ended
  call,
  troubles

vars == <<published, index, fetch, deployment, busy, call, troubles>>

Idle == [at |-> "idle", inferred |-> FALSE, version |-> Unknown, channel |-> "stable",
         target |-> Unknown, seen |-> 0, raced |-> FALSE]

Init ==
  /\ published = Original /\ index = Original /\ fetch = NoFetch
  /\ deployment = [running |-> Original, version |-> Original, channel |-> "stable"]
  /\ busy = FALSE
  /\ call = [c \in Calls |-> Idle]
  /\ troubles = 0

At(c, state) == call[c].at = state
Catalog  == <<published, index, fetch, troubles>>
Releases == <<deployment, busy>>

-----------------------------------------------------------------------------
(* isEligibleOnChannel: stable versions are eligible on every channel. *)
Eligible(v, channel) == v \in Prerelease => channel = "rc"

(* newestEligibleVersion, of an index that lists 1..n. *)
Newest(n, channel) ==
  LET candidates == {v \in 1..n : Eligible(v, channel)} IN
  IF candidates = {} THEN Unknown ELSE Max(candidates)

(* Mutant: the floor alone is looked at. *)
FloorOnly(from, to) == to > from => Floor[to] <= from

(* checkUpgradePath is ok *)
CheckUpgradePath(from, to) ==
  to > from => /\ Floor[to] <= from
               /\ \A w \in Waypoints[to] : ~(from < w /\ w < to)

-----------------------------------------------------------------------------
(* A call has read the deployment and asks the index. What it has found out *)
(* so far is forgotten once it has a target.                                *)
Reading(c) ==
  [call[c] EXCEPT !.version = deployment.version, !.channel = deployment.channel]
To(found, target) ==
  [found EXCEPT !.at = "drafting", !.target = target, !.seen = 0, !.raced = FALSE,
                !.version = IF found.inferred THEN @ ELSE Unknown]

(* The fetch is over, and the index lists 1..n: who waited for it reads the *)
(* deployment again and asks once more.                                     *)
Woken(n, failed) ==
  [c \in Calls |->
    LET found  == Reading(c)
        newest == Newest(n, found.channel)
    IN  IF ~At(c, "waiting") THEN call[c]
        ELSE IF newest \in {Unknown, found.version}
             THEN [found EXCEPT !.at = "nothing", !.raced = @ \/ failed]
             ELSE To(found, newest)]

-----------------------------------------------------------------------------
(* The catalog. *)
Publish ==
  /\ published < LastVersion
  /\ published' = published + 1
  /\ UNCHANGED <<index, fetch, troubles, Releases, call>>

(* A listing that finds the copy too old, or the operator's refresh.        *)
Load ==
  /\ fetch = NoFetch /\ fetch' = Sent
  /\ UNCHANGED <<published, index, troubles, Releases, call>>

Answer ==
  /\ fetch = Sent /\ fetch' = published
  /\ UNCHANGED <<published, index, troubles, Releases, call>>

Land ==
  /\ fetch \in Versions
  /\ index' = fetch /\ fetch' = NoFetch
  /\ call' = Woken(index', FALSE)
  /\ UNCHANGED <<published, troubles, Releases>>

(* The copy is kept, and nobody is told. *)
FetchFails ==
  /\ fetch # NoFetch /\ troubles < MaxTroubles /\ troubles' = troubles + 1
  /\ fetch' = NoFetch
  /\ call' = Woken(index, TRUE)
  /\ UNCHANGED <<published, index, Releases>>

-----------------------------------------------------------------------------
(* The promote route, for the newest version or for a given one. *)
Begin(c) ==
  /\ At(c, "idle")
  /\ \E target \in IF c \in Naming THEN Versions ELSE {Unknown} :
       call' = [call EXCEPT ![c] =
         [Reading(c) EXCEPT !.at = "reading", !.inferred = (c \notin Naming),
                            !.target = target,
                            !.seen = IF c \in Naming THEN 0 ELSE published]]
  /\ UNCHANGED <<Catalog, Releases>>

(* resolveUpgradeTarget, of a version that was given. *)
Check(c) ==
  /\ At(c, "reading") /\ ~call[c].inferred
  /\ call' = [call EXCEPT ![c] =
       IF @.target <= index /\ ~Eligible(@.target, @.channel) THEN Idle ELSE To(@, @.target)]
  /\ UNCHANGED <<Catalog, Releases>>

Infer(c) ==
  LET newest == Newest(index, call[c].channel) IN
  /\ At(c, "reading") /\ call[c].inferred /\ newest \notin {Unknown, call[c].version}
  /\ call' = [call EXCEPT ![c] = To(@, newest)]
  /\ UNCHANGED <<Catalog, Releases>>

(* Mutant: nothing is fetched again. *)
NotRefreshing(c) ==
  call' = [call EXCEPT ![c].at = "nothing"] /\ UNCHANGED fetch

(* A fetch that is in flight is joined, not repeated: its answer may be     *)
(* older than the call.                                                     *)
Refreshing(c) ==
  /\ fetch' = IF fetch = NoFetch THEN Sent ELSE fetch
  /\ call' = [call EXCEPT ![c].at = "waiting", ![c].raced = fetch \in Versions]

(* resolveUpgradeTargetFresh, before it concludes that nothing is newer. *)
Refresh(c) ==
  /\ At(c, "reading") /\ call[c].inferred
  /\ Newest(index, call[c].channel) \in {Unknown, call[c].version}
  /\ Refreshing(c)
  /\ UNCHANGED <<published, index, troubles, Releases>>

(* ALREADY_AT_VERSION or NO_TARGET_VERSION *)
Nothing(c) ==
  /\ At(c, "nothing") /\ call' = [call EXCEPT ![c] = Idle]
  /\ UNCHANGED <<Catalog, Releases>>

(* createDraft asks the catalog once more; then promote begins with         *)
(* assertNotBusy. The draft's artifacts are read after it.                  *)
Enter(c) ==
  /\ At(c, "drafting")
  /\ \/ /\ call[c].target <= index /\ Eligible(call[c].target, call[c].channel) /\ ~busy
        /\ call' = [call EXCEPT ![c].at = "judging"]
     \/ call' = [call EXCEPT ![c] = Idle]
  /\ UNCHANGED <<Catalog, Releases>>

(* Mutant: the jump is judged from the version the route has read. *)
JudgedFromDetail(c) == call[c].version

(* fromVersion *)
JudgedFrom(c) == deployment.version

(* The skip-guard. *)
Judge(c) ==
  /\ At(c, "judging")
  /\ call' = [call EXCEPT ![c] =
       IF CheckUpgradePath(JudgedFrom(c), @.target)
       THEN [@ EXCEPT !.at = "staging", !.raced = deployment.version # deployment.running]
       ELSE Idle]
  /\ UNCHANGED <<Catalog, Releases>>

Overtaken == [c \in Calls |-> IF At(c, "staging") THEN [call[c] EXCEPT !.raced = TRUE] ELSE call[c]]

(* promoteRelease, once the release is staged and the data captured. *)
Switch(c) ==
  /\ At(c, "staging")
  /\ deployment' = [deployment EXCEPT !.running = call[c].target]
  /\ call' = [Overtaken EXCEPT ![c].at = "recording"]
  /\ UNCHANGED <<Catalog, busy>>

(* Staging or the capture fails. *)
Abandon(c) ==
  /\ At(c, "staging") /\ call' = [call EXCEPT ![c] = Idle]
  /\ UNCHANGED <<Catalog, Releases>>

(* The version of the record, and the start job. *)
Record(c) ==
  /\ At(c, "recording")
  /\ deployment' = [deployment EXCEPT !.version = call[c].target]
  /\ busy' = TRUE
  /\ call' = [call EXCEPT ![c] = Idle]
  /\ UNCHANGED Catalog

JobEnds ==
  /\ busy /\ busy' = FALSE
  /\ UNCHANGED <<Catalog, deployment, call>>

(* rollback moves the release, here to the first one, and leaves the        *)
(* version of the record.                                                   *)
Rollback ==
  /\ ~busy /\ busy' = TRUE
  /\ deployment.running # Original
  /\ deployment' = [deployment EXCEPT !.running = Original]
  /\ call' = Overtaken
  /\ UNCHANGED Catalog

(* updateDeployment *)
Follow ==
  /\ \E channel \in {"stable", "rc"} \ {deployment.channel} :
       deployment' = [deployment EXCEPT !.channel = channel]
  /\ UNCHANGED <<Catalog, busy, call>>

Next ==
  \/ Publish \/ Load \/ Answer \/ Land \/ FetchFails
  \/ \E c \in Calls :
       \/ Begin(c) \/ Check(c) \/ Infer(c) \/ Refresh(c) \/ Nothing(c) \/ Enter(c)
       \/ Judge(c) \/ Switch(c) \/ Abandon(c) \/ Record(c)
  \/ JobEnds \/ Rollback \/ Follow

Spec == Init /\ [][Next]_vars

-----------------------------------------------------------------------------
(* Types of the variables of the upgrades. *)
Channels == {"stable", "rc"}
Promotes == [at : {"idle", "reading", "waiting", "nothing", "drafting", "judging", "staging",
                   "recording"},
             inferred : BOOLEAN, version : Versions \cup {Unknown}, channel : Channels,
             target : Versions \cup {Unknown}, seen : Nat, raced : BOOLEAN]

TypeOK ==
  /\ published \in Versions /\ index \in 1..published /\ fetch \in {NoFetch, Sent} \cup index..published
  /\ deployment \in [running : 1..index, version : 1..index, channel : Channels]
  /\ busy \in BOOLEAN /\ call \in [Calls -> Promotes]

(* What runs is never replaced by a version that needed another one in      *)
(* between, nor by one off the channel the call found; and a call that      *)
(* names no version never goes back, unless the deployment runs what its    *)
(* channel does not offer. Excused: another switch between the judgement    *)
(* and this one, and a record that names another version than what runs.    *)
AllowedSwitch ==
  \A c \in Calls :
    At(c, "staging") /\ call'[c].at = "recording" /\ ~call[c].raced =>
      LET from == deployment.running
          to   == call[c].target
      IN  /\ from < to => Floor[to] <= from /\ Waypoints[to] \cap (from+1)..(to-1) = {}
          /\ to \in Prerelease => call[c].channel = "rc"
          /\ call[c].inferred /\ to < call[c].version
               => call[c].version \in Prerelease /\ call[c].channel = "stable"

SwitchesAllowed == [][AllowedSwitch]_vars

(* A call is told that nothing is newer only if nothing was when it came,   *)
(* however old the server's copy. Excused: the fetch failed, or the call    *)
(* joined one that was answered already.                                    *)
NothingMissed ==
  \A c \in Calls : At(c, "nothing") /\ ~call[c].raced =>
    \A v \in 1..call[c].seen : Eligible(v, call[c].channel) => v <= call[c].version

(* The invariant behind both, call by call: a waiting call is woken by an   *)
(* answer that is no older than it,                                         *)
Awakened(c) ==
  /\ call[c].seen <= published
  /\ At(c, "waiting") =>
       /\ fetch # NoFetch
       /\ fetch \in Versions /\ ~call[c].raced => call[c].seen <= fetch

(* the target it infers is the newest that its channel offers,              *)
Inferred(c) ==
  /\ call[c].version <= index
  /\ At(c, "drafting") \/ At(c, "judging") \/ At(c, "staging") =>
       (call[c].inferred /\ call[c].target < call[c].version =>
          call[c].version \in Prerelease /\ call[c].channel = "stable")

(* and once it has been let in and judged, what it was judged from stays.   *)
Judged(c) ==
  /\ At(c, "drafting") \/ (At(c, "reading") /\ ~call[c].inferred) => call[c].target # Unknown
  /\ At(c, "judging") \/ At(c, "staging") \/ At(c, "recording") =>
       call[c].target \in 1..index /\ Eligible(call[c].target, call[c].channel)
  /\ At(c, "staging") /\ ~call[c].raced => CheckUpgradePath(deployment.running, call[c].target)

UpgradeInv ==
  TypeOK /\ NothingMissed /\ \A c \in Calls : Awakened(c) /\ Inferred(c) /\ Judged(c)
=============================================================================
