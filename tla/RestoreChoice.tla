---------------------------- MODULE RestoreChoice ----------------------------
(***************************************************************************)
(* What an install may be restored from (packages/server/src/services/     *)
(* core/restore-candidates.ts, with the route, draft.ts and deployment.ts  *)
(* that call it): the list an operator is shown, the choice, and the three *)
(* times it is looked at again: when the draft is made, when the install   *)
(* is, and when its job takes the data.  Between these the source, another *)
(* deployment of the app, is upgraded, rolled back or uninstalled, or the  *)
(* provider's capture or the consent to it goes away.  Nothing locks them. *)
(*                                                                         *)
(* One candidate of the list is modelled, of either origin: no judgement   *)
(* looks at two.  Versions are their ranks; the install is of Target.      *)
(***************************************************************************)
EXTENDS Naturals

CONSTANTS
  Versions,       \* that the candidate may be of
  Target,         \* what is installed
  Waypoints,      \* of Target
  MaxChanges,     \* bound on what happens to the source and the capture
  MaxTroubles     \* bound on reads and writes that fail

None     == 0      \* no version
Origins  == {"deployment", "provider"}
Codes    == {"version-unknown", "env-not-carried", "inferred-identity"}
Settled  == {"running", "stopped"}

VARIABLES
  origin,     \* of the candidate
  app,        \* the manifest: whether it has upgrade rules, and needs its environment
  source,     \* the deployment: its status, which versions its data and records are of
  capture,    \* the provider's: what it is of, and whether its index entry says so
  listing,    \* what the operator was shown
  choice,
  draft, install,
  stale,      \* the looks at the candidate since which it has changed
  unmarked,   \* an identity record was not written
  changes, troubles

vars == <<origin, app, source, capture, listing, choice, draft, install, stale, unmarked,
          changes, troubles>>

fixed == <<origin, app>>

NoChoice == [carry |-> FALSE, acks |-> {}]
Nothing  == [version |-> None, ours |-> TRUE]
NotBegun == [at |-> "none", marker |-> None, carries |-> FALSE, skew |-> "unknown",
             refusal |-> "none", env |-> None, data |-> Nothing]
Unseen   == [offered |-> FALSE, sure |-> FALSE, skew |-> "unknown", carries |-> FALSE,
             required |-> {}]

Init ==
  /\ app \in [rules : BOOLEAN, requiresEnv : BOOLEAN]
  /\ origin \in Origins
  /\ \E v \in Versions : \E marker, env \in {None, IF origin = "deployment" THEN v ELSE None} :
       source = [status |-> IF origin = "deployment" THEN "running" ELSE "gone",
                 data |-> v, says |-> v, next |-> v, marker |-> marker, env |-> env]
  /\ \E recorded, ours \in {TRUE, origin = "deployment"} :
       capture = [there |-> origin = "provider", version |-> source.data,
                  recorded |-> recorded, ours |-> ours]
  /\ listing = Unseen /\ choice = NoChoice
  /\ draft = NotBegun /\ install = NotBegun
  /\ stale = {} /\ unmarked = FALSE
  /\ changes = 0 /\ troubles = 0

Trouble == troubles < MaxTroubles /\ troubles' = troubles + 1
Looks == <<listing, choice, draft, install>>

-----------------------------------------------------------------------------
(* Mutant: the upgrade rules decide alone, and let a newer version pass.    *)
SkewByRules(version, known) ==
  IF version = None \/ ~known THEN "unknown"
  ELSE IF \E w \in Waypoints : version < w /\ w < Target THEN "path" ELSE "ok"

(* computeSkewVerdict. checkUpgradePath lets a newer version pass.          *)
Skew(version, known) ==
  IF version = None \/ ~known THEN "unknown"
  ELSE IF version > Target THEN "newer"
  ELSE IF \E w \in Waypoints : version < w /\ w < Target THEN "path"
  ELSE "ok"

Refused(skew) == skew \in {"newer", "path"}

(* describeCandidate, describeProviderCandidate: the identity record first, *)
(* then the deployment's own; a capture without one has none, and none has  *)
(* its environment with it.                                                 *)
VersionOf(marker) ==
  IF origin = "provider" THEN IF capture.recorded THEN capture.version ELSE None
  ELSE IF marker # None THEN marker ELSE source.says
Inferred   == origin = "provider" /\ ~capture.recorded
CarriesEnv == origin = "deployment" /\ source.env # None

(* Mutant: an inferred identity is as good as a recorded one.               *)
RequiredUnlessInferred(skew, carried) ==
  {c \in Codes : \/ c = "version-unknown" /\ skew = "unknown"
                 \/ c = "env-not-carried" /\ ~carried}

(* deriveRequiredAcknowledgements *)
Required(skew, carried) ==
  {c \in Codes : \/ c = "version-unknown"   /\ skew = "unknown"
                 \/ c = "env-not-carried"   /\ ~carried
                 \/ c = "inferred-identity" /\ Inferred}

(* checkCandidateStillEligible; an entry that is gone, or is of another app.*)
Unavailable ==
  IF origin = "provider"
  THEN IF ~capture.there \/ (capture.recorded /\ ~capture.ours) THEN "gone" ELSE "none"
  ELSE IF source.status = "gone" THEN "gone"
       ELSE IF source.status \notin Settled THEN "busy" ELSE "none"

(* judgeRestoreChoice, judgeProviderRestoreChoice: why a choice is refused, *)
(* given what was read of the source.                                       *)
Judged(seen) ==
  LET skew    == Skew(VersionOf(seen.marker), app.rules)
      carried == choice.carry /\ seen.carries
  IN  IF Unavailable # "none" THEN Unavailable
      ELSE IF Refused(skew) THEN skew
      ELSE IF app.requiresEnv /\ ~carried THEN "env-required"
      ELSE IF ~(Required(skew, carried) \subseteq choice.acks) THEN "ack-required"
      ELSE "none"

-----------------------------------------------------------------------------
(* What the source and the provider's capture go through meanwhile.         *)
Changed ==
  /\ changes < MaxChanges /\ changes' = changes + 1
  /\ stale' = {"listing", "draft", "install"}

(* A promote or a rollback; only the promote tells the version.             *)
SourceBegins ==
  /\ source.status \in Settled
  /\ Changed
  /\ \E v \in Versions \ {source.data} :
       source' = [source EXCEPT !.status = "busy", !.next = v,
                                !.says = IF v > source.data THEN v ELSE @]
  /\ UNCHANGED <<fixed, capture, Looks, unmarked, troubles>>

(* materializeCompose writes both records, or fails to and goes on; then    *)
(* the containers come up on the data.                                      *)
SourceStarts ==
  /\ source.status = "busy" /\ source.next # source.data
  /\ \/ /\ source' = [source EXCEPT !.data = source.next, !.marker = source.next,
                                    !.env = source.next]
        /\ UNCHANGED <<unmarked, troubles>>
     \/ /\ Trouble /\ unmarked' = TRUE
        /\ source' = [source EXCEPT !.data = source.next]
  /\ stale' = {"listing", "draft", "install"}
  /\ UNCHANGED <<fixed, capture, Looks, changes>>

SourceSettles ==
  /\ source.status = "busy"
  /\ \/ source.next = source.data /\ source' = [source EXCEPT !.status = "running"]
     \/ source' = [source EXCEPT !.status = "error"]
  /\ UNCHANGED <<fixed, capture, Looks, stale, unmarked, changes, troubles>>

(* Restarted after an error: the release that is current comes up.          *)
SourceRetried ==
  /\ source.status = "error"
  /\ source' = [source EXCEPT !.status = "busy"]
  /\ UNCHANGED <<fixed, capture, Looks, stale, unmarked, changes, troubles>>

SourceStops ==
  /\ source.status = "running"
  /\ source' = [source EXCEPT !.status = "stopped"]
  /\ UNCHANGED <<fixed, capture, Looks, stale, unmarked, changes, troubles>>

SourceUninstalled ==
  /\ source.status \in Settled \cup {"error"}
  /\ Changed
  /\ source' = [source EXCEPT !.status = "gone", !.marker = None, !.env = None]
  /\ UNCHANGED <<fixed, capture, Looks, unmarked, troubles>>

(* The entry is pruned, or the provider loses its consent.                  *)
CaptureGoes ==
  /\ capture.there
  /\ Changed
  /\ capture' = [capture EXCEPT !.there = FALSE]
  /\ UNCHANGED <<fixed, source, Looks, unmarked, troubles>>

-----------------------------------------------------------------------------
(* Mutant: the list takes it that every environment can be carried.         *)
AssumesCarried == TRUE

(* resolveListedCandidate: what can be carried is taken to be wanted.       *)
CarriesListed == CarriesEnv

(* GET /api/apps/:appId/restore-candidates. The version that will be        *)
(* installed, or its rules, may not be found out.                           *)
List ==
  /\ listing = Unseen /\ draft.at = "none"
  /\ \E sure \in BOOLEAN :
       /\ IF sure THEN UNCHANGED troubles ELSE Trouble
       /\ LET skew == Skew(VersionOf(source.marker), app.rules /\ sure) IN
          listing' = [offered |-> Unavailable = "none", sure |-> sure, skew |-> skew,
                      carries |-> CarriesListed, required |-> Required(skew, CarriesListed)]
  /\ stale' = stale \ {"listing"}
  /\ UNCHANGED <<fixed, source, capture, choice, draft, install, unmarked, changes>>

(* getRestoreSource: the files are read first, the status is the record's   *)
(* own when it is judged.                                                   *)
Seen(then) ==
  [then EXCEPT !.at = "judging", !.marker = source.marker, !.refusal = "none",
               !.carries = CarriesEnv]

CanBeRequired(code) == code = "inferred-identity" => origin = "provider"

(* createDraft, for the choice the operator has made with the list or       *)
(* without looking at it.                                                   *)
AskForDraft ==
  /\ draft.at = "none" /\ ~(listing.offered /\ Refused(listing.skew))
  /\ choice' \in [carry : BOOLEAN, acks : SUBSET {c \in Codes : CanBeRequired(c)}]
  /\ draft' = Seen(draft)
  /\ stale' = stale \ {"draft"}
  /\ UNCHANGED <<fixed, source, capture, listing, install, unmarked, changes, troubles>>

JudgeForDraft ==
  /\ draft.at = "judging"
  /\ LET why == Judged(draft) IN
     draft' = [draft EXCEPT !.refusal = why,
                 !.at = IF why # "none" THEN "refused"
                        ELSE IF choice.carry /\ origin = "deployment" THEN "carrying"
                        ELSE "made"]
  /\ UNCHANGED <<fixed, source, capture, listing, choice, install, stale, unmarked, changes, troubles>>

(* readRestoreEnvRecord: a record that cannot be parsed is none.            *)
CarryEnv ==
  /\ draft.at = "carrying"
  /\ \/ draft' = [draft EXCEPT !.at = "made", !.env = source.env] /\ UNCHANGED troubles
     \/ Trouble /\ draft' = [draft EXCEPT !.at = "made", !.refusal = "unreadable"]
  /\ UNCHANGED <<fixed, source, capture, listing, choice, install, stale, unmarked, changes>>

(* createFromDraft: the same judgement of what is read now. A restore that  *)
(* is given no name takes the source's, and so its address.                 *)
ReadForInstall ==
  /\ draft.at = "made" /\ install.at \in {"none", "refused"}
  /\ install' = Seen(install)
  /\ stale' = stale \ {"install"}
  /\ UNCHANGED <<fixed, source, capture, listing, choice, draft, unmarked, changes, troubles>>

(* Mutant: only whether the source is still there.                          *)
RejudgesAvailability(seen) == Unavailable

(* The judgement of createFromDraft. *)
Rejudged(seen) == Judged(seen)

JudgeForInstall ==
  /\ install.at = "judging"
  /\ \E named \in BOOLEAN :
     LET why == IF Rejudged(install) # "none" THEN Rejudged(install)
                ELSE IF origin = "deployment" /\ ~named THEN "address"
                ELSE "none"
     IN install' = [install EXCEPT !.refusal = why,
                      !.skew = Skew(VersionOf(install.marker), app.rules),
                      !.at = IF why = "none" THEN "queued" ELSE "refused"]
  /\ UNCHANGED <<fixed, source, capture, listing, choice, draft, stale, unmarked, changes, troubles>>

(* The deploy job only asks whether the source is still to be had, captures *)
(* it some awaits later, and may be sent again after it failed.             *)
JobChecks ==
  /\ install.at \in {"queued", "failed"}
  /\ install' = [install EXCEPT !.at = IF Unavailable = "none"
                                       THEN "capturing" ELSE "failed"]
  /\ UNCHANGED <<fixed, source, capture, listing, choice, draft, stale, unmarked, changes, troubles>>

JobLands ==
  /\ install.at = "capturing"
  /\ \/ /\ source.status = "gone" /\ origin = "deployment"
        /\ install' = [install EXCEPT !.at = "failed"]
     \/ install' = [install EXCEPT !.at = "landed",
                       !.data = IF origin = "provider"
                                THEN [version |-> capture.version, ours |-> capture.ours]
                                ELSE [version |-> source.data, ours |-> TRUE]]
  /\ UNCHANGED <<fixed, source, capture, listing, choice, draft, stale, unmarked, changes, troubles>>

Next ==
  \/ SourceBegins \/ SourceStarts \/ SourceSettles \/ SourceRetried \/ SourceStops
  \/ SourceUninstalled \/ CaptureGoes
  \/ List
  \/ AskForDraft \/ JudgeForDraft \/ CarryEnv
  \/ ReadForInstall \/ JudgeForInstall
  \/ JobChecks \/ JobLands

Spec == Init /\ [][Next]_vars

-----------------------------------------------------------------------------
Skews   == {"unknown", "newer", "path", "ok"}
Looking == [at : {"none", "judging", "refused", "carrying", "made",
                  "queued", "capturing", "failed", "landed"},
            marker : Versions \cup {None}, carries : BOOLEAN, skew : Skews,
            refusal : Skews \cup {"none", "gone", "busy", "env-required", "ack-required",
                                 "unreadable", "address"},
            env : Versions \cup {None}, data : [version : Versions \cup {None}, ours : BOOLEAN]]

Sources == [status : Settled \cup {"busy", "error", "gone"}, data : Versions, says : Versions,
            next : Versions, marker : Versions \cup {None}, env : Versions \cup {None}]
Listings == [offered : BOOLEAN, sure : BOOLEAN, skew : Skews, carries : BOOLEAN,
             required : SUBSET Codes]

Shapes ==
  /\ origin \in Origins /\ app \in [rules : BOOLEAN, requiresEnv : BOOLEAN]
  /\ source \in Sources /\ listing \in Listings
  /\ capture \in [there : BOOLEAN, version : Versions, recorded : BOOLEAN, ours : BOOLEAN]
  /\ choice \in [carry : BOOLEAN, acks : SUBSET Codes]
  /\ draft \in Looking /\ install \in Looking
  /\ stale \subseteq {"listing", "draft", "install"} /\ unmarked \in BOOLEAN

TypeOK == Shapes /\ changes \in 0..MaxChanges /\ troubles \in 0..MaxTroubles

Upgradable(version) ==
  version <= Target /\ \A w \in Waypoints : w <= version \/ w >= Target

(* What lands in the data root can be upgraded to what is installed, is the *)
(* app's own, and comes with its configuration, or else the operator has    *)
(* acknowledged that it may not be so. Excused: a source that changed since *)
(* createFromDraft judged it, since the job does not judge it again, and    *)
(* one whose identity record was not written; an environment record that    *)
(* cannot be parsed. Data and configuration may be of different versions:   *)
(* the one is taken when the job runs, the other when the draft is made.    *)
RestoresWhatWasAccepted ==
  install.at = "landed" =>
    /\ \/ Upgradable(install.data.version)
       \/ install.skew = "unknown" /\ "version-unknown" \in choice.acks
       \/ "install" \in stale \/ unmarked
    /\ install.data.ours \/ "inferred-identity" \in choice.acks
    /\ \/ draft.env # None \/ draft.refusal = "unreadable"
       \/ "env-not-carried" \in choice.acks /\ ~app.requiresEnv

(* An operator who takes a candidate the way the list shows it, with all it *)
(* asks to acknowledge, is refused only if the candidate changed, the list  *)
(* could not be sure, the app needs an environment (which the list does not *)
(* tell), or no name was given and the source holds its address; and what   *)
(* was good for the draft is good for the install.                          *)
RefusedForAReason ==
  /\ draft.at = "refused" =>
       \/ ~listing.offered \/ ~listing.sure \/ "listing" \in stale
       \/ choice.carry # listing.carries \/ ~(listing.required \subseteq choice.acks)
       \/ draft.refusal = "env-required"
  /\ install.at = "refused" => "draft" \in stale \/ install.refusal = "address"

(* The invariant behind both, in its parts. What the records say of the     *)
(* data, unless one could not be written:                                   *)
RecordsTrue ==
  /\ source.status \in Settled => source.next = source.data
  /\ source.status # "gone" /\ ~unmarked =>
       IF source.marker # None THEN source.marker = source.data
       ELSE source.next = source.data => source.says = source.data

(* what was read of the candidate is what it is still, unless it changed;   *)
(* and it was read in turn:                                                 *)
ReadTrue(look, name) ==
  look.at # "none" /\ name \notin stale =>
    look.marker = source.marker /\ look.carries = CarriesEnv

StillTrue ==
  /\ ReadTrue(draft, "draft") /\ ReadTrue(install, "install")
  /\ draft.at # "none" /\ "draft" \in stale => "listing" \in stale
  /\ install.at # "none" => draft.at = "made" /\ ("install" \in stale => "draft" \in stale)
  /\ listing.offered /\ "listing" \notin stale =>
       /\ Unavailable = "none" /\ listing.carries = CarriesEnv
       /\ listing.skew = Skew(VersionOf(source.marker), app.rules /\ listing.sure)
       /\ listing.required = Required(listing.skew, listing.carries)
  /\ draft.at # "none" => ~(listing.offered /\ Refused(listing.skew))
  /\ draft.at \in {"carrying", "made"} /\ "draft" \notin stale => Judged(draft) = "none"

(* a source that had an environment has one until it is gone:               *)
Unprovided == "env-not-carried" \in choice.acks /\ ~app.requiresEnv
Provided   == draft.env # None \/ draft.refusal = "unreadable" \/ Unprovided

EnvironmentTrue ==
  /\ draft.carries \/ install.carries => origin = "deployment"
  /\ draft.at = "judging" /\ draft.carries => source.env # None \/ source.status = "gone"
  /\ choice.carry /\ origin = "deployment" =>
       /\ draft.at = "carrying" => source.env # None \/ source.status = "gone" \/ Unprovided
       /\ draft.at = "made" => Provided \/ source.status = "gone"

(* and what the install was judged by.                                      *)
Accepts(version) ==
  Upgradable(version) \/ (install.skew = "unknown" /\ "version-unknown" \in choice.acks)

AcceptedTrue ==
  install.at \in {"queued", "capturing", "failed", "landed"} =>
    /\ Provided
    /\ IF origin = "deployment" THEN Accepts(source.data) \/ "install" \in stale \/ unmarked
       ELSE Accepts(capture.version) /\ (capture.ours \/ "inferred-identity" \in choice.acks)

ChoiceInv ==
  /\ Shapes /\ RecordsTrue /\ StillTrue /\ EnvironmentTrue /\ AcceptedTrue
  /\ RestoresWhatWasAccepted /\ RefusedForAReason
=============================================================================
