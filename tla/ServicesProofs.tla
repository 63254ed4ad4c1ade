--------------------------- MODULE ServicesProofs ---------------------------
(***************************************************************************)
(* The theorems of the components of MCServices, for any values of its     *)
(* constants: the component that runs never changes, and a step is one of  *)
(* that component.  Drafts, bundles and the identity provider have the     *)
(* proof of that step in modules of their own, and ClientProofs has all    *)
(* about the wizard, the page and the commands; the rest is here, each     *)
(* component under the names it gives its variables.                       *)
(***************************************************************************)
EXTENDS MCServices, Sequences, WellFoundedInduction, TLAPS

-----------------------------------------------------------------------------
(* What stands for no value is no value.                                    *)
LEMMA Sentinels ==
  /\ S!Keep \notin {S!Absent, S!Blank} \cup S!Values
  /\ S!Absent \notin S!Values /\ S!Absent # S!Blank
  BY ValuesAssumption DEF S!Keep, S!Absent, S!Blank, S!Values

(* A call that has not begun.                                               *)
LEMMA IdleEntered ==
  /\ S!Idle \in S!Entered /\ S!Idle.at = "idle" /\ ~S!Idle.misread
  /\ S!Nobody \in S!Changes /\ S!Empty \in S!Contents
  BY DEF S!Idle, S!Entered, S!Empty, S!Nobody, S!Contents, S!Changes

(* A call that goes on, while the file stays as it is.                      *)
LEMMA EntryKept ==
  ASSUME S!StoreInv, UNCHANGED <<v1, v2, v3>>, NEW c \in Calls,
         NEW entry \in S!Entered, v4' = [v4 EXCEPT ![c] = entry], S!Sound(entry)
  PROVE  S!StoreInv'
<1> DEFINE store == v1  file == v2  wanted == v3  call == v4  troubles == v5
<1>1. S!StoreTypes' /\ S!NothingForgotten'
  BY DEF S!StoreInv, S!StoreTypes, S!NothingForgotten
<1>2. \A d \in Calls : S!Sound(call'[d])
  BY DEF S!StoreInv, S!StoreTypes
<1> QED
  BY <1>1, <1>2 DEF S!StoreInv, S!Sound, S!WritesAsAsked

(* The invariant holds at first.                                            *)
LEMMA InitStore == S!Init => S!StoreInv
<1> DEFINE store == v1  file == v2  wanted == v3  call == v4  troubles == v5
<1> SUFFICES ASSUME S!Init PROVE S!StoreInv
  OBVIOUS
<1>1. file \in S!Contents /\ store \in S!Stores /\ S!NothingForgotten
  BY IdleEntered DEF S!Init, S!NothingForgotten
<1>2. \A c \in Calls : call[c] = S!Idle
  BY DEF S!Init
<1>3. call \in [Calls -> S!Entered]
  BY IdleEntered DEF S!Init
<1> QED
  BY <1>1, <1>2, <1>3, IdleEntered DEF S!StoreInv, S!StoreTypes, S!Sound

(* A reading is of the file, or empty where the code goes on without it.    *)
LEMMA WhatIsRead ==
  ASSUME S!StoreInv, NEW reading \in S!Readings
  PROVE  /\ reading[1] \in S!Contents /\ reading[2] \in BOOLEAN
         /\ reading[2] => v1 # "sources"
         /\ ~reading[2] => reading[1] = v2
<1> DEFINE store == v1  file == v2  wanted == v3  call == v4  troubles == v5
<1>1. reading = <<file, FALSE>> \/ (reading = <<S!Empty, TRUE>> /\ S!TreatsAsEmpty)
  BY DEF S!Readings
<1>2. CASE reading = <<file, FALSE>>
  BY <1>2 DEF S!StoreInv, S!StoreTypes
<1>3. CASE reading = <<S!Empty, TRUE>> /\ S!TreatsAsEmpty
  <2>1. reading[1] = S!Empty /\ reading[2] = TRUE
    BY <1>3
  <2> QED
    BY <1>3, <2>1, IdleEntered DEF S!TreatsAsEmpty
<1> QED
  BY <1>1, <1>2, <1>3

(* add, update and remove ask for one entry and copy the others.            *)
LEMMA EditKeeps ==
  ASSUME S!StoreInv, NEW c \in Calls, NEW e \in Entries, NEW v \in {S!Absent} \cup S!Values,
         S!Edit(c, e, v)
  PROVE  S!StoreInv'
<1> DEFINE store == v1  file == v2  wanted == v3  call == v4  troubles == v5
<1>1. PICK reading \in S!Readings :
        call' = [call EXCEPT ![c] =
            [S!Idle EXCEPT !.at = "writing", !.seen = file, !.misread = reading[2],
                         !.form = S!Listed(file),
                         !.next = [reading[1] EXCEPT ![e] = v],
                         !.asked = [S!Nobody EXCEPT ![e] = v]]]
  BY DEF S!Edit
<1>2. PICK entry : entry = [S!Idle EXCEPT !.at = "writing", !.seen = file, !.misread = reading[2],
                         !.form = S!Listed(file),
                         !.next = [reading[1] EXCEPT ![e] = v],
                         !.asked = [S!Nobody EXCEPT ![e] = v]]
  OBVIOUS
<1>3. /\ entry \in S!Entered /\ entry.at = "writing" /\ entry.seen = file
         /\ entry.misread = reading[2]
      /\ entry.next = [reading[1] EXCEPT ![e] = v] /\ entry.asked = [S!Nobody EXCEPT ![e] = v]
  BY <1>2, WhatIsRead, IdleEntered DEF S!Entered, S!Contents, S!Changes, S!Listed, S!Idle,
       S!StoreInv, S!StoreTypes
<1>4. S!Sound(entry)
  BY <1>3, WhatIsRead, Sentinels, IdleEntered DEF S!Sound, S!WritesAsAsked, S!Nobody, S!Contents,
       S!Changes
<1> QED
  BY <1>1, <1>2, <1>3, <1>4, EntryKept DEF S!Edit

(* Showing the form reads and writes nothing.                               *)
LEMMA ShowKeeps ==
  ASSUME S!StoreInv, NEW c \in Calls, S!Show(c)
  PROVE  S!StoreInv'
<1> DEFINE store == v1  file == v2  wanted == v3  call == v4  troubles == v5
<1>1. PICK reading \in S!Readings :
        call' = [call EXCEPT ![c] =
            [S!Idle EXCEPT !.at = "shown", !.form = S!Listed(reading[1]), !.misread = reading[2]]]
  BY DEF S!Show
<1>2. PICK entry : entry = [S!Idle EXCEPT !.at = "shown", !.form = S!Listed(reading[1]),
      !.misread = reading[2]]
  OBVIOUS
<1>3. entry \in S!Entered /\ entry.at = "shown" /\ entry.misread = reading[2]
  BY <1>2, WhatIsRead, IdleEntered DEF S!Entered, S!Listed, S!Idle
<1>4. S!Sound(entry)
  BY <1>3, WhatIsRead DEF S!Sound
<1> QED
  BY <1>1, <1>2, <1>3, <1>4, EntryKept DEF S!Show

(* The rows sent back without their values get them from the file: the rows *)
(* that were shown and the ones that are there are the same, or conceded.   *)
LEMMA SubmitKeeps ==
  ASSUME S!StoreInv, NEW c \in Calls, NEW kept \in SUBSET v4[c].form,
         NEW given \in S!Inputs, S!Submit(c, kept, given)
  PROVE  S!StoreInv'
<1> DEFINE store == v1  file == v2  wanted == v3  call == v4  troubles == v5
<1> DEFINE Rows(reading) == [e \in Entries |-> IF given[e] # S!Keep THEN given[e]
                                               ELSE IF e \in kept THEN S!Restored(reading[1], e)
                                               ELSE S!Absent]
           asked == [e \in Entries |-> IF e \in call[c].form \ kept /\ given[e] = S!Keep
                                        THEN S!Absent ELSE given[e]]
           Entry(reading) == [call[c] EXCEPT !.at = "writing", !.seen = file,
                                             !.misread = call[c].misread \/ reading[2],
                                             !.next = Rows(reading), !.asked = asked]
<1>1. PICK reading \in S!Readings : call' = [call EXCEPT ![c] = Entry(reading)]
  BY DEF S!Submit
<1>2. PICK entry : entry = Entry(reading)
  OBVIOUS
<1>3. given \in S!Changes /\ \A e \in Entries : given[e] = S!Keep \/ given[e] \in S!Values
  BY IdleEntered DEF S!Inputs, S!Nobody, S!Changes
<1>4. Rows(reading) \in S!Contents /\ asked \in S!Changes
  BY <1>3, WhatIsRead DEF S!Contents, S!Changes, S!Restored
<1>5. /\ entry \in S!Entered /\ entry.at = "writing" /\ entry.seen = file
         /\ entry.form = call[c].form
      /\ entry.misread = (call[c].misread \/ reading[2]) /\ entry.next = Rows(reading)
      /\ entry.asked = asked
  <2> HIDE DEF Rows, asked
  <2> QED
    BY <1>2, <1>4, WhatIsRead DEF S!Entered, S!StoreInv, S!StoreTypes
<1>6. S!WritesAsAsked(entry)
  BY <1>3, <1>5, WhatIsRead, Sentinels DEF S!WritesAsAsked, S!Restored
<1>7. S!Sound(entry)
  <2>1. S!Sound(call[c])
    BY DEF S!StoreInv
  <2>2. entry.misread => call[c].misread \/ reading[2]
    BY <1>5
  <2>3. entry.misread => store # "sources"
    BY <2>1, <2>2, WhatIsRead DEF S!Sound
  <2> QED
    BY <1>6, <2>3 DEF S!Sound
<1>8. call' = [call EXCEPT ![c] = entry]
  BY <1>1, <1>2
<1> QED
  BY <1>5, <1>7, <1>8, EntryKept DEF S!Submit

(* A call about other settings copies every row.                            *)
LEMMA SubmitOthersKeeps ==
  ASSUME S!StoreInv, NEW c \in Calls, S!SubmitOthers(c)
  PROVE  S!StoreInv'
<1> DEFINE store == v1  file == v2  wanted == v3  call == v4  troubles == v5
<1>1. PICK reading \in S!Readings :
        call' = [call EXCEPT ![c] =
            [S!Idle EXCEPT !.at = "writing", !.seen = file, !.next = reading[1],
                         !.misread = reading[2], !.form = S!Listed(reading[1])]]
  BY DEF S!SubmitOthers
<1>2. PICK entry : entry = [S!Idle EXCEPT !.at = "writing", !.seen = file, !.next = reading[1],
                                        !.misread = reading[2], !.form = S!Listed(reading[1])]
  OBVIOUS
<1>3. /\ entry \in S!Entered /\ entry.at = "writing" /\ entry.seen = file
         /\ entry.misread = reading[2]
      /\ entry.next = reading[1] /\ entry.asked = S!Nobody
  BY <1>2, WhatIsRead, IdleEntered DEF S!Entered, S!Listed, S!Idle, S!StoreInv, S!StoreTypes
<1>4. S!Sound(entry)
  BY <1>3, WhatIsRead DEF S!Sound, S!WritesAsAsked, S!Nobody
<1> QED
  BY <1>1, <1>2, <1>3, <1>4, EntryKept DEF S!SubmitOthers

(* The write makes of the file what was asked for and, of the rest, what it *)
(* was, unless that is conceded.                                            *)
LEMMA WriteKeeps ==
  ASSUME S!StoreInv, NEW c \in Calls, S!Write(c)
  PROVE  S!StoreInv'
<1> DEFINE store == v1  file == v2  wanted == v3  call == v4  troubles == v5
<1>1. call[c] \in S!Entered /\ file \in S!Contents /\ S!Sound(call[c]) /\ call[c].at = "writing"
      /\ file = wanted
  BY DEF S!StoreInv, S!StoreTypes, S!NothingForgotten, S!Write, S!At
<1>2. call[c].next \in S!Contents /\ S!WritesAsAsked(call[c])
  BY <1>1 DEF S!Entered, S!Sound
<1>3. ASSUME NEW e \in Entries
      PROVE  wanted'[e] = call[c].next[e]
  BY <1>1, <1>2, <1>3 DEF S!Write, S!Conceded, S!WritesAsAsked, S!Sound
<1>4. file' = wanted'
  BY <1>2, <1>3 DEF S!Write, S!Contents
<1>5. file' \in S!Contents /\ store' = store /\ call' = [call EXCEPT ![c] = S!Idle]
  BY <1>2 DEF S!Write
<1>6. \A d \in Calls : S!Sound(call'[d])
  BY <1>5, IdleEntered DEF S!StoreInv, S!StoreTypes, S!Sound
<1>7. S!StoreTypes'
  BY <1>5, IdleEntered DEF S!StoreInv, S!StoreTypes
<1> QED
  BY <1>4, <1>5, <1>6, <1>7 DEF S!StoreInv, S!NothingForgotten, S!Sound

(* The invariant is inductive.                                              *)
LEMMA NextStore == ASSUME S!StoreInv, [S!Next]_(S!vars) PROVE S!StoreInv'
<1> DEFINE store == v1  file == v2  wanted == v3  call == v4  troubles == v5
<1>1. ASSUME NEW c \in Calls, NEW e \in Entries, NEW v \in {S!Absent} \cup S!Values, S!Edit(c, e, v)
      PROVE  S!StoreInv'
  BY <1>1, EditKeeps
<1>2. ASSUME NEW c \in Calls, S!Show(c)
      PROVE  S!StoreInv'
  BY <1>2, ShowKeeps
<1>3. ASSUME NEW c \in Calls, NEW kept \in SUBSET call[c].form, NEW given \in S!Inputs,
             S!Submit(c, kept, given)
      PROVE  S!StoreInv'
  BY <1>3, SubmitKeeps
<1>4. ASSUME NEW c \in Calls, S!SubmitOthers(c)
      PROVE  S!StoreInv'
  BY <1>4, SubmitOthersKeeps
<1>5. ASSUME NEW c \in Calls, S!Write(c)
      PROVE  S!StoreInv'
  BY <1>5, WriteKeeps
<1>6. ASSUME NEW c \in Calls, S!WriteFails(c)
      PROVE  S!StoreInv'
  BY <1>6, IdleEntered, EntryKept DEF S!WriteFails, S!Sound
<1>7. CASE UNCHANGED S!vars
  BY <1>7 DEF S!vars, S!StoreInv, S!StoreTypes, S!NothingForgotten, S!Sound, S!WritesAsAsked
<1> QED
  BY <1>1, <1>2, <1>3, <1>4, <1>5, <1>6, <1>7 DEF S!Next

(* The inductive invariant of the settings, while they run.                 *)
SettingsInv == which = "settings" => S!StoreInv

(* It holds at first.                                                       *)
LEMMA InitSettings == Init => SettingsInv
  BY InitStore DEF Init, SettingsInv

(* It is inductive.                                                         *)
LEMMA NextSettings == SettingsInv /\ [Next]_vars => SettingsInv'
<1> SUFFICES ASSUME SettingsInv, [Next]_vars, which' = "settings" PROVE S!StoreInv'
  BY DEF SettingsInv
<1>1. which = "settings"
  BY Zenon DEF Next, vars
<1>2. [S!Next]_(S!vars)
  BY <1>1, Zenon DEF Next, vars, S!vars
<1>3. S!StoreInv
  BY <1>1 DEF SettingsInv
<1> QED
  BY <1>2, <1>3, NextStore

(* NothingForgotten: the files of settings hold what the operator has       *)
(* entered.                                                                 *)
THEOREM NothingForgottenHolds == Spec => []NothingForgotten
<1>1. SettingsInv => NothingForgotten
  BY DEF SettingsInv, S!StoreInv, NothingForgotten
<1> QED
  BY <1>1, InitSettings, NextSettings, PTL DEF Spec

-----------------------------------------------------------------------------
(* The inductive invariant of a draft, while drafts are run.                *)
DraftsInv == which = "drafts" => D!DraftInv

(* The invariant holds at first, whichever component runs.                  *)
LEMMA InitDraft == Init => DraftsInv
<1> SUFFICES ASSUME D!Init PROVE D!DraftInv
  BY Zenon DEF Init, DraftsInv
<1> QED
  BY D!InitDrafts, UploadsAssumption

(* It is inductive.                                                         *)
LEMMA NextDraft == DraftsInv /\ [Next]_vars => DraftsInv'
<1> SUFFICES ASSUME DraftsInv, [Next]_vars, which' = "drafts" PROVE D!DraftInv'
  BY DEF DraftsInv
<1>1. which = "drafts"
  BY Zenon DEF Next, vars
<1>2. D!DraftInv
  BY <1>1 DEF DraftsInv
<1>3. CASE Next
  <2>1. D!Next
    BY <1>1, <1>3, Zenon DEF Next
  <2> QED
    BY <1>2, <2>1, D!NextDrafts, UploadsAssumption
<1>4. CASE UNCHANGED vars
  <2>1. UNCHANGED D!vars
    BY <1>4 DEF vars, D!vars
  <2> QED
    BY <1>2, <2>1, D!StayDrafts
<1> QED
  BY <1>3, <1>4

(* DraftsKept: draft.json never names an upload that is not there, nor a    *)
(* finalized draft without its manifest; at rest it is what memory holds    *)
(* and a deleted draft does not come back; and what a deployment is made of *)
(* was validated, with every file it names (draft.ts) - whatever fails,     *)
(* wherever the server stops, for any number of requests and uploads, but   *)
(* for the cases the property excepts.                                      *)
THEOREM DraftsKeptHolds == Spec => []DraftsKept
<1>1. DraftsInv => DraftsKept
  BY D!DraftInvGives DEF DraftsInv, DraftsKept
<1> QED
  BY <1>1, InitDraft, NextDraft, PTL DEF Spec

-----------------------------------------------------------------------------
(* The inductive invariant of the bundles, while they run.                  *)
BundlesInv == which = "bundles" => C!BundleInv

(* It holds at first.                                                       *)
LEMMA InitBundles == Init => BundlesInv
  BY C!InitBundles DEF Init, BundlesInv

(* It is inductive.                                                         *)
LEMMA NextBundles == BundlesInv /\ [Next]_vars => BundlesInv'
<1> SUFFICES ASSUME BundlesInv, [Next]_vars, which' = "bundles" PROVE C!BundleInv'
  BY DEF BundlesInv
<1>1. which = "bundles"
  BY Zenon DEF Next, vars
<1>2. [C!Next]_(C!vars)
  BY <1>1, Zenon DEF Next, vars, C!vars
<1>3. C!BundleInv
  BY <1>1 DEF BundlesInv
<1> QED
  BY <1>2, <1>3, C!NextBundles

(* BundlesWhole: what a call has pulled and returns is all of a bundle, and *)
(* a marker names the files beside it.                                      *)
THEOREM BundlesWholeHolds == Spec => []BundlesWhole
<1>1. BundlesInv => BundlesWhole
  BY C!BundlesFollow DEF BundlesInv, BundlesWhole
<1> QED
  BY <1>1, InitBundles, NextBundles, PTL DEF Spec

-----------------------------------------------------------------------------
(* The inductive invariant of the identity provider, while it is run.       *)
IdentitiesInv == which = "provisioner" => P!IdentityInv

(* The invariant holds at first, whichever component runs.                  *)
LEMMA InitIdentities == Init => IdentitiesInv
<1> SUFFICES ASSUME P!Init PROVE P!IdentityInv
  BY Zenon DEF Init, IdentitiesInv
<1> QED
  BY P!InitIdentity

(* It is inductive.                                                         *)
LEMMA NextIdentities == IdentitiesInv /\ [Next]_vars => IdentitiesInv'
<1> SUFFICES ASSUME IdentitiesInv, [Next]_vars, which' = "provisioner" PROVE P!IdentityInv'
  BY DEF IdentitiesInv
<1>1. which = "provisioner"
  BY Zenon DEF Next, vars
<1>2. P!IdentityInv
  BY <1>1 DEF IdentitiesInv
<1>3. CASE Next
  <2>1. P!Next
    BY <1>1, <1>3, Zenon DEF Next
  <2> QED
    BY <1>2, <2>1, P!NextIdentity
<1>4. CASE UNCHANGED vars
  <2>1. UNCHANGED P!vars
    BY <1>4 DEF vars, P!vars, P!backend, P!records, P!counts
  <2> QED
    BY <1>2, <2>1, P!StayIdentity
<1> QED
  BY <1>3, <1>4

(* IdentityFollows: an uninstall none of whose requests fails leaves no     *)
(* provider and no application behind, and a gated app comes up with its    *)
(* gate in the outpost's list, unless the update of another app crosses its *)
(* start (deployment.ts onDeprovision, provisioner.ts).                     *)
THEOREM IdentityFollowsHolds == Spec => IdentityFollows
<1>1. IdentitiesInv /\ [Next]_vars =>
        [which = "provisioner" => P!NothingOrphaned' /\ P!StartsBound]_vars
  <2> SUFFICES ASSUME IdentitiesInv, Next, which = "provisioner"
               PROVE  P!NothingOrphaned' /\ P!StartsBound
    OBVIOUS
  <2>1. P!IdentityInv /\ P!Next
    BY Zenon DEF Next, IdentitiesInv
  <2>2. P!IdentityInv'
    BY <2>1, P!NextIdentity
  <2>3. P!NothingOrphaned'
    BY <2>2 DEF P!IdentityInv, P!NothingOrphaned, P!Cleared
  <2>4. P!StartsBound
    BY <2>1, P!IdentityGives DEF P!StartsBound, P!ComposeUp
  <2> QED
    BY <2>3, <2>4
<1> QED
  BY <1>1, InitIdentities, NextIdentities, PTL DEF Spec, IdentityFollows

-----------------------------------------------------------------------------
(* The invariant holds at first.                                            *)
LEMMA InitClaims == N!Init => N!InstallInv
<1> DEFINE at == v1  host == v2  gate == v3  saved == v4  map == v5  config == v6
             routed == v7  contested == v8  troubles == v9
<1> SUFFICES ASSUME N!Init PROVE N!InstallInv
  OBVIOUS
<1>1. /\ at = [d \in Deployments |-> "absent"] /\ host = [d \in Deployments |-> N!None]
      /\ saved = {} /\ routed = {} /\ map = [h \in Hosts |-> N!None]
  BY DEF N!Init
<1>2. N!InstallTypes
  BY <1>1 DEF N!InstallTypes, N!Stages
<1>3. N!SavedInv /\ N!MapInv /\ N!HostInv /\ N!CopyInv /\ N!RoutedInv
  BY <1>1 DEF N!SavedInv, N!MapInv, N!HostInv, N!CopyInv, N!RoutedInv, N!Past, N!Claims
<1> QED
  BY <1>2, <1>3 DEF N!InstallInv

(* createFromDraft begins: no copy is listed, and one on its way is noted.  *)
LEMMA CreateKeeps ==
  ASSUME N!None \notin Deployments, N!InstallInv, NEW d \in Deployments, NEW h \in Hosts,
         N!Create(d, h)
  PROVE  N!InstallInv'
<1> DEFINE at == v1  host == v2  gate == v3  saved == v4  map == v5  config == v6
             routed == v7  contested == v8  troubles == v9
<1>1. N!InstallTypes /\ N!SavedInv /\ N!MapInv /\ N!HostInv /\ N!CopyInv /\ N!RoutedInv
  BY DEF N!InstallInv
<1>2. /\ at[d] = "absent" /\ d \notin saved
      /\ at' = [at EXCEPT ![d] = "checking"] /\ host' = [host EXCEPT ![d] = h]
      /\ UNCHANGED <<saved, map, routed>>
      /\ contested \subseteq contested'
      /\ \A e \in Deployments : e # d /\ N!Claims(e) => N!Copy \in contested'
  BY <1>1 DEF N!Create, N!GoTo, N!InstallTypes, N!Listed, N!Underway, N!Claims, N!Stages
<1>3. N!InstallTypes'
  BY <1>1, <1>2 DEF N!InstallTypes, N!Stages
<1>4. N!SavedInv'
  BY <1>1, <1>2 DEF N!InstallTypes, N!SavedInv
<1>5. N!MapInv'
  BY <1>1, <1>2 DEF N!InstallTypes, N!MapInv
<1>6. N!HostInv'
  BY <1>1, <1>2 DEF N!InstallTypes, N!HostInv, N!Past
<1>7. N!CopyInv'
  BY <1>1, <1>2 DEF N!InstallTypes, N!CopyInv, N!Claims
<1>8. N!RoutedInv'
  BY <1>1, <1>2 DEF N!InstallTypes, N!RoutedInv
<1> QED
  BY <1>3, <1>4, <1>5, <1>6, <1>7, <1>8 DEF N!InstallInv

(* The host is checked: free, or its route is that of this deployment, of   *)
(* which there is none.                                                     *)
LEMMA CheckHostKeeps ==
  ASSUME N!None \notin Deployments, N!InstallInv, NEW d \in Deployments, N!CheckHost(d)
  PROVE  N!InstallInv'
<1> DEFINE at == v1  host == v2  gate == v3  saved == v4  map == v5  config == v6
             routed == v7  contested == v8  troubles == v9
<1>1. N!InstallTypes /\ N!SavedInv /\ N!MapInv /\ N!HostInv /\ N!CopyInv /\ N!RoutedInv
  BY DEF N!InstallInv
<1>2. /\ at[d] = "checking" /\ d \notin saved /\ host[d] \in Hosts
      /\ map[host[d]] # d
      /\ UNCHANGED <<saved, map, routed>>
      /\ contested \subseteq contested'
      /\ \/ /\ map[host[d]] = N!None /\ host' = host
            /\ at' = [at EXCEPT ![d] = "creating"]
            /\ \A e \in Deployments : e # d /\ N!Past(e) /\ host[e] = host[d]
               => host[d] \in contested'
         \/ at' = [at EXCEPT ![d] = "absent"] /\ host' = [host EXCEPT ![d] = N!None]
  BY <1>1 DEF N!CheckHost, N!Conflictless, N!GoTo, N!InstallTypes, N!SavedInv, N!MapInv,
              N!Claimants, N!Past
<1>3. N!InstallTypes'
  BY <1>1, <1>2 DEF N!InstallTypes, N!Stages
<1>4. N!SavedInv'
  BY <1>1, <1>2 DEF N!InstallTypes, N!SavedInv
<1>5. N!MapInv'
  BY <1>1, <1>2 DEF N!InstallTypes, N!MapInv
<1>6. N!HostInv'
  BY <1>1, <1>2 DEF N!InstallTypes, N!HostInv, N!Past
<1>7. N!CopyInv'
  BY <1>1, <1>2 DEF N!InstallTypes, N!CopyInv, N!Claims
<1>8. N!RoutedInv'
  BY <1>1, <1>2 DEF N!InstallTypes, N!RoutedInv
<1> QED
  BY <1>3, <1>4, <1>5, <1>6, <1>7, <1>8 DEF N!InstallInv

(* The record is listed, or the layout cannot be made.                      *)
LEMMA ListKeeps ==
  ASSUME N!None \notin Deployments, N!InstallInv, NEW d \in Deployments, N!List(d)
  PROVE  N!InstallInv'
<1> DEFINE at == v1  host == v2  gate == v3  saved == v4  map == v5  config == v6
             routed == v7  contested == v8  troubles == v9
<1>1. N!InstallTypes /\ N!SavedInv /\ N!MapInv /\ N!HostInv /\ N!CopyInv /\ N!RoutedInv
  BY DEF N!InstallInv
<1>2. /\ at[d] = "creating" /\ d \notin saved
      /\ UNCHANGED <<saved, map, routed, contested>>
      /\ \/ at' = [at EXCEPT ![d] = "listed"] /\ host' = host
         \/ at' = [at EXCEPT ![d] = "absent"] /\ host' = [host EXCEPT ![d] = N!None]
  BY <1>1 DEF N!List, N!GoTo, N!SavedInv
<1>3. N!InstallTypes'
  BY <1>1, <1>2 DEF N!InstallTypes, N!Stages
<1>4. N!SavedInv'
  BY <1>1, <1>2 DEF N!InstallTypes, N!SavedInv
<1>5. N!MapInv'
  BY <1>1, <1>2 DEF N!InstallTypes, N!MapInv
<1>6. N!HostInv'
  BY <1>1, <1>2 DEF N!InstallTypes, N!HostInv, N!Past
<1>7. N!CopyInv'
  BY <1>1, <1>2 DEF N!InstallTypes, N!CopyInv, N!Claims
<1>8. N!RoutedInv'
  BY <1>1, <1>2 DEF N!InstallTypes, N!RoutedInv
<1> QED
  BY <1>3, <1>4, <1>5, <1>6, <1>7, <1>8 DEF N!InstallInv

(* A route that is activated takes the host from nobody who has not         *)
(* contested it.                                                            *)
LEMMA ActivateKeeps ==
  ASSUME N!None \notin Deployments, N!InstallInv, NEW d \in Deployments, N!Activate(d),
         v1[d] \in {"listed", "installed"},
         v1' = [v1 EXCEPT ![d] = "installed"], v4' = v4 \/ v4' = v4 \cup {d},
         v2' = v2, v8' = v8
  PROVE  N!InstallInv'
<1> DEFINE at == v1  host == v2  gate == v3  saved == v4  map == v5  config == v6
             routed == v7  contested == v8  troubles == v9
<1>1. N!InstallTypes /\ N!SavedInv /\ N!MapInv /\ N!HostInv /\ N!CopyInv /\ N!RoutedInv
  BY DEF N!InstallInv
<1>2. /\ map' = [h \in Hosts |-> IF h = host[d] THEN d ELSE IF map[h] = d THEN N!None ELSE map[h]]
      /\ routed' = routed \cup {d} /\ host[d] \in Hosts
  BY <1>1 DEF N!Activate, N!SavedInv
<1>3. \A h \in Hosts : h # host[d] => map'[h] = map[h]
  BY <1>1, <1>2 DEF N!MapInv
<1>4. N!InstallTypes'
  BY <1>1, <1>2, <1>3 DEF N!InstallTypes, N!Stages
<1>5. N!SavedInv'
  BY <1>1, <1>2, <1>3 DEF N!InstallTypes, N!SavedInv
<1>6. N!MapInv'
  BY <1>1, <1>2, <1>3 DEF N!InstallTypes, N!MapInv
<1>7. N!HostInv'
  BY <1>1, <1>2, <1>3 DEF N!InstallTypes, N!HostInv, N!Past
<1>8. N!CopyInv'
  BY <1>1, <1>2, <1>3 DEF N!InstallTypes, N!CopyInv, N!Claims
<1>9. N!RoutedInv'
  BY <1>1, <1>2, <1>3 DEF N!InstallTypes, N!SavedInv, N!HostInv, N!RoutedInv, N!Past
<1> QED
  BY <1>4, <1>5, <1>6, <1>7, <1>8, <1>9 DEF N!InstallInv

(* The release, with its route unless the gate is not there yet.            *)
LEMMA ReleaseKeeps ==
  ASSUME N!None \notin Deployments, N!InstallInv, NEW d \in Deployments, N!Release(d)
  PROVE  N!InstallInv'
<1> DEFINE at == v1  host == v2  gate == v3  saved == v4  map == v5  config == v6
             routed == v7  contested == v8  troubles == v9
<1>1. N!InstallTypes /\ N!SavedInv /\ N!MapInv /\ N!HostInv /\ N!CopyInv /\ N!RoutedInv
  BY DEF N!InstallInv
<1>2. at[d] = "listed" /\ d \notin saved /\ host' = host /\ contested' = contested
  BY <1>1 DEF N!Release, N!SavedInv
<1>3. CASE N!Activate(d) /\ at' = [at EXCEPT ![d] = "installed"] /\ saved' = saved \cup {d}
  BY <1>2, <1>3, ActivateKeeps
<1>4. CASE /\ UNCHANGED <<map, routed>>
           /\ \/ at' = [at EXCEPT ![d] = "installed"] /\ saved' = saved \cup {d}
              \/ at' = [at EXCEPT ![d] = "stuck"] /\ saved' = saved
  <2>1. N!InstallTypes'
    BY <1>1, <1>2, <1>4 DEF N!InstallTypes, N!Stages
  <2>2. N!SavedInv'
    BY <1>1, <1>2, <1>4 DEF N!InstallTypes, N!SavedInv
  <2>3. N!MapInv'
    BY <1>1, <1>2, <1>4 DEF N!InstallTypes, N!MapInv
  <2>4. N!HostInv'
    BY <1>1, <1>2, <1>4 DEF N!InstallTypes, N!HostInv, N!Past
  <2>5. N!CopyInv'
    BY <1>1, <1>2, <1>4 DEF N!InstallTypes, N!CopyInv, N!Claims
  <2>6. N!RoutedInv'
    BY <1>1, <1>2, <1>4 DEF N!InstallTypes, N!SavedInv, N!RoutedInv
  <2> QED
    BY <2>1, <2>2, <2>3, <2>4, <2>5, <2>6 DEF N!InstallInv
<1> QED
  BY <1>3, <1>4, Zenon DEF N!Release, N!GoTo

(* The record goes, and perhaps its directory.                              *)
LEMMA UnlistKeeps ==
  ASSUME N!None \notin Deployments, N!InstallInv, NEW d \in Deployments, N!Unlist(d)
  PROVE  N!InstallInv'
<1> DEFINE at == v1  host == v2  gate == v3  saved == v4  map == v5  config == v6
             routed == v7  contested == v8  troubles == v9
<1>1. N!InstallTypes /\ N!SavedInv /\ N!MapInv /\ N!HostInv /\ N!CopyInv /\ N!RoutedInv
  BY DEF N!InstallInv
<1>2. /\ at[d] \in {"stuck", "installed"} /\ at' = [at EXCEPT ![d] = "removing"]
      /\ saved' = saved \/ saved' = saved \ {d}
      /\ d \in saved' => at[d] = "installed"
      /\ UNCHANGED <<host, map, routed, contested>>
  BY <1>1 DEF N!Unlist, N!GoTo, N!SavedInv
<1>3. N!InstallTypes'
  BY <1>1, <1>2 DEF N!InstallTypes, N!Stages
<1>4. N!SavedInv'
  BY <1>1, <1>2 DEF N!InstallTypes, N!SavedInv
<1>5. N!MapInv'
  BY <1>1, <1>2 DEF N!InstallTypes, N!MapInv
<1>6. N!HostInv'
  BY <1>1, <1>2 DEF N!InstallTypes, N!HostInv, N!Past
<1>7. N!CopyInv'
  BY <1>1, <1>2 DEF N!InstallTypes, N!CopyInv, N!Claims
<1>8. N!RoutedInv'
  BY <1>1, <1>2 DEF N!InstallTypes, N!RoutedInv
<1> QED
  BY <1>3, <1>4, <1>5, <1>6, <1>7, <1>8 DEF N!InstallInv

(* Then its routes. A directory that stayed keeps its host.                 *)
LEMMA UnrouteKeeps ==
  ASSUME N!None \notin Deployments, N!InstallInv, NEW d \in Deployments, N!Unroute(d)
  PROVE  N!InstallInv'
<1> DEFINE at == v1  host == v2  gate == v3  saved == v4  map == v5  config == v6
             routed == v7  contested == v8  troubles == v9
<1>1. N!InstallTypes /\ N!SavedInv /\ N!MapInv /\ N!HostInv /\ N!CopyInv /\ N!RoutedInv
  BY DEF N!InstallInv
<1>2. /\ at[d] = "removing" /\ at' = [at EXCEPT ![d] = "absent"]
      /\ map' = [h \in Hosts |-> IF map[h] = d THEN N!None ELSE map[h]]
      /\ host' = [host EXCEPT ![d] = IF d \in saved THEN host[d] ELSE N!None]
      /\ routed' = routed \ {d} /\ UNCHANGED <<saved, contested>>
  BY DEF N!Unroute, N!GoTo, N!WithoutRoutes
<1>3. N!InstallTypes'
  BY <1>1, <1>2 DEF N!InstallTypes, N!Stages
<1>4. N!SavedInv'
  BY <1>1, <1>2 DEF N!InstallTypes, N!SavedInv
<1>5. N!MapInv'
  BY <1>1, <1>2 DEF N!InstallTypes, N!MapInv
<1>6. N!HostInv'
  BY <1>1, <1>2 DEF N!InstallTypes, N!HostInv, N!Past
<1>7. N!CopyInv'
  BY <1>1, <1>2 DEF N!InstallTypes, N!CopyInv, N!Claims
<1>8. N!RoutedInv'
  BY <1>1, <1>2 DEF N!InstallTypes, N!SavedInv, N!RoutedInv
<1> QED
  BY <1>3, <1>4, <1>5, <1>6, <1>7, <1>8 DEF N!InstallInv

(* A restart brings back what is on disk; what was not listed any more and  *)
(* comes back is noted.                                                     *)
LEMMA RestartKeeps ==
  ASSUME N!None \notin Deployments, N!InstallInv, N!Restart
  PROVE  N!InstallInv'
<1> DEFINE at == v1  host == v2  gate == v3  saved == v4  map == v5  config == v6
             routed == v7  contested == v8  troubles == v9
<1>1. N!InstallTypes /\ N!SavedInv /\ N!MapInv /\ N!HostInv /\ N!CopyInv /\ N!RoutedInv
  BY DEF N!InstallInv
<1>2. /\ at' = [d \in Deployments |-> IF d \in saved THEN "installed" ELSE "absent"]
      /\ host' = [d \in Deployments |-> IF d \in saved THEN host[d] ELSE N!None]
      /\ map' \in [Hosts -> Deployments \cup {N!None}]
      /\ \A h \in Hosts : map'[h] = N!None \/ (map'[h] \in saved /\ host[map'[h]] = h)
      /\ \A d \in saved : host[d] \in Hosts => map'[host[d]] # N!None
      /\ routed' = saved /\ saved' = saved /\ contested \subseteq contested'
  BY <1>1 DEF N!Restart, N!InstallTypes
<1>3. \A d \in saved : at[d] \in {"absent", "removing"} => host[d] \in contested'
  BY DEF N!Restart
<1>4. \A d \in saved \cap Deployments : at[d] \in {"absent", "removing"} => N!Copy \in contested'
  BY DEF N!Restart
<1>5. N!InstallTypes'
  BY <1>1, <1>2 DEF N!InstallTypes, N!Stages
<1>6. N!SavedInv'
  BY <1>1, <1>2 DEF N!InstallTypes, N!SavedInv
<1>7. N!MapInv'
  BY <1>1, <1>2 DEF N!InstallTypes, N!MapInv
<1>8. N!HostInv'
  BY <1>1, <1>2, <1>3 DEF N!InstallTypes, N!HostInv, N!SavedInv, N!Past
<1>9. N!CopyInv'
  BY <1>1, <1>2, <1>4 DEF N!InstallTypes, N!CopyInv, N!SavedInv, N!Claims
<1>10. N!RoutedInv'
  BY <1>1, <1>2, <1>8 DEF N!InstallTypes, N!HostInv, N!SavedInv, N!RoutedInv, N!Past
<1> QED
  BY <1>5, <1>6, <1>7, <1>8, <1>9, <1>10 DEF N!InstallInv

(* The invariant is inductive.                                              *)
LEMMA NextClaims == ASSUME N!None \notin Deployments, N!InstallInv, [N!Next]_(N!vars)
  PROVE N!InstallInv'
<1> DEFINE at == v1  host == v2  gate == v3  saved == v4  map == v5  config == v6
             routed == v7  contested == v8  troubles == v9
<1>1. ASSUME NEW d \in Deployments, NEW h \in Hosts, N!Create(d, h)
      PROVE  N!InstallInv'
  BY <1>1, CreateKeeps
<1>2. ASSUME NEW d \in Deployments, N!CheckHost(d)
      PROVE  N!InstallInv'
  BY <1>2, CheckHostKeeps
<1>3. ASSUME NEW d \in Deployments, N!List(d)
      PROVE  N!InstallInv'
  BY <1>3, ListKeeps
<1>4. ASSUME NEW d \in Deployments, N!Release(d)
      PROVE  N!InstallInv'
  BY <1>4, ReleaseKeeps
<1>5. ASSUME NEW d \in Deployments, N!ProvisionGate(d)
      PROVE  N!InstallInv'
  BY <1>5 DEF N!ProvisionGate, N!InstallInv, N!InstallTypes, N!SavedInv, N!MapInv, N!HostInv,
              N!CopyInv,
              N!RoutedInv, N!Past, N!Claims
<1>6. ASSUME NEW d \in Deployments, N!Rewire(d)
      PROVE  N!InstallInv'
  <2>1. at' = [at EXCEPT ![d] = "installed"] /\ at[d] = "installed"
    BY <1>6 DEF N!Rewire, N!InstallInv, N!InstallTypes
  <2> QED
    BY <1>6, <2>1, ActivateKeeps DEF N!Rewire
<1>7. ASSUME NEW d \in Deployments, N!Unlist(d)
      PROVE  N!InstallInv'
  BY <1>7, UnlistKeeps
<1>8. ASSUME NEW d \in Deployments, N!Unroute(d)
      PROVE  N!InstallInv'
  BY <1>8, UnrouteKeeps
<1>9. CASE N!Restart
  BY <1>9, RestartKeeps
<1>10. CASE UNCHANGED N!vars
  BY <1>10 DEF N!vars, N!InstallInv, N!InstallTypes, N!SavedInv, N!MapInv, N!HostInv, N!CopyInv,
               N!RoutedInv,
               N!Past, N!Claims
<1> QED
  BY <1>1, <1>2, <1>3, <1>4, <1>5, <1>6, <1>7, <1>8, <1>9, <1>10 DEF N!Next

(* ClaimsHold follows from what the map holds and from the pairs.           *)
LEMMA ClaimsFollow == ASSUME N!InstallInv PROVE N!ClaimsHold
<1> DEFINE at == v1  host == v2  gate == v3  saved == v4  map == v5  config == v6
             routed == v7  contested == v8  troubles == v9
<1>1. \A d \in routed : at[d] = "installed" => map[host[d]] = d \/ host[d] \in contested
  BY DEF N!InstallInv, N!RoutedInv
<1>2. \A h \in Hosts : map[h] # N!None => at[map[h]] # "absent"
  BY DEF N!InstallInv, N!MapInv
<1>3. \A d, e \in Deployments \cap N!Listed : d = e \/ N!Copy \in contested
  BY DEF N!InstallInv, N!CopyInv, N!Listed, N!Claims
<1> QED
  BY <1>1, <1>2, <1>3 DEF N!ClaimsHold

(* The inductive invariant of the installs, while they run.                 *)
InstallsInv == which = "installs" => N!InstallInv

(* It holds at first.                                                       *)
LEMMA InitInstalls == Init => InstallsInv
  BY InitClaims DEF Init, InstallsInv

(* It is inductive.                                                         *)
LEMMA NextInstalls == InstallsInv /\ [Next]_vars => InstallsInv'
<1> SUFFICES ASSUME InstallsInv, [Next]_vars, which' = "installs" PROVE N!InstallInv'
  BY DEF InstallsInv
<1>1. which = "installs"
  BY Zenon DEF Next, vars
<1>2. [N!Next]_(N!vars)
  BY <1>1, Zenon DEF Next, vars, N!vars
<1>3. N!InstallInv
  BY <1>1 DEF InstallsInv
<1> QED
  BY <1>2, <1>3, NextClaims, DeploymentsAssumption DEF N!None

(* ClaimsHold: hosts and single copies are held by one install each.        *)
THEOREM ClaimsHoldAlways == Spec => []ClaimsHold
<1>1. InstallsInv => ClaimsHold
  BY ClaimsFollow DEF InstallsInv, ClaimsHold
<1> QED
  BY <1>1, InitInstalls, NextInstalls, PTL DEF Spec

-----------------------------------------------------------------------------
(* The replacement of a data root: its state is finite but for the numbers  *)
(* of calls and failures, so each action is a case distinction over the     *)
(* operations of a move. v1 to v6 are its dir, at, move, crossing, found    *)
(* and excused.                                                             *)
SwapInv == which = "swap" => M!SwapInv

(* It holds at first.                                                       *)
LEMMA InitSwap == Init => SwapInv
<1> SUFFICES ASSUME M!Init PROVE M!SwapInv
  BY Zenon DEF Init, SwapInv
<1> QED
  BY DEF M!Init, M!SwapInv, M!Kinds, M!NotMoving, M!Extracting, M!MovingAside, M!MovingIn, M!MovingBack, M!Whole,
                M!Dirs, M!Content, M!NoMove, M!Moving

(* Every file operation keeps it, and what the call found.                  *)
LEMMA SwapSteps == ASSUME M!SwapInv, M!Next PROVE M!SwapInv' /\ M!Preserving
<1>1. CASE M!Begin
  BY <1>1 DEF M!Begin, M!SwapInv, M!Preserving, M!Kinds, M!NotMoving, M!Extracting, M!MovingAside, M!MovingIn, M!MovingBack, M!Whole,
                M!Dirs, M!Content, M!NoMove, M!Moving
<1>2. CASE M!Extract
  BY <1>2 DEF M!Extract, M!Fault, M!SwapInv, M!Preserving, M!Kinds, M!NotMoving, M!Extracting, M!MovingAside, M!MovingIn, M!MovingBack, M!Whole,
                M!Dirs, M!Content, M!NoMove, M!Moving
<1>3. CASE M!MoveStep
  BY <1>3 DEF M!MoveStep, M!SwapInv, M!Preserving, M!Kinds, M!NotMoving, M!Extracting, M!MovingAside, M!MovingIn, M!MovingBack, M!Whole,
                M!Dirs, M!Content, M!NoMove, M!Moving
<1>4. CASE M!NextMove
  BY <1>4 DEF M!NextMove, M!SwapInv, M!Preserving, M!Kinds, M!NotMoving, M!Extracting, M!MovingAside, M!MovingIn, M!MovingBack, M!Whole,
                M!Dirs, M!Content, M!NoMove, M!Moving
<1>5. CASE M!MoveFails
  <2>1. /\ v3.at \notin {"idle", "moved"} /\ UNCHANGED <<v1, v4, v5>>
        /\ v6' = (v6 \/ v2 = "back" \/ v3.at = "removing")
        /\ IF v2 = "in" /\ v5 # "none"
           THEN v2' = "back" /\ v3' = M!Moving("superseded", "root")
           ELSE v2' = "idle" /\ v3' = M!NoMove
    BY <1>5 DEF M!MoveFails
  <2>2. v2 \in {"aside", "in", "back"}
    BY <2>1 DEF M!SwapInv, M!Kinds, M!NotMoving, M!Extracting, M!NoMove
  <2>3. M!SwapInv'
    BY <2>1, <2>2 DEF M!SwapInv, M!Kinds, M!NotMoving, M!Extracting,
                    M!MovingAside, M!MovingIn, M!MovingBack, M!Whole, M!Dirs, M!Content, M!NoMove, M!Moving
  <2>4. M!Preserving
    BY <2>1, <2>2 DEF M!Preserving, M!SwapInv, M!Kinds, M!NotMoving, M!Extracting,
                    M!MovingAside, M!MovingIn, M!MovingBack, M!Whole, M!Dirs, M!Content, M!NoMove, M!Moving
  <2> QED
    BY <2>3, <2>4
<1>6. CASE M!Crash
  BY <1>6 DEF M!Crash, M!Fault, M!SwapInv, M!Preserving, M!Kinds, M!NotMoving, M!Extracting, M!MovingAside, M!MovingIn, M!MovingBack, M!Whole,
                M!Dirs, M!Content, M!NoMove, M!Moving
<1> QED
  BY <1>1, <1>2, <1>3, <1>4, <1>5, <1>6 DEF M!Next

(* It is inductive.                                                         *)
LEMMA NextSwap == SwapInv /\ [Next]_vars => SwapInv' /\ [which = "swap" => M!Preserving]_vars
<1> SUFFICES ASSUME SwapInv, [Next]_vars, which = "swap" \/ which' = "swap"
             PROVE  M!SwapInv' /\ (M!Preserving \/ UNCHANGED vars)
  BY DEF SwapInv
<1>1. which = "swap"
  BY Zenon DEF Next, vars
<1>2. M!SwapInv
  BY <1>1 DEF SwapInv
<1>3. CASE Next
  <2>1. M!Next
    BY <1>1, <1>3, Zenon DEF Next
  <2> QED
    BY <1>2, <2>1, SwapSteps
<1>4. CASE UNCHANGED vars
  BY <1>2, <1>4 DEF vars, M!SwapInv, M!Kinds, M!NotMoving, M!Extracting, M!MovingAside, M!MovingIn, M!MovingBack, M!Whole,
                M!Dirs, M!Content, M!NoMove, M!Moving
<1> QED
  BY <1>3, <1>4

(* NothingLost: the data a restore found lies whole in one place at every   *)
(* moment, and a restore that throws leaves it where it was, but for the    *)
(* cases the property excepts (snapshot-fs.ts).                             *)
THEOREM NothingLostHolds == Spec => NothingLost
<1>1. SwapInv /\ [Next]_vars => [which = "swap" => M!Preserving]_vars
  BY NextSwap
<1>2. SwapInv /\ [Next]_vars => SwapInv'
  BY NextSwap
<1> QED
  BY <1>1, <1>2, InitSwap, PTL DEF Spec, NothingLost
-----------------------------------------------------------------------------
(* The inductive invariant of the log, while it runs.                       *)
LogsInv == which = "log" => F!LogInv

(* What a sequence holds.                                                   *)
LEMMA Elements == ASSUME NEW A, NEW s \in Seq(A)
                  PROVE  /\ F!ToSet(s) = {s[i] : i \in 1..Len(s)} /\ F!ToSet(s) \subseteq A
                         /\ Len(s) \in Nat
  BY DEF F!ToSet

(* The empty one holds nothing.                                             *)
LEMMA EmptyElements == F!ToSet(<<>>) = {}
  BY DEF F!ToSet

(* What it holds with one more.                                             *)
LEMMA AppendElements == ASSUME NEW A, NEW s \in Seq(A), NEW x \in A
                        PROVE  Append(s, x) \in Seq(A) /\ F!ToSet(Append(s, x)) = F!ToSet(s) \cup {x}
<1> DEFINE t == Append(s, x)
<1>1. t \in Seq(A) /\ Len(t) = Len(s) + 1 /\ Len(s) \in Nat
      /\ (\A i \in 1..Len(s) : t[i] = s[i]) /\ t[Len(s) + 1] = x
  OBVIOUS
<1>2. F!ToSet(t) = {t[i] : i \in 1..Len(t)} /\ F!ToSet(s) = {s[i] : i \in 1..Len(s)}
  BY <1>1, Elements
<1>3. \A i \in 1..Len(t) : i \in 1..Len(s) \/ i = Len(s) + 1
  BY <1>1
<1>4. Len(s) + 1 \in 1..Len(t) /\ 1..Len(s) \subseteq 1..Len(t)
  BY <1>1
<1> HIDE DEF t
<1>5. F!ToSet(t) \subseteq F!ToSet(s) \cup {x}
  BY <1>1, <1>2, <1>3
<1>6. F!ToSet(s) \cup {x} \subseteq F!ToSet(t)
  BY <1>1, <1>2, <1>4
<1> QED
  BY <1>1, <1>5, <1>6 DEF t

(* What two of them hold one after the other.                               *)
LEMMA JoinedElements == ASSUME NEW A, NEW s \in Seq(A), NEW t \in Seq(A)
                        PROVE  s \o t \in Seq(A) /\ F!ToSet(s \o t) = F!ToSet(s) \cup F!ToSet(t)
<1> DEFINE u == s \o t
<1>1. /\ u \in Seq(A) /\ Len(u) = Len(s) + Len(t) /\ Len(s) \in Nat /\ Len(t) \in Nat
      /\ \A i \in 1..Len(s) : u[i] = s[i]
      /\ \A i \in 1..Len(t) : u[Len(s) + i] = t[i]
  OBVIOUS
<1>2. /\ F!ToSet(u) = {u[i] : i \in 1..Len(u)} /\ F!ToSet(s) = {s[i] : i \in 1..Len(s)}
      /\ F!ToSet(t) = {t[i] : i \in 1..Len(t)}
  BY <1>1, Elements
<1>3. \A i \in 1..Len(u) : i \in 1..Len(s) \/ \E j \in 1..Len(t) : i = Len(s) + j
  <2> SUFFICES ASSUME NEW i \in 1..Len(u), i \notin 1..Len(s)
               PROVE  i - Len(s) \in 1..Len(t) /\ i = Len(s) + (i - Len(s))
    OBVIOUS
  <2> QED
    BY <1>1
<1>4. (\A j \in 1..Len(t) : Len(s) + j \in 1..Len(u)) /\ 1..Len(s) \subseteq 1..Len(u)
  BY <1>1
<1> HIDE DEF u
<1>5. F!ToSet(u) \subseteq F!ToSet(s) \cup F!ToSet(t)
  <2> SUFFICES ASSUME NEW i \in 1..Len(u) PROVE u[i] \in F!ToSet(s) \cup F!ToSet(t)
    BY <1>2
  <2>1. CASE i \in 1..Len(s)
    BY <1>1, <1>2, <2>1
  <2>2. CASE i \notin 1..Len(s)
    <3>1. PICK j \in 1..Len(t) : i = Len(s) + j
      BY <1>3, <2>2
    <3> QED
      BY <1>1, <1>2, <3>1
  <2> QED
    BY <2>1, <2>2
<1>6. F!ToSet(s) \cup F!ToSet(t) \subseteq F!ToSet(u)
  BY <1>1, <1>2, <1>4
<1> QED
  BY <1>1, <1>5, <1>6 DEF u

(* Two in order are in order when the first comes before the second.        *)
LEMMA JoinedOrder == ASSUME NEW s \in Seq(F!Numbers), NEW t \in Seq(F!Numbers), NEW excused,
                            F!InOrder(s, excused), F!InOrder(t, excused), F!Before(s, t, excused)
                     PROVE  F!InOrder(s \o t, excused)
<1> DEFINE u == s \o t
<1>1. /\ u \in Seq(F!Numbers) /\ Len(u) = Len(s) + Len(t) /\ Len(s) \in Nat /\ Len(t) \in Nat
      /\ \A i \in 1..Len(s) : u[i] = s[i]
      /\ \A i \in 1..Len(t) : u[Len(s) + i] = t[i]
  OBVIOUS
<1>2. \A i \in 1..Len(u) : i \in 1..Len(s) \/ \E j \in 1..Len(t) : i = Len(s) + j
  <2> SUFFICES ASSUME NEW i \in 1..Len(u), i \notin 1..Len(s)
               PROVE  i - Len(s) \in 1..Len(t) /\ i = Len(s) + (i - Len(s))
    OBVIOUS
  <2> QED
    BY <1>1
<1> HIDE DEF u
<1>3. F!ToSet(s) = {s[i] : i \in 1..Len(s)} /\ F!ToSet(t) = {t[i] : i \in 1..Len(t)}
  BY Elements
<1> SUFFICES ASSUME NEW i \in 1..Len(u), NEW j \in 1..Len(u), i < j
             PROVE  u[i] < u[j] \/ u[j] \in excused
  BY DEF F!InOrder, u
<1>4. CASE i \in 1..Len(s) /\ j \in 1..Len(s)
  BY <1>1, <1>4 DEF F!InOrder
<1>5. CASE i \in 1..Len(s) /\ j \notin 1..Len(s)
  <2>1. PICK m \in 1..Len(t) : j = Len(s) + m
    BY <1>2, <1>5
  <2>2. u[i] \in F!ToSet(s) /\ u[j] \in F!ToSet(t)
    BY <1>1, <1>3, <1>5, <2>1
  <2> QED
    BY <2>2 DEF F!Before
<1>6. CASE i \notin 1..Len(s)
  <2>1. PICK l \in 1..Len(t) : i = Len(s) + l
    BY <1>2, <1>6
  <2>2. j \notin 1..Len(s)
    BY <1>1, <1>6
  <2>3. PICK m \in 1..Len(t) : j = Len(s) + m
    BY <1>2, <2>2
  <2>4. l < m /\ u[i] = t[l] /\ u[j] = t[m]
    BY <1>1, <2>1, <2>3
  <2> QED
    BY <2>4 DEF F!InOrder
<1> QED
  BY <1>4, <1>5, <1>6

(* The first entries are in order, and before all of them but for themselves.*)
LEMMA FirstElements == ASSUME NEW s \in Seq(F!Numbers), NEW k \in 0..Len(s), NEW excused,
                              F!InOrder(s, excused)
                       PROVE  LET u == SubSeq(s, 1, k) IN
                              /\ u \in Seq(F!Numbers) /\ F!ToSet(u) \subseteq F!ToSet(s)
                              /\ F!InOrder(u, excused)
                              /\ F!Before(u, s, excused \cup F!ToSet(u))
<1> DEFINE u == SubSeq(s, 1, k)
<1>1. u \in Seq(F!Numbers) /\ Len(u) = k /\ Len(s) \in Nat /\ \A i \in 1..k : u[i] = s[i]
  OBVIOUS
<1>2. F!ToSet(s) = {s[i] : i \in 1..Len(s)} /\ F!ToSet(u) = {u[i] : i \in 1..Len(u)}
  BY <1>1, Elements
<1>3. 1..k \subseteq 1..Len(s)
  BY <1>1
<1> HIDE DEF u
<1>4. F!ToSet(u) \subseteq F!ToSet(s)
  BY <1>1, <1>2, <1>3
<1>5. F!InOrder(u, excused)
  BY <1>1, <1>3 DEF F!InOrder
<1>6. F!Before(u, s, excused \cup F!ToSet(u))
  <2> SUFFICES ASSUME NEW x \in F!ToSet(u), NEW y \in F!ToSet(s)
               PROVE  x < y \/ y \in excused \cup F!ToSet(u)
    BY DEF F!Before
  <2>1. PICK i \in 1..k : x = s[i]
    BY <1>1, <1>2
  <2>2. PICK j \in 1..Len(s) : y = s[j]
    BY <1>2
  <2>3. CASE j \in 1..k
    BY <1>1, <1>2, <2>2, <2>3
  <2>4. CASE i < j
    BY <1>1, <1>3, <2>1, <2>2, <2>4 DEF F!InOrder
  <2> QED
    BY <1>1, <2>3, <2>4
<1> QED
  BY <1>1, <1>4, <1>5, <1>6 DEF u

(* What the invariant of the log says of the log.                           *)
LEMMA LogFollows == ASSUME F!LogInv PROVE F!LogKept
<1> DEFINE logged == v1  buffer == v2  chain == v3  at == v4  batch == v5  disk == v6  size ==
             v7  returned == v8  refused == v9  torn == v10  lost == v11  troubles == v12
<1>1. /\ disk \in Seq(F!Numbers) /\ batch \in Seq(F!Numbers) /\ buffer \in Seq(F!Numbers)
      /\ F!ToSet(disk) \cup F!ToSet(batch) \cup F!ToSet(buffer) \cup lost = 1..logged
  BY DEF F!LogInv, F!Shapes
<1>2. disk \o batch \in Seq(F!Numbers) /\ F!ToSet(disk \o batch) = F!ToSet(disk) \cup F!ToSet(batch)
  BY <1>1, JoinedElements
<1>3. F!ToSet((disk \o batch) \o buffer) = F!ToSet(disk) \cup F!ToSet(batch) \cup F!ToSet(buffer)
  <2> DEFINE front == disk \o batch
  <2> HIDE DEF front
  <2>1. front \in Seq(F!Numbers)
    BY <1>2 DEF front
  <2>2. F!ToSet(front \o buffer) = F!ToSet(front) \cup F!ToSet(buffer)
    BY <1>1, <2>1, JoinedElements
  <2> QED
    BY <1>2, <2>2 DEF front
<1>4. F!InOrder(disk \o batch, torn)
  BY <1>1, JoinedOrder DEF F!LogInv, F!Order
<1>5. F!Before(disk \o batch, buffer, torn)
  BY <1>2 DEF F!LogInv, F!Order, F!Before
<1>6. F!InOrder((disk \o batch) \o buffer, torn)
  BY <1>1, <1>2, <1>4, <1>5, JoinedOrder DEF F!LogInv, F!Order
<1> QED
  BY <1>1, <1>3, <1>6 DEF F!LogInv, F!Awaited, F!LogKept

(* It holds at first.                                                       *)
LEMMA FirstLog == ASSUME F!Init PROVE F!LogInv
<1> DEFINE logged == v1  buffer == v2  chain == v3  at == v4  batch == v5  disk == v6  size ==
             v7  returned == v8  refused == v9  torn == v10  lost == v11  troubles == v12
<1>1. F!ToSet(<<>>) = {} /\ <<>> \in Seq(F!Numbers) /\ <<>> \in Seq(F!Callers)
  BY EmptyElements
<1>2. 1..0 = {}
  OBVIOUS
<1>3. F!Shapes
  BY <1>1, <1>2, EntriesAssumption DEF F!Init, F!Shapes, F!files, F!ghosts
<1>4. F!Order
  BY <1>1 DEF F!Init, F!Order, F!InOrder, F!Before, F!files, F!ghosts
<1>5. F!Awaited
  BY <1>1 DEF F!Init, F!Awaited, F!files, F!ghosts
<1> QED
  BY <1>3, <1>4, <1>5 DEF F!LogInv

(* Every step of the log keeps it.                                          *)
LEMMA LogSteps == ASSUME F!LogInv, F!Next PROVE F!LogInv'
<1> DEFINE logged == v1  buffer == v2  chain == v3  at == v4  batch == v5  disk == v6  size ==
             v7  returned == v8  refused == v9  torn == v10  lost == v11  troubles == v12
<1>0. /\ MaxEntries \in Nat
      /\ logged \in 0..MaxEntries /\ disk \in Seq(F!Numbers) /\ batch \in Seq(F!Numbers)
      /\ buffer \in Seq(F!Numbers) /\ chain \in Seq(F!Callers)
      /\ F!ToSet(disk) \cup F!ToSet(batch) \cup F!ToSet(buffer) \cup lost = 1..logged
      /\ F!Order /\ F!Awaited
  BY EntriesAssumption DEF F!LogInv, F!Shapes
<1>00. F!ToSet(<<>>) = {} /\ <<>> \in Seq(F!Numbers) /\ <<>> \in Seq(F!Callers)
  BY EmptyElements
<1>1. ASSUME NEW error \in BOOLEAN, F!Log(error) PROVE F!LogInv'
  <2> DEFINE e == logged + 1
  <2>1. /\ e \in F!Numbers /\ logged' = e /\ buffer' = Append(buffer, e)
        /\ chain' = IF error THEN Append(chain, e) ELSE chain
        /\ UNCHANGED <<at, batch, disk, size, returned, refused, torn, lost>>
    BY <1>0, <1>1 DEF F!Log, F!files, F!ghosts, F!Numbers
  <2>2. buffer' \in Seq(F!Numbers) /\ F!ToSet(buffer') = F!ToSet(buffer) \cup {e}
    BY <1>0, <2>1, AppendElements
  <2>3. chain' \in Seq(F!Callers) /\ F!ToSet(chain') \subseteq F!ToSet(chain) \cup {e}
    BY <1>0, <2>1, AppendElements DEF F!Callers
  <2>4. 1..logged' = 1..logged \cup {e}
    BY <1>0, <2>1
  <2>5. F!Shapes'
    BY <1>0, <2>1, <2>2, <2>3, <2>4 DEF F!Shapes, F!Numbers
  <2>6. \A x \in 1..logged : x < e
    BY <1>0
  <2>7. F!InOrder(buffer', torn)
    <3>1. Len(buffer') = Len(buffer) + 1 /\ Len(buffer) \in Nat /\ buffer'[Len(buffer) + 1] = e
          /\ \A i \in 1..Len(buffer) : buffer'[i] = buffer[i] /\ buffer[i] \in F!ToSet(buffer)
      BY <1>0, <2>1, Elements
    <3> SUFFICES ASSUME NEW i \in 1..Len(buffer'), NEW j \in 1..Len(buffer'), i < j
                 PROVE  buffer'[i] < buffer'[j] \/ buffer'[j] \in torn
      BY DEF F!InOrder
    <3>2. i \in 1..Len(buffer)
      BY <3>1
    <3>3. CASE j \in 1..Len(buffer)
      BY <1>0, <3>1, <3>2, <3>3 DEF F!InOrder, F!Order
    <3>4. CASE j = Len(buffer) + 1
      <4>1. buffer[i] \in 1..logged
        BY <1>0, <3>1, <3>2
      <4> QED
        BY <2>6, <3>1, <3>2, <3>4, <4>1
    <3> QED
      BY <3>1, <3>3, <3>4
  <2>8. F!Order'
    BY <1>0, <2>1, <2>2, <2>6, <2>7 DEF F!Order, F!Before
  <2>9. F!Awaited'
    <3>1. chain # <<>> => chain' # <<>> /\ Head(chain') = Head(chain)
      BY <1>0, <2>1
    <3> QED
      BY <1>0, <2>1, <2>3, <2>4, <3>1 DEF F!Awaited
  <2> QED
    BY <2>5, <2>8, <2>9 DEF F!LogInv
<1>2. CASE F!Tick
  <2>1. chain' = Append(chain, F!Timer)
        /\ UNCHANGED <<logged, buffer, at, batch, disk, size, returned, refused, torn, lost>>
    BY <1>2 DEF F!Tick, F!files, F!ghosts
  <2>2. chain' \in Seq(F!Callers) /\ F!ToSet(chain') = F!ToSet(chain) \cup {F!Timer}
    BY <1>0, <2>1, AppendElements DEF F!Callers
  <2>3. chain # <<>> => chain' # <<>> /\ Head(chain') = Head(chain)
    BY <1>0, <2>1
  <2>4. F!Timer \notin F!Numbers
    BY DEF F!Timer, F!Numbers
  <2>5. F!Shapes' /\ F!Order'
    BY <1>0, <2>1, <2>2 DEF F!Shapes, F!Order
  <2>6. F!Awaited'
    BY <1>0, <2>1, <2>2, <2>3, <2>4 DEF F!Awaited
  <2> QED
    BY <2>5, <2>6 DEF F!LogInv
<1>3. CASE F!Drain
  <2>1. /\ at = "idle" /\ chain # <<>> /\ at' = "sizing" /\ batch' = buffer /\ buffer' = <<>>
        /\ UNCHANGED <<logged, chain, disk, size, returned, refused, torn, lost>>
    BY <1>3 DEF F!Drain, F!files, F!ghosts
  <2>2. batch = <<>>
    BY <1>0, <2>1 DEF F!Awaited
  <2>3. F!Shapes'
    BY <1>0, <1>00, <2>1, <2>2 DEF F!Shapes
  <2>4. F!Order'
    BY <1>0, <1>00, <2>1 DEF F!Order, F!Before, F!InOrder
  <2>5. Head(chain) \in F!ToSet(chain)
    BY <1>0, <2>1, Elements
  <2>6. F!Awaited'
    BY <1>0, <1>00, <2>1, <2>2, <2>5 DEF F!Awaited
  <2> QED
    BY <2>3, <2>4, <2>6 DEF F!LogInv
<1>4. ASSUME F!Settle, chain # <<>>
      PROVE  /\ chain' \in Seq(F!Callers) /\ F!ToSet(chain') \subseteq F!ToSet(chain)
             /\ at' = "idle" /\ batch' = <<>> /\ returned' = returned \cup ({Head(chain)} \cap F!Numbers)
             /\ Head(chain) \in F!ToSet(chain)
  <2>1. /\ chain' \in Seq(F!Callers) /\ Len(chain) \in Nat \ {0} /\ Len(chain') = Len(chain) - 1
        /\ \A i \in 1..Len(chain') : chain'[i] = chain[i + 1]
    BY <1>0, <1>4 DEF F!Settle
  <2>2. /\ F!ToSet(chain) = {chain[i] : i \in 1..Len(chain)}
        /\ F!ToSet(chain') = {chain'[i] : i \in 1..Len(chain')}
    BY <1>0, <2>1, Elements
  <2>3. \A i \in 1..Len(chain') : i + 1 \in 1..Len(chain)
    BY <2>1
  <2>4. Head(chain) = chain[1] /\ 1 \in 1..Len(chain)
    BY <1>0, <1>4, <2>1
  <2>5. F!ToSet(chain') \subseteq F!ToSet(chain)
    BY <2>1, <2>2, <2>3
  <2> QED
    BY <1>4, <2>1, <2>2, <2>4, <2>5 DEF F!Settle
<1>5. CASE F!DrainNothing
  <2>1. /\ at = "idle" /\ chain # <<>> /\ buffer = <<>> /\ F!Settle
        /\ UNCHANGED <<logged, buffer, disk, size, refused, torn, lost>>
    BY <1>5 DEF F!DrainNothing, F!files
  <2>2. batch = <<>>
    BY <1>0, <2>1 DEF F!Awaited
  <2>3. F!Shapes' /\ F!Order'
    BY <1>0, <1>4, <2>1, <2>2 DEF F!Shapes, F!Order
  <2>4. F!Awaited'
    BY <1>0, <1>00, <1>4, <2>1, <2>2 DEF F!Awaited
  <2> QED
    BY <2>3, <2>4 DEF F!LogInv
<1>6. CASE F!CheckRotation
  <2>1. /\ at = "sizing" /\ at' \in {"rotating", "appending"}
        /\ chain' = Append(chain, F!Rotation) \/ chain' = chain
        /\ UNCHANGED <<logged, buffer, batch, disk, size, returned, refused, torn, lost>>
    BY <1>6 DEF F!CheckRotation, F!files, F!ghosts
  <2>2. chain' \in Seq(F!Callers) /\ F!ToSet(chain') \subseteq F!ToSet(chain) \cup {F!Rotation}
    <3>1. Append(chain, F!Rotation) \in Seq(F!Callers)
          /\ F!ToSet(Append(chain, F!Rotation)) = F!ToSet(chain) \cup {F!Rotation}
      BY <1>0, AppendElements DEF F!Callers
    <3> QED
      BY <1>0, <2>1, <3>1
  <2>3. chain # <<>> => chain' # <<>> /\ Head(chain') = Head(chain)
    BY <1>0, <2>1
  <2>4. F!Rotation \notin F!Numbers
    BY EntriesAssumption DEF F!Rotation, F!Numbers
  <2>5. F!Shapes' /\ F!Order'
    BY <1>0, <2>1, <2>2 DEF F!Shapes, F!Order
  <2>6. F!Awaited'
    BY <1>0, <2>1, <2>2, <2>3, <2>4 DEF F!Awaited
  <2> QED
    BY <2>5, <2>6 DEF F!LogInv
<1>7. CASE F!AppendBatch
  <2>1. /\ at = "appending" /\ disk' = disk \o batch /\ F!Settle
        /\ UNCHANGED <<logged, buffer, refused, torn, lost>>
    BY <1>7 DEF F!AppendBatch
  <2>2. chain # <<>>
    BY <1>0, <2>1 DEF F!Awaited
  <2>3. disk' \in Seq(F!Numbers) /\ F!ToSet(disk') = F!ToSet(disk) \cup F!ToSet(batch)
    BY <1>0, <2>1, JoinedElements
  <2>4. F!Shapes'
    BY <1>0, <1>00, <1>4, <2>1, <2>2, <2>3 DEF F!Shapes
  <2>5. F!InOrder(disk', torn)
    BY <1>0, <2>1, JoinedOrder DEF F!Order
  <2>6. F!Order'
    BY <1>0, <1>00, <1>4, <2>1, <2>2, <2>3, <2>5 DEF F!Order, F!Before, F!InOrder
  <2>7. F!Awaited'
    BY <1>0, <1>4, <2>1, <2>2, <2>3 DEF F!Awaited
  <2> QED
    BY <2>4, <2>6, <2>7 DEF F!LogInv
<1>8. ASSUME NEW k \in 0..Len(batch), F!Fail(k) PROVE F!LogInv'
  <2> DEFINE part == SubSeq(batch, 1, k)
  <2>1. /\ at # "idle" /\ disk' = disk \o part /\ buffer' = batch \o buffer /\ F!Settle
        /\ refused' = refused \cup F!ToSet(batch) /\ torn' = torn \cup F!ToSet(part)
        /\ UNCHANGED <<logged, lost>>
    BY <1>8 DEF F!Fail
  <2>2. /\ part \in Seq(F!Numbers) /\ F!ToSet(part) \subseteq F!ToSet(batch) /\ F!InOrder(part, torn)
        /\ F!Before(part, batch, torn \cup F!ToSet(part))
    BY <1>0, FirstElements DEF F!Order
  <2> HIDE DEF part
  <2>3. chain # <<>>
    BY <1>0, <2>1 DEF F!Awaited
  <2>4. disk' \in Seq(F!Numbers) /\ F!ToSet(disk') = F!ToSet(disk) \cup F!ToSet(part)
    BY <1>0, <2>1, <2>2, JoinedElements
  <2>5. buffer' \in Seq(F!Numbers) /\ F!ToSet(buffer') = F!ToSet(batch) \cup F!ToSet(buffer)
    BY <1>0, <2>1, JoinedElements
  <2>6. F!Shapes'
    BY <1>0, <1>00, <1>4, <2>1, <2>2, <2>3, <2>4, <2>5 DEF F!Shapes
  <2>7. F!InOrder(disk', torn')
    <3>1. F!InOrder(disk, torn') /\ F!InOrder(part, torn') /\ F!Before(disk, part, torn')
      BY <1>0, <2>1, <2>2 DEF F!Order, F!InOrder, F!Before
    <3> QED
      BY <1>0, <2>1, <2>2, <3>1, JoinedOrder
  <2>8. F!InOrder(buffer', torn')
    <3>1. F!InOrder(batch, torn') /\ F!InOrder(buffer, torn') /\ F!Before(batch, buffer, torn')
      BY <1>0, <2>1 DEF F!Order, F!InOrder, F!Before
    <3> QED
      BY <1>0, <2>1, <3>1, JoinedOrder
  <2>9. F!Before(disk', buffer', torn')
    BY <1>0, <2>1, <2>2, <2>4, <2>5 DEF F!Order, F!Before
  <2>10. F!Order'
    BY <1>00, <1>4, <2>1, <2>3, <2>7, <2>8, <2>9 DEF F!Order, F!Before, F!InOrder
  <2>11. F!Awaited'
    BY <1>0, <1>4, <2>1, <2>3, <2>4 DEF F!Awaited
  <2> QED
    BY <2>6, <2>10, <2>11 DEF F!LogInv
<1>9. CASE F!Restart
  <2>1. /\ lost' = lost \cup F!ToSet(buffer) \cup F!ToSet(batch)
        /\ buffer' = <<>> /\ chain' = <<>> /\ at' = "idle" /\ batch' = <<>>
        /\ UNCHANGED <<logged, disk, returned, refused, torn>>
    BY <1>9 DEF F!Restart
  <2>2. F!Shapes'
    BY <1>0, <1>00, <2>1 DEF F!Shapes
  <2>3. F!Order'
    BY <1>0, <1>00, <2>1 DEF F!Order, F!Before, F!InOrder
  <2>4. F!Awaited'
    BY <1>0, <1>00, <2>1 DEF F!Awaited
  <2> QED
    BY <2>2, <2>3, <2>4 DEF F!LogInv
<1> QED
  BY <1>1, <1>2, <1>3, <1>5, <1>6, <1>7, <1>8, <1>9 DEF F!Next, F!FlushStep

(* The invariant holds at first, whichever component runs.                  *)
LEMMA InitLogs == Init => LogsInv
<1> SUFFICES ASSUME F!Init PROVE F!LogInv
  BY Zenon DEF Init, LogsInv
<1> QED
  BY FirstLog

(* It is inductive.                                                         *)
LEMMA NextLogs == LogsInv /\ [Next]_vars => LogsInv'
<1> SUFFICES ASSUME LogsInv, [Next]_vars, which' = "log" PROVE F!LogInv'
  BY DEF LogsInv
<1>1. which = "log"
  BY Zenon DEF Next, vars
<1>2. F!LogInv
  BY <1>1 DEF LogsInv
<1>3. CASE Next
  <2>1. F!Next
    BY <1>1, <1>3, Zenon DEF Next
  <2> QED
    BY <1>2, <2>1, LogSteps
<1>4. CASE UNCHANGED vars
  BY <1>2, <1>4 DEF vars, F!LogInv, F!Shapes, F!Order, F!Awaited, F!InOrder, F!Before
<1> QED
  BY <1>3, <1>4

(* LogKept: between the files, the flush that runs and the buffer no entry  *)
(* is lost, doubled or out of order, and an error whose log call returned   *)
(* is on disk, but for the cases the property excepts (file-logger.ts).     *)
THEOREM LogKeptHolds == Spec => []LogKept
<1>1. LogsInv => LogKept
  BY LogFollows DEF LogsInv, LogKept
<1> QED
  BY <1>1, InitLogs, NextLogs, PTL DEF Spec
-----------------------------------------------------------------------------
(* The inductive invariant of a choice of what to restore, while it runs.   *)
ChoicesInv == which = "choice" => H!ChoiceInv

(* What a judgement that refuses nothing has found.                         *)
LEMMA Passed == ASSUME NEW seen, H!Judged(seen) = "none"
                PROVE  LET skew    == H!Skew(H!VersionOf(seen.marker), v2.rules)
                           carried == v6.carry /\ seen.carries
                       IN  /\ H!Unavailable = "none" /\ ~H!Refused(skew)
                           /\ ~carried => "env-not-carried" \in v6.acks /\ ~v2.requiresEnv
                           /\ skew = "unknown" => "version-unknown" \in v6.acks
                           /\ H!Inferred => "inferred-identity" \in v6.acks
<1> DEFINE app == v2  choice == v6
           skew == H!Skew(H!VersionOf(seen.marker), app.rules)
           carried == choice.carry /\ seen.carries
<1>1. /\ H!Unavailable = "none" /\ ~H!Refused(skew) /\ ~(app.requiresEnv /\ ~carried)
      /\ H!Required(skew, carried) \subseteq choice.acks
  <2> HIDE DEF skew, carried
  <2>1. H!Judged(seen) =
          IF H!Unavailable # "none" THEN H!Unavailable
          ELSE IF H!Refused(skew) THEN skew
          ELSE IF app.requiresEnv /\ ~carried THEN "env-required"
          ELSE IF ~(H!Required(skew, carried) \subseteq choice.acks) THEN "ack-required"
          ELSE "none"
    BY DEF H!Judged, skew, carried
  <2> QED
    BY <2>1 DEF H!Refused
<1>2. \A c \in H!Required(skew, carried) : c \in choice.acks
  BY <1>1
<1> QED
  BY <1>1, <1>2 DEF H!Required, H!Codes

(* A version that is known and not refused can be upgraded to the target.   *)
LEMMA SkewMeans == ASSUME NEW version \in Nat \ {0}, NEW known,
                          ~H!Refused(H!Skew(version, known))
                   PROVE  H!Skew(version, known) = "unknown" \/ H!Upgradable(version)
  BY VersionsAssumption DEF H!Skew, H!Refused, H!Upgradable, H!None

(* Every step keeps the invariant.                                          *)
LEMMA ChoiceSteps == ASSUME H!ChoiceInv, H!Next PROVE H!ChoiceInv'
<1> DEFINE origin == v1  app == v2  source == v3  capture == v4  listing == v5  choice == v6
             draft == v7  install == v8  stale == v9  unmarked == v10  changes == v11  troubles == v12
<1>0. /\ Captured \subseteq Nat \ {0} /\ Target \in Nat /\ Waypoints[Target] \subseteq Nat
      /\ H!Shapes /\ H!RecordsTrue /\ H!StillTrue /\ H!EnvironmentTrue /\ H!AcceptedTrue
      /\ H!RestoresWhatWasAccepted /\ H!RefusedForAReason
  BY VersionsAssumption DEF H!ChoiceInv
<1>1. CASE H!SourceBegins
  <2>1. H!Shapes'
    <3>1. source' \in H!Sources
      BY <1>0, <1>1 DEF H!SourceBegins, H!Shapes, H!fixed, H!Looks, H!Changed, H!Sources
    <3> QED
      BY <1>0, <1>1, <3>1 DEF H!SourceBegins, H!Shapes, H!fixed, H!Looks, H!Changed, H!Codes
  <2>2. H!RecordsTrue'
    BY <1>0, <1>1 DEF H!SourceBegins, H!fixed, H!Looks, H!Changed, H!None, H!RecordsTrue, H!Shapes,
                      H!Settled
  <2>3. H!StillTrue'
    BY <1>0, <1>1 DEF H!SourceBegins, H!fixed, H!Looks, H!Changed, H!StillTrue, H!ReadTrue,
                      H!Shapes, H!Unavailable, H!CarriesEnv, H!VersionOf, H!Judged, H!Required
  <2>4. H!EnvironmentTrue'
    <3>1. source'.env = source.env /\ source.status # "gone"
      BY <1>0, <1>1 DEF H!SourceBegins, H!Shapes, H!Sources, H!Settled
    <3> QED
      BY <1>0, <1>1, <3>1 DEF H!SourceBegins, H!Looks, H!fixed, H!EnvironmentTrue, H!Provided,
                              H!Unprovided
  <2>5. H!AcceptedTrue'
    BY <1>0, <1>1 DEF H!SourceBegins, H!fixed, H!Looks, H!Changed, H!None, H!AcceptedTrue,
                      H!Accepts, H!Provided, H!Unprovided, H!Shapes, H!Sources, H!Looking,
                      H!StillTrue
  <2>6. H!RestoresWhatWasAccepted'
    BY <1>0, <1>1 DEF H!SourceBegins, H!fixed, H!Looks, H!Changed, H!None,
                      H!RestoresWhatWasAccepted, H!Shapes
  <2>7. H!RefusedForAReason'
    BY <1>0, <1>1 DEF H!SourceBegins, H!fixed, H!Looks, H!Changed, H!RefusedForAReason, H!Shapes
  <2> QED
    BY <2>1, <2>2, <2>3, <2>4, <2>5, <2>6, <2>7 DEF H!ChoiceInv
<1>2. CASE H!SourceStarts
  <2>1. H!Shapes'
    <3>3. source' \in H!Sources
      <4>1. source \in H!Sources /\ source.next \in Captured
        BY <1>0 DEF H!Shapes, H!Sources
      <4>2. [source EXCEPT !.data = source.next] \in H!Sources
        BY <4>1 DEF H!Sources
      <4>3. [source EXCEPT !.data = source.next, !.marker = source.next, !.env = source.next] \in H!Sources
        BY <4>1 DEF H!Sources
      <4> QED
        BY <1>2, <4>2, <4>3 DEF H!SourceStarts
    <3> QED
      BY <1>0, <1>2, <3>3 DEF H!SourceStarts, H!Shapes, H!fixed, H!Looks
  <2>2. H!RecordsTrue'
    BY <1>0, <1>2 DEF H!SourceStarts, H!fixed, H!Looks, H!None, H!RecordsTrue, H!Shapes, H!Sources,
                      H!Settled
  <2>3. H!StillTrue'
    BY <1>0, <1>2 DEF H!SourceStarts, H!fixed, H!Looks, H!StillTrue, H!ReadTrue, H!Shapes,
                      H!Unavailable, H!CarriesEnv, H!VersionOf, H!Judged, H!Required
  <2>4. H!EnvironmentTrue'
    BY <1>0, <1>2 DEF H!SourceStarts, H!fixed, H!Looks, H!None, H!EnvironmentTrue, H!Provided,
                      H!Unprovided, H!Shapes, H!Sources, H!Looking
  <2>5. H!AcceptedTrue'
    BY <1>0, <1>2 DEF H!SourceStarts, H!fixed, H!Looks, H!Trouble, H!None, H!AcceptedTrue,
                      H!Accepts, H!Provided, H!Unprovided, H!Shapes, H!Sources, H!Looking,
                      H!StillTrue
  <2>6. H!RestoresWhatWasAccepted'
    BY <1>0, <1>2 DEF H!SourceStarts, H!fixed, H!Looks, H!RestoresWhatWasAccepted
  <2>7. H!RefusedForAReason'
    BY <1>0, <1>2 DEF H!SourceStarts, H!fixed, H!Looks, H!RefusedForAReason
  <2> QED
    BY <2>1, <2>2, <2>3, <2>4, <2>5, <2>6, <2>7 DEF H!ChoiceInv
<1>3. CASE H!SourceSettles
  <2>1. H!Shapes'
    <3>1. source' \in H!Sources
      BY <1>0, <1>3 DEF H!SourceSettles, H!Shapes, H!fixed, H!Looks, H!None, H!Sources, H!Settled
    <3> QED
      BY <1>0, <1>3, <3>1 DEF H!SourceSettles, H!Shapes, H!fixed, H!Looks
  <2>2. H!RecordsTrue'
    BY <1>0, <1>3 DEF H!SourceSettles, H!fixed, H!Looks, H!None, H!RecordsTrue, H!Shapes, H!Sources,
                      H!Settled
  <2>3. H!StillTrue'
    BY <1>0, <1>3 DEF H!SourceSettles, H!fixed, H!Looks, H!None, H!StillTrue, H!ReadTrue, H!Shapes,
                      H!Sources, H!Looking, H!Listings, H!Unavailable, H!CarriesEnv, H!VersionOf,
                      H!Judged, H!Required, H!Inferred, H!Settled
  <2>4. H!EnvironmentTrue'
    BY <1>0, <1>3 DEF H!SourceSettles, H!fixed, H!Looks, H!None, H!EnvironmentTrue, H!Provided,
                      H!Unprovided, H!Shapes, H!Sources, H!Looking
  <2>5. H!AcceptedTrue'
    BY <1>0, <1>3 DEF H!SourceSettles, H!fixed, H!Looks, H!None, H!AcceptedTrue, H!Accepts,
                      H!Provided, H!Unprovided, H!Shapes, H!Sources, H!Looking, H!StillTrue
  <2>6. H!RestoresWhatWasAccepted'
    BY <1>0, <1>3 DEF H!SourceSettles, H!fixed, H!Looks, H!RestoresWhatWasAccepted
  <2>7. H!RefusedForAReason'
    BY <1>0, <1>3 DEF H!SourceSettles, H!fixed, H!Looks, H!RefusedForAReason
  <2> QED
    BY <2>1, <2>2, <2>3, <2>4, <2>5, <2>6, <2>7 DEF H!ChoiceInv
<1>4. CASE H!SourceRetried
  <2>1. H!Shapes'
    <3>1. source' \in H!Sources
      BY <1>0, <1>4 DEF H!SourceRetried, H!Shapes, H!fixed, H!Looks, H!Sources
    <3> QED
      BY <1>0, <1>4, <3>1 DEF H!SourceRetried, H!Shapes, H!fixed, H!Looks
  <2>2. H!RecordsTrue'
    BY <1>0, <1>4 DEF H!SourceRetried, H!fixed, H!Looks, H!None, H!RecordsTrue, H!Shapes, H!Settled
  <2>3. H!StillTrue'
    BY <1>0, <1>4 DEF H!SourceRetried, H!fixed, H!Looks, H!None, H!StillTrue, H!ReadTrue, H!Shapes,
                      H!Sources, H!Looking, H!Listings, H!Unavailable, H!CarriesEnv, H!VersionOf,
                      H!Judged, H!Required, H!Inferred, H!Settled
  <2>4. H!EnvironmentTrue'
    BY <1>0, <1>4 DEF H!SourceRetried, H!fixed, H!Looks, H!None, H!EnvironmentTrue, H!Provided,
                      H!Unprovided, H!Shapes
  <2>5. H!AcceptedTrue'
    BY <1>0, <1>4 DEF H!SourceRetried, H!fixed, H!Looks, H!None, H!AcceptedTrue, H!Accepts,
                      H!Provided, H!Unprovided, H!Shapes, H!Sources, H!Looking, H!StillTrue
  <2>6. H!RestoresWhatWasAccepted'
    BY <1>0, <1>4 DEF H!SourceRetried, H!fixed, H!Looks, H!RestoresWhatWasAccepted
  <2>7. H!RefusedForAReason'
    BY <1>0, <1>4 DEF H!SourceRetried, H!fixed, H!Looks, H!RefusedForAReason
  <2> QED
    BY <2>1, <2>2, <2>3, <2>4, <2>5, <2>6, <2>7 DEF H!ChoiceInv
<1>5. CASE H!SourceStops
  <2>1. H!Shapes'
    <3>1. source' \in H!Sources
      BY <1>0, <1>5 DEF H!SourceStops, H!Shapes, H!fixed, H!Looks, H!None, H!Sources, H!Settled
    <3> QED
      BY <1>0, <1>5, <3>1 DEF H!SourceStops, H!Shapes, H!fixed, H!Looks
  <2>2. H!RecordsTrue'
    BY <1>0, <1>5 DEF H!SourceStops, H!fixed, H!Looks, H!None, H!RecordsTrue, H!Shapes, H!Settled
  <2>3. H!StillTrue'
    BY <1>0, <1>5 DEF H!SourceStops, H!fixed, H!Looks, H!None, H!StillTrue, H!ReadTrue, H!Shapes,
                      H!Sources, H!Looking, H!Listings, H!Unavailable, H!CarriesEnv, H!VersionOf,
                      H!Judged, H!Required, H!Inferred, H!Settled
  <2>4. H!EnvironmentTrue'
    BY <1>0, <1>5 DEF H!SourceStops, H!fixed, H!Looks, H!None, H!EnvironmentTrue, H!Provided,
                      H!Unprovided, H!Shapes
  <2>5. H!AcceptedTrue'
    BY <1>0, <1>5 DEF H!SourceStops, H!fixed, H!Looks, H!None, H!AcceptedTrue, H!Accepts,
                      H!Provided, H!Unprovided, H!Shapes, H!Sources, H!Looking, H!StillTrue
  <2>6. H!RestoresWhatWasAccepted'
    BY <1>0, <1>5 DEF H!SourceStops, H!fixed, H!Looks, H!RestoresWhatWasAccepted
  <2>7. H!RefusedForAReason'
    BY <1>0, <1>5 DEF H!SourceStops, H!fixed, H!Looks, H!RefusedForAReason
  <2> QED
    BY <2>1, <2>2, <2>3, <2>4, <2>5, <2>6, <2>7 DEF H!ChoiceInv
<1>6. CASE H!SourceUninstalled
  <2>1. H!Shapes'
    <3>1. source' \in H!Sources
      BY <1>0, <1>6 DEF H!SourceUninstalled, H!Shapes, H!fixed, H!Looks, H!Changed, H!Sources
    <3> QED
      BY <1>0, <1>6, <3>1 DEF H!SourceUninstalled, H!Shapes, H!fixed, H!Looks, H!Changed, H!Codes
  <2>2. H!RecordsTrue'
    BY <1>0, <1>6 DEF H!SourceUninstalled, H!fixed, H!Looks, H!Changed, H!None, H!RecordsTrue,
                      H!Shapes, H!Settled
  <2>3. H!StillTrue'
    BY <1>0, <1>6 DEF H!SourceUninstalled, H!fixed, H!Looks, H!Changed, H!StillTrue, H!ReadTrue,
                      H!Shapes, H!Unavailable, H!CarriesEnv, H!VersionOf, H!Judged, H!Required
  <2>4. H!EnvironmentTrue'
    BY <1>0, <1>6 DEF H!SourceUninstalled, H!fixed, H!Looks, H!EnvironmentTrue
  <2>5. H!AcceptedTrue'
    BY <1>0, <1>6 DEF H!SourceUninstalled, H!fixed, H!Looks, H!Changed, H!None, H!AcceptedTrue,
                      H!Accepts, H!Provided, H!Unprovided, H!Shapes, H!Sources, H!Looking,
                      H!StillTrue
  <2>6. H!RestoresWhatWasAccepted'
    BY <1>0, <1>6 DEF H!SourceUninstalled, H!fixed, H!Looks, H!Changed, H!None,
                      H!RestoresWhatWasAccepted, H!Shapes
  <2>7. H!RefusedForAReason'
    BY <1>0, <1>6 DEF H!SourceUninstalled, H!fixed, H!Looks, H!Changed, H!RefusedForAReason,
                      H!Shapes
  <2> QED
    BY <2>1, <2>2, <2>3, <2>4, <2>5, <2>6, <2>7 DEF H!ChoiceInv
<1>7. CASE H!CaptureGoes
  <2>1. H!Shapes'
    <3>1. capture' \in [there : BOOLEAN, version : Captured, recorded : BOOLEAN, ours : BOOLEAN]
      BY <1>0, <1>7 DEF H!CaptureGoes, H!Shapes, H!fixed, H!Looks
    <3> QED
      BY <1>0, <1>7, <3>1 DEF H!CaptureGoes, H!Shapes, H!fixed, H!Looks, H!Changed, H!Codes
  <2>2. H!RecordsTrue'
    BY <1>0, <1>7 DEF H!CaptureGoes, H!fixed, H!Looks, H!RecordsTrue
  <2>3. H!StillTrue'
    BY <1>0, <1>7 DEF H!CaptureGoes, H!fixed, H!Looks, H!Changed, H!StillTrue, H!ReadTrue, H!Shapes,
                      H!Unavailable, H!CarriesEnv, H!VersionOf, H!Judged, H!Required
  <2>4. H!EnvironmentTrue'
    BY <1>0, <1>7 DEF H!CaptureGoes, H!fixed, H!Looks, H!Changed, H!None, H!EnvironmentTrue,
                      H!Provided, H!Unprovided, H!Shapes
  <2>5. H!AcceptedTrue'
    BY <1>0, <1>7 DEF H!CaptureGoes, H!fixed, H!Looks, H!Changed, H!None, H!AcceptedTrue, H!Accepts,
                      H!Provided, H!Unprovided, H!Shapes, H!Sources, H!Looking, H!StillTrue
  <2>6. H!RestoresWhatWasAccepted'
    BY <1>0, <1>7 DEF H!CaptureGoes, H!fixed, H!Looks, H!Changed, H!None, H!RestoresWhatWasAccepted,
                      H!Shapes
  <2>7. H!RefusedForAReason'
    BY <1>0, <1>7 DEF H!CaptureGoes, H!fixed, H!Looks, H!Changed, H!RefusedForAReason, H!Shapes
  <2> QED
    BY <2>1, <2>2, <2>3, <2>4, <2>5, <2>6, <2>7 DEF H!ChoiceInv
<1>8. CASE H!List
  <2>1. H!Shapes'
    <3>1. listing' \in H!Listings
      BY <1>0, <1>8 DEF H!List, H!Shapes, H!fixed, H!Trouble, H!None, H!Listings, H!Skew, H!Skews,
                        H!Required, H!Codes, H!CarriesListed, H!CarriesEnv
    <3> QED
      BY <1>0, <1>8, <3>1 DEF H!List, H!Shapes, H!fixed
  <2>2. H!RecordsTrue'
    BY <1>0, <1>8 DEF H!List, H!fixed, H!RecordsTrue
  <2>3. H!StillTrue'
    <3>1. draft.at = "none" /\ install.at = "none" /\ UNCHANGED <<draft, install, source, capture, origin, app, choice>>
      BY <1>0, <1>8 DEF H!List, H!StillTrue, H!fixed
    <3>2. PICK sure \in BOOLEAN : LET skew == H!Skew(H!VersionOf(source.marker), app.rules /\ sure) IN
            listing' = [offered |-> H!Unavailable = "none", sure |-> sure, skew |-> skew,
                        carries |-> H!CarriesEnv, required |-> H!Required(skew, H!CarriesEnv)]
      BY <1>8 DEF H!List, H!CarriesListed
    <3>3. /\ listing'.offered = (H!Unavailable = "none") /\ listing'.carries = H!CarriesEnv
          /\ listing'.skew = H!Skew(H!VersionOf(source.marker), app.rules /\ listing'.sure)
          /\ listing'.required = H!Required(listing'.skew, listing'.carries)
      BY <3>2
    <3>4. /\ H!Unavailable' = H!Unavailable /\ H!CarriesEnv' = H!CarriesEnv
          /\ H!VersionOf(source.marker)' = H!VersionOf(source.marker)
          /\ H!Required(listing.skew, listing.carries)' = H!Required(listing'.skew, listing'.carries)
      BY <3>1 DEF H!Unavailable, H!CarriesEnv, H!VersionOf, H!Required, H!Inferred
    <3>5. H!Skew(H!VersionOf(source.marker), app.rules /\ listing.sure)' = H!Skew(H!VersionOf(source.marker), app.rules /\ listing'.sure)
      BY <3>1, <3>4 DEF H!Skew
    <3> QED
      BY <3>1, <3>3, <3>4, <3>5 DEF H!StillTrue, H!ReadTrue
  <2>4. H!EnvironmentTrue'
    BY <1>0, <1>8 DEF H!List, H!fixed, H!EnvironmentTrue
  <2>5. H!AcceptedTrue'
    BY <1>0, <1>8 DEF H!List, H!fixed, H!Trouble, H!None, H!AcceptedTrue, H!Accepts, H!Provided,
                      H!Unprovided, H!Shapes, H!Sources, H!Looking, H!StillTrue
  <2>6. H!RestoresWhatWasAccepted'
    BY <1>0, <1>8 DEF H!List, H!fixed, H!RestoresWhatWasAccepted
  <2>7. H!RefusedForAReason'
    BY <1>0, <1>8 DEF H!List, H!fixed, H!RefusedForAReason
  <2> QED
    BY <2>1, <2>2, <2>3, <2>4, <2>5, <2>6, <2>7 DEF H!ChoiceInv
<1>9. CASE H!AskForDraft
  <2>1. H!Shapes'
    <3>1. draft' \in H!Looking
      BY <1>0, <1>9 DEF H!AskForDraft, H!Shapes, H!fixed, H!Seen, H!None, H!Looking, H!Sources,
                        H!CarriesEnv
    <3> QED
      BY <1>0, <1>9, <3>1 DEF H!AskForDraft, H!Shapes, H!fixed
  <2>2. H!RecordsTrue'
    BY <1>0, <1>9 DEF H!AskForDraft, H!fixed, H!RecordsTrue
  <2>3. H!StillTrue'
    BY <1>0, <1>9 DEF H!AskForDraft, H!fixed, H!Seen, H!None, H!StillTrue, H!ReadTrue, H!Shapes,
                      H!Sources, H!Looking, H!Listings, H!Unavailable, H!CarriesEnv, H!VersionOf,
                      H!Judged, H!Required, H!Inferred, H!Settled
  <2>4. H!EnvironmentTrue'
    BY <1>0, <1>9 DEF H!AskForDraft, H!fixed, H!Seen, H!None, H!EnvironmentTrue, H!Provided,
                      H!Unprovided, H!Shapes, H!Sources, H!Looking, H!CarriesEnv, H!Judged,
                      H!Required, H!StillTrue
  <2>5. H!AcceptedTrue'
    BY <1>0, <1>9 DEF H!AskForDraft, H!fixed, H!Seen, H!None, H!AcceptedTrue, H!Accepts, H!Provided,
                      H!Unprovided, H!Shapes, H!Sources, H!Looking, H!StillTrue
  <2>6. H!RestoresWhatWasAccepted'
    <3>1. install.at = "none" /\ install' = install
      BY <1>0, <1>9 DEF H!AskForDraft, H!StillTrue
    <3> QED
      BY <3>1 DEF H!RestoresWhatWasAccepted
  <2>7. H!RefusedForAReason'
    BY <1>0, <1>9 DEF H!AskForDraft, H!fixed, H!Seen, H!None, H!RefusedForAReason, H!StillTrue,
                      H!ReadTrue, H!Shapes, H!Looking, H!Judged
  <2> QED
    BY <2>1, <2>2, <2>3, <2>4, <2>5, <2>6, <2>7 DEF H!ChoiceInv
<1>10. CASE H!JudgeForDraft
  <2>1. H!Shapes'
    <3>1. H!Judged(draft) \in H!Skews \cup {"none", "gone", "busy", "env-required", "ack-required"}
      BY DEF H!Judged, H!Unavailable, H!Skew, H!Skews
    <3>2. draft \in H!Looking
      BY <1>0 DEF H!Shapes
    <3>3. draft' \in H!Looking
      BY <1>10, <3>1, <3>2 DEF H!JudgeForDraft, H!Looking
    <3> QED
      BY <1>0, <1>10, <3>3 DEF H!JudgeForDraft, H!Shapes, H!fixed
  <2>2. H!RecordsTrue'
    BY <1>0, <1>10 DEF H!JudgeForDraft, H!fixed, H!RecordsTrue
  <2>3. H!StillTrue'
    BY <1>0, <1>10 DEF H!JudgeForDraft, H!fixed, H!None, H!StillTrue, H!ReadTrue, H!Shapes,
                       H!Sources, H!Looking, H!Listings, H!Unavailable, H!CarriesEnv, H!VersionOf,
                       H!Judged, H!Required, H!Inferred, H!Settled
  <2>4. H!EnvironmentTrue'
    <3>1. /\ draft.at = "judging" /\ draft'.carries = draft.carries /\ draft'.at # "judging"
          /\ draft'.at \in {"carrying", "made"} => H!Judged(draft) = "none"
          /\ draft'.at = "made" => ~(choice.carry /\ origin = "deployment")
          /\ UNCHANGED <<origin, app, source, choice, install>>
      BY <1>0, <1>10 DEF H!JudgeForDraft, H!fixed, H!Shapes, H!Looking
    <3>2. draft'.at = "carrying" => (draft.carries /\ choice.carry) \/ H!Unprovided
      BY <1>0, <3>1, Passed DEF H!Unprovided, H!Shapes
    <3> QED
      BY <1>0, <3>1, <3>2 DEF H!EnvironmentTrue, H!Unprovided
  <2>5. H!AcceptedTrue'
    BY <1>0, <1>10 DEF H!JudgeForDraft, H!fixed, H!None, H!AcceptedTrue, H!Accepts, H!Provided,
                       H!Unprovided, H!Shapes, H!Sources, H!Looking, H!StillTrue
  <2>6. H!RestoresWhatWasAccepted'
    <3>1. install.at = "none" /\ install' = install
      BY <1>0, <1>10 DEF H!JudgeForDraft, H!StillTrue
    <3> QED
      BY <3>1 DEF H!RestoresWhatWasAccepted
  <2>7. H!RefusedForAReason'
    BY <1>0, <1>10 DEF H!JudgeForDraft, H!fixed, H!None, H!RefusedForAReason, H!StillTrue,
                       H!ReadTrue, H!Shapes, H!Looking, H!Judged
  <2> QED
    BY <2>1, <2>2, <2>3, <2>4, <2>5, <2>6, <2>7 DEF H!ChoiceInv
<1>11. CASE H!CarryEnv
  <2>1. H!Shapes'
    <3>1. draft \in H!Looking /\ source.env \in Captured \cup {H!None}
      BY <1>0 DEF H!Shapes, H!Sources
    <3>2. draft' \in H!Looking
      BY <1>11, <3>1 DEF H!CarryEnv, H!Looking
    <3> QED
      BY <1>0, <1>11, <3>2 DEF H!CarryEnv, H!Shapes, H!fixed
  <2>2. H!RecordsTrue'
    BY <1>0, <1>11 DEF H!CarryEnv, H!fixed, H!RecordsTrue
  <2>3. H!StillTrue'
    <3>1. /\ draft'.marker = draft.marker /\ draft'.carries = draft.carries
          /\ draft.at = "carrying" /\ draft'.at = "made"
          /\ UNCHANGED <<origin, app, source, capture, listing, choice, install, stale>>
      BY <1>0, <1>11 DEF H!CarryEnv, H!fixed, H!Shapes, H!Looking
    <3>2. /\ H!Unavailable' = H!Unavailable /\ H!CarriesEnv' = H!CarriesEnv
          /\ H!VersionOf(source.marker)' = H!VersionOf(source.marker)
          /\ H!Required(listing.skew, listing.carries)' = H!Required(listing.skew, listing.carries)
      BY <3>1 DEF H!Unavailable, H!CarriesEnv, H!VersionOf, H!Required, H!Inferred
    <3>3. H!Judged(draft)' = H!Judged(draft)
      BY <3>1 DEF H!Judged, H!Unavailable, H!VersionOf, H!Required, H!Inferred
    <3> QED
      BY <1>0, <3>1, <3>2, <3>3 DEF H!StillTrue, H!ReadTrue
  <2>4. H!EnvironmentTrue'
    BY <1>0, <1>11 DEF H!CarryEnv, H!fixed, H!None, H!EnvironmentTrue, H!Provided, H!Unprovided,
                       H!Shapes, H!Sources, H!Looking
  <2>5. H!AcceptedTrue'
    BY <1>0, <1>11 DEF H!CarryEnv, H!fixed, H!Trouble, H!None, H!AcceptedTrue, H!Accepts,
                       H!Provided, H!Unprovided, H!Shapes, H!Sources, H!Looking, H!StillTrue
  <2>6. H!RestoresWhatWasAccepted'
    <3>1. install.at = "none" /\ install' = install
      BY <1>0, <1>11 DEF H!CarryEnv, H!StillTrue
    <3> QED
      BY <3>1 DEF H!RestoresWhatWasAccepted
  <2>7. H!RefusedForAReason'
    BY <1>0, <1>11 DEF H!CarryEnv, H!fixed, H!RefusedForAReason, H!Shapes, H!Looking
  <2> QED
    BY <2>1, <2>2, <2>3, <2>4, <2>5, <2>6, <2>7 DEF H!ChoiceInv
<1>12. CASE H!ReadForInstall
  <2>1. H!Shapes'
    <3>1. install' \in H!Looking
      BY <1>0, <1>12 DEF H!ReadForInstall, H!Shapes, H!fixed, H!Seen, H!None, H!Looking, H!Sources,
                         H!CarriesEnv
    <3> QED
      BY <1>0, <1>12, <3>1 DEF H!ReadForInstall, H!Shapes, H!fixed
  <2>2. H!RecordsTrue'
    BY <1>0, <1>12 DEF H!ReadForInstall, H!fixed, H!RecordsTrue
  <2>3. H!StillTrue'
    BY <1>0, <1>12 DEF H!ReadForInstall, H!fixed, H!Seen, H!None, H!StillTrue, H!ReadTrue, H!Shapes,
                       H!Sources, H!Looking, H!Listings, H!Unavailable, H!CarriesEnv, H!VersionOf,
                       H!Judged, H!Required, H!Inferred, H!Settled
  <2>4. H!EnvironmentTrue'
    BY <1>0, <1>12 DEF H!ReadForInstall, H!fixed, H!Seen, H!None, H!EnvironmentTrue, H!Provided,
                       H!Unprovided, H!Shapes, H!Sources, H!Looking, H!CarriesEnv, H!Judged,
                       H!Required, H!StillTrue
  <2>5. H!AcceptedTrue'
    BY <1>0, <1>12 DEF H!ReadForInstall, H!fixed, H!Seen, H!AcceptedTrue, H!Accepts, H!Provided,
                       H!Shapes
  <2>6. H!RestoresWhatWasAccepted'
    BY <1>0, <1>12 DEF H!ReadForInstall, H!fixed, H!Seen, H!None, H!RestoresWhatWasAccepted,
                       H!Shapes
  <2>7. H!RefusedForAReason'
    BY <1>0, <1>12 DEF H!ReadForInstall, H!fixed, H!Seen, H!RefusedForAReason, H!Shapes
  <2> QED
    BY <2>1, <2>2, <2>3, <2>4, <2>5, <2>6, <2>7 DEF H!ChoiceInv
<1>13. CASE H!JudgeForInstall
  <2>1. H!Shapes'
    <3>1. H!Judged(install) \in H!Skews \cup {"none", "gone", "busy", "env-required", "ack-required"}
      BY DEF H!Judged, H!Unavailable, H!Skew, H!Skews
    <3>2. install \in H!Looking
      BY <1>0 DEF H!Shapes
    <3>3. install' \in H!Looking
      <4>1. H!Skew(H!VersionOf(install.marker), app.rules) \in H!Skews
        BY DEF H!Skew, H!Skews
      <4> QED
        BY <1>13, <3>1, <3>2, <4>1 DEF H!JudgeForInstall, H!Rejudged, H!Looking
    <3> QED
      BY <1>0, <1>13, <3>3 DEF H!JudgeForInstall, H!Shapes, H!fixed
  <2>2. H!RecordsTrue'
    BY <1>0, <1>13 DEF H!JudgeForInstall, H!fixed, H!RecordsTrue
  <2>3. H!StillTrue'
    BY <1>0, <1>13 DEF H!JudgeForInstall, H!fixed, H!Rejudged, H!None, H!StillTrue, H!ReadTrue,
                       H!Shapes, H!Sources, H!Looking, H!Listings, H!Unavailable, H!CarriesEnv,
                       H!VersionOf, H!Judged, H!Required, H!Inferred, H!Settled
  <2>4. H!EnvironmentTrue'
    BY <1>0, <1>13 DEF H!JudgeForInstall, H!fixed, H!Rejudged, H!None, H!EnvironmentTrue,
                       H!Provided, H!Unprovided, H!Shapes
  <2>5. H!AcceptedTrue'
    <3>1. /\ install.at = "judging" /\ UNCHANGED <<origin, app, source, capture, choice, draft, stale, unmarked>>
          /\ install'.skew = H!Skew(H!VersionOf(install.marker), app.rules)
          /\ install'.at # "refused" => H!Judged(install) = "none"
          /\ install'.at \in {"queued", "refused"}
      BY <1>0, <1>13 DEF H!JudgeForInstall, H!Rejudged, H!fixed, H!Shapes
    <3> SUFFICES ASSUME install'.at = "queued" PROVE H!AcceptedTrue'
      BY <3>1 DEF H!AcceptedTrue
    <3>2. draft.at = "made" /\ H!Unavailable = "none"
      BY <1>0, <3>1, Passed DEF H!StillTrue
    <3>3. H!Provided
      BY <1>0, <3>1, <3>2, Passed DEF H!EnvironmentTrue, H!Provided, H!Unprovided, H!Unavailable,
           H!Shapes, H!Settled
    <3>4. CASE origin = "deployment"
      <4> SUFFICES ASSUME "install" \notin stale, ~unmarked PROVE H!Accepts(source.data)'
        BY <3>1, <3>3, <3>4 DEF H!AcceptedTrue, H!Provided, H!Unprovided
      <4>1. H!VersionOf(install.marker) = source.data
        BY <1>0, <3>1, <3>2, <3>4 DEF H!StillTrue, H!ReadTrue, H!RecordsTrue, H!VersionOf,
             H!Unavailable, H!Settled
      <4>2. source.data \in Nat \ {0}
        BY <1>0 DEF H!Shapes, H!Sources
      <4> QED
        BY <3>1, <4>1, <4>2, Passed, SkewMeans DEF H!Accepts
    <3>5. CASE origin = "provider"
      <4>1. H!Accepts(capture.version)'
        BY <1>0, <3>1, <3>5, Passed, SkewMeans DEF H!Accepts, H!VersionOf, H!None, H!Skew, H!Shapes
      <4>2. capture.ours \/ "inferred-identity" \in choice.acks
        BY <1>0, <3>1, <3>2, <3>5, Passed DEF H!Unavailable, H!Inferred, H!Shapes
      <4> QED
        BY <3>1, <3>3, <3>5, <4>1, <4>2 DEF H!AcceptedTrue, H!Provided, H!Unprovided
    <3> QED
      BY <1>0, <3>4, <3>5 DEF H!Shapes, H!Origins
  <2>6. H!RestoresWhatWasAccepted'
    BY <1>0, <1>13 DEF H!JudgeForInstall, H!fixed, H!RestoresWhatWasAccepted
  <2>7. H!RefusedForAReason'
    BY <1>0, <1>13 DEF H!JudgeForInstall, H!fixed, H!Rejudged, H!None, H!RefusedForAReason,
                       H!StillTrue, H!ReadTrue, H!Shapes, H!Looking, H!Judged
  <2> QED
    BY <2>1, <2>2, <2>3, <2>4, <2>5, <2>6, <2>7 DEF H!ChoiceInv
<1>14. CASE H!JobChecks
  <2>1. H!Shapes'
    <3>1. install' \in H!Looking
      BY <1>0, <1>14 DEF H!JobChecks, H!Shapes, H!fixed, H!Looking
    <3> QED
      BY <1>0, <1>14, <3>1 DEF H!JobChecks, H!Shapes, H!fixed
  <2>2. H!RecordsTrue'
    BY <1>0, <1>14 DEF H!JobChecks, H!fixed, H!RecordsTrue
  <2>3. H!StillTrue'
    BY <1>0, <1>14 DEF H!JobChecks, H!fixed, H!None, H!StillTrue, H!ReadTrue, H!Shapes, H!Sources,
                       H!Looking, H!Listings, H!Unavailable, H!CarriesEnv, H!VersionOf, H!Judged,
                       H!Required, H!Inferred, H!Settled
  <2>4. H!EnvironmentTrue'
    BY <1>0, <1>14 DEF H!JobChecks, H!fixed, H!None, H!EnvironmentTrue, H!Provided, H!Unprovided,
                       H!Shapes
  <2>5. H!AcceptedTrue'
    BY <1>0, <1>14 DEF H!JobChecks, H!fixed, H!None, H!AcceptedTrue, H!Accepts, H!Provided,
                       H!Unprovided, H!Shapes, H!Sources, H!Looking, H!StillTrue
  <2>6. H!RestoresWhatWasAccepted'
    BY <1>0, <1>14 DEF H!JobChecks, H!fixed, H!RestoresWhatWasAccepted
  <2>7. H!RefusedForAReason'
    BY <1>0, <1>14 DEF H!JobChecks, H!fixed, H!RefusedForAReason
  <2> QED
    BY <2>1, <2>2, <2>3, <2>4, <2>5, <2>6, <2>7 DEF H!ChoiceInv
<1>15. CASE H!JobLands
  <2>1. H!Shapes'
    <3>1. install \in H!Looking /\ source.data \in Captured /\ capture.version \in Captured /\ capture.ours \in BOOLEAN
      BY <1>0 DEF H!Shapes, H!Sources
    <3>2. [install EXCEPT !.at = "failed"] \in H!Looking
      BY <3>1 DEF H!Looking
    <3>3. ASSUME NEW data \in [version : Captured \cup {H!None}, ours : BOOLEAN]
          PROVE  [install EXCEPT !.at = "landed", !.data = data] \in H!Looking
      BY <3>1 DEF H!Looking
    <3>4. [version |-> capture.version, ours |-> capture.ours] \in [version : Captured \cup {H!None}, ours : BOOLEAN]
      BY <3>1
    <3>5. [version |-> source.data, ours |-> TRUE] \in [version : Captured \cup {H!None}, ours : BOOLEAN]
      BY <3>1
    <3>6. install' \in H!Looking
      BY <1>15, <3>2, <3>3, <3>4, <3>5 DEF H!JobLands
    <3> QED
      BY <1>0, <1>15, <3>6 DEF H!JobLands, H!Shapes, H!fixed
  <2>2. H!RecordsTrue'
    BY <1>0, <1>15 DEF H!JobLands, H!fixed, H!RecordsTrue
  <2>3. H!StillTrue'
    <3>1. /\ install'.marker = install.marker /\ install'.carries = install.carries
          /\ install.at = "capturing" /\ install'.at \in {"failed", "landed"}
          /\ UNCHANGED <<origin, app, source, capture, listing, choice, draft, stale, unmarked>>
      BY <1>0, <1>15 DEF H!JobLands, H!fixed, H!Shapes, H!Looking
    <3>2. /\ H!Unavailable' = H!Unavailable /\ H!CarriesEnv' = H!CarriesEnv
          /\ H!VersionOf(source.marker)' = H!VersionOf(source.marker)
          /\ H!Required(listing.skew, listing.carries)' = H!Required(listing.skew, listing.carries)
      BY <3>1 DEF H!Unavailable, H!CarriesEnv, H!VersionOf, H!Required, H!Inferred
    <3>3. H!Judged(draft)' = H!Judged(draft)
      BY <3>1 DEF H!Judged, H!Unavailable, H!VersionOf, H!Required, H!Inferred
    <3> QED
      BY <1>0, <3>1, <3>2, <3>3 DEF H!StillTrue, H!ReadTrue
  <2>4. H!EnvironmentTrue'
    BY <1>0, <1>15 DEF H!JobLands, H!fixed, H!None, H!EnvironmentTrue, H!Provided, H!Unprovided,
                       H!Shapes, H!Sources, H!Looking
  <2>5. H!AcceptedTrue'
    BY <1>0, <1>15 DEF H!JobLands, H!fixed, H!None, H!AcceptedTrue, H!Accepts, H!Provided,
                       H!Unprovided, H!Shapes, H!Sources, H!Looking, H!StillTrue
  <2>6. H!RestoresWhatWasAccepted'
    <3> SUFFICES ASSUME install'.at = "landed" PROVE H!RestoresWhatWasAccepted'
      BY DEF H!RestoresWhatWasAccepted
    <3>1. /\ install.at = "capturing" /\ install'.skew = install.skew
          /\ install'.data = IF origin = "provider"
                             THEN [version |-> capture.version, ours |-> capture.ours]
                             ELSE [version |-> source.data, ours |-> TRUE]
          /\ UNCHANGED <<origin, app, source, capture, choice, draft, stale, unmarked>>
      BY <1>0, <1>15 DEF H!JobLands, H!fixed, H!Shapes, H!Looking
    <3>2. CASE origin = "provider"
      <4>1. install'.data.version = capture.version /\ install'.data.ours = capture.ours
        BY <3>1, <3>2
      <4> QED
        BY <1>0, <3>1, <3>2, <4>1 DEF H!AcceptedTrue, H!Accepts, H!Provided, H!Unprovided,
             H!RestoresWhatWasAccepted, H!Upgradable
    <3>3. CASE origin = "deployment"
      <4>1. install'.data.version = source.data /\ install'.data.ours
        BY <3>1, <3>3
      <4> QED
        BY <1>0, <3>1, <3>3, <4>1 DEF H!AcceptedTrue, H!Accepts, H!Provided, H!Unprovided,
             H!RestoresWhatWasAccepted, H!Upgradable
    <3> QED
      BY <1>0, <3>2, <3>3 DEF H!Shapes, H!Origins
  <2>7. H!RefusedForAReason'
    BY <1>0, <1>15 DEF H!JobLands, H!fixed, H!RefusedForAReason, H!Shapes, H!Looking
  <2> QED
    BY <2>1, <2>2, <2>3, <2>4, <2>5, <2>6, <2>7 DEF H!ChoiceInv
<1> QED
  BY <1>1, <1>2, <1>3, <1>4, <1>5, <1>6, <1>7, <1>8, <1>9, <1>10, <1>11, <1>12, <1>13, <1>14, <1>15
       DEF H!Next

(* It holds at first.                                                       *)
LEMMA FirstChoice == ASSUME H!Init PROVE H!ChoiceInv
<1> DEFINE origin == v1  app == v2  source == v3  capture == v4  listing == v5  choice == v6
             draft == v7  install == v8  stale == v9  unmarked == v10  changes == v11  troubles == v12
<1>1. PICK v \in Captured :
        \E marker, env \in {H!None, IF origin = "deployment" THEN v ELSE H!None} :
        source = [status |-> IF origin = "deployment" THEN "running" ELSE "gone",
                  data |-> v, says |-> v, next |-> v, marker |-> marker, env |-> env]
  BY DEF H!Init
<1>2. source \in H!Sources /\ source.next = source.data /\ source.says = source.data
      /\ source.marker \in {H!None, source.data}
  BY <1>1, VersionsAssumption DEF H!Sources, H!Settled, H!None
<1>3. PICK recorded \in {TRUE, origin = "deployment"}, ours \in {TRUE, origin = "deployment"} :
        capture = [there |-> origin = "provider", version |-> source.data,
                   recorded |-> recorded, ours |-> ours]
  BY DEF H!Init
<1>4. capture \in [there : BOOLEAN, version : Captured, recorded : BOOLEAN, ours : BOOLEAN]
  <2>1. source.data \in Captured
    BY <1>2 DEF H!Sources
  <2> QED
    BY <1>3, <2>1
<1>5. draft \in H!Looking /\ install \in H!Looking /\ draft.at = "none" /\ install.at = "none" /\ ~draft.carries /\ ~install.carries
  BY DEF H!Init, H!NotBegun, H!Nothing, H!Looking, H!Skews, H!None
<1>6. listing \in H!Listings /\ ~listing.offered
  BY DEF H!Init, H!Unseen, H!Listings, H!Skews
<1>7. H!Shapes
  BY <1>2, <1>4, <1>5, <1>6 DEF H!Init, H!Shapes, H!NoChoice
<1> QED
  BY <1>2, <1>5, <1>6, <1>7 DEF H!Init, H!ChoiceInv, H!RecordsTrue, H!StillTrue, H!ReadTrue,
                                H!EnvironmentTrue, H!AcceptedTrue,
       H!RestoresWhatWasAccepted, H!RefusedForAReason

(* The invariant holds at first, whichever component runs.                  *)
LEMMA InitChoices == Init => ChoicesInv
<1> SUFFICES ASSUME H!Init PROVE H!ChoiceInv
  BY Zenon DEF Init, ChoicesInv
<1> QED
  BY FirstChoice

(* It is inductive.                                                         *)
LEMMA NextChoices == ChoicesInv /\ [Next]_vars => ChoicesInv'
<1> SUFFICES ASSUME ChoicesInv, [Next]_vars, which' = "choice" PROVE H!ChoiceInv'
  BY DEF ChoicesInv
<1>1. which = "choice"
  BY Zenon DEF Next, vars
<1>2. H!ChoiceInv
  BY <1>1 DEF ChoicesInv
<1>3. CASE Next
  <2>1. H!Next
    BY <1>1, <1>3, Zenon DEF Next
  <2> QED
    BY <1>2, <2>1, ChoiceSteps
<1>4. CASE UNCHANGED vars
  <2>1. UNCHANGED <<v1, v2, v3, v4, v5, v6, v7, v8, v9, v10, v11, v12>>
    BY <1>4 DEF vars
  <2>2. H!Unavailable' = H!Unavailable /\ H!CarriesEnv' = H!CarriesEnv
    BY <2>1 DEF H!Unavailable, H!CarriesEnv
  <2> QED
    BY <1>2, <2>1, <2>2 DEF H!ChoiceInv, H!Shapes, H!RecordsTrue, H!ReadTrue, H!StillTrue,
                            H!Unprovided, H!Provided, H!EnvironmentTrue, H!Accepts, H!AcceptedTrue,
                            H!RestoresWhatWasAccepted, H!RefusedForAReason, H!Judged, H!Required,
                            H!Inferred, H!VersionOf, H!Upgradable
<1> QED
  BY <1>3, <1>4

(* RestoresAsAgreed: the data that a restore brings is of a version the app *)
(* can take or an operator has said so, its environment was brought along   *)
(* or given up, and what was offered is refused for a reason only           *)
(* (restore-choice.ts, deployment.ts).                                      *)
THEOREM RestoresAsAgreedHolds == Spec => []RestoresAsAgreed
<1>1. ChoicesInv => RestoresAsAgreed
  BY DEF ChoicesInv, H!ChoiceInv, RestoresAsAgreed
<1> QED
  BY <1>1, InitChoices, NextChoices, PTL DEF Spec
-----------------------------------------------------------------------------
(* The inductive invariant of the upgrades, while they run.                 *)
UpgradesInv == which = "upgrades" => U!UpgradeInv

(* A set of numbers that is not empty has a least.                          *)
LEMMA Least == ASSUME NEW T \in SUBSET Nat, T # {} PROVE \E m \in T : \A k \in T : m <= k
<1> DEFINE Less == {ss \in Nat \X Nat : ss[1] < ss[2]}
<1>1. IsWellFoundedOn(Less, Nat)
  BY NatLessThanWellFounded DEF OpToRel
<1> HIDE DEF Less
<1>2. PICK m \in T : \A k \in T : ~ (<<k, m>> \in Less)
  BY <1>1, WFMin
<1>3. \A k \in T : ~(k < m)
  BY <1>2 DEF Less
<1> QED
  BY <1>3

(* One that is bounded has a greatest.                                      *)
LEMMA Greatest == ASSUME NEW n \in Nat, NEW A, A \subseteq 1..n, A # {}
                  PROVE  U!Max(A) \in A /\ \A y \in A : y <= U!Max(A)
<1> DEFINE T == {n - x : x \in A}
<1>1. \A x \in A : x \in Nat /\ n - x \in Nat
  OBVIOUS
<1>2. T \in SUBSET Nat /\ T # {}
  BY <1>1
<1>3. PICK m \in T : \A k \in T : m <= k
  BY <1>2, Least
<1>4. PICK x \in A : m = n - x
  BY <1>3
<1>5. ASSUME NEW y \in A PROVE x >= y
  <2>1. m <= n - y
    BY <1>3
  <2> QED
    BY <1>1, <1>4, <2>1
<1>6. \E z \in A : \A y \in A : z >= y
  BY <1>5
<1>7. U!Max(A) \in A /\ \A y \in A : U!Max(A) >= y
  <2> DEFINE Bounds(z) == \A y \in A : z >= y
  <2>1. \E z \in A : Bounds(z)
    BY <1>6
  <2>2. U!Max(A) = CHOOSE z \in A : Bounds(z)
    BY DEF U!Max
  <2> HIDE DEF Bounds
  <2>3. U!Max(A) \in A /\ Bounds(U!Max(A))
    BY <2>1, <2>2, Zenon
  <2> QED
    BY <2>3 DEF Bounds
<1> QED
  BY <1>1, <1>7

(* The newest version on a channel, of an index that lists 1..n.            *)
LEMMA NewestIs == ASSUME NEW n \in Nat, NEW channel
                  PROVE  /\ U!Newest(n, channel) \in 0..n
                         /\ U!Newest(n, channel) # U!Unknown => U!Eligible(U!Newest(n, channel), channel)
                         /\ \A v \in 1..n : U!Eligible(v, channel) => v <= U!Newest(n, channel)
<1> DEFINE candidates == {v \in 1..n : U!Eligible(v, channel)}
<1>1. CASE candidates = {}
  BY <1>1 DEF U!Newest, U!Unknown
<1>2. CASE candidates # {}
  <2>1. U!Max(candidates) \in candidates /\ \A y \in candidates : y <= U!Max(candidates)
    BY <1>2, Greatest
  <2>2. U!Newest(n, channel) = U!Max(candidates)
    BY <1>2 DEF U!Newest
  <2> QED
    BY <2>1, <2>2 DEF U!Unknown
<1> QED
  BY <1>1, <1>2

(* What a call is that begins, has a target, or is over.                    *)
LEMMA ReadingIs == ASSUME U!TypeOK, NEW c \in Calls
                   PROVE  /\ U!Reading(c) \in U!Promotes /\ U!Reading(c).at = v6[c].at
                          /\ U!Reading(c).inferred = v6[c].inferred
                          /\ U!Reading(c).version = v4.version
                          /\ U!Reading(c).channel = v4.channel
                          /\ U!Reading(c).seen = v6[c].seen /\ U!Reading(c).raced = v6[c].raced
<1> DEFINE published == v1  index == v2  fetch == v3  deployment == v4  busy == v5  call == v6
             troubles == v7
<1>1. deployment.version \in U!Versions /\ deployment.channel \in U!Channels
  BY VersionsAssumption DEF U!TypeOK, U!Versions
<1> QED
  BY <1>1 DEF U!TypeOK, U!Reading, U!Promotes

(* A promotion that has its target drafts it.                              *)
LEMMA ToIs == ASSUME NEW found \in U!Promotes, NEW target \in U!Versions
              PROVE  LET p == U!To(found, target) IN
                     /\ p \in U!Promotes /\ p.at = "drafting" /\ p.target = target /\ p.seen = 0
                     /\ p.inferred = found.inferred /\ p.channel = found.channel
                     /\ p.version = IF found.inferred THEN found.version ELSE U!Unknown
  BY DEF U!To, U!Promotes, U!Unknown

(* One that is over knows nothing.                                         *)
LEMMA IdleIs == U!Idle \in U!Promotes /\ U!Idle.at = "idle" /\ U!Idle.seen = 0 /\ U!Idle.version = U!Unknown
  BY DEF U!Idle, U!Promotes, U!Channels, U!Unknown

(* Those that a switch of the release overtakes stay promotions.           *)
LEMMA OvertakenIs == ASSUME U!TypeOK PROVE U!Overtaken \in [Calls -> U!Promotes]
<1> DEFINE published == v1  index == v2  fetch == v3  deployment == v4  busy == v5  call == v6
             troubles == v7
<1>1. ASSUME NEW c \in Calls PROVE call[c] \in U!Promotes /\ [call[c] EXCEPT !.raced = TRUE] \in U!Promotes
  <2>1. call[c] \in U!Promotes
    BY DEF U!TypeOK
  <2> QED
    BY <2>1 DEF U!Promotes
<1> QED
  BY <1>1 DEF U!Overtaken

(* What becomes of a call when the fetch is over.                           *)
LEMMA WokenIs == ASSUME U!TypeOK, NEW n \in v2..v1,
                        NEW failed \in BOOLEAN, NEW d \in Calls
                 PROVE  LET p == U!Woken(n, failed)[d] IN
                        /\ p \in U!Promotes
                        /\ v6[d].at # "waiting" => p = v6[d]
                        /\ v6[d].at = "waiting" =>
                             \/ /\ p.at = "nothing" /\ p.seen = v6[d].seen
                                /\ p.raced = (v6[d].raced \/ failed)
                                /\ p.version = v4.version
                                /\ \A v \in 1..n : U!Eligible(v, p.channel) => v <= p.version
                             \/ /\ p.at = "drafting" /\ p.seen = 0 /\ p.target \in 1..n
                                /\ p.version \in {U!Unknown, v4.version}
                                /\ p.inferred => \A v \in 1..n : U!Eligible(v, p.channel) => v <= p.target
<1> DEFINE published == v1  index == v2  fetch == v3  deployment == v4  busy == v5  call == v6
             troubles == v7
<1> DEFINE p == U!Woken(n, failed)[d]
           found  == U!Reading(d)
           newest == U!Newest(n, found.channel)
<1>1. /\ index \in Nat /\ published \in U!Versions /\ n \in Nat /\ 1..n \subseteq U!Versions
      /\ call[d] \in U!Promotes
  BY VersionsAssumption DEF U!TypeOK, U!Versions
<1>2. /\ found \in U!Promotes /\ found.version = deployment.version
      /\ found.seen = call[d].seen /\ found.raced = call[d].raced
  BY ReadingIs
<1>3. /\ newest \in 0..n /\ deployment.version \in Nat
      /\ \A v \in 1..n : U!Eligible(v, found.channel) => v <= newest
  BY <1>1, NewestIs DEF U!TypeOK
<1>4. p = IF ~U!At(d, "waiting") THEN call[d]
          ELSE IF newest \in {U!Unknown, found.version}
               THEN [found EXCEPT !.at = "nothing", !.raced = @ \/ failed]
               ELSE U!To(found, newest)
  BY DEF U!Woken
<1>5. CASE ~U!At(d, "waiting")
  BY <1>1, <1>4, <1>5 DEF U!At
<1>6. CASE U!At(d, "waiting") /\ newest \in {U!Unknown, found.version}
  <2> HIDE DEF p, found, newest
  <2>1. p = [found EXCEPT !.at = "nothing", !.raced = found.raced \/ failed]
    BY <1>4, <1>6
  <2>2. (found.raced \/ failed) \in BOOLEAN
    BY <1>2 DEF U!Promotes
  <2>3. /\ p \in U!Promotes /\ p.at = "nothing" /\ p.seen = found.seen
        /\ p.raced = (found.raced \/ failed) /\ p.version = found.version /\ p.channel = found.channel
    BY <1>2, <2>1, <2>2 DEF U!Promotes
  <2>4. newest <= found.version
    BY <1>2, <1>3, <1>6 DEF U!Unknown
  <2>5. \A v \in 1..n : U!Eligible(v, p.channel) => v <= p.version
    BY <1>1, <1>2, <1>3, <2>3, <2>4
  <2> QED
    BY <1>2, <1>6, <2>3, <2>5 DEF p, U!At
<1>7. CASE U!At(d, "waiting") /\ newest \notin {U!Unknown, found.version}
  <2> HIDE DEF p, found, newest
  <2>1. newest \in 1..n /\ p = U!To(found, newest)
    BY <1>1, <1>3, <1>4, <1>7 DEF U!Unknown
  <2>2. /\ p \in U!Promotes /\ p.at = "drafting" /\ p.target = newest /\ p.seen = 0
        /\ p.channel = found.channel /\ p.version \in {U!Unknown, found.version}
    BY <1>1, <1>2, <2>1, ToIs
  <2> QED
    BY <1>2, <1>3, <1>7, <2>1, <2>2 DEF p, U!At
<1> QED
  BY <1>5, <1>6, <1>7

(* Every step keeps the invariant.                                          *)
LEMMA UpgradeSteps == ASSUME U!UpgradeInv, U!Next PROVE  U!UpgradeInv'
<1> DEFINE published == v1  index == v2  fetch == v3  deployment == v4  busy == v5  call == v6
             troubles == v7
<1>0. /\ U!TypeOK /\ U!NothingMissed /\ LastVersion \in Nat
      /\ \A c \in Calls : U!Awakened(c) /\ U!Inferred(c) /\ U!Judged(c)
  BY VersionsAssumption DEF U!UpgradeInv
<1>1. CASE U!Publish
  <2>1. U!TypeOK'
    BY <1>0, <1>1 DEF U!Publish, U!Releases, U!TypeOK, U!Promotes, U!Channels, U!Versions,
                      U!NoFetch, U!Sent
  <2>2. U!NothingMissed'
    BY <1>0, <1>1 DEF U!Publish, U!Releases, U!At, U!NothingMissed, U!TypeOK, U!Eligible
  <2>3. ASSUME NEW d \in Calls PROVE U!Awakened(d)'
    BY <1>0, <1>1 DEF U!Publish, U!Releases, U!At, U!Awakened, U!TypeOK, U!Promotes, U!Versions,
                      U!NoFetch, U!Sent
  <2>4. ASSUME NEW d \in Calls PROVE U!Inferred(d)'
    BY <1>0, <1>1 DEF U!Publish, U!Releases, U!At, U!Inferred, U!TypeOK
  <2>5. ASSUME NEW d \in Calls PROVE U!Judged(d)'
    BY <1>0, <1>1 DEF U!Publish, U!Releases, U!At, U!Judged, U!TypeOK, U!Unknown, U!Eligible,
                      U!CheckUpgradePath
  <2> QED
    BY <2>1, <2>2, <2>3, <2>4, <2>5 DEF U!UpgradeInv
<1>2. CASE U!Load
  <2>1. U!TypeOK'
    BY <1>0, <1>2 DEF U!Load, U!Releases, U!TypeOK
  <2>2. U!NothingMissed'
    BY <1>0, <1>2 DEF U!Load, U!Releases, U!At, U!NothingMissed, U!TypeOK, U!Eligible
  <2>3. ASSUME NEW d \in Calls PROVE U!Awakened(d)'
    BY <1>0, <1>2 DEF U!Load, U!Releases, U!At, U!Awakened, U!TypeOK, U!Versions, U!NoFetch
  <2>4. ASSUME NEW d \in Calls PROVE U!Inferred(d)'
    BY <1>0, <1>2 DEF U!Load, U!Releases, U!At, U!Inferred, U!TypeOK
  <2>5. ASSUME NEW d \in Calls PROVE U!Judged(d)'
    BY <1>0, <1>2 DEF U!Load, U!Releases, U!At, U!Judged, U!TypeOK, U!Unknown, U!Eligible,
                      U!CheckUpgradePath
  <2> QED
    BY <2>1, <2>2, <2>3, <2>4, <2>5 DEF U!UpgradeInv
<1>3. CASE U!Answer
  <2>1. U!TypeOK'
    BY <1>0, <1>3 DEF U!Answer, U!Releases, U!TypeOK, U!Promotes, U!Channels, U!Versions, U!NoFetch,
                      U!Sent
  <2>2. U!NothingMissed'
    BY <1>0, <1>3 DEF U!Answer, U!Releases, U!At, U!NothingMissed, U!TypeOK, U!Eligible
  <2>3. ASSUME NEW d \in Calls PROVE U!Awakened(d)'
    BY <1>0, <1>3 DEF U!Answer, U!Releases, U!At, U!Awakened, U!TypeOK, U!Versions, U!NoFetch
  <2>4. ASSUME NEW d \in Calls PROVE U!Inferred(d)'
    BY <1>0, <1>3 DEF U!Answer, U!Releases, U!At, U!Inferred, U!TypeOK
  <2>5. ASSUME NEW d \in Calls PROVE U!Judged(d)'
    BY <1>0, <1>3 DEF U!Answer, U!Releases, U!At, U!Judged, U!TypeOK, U!Unknown, U!Eligible,
                      U!CheckUpgradePath
  <2> QED
    BY <2>1, <2>2, <2>3, <2>4, <2>5 DEF U!UpgradeInv
<1>4. CASE U!Land
  <2>1. U!TypeOK'
    <3>1. /\ index' = fetch /\ fetch' = U!NoFetch /\ call' = U!Woken(index', FALSE)
          /\ fetch # U!NoFetch /\ fetch \in index..published /\ UNCHANGED <<published, deployment, busy>>
      BY <1>0, <1>4 DEF U!Land, U!Releases, U!TypeOK, U!Versions, U!NoFetch, U!Sent
    <3>2. call' \in [Calls -> U!Promotes]
      <4>1. \A d \in Calls : call'[d] \in U!Promotes
        BY <1>0, <3>1, WokenIs
      <4> QED
        BY <3>1, <4>1 DEF U!Woken
    <3>3. deployment' \in [running : 1..index', version : 1..index', channel : U!Channels]
      <4>1. 1..index \subseteq 1..index'
        BY <1>0, <3>1 DEF U!TypeOK, U!Versions
      <4> QED
        BY <1>0, <3>1, <4>1 DEF U!TypeOK
    <3>4. published \in U!Versions /\ index' \in 1..published
      BY <1>0, <3>1 DEF U!TypeOK, U!Versions
    <3> QED
      BY <1>0, <3>1, <3>2, <3>3, <3>4 DEF U!TypeOK
  <2>2. U!NothingMissed'
    <3>1. /\ index' = fetch /\ fetch' = U!NoFetch /\ call' = U!Woken(index', FALSE)
          /\ fetch # U!NoFetch /\ fetch \in index..published /\ UNCHANGED <<published, deployment, busy>>
      BY <1>0, <1>4 DEF U!Land, U!Releases, U!TypeOK, U!Versions, U!NoFetch, U!Sent
    <3> SUFFICES ASSUME NEW d \in Calls, call'[d].at = "nothing", ~call'[d].raced,
                        NEW x \in 1..call'[d].seen, U!Eligible(x, call'[d].channel)
                 PROVE  x <= call'[d].version
      BY DEF U!NothingMissed, U!At, U!Eligible
    <3>2. LET p == call'[d] IN
          /\ p \in U!Promotes
          /\ call[d].at # "waiting" => p = call[d]
          /\ call[d].at = "waiting" =>
               \/ /\ p.at = "nothing" /\ p.seen = call[d].seen
                  /\ p.raced = (call[d].raced \/ FALSE)
                  /\ p.version = deployment.version
                  /\ \A v \in 1..index' : U!Eligible(v, p.channel) => v <= p.version
               \/ /\ p.at = "drafting" /\ p.seen = 0 /\ p.target \in 1..index'
                  /\ p.version \in {U!Unknown, deployment.version}
                  /\ p.inferred => \A v \in 1..index' : U!Eligible(v, p.channel) => v <= p.target
      BY <1>0, <3>1, WokenIs
    <3>3. CASE call[d].at = "waiting"
      <4>1. call[d].seen \in Nat /\ (call[d].seen <= fetch \/ FALSE) /\ call'[d].seen = call[d].seen
        BY <1>0, <1>4, <3>1, <3>2, <3>3 DEF U!Awakened, U!At, U!TypeOK, U!Promotes, U!Land
      <4>2. fetch \in Nat /\ index' = fetch
        BY <1>0, <3>1 DEF U!TypeOK, U!Versions
      <4>3. x \in 1..index'
        BY <4>1, <4>2
      <4> QED
        BY <3>2, <3>3, <4>3
    <3>4. CASE call[d].at # "waiting"
      BY <1>0, <3>2, <3>4 DEF U!NothingMissed, U!At
    <3> QED
      BY <3>3, <3>4
  <2>3. ASSUME NEW d \in Calls PROVE U!Awakened(d)'
    <3>1. /\ index' = fetch /\ fetch' = U!NoFetch /\ call' = U!Woken(index', FALSE)
          /\ fetch # U!NoFetch /\ fetch \in index..published /\ UNCHANGED <<published, deployment, busy>>
      BY <1>0, <1>4 DEF U!Land, U!Releases, U!TypeOK, U!Versions, U!NoFetch, U!Sent
    <3>2. LET p == call'[d] IN
          /\ p \in U!Promotes
          /\ call[d].at # "waiting" => p = call[d]
          /\ call[d].at = "waiting" =>
               \/ /\ p.at = "nothing" /\ p.seen = call[d].seen
                  /\ p.raced = (call[d].raced \/ FALSE)
                  /\ p.version = deployment.version
                  /\ \A v \in 1..index' : U!Eligible(v, p.channel) => v <= p.version
               \/ /\ p.at = "drafting" /\ p.seen = 0 /\ p.target \in 1..index'
                  /\ p.version \in {U!Unknown, deployment.version}
                  /\ p.inferred => \A v \in 1..index' : U!Eligible(v, p.channel) => v <= p.target
      BY <1>0, <3>1, WokenIs
    <3>3. call[d].seen <= published /\ published \in Nat /\ call'[d].at # "waiting"
      BY <1>0, <3>2 DEF U!Awakened, U!TypeOK, U!Versions
    <3>4. call'[d].seen <= published
      BY <3>2, <3>3
    <3> QED
      BY <3>1, <3>3, <3>4 DEF U!Awakened, U!At
  <2>4. ASSUME NEW d \in Calls PROVE U!Inferred(d)'
    <3>1. /\ index' = fetch /\ fetch' = U!NoFetch /\ call' = U!Woken(index', FALSE)
          /\ fetch # U!NoFetch /\ fetch \in index..published /\ UNCHANGED <<published, deployment, busy>>
      BY <1>0, <1>4 DEF U!Land, U!Releases, U!TypeOK, U!Versions, U!NoFetch, U!Sent
    <3>2. LET p == call'[d] IN
          /\ p \in U!Promotes
          /\ call[d].at # "waiting" => p = call[d]
          /\ call[d].at = "waiting" =>
               \/ /\ p.at = "nothing" /\ p.seen = call[d].seen
                  /\ p.raced = (call[d].raced \/ FALSE)
                  /\ p.version = deployment.version
                  /\ \A v \in 1..index' : U!Eligible(v, p.channel) => v <= p.version
               \/ /\ p.at = "drafting" /\ p.seen = 0 /\ p.target \in 1..index'
                  /\ p.version \in {U!Unknown, deployment.version}
                  /\ p.inferred => \A v \in 1..index' : U!Eligible(v, p.channel) => v <= p.target
      BY <1>0, <3>1, WokenIs
    <3>3. index <= index' /\ deployment.version \in 1..index' /\ index' \in Nat /\ index \in Nat
      BY <1>0, <3>1 DEF U!TypeOK, U!Versions
    <3>4. CASE call[d].at # "waiting"
      <4>1. call[d].version \in Nat
        BY <1>0 DEF U!TypeOK, U!Promotes, U!Versions, U!Unknown
      <4> QED
        BY <1>0, <3>2, <3>3, <3>4, <4>1 DEF U!Inferred, U!At
    <3>5. CASE call[d].at = "waiting"
      BY <3>2, <3>3, <3>5 DEF U!Inferred, U!At, U!Unknown, U!Eligible, U!Promotes, U!Channels
    <3> QED
      BY <3>4, <3>5
  <2>5. ASSUME NEW d \in Calls PROVE U!Judged(d)'
    <3>1. /\ index' = fetch /\ fetch' = U!NoFetch /\ call' = U!Woken(index', FALSE)
          /\ fetch # U!NoFetch /\ fetch \in index..published /\ UNCHANGED <<published, deployment, busy>>
      BY <1>0, <1>4 DEF U!Land, U!Releases, U!TypeOK, U!Versions, U!NoFetch, U!Sent
    <3>2. LET p == call'[d] IN
          /\ p \in U!Promotes
          /\ call[d].at # "waiting" => p = call[d]
          /\ call[d].at = "waiting" =>
               \/ /\ p.at = "nothing" /\ p.seen = call[d].seen
                  /\ p.raced = (call[d].raced \/ FALSE)
                  /\ p.version = deployment.version
                  /\ \A v \in 1..index' : U!Eligible(v, p.channel) => v <= p.version
               \/ /\ p.at = "drafting" /\ p.seen = 0 /\ p.target \in 1..index'
                  /\ p.version \in {U!Unknown, deployment.version}
                  /\ p.inferred => \A v \in 1..index' : U!Eligible(v, p.channel) => v <= p.target
      BY <1>0, <3>1, WokenIs
    <3>3. CASE call[d].at # "waiting"
      <4>1. 1..index \subseteq 1..index'
        BY <1>0, <3>1 DEF U!TypeOK, U!Versions
      <4>2. call'[d] = call[d]
        BY <3>2, <3>3
      <4> QED
        BY <1>0, <3>1, <4>1, <4>2 DEF U!Judged, U!At, U!Eligible, U!CheckUpgradePath
    <3>4. CASE call[d].at = "waiting"
      <4>1. call'[d].at = "nothing" \/ (call'[d].at = "drafting" /\ call'[d].target # U!Unknown)
        BY <3>2, <3>4 DEF U!Unknown
      <4> QED
        BY <4>1 DEF U!Judged, U!At
    <3> QED
      BY <3>3, <3>4
  <2> QED
    BY <2>1, <2>2, <2>3, <2>4, <2>5 DEF U!UpgradeInv
<1>5. CASE U!FetchFails
  <2>1. U!TypeOK'
    <3>1. /\ index' = index /\ fetch' = U!NoFetch /\ call' = U!Woken(index', TRUE)
          /\ fetch # U!NoFetch /\ index \in index..published /\ UNCHANGED <<published, deployment, busy>>
      BY <1>0, <1>5 DEF U!FetchFails, U!Releases, U!TypeOK
    <3>2. call' \in [Calls -> U!Promotes]
      <4>1. \A d \in Calls : call'[d] \in U!Promotes
        BY <1>0, <3>1, WokenIs
      <4> QED
        BY <3>1, <4>1 DEF U!Woken
    <3>3. deployment' \in [running : 1..index', version : 1..index', channel : U!Channels]
      <4>1. 1..index \subseteq 1..index'
        BY <1>0, <3>1 DEF U!TypeOK, U!Versions
      <4> QED
        BY <1>0, <3>1, <4>1 DEF U!TypeOK
    <3>4. published \in U!Versions /\ index' \in 1..published
      BY <1>0, <3>1 DEF U!TypeOK, U!Versions
    <3> QED
      BY <1>0, <3>1, <3>2, <3>3, <3>4 DEF U!TypeOK
  <2>2. U!NothingMissed'
    <3>1. /\ index' = index /\ fetch' = U!NoFetch /\ call' = U!Woken(index', TRUE)
          /\ fetch # U!NoFetch /\ index \in index..published /\ UNCHANGED <<published, deployment, busy>>
      BY <1>0, <1>5 DEF U!FetchFails, U!Releases, U!TypeOK
    <3> SUFFICES ASSUME NEW d \in Calls, call'[d].at = "nothing", ~call'[d].raced,
                        NEW x \in 1..call'[d].seen, U!Eligible(x, call'[d].channel)
                 PROVE  x <= call'[d].version
      BY DEF U!NothingMissed, U!At, U!Eligible
    <3>2. LET p == call'[d] IN
          /\ p \in U!Promotes
          /\ call[d].at # "waiting" => p = call[d]
          /\ call[d].at = "waiting" =>
               \/ /\ p.at = "nothing" /\ p.seen = call[d].seen
                  /\ p.raced = (call[d].raced \/ TRUE)
                  /\ p.version = deployment.version
                  /\ \A v \in 1..index' : U!Eligible(v, p.channel) => v <= p.version
               \/ /\ p.at = "drafting" /\ p.seen = 0 /\ p.target \in 1..index'
                  /\ p.version \in {U!Unknown, deployment.version}
                  /\ p.inferred => \A v \in 1..index' : U!Eligible(v, p.channel) => v <= p.target
      BY <1>0, <3>1, WokenIs
    <3>3. CASE call[d].at = "waiting"
      <4>1. call[d].seen \in Nat /\ (call[d].seen <= fetch \/ TRUE) /\ call'[d].seen = call[d].seen
        BY <1>0, <1>5, <3>1, <3>2, <3>3 DEF U!Awakened, U!At, U!TypeOK, U!Promotes, U!FetchFails
      <4>2. ~call[d].raced /\ FALSE
        BY <1>0, <3>1, <3>2, <3>3 DEF U!TypeOK, U!Versions, U!Promotes
      <4>3. x \in 1..index'
        BY <4>1, <4>2
      <4> QED
        BY <3>2, <3>3, <4>3
    <3>4. CASE call[d].at # "waiting"
      BY <1>0, <3>2, <3>4 DEF U!NothingMissed, U!At
    <3> QED
      BY <3>3, <3>4
  <2>3. ASSUME NEW d \in Calls PROVE U!Awakened(d)'
    <3>1. /\ index' = index /\ fetch' = U!NoFetch /\ call' = U!Woken(index', TRUE)
          /\ fetch # U!NoFetch /\ index \in index..published /\ UNCHANGED <<published, deployment, busy>>
      BY <1>0, <1>5 DEF U!FetchFails, U!Releases, U!TypeOK, U!Versions, U!NoFetch
    <3>2. LET p == call'[d] IN
          /\ p \in U!Promotes
          /\ call[d].at # "waiting" => p = call[d]
          /\ call[d].at = "waiting" =>
               \/ /\ p.at = "nothing" /\ p.seen = call[d].seen
                  /\ p.raced = (call[d].raced \/ TRUE)
                  /\ p.version = deployment.version
                  /\ \A v \in 1..index' : U!Eligible(v, p.channel) => v <= p.version
               \/ /\ p.at = "drafting" /\ p.seen = 0 /\ p.target \in 1..index'
                  /\ p.version \in {U!Unknown, deployment.version}
                  /\ p.inferred => \A v \in 1..index' : U!Eligible(v, p.channel) => v <= p.target
      BY <1>0, <3>1, WokenIs
    <3>3. call[d].seen <= published /\ published \in Nat /\ call'[d].at # "waiting"
      BY <1>0, <3>2 DEF U!Awakened, U!TypeOK, U!Versions
    <3>4. call'[d].seen <= published
      BY <3>2, <3>3
    <3> QED
      BY <3>1, <3>3, <3>4 DEF U!Awakened, U!At
  <2>4. ASSUME NEW d \in Calls PROVE U!Inferred(d)'
    <3>1. /\ index' = index /\ fetch' = U!NoFetch /\ call' = U!Woken(index', TRUE)
          /\ fetch # U!NoFetch /\ index \in index..published /\ UNCHANGED <<published, deployment, busy>>
      BY <1>0, <1>5 DEF U!FetchFails, U!Releases, U!TypeOK
    <3>2. LET p == call'[d] IN
          /\ p \in U!Promotes
          /\ call[d].at # "waiting" => p = call[d]
          /\ call[d].at = "waiting" =>
               \/ /\ p.at = "nothing" /\ p.seen = call[d].seen
                  /\ p.raced = (call[d].raced \/ TRUE)
                  /\ p.version = deployment.version
                  /\ \A v \in 1..index' : U!Eligible(v, p.channel) => v <= p.version
               \/ /\ p.at = "drafting" /\ p.seen = 0 /\ p.target \in 1..index'
                  /\ p.version \in {U!Unknown, deployment.version}
                  /\ p.inferred => \A v \in 1..index' : U!Eligible(v, p.channel) => v <= p.target
      BY <1>0, <3>1, WokenIs
    <3>3. index <= index' /\ deployment.version \in 1..index' /\ index' \in Nat /\ index \in Nat
      BY <1>0, <3>1 DEF U!TypeOK, U!Versions
    <3>4. CASE call[d].at # "waiting"
      <4>1. call[d].version \in Nat
        BY <1>0 DEF U!TypeOK, U!Promotes, U!Versions, U!Unknown
      <4> QED
        BY <1>0, <3>2, <3>3, <3>4, <4>1 DEF U!Inferred, U!At
    <3>5. CASE call[d].at = "waiting"
      BY <3>2, <3>3, <3>5 DEF U!Inferred, U!At, U!Unknown, U!Eligible, U!Promotes, U!Channels
    <3> QED
      BY <3>4, <3>5
  <2>5. ASSUME NEW d \in Calls PROVE U!Judged(d)'
    <3>1. /\ index' = index /\ fetch' = U!NoFetch /\ call' = U!Woken(index', TRUE)
          /\ fetch # U!NoFetch /\ index \in index..published /\ UNCHANGED <<published, deployment, busy>>
      BY <1>0, <1>5 DEF U!FetchFails, U!Releases, U!TypeOK
    <3>2. LET p == call'[d] IN
          /\ p \in U!Promotes
          /\ call[d].at # "waiting" => p = call[d]
          /\ call[d].at = "waiting" =>
               \/ /\ p.at = "nothing" /\ p.seen = call[d].seen
                  /\ p.raced = (call[d].raced \/ TRUE)
                  /\ p.version = deployment.version
                  /\ \A v \in 1..index' : U!Eligible(v, p.channel) => v <= p.version
               \/ /\ p.at = "drafting" /\ p.seen = 0 /\ p.target \in 1..index'
                  /\ p.version \in {U!Unknown, deployment.version}
                  /\ p.inferred => \A v \in 1..index' : U!Eligible(v, p.channel) => v <= p.target
      BY <1>0, <3>1, WokenIs
    <3>3. CASE call[d].at # "waiting"
      <4>1. 1..index \subseteq 1..index'
        BY <1>0, <3>1 DEF U!TypeOK, U!Versions
      <4>2. call'[d] = call[d]
        BY <3>2, <3>3
      <4> QED
        BY <1>0, <3>1, <4>1, <4>2 DEF U!Judged, U!At, U!Eligible, U!CheckUpgradePath
    <3>4. CASE call[d].at = "waiting"
      <4>1. call'[d].at = "nothing" \/ (call'[d].at = "drafting" /\ call'[d].target # U!Unknown)
        BY <3>2, <3>4 DEF U!Unknown
      <4> QED
        BY <4>1 DEF U!Judged, U!At
    <3> QED
      BY <3>3, <3>4
  <2> QED
    BY <2>1, <2>2, <2>3, <2>4, <2>5 DEF U!UpgradeInv
<1>6. CASE U!JobEnds
  <2>1. U!TypeOK'
    BY <1>0, <1>6 DEF U!JobEnds, U!Catalog, U!TypeOK
  <2>2. U!NothingMissed'
    BY <1>0, <1>6 DEF U!JobEnds, U!Catalog, U!At, U!NothingMissed, U!TypeOK, U!Eligible
  <2>3. ASSUME NEW d \in Calls PROVE U!Awakened(d)'
    BY <1>0, <1>6 DEF U!JobEnds, U!Catalog, U!At, U!Awakened, U!TypeOK, U!Versions, U!NoFetch
  <2>4. ASSUME NEW d \in Calls PROVE U!Inferred(d)'
    BY <1>0, <1>6 DEF U!JobEnds, U!Catalog, U!At, U!Inferred, U!TypeOK
  <2>5. ASSUME NEW d \in Calls PROVE U!Judged(d)'
    BY <1>0, <1>6 DEF U!JobEnds, U!Catalog, U!At, U!Judged, U!TypeOK, U!Unknown, U!Eligible,
                      U!CheckUpgradePath
  <2> QED
    BY <2>1, <2>2, <2>3, <2>4, <2>5 DEF U!UpgradeInv
<1>7. CASE U!Rollback
  <2>1. U!TypeOK'
    <3>1. U!Overtaken \in [Calls -> U!Promotes]
      BY <1>0, OvertakenIs
    <3>2. deployment' \in [running : 1..index, version : 1..index, channel : U!Channels]
      BY <1>0, <1>7 DEF U!Rollback, U!TypeOK, U!Original, U!Versions
    <3> QED
      BY <1>0, <1>7, <3>1, <3>2 DEF U!Rollback, U!Catalog, U!TypeOK
  <2>2. U!NothingMissed'
    BY <1>0, <1>7 DEF U!Rollback, U!Catalog, U!Releases, U!At, U!Overtaken, U!NothingMissed,
                      U!TypeOK, U!Promotes, U!Eligible, U!Awakened
  <2>3. ASSUME NEW d \in Calls PROVE U!Awakened(d)'
    BY <1>0, <1>7 DEF U!Rollback, U!Catalog, U!Releases, U!At, U!Overtaken, U!Awakened, U!TypeOK,
                      U!Promotes, U!Versions, U!NoFetch, U!Sent
  <2>4. ASSUME NEW d \in Calls PROVE U!Inferred(d)'
    BY <1>0, <1>7 DEF U!Rollback, U!Catalog, U!Releases, U!At, U!Overtaken, U!Inferred, U!TypeOK,
                      U!Promotes, U!Unknown, U!Channels, U!Versions
  <2>5. ASSUME NEW d \in Calls PROVE U!Judged(d)'
    BY <1>0, <1>7 DEF U!Rollback, U!Catalog, U!Releases, U!At, U!Overtaken, U!Judged, U!TypeOK,
                      U!Promotes, U!Unknown, U!Eligible, U!CheckUpgradePath, U!Versions
  <2> QED
    BY <2>1, <2>2, <2>3, <2>4, <2>5 DEF U!UpgradeInv
<1>8. CASE U!Follow
  <2>1. U!TypeOK'
    BY <1>0, <1>8 DEF U!Follow, U!Catalog, U!TypeOK, U!Promotes, U!Channels, U!Versions, U!NoFetch,
                      U!Sent
  <2>2. U!NothingMissed'
    BY <1>0, <1>8 DEF U!Follow, U!Catalog, U!At, U!NothingMissed, U!TypeOK, U!Eligible
  <2>3. ASSUME NEW d \in Calls PROVE U!Awakened(d)'
    BY <1>0, <1>8 DEF U!Follow, U!Catalog, U!At, U!Awakened, U!TypeOK, U!Versions, U!NoFetch
  <2>4. ASSUME NEW d \in Calls PROVE U!Inferred(d)'
    BY <1>0, <1>8 DEF U!Follow, U!Catalog, U!At, U!Inferred, U!TypeOK
  <2>5. ASSUME NEW d \in Calls PROVE U!Judged(d)'
    BY <1>0, <1>8 DEF U!Follow, U!Catalog, U!At, U!Judged, U!TypeOK, U!Unknown, U!Eligible,
                      U!CheckUpgradePath
  <2> QED
    BY <2>1, <2>2, <2>3, <2>4, <2>5 DEF U!UpgradeInv
<1>9. ASSUME NEW c \in Calls, U!Begin(c) PROVE U!UpgradeInv'
  <2>1. U!TypeOK'
    <3>1. U!Reading(c) \in U!Promotes /\ published \in Nat
      BY <1>0, ReadingIs DEF U!TypeOK, U!Versions
    <3>2. PICK target \in U!Versions \cup {U!Unknown} :
            call' = [call EXCEPT ![c] =
              [U!Reading(c) EXCEPT !.at = "reading", !.inferred = (c \notin Naming), !.target = target,
                                 !.seen = IF c \in Naming THEN 0 ELSE published]]
      BY <1>9 DEF U!Begin
    <3>3. [U!Reading(c) EXCEPT !.at = "reading", !.inferred = (c \notin Naming), !.target = target,
                             !.seen = IF c \in Naming THEN 0 ELSE published] \in U!Promotes
      <4>1. (c \notin Naming) \in BOOLEAN /\ (IF c \in Naming THEN 0 ELSE published) \in Nat
        BY <3>1
      <4> QED
        BY <3>1, <4>1 DEF U!Promotes
    <3>4. call' \in [Calls -> U!Promotes]
      BY <1>0, <3>2, <3>3 DEF U!TypeOK
    <3> QED
      BY <1>0, <1>9, <3>4 DEF U!Begin, U!Catalog, U!Releases, U!TypeOK
  <2>2. U!NothingMissed'
    BY <1>0, <1>9 DEF U!Begin, U!Catalog, U!Releases, U!At, U!Reading, U!NothingMissed, U!TypeOK,
                      U!Eligible
  <2>3. ASSUME NEW d \in Calls PROVE U!Awakened(d)'
    BY <1>0, <1>9 DEF U!Begin, U!Catalog, U!Releases, U!At, U!Reading, U!Awakened, U!TypeOK,
                      U!Versions, U!NoFetch
  <2>4. ASSUME NEW d \in Calls PROVE U!Inferred(d)'
    BY <1>0, <1>9 DEF U!Begin, U!Catalog, U!Releases, U!At, U!Reading, U!Inferred, U!TypeOK
  <2>5. ASSUME NEW d \in Calls PROVE U!Judged(d)'
    <3>1. U!Reading(c) \in U!Promotes
      BY <1>0, ReadingIs
    <3>2. PICK target \in IF c \in Naming THEN U!Versions ELSE {U!Unknown} :
            call' = [call EXCEPT ![c] =
              [U!Reading(c) EXCEPT !.at = "reading", !.inferred = (c \notin Naming), !.target = target,
                                 !.seen = IF c \in Naming THEN 0 ELSE published]]
      BY <1>9 DEF U!Begin
    <3>3. /\ call'[c].at = "reading" /\ call'[c].inferred = (c \notin Naming)
          /\ call'[c].target = target
      BY <1>0, <3>1, <3>2 DEF U!TypeOK, U!Promotes
    <3>4. ~call'[c].inferred => call'[c].target # U!Unknown
      <4>1. CASE c \in Naming
        BY <1>0, <3>2, <3>3, <4>1 DEF U!Versions, U!Unknown
      <4>2. CASE c \notin Naming
        BY <3>3, <4>2
      <4> QED
        BY <4>1, <4>2
    <3>5. \A e \in Calls \ {c} : call'[e] = call[e]
      BY <1>0, <3>2 DEF U!TypeOK
    <3> QED
      BY <1>0, <1>9, <3>3, <3>4, <3>5 DEF U!Begin, U!Catalog, U!Releases, U!Judged, U!At,
           U!Eligible, U!CheckUpgradePath
  <2> QED
    BY <2>1, <2>2, <2>3, <2>4, <2>5 DEF U!UpgradeInv
<1>10. ASSUME NEW c \in Calls, U!Check(c) PROVE U!UpgradeInv'
  <2>1. U!TypeOK'
    <3>1. call[c] \in U!Promotes /\ call[c].target \in U!Versions
      BY <1>0, <1>10 DEF U!Check, U!At, U!Judged, U!TypeOK, U!Promotes
    <3>7. U!To(call[c], call[c].target) \in U!Promotes /\ U!Idle \in U!Promotes
      BY <3>1, ToIs, IdleIs
    <3>8. call' \in [Calls -> U!Promotes]
      BY <1>0, <1>10, <3>7 DEF U!Check, U!TypeOK
    <3> QED
      BY <1>0, <1>10, <3>8 DEF U!Check, U!Catalog, U!Releases, U!TypeOK
  <2>2. U!NothingMissed'
    BY <1>0, <1>10 DEF U!Check, U!Catalog, U!Releases, U!At, U!To, U!Idle, U!NothingMissed,
                       U!TypeOK, U!Eligible
  <2>3. ASSUME NEW d \in Calls PROVE U!Awakened(d)'
    BY <1>0, <1>10 DEF U!Check, U!Catalog, U!Releases, U!At, U!To, U!Idle, U!Awakened, U!TypeOK,
                       U!Versions, U!NoFetch
  <2>4. ASSUME NEW d \in Calls PROVE U!Inferred(d)'
    BY <1>0, <1>10 DEF U!Check, U!Catalog, U!Releases, U!At, U!To, U!Idle, U!Inferred, U!TypeOK,
                       U!Promotes, U!Unknown, U!Channels, U!Versions
  <2>5. ASSUME NEW d \in Calls PROVE U!Judged(d)'
    <3>1. call[c] \in U!Promotes /\ call[c].target \in U!Versions /\ U!Idle.at = "idle"
      BY <1>0, <1>10, IdleIs DEF U!Check, U!At, U!Judged, U!TypeOK, U!Promotes
    <3>2. call'[c].at = "idle" \/ (call'[c].at = "drafting" /\ call'[c].target = call[c].target)
      BY <1>0, <1>10, <3>1, ToIs DEF U!Check, U!TypeOK
    <3>3. call[c].target # U!Unknown /\ \A e \in Calls \ {c} : call'[e] = call[e]
      BY <1>0, <1>10 DEF U!Check, U!At, U!Judged, U!TypeOK
    <3> QED
      BY <1>0, <1>10, <3>2, <3>3 DEF U!Check, U!Catalog, U!Releases, U!Judged, U!At, U!Eligible,
           U!CheckUpgradePath
  <2> QED
    BY <2>1, <2>2, <2>3, <2>4, <2>5 DEF U!UpgradeInv
<1>11. ASSUME NEW c \in Calls, U!Infer(c) PROVE U!UpgradeInv'
  <2>1. U!TypeOK'
    <3>1. LET newest == U!Newest(index, call[c].channel) IN
          /\ newest \in U!Versions /\ newest \in 1..index
          /\ \A v \in 1..index : U!Eligible(v, call[c].channel) => v <= newest
          /\ call' = [call EXCEPT ![c] = U!To(call[c], newest)]
      BY <1>0, <1>11, NewestIs DEF U!Infer, U!TypeOK, U!Versions, U!Unknown
    <3>2. U!To(call[c], U!Newest(index, call[c].channel)) \in U!Promotes
      BY <1>0, <3>1, ToIs DEF U!TypeOK
    <3>3. call' \in [Calls -> U!Promotes]
      BY <1>0, <3>1, <3>2 DEF U!TypeOK
    <3> QED
      BY <1>0, <1>11, <3>3 DEF U!Infer, U!Catalog, U!Releases, U!TypeOK
  <2>2. U!NothingMissed'
    BY <1>0, <1>11 DEF U!Infer, U!Catalog, U!Releases, U!At, U!To, U!NothingMissed, U!TypeOK,
                       U!Eligible
  <2>3. ASSUME NEW d \in Calls PROVE U!Awakened(d)'
    BY <1>0, <1>11 DEF U!Infer, U!Catalog, U!Releases, U!At, U!To, U!Awakened, U!TypeOK, U!Versions,
                       U!NoFetch
  <2>4. ASSUME NEW d \in Calls PROVE U!Inferred(d)'
    <3>1. LET newest == U!Newest(index, call[c].channel) IN
          /\ newest \in U!Versions /\ newest \in 1..index
          /\ \A v \in 1..index : U!Eligible(v, call[c].channel) => v <= newest
          /\ call' = [call EXCEPT ![c] = U!To(call[c], newest)]
      BY <1>0, <1>11, NewestIs DEF U!Infer, U!TypeOK, U!Versions, U!Unknown
    <3>2. CASE d # c
      BY <1>0, <1>11, <3>1, <3>2 DEF U!Infer, U!Catalog, U!Inferred, U!At, U!TypeOK
    <3>3. CASE d = c
      <4> DEFINE newest == U!Newest(index, call[c].channel)
      <4>1. call[c] \in U!Promotes /\ call[c].version <= index /\ call[c].version \in 0..LastVersion /\ index \in Nat
        BY <1>0 DEF U!Inferred, U!TypeOK, U!Promotes, U!Versions, U!Unknown
      <4>2. /\ call'[c].target = newest /\ call'[c].channel = call[c].channel
            /\ call'[c].version \in {call[c].version, U!Unknown}
        BY <1>0, <3>1, <4>1, ToIs DEF U!TypeOK
      <4>3. call[c].version = 0 \/ (U!Eligible(call[c].version, call[c].channel) => call[c].version <= newest)
        BY <3>1, <4>1
      <4>4. call[c].channel \in U!Channels /\ newest \in Nat /\ index' = index
        BY <1>11, <3>1, <4>1 DEF U!Infer, U!Catalog, U!Promotes, U!Versions
      <4> QED
        BY <3>3, <4>1, <4>2, <4>3, <4>4 DEF U!Inferred, U!At, U!Eligible, U!Unknown, U!Channels
    <3> QED
      BY <3>2, <3>3
  <2>5. ASSUME NEW d \in Calls PROVE U!Judged(d)'
    BY <1>0, <1>11 DEF U!Infer, U!Catalog, U!Releases, U!At, U!To, U!Judged, U!TypeOK, U!Unknown,
                       U!Eligible, U!CheckUpgradePath
  <2> QED
    BY <2>1, <2>2, <2>3, <2>4, <2>5 DEF U!UpgradeInv
<1>12. ASSUME NEW c \in Calls, U!Refresh(c) PROVE U!UpgradeInv'
  <2>1. U!TypeOK'
    <3>1. call[c] \in U!Promotes /\ fetch \in {U!NoFetch, U!Sent} \cup index..published
      BY <1>0 DEF U!TypeOK
    <3>2. PICK raced \in BOOLEAN : call' = [call EXCEPT ![c] = [call[c] EXCEPT !.at = "waiting", !.raced = raced]]
      <4>1. (fetch \in U!Versions) \in BOOLEAN
        OBVIOUS
      <4>2. call' = [call EXCEPT ![c] = [call[c] EXCEPT !.at = "waiting", !.raced = fetch \in U!Versions]]
        BY <1>0, <1>12 DEF U!Refresh, U!Refreshing, U!TypeOK
      <4> QED
        BY <4>1, <4>2
    <3>3. [call[c] EXCEPT !.at = "waiting", !.raced = raced] \in U!Promotes
      BY <3>1 DEF U!Promotes
    <3>4. call' \in [Calls -> U!Promotes]
      BY <1>0, <3>2, <3>3 DEF U!TypeOK
    <3>5. fetch' \in {U!NoFetch, U!Sent} \cup index..published
      BY <1>12, <3>1 DEF U!Refresh, U!Refreshing
    <3> QED
      BY <1>0, <1>12, <3>4, <3>5 DEF U!Refresh, U!Releases, U!TypeOK
  <2>2. U!NothingMissed'
    BY <1>0, <1>12 DEF U!Refresh, U!Catalog, U!Releases, U!At, U!Refreshing, U!NothingMissed,
                       U!TypeOK, U!Promotes, U!Eligible, U!Awakened
  <2>3. ASSUME NEW d \in Calls PROVE U!Awakened(d)'
    BY <1>0, <1>12 DEF U!Refresh, U!Catalog, U!Releases, U!At, U!Refreshing, U!Awakened, U!TypeOK,
                       U!Promotes, U!Versions, U!NoFetch, U!Sent
  <2>4. ASSUME NEW d \in Calls PROVE U!Inferred(d)'
    BY <1>0, <1>12 DEF U!Refresh, U!Catalog, U!Releases, U!At, U!Refreshing, U!Inferred, U!TypeOK,
                       U!Promotes, U!Unknown, U!Channels, U!Versions
  <2>5. ASSUME NEW d \in Calls PROVE U!Judged(d)'
    BY <1>0, <1>12 DEF U!Refresh, U!Catalog, U!Releases, U!At, U!Refreshing, U!Judged, U!TypeOK,
                       U!Promotes, U!Unknown, U!Eligible, U!CheckUpgradePath, U!Versions
  <2> QED
    BY <2>1, <2>2, <2>3, <2>4, <2>5 DEF U!UpgradeInv
<1>13. ASSUME NEW c \in Calls, U!Nothing(c) PROVE U!UpgradeInv'
  <2>1. U!TypeOK'
    BY <1>0, <1>13 DEF U!Nothing, U!Catalog, U!Releases, U!Idle, U!TypeOK, U!Promotes, U!Channels,
                       U!Versions, U!NoFetch, U!Sent
  <2>2. U!NothingMissed'
    BY <1>0, <1>13 DEF U!Nothing, U!Catalog, U!Releases, U!At, U!Idle, U!NothingMissed, U!TypeOK,
                       U!Eligible
  <2>3. ASSUME NEW d \in Calls PROVE U!Awakened(d)'
    BY <1>0, <1>13 DEF U!Nothing, U!Catalog, U!Releases, U!At, U!Idle, U!Awakened, U!TypeOK,
                       U!Versions, U!NoFetch
  <2>4. ASSUME NEW d \in Calls PROVE U!Inferred(d)'
    BY <1>0, <1>13 DEF U!Nothing, U!Catalog, U!Releases, U!At, U!Idle, U!Inferred, U!TypeOK,
                       U!Promotes, U!Unknown, U!Channels, U!Versions
  <2>5. ASSUME NEW d \in Calls PROVE U!Judged(d)'
    BY <1>0, <1>13 DEF U!Nothing, U!Catalog, U!Releases, U!At, U!Idle, U!Judged, U!TypeOK,
                       U!Unknown, U!Eligible, U!CheckUpgradePath
  <2> QED
    BY <2>1, <2>2, <2>3, <2>4, <2>5 DEF U!UpgradeInv
<1>14. ASSUME NEW c \in Calls, U!Enter(c) PROVE U!UpgradeInv'
  <2>1. U!TypeOK'
    <3>1. call[c] \in U!Promotes
      BY <1>0 DEF U!TypeOK
    <3>7. [call[c] EXCEPT !.at = "judging"] \in U!Promotes /\ U!Idle \in U!Promotes
      BY <3>1, IdleIs DEF U!Promotes
    <3>8. call' \in [Calls -> U!Promotes]
      BY <1>0, <1>14, <3>7 DEF U!Enter, U!TypeOK
    <3> QED
      BY <1>0, <1>14, <3>8 DEF U!Enter, U!Catalog, U!Releases, U!TypeOK
  <2>2. U!NothingMissed'
    BY <1>0, <1>14 DEF U!Enter, U!Catalog, U!Releases, U!At, U!Idle, U!NothingMissed, U!TypeOK,
                       U!Promotes, U!Eligible
  <2>3. ASSUME NEW d \in Calls PROVE U!Awakened(d)'
    BY <1>0, <1>14 DEF U!Enter, U!Catalog, U!Releases, U!At, U!Idle, U!Awakened, U!TypeOK,
                       U!Promotes, U!Versions, U!NoFetch, U!Sent
  <2>4. ASSUME NEW d \in Calls PROVE U!Inferred(d)'
    BY <1>0, <1>14 DEF U!Enter, U!Catalog, U!Releases, U!At, U!Idle, U!Inferred, U!TypeOK,
                       U!Promotes, U!Unknown, U!Channels, U!Versions
  <2>5. ASSUME NEW d \in Calls PROVE U!Judged(d)'
    BY <1>0, <1>14 DEF U!Enter, U!Catalog, U!Releases, U!At, U!Idle, U!Judged, U!TypeOK, U!Promotes,
                       U!Unknown, U!Eligible, U!CheckUpgradePath, U!Versions
  <2> QED
    BY <2>1, <2>2, <2>3, <2>4, <2>5 DEF U!UpgradeInv
<1>15. ASSUME NEW c \in Calls, U!Judge(c) PROVE U!UpgradeInv'
  <2>1. U!TypeOK'
    <3>1. call[c] \in U!Promotes /\ (deployment.version # deployment.running) \in BOOLEAN
      BY <1>0 DEF U!TypeOK
    <3>7. /\ [call[c] EXCEPT !.at = "staging", !.raced = deployment.version # deployment.running] \in U!Promotes
          /\ U!Idle \in U!Promotes
      BY <3>1, IdleIs DEF U!Promotes
    <3>8. call' \in [Calls -> U!Promotes]
      BY <1>0, <1>15, <3>7 DEF U!Judge, U!TypeOK
    <3> QED
      BY <1>0, <1>15, <3>8 DEF U!Judge, U!Catalog, U!Releases, U!TypeOK
  <2>2. U!NothingMissed'
    BY <1>0, <1>15 DEF U!Judge, U!Catalog, U!Releases, U!At, U!Idle, U!NothingMissed, U!TypeOK,
                       U!Eligible
  <2>3. ASSUME NEW d \in Calls PROVE U!Awakened(d)'
    BY <1>0, <1>15 DEF U!Judge, U!Catalog, U!Releases, U!At, U!Idle, U!Awakened, U!TypeOK,
                       U!Versions, U!NoFetch
  <2>4. ASSUME NEW d \in Calls PROVE U!Inferred(d)'
    BY <1>0, <1>15 DEF U!Judge, U!Catalog, U!Releases, U!At, U!Idle, U!JudgedFrom, U!Inferred,
                       U!TypeOK, U!Promotes, U!Unknown, U!Channels, U!Versions
  <2>5. ASSUME NEW d \in Calls PROVE U!Judged(d)'
    <3>1. call[c] \in U!Promotes /\ U!At(c, "judging")
      BY <1>0, <1>15 DEF U!Judge, U!TypeOK
    <3>2. CASE d # c
      <4>1. call'[d] = call[d] /\ UNCHANGED <<index, deployment>>
        BY <1>0, <1>15, <3>2 DEF U!Judge, U!Catalog, U!Releases, U!TypeOK
      <4> QED
        BY <1>0, <4>1 DEF U!Judged, U!At, U!Eligible, U!CheckUpgradePath
    <3>3. CASE d = c /\ ~U!CheckUpgradePath(U!JudgedFrom(c), call[c].target)
      <4>1. call'[c].at = "idle"
        BY <1>0, <1>15, <3>3, IdleIs DEF U!Judge, U!TypeOK
      <4> QED
        BY <3>3, <4>1 DEF U!Judged, U!At
    <3>4. CASE d = c /\ U!CheckUpgradePath(U!JudgedFrom(c), call[c].target)
      <4>1. /\ call'[c].at = "staging" /\ call'[c].target = call[c].target
            /\ call'[c].channel = call[c].channel
            /\ call'[c].raced = (deployment.version # deployment.running)
            /\ UNCHANGED <<index, deployment>>
        BY <1>0, <1>15, <3>1, <3>4 DEF U!Judge, U!Catalog, U!Releases, U!TypeOK, U!Promotes
      <4>2. call[c].target \in 1..index /\ U!Eligible(call[c].target, call[c].channel)
        BY <1>0, <3>1 DEF U!Judged
      <4> QED
        BY <3>4, <4>1, <4>2 DEF U!Judged, U!At, U!Eligible, U!CheckUpgradePath, U!JudgedFrom
    <3> QED
      BY <3>2, <3>3, <3>4
  <2> QED
    BY <2>1, <2>2, <2>3, <2>4, <2>5 DEF U!UpgradeInv
<1>16. ASSUME NEW c \in Calls, U!Switch(c) PROVE U!UpgradeInv'
  <2>1. U!TypeOK'
    <3>1. U!Overtaken \in [Calls -> U!Promotes]
      BY <1>0, OvertakenIs
    <3>2. [U!Overtaken[c] EXCEPT !.at = "recording"] \in U!Promotes
      BY <3>1 DEF U!Promotes
    <3>3. call' \in [Calls -> U!Promotes]
      BY <1>16, <3>1, <3>2 DEF U!Switch
    <3>4. call[c].target \in 1..index
      BY <1>0, <1>16 DEF U!Switch, U!Judged, U!At
    <3>5. deployment' \in [running : 1..index, version : 1..index, channel : U!Channels]
      BY <1>0, <1>16, <3>4 DEF U!Switch, U!TypeOK
    <3> QED
      BY <1>0, <1>16, <3>3, <3>5 DEF U!Switch, U!Catalog, U!TypeOK
  <2>2. U!NothingMissed'
    BY <1>0, <1>16 DEF U!Switch, U!Catalog, U!Releases, U!At, U!Overtaken, U!NothingMissed,
                       U!TypeOK, U!Promotes, U!Eligible, U!Awakened
  <2>3. ASSUME NEW d \in Calls PROVE U!Awakened(d)'
    BY <1>0, <1>16 DEF U!Switch, U!Catalog, U!Releases, U!At, U!Overtaken, U!Awakened, U!TypeOK,
                       U!Promotes, U!Versions, U!NoFetch, U!Sent
  <2>4. ASSUME NEW d \in Calls PROVE U!Inferred(d)'
    BY <1>0, <1>16 DEF U!Switch, U!Catalog, U!Releases, U!At, U!Overtaken, U!Inferred, U!TypeOK,
                       U!Promotes, U!Unknown, U!Channels, U!Versions
  <2>5. ASSUME NEW d \in Calls PROVE U!Judged(d)'
    BY <1>0, <1>16 DEF U!Switch, U!Catalog, U!Releases, U!At, U!Overtaken, U!Judged, U!TypeOK,
                       U!Promotes, U!Unknown, U!Eligible, U!CheckUpgradePath, U!Versions
  <2> QED
    BY <2>1, <2>2, <2>3, <2>4, <2>5 DEF U!UpgradeInv
<1>17. ASSUME NEW c \in Calls, U!Abandon(c) PROVE U!UpgradeInv'
  <2>1. U!TypeOK'
    BY <1>0, <1>17 DEF U!Abandon, U!Catalog, U!Releases, U!Idle, U!TypeOK, U!Promotes, U!Channels,
                       U!Versions, U!NoFetch, U!Sent
  <2>2. U!NothingMissed'
    BY <1>0, <1>17 DEF U!Abandon, U!Catalog, U!Releases, U!At, U!Idle, U!NothingMissed, U!TypeOK,
                       U!Eligible
  <2>3. ASSUME NEW d \in Calls PROVE U!Awakened(d)'
    BY <1>0, <1>17 DEF U!Abandon, U!Catalog, U!Releases, U!At, U!Idle, U!Awakened, U!TypeOK,
                       U!Versions, U!NoFetch
  <2>4. ASSUME NEW d \in Calls PROVE U!Inferred(d)'
    BY <1>0, <1>17 DEF U!Abandon, U!Catalog, U!Releases, U!At, U!Idle, U!Inferred, U!TypeOK,
                       U!Promotes, U!Unknown, U!Channels, U!Versions
  <2>5. ASSUME NEW d \in Calls PROVE U!Judged(d)'
    BY <1>0, <1>17 DEF U!Abandon, U!Catalog, U!Releases, U!At, U!Idle, U!Judged, U!TypeOK,
                       U!Unknown, U!Eligible, U!CheckUpgradePath
  <2> QED
    BY <2>1, <2>2, <2>3, <2>4, <2>5 DEF U!UpgradeInv
<1>18. ASSUME NEW c \in Calls, U!Record(c) PROVE U!UpgradeInv'
  <2>1. U!TypeOK'
    <3>1. call' \in [Calls -> U!Promotes]
      BY <1>0, <1>18, IdleIs DEF U!Record, U!TypeOK
    <3>2. call[c].target \in 1..index
      BY <1>0, <1>18 DEF U!Record, U!Judged, U!At
    <3>3. deployment' \in [running : 1..index, version : 1..index, channel : U!Channels]
      BY <1>0, <1>18, <3>2 DEF U!Record, U!TypeOK
    <3> QED
      BY <1>0, <1>18, <3>1, <3>3 DEF U!Record, U!Catalog, U!TypeOK
  <2>2. U!NothingMissed'
    BY <1>0, <1>18 DEF U!Record, U!Catalog, U!At, U!Idle, U!NothingMissed, U!TypeOK, U!Eligible
  <2>3. ASSUME NEW d \in Calls PROVE U!Awakened(d)'
    BY <1>0, <1>18 DEF U!Record, U!Catalog, U!At, U!Idle, U!Awakened, U!TypeOK, U!Versions,
                       U!NoFetch
  <2>4. ASSUME NEW d \in Calls PROVE U!Inferred(d)'
    BY <1>0, <1>18 DEF U!Record, U!Catalog, U!Releases, U!At, U!Idle, U!Inferred, U!TypeOK,
                       U!Promotes, U!Unknown, U!Channels, U!Versions
  <2>5. ASSUME NEW d \in Calls PROVE U!Judged(d)'
    BY <1>0, <1>18 DEF U!Record, U!Catalog, U!At, U!Idle, U!Judged, U!TypeOK, U!Unknown, U!Eligible,
                       U!CheckUpgradePath
  <2> QED
    BY <2>1, <2>2, <2>3, <2>4, <2>5 DEF U!UpgradeInv
<1> QED
  BY <1>1, <1>2, <1>3, <1>4, <1>5, <1>6, <1>7, <1>8, <1>9, <1>10, <1>11, <1>12, <1>13, <1>14, <1>15,
       <1>16, <1>17, <1>18 DEF U!Next

(* It holds at first.                                                       *)
LEMMA FirstUpgrade == ASSUME U!Init PROVE U!UpgradeInv
<1> DEFINE published == v1  index == v2  fetch == v3  deployment == v4  busy == v5  call == v6
             troubles == v7
<1>1. 1 \in U!Versions /\ 1..1 = {1}
  BY VersionsAssumption DEF U!Versions
<1>2. call \in [Calls -> U!Promotes] /\ \A c \in Calls : call[c] = U!Idle
  BY IdleIs DEF U!Init
<1>3. U!TypeOK
  BY <1>1, <1>2 DEF U!Init, U!TypeOK, U!Original, U!NoFetch, U!Channels
<1>4. U!NothingMissed
  BY <1>2, IdleIs DEF U!NothingMissed, U!At
<1>5. \A c \in Calls : U!Awakened(c) /\ U!Inferred(c) /\ U!Judged(c)
  <2> SUFFICES ASSUME NEW c \in Calls PROVE U!Awakened(c) /\ U!Inferred(c) /\ U!Judged(c)
    OBVIOUS
  <2>1. call[c].at = "idle" /\ call[c].seen = 0 /\ call[c].version = 0 /\ published = 1 /\ index = 1
    BY <1>2, IdleIs DEF U!Init, U!Original, U!Unknown
  <2>2. U!Awakened(c)
    BY <2>1 DEF U!Awakened, U!At
  <2>3. U!Inferred(c)
    BY <2>1 DEF U!Inferred, U!At
  <2>4. U!Judged(c)
    BY <2>1 DEF U!Judged, U!At
  <2> QED
    BY <2>2, <2>3, <2>4
<1> QED
  BY <1>3, <1>4, <1>5 DEF U!UpgradeInv

(* What the invariant says of a step that switches.                         *)
LEMMA SwitchIsAllowed == ASSUME U!UpgradeInv PROVE U!AllowedSwitch
<1> DEFINE published == v1  index == v2  fetch == v3  deployment == v4  busy == v5  call == v6
             troubles == v7
<1> SUFFICES ASSUME NEW c \in Calls, U!At(c, "staging"), ~call[c].raced
             PROVE  LET from == deployment.running
                        to   == call[c].target
                    IN  /\ from < to => Floor[to] <= from /\ Waypoints[to] \cap (from+1)..(to-1) = {}
                        /\ to \in Prerelease => call[c].channel = "rc"
                        /\ call[c].inferred /\ to < call[c].version
                             => call[c].version \in Prerelease /\ call[c].channel = "stable"
  BY DEF U!AllowedSwitch
<1>1. U!Inferred(c) /\ U!Judged(c) /\ deployment.running \in Nat
  BY VersionsAssumption DEF U!UpgradeInv, U!TypeOK
<1>2. U!CheckUpgradePath(deployment.running, call[c].target) /\ call[c].target \in Nat
  BY <1>1 DEF U!Judged, U!UpgradeInv, U!TypeOK
<1> QED
  BY <1>1, <1>2 DEF U!Inferred, U!Judged, U!CheckUpgradePath, U!Eligible

(* The invariant holds at first, whichever component runs.                  *)
LEMMA InitUpgrades == Init => UpgradesInv
<1> SUFFICES ASSUME U!Init PROVE U!UpgradeInv
  BY Zenon DEF Init, UpgradesInv
<1> QED
  BY FirstUpgrade

(* It is inductive, and what every step of it does is allowed.              *)
LEMMA NextUpgrades ==
  UpgradesInv /\ [Next]_vars =>
    /\ UpgradesInv'
    /\ [which = "upgrades" => U!AllowedSwitch /\ U!NothingMissed']_vars
<1> SUFFICES ASSUME UpgradesInv, [Next]_vars, which = "upgrades" \/ which' = "upgrades"
             PROVE  U!UpgradeInv' /\ U!AllowedSwitch
  BY DEF UpgradesInv, U!UpgradeInv
<1>1. which = "upgrades"
  BY Zenon DEF Next, vars
<1>2. U!UpgradeInv
  BY <1>1 DEF UpgradesInv
<1>3. CASE Next
  <2>1. U!Next
    BY <1>1, <1>3, Zenon DEF Next
  <2> QED
    BY <1>2, <2>1, UpgradeSteps, SwitchIsAllowed
<1>4. CASE UNCHANGED vars
  <2>1. UNCHANGED <<v1, v2, v3, v4, v5, v6, v7>>
    BY <1>4 DEF vars
  <2>2. U!UpgradeInv'
    BY <1>2, <2>1 DEF U!UpgradeInv, U!TypeOK, U!NothingMissed, U!Awakened, U!Inferred, U!Judged, U!At,
                      U!Eligible, U!CheckUpgradePath
  <2> QED
    BY <1>2, <2>2, SwitchIsAllowed
<1> QED
  BY <1>3, <1>4

(* UpgradesRight: a promote never jumps over a version that is needed in    *)
(* between nor leaves the channel it was decided on, and one that names no  *)
(* version goes back only to where its channel ends and is told that there  *)
(* is nothing newer only when there was not (upgrade-target.ts, server.ts,  *)
(* deployment.ts), but for the cases the property excepts.                  *)
THEOREM UpgradesRightHolds == Spec => UpgradesRight
<1>1. UpgradesInv /\ [Next]_vars =>
        [which = "upgrades" => U!AllowedSwitch /\ U!NothingMissed']_vars
  BY NextUpgrades
<1> QED
  BY <1>1, InitUpgrades, NextUpgrades, PTL DEF Spec, UpgradesRight

-----------------------------------------------------------------------------
(* The inductive invariant of an install from a capture, while it runs.     *)
RestoringInv == which = "restore" => R!InstallInv

(* It holds at first.                                                       *)
LEMMA InitRestoring == Init => RestoringInv
<1> SUFFICES ASSUME R!Init PROVE R!InstallInv
  BY Zenon DEF Init, RestoringInv
<1> QED
  BY DEF R!Init, R!InstallInv, R!Shapes, R!Records, R!Stages, R!Roots, R!Actions, R!NoJob,
         R!RecordsTrue, R!KnownAsOwn, R!OwnLeftovers, R!AtItsStage, R!RefusedEnds, R!RefusalRight

(* A job that only goes to another stage, and what it needs to go there.    *)
LEMMA GoesToStage ==
  ASSUME R!InstallInv, UNCHANGED <<v1, v2, v3>>, NEW stage \in R!Stages, R!GoTo(stage),
         v5.at \notin {"failing", "idle"},
         stage \in {"acquiring", "quiescing", "capturing", "marking"} => v3 = "empty",
         stage \notin {"landing", "applying"},
         stage = "upping" /\ v5.act = "start" /\ ~v1.promoted => v3 = "restored"
  PROVE  R!InstallInv'
<1>1. v5' \in [at : R!Stages, act : R!Actions \cup {"none"},
               refusal : {"none", "RESTORE_INCOMPLETE", "RESTORE_TARGET_NOT_EMPTY"}]
      /\ v5'.at = stage /\ v5'.act = v5.act /\ v5'.refusal = "none"
  BY DEF R!InstallInv, R!Shapes, R!RefusedEnds, R!GoTo
<1> QED
  BY <1>1 DEF R!InstallInv, R!Shapes, R!RecordsTrue, R!KnownAsOwn, R!AtItsStage, R!RefusedEnds,
              R!RefusalRight

(* A step that writes the record, once it is known what it leaves.          *)
LEMMA WritesRecord ==
  ASSUME R!InstallInv, UNCHANGED v3, v1' \in R!Records, v2' \in {v1', v2},
         v1'.restored = v1.restored, v1'.promoted = v1.promoted,
         v1.started => v1'.started,
         NEW stage \in R!Stages, R!GoTo(stage),
         \/ stage \in {"idle", "failing"}
         \/ v5.at = "marking" /\ stage = "landing" /\ v1'.started /\ v2' = v1',
         v5.at # "idle"
  PROVE  R!InstallInv'
<1>1. v5' \in [at : R!Stages, act : R!Actions \cup {"none"},
               refusal : {"none", "RESTORE_INCOMPLETE", "RESTORE_TARGET_NOT_EMPTY"}]
      /\ v5'.at = stage /\ v5'.act = v5.act /\ v5'.refusal = v5.refusal
  BY DEF R!InstallInv, R!Shapes, R!GoTo
<1>2. R!Shapes'
  BY <1>1 DEF R!InstallInv, R!Shapes
<1>3. R!RecordsTrue' /\ R!KnownAsOwn'
  BY <1>1 DEF R!InstallInv, R!Shapes, R!RecordsTrue, R!KnownAsOwn, R!OwnLeftovers
<1>4. R!AtItsStage' /\ R!RefusedEnds' /\ R!RefusalRight'
  BY <1>1 DEF R!InstallInv, R!Shapes, R!AtItsStage, R!RefusedEnds, R!RefusalRight
<1> QED
  BY <1>2, <1>3, <1>4 DEF R!InstallInv

LEMMA RestoringJobKeeps == ASSUME R!InstallInv, R!JobStep PROVE R!InstallInv'
<1> USE DEF R!JobStep
<1>1. CASE R!Choose
  <2>1. CASE v5.act = "stop" /\ v1' = [v1 EXCEPT !.status = "stopped"] /\ R!Persist("idle")
    <3>1. v1' \in R!Records /\ v1'.restored = v1.restored /\ v1'.promoted = v1.promoted
          /\ v1'.started = v1.started
      BY <2>1 DEF R!InstallInv, R!Shapes, R!Records
    <3>2. PICK stage \in R!Stages : /\ R!GoTo(stage) /\ v2' \in {v1', v2}
                                    /\ stage \in {"idle", "failing"}
      <4>1. "idle" \in R!Stages /\ "failing" \in R!Stages
        BY DEF R!Stages
      <4> QED
        BY <2>1, <4>1 DEF R!Persist, R!Fails
    <3>3. UNCHANGED v3 /\ v5.at # "idle"
      BY <1>1 DEF R!Choose
    <3> QED
      BY <3>1, <3>2, <3>3, WritesRecord
  <2>2. CASE /\ R!GoTo(IF v5.act = "start" /\ R!WillRestore THEN "checking" ELSE "upping")
             /\ UNCHANGED <<v1, v2>>
    <3> DEFINE stage == IF v5.act = "start" /\ R!WillRestore THEN "checking" ELSE "upping"
    <3>1. stage \in R!Stages /\ stage \notin {"landing", "applying", "acquiring", "quiescing", "capturing", "marking"}
      BY DEF R!Stages
    <3>2. stage = "upping" /\ v5.act = "start" /\ ~v1.promoted => v3 = "restored"
      BY DEF R!InstallInv, R!RecordsTrue, R!WillRestore
    <3>3. UNCHANGED v3 /\ v5.at = "choosing"
      BY <1>1 DEF R!Choose
    <3> HIDE DEF stage
    <3>4. R!GoTo(stage) /\ UNCHANGED <<v1, v2, v3>>
      BY <2>2, <3>3 DEF stage
    <3> QED
      BY <3>1, <3>2, <3>3, <3>4, GoesToStage
  <2>3. CASE R!Fails /\ UNCHANGED <<v1, v2>>
    <3>1. "failing" \in R!Stages
      BY DEF R!Stages
    <3> QED
      BY <1>1, <2>3, <3>1, GoesToStage DEF R!Choose, R!Fails
  <2> QED
    BY <1>1, <2>1, <2>2, <2>3 DEF R!Choose
<1>2. CASE R!CheckTarget
  <2>1. CASE v3 = "empty"
    <3>1. "acquiring" \in R!Stages
      BY DEF R!Stages
    <3> QED
      BY <1>2, <2>1, <3>1, GoesToStage DEF R!CheckTarget, R!GoTo
  <2>2. CASE v3 # "empty"
    <3>1. /\ R!Refusal \in {"RESTORE_INCOMPLETE", "RESTORE_TARGET_NOT_EMPTY"}
          /\ R!Refusal = "RESTORE_TARGET_NOT_EMPTY" => ~v1.started
      BY DEF R!Refusal
    <3>2. v5' = [v5 EXCEPT !.at = "failing", !.refusal = R!Refusal] /\ UNCHANGED <<v1, v2, v3>>
      BY <1>2, <2>2 DEF R!CheckTarget
    <3>3. /\ v5' \in [at : R!Stages, act : R!Actions \cup {"none"},
                      refusal : {"none", "RESTORE_INCOMPLETE", "RESTORE_TARGET_NOT_EMPTY"}]
          /\ v5'.at = "failing" /\ v5'.refusal = R!Refusal
      BY <3>1, <3>2 DEF R!InstallInv, R!Shapes, R!Stages
    <3> QED
      BY <3>1, <3>2, <3>3 DEF R!InstallInv, R!Shapes, R!RecordsTrue, R!KnownAsOwn, R!OwnLeftovers,
         R!AtItsStage, R!RefusedEnds, R!RefusalRight
  <2> QED
    BY <2>1, <2>2
<1>3. CASE R!CheckSource \/ R!Quiesce \/ R!Capture
  <2>1. v3 = "empty" /\ UNCHANGED <<v1, v2, v3>> /\ v5.at \in {"acquiring", "quiescing", "capturing"}
    BY <1>3 DEF R!CheckSource, R!Quiesce, R!Capture, R!InstallInv, R!AtItsStage
  <2>2. \E stage \in {"quiescing", "capturing", "marking", "failing"} : R!GoTo(stage)
    BY <1>3 DEF R!CheckSource, R!Quiesce, R!Capture, R!Fails
  <2>3. {"quiescing", "capturing", "marking", "failing"} \subseteq R!Stages
    BY DEF R!Stages
  <2> QED
    BY <2>1, <2>2, <2>3, GoesToStage
<1>4. CASE R!Mark
  <2>1. v1' \in R!Records /\ v1'.restored = v1.restored /\ v1'.promoted = v1.promoted /\ v1'.started
    BY <1>4 DEF R!Mark, R!InstallInv, R!Shapes, R!Records
  <2>2. PICK stage \in R!Stages : /\ R!GoTo(stage) /\ v2' \in {v1', v2}
                                  /\ (stage = "landing" /\ v2' = v1') \/ stage = "failing"
    <3>1. "landing" \in R!Stages /\ "failing" \in R!Stages
      BY DEF R!Stages
    <3> QED
      BY <1>4, <3>1 DEF R!Mark, R!Persist, R!Fails
  <2>3. UNCHANGED v3 /\ v5.at = "marking"
    BY <1>4 DEF R!Mark
  <2> QED
    BY <2>1, <2>2, <2>3, WritesRecord
<1>5. CASE R!Land
  <2>1. /\ UNCHANGED <<v1, v2>> /\ v5.at = "landing" /\ v1.started /\ v2.started
        /\ ~v1.restored /\ ~v2.restored /\ v5.refusal = "none"
    BY <1>5 DEF R!Land, R!InstallInv, R!AtItsStage, R!KnownAsOwn, R!RecordsTrue, R!RefusedEnds
  <2>2. \/ v3' = "payload" /\ R!GoTo("applying")
        \/ v3' \in {"empty", "part"} /\ R!GoTo("failing")
    BY <1>5 DEF R!Land, R!Fails
  <2>3. /\ v5' \in [at : R!Stages, act : R!Actions \cup {"none"},
                    refusal : {"none", "RESTORE_INCOMPLETE", "RESTORE_TARGET_NOT_EMPTY"}]
        /\ v5'.refusal = "none"
        /\ \/ v3' = "payload" /\ v5'.at = "applying"
           \/ v3' \in {"empty", "part"} /\ v5'.at = "failing"
    BY <2>1, <2>2 DEF R!GoTo, R!InstallInv, R!Shapes, R!Stages
  <2> QED
    BY <2>1, <2>3 DEF R!InstallInv, R!Shapes, R!Roots, R!RecordsTrue, R!KnownAsOwn, R!AtItsStage,
       R!RefusedEnds, R!RefusalRight
<1>6. CASE R!Apply
  <2>1. /\ UNCHANGED v2 /\ v5.at = "applying" /\ v3 = "payload" /\ v1.started /\ v2.started
        /\ ~v1.restored /\ ~v2.restored /\ v5.refusal = "none"
    BY <1>6 DEF R!Apply, R!InstallInv, R!AtItsStage, R!KnownAsOwn, R!OwnLeftovers, R!RecordsTrue,
       R!RefusedEnds
  <2>2. CASE v3' = "restored" /\ v1' = [v1 EXCEPT !.restored = TRUE] /\ R!GoTo("upping")
    <3>1. v1' \in R!Records /\ v1'.started
      BY <2>1, <2>2 DEF R!InstallInv, R!Shapes, R!Records
    <3>2. /\ v5' \in [at : R!Stages, act : R!Actions \cup {"none"},
                      refusal : {"none", "RESTORE_INCOMPLETE", "RESTORE_TARGET_NOT_EMPTY"}]
          /\ v5'.refusal = "none" /\ v5'.at = "upping"
      BY <2>1, <2>2 DEF R!GoTo, R!InstallInv, R!Shapes, R!Stages
    <3> QED
      BY <2>1, <2>2, <3>1, <3>2 DEF R!InstallInv, R!Shapes, R!Roots, R!RecordsTrue, R!KnownAsOwn,
         R!AtItsStage, R!RefusedEnds, R!RefusalRight
  <2>3. CASE R!Fails /\ UNCHANGED <<v1, v3>>
    <3>1. "failing" \in R!Stages
      BY DEF R!Stages
    <3> QED
      BY <2>1, <2>3, <3>1, GoesToStage DEF R!Fails
  <2> QED
    BY <1>6, <2>2, <2>3 DEF R!Apply
<1>7. CASE R!ComposeUp
  <2>1. /\ UNCHANGED <<v1, v2>> /\ v5.at = "upping" /\ v5.refusal = "none"
        /\ v3' = IF v3 = "empty" THEN "own" ELSE v3
    BY <1>7 DEF R!ComposeUp, R!InstallInv, R!RefusedEnds
  <2>2. R!GoTo("ending") \/ R!GoTo("failing")
    BY <1>7 DEF R!ComposeUp, R!Fails
  <2>3. /\ v5' \in [at : R!Stages, act : R!Actions \cup {"none"},
                    refusal : {"none", "RESTORE_INCOMPLETE", "RESTORE_TARGET_NOT_EMPTY"}]
        /\ v5'.refusal = "none" /\ v5'.at \in {"ending", "failing"}
    BY <2>1, <2>2 DEF R!GoTo, R!InstallInv, R!Shapes, R!Stages
  <2> QED
    BY <2>1, <2>3 DEF R!InstallInv, R!Shapes, R!Roots, R!RecordsTrue, R!KnownAsOwn, R!OwnLeftovers,
       R!AtItsStage, R!RefusedEnds, R!RefusalRight
<1>8. CASE R!End
  <2>1. v1' \in R!Records /\ v1'.restored = v1.restored /\ v1'.promoted = v1.promoted
        /\ v1'.started = v1.started
    BY <1>8 DEF R!End, R!InstallInv, R!Shapes, R!Records
  <2>2. PICK stage \in R!Stages : /\ R!GoTo(stage) /\ v2' \in {v1', v2}
                                  /\ stage \in {"idle", "failing"}
    <3>1. "idle" \in R!Stages /\ "failing" \in R!Stages
      BY DEF R!Stages
    <3> QED
      BY <1>8, <3>1 DEF R!End, R!Persist, R!Fails
  <2>3. UNCHANGED v3 /\ v5.at # "idle"
    BY <1>8 DEF R!End
  <2> QED
    BY <2>1, <2>2, <2>3, WritesRecord
<1>9. CASE R!Fail
  <2>1. v1' \in R!Records /\ v1'.restored = v1.restored /\ v1'.promoted = v1.promoted
        /\ v1'.started = v1.started
    BY <1>9 DEF R!Fail, R!InstallInv, R!Shapes, R!Records
  <2>2. "idle" \in R!Stages
    BY DEF R!Stages
  <2>3. UNCHANGED v3 /\ v2' \in {v1', v2} /\ R!GoTo("idle") /\ v5.at # "idle"
    BY <1>9 DEF R!Fail
  <2> QED
    BY <2>1, <2>2, <2>3, WritesRecord
<1> QED
  BY <1>1, <1>2, <1>3, <1>4, <1>5, <1>6, <1>7, <1>8, <1>9

LEMMA NextRestoring == RestoringInv /\ [Next]_vars => RestoringInv'
<1> SUFFICES ASSUME R!InstallInv, [R!Next]_(R!vars) PROVE R!InstallInv'
  BY Zenon DEF RestoringInv, Next, vars, R!vars
<1>1. CASE R!JobStep
  BY <1>1, RestoringJobKeeps
<1>2. CASE R!Promote \/ \E a \in R!Actions : R!Act(a)
  <2>1. /\ v1' \in R!Records /\ v1'.restored = v1.restored /\ v1'.started = v1.started
        /\ v2' = v1' /\ UNCHANGED v3
    BY <1>2 DEF R!Promote, R!Act, R!InstallInv, R!Shapes, R!Records
  <2>2. /\ v5' \in [at : R!Stages, act : R!Actions \cup {"none"},
                    refusal : {"none", "RESTORE_INCOMPLETE", "RESTORE_TARGET_NOT_EMPTY"}]
        /\ v5'.at \in {"idle", "choosing"}
        /\ v5' = v5 \/ v5'.refusal = "none"
    BY <1>2 DEF R!Promote, R!Act, R!InstallInv, R!Shapes, R!Stages
  <2> QED
    BY <2>1, <2>2 DEF R!InstallInv, R!Shapes, R!RecordsTrue, R!KnownAsOwn, R!AtItsStage,
       R!RefusedEnds, R!RefusalRight
<1>3. CASE R!Crash
  <2>1. /\ v1' = v2 /\ UNCHANGED v2 /\ v5' = R!NoJob
        /\ v3' \in IF v5.at = "landing" THEN {"empty", "part", "payload"} ELSE {v3}
    BY <1>3 DEF R!Crash
  <2>2. /\ v5' \in [at : R!Stages, act : R!Actions \cup {"none"},
                    refusal : {"none", "RESTORE_INCOMPLETE", "RESTORE_TARGET_NOT_EMPTY"}]
        /\ v5'.at = "idle" /\ v5'.refusal = "none"
    BY <2>1 DEF R!NoJob, R!Stages
  <2>3. v5.at = "landing" => ~v2.restored /\ v2.started
    BY DEF R!InstallInv, R!AtItsStage, R!RecordsTrue, R!KnownAsOwn
  <2> QED
    BY <2>1, <2>2, <2>3 DEF R!InstallInv, R!Shapes, R!Roots, R!RecordsTrue, R!KnownAsOwn,
       R!AtItsStage, R!RefusedEnds, R!RefusalRight
<1>4. CASE (\E s \in {"running", "stopped", "changing", "gone"} : R!SourceMoves(s))
           \/ UNCHANGED R!vars
  BY <1>4 DEF R!SourceMoves, R!vars, R!InstallInv, R!Shapes, R!RecordsTrue, R!KnownAsOwn,
     R!AtItsStage, R!RefusedEnds, R!RefusalRight
<1> QED
  BY <1>1, <1>2, <1>3, <1>4 DEF R!Next

(* However often an install from a capture is tried again, and whatever     *)
(* failed or was lost in a restart before, a start brings the app up on a   *)
(* restored root only, and a refusal that blames somebody else's data is    *)
(* right (performRestoreOnInstall, runLifecycleJob).                        *)
THEOREM StartsRestoredHolds == Spec => StartsRestored
<1>1. RestoringInv /\ [Next]_vars
        => [which = "restore" => R!StartRestored /\ R!RefusalRight']_vars
  <2> SUFFICES ASSUME RestoringInv, Next, which = "restore"
               PROVE  R!StartRestored /\ R!RefusalRight'
    OBVIOUS
  <2>1. R!StartRestored
    BY DEF RestoringInv, R!InstallInv, R!AtItsStage, R!StartRestored, R!ComposeUp
  <2>2. RestoringInv' /\ which' = "restore"
    BY NextRestoring DEF Next
  <2> QED
    BY <2>1, <2>2 DEF RestoringInv, R!InstallInv
<1> QED
  BY <1>1, InitRestoring, NextRestoring, PTL DEF Spec, StartsRestored
=============================================================================
