------------------------------- MODULE Wizard -------------------------------
(***************************************************************************)
(* The install wizard of the web client and the drafts it makes            *)
(* (packages/web/src/pages/InstallWizard.tsx and its draft hooks).  A      *)
(* channel and a restore choice take effect only when a draft is created,  *)
(* so changing one removes the draft and makes another.  Every keystroke   *)
(* sends the settings as they are then; requests cross each other on the   *)
(* way, and the functions that sent them go on after the page is left.     *)
(*                                                                         *)
(* The steps between the first and the last are one.  What the checks of   *)
(* parameters and host say is left out, and so are the secrets generated   *)
(* for a new draft, and what the page shows but no update ever sends: the  *)
(* volumes, a compose override that was emptied, the list of uploads.      *)
(* Where functions that replace, install or remove the draft cross each    *)
(* other, the model stops: nothing is promised then.                       *)
(***************************************************************************)
EXTENDS Integers, FiniteSets

CONSTANTS MaxDrafts,
  MaxEdits,      \* bound on the edits of a form
  MaxUpdates,    \* bound on updates that are on their way
  MaxTroubles    \* bound on requests that fail

Ids     == 1..MaxDrafts
None    == 0
Choices == [channel : {1, 2}, restore : {1, 2}]
Tasks   == {"mount", "channel", "restore"}   \* the effect, switchChannel, applyRestoreChoice
Kinds   == {"app", "system"}   \* appEnv, ports, composeOverride; systemOverrides
Forms   == [Kinds -> Int]

VARIABLES
  drafts,      \* the server's: what each was created for, its settings, what was staged
  deployed,    \* what the server has installed: in what it is as was shown then
  page,        \* the step that is shown, or "left"
  chosen,      \* channel and restoreChoiceRef
  draft,       \* createDraftHook.data
  form,        \* the settings shown of each kind, numbered by their edits
  loading,     \* the loading flags of the hooks
  task,        \* the functions that replace the draft
  patches,     \* updates on their way
  removals,    \* removals on their way that nobody waits for
  install,     \* handleInstall
  excuses,
  troubles

vars == <<drafts, deployed, page, chosen, draft, form, loading, task, patches, removals,
          install, excuses, troubles>>

First     == [channel |-> 1, restore |-> 1]
All(n)    == [k \in Kinds |-> n]
NoDraft   == [for |-> First, settings |-> All(-1), staged |-> All(-1), there |-> FALSE]
Quiet     == [at |-> "idle", old |-> None, for |-> First, previous |-> First]
NoInstall == [at |-> "no", draft |-> None, shown |-> First, settings |-> All(-1), excused |-> {}]
Installed == [asShown : SUBSET ({"choice"} \cup Kinds), excused : SUBSET {"carried", "mishap"}]

(* No draft is made before the restore step is decided. *)
Init ==
  /\ drafts = [d \in Ids |-> NoDraft] /\ deployed = {}
  /\ page = "restore" /\ chosen = First
  /\ draft = None /\ form = All(0) /\ loading = {}
  /\ task = [t \in Tasks |-> [Quiet EXCEPT !.at = IF t = "mount" THEN "due" ELSE "idle"]]
  /\ patches = {} /\ removals = {} /\ install = NoInstall
  /\ excuses = {} /\ troubles = 0

Open      == page # "left"
Rendered  == Open /\ (draft # None \/ page = "restore")
Replacing == {t \in Tasks : task[t].at \notin {"idle", "due"}}
Trouble   == troubles < MaxTroubles /\ troubles' = troubles + 1
Excuse(why, when) == excuses' = excuses \cup {e \in {why} : when}

-----------------------------------------------------------------------------
(* createAndSeedDraft: the request is on its way. *)
Creating(t, choice) ==
  [task EXCEPT ![t].at = "creating", ![t].old = None, ![t].for = choice]

(* applyRestoreChoice without a draft. The first time, the effect makes one.*)
Decide(r) ==
  /\ page = "restore" /\ draft = None /\ task["restore"].at = "idle"
  /\ chosen' = [chosen EXCEPT !.restore = r]
  /\ page' = "settings"
  /\ IF task["mount"].at = "due"
     THEN task' = Creating("mount", chosen') /\ loading' = loading \cup {"create"}
     ELSE UNCHANGED <<task, loading>>
  /\ Excuse("crossed", Replacing # {})
  /\ UNCHANGED <<drafts, deployed, draft, form, patches, removals, install, troubles>>

(* retryDraft *)
Retry ==
  /\ Open /\ draft = None /\ loading = {} /\ task["mount"].at = "idle"
  /\ task' = Creating("mount", chosen) /\ loading' = {"create"}
  /\ Excuse("crossed", Replacing # {})
  /\ UNCHANGED <<drafts, deployed, page, chosen, draft, form, patches, removals, install, troubles>>

(* switchChannel and applyRestoreChoice begin with the removal.             *)
Replace(t, choice) ==
  /\ Rendered /\ draft # None /\ task[t].at = "idle"
  /\ task' = [task EXCEPT ![t] =
       [at |-> "removing", old |-> draft, for |-> choice, previous |-> chosen]]
  /\ Excuse("crossed", Replacing # {} \/ install.at # "no" \/ \E p \in patches : p.then # "stay")
  /\ UNCHANGED <<drafts, deployed, page, chosen, draft, form, loading, patches, removals,
                 install, troubles>>

SwitchChannel(c) == page = "summary" /\ c # chosen.channel
                    /\ Replace("channel", [chosen EXCEPT !.channel = c])
ChangeRestore(r) == page = "restore" /\ r # chosen.restore
                    /\ Replace("restore", [chosen EXCEPT !.restore = r])

(* Mutant: the draft is made for the channel of the page that was rendered. *)
RenderedChoice(t) == chosen

(* What the new draft is created for: switchChannel takes the restore       *)
(* choice there is by now, applyRestoreChoice the channel there was.        *)
NewChoice(t) ==
  IF t = "channel" THEN [task[t].for EXCEPT !.restore = chosen.restore] ELSE task[t].for

(* The settings of the app are those of the new draft; nobody resets the    *)
(* overrides of the system's.                                               *)
Reset == [form EXCEPT !["app"] = 0]

(* The old draft is gone, or its removal failed: the form is reset, the     *)
(* choice shown, the new draft asked for.                                   *)
Removed(t) ==
  /\ task[t].at = "removing"
  /\ \/ /\ drafts' = [drafts EXCEPT ![task[t].old] = NoDraft]
        /\ UNCHANGED <<excuses, troubles>>
     \/ Trouble /\ Excuse("kept", TRUE) /\ UNCHANGED drafts
  /\ task' = Creating(t, NewChoice(t))
  /\ chosen' = IF t = "channel" THEN [chosen EXCEPT !.channel = task[t].for.channel]
               ELSE [chosen EXCEPT !.restore = task[t].for.restore]
  /\ form' = Reset /\ loading' = loading \cup {"create"}
  /\ UNCHANGED <<deployed, page, draft, patches, removals, install>>

(* A number is used again when nothing stands for the draft that had it. *)
Mentioned == {e \in Ids : drafts[e].there} \cup {draft, install.draft} \cup removals
             \cup {p.draft : p \in patches} \cup {task[t].old : t \in Tasks}

(* The server makes the draft. *)
Created(t) ==
  /\ task[t].at = "creating"
  /\ \E d \in Ids \ Mentioned :
       /\ \A e \in Ids \ Mentioned : d <= e
       /\ drafts' = [drafts EXCEPT ![d] =
            [for |-> task[t].for, settings |-> All(0), staged |-> All(-1), there |-> TRUE]]
       /\ task' = [task EXCEPT ![t].at = "created", ![t].old = d]
  /\ UNCHANGED <<deployed, page, chosen, draft, form, loading, patches, removals, install,
                 excuses, troubles>>

(* handleNext waits for applyRestoreChoice, then turns the page.            *)
Turned(t) == IF t = "restore" /\ Open THEN "settings" ELSE page

(* The new draft is without the overrides that are shown, until they are    *)
(* sent again.                                                              *)
Answered(t) ==
  /\ task[t].at = "created"
  /\ draft' = IF Open THEN task[t].old ELSE draft
  /\ form' = Reset /\ loading' = loading \ {"create"}
  /\ Excuse("carried", form["system"] # 0)
  /\ page' = Turned(t)
  /\ task' = [task EXCEPT ![t] = Quiet]
  /\ UNCHANGED <<drafts, deployed, chosen, patches, removals, install, troubles>>

(* Refused, or the answer is lost. The hook drops its data; the choice goes *)
(* back to the one that worked.                                             *)
CreateFails(t) ==
  /\ task[t].at \in {"creating", "created"} /\ Trouble
  /\ Excuse("kept", task[t].at = "created")
  /\ draft' = IF Open THEN None ELSE draft
  /\ loading' = loading \ {"create"}
  /\ chosen' = CASE t = "channel" -> [chosen EXCEPT !.channel = task[t].previous.channel]
                 [] t = "restore" -> [chosen EXCEPT !.restore = task[t].previous.restore]
                 [] OTHER -> chosen
  /\ page' = Turned(t)
  /\ task' = [task EXCEPT ![t] = Quiet]
  /\ UNCHANGED <<drafts, deployed, form, patches, removals, install>>

-----------------------------------------------------------------------------
(* An update of the settings of these kinds. *)
Update(settings, then, sends) ==
  [draft |-> draft, settings |-> [k \in Kinds |-> IF k \in sends THEN settings[k] ELSE 0],
   then |-> then, sends |-> sends]

(* updateEnvVar and its like: shown at once, sent at once, with all of its  *)
(* kind. With a volume, what is sent is all the rest.                       *)
Edit(k) ==
  /\ page = "settings" /\ draft # None /\ Cardinality(patches) < MaxUpdates
  /\ IF k \in Kinds
     THEN form["app"] + form["system"] < MaxEdits /\ form' = [form EXCEPT ![k] = @ + 1]
     ELSE UNCHANGED form
  /\ patches' = patches \cup {Update(form', "stay", IF k \in Kinds THEN {k} ELSE Kinds)}
  /\ loading' = loading \cup {"save"}
  /\ excuses' = excuses \cup {e \in {"mishap"} : \E p \in patches : p.then # "stay"}
                         \cup {e \in {"crossed"} : install.at # "no"}
  /\ UNCHANGED <<drafts, deployed, page, chosen, draft, task, removals, install, troubles>>

Following == [restore |-> "settings", settings |-> "summary"]

(* handleNext sends all the settings and turns the page when that is        *)
(* answered.                                                                *)
Forward ==
  /\ draft # None /\ page \in DOMAIN Following /\ task["restore"].at = "idle"
  /\ page # "restore" => loading = {}
  /\ Cardinality(patches) < MaxUpdates
  /\ patches' = patches \cup {Update(form, Following[page], Kinds)}
  /\ loading' = loading \cup {"save"}
  /\ UNCHANGED <<drafts, deployed, page, chosen, draft, form, task, removals, install, excuses,
                 troubles>>

Back ==
  /\ Rendered
  /\ page' \in CASE page = "summary" -> {"restore", "settings"}
                 [] page = "settings" -> {"restore"} [] OTHER -> {}
  /\ UNCHANGED <<drafts, deployed, chosen, draft, form, loading, task, patches, removals,
                 install, excuses, troubles>>

Applied(p) ==
  IF drafts[p.draft].there
  THEN [drafts EXCEPT ![p.draft].settings =
          [k \in Kinds |-> IF k \in p.sends THEN p.settings[k] ELSE @[k]]]
  ELSE drafts

Overtaken(p) ==
  ~drafts[p.draft].there \/ \E k \in p.sends : p.settings[k] < drafts[p.draft].settings[k]

(* handleNext sent it, with all that is shown. *)
Complete(p) == p.draft = draft /\ p.then # "stay" /\ p.sends = Kinds /\ p.settings = form

(* What the update makes good.                                              *)
MadeGood(p) ==
  {e \in {"mishap"} : Complete(p)}
  \cup {e \in {"carried"} : p.draft = draft /\ "system" \in p.sends
                              /\ p.settings["system"] = form["system"]}

(* An update is answered; a failure is only logged, and the page turns all  *)
(* the same. Until all settings are sent again, an update that was lost or  *)
(* overtaken by a newer one stays so.                                       *)
PatchEnds(p) ==
  /\ p \in patches /\ patches' = patches \ {p}
  /\ \/ /\ drafts' = Applied(p)
        /\ excuses' = IF Overtaken(p) THEN excuses \cup {"mishap"} ELSE excuses \ MadeGood(p)
        /\ UNCHANGED troubles
     \/ Trouble /\ Excuse("mishap", TRUE) /\ UNCHANGED drafts
  /\ loading' = loading \ {"save"}
  /\ page' = IF Open /\ p.then # "stay" THEN p.then ELSE page
  /\ UNCHANGED <<deployed, chosen, draft, form, task, removals, install>>

-----------------------------------------------------------------------------
(* handleInstall: finalize, then create the deployment. *)
Install ==
  /\ page = "summary" /\ draft # None /\ loading = {} /\ install.at = "no"
  /\ install' = [at |-> "finalizing", draft |-> draft, shown |-> chosen, settings |-> form,
                 excused |-> {}]
  /\ loading' = {"install"}
  /\ Excuse("crossed", Replacing # {})
  /\ UNCHANGED <<drafts, deployed, page, chosen, draft, form, task, patches, removals, troubles>>

Finalized ==
  LET d == install.draft IN
  /\ install.at = "finalizing" /\ drafts[d].there
  /\ drafts' = [drafts EXCEPT ![d].staged = drafts[d].settings]
  /\ install' = [install EXCEPT !.at = "deploying", !.excused = excuses \cap {"carried", "mishap"}]
  /\ UNCHANGED <<deployed, page, chosen, draft, form, loading, task, patches, removals, excuses,
                 troubles>>

Deployment ==
  LET d == drafts[install.draft]
  IN  [asShown |-> {x \in {"choice"} : d.for = install.shown}
                     \cup {k \in Kinds : d.staged[k] = install.settings[k]},
       excused |-> install.excused]

(* The page is left for the list, without its cleanup. *)
Deployed ==
  /\ install.at = "deploying" /\ drafts[install.draft].there
  /\ deployed' = {Deployment}
  /\ install' = [NoInstall EXCEPT !.at = "done"]
  /\ page' = "left" /\ form' = All(0) /\ loading' = {}
  /\ UNCHANGED <<drafts, chosen, draft, task, patches, removals, excuses, troubles>>

(* The draft is gone, or the server refuses, or its answer is lost.         *)
InstallFails ==
  /\ install.at \in {"finalizing", "deploying"}
  /\ \/ ~drafts[install.draft].there /\ UNCHANGED <<deployed, troubles>>
     \/ Trouble /\ UNCHANGED deployed
     \/ Trouble /\ install.at = "deploying" /\ drafts[install.draft].there
        /\ deployed' = {Deployment}
  /\ install' = NoInstall /\ loading' = loading \ {"install"}
  /\ UNCHANGED <<drafts, page, chosen, draft, form, task, patches, removals, excuses>>

-----------------------------------------------------------------------------
(* Mutant: the cleanup sees the draft there was when the page was opened.   *)
DraftAtMount == {}

(* draftIdRef.current *)
Abandoned == {draft} \ {None}

(* The page is left and what it shows with it; its draft goes, unless it    *)
(* was installed.                                                           *)
Leave ==
  /\ Open
  /\ page' = "left" /\ form' = All(0) /\ loading' = {}
  /\ removals' = removals \cup Abandoned
  /\ Excuse("crossed", Replacing # {} \/ install.at # "no")
  /\ UNCHANGED <<drafts, deployed, chosen, draft, task, patches, install, troubles>>

RemovalEnds(d) ==
  /\ d \in removals /\ removals' = removals \ {d}
  /\ \/ drafts' = [drafts EXCEPT ![d] = NoDraft] /\ UNCHANGED <<excuses, troubles>>
     \/ Trouble /\ Excuse("kept", TRUE) /\ UNCHANGED drafts
  /\ UNCHANGED <<deployed, page, chosen, draft, form, loading, task, patches, install>>

Next ==
  /\ "crossed" \notin excuses
  /\ \/ \E x \in {1, 2} : Decide(x) \/ SwitchChannel(x) \/ ChangeRestore(x)
     \/ \E t \in Tasks : Removed(t) \/ Created(t) \/ Answered(t) \/ CreateFails(t)
     \/ Retry \/ \E k \in Kinds \cup {"volumes"} : Edit(k)
     \/ Forward \/ Back \/ \E p \in patches : PatchEnds(p)
     \/ Install \/ Finalized \/ Deployed \/ InstallFails
     \/ Leave \/ \E d \in removals : RemovalEnds(d)

Spec == Init /\ [][Next]_vars

-----------------------------------------------------------------------------
(* Types of the variables of the wizard. *)
TypeOK ==
  /\ page \in {"restore", "settings", "summary", "left"} /\ chosen \in Choices
  /\ draft \in Ids \cup {None} /\ form \in [Kinds -> 0..MaxEdits]
  /\ loading \subseteq {"create", "save", "install"}
  /\ deployed \subseteq Installed /\ removals \subseteq Ids

(* What is installed was made for the channel and the restore choice the    *)
(* page showed, with the settings it showed, when Install was clicked.      *)
(* Excused: the draft was being replaced, or the last complete update was   *)
(* lost or overtaken by an older one; and the overrides, when the draft was *)
(* replaced and they have not been sent since.                              *)
AsShown(d) ==
  "mishap" \notin d.excused =>
    {"choice", "app"} \subseteq d.asShown /\ ("system" \in d.asShown \/ "carried" \in d.excused)
InstallsWhatIsShown == "crossed" \notin excuses => \A d \in deployed : AsShown(d)

(* A wizard leaves no draft behind on the server but the one it shows or    *)
(* has installed, unless a request was lost, or it was left, or its draft   *)
(* replaced, in the middle of something.                                    *)
NothingLeftBehind ==
  Replacing = {} /\ removals = {} /\ install.at \in {"no", "done"}
    /\ excuses \cap {"crossed", "kept"} = {}
  => {d \in Ids : drafts[d].there} \subseteq {d \in {draft} : Open \/ deployed # {}}

-----------------------------------------------------------------------------
(* The inductive invariant behind both, as long as nothing crosses.         *)
Drafts   == [for : Choices, settings : Forms, staged : Forms, there : BOOLEAN]
Updates  == [draft : Ids, settings : Forms, then : {"stay", "settings", "summary"},
             sends : SUBSET Kinds]
Stages   == {"idle", "due", "removing", "creating", "created"}
Works    == [at : Stages, old : Ids \cup {None}, for : Choices, previous : Choices]
Tries    == [at : {"no", "finalizing", "deploying", "done"}, draft : Ids \cup {None},
             shown : Choices, settings : Forms, excused : SUBSET {"carried", "mishap"}]
Shapes ==
  /\ drafts \in [Ids -> Drafts] /\ deployed \subseteq Installed
  /\ page \in {"restore", "settings", "summary", "left"}
  /\ chosen \in Choices /\ draft \in Ids \cup {None} /\ form \in Forms
  /\ task \in [Tasks -> Works]
  /\ patches \subseteq Updates /\ removals \subseteq Ids /\ install \in Tries

(* One function at a time replaces the draft, and only while the page is    *)
(* open. Before the old draft is removed, the choice is the one shown with  *)
(* one change; from then on, it is the one shown.                           *)
Replaces ==
  /\ \A t, u \in Replacing : t = u
  /\ Replacing # {} => Open
  /\ Open => removals = {}
  /\ task["mount"].at # "removing" /\ task["channel"].at # "due" /\ task["restore"].at # "due"
  /\ \A t \in Replacing :
       /\ task[t].at = "removing" =>
            /\ task[t].old = draft /\ draft # None
            /\ t = "restore" => task[t].for.channel = chosen.channel
       /\ task[t].at # "removing" =>
            /\ task[t].for = chosen
            /\ draft = None \/ ~drafts[draft].there \/ "kept" \in excuses
       /\ task[t].at = "created" =>
            /\ task[t].old \in Ids \ {draft}
            /\ drafts[task[t].old] = 
                 [for |-> chosen, settings |-> All(0), staged |-> All(-1), there |-> TRUE]
            /\ \A p \in patches : p.draft # task[t].old

(* The draft of an open page is there, was made for what the page shows,    *)
(* and no update is on its way to it that is newer than what is shown.      *)
Shown ==
  Open /\ Replacing = {} /\ draft # None =>
    /\ drafts[draft].there /\ drafts[draft].for = chosen
    /\ \A p \in patches : p.draft = draft => \A k \in p.sends : p.settings[k] <= form[k]

(* The settings are those shown, or were when the draft was replaced.       *)
Matches(settings, shown, excused) ==
  /\ settings["app"] = shown["app"]
  /\ settings["system"] = shown["system"] \/ "carried" \in excused

(* When the draft has other settings than those shown, all of them are      *)
(* still to be sent, or are on their way, before the summary is shown; but  *)
(* for the overrides, after it was replaced.                                *)
Saved ==
  Open /\ Replacing = {} /\ draft # None /\ "mishap" \notin excuses =>
    \/ Matches(drafts[draft].settings, form, excuses)
    \/ /\ page # "summary" /\ install.at = "no"
       /\ \A p \in patches : p.then # "stay" => Complete(p)

(* While it is being installed, what was shown stays as it is.              *)
Installs ==
  install.at \in {"finalizing", "deploying"} =>
    /\ Open /\ Replacing = {} /\ draft # None
    /\ install.draft = draft /\ install.shown = chosen /\ install.settings = form
    /\ install.at = "deploying" /\ "mishap" \notin install.excused
         => Matches(drafts[draft].staged, form, install.excused)

InstalledAsShown == \A d \in deployed : AsShown(d)

(* A draft that is there is shown, or on its way to be, or to be removed.   *)
NoneForgotten ==
  "kept" \notin excuses =>
    \A d \in Ids : drafts[d].there =>
      \/ d \in removals
      \/ d = draft /\ (Open \/ deployed # {})
      \/ \E t \in Replacing : task[t].at = "created" /\ task[t].old = d

Agreed ==
  Shapes /\ Replaces /\ Shown /\ Saved /\ Installs /\ InstalledAsShown /\ NoneForgotten

WizardInv == "crossed" \notin excuses => Agreed
=============================================================================
