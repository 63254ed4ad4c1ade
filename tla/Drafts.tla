------------------------------- MODULE Drafts -------------------------------
(***************************************************************************)
(* One wizard draft, from its creation to the deployment made of it        *)
(* (packages/server/src/services/core/draft.ts): a record in memory, its   *)
(* copy in draft.json, the uploaded files, and what finalize stages for    *)
(* createFromDraft and promote to read.                                    *)
(*                                                                         *)
(* The service takes no lock and looks at no status.  Its calls change the *)
(* one record between their awaits, and writeFile replaces a file as a     *)
(* whole: two writes of draft.json land in either order, each with the     *)
(* record as it was when the write was asked for.                          *)
(*                                                                         *)
(* A draft's settings are abstracted to whether validation accepts them.   *)
(***************************************************************************)
EXTENDS Naturals, FiniteSets

CONSTANTS
  Calls,         \* the requests under way
  MaxFiles,      \* bound on uploads; uploadIds are numbered
  MaxTroubles    \* bound on failed writes and removals, and on restarts

Files    == 1..MaxFiles
Contents == {"valid", "invalid"}
None     == [content |-> "none", files |-> {}]

VARIABLES
  record,    \* the DraftRecord; calls keep it after the draft is deleted
  listed,    \* drafts.has(draftId)
  cached,    \* fileContents: the uploads in memory
  disk,      \* draft.json, files/, finalized/files/ and finalized/manifest.json
  call,
  uploads,   \* how many there were
  torn,      \* writes of draft.json landed out of order, or a removal was cut short
  unsaved,   \* a write of draft.json failed, and memory has not been written since
  troubles

vars == <<record, listed, cached, disk, call, uploads, torn, unsaved, troubles>>

Drafts  == [content : Contents, files : SUBSET Files]
Records == [content : Contents, files : SUBSET Files, status : {"draft", "finalized"}]

Idle == [at |-> "idle", file |-> 0, snap |-> None, behind |-> {}, overtaken |-> FALSE,
         draft |-> None, spec |-> None, left |-> {}, held |-> {}, raced |-> FALSE]

Bare == [record |-> None, blobs |-> {}, staged |-> {}, manifest |-> None, raced |-> FALSE]

Init ==
  /\ record = None /\ listed = FALSE /\ cached = {}
  /\ disk = Bare
  /\ call = [c \in Calls |-> Idle]
  /\ uploads = 0 /\ torn = FALSE /\ unsaved = FALSE /\ troubles = 0

Trouble == troubles < MaxTroubles /\ troubles' = troubles + 1
At(c, states) == call[c].at \in states
Writing == {c \in Calls : At(c, {"creating", "saving", "removing"})}
Settings(r) == [content |-> r.content, files |-> r.files]

(* requireRecord; nobody knows the id of a draft that is being created.     *)
Known == listed /\ \A o \in Calls : ~At(o, {"creating"})

(* persistRecord: the record as it is now, behind the writes under way.     *)
Persisting(c, at, r) ==
  [call[c] EXCEPT !.at = at, !.snap = r, !.behind = Writing \ {c}]

-----------------------------------------------------------------------------
(* createDraft: the settings are what the catalog's bundle seeds.           *)
Create(c) ==
  /\ record = None /\ disk = Bare /\ At(c, {"idle"})
  /\ \E x \in Contents : record' = [content |-> x, files |-> {}, status |-> "draft"]
  /\ listed' = TRUE
  /\ call' = [call EXCEPT ![c] = Persisting(c, "creating", record')]
  /\ UNCHANGED <<cached, disk, uploads, torn, unsaved, troubles>>

(* updateDraft replaces the draft of the record by a changed copy: whoever  *)
(* holds the old one keeps it as it was.                                    *)
Update(c) ==
  /\ Known /\ At(c, {"idle"})
  /\ \E x \in Contents : record' = [record EXCEPT !.content = x]
  /\ call' = [o \in Calls |->
       IF o = c THEN Persisting(c, "saving", record')
       ELSE IF At(o, {"loading", "staging"}) /\ call[o].draft = None
            THEN [call[o] EXCEPT !.draft = Settings(record)] ELSE call[o]]
  /\ UNCHANGED <<listed, cached, disk, uploads, torn, unsaved, troubles>>

Upload(c) ==
  /\ Known /\ At(c, {"idle"}) /\ uploads < MaxFiles
  /\ uploads' = uploads + 1
  /\ call' = [call EXCEPT ![c].at = "uploading", ![c].file = uploads + 1]
  /\ UNCHANGED <<record, listed, cached, disk, torn, unsaved, troubles>>

(* The blob is on disk before the record names it.                          *)
Uploaded(c) ==
  LET f == call[c].file IN
  /\ At(c, {"uploading"})
  /\ \/ /\ disk' = [disk EXCEPT !.blobs = @ \cup {f}]
        /\ record' = [record EXCEPT !.files = @ \cup {f}]
        /\ cached' = cached \cup {f}
        /\ call' = [call EXCEPT ![c] = Persisting(c, "saving", record')]
        /\ UNCHANGED troubles
     \/ /\ Trouble
        /\ call' = [call EXCEPT ![c] = Idle]
        /\ UNCHANGED <<disk, record, cached>>
  /\ UNCHANGED <<listed, uploads, torn, unsaved>>

(* deleteFile, up to the write; the blob goes after it. *)
Remove(c, f) ==
  /\ Known /\ At(c, {"idle"}) /\ f \in record.files
  /\ record' = [record EXCEPT !.files = @ \ {f}]
  /\ cached' = cached \ {f}
  /\ call' = [o \in Calls |->
       IF o = c THEN [Persisting(c, "removing", record') EXCEPT !.file = f]
       ELSE IF At(o, {"loading", "staging"}) THEN [call[o] EXCEPT !.raced = TRUE] ELSE call[o]]
  /\ UNCHANGED <<listed, disk, uploads, torn, unsaved, troubles>>

(* Mutant: the blob goes first, and the record forgets it afterwards.       *)
LandedBlobFirst(c) ==
  [disk EXCEPT !.record = IF At(c, {"removing"}) THEN @ ELSE call[c].snap,
               !.blobs = @ \ {f \in {call[c].file} : At(c, {"removing"})}]

(* What is on disk once the write of c has landed.                          *)
Landed(c) == [disk EXCEPT !.record = call[c].snap]

(* A write lands, on top of those that landed before it. *)
Save(c) ==
  LET left == {o \in Writing : o # c} IN
  /\ c \in Writing
  /\ disk' = Landed(c)
  /\ torn' = (torn \/ call[c].overtaken \/ ~listed)
  /\ unsaved' = (unsaved /\ (call[c].snap # record \/ left # {}))
  /\ call' = [o \in Calls |->
       IF o = c THEN IF At(c, {"removing"})
                     THEN [Idle EXCEPT !.at = "unlinking", !.file = call[c].file] ELSE Idle
       ELSE [call[o] EXCEPT !.behind = @ \ {c},
                            !.overtaken = @ \/ o \in call[c].behind \cap left]]
  /\ UNCHANGED <<record, listed, cached, uploads, troubles>>

(* The call throws; the record in memory stays changed.                     *)
SaveFails(c) ==
  /\ c \in Writing /\ Trouble
  /\ unsaved' = TRUE
  /\ call' = [o \in Calls |-> IF o = c THEN Idle ELSE [call[o] EXCEPT !.behind = @ \ {c}]]
  /\ UNCHANGED <<record, listed, cached, disk, uploads, torn>>

(* A blob that cannot be removed is only warned about. *)
Unlink(c) ==
  /\ At(c, {"unlinking"})
  /\ \/ disk' = [disk EXCEPT !.blobs = @ \ {call[c].file}] /\ UNCHANGED troubles
     \/ Trouble /\ UNCHANGED disk
  /\ call' = [call EXCEPT ![c] = Idle]
  /\ UNCHANGED <<record, listed, cached, uploads, torn, unsaved>>

-----------------------------------------------------------------------------
(* deleteDraft: first out of memory, then the directory, file by file. A    *)
(* failure is only warned about.                                            *)
Delete(c) ==
  /\ Known /\ At(c, {"idle"})
  /\ listed' = FALSE /\ cached' = {}
  /\ call' = [o \in Calls |->
       IF o = c THEN [Idle EXCEPT !.at = "deleting"]
       ELSE IF At(o, {"idle"}) THEN call[o] ELSE [call[o] EXCEPT !.raced = TRUE]]
  /\ UNCHANGED <<record, disk, uploads, torn, unsaved, troubles>>

Without(part) ==
  CASE part = "record"   -> [disk EXCEPT !.record = None]
    [] part = "manifest" -> [disk EXCEPT !.manifest = None, !.raced = FALSE]
    [] part = "staged"   -> [disk EXCEPT !.staged = {}]
    [] part = "blobs"    -> [disk EXCEPT !.blobs = {}]

DeletePart(c) ==
  /\ At(c, {"deleting"})
  /\ \E part \in {"record", "manifest", "staged", "blobs"} :
       /\ disk' = Without(part)
       /\ disk' # disk
  /\ UNCHANGED <<record, listed, cached, call, uploads, torn, unsaved, troubles>>

DeleteEnds(c) ==
  /\ At(c, {"deleting"})
  /\ \/ /\ \A part \in {"record", "manifest", "staged", "blobs"} : Without(part) = disk
        /\ UNCHANGED <<torn, troubles>>
     \/ Trouble /\ torn' = TRUE
  /\ call' = [call EXCEPT ![c] = Idle]
  /\ UNCHANGED <<record, listed, cached, disk, uploads, unsaved>>

-----------------------------------------------------------------------------
(* finalizeDraft. Validation takes the draft of the record as it is, with   *)
(* the uploads it finds on disk, and asks Docker and the host.              *)
Finalize(c) ==
  /\ Known /\ At(c, {"idle"})
  /\ call' = [call EXCEPT ![c].at = "checking", ![c].draft = Settings(record)]
  /\ cached' = cached \cup (record.files \cap disk.blobs)
  /\ UNCHANGED <<record, listed, disk, uploads, torn, unsaved, troubles>>

(* Mutant: the verdict is not looked at.                                    *)
AcceptsAnything(d) == TRUE

(* The report of validateDraft.                                             *)
Accepts(d) == d.content = "valid"

(* The draft is captured anew: from here on until the next update it is the *)
(* one the other calls change. buildFilesMap loads what is not cached.      *)
Captures(c) ==
  [call[c] EXCEPT !.at = "loading", !.draft = None, !.held = record.files \cap cached,
                  !.raced = call[c].raced \/ record.content # call[c].draft.content]

(* What validation refuses, or a draft that is gone, ends the call.         *)
Checked(c) ==
  /\ At(c, {"checking"})
  /\ call' = [call EXCEPT ![c] =
                IF Accepts(call[c].draft) /\ listed THEN Captures(c) ELSE Idle]
  /\ UNCHANGED <<record, listed, cached, disk, uploads, torn, unsaved, troubles>>

Held(c) == IF call[c].draft = None THEN Settings(record) ELSE call[c].draft

(* The canonical spec is made of the captured draft. *)
Loaded(c) ==
  LET found == Held(c).files \cap disk.blobs IN
  /\ At(c, {"loading"})
  /\ cached' = IF listed THEN cached \cup found ELSE cached
  /\ call' = [call EXCEPT ![c].at = "staging", ![c].spec = Held(c),
                          ![c].held = @ \cup found]
  /\ UNCHANGED <<record, listed, disk, uploads, torn, unsaved, troubles>>

(* The loop over the files of the captured draft begins. *)
StageAll(c) ==
  /\ At(c, {"staging"})
  /\ call' = [call EXCEPT ![c].at = "copying", ![c].left = Held(c).files \cap call[c].held,
                          ![c].draft = None, ![c].held = {}]
  /\ UNCHANGED <<record, listed, cached, disk, uploads, torn, unsaved, troubles>>

Stage(c) ==
  /\ At(c, {"copying"})
  /\ \E f \in call[c].left :
       /\ disk' = [disk EXCEPT !.staged = @ \cup {f}]
       /\ call' = [call EXCEPT ![c].left = @ \ {f}]
  /\ UNCHANGED <<record, listed, cached, uploads, torn, unsaved, troubles>>

(* Mutant: the manifest does not wait for the files it names.               *)
StagedSome(c) == TRUE

(* Every file of the loop is written. *)
StagedAll(c) == call[c].left = {}

(* The manifest, then the record: it is finalized from here on. *)
WriteManifest(c) ==
  /\ At(c, {"copying"}) /\ StagedAll(c)
  /\ disk' = [disk EXCEPT !.manifest = call[c].spec, !.raced = call[c].raced]
  /\ record' = [record EXCEPT !.status = "finalized"]
  /\ call' = [call EXCEPT ![c] = [Persisting(c, "saving", record') EXCEPT
                                    !.spec = None, !.raced = FALSE, !.left = {}]]
  /\ UNCHANGED <<listed, cached, uploads, torn, unsaved, troubles>>

FinalizeFails(c) ==
  /\ At(c, {"copying"}) /\ Trouble
  /\ call' = [call EXCEPT ![c] = Idle]
  /\ UNCHANGED <<record, listed, cached, disk, uploads, torn, unsaved>>

-----------------------------------------------------------------------------
(* getFinalizedArtifacts, for createFromDraft and promote: the manifest is  *)
(* all it asks for, and a staged file that is missing is read as empty.     *)
Read(c) ==
  /\ At(c, {"idle"}) /\ disk.manifest # None
  /\ call' = [call EXCEPT ![c].at = "reading", ![c].spec = disk.manifest,
                          ![c].left = disk.manifest.files,
                          ![c].raced = disk.raced \/ \E o \in Calls : At(o, {"deleting"})]
  /\ UNCHANGED <<record, listed, cached, disk, uploads, torn, unsaved, troubles>>

ReadFile(c) ==
  /\ At(c, {"reading"})
  /\ \E f \in call[c].left :
       call' = [call EXCEPT ![c].left = @ \ {f}, ![c].held = @ \cup ({f} \cap disk.staged)]
  /\ UNCHANGED <<record, listed, cached, disk, uploads, torn, unsaved, troubles>>

HandOver(c) ==
  /\ At(c, {"reading"}) /\ call[c].left = {}
  /\ call' = [call EXCEPT ![c] = Idle]
  /\ UNCHANGED <<record, listed, cached, disk, uploads, torn, unsaved, troubles>>

-----------------------------------------------------------------------------
(* The server stops and starts: loadFromStorage lists what has a draft.json *)
Crash ==
  /\ Trouble
  /\ record' = disk.record
  /\ listed' = (disk.record # None)
  /\ torn' = (torn \/ \E c \in Calls : At(c, {"deleting"}))
  /\ cached' = {} /\ unsaved' = FALSE
  /\ call' = [c \in Calls |-> Idle]
  /\ UNCHANGED <<disk, uploads>>

Next ==
  \/ \E c \in Calls :
       \/ Create(c) \/ Update(c) \/ Upload(c) \/ Uploaded(c)
       \/ \E f \in Files : Remove(c, f)
       \/ Save(c) \/ SaveFails(c) \/ Unlink(c)
       \/ Delete(c) \/ DeletePart(c) \/ DeleteEnds(c)
       \/ Finalize(c) \/ Checked(c) \/ Loaded(c) \/ StageAll(c) \/ Stage(c)
       \/ WriteManifest(c) \/ FinalizeFails(c)
       \/ Read(c) \/ ReadFile(c) \/ HandOver(c)
  \/ Crash

Spec == Init /\ [][Next]_vars

-----------------------------------------------------------------------------
(* Types of the variables of the drafts. *)
TypeOK ==
  /\ record \in Records \cup {None} /\ disk.record \in Records \cup {None}
  /\ disk.manifest \in Drafts \cup {None}
  /\ cached \subseteq Files /\ disk.blobs \subseteq Files /\ disk.staged \subseteq Files
  /\ \A c \in Calls : call[c].draft \in Drafts \cup {None} /\ call[c].spec \in Drafts \cup {None}
  /\ {listed, torn, unsaved, disk.raced} \subseteq BOOLEAN

AtRest == \A c \in Calls : At(c, {"idle"})

(* draft.json never names an upload that is not there, nor a finalized      *)
(* draft without its manifest, whatever fails and wherever the server       *)
(* stops; at rest it is what memory holds, and a deleted draft does not     *)
(* come back. Writes that overtake one another are excused: nothing orders  *)
(* them.                                                                    *)
DraftDurable ==
  ~torn =>
    /\ disk.record # None /\ (\A c \in Calls : ~At(c, {"deleting"}))
         => /\ disk.record.files \subseteq disk.blobs
            /\ disk.record.status = "finalized" => disk.manifest # None
    /\ AtRest /\ listed /\ ~unsaved => disk.record = record
    /\ AtRest /\ ~listed => disk.record = None

(* A deployment is made of settings that were validated and of every file   *)
(* they name, none of them hollow, unless the draft was changed under the   *)
(* call that finalized it or deleted under the call that reads it.          *)
HandsOverWhatWasChecked ==
  \A c \in Calls :
    At(c, {"reading"}) /\ call[c].left = {} /\ ~call[c].raced /\ ~torn
    => call[c].spec.content = "valid" /\ call[c].held = call[c].spec.files

-----------------------------------------------------------------------------
(* The inductive invariant behind them, in its parts.                       *)
Stages == {"idle", "creating", "uploading", "saving", "removing", "unlinking", "deleting",
           "checking", "loading", "staging", "copying", "reading"}
Requests ==
  [at : Stages, file : Nat, snap : Records \cup {None}, behind : SUBSET Calls,
   overtaken : BOOLEAN, draft : Drafts \cup {None}, spec : Drafts \cup {None},
   left : SUBSET Files, held : SUBSET Files, raced : BOOLEAN]
Disks ==
  [record : Records \cup {None}, blobs : SUBSET Files, staged : SUBSET Files,
   manifest : Drafts \cup {None}, raced : BOOLEAN]

Shapes ==
  /\ record \in Records \cup {None} /\ disk \in Disks /\ call \in [Calls -> Requests]
  /\ listed \in BOOLEAN /\ torn \in BOOLEAN /\ unsaved \in BOOLEAN
  /\ cached \subseteq Files /\ uploads \in 0..MaxFiles

Deleting == \E c \in Calls : At(c, {"deleting"})

(* A call that does nothing holds nothing, and only a read needs no draft.  *)
Active ==
  /\ \A c \in Calls : At(c, {"idle"}) => call[c] = Idle
  /\ record = None => ~listed /\ \A c \in Calls : At(c, {"idle", "reading"})
  /\ Deleting => ~listed

(* The writes under way stand behind those that were asked for earlier.     *)
WriteOrder ==
  /\ \A c \in Calls : IF c \in Writing
                      THEN call[c].snap \in Records /\ call[c].behind \subseteq Writing \ {c}
                      ELSE call[c].behind = {} /\ ~call[c].overtaken
  /\ \A c, o \in Writing : o \in call[c].behind => c \notin call[o].behind

(* Uploads are numbered, and nobody names one that is still being made.     *)
Numbered ==
  /\ record.files \subseteq 1..uploads /\ disk.record.files \subseteq 1..uploads
  /\ \A c \in Writing : call[c].snap.files \subseteq 1..uploads
  /\ \A c \in Calls : At(c, {"uploading", "removing", "unlinking"}) => call[c].file \in 1..uploads
  /\ \A c \in Calls : At(c, {"uploading"}) =>
       /\ call[c].file \notin record.files /\ call[c].file \notin disk.record.files
       /\ \A o \in Writing : call[c].file \notin call[o].snap.files
       /\ \A o \in Calls \ {c} : At(o, {"uploading", "removing", "unlinking"})
                                   => call[o].file # call[c].file

(* One that is removed is named by older writes only, which come too late.  *)
Removed ==
  \A c \in Calls :
    /\ At(c, {"removing", "unlinking"}) => call[c].file \notin record.files
    /\ At(c, {"removing"}) =>
         /\ call[c].file \notin call[c].snap.files
         /\ \A o \in Writing : call[c].file \in call[o].snap.files => o \in call[c].behind
    /\ At(c, {"unlinking"}) /\ ~torn /\ listed =>
         /\ call[c].file \notin disk.record.files
         /\ \A o \in Writing : call[c].file \in call[o].snap.files => call[o].overtaken

(* What a record names is there.                                            *)
There(r) ==
  r # None => r.files \subseteq disk.blobs /\ (r.status = "finalized" => disk.manifest # None)

NamesWhatIsThere ==
  ~torn /\ listed =>
    /\ There(record) /\ There(disk.record)
    /\ \A c \in Writing : ~call[c].overtaken => There(call[c].snap)

(* What is in memory is on disk or in the last write, and a draft that is   *)
(* in neither is gone.                                                      *)
OnItsWay ==
  ~torn /\ listed /\ ~unsaved =>
    \/ disk.record = record /\ \A c \in Writing : call[c].overtaken
    \/ \E c \in Writing : /\ call[c].snap = record /\ ~call[c].overtaken
                          /\ Writing \ {c} \subseteq call[c].behind

Gone == ~torn /\ ~listed => disk.record = None \/ Deleting

(* What a call has gathered by each stage, if nobody has interfered.        *)
Passes(d) == d.content = "valid"

Sound(c) ==
  ~call[c].raced /\ ~torn =>
    /\ At(c, {"checking", "loading", "staging", "copying"}) => listed
    /\ At(c, {"reading"}) => ~Deleting
    /\ At(c, {"loading", "staging"}) => Passes(Held(c)) /\ Held(c).files \subseteq record.files
    /\ At(c, {"staging"}) => /\ Passes(call[c].spec) /\ call[c].spec.files \subseteq Held(c).files
                             /\ call[c].spec.files \subseteq call[c].held
    /\ At(c, {"copying"}) => /\ Passes(call[c].spec)
                             /\ call[c].spec.files \subseteq disk.staged \cup call[c].left
    /\ At(c, {"reading"}) => /\ Passes(call[c].spec) /\ call[c].left \subseteq disk.staged
                             /\ call[c].held \cup call[c].left = call[c].spec.files

Gathered == \A c \in Calls : Sound(c)

(* A manifest is of something, and of what was validated and staged.        *)
Manifested ==
  /\ \A c \in Calls : At(c, {"staging", "copying"}) => call[c].spec # None
  /\ ~torn /\ ~Deleting /\ ~disk.raced /\ disk.manifest # None =>
       Passes(disk.manifest) /\ disk.manifest.files \subseteq disk.staged

DraftInv ==
  /\ Shapes /\ Active /\ WriteOrder /\ Numbered /\ Removed /\ NamesWhatIsThere
  /\ OnItsWay /\ Gone /\ Gathered /\ Manifested
=============================================================================
