---------------------------- MODULE DraftProofs ----------------------------
(***************************************************************************)
(* Proofs about Drafts: draft.json, the uploads and the staged files agree *)
(* for any number of requests, uploads and failures, wherever the server   *)
(* stops.                                                                  *)
(*                                                                         *)
(* DraftInv adds to what is promised the writes under way, in the order    *)
(* they were asked for, and what each call has gathered so far.  There is  *)
(* one lemma for each action of the module.  A step of a finalize or of a  *)
(* read changes nothing of the writes (QuietKeeps); a call that asks for a *)
(* write stands behind all others (PersistKeeps).                          *)
(***************************************************************************)
EXTENDS Drafts, TLAPS

-----------------------------------------------------------------------------
Calm == {"idle", "checking", "loading", "staging", "copying", "reading"}

(* What a call says of its write.                                           *)
SameWrite(o) ==
  /\ call'[o].at = call[o].at /\ call'[o].file = call[o].file /\ call'[o].snap = call[o].snap
  /\ call'[o].behind = call[o].behind /\ call'[o].overtaken = call[o].overtaken

(* What it says of its finalize or read.                                    *)
SameGathering(o) ==
  /\ call'[o].at = call[o].at /\ call'[o].draft = call[o].draft /\ call'[o].spec = call[o].spec
  /\ call'[o].left = call[o].left /\ call'[o].held = call[o].held /\ call'[o].raced = call[o].raced

(* A call at rest has nothing under way.                                    *)
LEMMA IdleIs ==
  /\ Idle \in Requests /\ Idle.at = "idle" /\ Idle.behind = {} /\ ~Idle.overtaken /\ ~Idle.raced
  /\ Idle.snap = None /\ Idle.draft = None /\ Idle.spec = None /\ Idle.left = {} /\ Idle.held = {}
  /\ None.files = {}
BY DEF Idle, Requests, Stages, None

(* It is the same but for the stage.                                        *)
LEMMA IdleAt ==
  ASSUME NEW at \in Stages, NEW x, x = [Idle EXCEPT !.at = at]
  PROVE  x \in Requests /\ x.at = at /\ x.behind = {} /\ ~x.overtaken /\ x.snap = None
BY DEF Idle, Requests, Stages, None

(* The fields of a call have their types.                                   *)
LEMMA Fields ==
  ASSUME NEW x \in Requests
  PROVE  /\ x.at \in Stages /\ x.file \in Nat /\ x.snap \in Records \cup {None}
         /\ x.behind \in SUBSET Calls /\ x.overtaken \in BOOLEAN /\ x.raced \in BOOLEAN
         /\ x.draft \in Drafts \cup {None} /\ x.spec \in Drafts \cup {None}
         /\ x.left \in SUBSET Files /\ x.held \in SUBSET Files
BY DEF Requests

(* What a call is once it has asked for a write.                            *)
LEMMA PersistIs ==
  ASSUME Shapes, NEW c \in Calls, NEW at \in Stages, NEW r \in Records, NEW x,
         x = Persisting(c, at, r)
  PROVE  /\ x \in Requests /\ x.at = at /\ x.file = call[c].file /\ x.snap = r
         /\ x.behind = Writing \ {c} /\ x.overtaken = call[c].overtaken
         /\ x.draft = call[c].draft /\ x.spec = call[c].spec /\ x.left = call[c].left
         /\ x.held = call[c].held /\ x.raced = call[c].raced
<1>1. call[c] \in Requests
  BY DEF Shapes
<1>2. Writing \subseteq Calls
  BY DEF Writing
<1>3. x = [call[c] EXCEPT !.at = at, !.snap = r, !.behind = Writing \ {c}]
  BY DEF Persisting
<1> QED
  BY <1>1, <1>2, <1>3 DEF Requests

(* The fields of the disk have theirs.                                      *)
LEMMA DiskFields ==
  ASSUME Shapes
  PROVE  /\ disk.record \in Records \cup {None} /\ disk.blobs \in SUBSET Files
         /\ disk.staged \in SUBSET Files /\ disk.manifest \in Drafts \cup {None}
         /\ disk.raced \in BOOLEAN
BY DEF Shapes, Disks

(* So have those of a record, and of its settings.                          *)
LEMMA RecordFiles ==
  ASSUME NEW r \in Records \cup {None}
  PROVE  /\ r.files \in SUBSET Files /\ Settings(r) \in Drafts \cup {None}
  /\ Settings(r).files = r.files
         /\ Settings(r).content = r.content /\ (r = None \/ (r \in Records
            /\ Settings(r) \in Drafts))
BY DEF Records, None, Drafts, Settings

(* And those of a draft.                                                    *)
LEMMA DraftFiles ==
  ASSUME NEW d \in Drafts \cup {None} PROVE d.files \in SUBSET Files
BY DEF Drafts, None

(* A step of a call that neither writes draft.json nor its blobs.           *)
QuietChange(c) ==
  /\ record' = record /\ listed' = listed /\ torn' = torn /\ unsaved' = unsaved
     /\ uploads' = uploads
  /\ disk'.record = disk.record /\ disk'.blobs = disk.blobs /\ disk'.manifest = disk.manifest
  /\ \A o \in Calls \ {c} : call'[o] = call[o]
  /\ call[c].at \in Calm /\ call'[c].at \in Calm
  /\ call'[c].behind = {} /\ ~call'[c].overtaken

(* A quiet step leaves the writes and the removals as they are.             *)
LEMMA QuietSame ==
  ASSUME NEW c \in Calls, QuietChange(c)
  PROVE  /\ Writing' = Writing /\ Deleting' = Deleting
         /\ \A o \in Writing : call'[o] = call[o]
         /\ \A o \in Calls : At(o, {"uploading", "removing", "unlinking"})' =>
              call'[o] = call[o] /\ At(o, {"uploading", "removing", "unlinking"})
BY DEF QuietChange, Writing, Deleting, At, Calm

(* It keeps what the invariant says of draft.json.                          *)
LEMMA QuietKeeps ==
  ASSUME DraftInv, NEW c \in Calls, QuietChange(c)
  PROVE  WriteOrder' /\ Numbered' /\ Removed' /\ NamesWhatIsThere' /\ OnItsWay' /\ Gone'
<1>0. /\ Writing' = Writing /\ Deleting' = Deleting
      /\ \A o \in Writing : call'[o] = call[o]
      /\ \A o \in Calls : At(o, {"uploading", "removing", "unlinking"})' =>
           call'[o] = call[o] /\ At(o, {"uploading", "removing", "unlinking"})
  BY QuietSame
<1>1. WriteOrder'
  BY <1>0 DEF DraftInv, WriteOrder, QuietChange
<1>2. Numbered'
  BY <1>0 DEF DraftInv, Numbered, QuietChange, At
<1>3. Removed'
  BY <1>0 DEF DraftInv, Removed, QuietChange, At, Writing
<1>4. NamesWhatIsThere'
  BY <1>0 DEF DraftInv, NamesWhatIsThere, QuietChange, There
<1>5. OnItsWay'
  BY <1>0 DEF DraftInv, OnItsWay, QuietChange
<1>6. Gone'
  BY <1>0 DEF DraftInv, Gone, QuietChange
<1> QED
  BY <1>1, <1>2, <1>3, <1>4, <1>5, <1>6

(* A call asks for a write of the record as it now is.                      *)
PersistChange(c) ==
  /\ c \notin Writing /\ ~At(c, {"deleting"}) /\ c \in Writing'
  /\ call'[c].snap = record' /\ call'[c].behind = Writing \ {c} /\ ~call'[c].overtaken
  /\ record' \in Records
  /\ \A o \in Calls \ {c} : SameWrite(o)
  /\ disk'.record = disk.record /\ torn' = torn /\ unsaved' = unsaved

(* Such a call is one more that writes.                                     *)
LEMMA PersistSame ==
  ASSUME NEW c \in Calls, PersistChange(c)
  PROVE  /\ Writing' = Writing \cup {c} /\ Deleting' = Deleting
BY DEF PersistChange, Writing, Deleting, At, SameWrite

(* The write stands behind all others, and brings what memory holds.        *)
LEMMA PersistKeeps ==
  ASSUME DraftInv, NEW c \in Calls, PersistChange(c)
  PROVE  /\ WriteOrder' /\ OnItsWay'
         /\ (listed' = listed \/ listed') => Gone'
<1>0. Writing' = Writing \cup {c} /\ Deleting' = Deleting
  BY PersistSame
<1>1. WriteOrder'
  <2>1. Writing \subseteq Calls
    BY DEF Writing
  <2> QED
    BY <1>0, <2>1 DEF DraftInv, WriteOrder, PersistChange, SameWrite
<1>2. OnItsWay'
  BY <1>0 DEF OnItsWay, PersistChange
<1>3. (listed' = listed \/ listed') => Gone'
  BY <1>0 DEF DraftInv, Gone, PersistChange
<1> QED
  BY <1>1, <1>2, <1>3

(* The steps of a finalize, up to its manifest, and of a read.              *)
LEMMA PipelineKeeps ==
  ASSUME DraftInv, NEW c \in Calls, QuietChange(c), Shapes',
         disk.staged \subseteq disk'.staged, disk'.raced = disk.raced,
         record # None \/ At(c, {"idle", "reading"})',
         At(c, {"idle"})' => call'[c] = Idle, At(c, {"staging", "copying"})'
         => call'[c].spec # None,
         Sound(c)'
  PROVE  DraftInv'
<1>0. Deleting' = Deleting
  BY QuietSame
<1>1. Active'
  BY <1>0 DEF DraftInv, Active, QuietChange, At
<1>2. Gathered'
  <2>1. ASSUME NEW o \in Calls, o # c PROVE Sound(o)'
    <3>1. call'[o] = call[o] /\ Held(o)' = Held(o) /\ record' = record /\ listed' = listed
          /\ torn' = torn
      BY <2>1 DEF QuietChange, Held, Settings
    <3>2. Sound(o)
      BY DEF DraftInv, Gathered
    <3> QED
      BY <1>0, <3>1, <3>2 DEF Sound, At, Passes
  <2> QED
    BY <2>1 DEF Gathered
<1>3. Manifested'
  <2>1. /\ disk'.manifest = disk.manifest /\ torn' = torn
    BY DEF QuietChange
  <2>2. \A o \in Calls \ {c} : call'[o] = call[o]
    BY DEF QuietChange
  <2> QED
    BY <1>0, <2>1, <2>2 DEF DraftInv, Manifested, Passes, At
<1> QED
  BY <1>1, <1>2, <1>3, QuietKeeps DEF DraftInv

(* A draft that can be asked for has a record and is not being removed.     *)
LEMMA KnownMeans == ASSUME DraftInv, Known PROVE listed /\ ~Deleting /\ record \in Records
BY DEF DraftInv, Known, Active, Shapes

(* One call changes, the others do not.                                     *)
LEMMA ShapesCall ==
  ASSUME Shapes, NEW c \in Calls, NEW x \in Requests, call' = [call EXCEPT ![c] = x]
  PROVE  /\ call' \in [Calls -> Requests] /\ call'[c] = x
         /\ \A o \in Calls \ {c} : call'[o] = call[o]
BY DEF Shapes

(* The same, in the form the steps have.                                    *)
LEMMA PipelineStep ==
  ASSUME DraftInv, NEW c \in Calls, NEW x \in Requests, call' = [call EXCEPT ![c] = x],
         call[c].at \in Calm, x.at \in Calm, x.behind = {}, ~x.overtaken,
         UNCHANGED <<record, listed, uploads, torn, unsaved>>, cached' \subseteq Files,
         disk' \in Disks, disk'.record = disk.record, disk'.blobs = disk.blobs,
         disk'.manifest = disk.manifest, disk'.raced = disk.raced,
         disk.staged \subseteq disk'.staged,
         record # None \/ x.at \in {"idle", "reading"},
         x.at = "idle" => x = Idle, x.at \in {"staging", "copying"} => x.spec # None,
         Sound(c)'
  PROVE  DraftInv'
<1>1. /\ call' \in [Calls -> Requests] /\ call'[c] = x
      /\ \A o \in Calls \ {c} : call'[o] = call[o]
  BY ShapesCall DEF DraftInv
<1>2. Shapes'
  BY <1>1 DEF DraftInv, Shapes
<1>3. QuietChange(c)
  BY <1>1 DEF QuietChange
<1>4. /\ record # None \/ At(c, {"idle", "reading"})'
      /\ At(c, {"idle"})' => call'[c] = Idle
      /\ At(c, {"staging", "copying"})' => call'[c].spec # None
  BY <1>1 DEF At
<1> QED
  BY <1>2, <1>3, <1>4, PipelineKeeps

(* Each step keeps the invariant: a finalize begins.                        *)
LEMMA FinalizeKeeps == ASSUME DraftInv, NEW c \in Calls, Finalize(c) PROVE DraftInv'
<1>1. listed /\ ~Deleting /\ record \in Records
  BY KnownMeans DEF Finalize
<1>2. call[c] = Idle /\ call[c] \in Requests
  BY DEF Finalize, DraftInv, Active, Shapes
<1>3. PICK x : /\ call' = [call EXCEPT ![c] = x] /\ x \in Requests /\ x.at = "checking"
               /\ x.behind = {} /\ ~x.overtaken
  <2> DEFINE x == [call[c] EXCEPT !.at = "checking", !.draft = Settings(record)]
  <2>1. Settings(record) \in Drafts
    BY <1>1, RecordFiles DEF Settings, None, Records, Drafts
  <2>2. call' = [call EXCEPT ![c] = x]
    BY DEF Finalize
  <2>3. x \in Requests /\ x.at = "checking" /\ x.behind = call[c].behind
        /\ x.overtaken = call[c].overtaken
    BY <1>2, <2>1 DEF Requests, Stages
  <2> QED
    BY <1>2, <2>2, <2>3, IdleIs
<1>4. /\ call'[c] = x /\ UNCHANGED <<record, listed, disk, uploads, torn, unsaved>>
      /\ cached' \subseteq Files
  <2>1. record.files \in SUBSET Files
    BY <1>1, RecordFiles
  <2> QED
    BY <1>3, <2>1, ShapesCall DEF Finalize, DraftInv, Shapes
<1>5. Sound(c)'
  BY <1>1, <1>3, <1>4 DEF Sound, At
<1>6. record # None /\ call[c].at \in Calm /\ disk' \in Disks
  BY <1>1, <1>2, <1>4, IdleIs DEF Records, None, Calm, DraftInv, Shapes
<1> QED
  BY <1>3, <1>4, <1>5, <1>6, PipelineStep DEF Calm

(* A call that writes nothing, and its record.                              *)
LEMMA CalmIs ==
  ASSUME DraftInv, NEW c \in Calls, call[c].at \in Calm
  PROVE  /\ call[c] \in Requests /\ call[c].behind = {} /\ ~call[c].overtaken /\ disk \in Disks
         /\ cached \subseteq Files
         /\ call[c].at \notin {"idle", "reading"} => record \in Records /\ record # None
<1>1. c \notin Writing
  BY DEF Writing, At, Calm
<1>2. record \in Records \/ record = None
  BY DEF DraftInv, Shapes
<1>3. call[c].at \notin {"idle", "reading"} => record # None
  BY DEF DraftInv, Active, At
<1> QED
  BY <1>1, <1>2, <1>3 DEF DraftInv, WriteOrder, Shapes

(* Its draft is captured.                                                   *)
LEMMA CheckedKeeps == ASSUME DraftInv, NEW c \in Calls, Checked(c) PROVE DraftInv'
<1>1. call[c].at = "checking" /\ call[c].at \in Calm
  BY DEF Checked, At, Calm
<1>2. /\ call[c] \in Requests /\ call[c].behind = {} /\ ~call[c].overtaken /\ disk \in Disks
      /\ cached \subseteq Files /\ record \in Records /\ record # None
  BY <1>1, CalmIs
<1>3. UNCHANGED <<record, listed, disk, uploads, torn, unsaved>> /\ cached' = cached
  BY DEF Checked
<1>4. CASE Accepts(call[c].draft) /\ listed
  <2> DEFINE x == Captures(c)
  <2>1. call' = [call EXCEPT ![c] = x]
    BY <1>4 DEF Checked
  <2>2. call[c].raced \in BOOLEAN /\ record.files \cap cached \in SUBSET Files
    BY <1>2, Fields
  <2>3. /\ x \in Requests /\ x.at = "loading" /\ x.behind = {} /\ ~x.overtaken /\ x.draft = None
        /\ x.raced = (call[c].raced \/ record.content # call[c].draft.content)
    BY <1>2, <2>2 DEF Requests, Stages, Captures
  <2> HIDE DEF x
  <2>4. call'[c] = x
    BY <2>1, <2>3, ShapesCall DEF DraftInv
  <2>5. Held(c)' = Settings(record)
    BY <1>3, <2>3, <2>4 DEF Held, Settings
  <2>6. Sound(c)'
    <3>1. ~x.raced => record.content = "valid"
      BY <1>4, <2>3 DEF Accepts
    <3> QED
      BY <1>3, <1>4, <2>3, <2>4, <2>5, <3>1 DEF Sound, At, Passes, Settings
  <2> QED
    BY <1>1, <1>2, <1>3, <2>1, <2>3, <2>6, PipelineStep DEF Calm
<1>5. CASE ~(Accepts(call[c].draft) /\ listed)
  <2>1. call' = [call EXCEPT ![c] = Idle]
    BY <1>5 DEF Checked
  <2>2. call'[c] = Idle
    BY <2>1, IdleIs, ShapesCall DEF DraftInv
  <2>3. Sound(c)'
    BY <2>2, IdleIs DEF Sound, At
  <2> QED
    BY <1>1, <1>2, <1>3, <2>1, <2>3, IdleIs, PipelineStep DEF Calm
<1> QED
  BY <1>4, <1>5

(* What a call holds is a draft.                                            *)
LEMMA HeldIs ==
  ASSUME DraftInv, NEW c \in Calls, record \in Records
  PROVE  Held(c) \in Drafts /\ Held(c) # None /\ Held(c).files \in SUBSET Files
<1>1. call[c].draft \in Drafts \cup {None}
  BY Fields DEF DraftInv, Shapes
<1>2. Settings(record) \in Drafts
  BY DEF Settings, Records, Drafts
<1>3. None \notin Drafts
  BY DEF None, Drafts, Contents
<1>4. Held(c) \in Drafts
  BY <1>1, <1>2 DEF Held
<1> QED
  BY <1>3, <1>4, DraftFiles

(* Its uploads are loaded.                                                  *)
LEMMA LoadedKeeps == ASSUME DraftInv, NEW c \in Calls, Loaded(c) PROVE DraftInv'
<1>1. call[c].at = "loading" /\ call[c].at \in Calm
  BY DEF Loaded, At, Calm
<1>2. /\ call[c] \in Requests /\ call[c].behind = {} /\ ~call[c].overtaken /\ disk \in Disks
      /\ cached \subseteq Files /\ record \in Records /\ record # None
  BY <1>1, CalmIs
<1> DEFINE found == Held(c).files \cap disk.blobs
           x == [call[c] EXCEPT !.at = "staging", !.spec = Held(c),
           !.held = call[c].held \cup found]
<1>3. /\ UNCHANGED <<record, listed, disk, uploads, torn, unsaved>>
      /\ call' = [call EXCEPT ![c] = x] /\ cached' \subseteq cached \cup found
  BY DEF Loaded
<1>4. Held(c) \in Drafts /\ Held(c) # None /\ Held(c).files \in SUBSET Files
  BY <1>2, HeldIs
<1>5. /\ x \in Requests /\ x.at = "staging" /\ x.behind = {} /\ ~x.overtaken
      /\ x.spec = Held(c) /\ x.held = call[c].held \cup found
      /\ x.draft = call[c].draft /\ x.raced = call[c].raced
  <2>1. call[c].held \cup found \in SUBSET Files
    BY <1>2, <1>4, Fields
  <2> HIDE DEF found
  <2> QED
    BY <1>2, <1>4, <2>1 DEF Requests, Stages
<1> HIDE DEF x
<1>6. call'[c] = x
  BY <1>3, <1>5, ShapesCall DEF DraftInv
<1>7. Held(c)' = Held(c)
  BY <1>3, <1>5, <1>6 DEF Held, Settings
<1>8. Sound(c)'
  <2> SUFFICES ASSUME ~x.raced, ~torn PROVE Sound(c)'
    BY <1>3, <1>6 DEF Sound
  <2>1. listed /\ Passes(Held(c)) /\ Held(c).files \subseteq record.files
    BY <1>1, <1>5 DEF DraftInv, Gathered, Sound, At
  <2>2. Held(c).files \subseteq found
    BY <1>2, <2>1 DEF DraftInv, NamesWhatIsThere, There
  <2> QED
    BY <1>3, <1>5, <1>6, <1>7, <2>1, <2>2 DEF Sound, At, Passes
<1>9. cached' \subseteq Files
  BY <1>2, <1>3, <1>4
<1> QED
  BY <1>1, <1>2, <1>3, <1>4, <1>5, <1>8, <1>9, PipelineStep DEF Calm

(* The loop over them begins.                                               *)
LEMMA StageAllKeeps == ASSUME DraftInv, NEW c \in Calls, StageAll(c) PROVE DraftInv'
<1>1. call[c].at = "staging" /\ call[c].at \in Calm
  BY DEF StageAll, At, Calm
<1>2. /\ call[c] \in Requests /\ call[c].behind = {} /\ ~call[c].overtaken /\ disk \in Disks
      /\ cached \subseteq Files /\ record \in Records /\ record # None
  BY <1>1, CalmIs
<1> DEFINE left == Held(c).files \cap call[c].held
           x == [call[c] EXCEPT !.at = "copying", !.left = left, !.draft = None, !.held = {}]
<1>3. /\ UNCHANGED <<record, listed, disk, uploads, torn, unsaved>>
      /\ call' = [call EXCEPT ![c] = x] /\ cached' = cached
  BY DEF StageAll
<1>4. left \in SUBSET Files
  BY <1>2, HeldIs
<1>5. /\ x \in Requests /\ x.at = "copying" /\ x.behind = {} /\ ~x.overtaken
      /\ x.left = left /\ x.spec = call[c].spec /\ x.raced = call[c].raced
  <2> HIDE DEF left
  <2> QED
    BY <1>2, <1>4 DEF Requests, Stages
<1> HIDE DEF x
<1>6. call'[c] = x
  BY <1>3, <1>5, ShapesCall DEF DraftInv
<1>7. Sound(c)'
  <2>1. ~x.raced /\ ~torn =>
          /\ listed /\ Passes(call[c].spec) /\ call[c].spec.files \subseteq left
    BY <1>1, <1>5 DEF DraftInv, Gathered, Sound, At
  <2> QED
    BY <1>3, <1>5, <1>6, <2>1 DEF Sound, At, Passes
<1>8. x.spec # None
  BY <1>1, <1>5 DEF DraftInv, Manifested, At
<1> QED
  BY <1>1, <1>2, <1>3, <1>5, <1>7, <1>8, PipelineStep DEF Calm

(* One is staged.                                                           *)
LEMMA StageKeeps == ASSUME DraftInv, NEW c \in Calls, Stage(c) PROVE DraftInv'
<1>1. call[c].at = "copying" /\ call[c].at \in Calm
  BY DEF Stage, At, Calm
<1>2. /\ call[c] \in Requests /\ call[c].behind = {} /\ ~call[c].overtaken /\ disk \in Disks
      /\ cached \subseteq Files /\ record \in Records /\ record # None
  BY <1>1, CalmIs
<1>3. PICK f \in call[c].left : /\ disk' = [disk EXCEPT !.staged = @ \cup {f}]
                                /\ call' = [call EXCEPT ![c].left = @ \ {f}]
  BY DEF Stage
<1> DEFINE x == [call[c] EXCEPT !.left = call[c].left \ {f}]
<1>4. /\ UNCHANGED <<record, listed, uploads, torn, unsaved>>
      /\ call' = [call EXCEPT ![c] = x] /\ cached' = cached
  BY <1>3 DEF Stage
<1>5. /\ x \in Requests /\ x.at = "copying" /\ x.behind = {} /\ ~x.overtaken
      /\ x.left = call[c].left \ {f} /\ x.spec = call[c].spec /\ x.raced = call[c].raced
  <2>1. call[c].left \ {f} \in SUBSET Files
    BY <1>2, Fields
  <2> QED
    BY <1>1, <1>2, <2>1 DEF Requests
<1> HIDE DEF x
<1>6. call'[c] = x
  BY <1>4, <1>5, ShapesCall DEF DraftInv
<1>7. /\ disk' \in Disks /\ disk'.record = disk.record /\ disk'.blobs = disk.blobs
      /\ disk'.manifest = disk.manifest /\ disk'.raced = disk.raced
      /\ disk'.staged = disk.staged \cup {f}
  <2>1. disk.staged \cup {f} \in SUBSET Files
    BY <1>2, Fields, DiskFields DEF DraftInv
  <2> QED
    BY <1>2, <1>3, <2>1 DEF Disks
<1>8. Sound(c)'
  <2>1. ~x.raced /\ ~torn =>
          /\ listed /\ Passes(call[c].spec)
          /\ call[c].spec.files \subseteq disk.staged \cup call[c].left
    BY <1>1, <1>5 DEF DraftInv, Gathered, Sound, At
  <2> QED
    BY <1>4, <1>5, <1>6, <1>7, <2>1 DEF Sound, At, Passes
<1>9. x.spec # None
  BY <1>1, <1>5 DEF DraftInv, Manifested, At
<1> QED
  BY <1>1, <1>2, <1>4, <1>5, <1>7, <1>8, <1>9, PipelineStep DEF Calm

(* A call that is given up, or has handed over.                             *)
LEMMA EndKeeps ==
  ASSUME DraftInv, NEW c \in Calls, FinalizeFails(c) \/ HandOver(c) PROVE DraftInv'
<1>1. call[c].at \in Calm
  BY DEF FinalizeFails, HandOver, At, Calm
<1>2. /\ call[c] \in Requests /\ disk \in Disks /\ cached \subseteq Files
  BY <1>1, CalmIs
<1>3. /\ UNCHANGED <<record, listed, disk, uploads, torn, unsaved>>
      /\ call' = [call EXCEPT ![c] = Idle] /\ cached' = cached
  BY DEF FinalizeFails, HandOver
<1>4. call'[c] = Idle
  BY <1>3, IdleIs, ShapesCall DEF DraftInv
<1>5. Sound(c)'
  BY <1>4, IdleIs DEF Sound, At
<1> QED
  BY <1>1, <1>2, <1>3, <1>5, IdleIs, PipelineStep DEF Calm

(* A read begins.                                                           *)
LEMMA ReadKeeps == ASSUME DraftInv, NEW c \in Calls, Read(c) PROVE DraftInv'
<1>1. call[c].at = "idle" /\ call[c] = Idle /\ call[c].at \in Calm /\ disk.manifest # None
  BY DEF Read, At, DraftInv, Active, Calm
<1>2. /\ call[c] \in Requests /\ call[c].behind = {} /\ ~call[c].overtaken /\ disk \in Disks
      /\ cached \subseteq Files
  BY <1>1, CalmIs
<1> DEFINE late == disk.raced \/ \E o \in Calls : At(o, {"deleting"})
           x == [call[c] EXCEPT !.at = "reading", !.spec = disk.manifest,
                                !.left = disk.manifest.files, !.raced = late]
<1>3. /\ UNCHANGED <<record, listed, disk, uploads, torn, unsaved>>
      /\ call' = [call EXCEPT ![c] = x] /\ cached' = cached
  BY DEF Read
<1>4. disk.manifest \in Drafts /\ disk.manifest.files \in SUBSET Files /\ late \in BOOLEAN
  BY <1>1, DiskFields, DraftFiles DEF DraftInv
<1>5. /\ x \in Requests /\ x.at = "reading" /\ x.behind = {} /\ ~x.overtaken
      /\ x.left = disk.manifest.files /\ x.spec = disk.manifest /\ x.raced = late /\ x.held = {}
  <2> HIDE DEF late
  <2>1. call[c].held = {}
    BY <1>1, IdleIs
  <2> QED
    BY <1>2, <1>4, <2>1 DEF Requests, Stages
<1> HIDE DEF x
<1>6. call'[c] = x
  BY <1>3, <1>5, ShapesCall DEF DraftInv
<1>7. Deleting' = Deleting
  BY <1>1, <1>3, <1>5, <1>6, ShapesCall DEF DraftInv, Deleting, At
<1>8. Sound(c)'
  <2>1. ~x.raced /\ ~torn => ~Deleting /\ Passes(disk.manifest)
        /\ disk.manifest.files \subseteq disk.staged
    BY <1>1, <1>5 DEF DraftInv, Manifested, Deleting
  <2> QED
    BY <1>3, <1>5, <1>6, <1>7, <2>1 DEF Sound, At, Passes
<1> QED
  BY <1>1, <1>2, <1>3, <1>5, <1>8, PipelineStep DEF Calm

(* One staged file is read.                                                 *)
LEMMA ReadFileKeeps == ASSUME DraftInv, NEW c \in Calls, ReadFile(c) PROVE DraftInv'
<1>1. call[c].at = "reading" /\ call[c].at \in Calm
  BY DEF ReadFile, At, Calm
<1>2. /\ call[c] \in Requests /\ call[c].behind = {} /\ ~call[c].overtaken /\ disk \in Disks
      /\ cached \subseteq Files
  BY <1>1, CalmIs
<1>3. PICK f \in call[c].left :
        call' = [call EXCEPT ![c].left = @ \ {f}, ![c].held = @ \cup ({f} \cap disk.staged)]
  BY DEF ReadFile
<1> DEFINE x == [call[c] EXCEPT !.left = call[c].left \ {f},
                                !.held = call[c].held \cup ({f} \cap disk.staged)]
<1>4. /\ UNCHANGED <<record, listed, disk, uploads, torn, unsaved>>
      /\ call' = [call EXCEPT ![c] = x] /\ cached' = cached
  BY <1>3 DEF ReadFile
<1>5. /\ x \in Requests /\ x.at = "reading" /\ x.behind = {} /\ ~x.overtaken
      /\ x.left = call[c].left \ {f} /\ x.spec = call[c].spec /\ x.raced = call[c].raced
      /\ x.held = call[c].held \cup ({f} \cap disk.staged)
  <2>1. /\ call[c].left \ {f} \in SUBSET Files
        /\ call[c].held \cup ({f} \cap disk.staged) \in SUBSET Files
    BY <1>2, Fields
  <2> QED
    BY <1>1, <1>2, <2>1 DEF Requests
<1> HIDE DEF x
<1>6. call'[c] = x
  BY <1>4, <1>5, ShapesCall DEF DraftInv
<1>7. Deleting' = Deleting
  BY <1>1, <1>4, <1>5, <1>6, ShapesCall DEF DraftInv, Deleting, At
<1>8. Sound(c)'
  <2>1. ~x.raced /\ ~torn =>
          /\ ~Deleting /\ Passes(call[c].spec) /\ call[c].left \subseteq disk.staged
          /\ call[c].held \cup call[c].left = call[c].spec.files
    BY <1>1, <1>5 DEF DraftInv, Gathered, Sound, At
  <2> QED
    BY <1>4, <1>5, <1>6, <1>7, <2>1 DEF Sound, At, Passes
<1> QED
  BY <1>1, <1>2, <1>4, <1>5, <1>8, PipelineStep DEF Calm

-----------------------------------------------------------------------------
(* The steps that write, or that begin to.                                  *)
LEMMA NoneIs == None \notin Records /\ None \notin Drafts
BY DEF None, Records, Drafts, Contents

(* A write of a record that names nothing new.                              *)
LEMMA PersistNumbered ==
  ASSUME DraftInv, NEW c \in Calls, PersistChange(c), uploads' = uploads, listed' = listed,
         record'.files \subseteq record.files, At(c, {"saving", "removing"})',
         At(c, {"removing"})' => call'[c].file \in record.files \ record'.files
  PROVE  Numbered' /\ Removed'
<1>0. Writing' = Writing \cup {c} /\ Deleting' = Deleting /\ Writing \subseteq Calls
  BY PersistSame DEF Writing
<1>1. /\ call'[c].snap = record' /\ call'[c].behind = Writing \ {c} /\ c \notin Writing
      /\ disk'.record = disk.record /\ torn' = torn /\ ~At(c, {"uploading", "unlinking"})'
      /\ \A o \in Calls \ {c} : SameWrite(o)
  BY DEF PersistChange, At
<1>2. Numbered /\ Removed
  BY DEF DraftInv
<1>3. \A o \in Writing : call'[o].snap = call[o].snap /\ call'[o].overtaken = call[o].overtaken
  BY <1>0, <1>1 DEF SameWrite
<1>4. \A o \in Calls \ {c} : \A at : At(o, at)' <=> At(o, at)
  BY <1>1 DEF SameWrite, At
<1>5. \A o \in Calls \ {c} : call'[o].file = call[o].file /\ call'[o].behind = call[o].behind
                             /\ call'[o].snap = call[o].snap
  BY <1>1 DEF SameWrite
<1>6. Numbered'
  <2>1. record'.files \subseteq 1..uploads /\ disk'.record.files \subseteq 1..uploads
    BY <1>1, <1>2 DEF Numbered
  <2>2. \A o \in Writing' : call'[o].snap.files \subseteq 1..uploads
    BY <1>0, <1>1, <1>2, <1>3, <2>1 DEF Numbered
  <2>3. \A o \in Calls : At(o, {"uploading", "removing", "unlinking"})'
        => call'[o].file \in 1..uploads
    <3>1. At(c, {"uploading", "removing", "unlinking"})' => At(c, {"removing"})'
      BY <1>1 DEF At
    <3>2. record.files \subseteq 1..uploads
      BY <1>2 DEF Numbered
    <3> QED
      BY <1>2, <1>4, <1>5, <3>1, <3>2 DEF Numbered
  <2>4. ASSUME NEW o \in Calls, At(o, {"uploading"})'
        PROVE  /\ call'[o].file \notin record'.files /\ call'[o].file \notin disk'.record.files
               /\ \A w \in Writing' : call'[o].file \notin call'[w].snap.files
               /\ \A w \in Calls \ {o} : At(w, {"uploading", "removing", "unlinking"})'
                                           => call'[w].file # call'[o].file
    <3>1. o # c /\ At(o, {"uploading"}) /\ call'[o].file = call[o].file
      BY <1>1, <1>4, <1>5, <2>4 DEF At
    <3>2. /\ call[o].file \notin record.files /\ call[o].file \notin disk.record.files
          /\ \A w \in Writing : call[o].file \notin call[w].snap.files
          /\ \A w \in Calls \ {o} : At(w, {"uploading", "removing", "unlinking"})
                                      => call[w].file # call[o].file
      BY <1>2, <3>1 DEF Numbered
    <3>3. \A w \in Writing' : call[o].file \notin call'[w].snap.files
      BY <1>0, <1>1, <1>3, <3>2
    <3>4. ASSUME NEW w \in Calls \ {o}, At(w, {"uploading", "removing", "unlinking"})'
          PROVE  call'[w].file # call[o].file
      <4>1. CASE w = c
        BY <1>1, <3>2, <3>4, <4>1 DEF At
      <4>2. CASE w # c
        BY <1>4, <1>5, <3>2, <3>4, <4>2
      <4> QED
        BY <4>1, <4>2
    <3> QED
      BY <1>1, <3>1, <3>2, <3>3, <3>4
  <2> QED
    BY <2>1, <2>2, <2>3, <2>4 DEF Numbered
<1>7. Removed'
  <2> SUFFICES ASSUME NEW o \in Calls
               PROVE  /\ At(o, {"removing", "unlinking"})' => call'[o].file \notin record'.files
                      /\ At(o, {"removing"})' =>
                           /\ call'[o].file \notin call'[o].snap.files
                           /\ \A w \in Writing' : call'[o].file \in call'[w].snap.files
                                                    => w \in call'[o].behind
                      /\ At(o, {"unlinking"})' /\ ~torn' /\ listed' =>
                           /\ call'[o].file \notin disk'.record.files
                           /\ \A w \in Writing' : call'[o].file \in call'[w].snap.files
                                                    => call'[w].overtaken
    BY DEF Removed
  <2>1. CASE o = c
    <3>1. At(c, {"removing", "unlinking"})' => At(c, {"removing"})'
      BY <1>1 DEF At
    <3>2. \A w \in Writing' : call'[c].file \in call'[w].snap.files
          /\ call'[c].file \notin record'.files
            => w \in Writing \ {c}
      BY <1>0, <1>1
    <3> QED
      BY <1>1, <2>1, <3>1, <3>2 DEF At
  <2>2. CASE o # c
    <3>1. /\ At(o, {"removing", "unlinking"}) => call[o].file \notin record.files
          /\ At(o, {"removing"}) =>
               /\ call[o].file \notin call[o].snap.files
               /\ \A w \in Writing : call[o].file \in call[w].snap.files => w \in call[o].behind
          /\ At(o, {"unlinking"}) /\ ~torn /\ listed =>
               /\ call[o].file \notin disk.record.files
               /\ \A w \in Writing : call[o].file \in call[w].snap.files => call[w].overtaken
      BY <1>2 DEF Removed
    <3>2. At(o, {"removing", "unlinking"}) =>
            \A w \in Writing' : call[o].file \in call'[w].snap.files => w \in Writing
      BY <1>0, <1>1, <3>1
    <3>3. At(o, {"removing"}) \/ At(o, {"unlinking"}) => At(o, {"removing", "unlinking"})
      BY DEF At
    <3>4. /\ At(o, {"removing", "unlinking"})' <=> At(o, {"removing", "unlinking"})
          /\ At(o, {"removing"})' <=> At(o, {"removing"})
          /\ At(o, {"unlinking"})' <=> At(o, {"unlinking"})
      BY <1>4, <2>2
    <3> QED
      BY <1>1, <1>3, <1>5, <2>2, <3>1, <3>2, <3>3, <3>4
  <2> QED
    BY <2>1, <2>2
<1> QED
  BY <1>6, <1>7

(* One that names what is there.                                            *)
LEMMA PersistNames ==
  ASSUME DraftInv, NEW c \in Calls, PersistChange(c), listed' = listed,
         disk.blobs \subseteq disk'.blobs, disk.manifest # None => disk'.manifest # None,
         record'.files \subseteq record.files \cup disk'.blobs,
         record'.status = "finalized" => record.status = "finalized" \/ disk'.manifest # None
  PROVE  NamesWhatIsThere'
<1> SUFFICES ASSUME ~torn, listed
             PROVE  /\ There(record)' /\ There(disk.record)'
                    /\ \A o \in Writing' : ~call'[o].overtaken => There(call[o].snap)'
  BY DEF NamesWhatIsThere, PersistChange
<1>1. /\ There(record) /\ There(disk.record) /\ record # None
      /\ \A o \in Writing : ~call[o].overtaken => There(call[o].snap)
  BY DEF DraftInv, NamesWhatIsThere, Active
<1>2. There(record)'
  BY <1>1 DEF There
<1>3. There(disk.record)'
  BY <1>1 DEF There, PersistChange
<1>4. Writing' = Writing \cup {c} /\ Writing \subseteq Calls /\ c \notin Writing
  BY PersistSame DEF Writing, PersistChange
<1>5. ASSUME NEW o \in Writing', ~call'[o].overtaken PROVE There(call[o].snap)'
  <2>1. CASE o = c
    BY <1>2, <2>1 DEF There, PersistChange
  <2>2. CASE o # c
    <3>1. o \in Writing /\ call'[o].snap = call[o].snap /\ ~call[o].overtaken
      BY <1>4, <1>5, <2>2 DEF PersistChange, SameWrite
    <3>2. There(call[o].snap)
      BY <1>1, <3>1
    <3> QED
      BY <3>1, <3>2 DEF There
  <2> QED
    BY <2>1, <2>2
<1> QED
  BY <1>2, <1>3, <1>5

(* Memory names every draft.                                                *)
LEMMA ActiveIs ==
  ASSUME DraftInv, NEW c \in Calls, call[c].at \notin {"idle", "reading"}
  PROVE  record \in Records /\ record # None
BY NoneIs DEF DraftInv, Active, Shapes, At

(* A call ends that has no write under way.                                 *)
LEMMA LeaveKeeps ==
  ASSUME DraftInv, NEW c \in Calls, c \notin Writing, ~At(c, {"deleting"}),
         call' \in [Calls -> Requests], call'[c] = Idle,
         \A o \in Calls \ {c} : call'[o] = call[o],
         UNCHANGED <<record, listed, cached, disk, uploads, torn, unsaved>>
  PROVE  DraftInv'
<1>1. Writing' = Writing /\ Deleting' = Deleting /\ Writing \subseteq Calls
  BY IdleIs DEF Writing, Deleting, At
<1>2. Shapes'
  BY DEF DraftInv, Shapes
<1>3. Active'
  BY <1>1, IdleIs DEF DraftInv, Active, At
<1>4. WriteOrder'
  BY <1>1, IdleIs DEF DraftInv, WriteOrder
<1>5. Numbered'
  BY <1>1, IdleIs DEF DraftInv, Numbered, At
<1>6. Removed'
  BY <1>1, IdleIs DEF DraftInv, Removed, At
<1>7. NamesWhatIsThere'
  BY <1>1 DEF DraftInv, NamesWhatIsThere, There
<1>8. OnItsWay' /\ Gone'
  BY <1>1 DEF DraftInv, OnItsWay, Gone
<1>9. Gathered'
  <2>1. ASSUME NEW o \in Calls, o # c PROVE Sound(o)'
    <3>1. call'[o] = call[o] /\ Sound(o) /\ Held(o)' = Held(o)
      BY <2>1 DEF DraftInv, Gathered, Held, Settings
    <3> QED
      BY <1>1, <3>1 DEF Sound, At, Passes
  <2>2. Sound(c)'
    BY IdleIs DEF Sound, At
  <2> QED
    BY <2>1, <2>2 DEF Gathered
<1>10. Manifested'
  BY <1>1, IdleIs DEF DraftInv, Manifested, At, Passes
<1> QED
  BY <1>2, <1>3, <1>4, <1>5, <1>6, <1>7, <1>8, <1>9, <1>10 DEF DraftInv

(* A draft is created.                                                      *)
LEMMA CreateKeeps == ASSUME DraftInv, NEW c \in Calls, Create(c) PROVE DraftInv'
<1>1. /\ record = None /\ disk = Bare /\ call[c] = Idle
         /\ \A o \in Calls : At(o, {"idle", "reading"})
  BY DEF Create, At, DraftInv, Active
<1>2. PICK y \in Contents : record' = [content |-> y, files |-> {}, status |-> "draft"]
  BY DEF Create
<1>3. record' \in Records /\ record'.files = {} /\ record'.status = "draft" /\ record' # None
  BY <1>2, NoneIs DEF Records
<1>4. PICK x \in Requests :
        /\ call' = [call EXCEPT ![c] = x] /\ x.at = "creating" /\ x.snap = record'
        /\ x.behind = Writing \ {c} /\ ~x.overtaken
  <2> DEFINE x == Persisting(c, "creating", record')
  <2>1. call' = [call EXCEPT ![c] = x]
    BY DEF Create
  <2>2. /\ x \in Requests /\ x.at = "creating" /\ x.snap = record' /\ x.behind = Writing \ {c}
        /\ x.overtaken = call[c].overtaken
    BY <1>3, PersistIs DEF DraftInv, Stages
  <2> QED
    BY <1>1, <2>1, <2>2, IdleIs
<1>5. /\ call' \in [Calls -> Requests] /\ call'[c] = x
      /\ \A o \in Calls \ {c} : call'[o] = call[o]
  BY <1>4, ShapesCall DEF DraftInv
<1>6. UNCHANGED <<cached, disk, uploads, torn, unsaved>> /\ listed'
  BY DEF Create
<1>7. Writing = {} /\ ~Deleting /\ Writing' = {c} /\ ~Deleting'
  BY <1>1, <1>4, <1>5 DEF Writing, Deleting, At
<1>8. PersistChange(c)
  BY <1>1, <1>3, <1>4, <1>5, <1>6, <1>7, IdleIs DEF PersistChange, At, SameWrite
<1>9. disk.record = None /\ disk.manifest = None /\ None.files = {}
  BY <1>1 DEF Bare, None
<1>10. Shapes'
  BY <1>3, <1>5, <1>6 DEF DraftInv, Shapes
<1>11. Active'
  BY <1>3, <1>4, <1>5, <1>6, <1>7 DEF DraftInv, Active, At
<1>12. Numbered'
  BY <1>1, <1>3, <1>4, <1>5, <1>6, <1>7, <1>9 DEF Numbered, At
<1>13. Removed'
  BY <1>1, <1>4, <1>5 DEF Removed, At
<1>14. NamesWhatIsThere'
  BY <1>3, <1>4, <1>5, <1>6, <1>7, <1>9 DEF NamesWhatIsThere, There
<1>15. Gathered'
  <2>1. ASSUME NEW o \in Calls, o # c PROVE Sound(o)'
    <3>1. Sound(o) /\ At(o, {"idle", "reading"}) /\ call'[o] = call[o]
      BY <1>1, <1>5, <2>1 DEF DraftInv, Gathered
    <3> QED
      BY <1>6, <1>7, <3>1 DEF Sound, At, Passes
  <2>2. Sound(c)'
    BY <1>4, <1>5 DEF Sound, At
  <2> QED
    BY <2>1, <2>2 DEF Gathered
<1>16. Manifested'
  BY <1>1, <1>4, <1>5, <1>6, <1>9 DEF Manifested, At
<1> QED
  BY <1>6, <1>8, <1>10, <1>11, <1>12, <1>13, <1>14, <1>15, <1>16, PersistKeeps DEF DraftInv

(* It is changed.                                                           *)
LEMMA UpdateKeeps == ASSUME DraftInv, NEW c \in Calls, Update(c) PROVE DraftInv'
<1>1. listed /\ ~Deleting /\ record \in Records /\ record # None /\ call[c] = Idle
  BY KnownMeans, NoneIs DEF Update, DraftInv, Active
<1>2. PICK y \in Contents : record' = [record EXCEPT !.content = y]
  BY DEF Update
<1>3. /\ record' \in Records /\ record'.files = record.files /\ record'.status = record.status
      /\ record' # None
  BY <1>1, <1>2, NoneIs DEF Records
<1>4. UNCHANGED <<listed, cached, disk, uploads, torn, unsaved>>
  BY DEF Update
<1> DEFINE x == Persisting(c, "saving", record')
<1>5. /\ x \in Requests /\ x.at = "saving" /\ x.snap = record' /\ x.behind = Writing \ {c}
      /\ ~x.overtaken
  BY <1>1, <1>3, PersistIs, IdleIs DEF DraftInv, Stages
<1>6. Settings(record) \in Drafts
  BY <1>1 DEF Settings, Records, Drafts
<1>7. /\ DOMAIN call' = Calls /\ call'[c] = x
      /\ \A o \in Calls \ {c} :
           \/ /\ At(o, {"loading", "staging"}) /\ call[o].draft = None
              /\ call'[o] = [call[o] EXCEPT !.draft = Settings(record)]
           \/ call'[o] = call[o] /\ ~(At(o, {"loading", "staging"}) /\ call[o].draft = None)
  BY DEF Update
<1> HIDE DEF x
<1>8. ASSUME NEW o \in Calls, o # c
      PROVE  /\ call'[o] \in Requests /\ SameWrite(o) /\ call'[o].spec = call[o].spec
             /\ call'[o].left = call[o].left /\ call'[o].held = call[o].held
             /\ call'[o].raced = call[o].raced
             /\ At(o, {"loading", "staging"}) => Held(o)' = Held(o)
             /\ ~At(o, {"loading", "staging"}) => call'[o] = call[o]
  <2>1. call[o] \in Requests
    BY DEF DraftInv, Shapes
  <2>2. CASE At(o, {"loading", "staging"}) /\ call[o].draft = None
    <3>1. call'[o] = [call[o] EXCEPT !.draft = Settings(record)]
      BY <1>7, <1>8, <2>2
    <3>2. /\ call'[o] \in Requests /\ SameWrite(o) /\ call'[o].spec = call[o].spec
          /\ call'[o].left = call[o].left /\ call'[o].held = call[o].held
          /\ call'[o].raced = call[o].raced /\ call'[o].draft = Settings(record)
      BY <1>6, <2>1, <3>1 DEF Requests, SameWrite
    <3>3. Held(o) = Settings(record) /\ Held(o)' = Settings(record)
      BY <1>6, <2>2, <3>2, NoneIs DEF Held
    <3> QED
      BY <2>2, <3>2, <3>3
  <2>3. CASE ~(At(o, {"loading", "staging"}) /\ call[o].draft = None)
    <3>1. call'[o] = call[o]
      BY <1>7, <1>8, <2>3
    <3> QED
      BY <2>1, <2>3, <3>1 DEF SameWrite, Held
  <2> QED
    BY <2>2, <2>3
<1>9. call' \in [Calls -> Requests]
  <2>1. call' = [o \in Calls |-> call'[o]]
    BY DEF Update
  <2> QED
    BY <1>5, <1>7, <1>8, <2>1
<1>10. Writing' = Writing \cup {c} /\ c \notin Writing /\ Deleting' = Deleting
  BY <1>1, <1>5, <1>7, <1>8, IdleIs DEF Writing, Deleting, At, SameWrite
<1>11. PersistChange(c)
  BY <1>1, <1>3, <1>4, <1>5, <1>7, <1>8, <1>10, IdleIs DEF PersistChange, At
<1>12. Shapes'
  BY <1>3, <1>4, <1>9 DEF DraftInv, Shapes
<1>13. Active'
  BY <1>1, <1>3, <1>4, <1>5, <1>7, <1>8, <1>10 DEF DraftInv, Active, At, SameWrite
<1>14. At(c, {"saving", "removing"})' /\ ~At(c, {"removing"})'
  BY <1>5, <1>7 DEF At
<1>15. Numbered' /\ Removed'
  BY <1>3, <1>4, <1>11, <1>14, PersistNumbered
<1>16. NamesWhatIsThere'
  BY <1>3, <1>4, <1>11, PersistNames
<1>17. Gathered'
  <2>1. ASSUME NEW o \in Calls, o # c PROVE Sound(o)'
    <3>1. Sound(o)
      BY DEF DraftInv, Gathered
    <3> QED
      BY <1>3, <1>4, <1>8, <1>10, <2>1, <3>1 DEF Sound, At, Passes, SameWrite
  <2>2. Sound(c)'
    BY <1>5, <1>7 DEF Sound, At
  <2> QED
    BY <2>1, <2>2 DEF Gathered
<1>18. Manifested'
  BY <1>4, <1>5, <1>7, <1>8, <1>10 DEF DraftInv, Manifested, At, Passes, SameWrite
<1> QED
  BY <1>4, <1>11, <1>12, <1>13, <1>15, <1>16, <1>17, <1>18, PersistKeeps DEF DraftInv

(* A file is taken out of it.                                               *)
LEMMA RemoveKeeps ==
  ASSUME MaxFiles \in Nat, DraftInv, NEW c \in Calls, NEW f \in Files, Remove(c, f) PROVE DraftInv'
<1>1. /\ listed /\ ~Deleting /\ record \in Records /\ record # None /\ call[c] = Idle
      /\ f \in record.files
  BY KnownMeans, NoneIs DEF Remove, DraftInv, Active
<1>2. /\ record' \in Records /\ record'.files = record.files \ {f} /\ record'.status = record.status
      /\ record' # None /\ record'.content = record.content
  <2>1. record' = [record EXCEPT !.files = @ \ {f}]
    BY DEF Remove
  <2> QED
    BY <1>1, <2>1, NoneIs DEF Records
<1>3. UNCHANGED <<listed, disk, uploads, torn, unsaved>> /\ cached' \subseteq Files
  BY DEF Remove, DraftInv, Shapes
<1> DEFINE x == [Persisting(c, "removing", record') EXCEPT !.file = f]
<1>4. /\ x \in Requests /\ x.at = "removing" /\ x.snap = record' /\ x.behind = Writing \ {c}
      /\ ~x.overtaken /\ x.file = f
  <2> DEFINE y == Persisting(c, "removing", record')
  <2>1. /\ y \in Requests /\ y.at = "removing" /\ y.snap = record' /\ y.behind = Writing \ {c}
        /\ ~y.overtaken
    BY <1>1, <1>2, PersistIs, IdleIs DEF DraftInv, Stages
  <2>2. f \in Nat
    BY DEF Files
  <2>3. x = [y EXCEPT !.file = f]
    OBVIOUS
  <2> HIDE DEF y, x
  <2> QED
    BY <2>1, <2>2, <2>3 DEF Requests
<1>5. /\ call'[c] = x
      /\ \A o \in Calls \ {c} :
           \/ At(o, {"loading", "staging"}) /\ call'[o] = [call[o] EXCEPT !.raced = TRUE]
           \/ ~At(o, {"loading", "staging"}) /\ call'[o] = call[o]
  BY DEF Remove
<1> HIDE DEF x
<1>6. ASSUME NEW o \in Calls, o # c
      PROVE  /\ call'[o] \in Requests /\ SameWrite(o) /\ call'[o].spec = call[o].spec
             /\ At(o, {"loading", "staging"}) => call'[o].raced
             /\ ~At(o, {"loading", "staging"}) => call'[o] = call[o]
  <2>1. call[o] \in Requests
    BY DEF DraftInv, Shapes
  <2>2. CASE At(o, {"loading", "staging"})
    <3>1. call'[o] = [call[o] EXCEPT !.raced = TRUE]
      BY <1>5, <1>6, <2>2
    <3> QED
      BY <2>1, <2>2, <3>1 DEF Requests, SameWrite
  <2>3. CASE ~At(o, {"loading", "staging"})
    <3>1. call'[o] = call[o]
      BY <1>5, <1>6, <2>3
    <3> QED
      BY <2>1, <2>3, <3>1 DEF SameWrite
  <2> QED
    BY <2>2, <2>3
<1>7. call' \in [Calls -> Requests]
  <2>1. call' = [o \in Calls |-> call'[o]]
    BY DEF Remove
  <2> QED
    BY <1>4, <1>5, <1>6, <2>1
<1>8. Writing' = Writing \cup {c} /\ c \notin Writing /\ Deleting' = Deleting
  BY <1>1, <1>4, <1>5, <1>6, IdleIs DEF Writing, Deleting, At, SameWrite
<1>9. PersistChange(c)
  BY <1>1, <1>2, <1>3, <1>4, <1>5, <1>6, <1>8, IdleIs DEF PersistChange, At
<1>10. At(c, {"saving", "removing"})' /\ call'[c].file \in record.files \ record'.files
  BY <1>1, <1>2, <1>4, <1>5 DEF At
<1>11. Numbered' /\ Removed'
  BY <1>2, <1>3, <1>9, <1>10, PersistNumbered
<1>12. NamesWhatIsThere'
  BY <1>2, <1>3, <1>9, PersistNames
<1>13. Shapes'
  BY <1>2, <1>3, <1>7 DEF DraftInv, Shapes
<1>14. Active'
  BY <1>1, <1>2, <1>3, <1>4, <1>5, <1>6, <1>8 DEF DraftInv, Active, At, SameWrite
<1>15. Gathered'
  <2>1. ASSUME NEW o \in Calls, o # c PROVE Sound(o)'
    <3>1. Sound(o)
      BY DEF DraftInv, Gathered
    <3> QED
      BY <1>3, <1>6, <1>8, <2>1, <3>1 DEF Sound, At, Passes, SameWrite
  <2>2. Sound(c)'
    BY <1>4, <1>5 DEF Sound, At
  <2> QED
    BY <2>1, <2>2 DEF Gathered
<1>16. Manifested'
  BY <1>3, <1>4, <1>5, <1>6, <1>8 DEF DraftInv, Manifested, At, Passes, SameWrite
<1> QED
  BY <1>3, <1>9, <1>11, <1>12, <1>13, <1>14, <1>15, <1>16, PersistKeeps DEF DraftInv

(* The manifest is written.                                                 *)
LEMMA WriteManifestKeeps ==
  ASSUME DraftInv, NEW c \in Calls, WriteManifest(c) PROVE DraftInv'
<1>1. /\ call[c].at = "copying" /\ call[c].left = {} /\ call[c] \in Requests
      /\ call[c].spec # None /\ call[c].spec \in Drafts
  <2>1. call[c] \in Requests /\ call[c].at = "copying" /\ call[c].left = {}
    BY DEF WriteManifest, StagedAll, At, DraftInv, Shapes
  <2> QED
    BY <2>1, Fields DEF DraftInv, Manifested, At
<1>2. record \in Records /\ record # None
  BY <1>1, ActiveIs
<1>3. /\ record' \in Records /\ record'.files = record.files /\ record' # None
      /\ record'.content = record.content
  <2>1. record' = [record EXCEPT !.status = "finalized"]
    BY DEF WriteManifest
  <2> QED
    BY <1>2, <2>1, NoneIs DEF Records
<1>4. UNCHANGED <<listed, cached, uploads, torn, unsaved>>
  BY DEF WriteManifest
<1>5. /\ disk' \in Disks /\ disk'.record = disk.record /\ disk'.blobs = disk.blobs
      /\ disk'.manifest = call[c].spec /\ disk'.raced = call[c].raced /\ disk'.staged = disk.staged
  <2>1. disk' = [disk EXCEPT !.manifest = call[c].spec, !.raced = call[c].raced]
    BY DEF WriteManifest
  <2>2. call[c].raced \in BOOLEAN /\ disk \in Disks
    BY <1>1, Fields DEF DraftInv, Shapes
  <2> QED
    BY <1>1, <2>1, <2>2 DEF Disks
<1> DEFINE x == [Persisting(c, "saving", record') EXCEPT !.spec = None, !.raced = FALSE,
!.left = {}]
<1>6. c \notin Writing /\ ~call[c].overtaken
  BY <1>1 DEF DraftInv, WriteOrder, Writing, At
<1>7. /\ x \in Requests /\ x.at = "saving" /\ x.snap = record' /\ x.behind = Writing \ {c}
      /\ ~x.overtaken
  <2> DEFINE y == Persisting(c, "saving", record')
  <2>1. /\ y \in Requests /\ y.at = "saving" /\ y.snap = record' /\ y.behind = Writing \ {c}
        /\ ~y.overtaken
    BY <1>3, <1>6, PersistIs DEF DraftInv, Stages
  <2>2. x = [y EXCEPT !.spec = None, !.raced = FALSE, !.left = {}]
    OBVIOUS
  <2> HIDE DEF y, x
  <2> QED
    BY <2>1, <2>2 DEF Requests
<1>8. call' = [call EXCEPT ![c] = x]
  BY DEF WriteManifest
<1> HIDE DEF x
<1>9. /\ call' \in [Calls -> Requests] /\ call'[c] = x
      /\ \A o \in Calls \ {c} : call'[o] = call[o]
  BY <1>7, <1>8, ShapesCall DEF DraftInv
<1>10. Writing' = Writing \cup {c} /\ Deleting' = Deleting
  BY <1>1, <1>7, <1>9 DEF Writing, Deleting, At
<1>11. PersistChange(c)
  BY <1>1, <1>3, <1>4, <1>5, <1>6, <1>7, <1>9, <1>10 DEF PersistChange, At, SameWrite
<1>12. At(c, {"saving", "removing"})' /\ ~At(c, {"removing"})'
  BY <1>7, <1>9 DEF At
<1>13. Numbered' /\ Removed'
  BY <1>3, <1>4, <1>11, <1>12, PersistNumbered
<1>14. NamesWhatIsThere'
  BY <1>1, <1>3, <1>4, <1>5, <1>11, PersistNames
<1>15. Shapes'
  BY <1>3, <1>4, <1>5, <1>9 DEF DraftInv, Shapes
<1>16. Active'
  BY <1>3, <1>4, <1>7, <1>9, <1>10 DEF DraftInv, Active, At
<1>17. Gathered'
  <2>1. ASSUME NEW o \in Calls, o # c PROVE Sound(o)'
    <3>1. call'[o] = call[o] /\ Sound(o)
      BY <1>9, <2>1 DEF DraftInv, Gathered
    <3>2. Held(o)' = Held(o)
      BY <1>3, <3>1 DEF Held, Settings
    <3> QED
      BY <1>3, <1>4, <1>5, <1>10, <3>1, <3>2 DEF Sound, At, Passes
  <2>2. Sound(c)'
    BY <1>7, <1>9 DEF Sound, At
  <2> QED
    BY <2>1, <2>2 DEF Gathered
<1>18. Manifested'
  <2>1. \A o \in Calls : At(o, {"staging", "copying"})' => call'[o].spec # None
    BY <1>7, <1>9 DEF DraftInv, Manifested, At
  <2>2. ~torn /\ ~call[c].raced => Passes(call[c].spec) /\ call[c].spec.files \subseteq disk.staged
    BY <1>1 DEF DraftInv, Gathered, Sound, At
  <2> QED
    BY <1>4, <1>5, <2>1, <2>2 DEF Manifested, Passes
<1> QED
  BY <1>4, <1>11, <1>13, <1>14, <1>15, <1>16, <1>17, <1>18, PersistKeeps DEF DraftInv

(* An upload begins.                                                        *)
LEMMA UploadKeeps == ASSUME MaxFiles \in Nat, DraftInv, NEW c \in Calls, Upload(c) PROVE DraftInv'
<1>1. /\ listed /\ ~Deleting /\ record \in Records /\ record # None /\ call[c] = Idle
      /\ uploads \in Nat /\ uploads < MaxFiles /\ uploads' = uploads + 1
  BY KnownMeans, NoneIs DEF Upload, DraftInv, Active, Shapes
<1> DEFINE f == uploads + 1
           x == [call[c] EXCEPT !.at = "uploading", !.file = f]
<1>2. UNCHANGED <<record, listed, cached, disk, torn, unsaved>> /\ call' = [call EXCEPT ![c] = x]
  BY DEF Upload
<1>3. x \in Requests /\ x.at = "uploading" /\ x.file = f /\ x.behind = {} /\ ~x.overtaken
  <2>1. f \in Nat
    BY <1>1
  <2> HIDE DEF f
  <2> QED
    BY <1>1, <2>1, IdleIs DEF Requests, Stages
<1>4. f = uploads + 1
  OBVIOUS
<1> HIDE DEF x, f
<1>5. /\ call' \in [Calls -> Requests] /\ call'[c] = x
      /\ \A o \in Calls \ {c} : call'[o] = call[o]
  BY <1>2, <1>3, ShapesCall DEF DraftInv
<1>6. Writing' = Writing /\ c \notin Writing /\ Deleting' = Deleting /\ Writing \subseteq Calls
  BY <1>1, <1>3, <1>5, IdleIs DEF Writing, Deleting, At
<1>7. Shapes'
  BY <1>1, <1>2, <1>5 DEF DraftInv, Shapes
<1>8. Active'
  BY <1>1, <1>2, <1>3, <1>5, <1>6 DEF DraftInv, Active, At
<1>9. WriteOrder'
  BY <1>3, <1>5, <1>6 DEF DraftInv, WriteOrder
<1>10. Numbered'
  <2>1. 1..uploads \subseteq 1..uploads' /\ f \in 1..uploads' /\ f \notin 1..uploads
    BY <1>1, <1>4
  <2>2. Numbered
    BY DEF DraftInv
  <2>3. /\ record.files \subseteq 1..uploads' /\ disk.record.files \subseteq 1..uploads'
        /\ \A w \in Writing' : call'[w] = call[w] /\ call'[w].snap.files \subseteq 1..uploads'
    BY <1>5, <1>6, <2>1, <2>2 DEF Numbered
  <2>4. \A o \in Calls : At(o, {"uploading", "removing", "unlinking"})'
        => call'[o].file \in 1..uploads'
    BY <1>3, <1>5, <2>1, <2>2 DEF Numbered, At
  <2>5. ASSUME NEW o \in Calls, At(o, {"uploading"})'
        PROVE  /\ call'[o].file \notin record.files /\ call'[o].file \notin disk.record.files
               /\ \A w \in Writing' : call'[o].file \notin call'[w].snap.files
               /\ \A w \in Calls \ {o} : At(w, {"uploading", "removing", "unlinking"})'
                                           => call'[w].file # call'[o].file
    <3>1. CASE o = c
      <4>1. \A w \in Calls \ {c} : At(w, {"uploading", "removing", "unlinking"})'
            => call'[w].file \in 1..uploads
        BY <1>5, <2>2 DEF Numbered, At
      <4>2. /\ record.files \subseteq 1..uploads /\ disk.record.files \subseteq 1..uploads
            /\ \A w \in Writing' : call'[w].snap.files \subseteq 1..uploads
        BY <1>6, <2>2, <2>3 DEF Numbered
      <4> QED
        BY <1>3, <1>5, <2>1, <3>1, <4>1, <4>2
    <3>2. CASE o # c
      <4>1. At(o, {"uploading"}) /\ call'[o] = call[o]
        BY <1>5, <2>5, <3>2 DEF At
      <4>2. /\ call[o].file \in 1..uploads
            /\ call[o].file \notin record.files /\ call[o].file \notin disk.record.files
            /\ \A w \in Writing : call[o].file \notin call[w].snap.files
            /\ \A w \in Calls \ {o} : At(w, {"uploading", "removing", "unlinking"})
                                        => call[w].file # call[o].file
        BY <2>2, <4>1 DEF Numbered, At
      <4>3. ASSUME NEW w \in Calls \ {o}, At(w, {"uploading", "removing", "unlinking"})'
            PROVE  call'[w].file # call[o].file
        <5>1. CASE w = c
          BY <1>3, <1>5, <2>1, <4>2, <5>1
        <5>2. CASE w # c
          BY <1>5, <4>2, <4>3, <5>2 DEF At
        <5> QED
          BY <5>1, <5>2
      <4> QED
        BY <1>6, <2>3, <4>1, <4>2, <4>3
    <3> QED
      BY <3>1, <3>2
  <2> QED
    BY <1>2, <2>3, <2>4, <2>5 DEF Numbered
<1>11. Removed'
  BY <1>2, <1>3, <1>5, <1>6 DEF DraftInv, Removed, At
<1>12. NamesWhatIsThere'
  BY <1>2, <1>5, <1>6 DEF DraftInv, NamesWhatIsThere, There
<1>13. OnItsWay' /\ Gone'
  BY <1>2, <1>5, <1>6 DEF DraftInv, OnItsWay, Gone
<1>14. Gathered'
  <2>1. ASSUME NEW o \in Calls, o # c PROVE Sound(o)'
    <3>1. call'[o] = call[o] /\ Sound(o) /\ Held(o)' = Held(o)
      BY <1>2, <1>5, <2>1 DEF DraftInv, Gathered, Held, Settings
    <3> QED
      BY <1>2, <1>6, <3>1 DEF Sound, At, Passes
  <2>2. Sound(c)'
    BY <1>3, <1>5 DEF Sound, At
  <2> QED
    BY <2>1, <2>2 DEF Gathered
<1>15. Manifested'
  BY <1>2, <1>3, <1>5, <1>6 DEF DraftInv, Manifested, At, Passes
<1> QED
  BY <1>7, <1>8, <1>9, <1>10, <1>11, <1>12, <1>13, <1>14, <1>15 DEF DraftInv

(* Its blob lands.                                                          *)
LEMMA UploadedKeeps == ASSUME MaxFiles \in Nat, DraftInv, NEW c \in Calls, Uploaded(c)
  PROVE DraftInv'
<1> DEFINE f == call[c].file
<1>1. /\ call[c].at = "uploading" /\ call[c] \in Requests /\ f \in Nat /\ record \in Records
      /\ record # None
  <2>1. call[c].at = "uploading" /\ call[c] \in Requests
    BY DEF Uploaded, At, DraftInv, Shapes
  <2> QED
    BY <2>1, Fields, ActiveIs
<1>2. c \notin Writing /\ ~call[c].overtaken /\ call[c].behind = {}
  BY <1>1 DEF DraftInv, WriteOrder, Writing, At
<1>3. /\ f \in 1..uploads /\ f \notin record.files /\ f \notin disk.record.files
      /\ \A o \in Writing : f \notin call[o].snap.files
      /\ \A o \in Calls \ {c} : At(o, {"uploading", "removing", "unlinking"}) => call[o].file # f
  BY <1>1 DEF DraftInv, Numbered, At
<1>4. CASE call' = [call EXCEPT ![c] = Idle] /\ UNCHANGED <<disk, record, cached>>
  <2>1. UNCHANGED <<listed, uploads, torn, unsaved>>
    BY DEF Uploaded
  <2>2. /\ call' \in [Calls -> Requests] /\ call'[c] = Idle
        /\ \A o \in Calls \ {c} : call'[o] = call[o]
    BY <1>4, IdleIs, ShapesCall DEF DraftInv
  <2> QED
    BY <1>1, <1>2, <1>4, <2>1, <2>2, LeaveKeeps DEF At
<1>5. CASE ~(call' = [call EXCEPT ![c] = Idle] /\ UNCHANGED <<disk, record, cached>>)
  <2>1. /\ disk' = [disk EXCEPT !.blobs = @ \cup {f}]
        /\ record' = [record EXCEPT !.files = @ \cup {f}]
        /\ cached' = cached \cup {f}
        /\ call' = [call EXCEPT ![c] = Persisting(c, "saving", record')]
        /\ UNCHANGED <<listed, uploads, torn, unsaved>>
    BY <1>5 DEF Uploaded
  <2> HIDE DEF f
  <2>2. f \in Files
    BY <1>3 DEF DraftInv, Files, Shapes
  <2>3. /\ record' \in Records /\ record'.files = record.files \cup {f} /\ record' # None
        /\ record'.status = record.status /\ record'.content = record.content
    BY <1>1, <2>1, <2>2, NoneIs DEF Records
  <2>4. /\ disk' \in Disks /\ disk'.record = disk.record /\ disk'.blobs = disk.blobs \cup {f}
        /\ disk'.manifest = disk.manifest /\ disk'.raced = disk.raced /\ disk'.staged = disk.staged
    BY <2>1, <2>2 DEF Disks, DraftInv, Shapes
  <2> DEFINE x == Persisting(c, "saving", record')
  <2>5. /\ x \in Requests /\ x.at = "saving" /\ x.snap = record' /\ x.behind = Writing \ {c}
        /\ ~x.overtaken
    BY <1>2, <2>3, PersistIs DEF DraftInv, Stages
  <2>6. call' = [call EXCEPT ![c] = x]
    BY <2>1
  <2> HIDE DEF x
  <2>7. /\ call' \in [Calls -> Requests] /\ call'[c] = x
        /\ \A o \in Calls \ {c} : call'[o] = call[o]
    BY <2>5, <2>6, ShapesCall DEF DraftInv
  <2>8. Writing' = Writing \cup {c} /\ Deleting' = Deleting /\ Writing \subseteq Calls
    BY <1>1, <2>5, <2>7 DEF Writing, Deleting, At
  <2>9. PersistChange(c)
    BY <1>1, <1>2, <2>1, <2>3, <2>4, <2>5, <2>7, <2>8 DEF PersistChange, At, SameWrite
  <2>10. NamesWhatIsThere'
    BY <2>1, <2>3, <2>4, <2>9, PersistNames
  <2>11. Shapes'
    BY <2>1, <2>2, <2>3, <2>4, <2>7 DEF DraftInv, Shapes
  <2>12. Active'
    BY <2>1, <2>3, <2>5, <2>7, <2>8 DEF DraftInv, Active, At
  <2>13. Numbered'
    <3>1. Numbered
      BY DEF DraftInv
    <3>2. record'.files \subseteq 1..uploads /\ disk'.record.files \subseteq 1..uploads
      BY <1>3, <2>3, <2>4, <3>1 DEF Numbered
    <3>3. \A w \in Writing' : call'[w].snap.files \subseteq 1..uploads
      BY <1>2, <2>5, <2>7, <2>8, <3>1, <3>2 DEF Numbered
    <3>4. \A o \in Calls : At(o, {"uploading", "removing", "unlinking"})' =>
            o # c /\ call'[o] = call[o] /\ At(o, {"uploading", "removing", "unlinking"})
      BY <2>5, <2>7 DEF At
    <3>5. ASSUME NEW o \in Calls, At(o, {"uploading"})'
          PROVE  /\ call'[o].file \notin record'.files /\ call'[o].file \notin disk'.record.files
                 /\ \A w \in Writing' : call'[o].file \notin call'[w].snap.files
                 /\ \A w \in Calls \ {o} : At(w, {"uploading", "removing", "unlinking"})'
                                             => call'[w].file # call'[o].file
      <4>1. At(o, {"uploading"}) /\ call'[o] = call[o] /\ o # c
        BY <2>5, <2>7, <3>5 DEF At
      <4>2. /\ call[o].file \notin record.files /\ call[o].file \notin disk.record.files
            /\ \A w \in Writing : call[o].file \notin call[w].snap.files
            /\ \A w \in Calls \ {o} : At(w, {"uploading", "removing", "unlinking"})
                                        => call[w].file # call[o].file
        BY <3>1, <4>1 DEF Numbered
      <4>3. call[o].file # f
        BY <1>3, <4>1 DEF At
      <4>4. call[o].file \notin record'.files /\ call[o].file \notin disk'.record.files
        BY <2>3, <2>4, <4>2, <4>3
      <4>5. \A w \in Writing' : call[o].file \notin call'[w].snap.files
        BY <2>5, <2>7, <2>8, <4>2, <4>4
      <4> QED
        BY <3>4, <4>1, <4>2, <4>4, <4>5
    <3>6. \A o \in Calls : At(o, {"uploading", "removing", "unlinking"})'
          => call'[o].file \in 1..uploads
      BY <3>1, <3>4 DEF Numbered
    <3> QED
      BY <2>1, <3>2, <3>3, <3>5, <3>6 DEF Numbered
  <2>14. Removed'
    <3> SUFFICES ASSUME NEW o \in Calls
                 PROVE  /\ At(o, {"removing", "unlinking"})' => call'[o].file \notin record'.files
                        /\ At(o, {"removing"})' =>
                             /\ call'[o].file \notin call'[o].snap.files
                             /\ \A w \in Writing' : call'[o].file \in call'[w].snap.files
                                                      => w \in call'[o].behind
                        /\ At(o, {"unlinking"})' /\ ~torn' /\ listed' =>
                             /\ call'[o].file \notin disk'.record.files
                             /\ \A w \in Writing' : call'[o].file \in call'[w].snap.files
                                                      => call'[w].overtaken
      BY DEF Removed
    <3>1. CASE o = c
      BY <2>5, <2>7, <3>1 DEF At
    <3>2. CASE o # c
      <4>1. call'[o] = call[o] /\ \A at : At(o, at)' <=> At(o, at)
        BY <2>7, <3>2 DEF At
      <4>2. /\ At(o, {"removing", "unlinking"}) => call[o].file \notin record.files
            /\ At(o, {"removing"}) =>
                 /\ call[o].file \notin call[o].snap.files
                 /\ \A w \in Writing : call[o].file \in call[w].snap.files => w \in call[o].behind
            /\ At(o, {"unlinking"}) /\ ~torn /\ listed =>
                 /\ call[o].file \notin disk.record.files
                 /\ \A w \in Writing : call[o].file \in call[w].snap.files => call[w].overtaken
        BY DEF DraftInv, Removed
      <4>3. At(o, {"removing"}) \/ At(o, {"unlinking"}) => At(o, {"removing", "unlinking"})
        BY DEF At
      <4>4. At(o, {"removing", "unlinking"}) => call[o].file \notin record'.files
        BY <1>3, <2>3, <3>2, <4>2 DEF At
      <4>5. At(o, {"removing", "unlinking"}) =>
              \A w \in Writing' : call[o].file \in call'[w].snap.files
                                    => w \in Writing /\ call'[w] = call[w]
        BY <2>5, <2>7, <2>8, <4>4
      <4> QED
        BY <2>1, <2>4, <4>1, <4>2, <4>3, <4>4, <4>5
    <3> QED
      BY <3>1, <3>2
  <2>15. Gathered'
    <3>1. ASSUME NEW o \in Calls, o # c PROVE Sound(o)'
      <4>1. call'[o] = call[o] /\ Sound(o)
        BY <2>7, <3>1 DEF DraftInv, Gathered
      <4>2. Held(o)'.content = Held(o).content /\ Held(o).files \subseteq Held(o)'.files
        BY <2>3, <4>1 DEF Held, Settings
      <4>3. Held(o).files \subseteq record.files => Held(o)'.files \subseteq record'.files
        BY <2>3, <4>1 DEF Held, Settings
      <4> QED
        BY <2>1, <2>3, <2>4, <2>8, <4>1, <4>2, <4>3 DEF Sound, At, Passes
    <3>2. Sound(c)'
      BY <2>5, <2>7 DEF Sound, At
    <3> QED
      BY <3>1, <3>2 DEF Gathered
  <2>16. Manifested'
    BY <2>1, <2>4, <2>5, <2>7, <2>8 DEF DraftInv, Manifested, At, Passes
  <2> QED
    BY <2>1, <2>9, <2>10, <2>11, <2>12, <2>13, <2>14, <2>15, <2>16, PersistKeeps DEF DraftInv
<1> QED
  BY <1>4, <1>5

(* A write of draft.json lands.                                             *)
LEMMA SaveKeeps == ASSUME DraftInv, NEW c \in Calls, Save(c) PROVE DraftInv'
<1> DEFINE left == {o \in Writing : o # c}
           f == call[c].file
           x == IF At(c, {"removing"}) THEN [Idle EXCEPT !.at = "unlinking", !.file = f] ELSE Idle
<1>1. /\ c \in Writing /\ call[c] \in Requests /\ f \in Nat /\ call[c].snap \in Records
      /\ call[c].snap # None /\ record \in Records /\ record # None
  <2>1. c \in Writing /\ call[c] \in Requests
    BY DEF Save, DraftInv, Shapes
  <2>2. call[c].snap \in Records /\ call[c].at \notin {"idle", "reading"}
    BY <2>1 DEF DraftInv, WriteOrder, Writing, At
  <2> QED
    BY <2>1, <2>2, Fields, ActiveIs, NoneIs
<1>2. /\ UNCHANGED <<record, listed, cached, uploads>>
      /\ torn' = (torn \/ call[c].overtaken \/ ~listed)
      /\ unsaved' = (unsaved /\ (call[c].snap # record \/ left # {}))
  BY DEF Save
<1>3. /\ disk' \in Disks /\ disk'.record = call[c].snap /\ disk'.blobs = disk.blobs
      /\ disk'.manifest = disk.manifest /\ disk'.raced = disk.raced /\ disk'.staged = disk.staged
  <2>1. disk' = [disk EXCEPT !.record = call[c].snap]
    BY DEF Save, Landed
  <2> QED
    BY <1>1, <2>1 DEF DraftInv, Shapes, Disks
<1>4. /\ x \in Requests /\ x.behind = {} /\ ~x.overtaken /\ (x.at = "idle" => x = Idle)
      /\ \/ x.at = "idle" /\ ~At(c, {"removing"})
         \/ x.at = "unlinking" /\ x.file = f /\ At(c, {"removing"})
  <2>1. CASE At(c, {"removing"})
    <3>1. x = [Idle EXCEPT !.at = "unlinking", !.file = f]
      BY <2>1
    <3> HIDE DEF x, f
    <3>2. x \in Requests /\ x.at = "unlinking" /\ x.file = f /\ x.behind = {} /\ ~x.overtaken
      BY <1>1, <3>1 DEF Idle, Requests, Stages, None
    <3> QED
      BY <2>1, <3>2
  <2>2. CASE ~At(c, {"removing"})
    BY <2>2, IdleIs
  <2> QED
    BY <2>1, <2>2
<1>5. /\ call'[c] = x
      /\ \A o \in Calls \ {c} :
           call'[o] = [call[o] EXCEPT !.behind = call[o].behind \ {c},
                                      !.overtaken = call[o].overtaken
                                      \/ o \in call[c].behind \cap left]
  BY DEF Save
<1>6. left = Writing \ {c} /\ Writing \subseteq Calls
  BY DEF Writing
<1> HIDE DEF x, left
<1>7. ASSUME NEW o \in Calls, o # c
      PROVE  /\ call'[o] \in Requests /\ SameGathering(o) /\ call'[o].file = call[o].file
             /\ call'[o].snap = call[o].snap /\ call'[o].behind = call[o].behind \ {c}
             /\ call'[o].overtaken <=> (call[o].overtaken \/ o \in call[c].behind \cap left)
  <2>1. call[o] \in Requests /\ call[o].behind \ {c} \in SUBSET Calls
    BY Fields DEF DraftInv, Shapes
  <2>2. PICK b \in BOOLEAN : b <=> (call[o].overtaken \/ o \in call[c].behind \cap left)
    OBVIOUS
  <2>3. call'[o] = [call[o] EXCEPT !.behind = call[o].behind \ {c}, !.overtaken = b]
    <3>1. call[o].overtaken \in BOOLEAN
      BY <2>1, Fields
    <3>2. b = (call[o].overtaken \/ o \in call[c].behind \cap left)
      BY <2>2, <3>1
    <3> QED
      BY <1>5, <1>7, <3>2
  <2> QED
    BY <2>1, <2>2, <2>3 DEF Requests, SameGathering
<1>8. call' \in [Calls -> Requests]
  <2>1. call' = [o \in Calls |-> call'[o]]
    BY DEF Save
  <2> QED
    BY <1>4, <1>5, <1>7, <2>1
<1>9. Writing' = left /\ Deleting' = Deleting
  <2>1. \A o \in Calls \ {c} : call'[o].at = call[o].at
    BY <1>7 DEF SameGathering
  <2>2. call[c].at \in {"creating", "saving", "removing"} /\ call'[c].at \in {"idle", "unlinking"}
    BY <1>1, <1>4, <1>5 DEF Writing, At
  <2> QED
    BY <1>6, <2>1, <2>2 DEF Writing, Deleting, At
<1>10. \A o \in Calls \ {c} : \A at : At(o, at)' <=> At(o, at)
  BY <1>7 DEF SameGathering, At
<1>11. Shapes'
  BY <1>1, <1>2, <1>3, <1>8 DEF DraftInv, Shapes
<1>12. Active'
  <2>1. ASSUME NEW o \in Calls, At(o, {"idle"})' PROVE call'[o] = Idle
    <3>1. CASE o = c
      BY <1>4, <1>5, <2>1, <3>1 DEF At
    <3>2. CASE o # c
      <4>1. call[o] = Idle /\ o \notin Writing
        BY <1>10, <2>1, <3>2 DEF DraftInv, Active, Writing, At
      <4>2. call'[o] = [Idle EXCEPT !.behind = Idle.behind \ {c},
                                    !.overtaken = Idle.overtaken \/ o \in call[c].behind \cap left]
        BY <1>5, <3>2, <4>1
      <4>3. Idle.behind \ {c} = {} /\ (Idle.overtaken \/ o \in call[c].behind \cap left) = FALSE
        BY <1>6, <4>1, IdleIs
      <4> QED
        BY <4>2, <4>3 DEF Idle
    <3> QED
      BY <3>1, <3>2
  <2> QED
    BY <1>1, <1>2, <1>9, <2>1 DEF DraftInv, Active
<1>13. WriteOrder'
  <2>1. WriteOrder
    BY DEF DraftInv
  <2>2. ASSUME NEW o \in Calls
        PROVE  IF o \in Writing'
               THEN call'[o].snap \in Records /\ call'[o].behind \subseteq Writing' \ {o}
               ELSE call'[o].behind = {} /\ ~call'[o].overtaken
    <3>1. CASE o = c
      BY <1>4, <1>5, <1>6, <1>9, <3>1
    <3>2. CASE o # c
      BY <1>6, <1>7, <1>9, <2>1, <3>2 DEF WriteOrder
    <3> QED
      BY <3>1, <3>2
  <2>3. \A o, w \in Writing' : w \in call'[o].behind => o \notin call'[w].behind
    BY <1>6, <1>7, <1>9, <2>1 DEF WriteOrder
  <2> QED
    BY <2>2, <2>3 DEF WriteOrder
<1>14. Numbered'
  <2>1. Numbered
    BY DEF DraftInv
  <2>2. At(c, {"uploading", "removing", "unlinking"})' => call'[c].file = f /\ At(c, {"removing"})
    BY <1>4, <1>5 DEF At
  <2>3. ~At(c, {"uploading"})' /\ (At(c, {"removing"})
        => At(c, {"uploading", "removing", "unlinking"}))
    BY <1>4, <1>5 DEF At
  <2>4. /\ record'.files \subseteq 1..uploads /\ disk'.record.files \subseteq 1..uploads
        /\ \A w \in Writing' : call'[w].snap.files \subseteq 1..uploads
    BY <1>1, <1>2, <1>3, <1>6, <1>7, <1>9, <2>1 DEF Numbered
  <2>5. \A o \in Calls : At(o, {"uploading", "removing", "unlinking"})'
        => call'[o].file \in 1..uploads
    BY <1>7, <1>10, <2>1, <2>2, <2>3 DEF Numbered
  <2>6. ASSUME NEW o \in Calls, At(o, {"uploading"})'
        PROVE  /\ call'[o].file \notin record'.files /\ call'[o].file \notin disk'.record.files
               /\ \A w \in Writing' : call'[o].file \notin call'[w].snap.files
               /\ \A w \in Calls \ {o} : At(w, {"uploading", "removing", "unlinking"})'
                                           => call'[w].file # call'[o].file
    <3>1. o # c /\ At(o, {"uploading"}) /\ call'[o].file = call[o].file
      BY <1>7, <1>10, <2>3, <2>6
    <3>2. /\ call[o].file \notin record.files
          /\ \A w \in Writing : call[o].file \notin call[w].snap.files
          /\ \A w \in Calls \ {o} : At(w, {"uploading", "removing", "unlinking"})
                                      => call[w].file # call[o].file
      BY <2>1, <3>1 DEF Numbered
    <3>3. \A w \in Writing' : call[o].file \notin call'[w].snap.files
      BY <1>6, <1>7, <1>9, <3>2
    <3>4. ASSUME NEW w \in Calls \ {o}, At(w, {"uploading", "removing", "unlinking"})'
          PROVE  call'[w].file # call[o].file
      <4>1. CASE w = c
        BY <2>2, <2>3, <3>1, <3>2, <3>4, <4>1
      <4>2. CASE w # c
        BY <1>7, <1>10, <3>2, <3>4, <4>2
      <4> QED
        BY <4>1, <4>2
    <3> QED
      BY <1>1, <1>2, <1>3, <3>1, <3>2, <3>3, <3>4
  <2> QED
    BY <1>2, <2>4, <2>5, <2>6 DEF Numbered
<1>15. Removed'
  <2> SUFFICES ASSUME NEW o \in Calls
               PROVE  /\ At(o, {"removing", "unlinking"})' => call'[o].file \notin record'.files
                      /\ At(o, {"removing"})' =>
                           /\ call'[o].file \notin call'[o].snap.files
                           /\ \A w \in Writing' : call'[o].file \in call'[w].snap.files
                                                    => w \in call'[o].behind
                      /\ At(o, {"unlinking"})' /\ ~torn' /\ listed' =>
                           /\ call'[o].file \notin disk'.record.files
                           /\ \A w \in Writing' : call'[o].file \in call'[w].snap.files
                                                    => call'[w].overtaken
    BY DEF Removed
  <2>1. /\ At(o, {"removing", "unlinking"}) => call[o].file \notin record.files
        /\ At(o, {"removing"}) =>
             /\ call[o].file \notin call[o].snap.files
             /\ \A w \in Writing : call[o].file \in call[w].snap.files => w \in call[o].behind
        /\ At(o, {"unlinking"}) /\ ~torn /\ listed =>
             /\ call[o].file \notin disk.record.files
             /\ \A w \in Writing : call[o].file \in call[w].snap.files => call[w].overtaken
    BY DEF DraftInv, Removed
  <2>2. CASE o = c
    <3>1. /\ ~At(c, {"removing"})'
          /\ At(c, {"unlinking"})' \/ At(c, {"removing", "unlinking"})' =>
               At(c, {"removing"}) /\ At(c, {"removing", "unlinking"}) /\ call'[c].file = f
      BY <1>4, <1>5 DEF At
    <3>2. \A w \in Writing' : f \in call'[w].snap.files /\ At(c, {"removing"}) => call'[w].overtaken
      BY <1>6, <1>7, <1>9, <2>1, <2>2
    <3> QED
      BY <1>2, <1>3, <2>1, <2>2, <3>1, <3>2
  <2>3. CASE o # c
    <3>1. /\ At(o, {"removing", "unlinking"})' => At(o, {"removing", "unlinking"})
          /\ At(o, {"removing"})' => At(o, {"removing"})
          /\ At(o, {"unlinking"})' => At(o, {"unlinking"})
          /\ call'[o].file = call[o].file /\ call'[o].snap = call[o].snap
          /\ call'[o].behind = call[o].behind \ {c}
      BY <1>7, <1>10, <2>3
    <3>2. \A w \in Writing' : w \in Writing /\ w # c /\ call'[w].snap = call[w].snap
                              /\ (call[w].overtaken => call'[w].overtaken)
      BY <1>6, <1>7, <1>9
    <3>3. At(o, {"unlinking"}) /\ ~torn' /\ listed => call[o].file \notin call[c].snap.files
      BY <1>1, <1>2, <2>1
    <3> QED
      BY <1>2, <1>3, <2>1, <3>1, <3>2, <3>3
  <2> QED
    BY <2>2, <2>3
<1>16. NamesWhatIsThere'
  <2> SUFFICES ASSUME ~torn', listed PROVE NamesWhatIsThere'
    BY <1>2 DEF NamesWhatIsThere
  <2>1. /\ ~torn /\ There(record) /\ There(call[c].snap)
        /\ \A w \in Writing : ~call[w].overtaken => There(call[w].snap)
    BY <1>1, <1>2 DEF DraftInv, NamesWhatIsThere
  <2>2. There(record)' /\ There(disk.record)'
    BY <1>2, <1>3, <2>1 DEF There
  <2>3. \A w \in Writing' : ~call'[w].overtaken => There(call[w].snap)'
    BY <1>3, <1>6, <1>7, <1>9, <2>1 DEF There
  <2> QED
    BY <2>2, <2>3 DEF NamesWhatIsThere
<1>17. OnItsWay'
  <2> SUFFICES ASSUME ~torn', listed, ~unsaved'
               PROVE  \/ disk'.record = record' /\ \A w \in Writing' : call'[w].overtaken
                      \/ \E w \in Writing' : /\ call'[w].snap = record' /\ ~call'[w].overtaken
                                             /\ Writing' \ {w} \subseteq call'[w].behind
    BY <1>2 DEF OnItsWay
  <2>1. ~torn /\ ~call[c].overtaken
    BY <1>2
  <2>2. CASE unsaved
    BY <1>2, <1>3, <1>9, <2>2
  <2>3. CASE ~unsaved
    <3>1. PICK l \in Writing : /\ call[l].snap = record /\ ~call[l].overtaken
                               /\ Writing \ {l} \subseteq call[l].behind
      BY <1>1, <2>1, <2>3 DEF DraftInv, OnItsWay
    <3>2. CASE l = c
      BY <1>2, <1>3, <1>6, <1>7, <1>9, <3>1, <3>2
    <3>3. CASE l # c
      <4>1. l \notin call[c].behind
        BY <1>1, <3>1, <3>3 DEF DraftInv, WriteOrder
      <4>2. /\ l \in Writing' /\ call'[l].snap = record /\ ~call'[l].overtaken
            /\ Writing' \ {l} \subseteq call'[l].behind
        BY <1>6, <1>7, <1>9, <3>1, <3>3, <4>1
      <4> QED
        BY <1>2, <4>2
    <3> QED
      BY <3>2, <3>3
  <2> QED
    BY <2>2, <2>3
<1>18. Gone'
  BY <1>2 DEF Gone
<1>19. Gathered'
  <2>1. ASSUME NEW o \in Calls, o # c PROVE Sound(o)'
    <3>1. SameGathering(o) /\ Sound(o)
      BY <1>7, <2>1 DEF DraftInv, Gathered
    <3>2. Held(o)' = Held(o)
      BY <1>2, <3>1 DEF Held, Settings, SameGathering
    <3> QED
      BY <1>2, <1>3, <1>9, <3>1, <3>2 DEF Sound, At, Passes, SameGathering
  <2>2. Sound(c)'
    BY <1>4, <1>5 DEF Sound, At
  <2> QED
    BY <2>1, <2>2 DEF Gathered
<1>20. Manifested'
  <2>1. ~At(c, {"staging", "copying"})'
    BY <1>4, <1>5 DEF At
  <2>2. \A o \in Calls : At(o, {"staging", "copying"})' => call'[o].spec # None
    BY <1>7, <1>10, <2>1 DEF DraftInv, Manifested, SameGathering
  <2> QED
    BY <1>2, <1>3, <1>9, <2>2 DEF DraftInv, Manifested, Passes
<1> QED
  BY <1>11, <1>12, <1>13, <1>14, <1>15, <1>16, <1>17, <1>18, <1>19, <1>20 DEF DraftInv

(* One fails.                                                               *)
LEMMA SaveFailsKeeps == ASSUME DraftInv, NEW c \in Calls, SaveFails(c) PROVE DraftInv'
<1>1. /\ c \in Writing /\ unsaved' /\ unsaved' \in BOOLEAN
      /\ UNCHANGED <<record, listed, cached, disk, uploads, torn>>
  BY DEF SaveFails
<1>2. /\ call'[c] = Idle
      /\ \A o \in Calls \ {c} : call'[o] = [call[o] EXCEPT !.behind = call[o].behind \ {c}]
  BY DEF SaveFails
<1>3. ASSUME NEW o \in Calls, o # c
      PROVE  /\ call'[o] \in Requests /\ SameGathering(o) /\ call'[o].file = call[o].file
             /\ call'[o].snap = call[o].snap /\ call'[o].behind = call[o].behind \ {c}
             /\ call'[o].overtaken = call[o].overtaken
  <2>1. call[o] \in Requests /\ call[o].behind \ {c} \in SUBSET Calls
    BY Fields DEF DraftInv, Shapes
  <2>2. call'[o] = [call[o] EXCEPT !.behind = call[o].behind \ {c}]
    BY <1>2, <1>3
  <2> QED
    BY <2>1, <2>2 DEF Requests, SameGathering
<1>4. call' \in [Calls -> Requests]
  <2>1. call' = [o \in Calls |-> call'[o]]
    BY DEF SaveFails
  <2> QED
    BY <1>2, <1>3, <2>1, IdleIs
<1>5. Writing' = Writing \ {c} /\ Deleting' = Deleting /\ Writing \subseteq Calls
  <2>1. \A o \in Calls \ {c} : call'[o].at = call[o].at
    BY <1>3 DEF SameGathering
  <2>2. call[c].at \in {"creating", "saving", "removing"} /\ call'[c].at = "idle"
    BY <1>1, <1>2, IdleIs DEF Writing, At
  <2> QED
    BY <2>1, <2>2 DEF Writing, Deleting, At
<1>6. \A o \in Calls \ {c} : \A at : At(o, at)' <=> At(o, at)
  BY <1>3 DEF SameGathering, At
<1>7. ~At(c, {"uploading", "removing", "unlinking"})' /\ ~At(c, {"removing"})'
      /\ ~At(c, {"unlinking"})'
      /\ ~At(c, {"uploading"})' /\ ~At(c, {"removing", "unlinking"})'
         /\ ~At(c, {"staging", "copying"})'
  BY <1>2, IdleIs DEF At
<1>8. Shapes'
  BY <1>1, <1>4 DEF DraftInv, Shapes
<1>9. Active'
  <2>1. ASSUME NEW o \in Calls, At(o, {"idle"})' PROVE call'[o] = Idle
    <3>1. CASE o # c
      <4>1. call[o] = Idle
        BY <1>6, <2>1, <3>1 DEF DraftInv, Active
      <4>2. call'[o] = [Idle EXCEPT !.behind = {} \ {c}]
        BY <1>2, <3>1, <4>1, IdleIs
      <4> QED
        BY <4>2 DEF Idle
    <3> QED
      BY <1>2, <3>1
  <2>2. record # None
    BY <1>1, ActiveIs DEF Writing, At
  <2> QED
    BY <1>1, <1>5, <2>1, <2>2 DEF DraftInv, Active
<1>10. WriteOrder'
  <2>1. WriteOrder
    BY DEF DraftInv
  <2>2. ASSUME NEW o \in Calls
        PROVE  IF o \in Writing'
               THEN call'[o].snap \in Records /\ call'[o].behind \subseteq Writing' \ {o}
               ELSE call'[o].behind = {} /\ ~call'[o].overtaken
    <3>1. CASE o = c
      BY <1>2, <1>5, <3>1, IdleIs
    <3>2. CASE o # c
      BY <1>3, <1>5, <2>1, <3>2 DEF WriteOrder
    <3> QED
      BY <3>1, <3>2
  <2>3. \A o, w \in Writing' : w \in call'[o].behind => o \notin call'[w].behind
    BY <1>3, <1>5, <2>1 DEF WriteOrder
  <2> QED
    BY <2>2, <2>3 DEF WriteOrder
<1>11. Numbered'
  <2>1. \A w \in Writing' : w \in Writing /\ call'[w].snap = call[w].snap
    BY <1>3, <1>5
  <2>2. ASSUME NEW o \in Calls, o # c PROVE call'[o].file = call[o].file
    BY <1>3, <2>2
  <2> QED
    BY <1>1, <1>6, <1>7, <2>1, <2>2 DEF DraftInv, Numbered
<1>12. Removed'
  <2>1. ASSUME NEW o \in Calls, o # c
        PROVE  call'[o].file = call[o].file /\ call'[o].snap = call[o].snap
               /\ call'[o].behind = call[o].behind \ {c}
    BY <1>3, <2>1
  <2>2. \A w \in Writing' : w \in Writing /\ w # c /\ call'[w].snap = call[w].snap
                            /\ call'[w].overtaken = call[w].overtaken
    BY <1>3, <1>5
  <2> QED
    BY <1>1, <1>6, <1>7, <2>1, <2>2 DEF DraftInv, Removed
<1>13. NamesWhatIsThere'
  BY <1>1, <1>3, <1>5 DEF DraftInv, NamesWhatIsThere, There
<1>14. OnItsWay' /\ Gone'
  BY <1>1, <1>5 DEF DraftInv, OnItsWay, Gone
<1>15. Gathered'
  <2>1. ASSUME NEW o \in Calls, o # c PROVE Sound(o)'
    <3>1. SameGathering(o) /\ Sound(o)
      BY <1>3, <2>1 DEF DraftInv, Gathered
    <3>2. Held(o)' = Held(o)
      BY <1>1, <3>1 DEF Held, Settings, SameGathering
    <3> QED
      BY <1>1, <1>5, <3>1, <3>2 DEF Sound, At, Passes, SameGathering
  <2>2. Sound(c)'
    BY <1>2, IdleIs DEF Sound, At
  <2> QED
    BY <2>1, <2>2 DEF Gathered
<1>16. Manifested'
  <2>1. \A o \in Calls : At(o, {"staging", "copying"})' => call'[o].spec # None
    BY <1>3, <1>6, <1>7 DEF DraftInv, Manifested, SameGathering
  <2> QED
    BY <1>1, <1>5, <2>1 DEF DraftInv, Manifested, Passes
<1> QED
  BY <1>8, <1>9, <1>10, <1>11, <1>12, <1>13, <1>14, <1>15, <1>16 DEF DraftInv

(* The blob of a file that was taken out goes.                              *)
LEMMA UnlinkKeeps == ASSUME DraftInv, NEW c \in Calls, Unlink(c) PROVE DraftInv'
<1> DEFINE f == call[c].file
<1>1. call[c].at = "unlinking" /\ c \notin Writing /\ record # None
  <2>1. call[c].at = "unlinking"
    BY DEF Unlink, At
  <2> QED
    BY <2>1, ActiveIs DEF Writing, At
<1>2. UNCHANGED <<record, listed, cached, uploads, torn, unsaved>>
  BY DEF Unlink
<1>3. /\ call' \in [Calls -> Requests] /\ call'[c] = Idle
      /\ \A o \in Calls \ {c} : call'[o] = call[o]
  <2>1. call' = [call EXCEPT ![c] = Idle]
    BY DEF Unlink
  <2> QED
    BY <2>1, IdleIs, ShapesCall DEF DraftInv
<1>4. /\ disk' \in Disks /\ disk'.record = disk.record /\ disk'.manifest = disk.manifest
      /\ disk'.raced = disk.raced /\ disk'.staged = disk.staged
      /\ disk'.blobs \subseteq disk.blobs /\ disk.blobs \ {f} \subseteq disk'.blobs
  <2>1. disk' = [disk EXCEPT !.blobs = @ \ {f}] \/ disk' = disk
    BY DEF Unlink
  <2>2. disk \in Disks
    BY DEF DraftInv, Shapes
  <2> HIDE DEF f
  <2> QED
    BY <2>1, <2>2 DEF Disks
<1>5. Writing' = Writing /\ Deleting' = Deleting /\ Writing \subseteq Calls
  BY <1>1, <1>3, IdleIs DEF Writing, Deleting, At
<1>6. Shapes'
  BY <1>2, <1>3, <1>4 DEF DraftInv, Shapes
<1>7. Active'
  BY <1>1, <1>2, <1>3, <1>5, IdleIs DEF DraftInv, Active, At
<1>8. WriteOrder'
  BY <1>1, <1>3, <1>5, IdleIs DEF DraftInv, WriteOrder
<1>9. Numbered'
  BY <1>1, <1>2, <1>3, <1>4, <1>5, IdleIs DEF DraftInv, Numbered, At
<1>10. Removed'
  BY <1>1, <1>2, <1>3, <1>4, <1>5, IdleIs DEF DraftInv, Removed, At
<1>11. NamesWhatIsThere'
  <2> SUFFICES ASSUME ~torn, listed PROVE NamesWhatIsThere'
    BY <1>2 DEF NamesWhatIsThere
  <2>1. /\ There(record) /\ There(disk.record)
        /\ \A w \in Writing : ~call[w].overtaken => There(call[w].snap)
    BY DEF DraftInv, NamesWhatIsThere
  <2>2. /\ f \notin record.files /\ f \notin disk.record.files
        /\ \A w \in Writing : f \in call[w].snap.files => call[w].overtaken
    BY <1>1 DEF DraftInv, Removed, At
  <2> HIDE DEF f
  <2>3. There(record)' /\ There(disk.record)'
    BY <1>2, <1>4, <2>1, <2>2 DEF There
  <2>4. \A w \in Writing' : ~call'[w].overtaken => There(call[w].snap)'
    BY <1>1, <1>3, <1>4, <1>5, <2>1, <2>2 DEF There
  <2> QED
    BY <2>3, <2>4 DEF NamesWhatIsThere
<1>12. OnItsWay' /\ Gone'
  BY <1>1, <1>2, <1>3, <1>4, <1>5 DEF DraftInv, OnItsWay, Gone
<1>13. Gathered'
  <2>1. ASSUME NEW o \in Calls, o # c PROVE Sound(o)'
    <3>1. call'[o] = call[o] /\ Sound(o) /\ Held(o)' = Held(o)
      BY <1>2, <1>3, <2>1 DEF DraftInv, Gathered, Held, Settings
    <3> QED
      BY <1>2, <1>4, <1>5, <3>1 DEF Sound, At, Passes
  <2>2. Sound(c)'
    BY <1>3, IdleIs DEF Sound, At
  <2> QED
    BY <2>1, <2>2 DEF Gathered
<1>14. Manifested'
  BY <1>2, <1>3, <1>4, <1>5, IdleIs DEF DraftInv, Manifested, At, Passes
<1> QED
  BY <1>6, <1>7, <1>8, <1>9, <1>10, <1>11, <1>12, <1>13, <1>14 DEF DraftInv

(* While a directory is being removed, nobody has gathered what counts.     *)
LEMMA NothingCounts ==
  ASSUME DraftInv, Deleting, NEW o \in Calls, ~call[o].raced, ~torn
  PROVE  ~At(o, {"checking", "loading", "staging", "copying"}) /\ ~At(o, {"reading"}) /\ ~listed
BY DEF DraftInv, Active, Gathered, Sound

(* The draft is deleted.                                                    *)
LEMMA DeleteKeeps == ASSUME DraftInv, NEW c \in Calls, Delete(c) PROVE DraftInv'
<1> DEFINE x == [Idle EXCEPT !.at = "deleting"]
<1>1. listed /\ ~Deleting /\ record \in Records /\ record # None /\ call[c] = Idle
  BY KnownMeans, NoneIs DEF Delete, At, DraftInv, Active
<1>2. UNCHANGED <<record, disk, uploads, torn, unsaved>> /\ listed' = FALSE /\ cached' = {}
  BY DEF Delete
<1>3. x \in Requests /\ x.at = "deleting" /\ x.behind = {} /\ ~x.overtaken
  BY IdleAt DEF Stages
<1>4. call' = [o \in Calls |->
       IF o = c THEN x
       ELSE IF At(o, {"idle"}) THEN call[o] ELSE [call[o] EXCEPT !.raced = TRUE]]
  BY DEF Delete
<1> HIDE DEF x
<1>5. ASSUME NEW o \in Calls, o # c
      PROVE  /\ call'[o] \in Requests /\ SameWrite(o) /\ call'[o].spec = call[o].spec
             /\ IF At(o, {"idle"}) THEN call'[o] = call[o] ELSE call'[o].raced
  <2>1. call[o] \in Requests
    BY DEF DraftInv, Shapes
  <2>2. CASE At(o, {"idle"})
    BY <1>4, <1>5, <2>1, <2>2 DEF SameWrite
  <2>3. CASE ~At(o, {"idle"})
    <3>1. call'[o] = [call[o] EXCEPT !.raced = TRUE]
      BY <1>4, <1>5, <2>3
    <3> QED
      BY <2>1, <2>3, <3>1 DEF Requests, SameWrite
  <2> QED
    BY <2>2, <2>3
<1>6. call' \in [Calls -> Requests] /\ call'[c] = x
  BY <1>3, <1>4, <1>5
<1>7. Writing' = Writing /\ c \notin Writing /\ Deleting' /\ Writing \subseteq Calls
  BY <1>1, <1>3, <1>5, <1>6, IdleIs DEF Writing, Deleting, At, SameWrite
<1>8. Shapes'
  BY <1>2, <1>6 DEF DraftInv, Shapes
<1>9. Active'
  BY <1>1, <1>2, <1>3, <1>5, <1>6 DEF DraftInv, Active, At, SameWrite
<1>10. WriteOrder'
  BY <1>3, <1>5, <1>6, <1>7 DEF DraftInv, WriteOrder, SameWrite
<1>11. Numbered'
  BY <1>2, <1>3, <1>5, <1>6, <1>7 DEF DraftInv, Numbered, SameWrite, At
<1>12. Removed'
  BY <1>2, <1>3, <1>5, <1>6, <1>7 DEF DraftInv, Removed, SameWrite, At
<1>13. NamesWhatIsThere' /\ OnItsWay' /\ Gone'
  BY <1>2, <1>7 DEF NamesWhatIsThere, OnItsWay, Gone
<1>14. Gathered'
  BY <1>3, <1>5, <1>6 DEF Gathered, Sound, At, SameWrite
<1>15. Manifested'
  BY <1>3, <1>5, <1>6, <1>7 DEF DraftInv, Manifested, At, SameWrite
<1> QED
  BY <1>8, <1>9, <1>10, <1>11, <1>12, <1>13, <1>14, <1>15 DEF DraftInv

(* A part of its directory goes.                                            *)
LEMMA DeletePartKeeps == ASSUME DraftInv, NEW c \in Calls, DeletePart(c) PROVE DraftInv'
<1>1. Deleting /\ ~listed /\ UNCHANGED <<record, listed, cached, call, uploads, torn, unsaved>>
  BY DEF DeletePart, Deleting, DraftInv, Active
<1>2. disk' \in Disks /\ (disk'.record = disk.record \/ disk'.record = None)
  <2>1. disk \in Disks
    BY DEF DraftInv, Shapes
  <2>2. PICK part \in {"record", "manifest", "staged", "blobs"} : disk' = Without(part)
    BY DEF DeletePart
  <2> QED
    BY <2>1, <2>2 DEF Without, Disks
<1>3. Writing' = Writing /\ Deleting' = Deleting
  BY <1>1 DEF Writing, Deleting, At
<1>4. Shapes'
  BY <1>1, <1>2 DEF DraftInv, Shapes
<1>5. Active'
  BY <1>1, <1>3 DEF DraftInv, Active, At
<1>6. WriteOrder'
  BY <1>1, <1>3 DEF DraftInv, WriteOrder
<1>7. Numbered'
  BY <1>1, <1>2, <1>3, IdleIs DEF DraftInv, Numbered, At
<1>8. Removed'
  BY <1>1, <1>3 DEF DraftInv, Removed, At
<1>9. NamesWhatIsThere' /\ OnItsWay' /\ Gone'
  BY <1>1, <1>3 DEF NamesWhatIsThere, OnItsWay, Gone
<1>10. Gathered'
  BY <1>1, NothingCounts DEF Gathered, Sound, At
<1>11. Manifested'
  BY <1>1, <1>3 DEF DraftInv, Manifested, At
<1> QED
  BY <1>4, <1>5, <1>6, <1>7, <1>8, <1>9, <1>10, <1>11 DEF DraftInv

(* The removal ends.                                                        *)
LEMMA DeleteEndsKeeps == ASSUME DraftInv, NEW c \in Calls, DeleteEnds(c) PROVE DraftInv'
<1>1. /\ Deleting /\ ~listed /\ call[c].at = "deleting"
      /\ UNCHANGED <<record, listed, cached, disk, uploads, unsaved>>
  BY DEF DeleteEnds, Deleting, DraftInv, Active, At
<1>2. /\ call' \in [Calls -> Requests] /\ call'[c] = Idle
      /\ \A o \in Calls \ {c} : call'[o] = call[o]
  <2>1. call' = [call EXCEPT ![c] = Idle]
    BY DEF DeleteEnds
  <2> QED
    BY <2>1, IdleIs, ShapesCall DEF DraftInv
<1>3. torn' \/ (torn' = torn /\ disk.record = None /\ disk.manifest = None)
  <2> SUFFICES ASSUME ~torn' PROVE torn' = torn /\ disk.record = None /\ disk.manifest = None
    OBVIOUS
  <2>1. disk = Without("record") /\ disk = Without("manifest") /\ torn' = torn
    BY DEF DeleteEnds
  <2>2. disk \in Disks
    BY DEF DraftInv, Shapes
  <2> QED
    BY <2>1, <2>2 DEF Without, Disks
<1>4. torn' \in BOOLEAN
  <2>1. torn \in BOOLEAN
    BY DEF DraftInv, Shapes
  <2> QED
    BY <2>1 DEF DeleteEnds
<1>5. Writing' = Writing /\ c \notin Writing /\ Writing \subseteq Calls
  BY <1>1, <1>2, IdleIs DEF Writing, At
<1>6. Shapes'
  BY <1>1, <1>2, <1>4 DEF DraftInv, Shapes
<1>7. Active'
  <2>1. record # None
    BY <1>1, ActiveIs
  <2> QED
    BY <1>1, <1>2, <2>1 DEF DraftInv, Active, At
<1>8. WriteOrder'
  BY <1>2, <1>5, IdleIs DEF DraftInv, WriteOrder
<1>9. Numbered'
  BY <1>1, <1>2, <1>5, IdleIs DEF DraftInv, Numbered, At
<1>10. Removed'
  BY <1>1, <1>2, <1>5, IdleIs DEF DraftInv, Removed, At
<1>11. NamesWhatIsThere' /\ OnItsWay' /\ Gone'
  BY <1>1, <1>3 DEF NamesWhatIsThere, OnItsWay, Gone
<1>12. Gathered'
  <2>1. ASSUME NEW o \in Calls, ~call'[o].raced, ~torn'
        PROVE  ~At(o, {"checking", "loading", "staging", "copying"})' /\ ~At(o, {"reading"})'
    <3>1. CASE o = c
      BY <1>2, <3>1, IdleIs DEF At
    <3>2. CASE o # c
      BY <1>1, <1>2, <1>3, <2>1, <3>2, NothingCounts DEF At
    <3> QED
      BY <3>1, <3>2
  <2> QED
    BY <2>1 DEF Gathered, Sound, At
<1>13. Manifested'
  BY <1>1, <1>2, <1>3, IdleIs DEF DraftInv, Manifested, At
<1> QED
  BY <1>6, <1>7, <1>8, <1>9, <1>10, <1>11, <1>12, <1>13 DEF DraftInv

(* The server stops and starts.                                             *)
LEMMA CrashKeeps == ASSUME DraftInv, Crash PROVE DraftInv'
<1>1. /\ record' = disk.record /\ listed' = (disk.record # None) /\ torn' = (torn \/ Deleting)
      /\ cached' = {} /\ ~unsaved' /\ call' = [c \in Calls |-> Idle] /\ UNCHANGED <<disk, uploads>>
  BY DEF Crash, Deleting
<1>2. /\ \A c \in Calls : call'[c] = Idle
      /\ Writing' = {} /\ ~Deleting'
  BY <1>1, IdleIs DEF Writing, Deleting, At
<1>3. Shapes'
  <2>1. disk.record \in Records \cup {None} /\ call' \in [Calls -> Requests]
    BY <1>1, IdleIs, DiskFields DEF DraftInv
  <2>2. torn' \in BOOLEAN /\ unsaved' \in BOOLEAN
    BY DEF Crash, DraftInv, Shapes, Deleting
  <2> QED
    BY <1>1, <2>1, <2>2 DEF DraftInv, Shapes
<1>4. Active'
  BY <1>1, <1>2, IdleIs DEF Active, At
<1>5. WriteOrder'
  BY <1>2, IdleIs DEF WriteOrder
<1>6. Numbered'
  BY <1>1, <1>2, IdleIs DEF DraftInv, Numbered, At
<1>7. Removed'
  BY <1>2, IdleIs DEF Removed, At
<1>8. NamesWhatIsThere'
  <2> SUFFICES ASSUME ~torn, ~Deleting, disk.record # None PROVE There(disk.record)'
    BY <1>1, <1>2 DEF NamesWhatIsThere
  <2>1. There(disk.record)
    BY DEF DraftInv, Gone, NamesWhatIsThere
  <2> QED
    BY <1>1, <2>1 DEF There
<1>9. OnItsWay' /\ Gone'
  BY <1>1, <1>2 DEF OnItsWay, Gone
<1>10. Gathered'
  BY <1>2, IdleIs DEF Gathered, Sound, At
<1>11. Manifested'
  BY <1>1, <1>2, IdleIs DEF DraftInv, Manifested, At
<1> QED
  BY <1>3, <1>4, <1>5, <1>6, <1>7, <1>8, <1>9, <1>10, <1>11 DEF DraftInv

(* The invariant holds at first.                                            *)
LEMMA InitDrafts == ASSUME MaxFiles \in Nat, Init PROVE DraftInv
<1>1. /\ record = None /\ listed = FALSE /\ cached = {} /\ disk = Bare
      /\ \A c \in Calls : call[c] = Idle
      /\ call \in [Calls -> Requests] /\ uploads = 0 /\ torn = FALSE /\ unsaved = FALSE
  BY IdleIs DEF Init
<1>2. Bare \in Disks /\ Bare.record = None /\ Bare.manifest = None
  BY DEF Bare, Disks
<1>3. Writing = {} /\ ~Deleting
  BY <1>1, IdleIs DEF Writing, Deleting, At
<1>4. Shapes
  <2>1. uploads \in 0..MaxFiles
    BY <1>1
  <2>2. disk \in Disks /\ cached \subseteq Files /\ record \in Records \cup {None}
    BY <1>1, <1>2
  <2> QED
    BY <1>1, <2>1, <2>2 DEF Shapes
<1>5. Active /\ WriteOrder /\ Removed /\ Gathered
  BY <1>1, <1>3, IdleIs DEF Active, WriteOrder, Removed, Gathered, Sound, At
<1>6. Numbered
  BY <1>1, <1>2, <1>3, IdleIs DEF Numbered, At
<1>7. NamesWhatIsThere /\ OnItsWay /\ Gone /\ Manifested
  BY <1>1, <1>2, IdleIs DEF NamesWhatIsThere, OnItsWay, Gone, Manifested, At
<1> QED
  BY <1>4, <1>5, <1>6, <1>7 DEF DraftInv

(* Every step keeps it.                                                     *)
LEMMA NextDrafts == ASSUME MaxFiles \in Nat, DraftInv, Next PROVE DraftInv'
<1>1. ASSUME NEW c \in Calls, Create(c) PROVE DraftInv'
  BY <1>1, CreateKeeps
<1>2. ASSUME NEW c \in Calls, Update(c) PROVE DraftInv'
  BY <1>2, UpdateKeeps
<1>3. ASSUME NEW c \in Calls, Upload(c) PROVE DraftInv'
  BY <1>3, UploadKeeps
<1>4. ASSUME NEW c \in Calls, Uploaded(c) PROVE DraftInv'
  BY <1>4, UploadedKeeps
<1>5. ASSUME NEW c \in Calls, NEW f \in Files, Remove(c, f) PROVE DraftInv'
  BY <1>5, RemoveKeeps
<1>6. ASSUME NEW c \in Calls, Save(c) PROVE DraftInv'
  BY <1>6, SaveKeeps
<1>7. ASSUME NEW c \in Calls, SaveFails(c) PROVE DraftInv'
  BY <1>7, SaveFailsKeeps
<1>8. ASSUME NEW c \in Calls, Unlink(c) PROVE DraftInv'
  BY <1>8, UnlinkKeeps
<1>9. ASSUME NEW c \in Calls, Delete(c) PROVE DraftInv'
  BY <1>9, DeleteKeeps
<1>10. ASSUME NEW c \in Calls, DeletePart(c) PROVE DraftInv'
  BY <1>10, DeletePartKeeps
<1>11. ASSUME NEW c \in Calls, DeleteEnds(c) PROVE DraftInv'
  BY <1>11, DeleteEndsKeeps
<1>12. ASSUME NEW c \in Calls, Finalize(c) PROVE DraftInv'
  BY <1>12, FinalizeKeeps
<1>13. ASSUME NEW c \in Calls, Checked(c) PROVE DraftInv'
  BY <1>13, CheckedKeeps
<1>14. ASSUME NEW c \in Calls, Loaded(c) PROVE DraftInv'
  BY <1>14, LoadedKeeps
<1>15. ASSUME NEW c \in Calls, StageAll(c) PROVE DraftInv'
  BY <1>15, StageAllKeeps
<1>16. ASSUME NEW c \in Calls, Stage(c) PROVE DraftInv'
  BY <1>16, StageKeeps
<1>17. ASSUME NEW c \in Calls, WriteManifest(c) PROVE DraftInv'
  BY <1>17, WriteManifestKeeps
<1>18. ASSUME NEW c \in Calls, FinalizeFails(c) \/ HandOver(c) PROVE DraftInv'
  BY <1>18, EndKeeps
<1>19. ASSUME NEW c \in Calls, Read(c) PROVE DraftInv'
  BY <1>19, ReadKeeps
<1>20. ASSUME NEW c \in Calls, ReadFile(c) PROVE DraftInv'
  BY <1>20, ReadFileKeeps
<1>21. CASE Crash
  BY <1>21, CrashKeeps
<1> QED
  BY <1>1, <1>2, <1>3, <1>4, <1>5, <1>6, <1>7, <1>8, <1>9, <1>10, <1>11, <1>12, <1>13, <1>14,
     <1>15, <1>16, <1>17, <1>18, <1>19, <1>20, <1>21 DEF Next

(* So does a stutter.                                                       *)
LEMMA StayDrafts == ASSUME DraftInv, UNCHANGED vars PROVE DraftInv'
<1>1. /\ record' = record /\ listed' = listed /\ cached' = cached /\ disk' = disk /\ call' = call
      /\ uploads' = uploads /\ torn' = torn /\ unsaved' = unsaved
  BY DEF vars
<1>2. Shapes' /\ Writing' = Writing /\ Deleting' = Deleting
  BY <1>1 DEF DraftInv, Shapes, Writing, Deleting, At
<1>3. Active' /\ WriteOrder' /\ Removed'
  BY <1>1, <1>2 DEF DraftInv, Active, WriteOrder, Removed, At
<1>4. Numbered'
  BY <1>1, <1>2 DEF DraftInv, Numbered, At
<1>5. NamesWhatIsThere' /\ OnItsWay' /\ Gone'
  BY <1>1, <1>2 DEF DraftInv, NamesWhatIsThere, There, OnItsWay, Gone
<1>6. Gathered'
  BY <1>1, <1>2 DEF DraftInv, Gathered, Sound, Held, Settings, At, Passes
<1>7. Manifested'
  BY <1>1, <1>2 DEF DraftInv, Manifested, At, Passes
<1> QED
  BY <1>2, <1>3, <1>4, <1>5, <1>6, <1>7 DEF DraftInv

(* It gives the types.                                                      *)
LEMMA DraftsTyped == ASSUME DraftInv PROVE TypeOK
<1>1. Shapes
  BY DEF DraftInv
<1>2. \A c \in Calls : call[c].draft \in Drafts \cup {None} /\ call[c].spec \in Drafts \cup {None}
  BY <1>1, Fields DEF Shapes
<1> QED
  BY <1>1, <1>2, DiskFields DEF Shapes, TypeOK

(* And both of what is promised of a draft.                                 *)
LEMMA DraftInvGives == ASSUME DraftInv PROVE DraftDurable /\ HandsOverWhatWasChecked
<1>1. AtRest => Writing = {} /\ ~Deleting
  BY DEF AtRest, Writing, Deleting, At
<1>2. DraftDurable
  BY <1>1 DEF DraftInv, NamesWhatIsThere, There, OnItsWay, Gone, Deleting, DraftDurable
<1>3. HandsOverWhatWasChecked
  BY DEF DraftInv, Gathered, Sound, Passes, HandsOverWhatWasChecked
<1> QED
  BY <1>2, <1>3

(* DraftDurable and HandsOverWhatWasChecked: draft.json never names an      *)
(* upload that is not there, nor a finalized draft without its manifest; at *)
(* rest it is what memory holds and a deleted draft does not come back; and *)
(* what a deployment is made of was validated, with every file it names     *)
(* (draft.ts), but for the cases the two except.                            *)
THEOREM DraftKept ==
  ASSUME MaxFiles \in Nat PROVE Spec => [](DraftDurable /\ HandsOverWhatWasChecked)
<1>1. Init => DraftInv
  BY InitDrafts
<1>2. DraftInv /\ [Next]_vars => DraftInv'
  BY NextDrafts, StayDrafts
<1>3. DraftInv => DraftDurable /\ HandsOverWhatWasChecked
  BY DraftInvGives
<1> QED
  BY <1>1, <1>2, <1>3, PTL DEF Spec
=============================================================================
