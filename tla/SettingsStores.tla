--------------------------- MODULE SettingsStores ---------------------------
(***************************************************************************)
(* The operator's own settings, three files of the same kind: the catalog  *)
(* sources (packages/server/src/services/core/catalog-sources.ts), the     *)
(* registry credentials (registry-credentials.ts) and the system settings  *)
(* with their variables (config.ts).  Every call reads the whole file,     *)
(* changes what it read and writes it back; nothing orders two calls.      *)
(* They differ in what they make of a file that cannot be read.            *)
(*                                                                         *)
(* An entry is a source, a credential or a secret variable, and its value  *)
(* what the operator entered; the variable's is not shown again.           *)
(***************************************************************************)
EXTENDS Integers

CONSTANTS
  Calls, Entries,
  MaxValue,       \* bound on the values entered
  MaxTroubles     \* bound on reads and writes that fail

Stores == {"sources", "credentials", "settings"}
Keep   == -2       \* a change that does not mention the entry
Blank  == -1       \* a row without its value
Absent == 0
Values == 1..MaxValue

VARIABLES
  store,        \* the file this behaviour is about
  file,         \* the value of each entry
  wanted,       \* what the calls that succeeded asked for
  call,
  troubles

vars == <<store, file, wanted, call, troubles>>

Empty  == [e \in Entries |-> Absent]
Nobody == [e \in Entries |-> Keep]
Listed(content) == {e \in Entries : content[e] # Absent}

Idle == [at |-> "idle", form |-> {}, seen |-> Empty, next |-> Empty, asked |-> Nobody,
         misread |-> FALSE]

Init ==
  /\ store \in Stores
  /\ file = Empty /\ wanted = Empty
  /\ call = [c \in Calls |-> Idle]
  /\ troubles = 0

At(c, state) == call[c].at = state
Trouble == troubles < MaxTroubles /\ troubles' = troubles + 1

-----------------------------------------------------------------------------
(* Mutant: sources that cannot be read are taken for none.                  *)
TakenForEmpty == TRUE

(* load and getSystemSettings go on without the file; loadCustom throws.    *)
TreatsAsEmpty == store # "sources"

(* What a call makes of the file: it has read it, or takes it for empty.    *)
Readings == {<<file, FALSE>>} \cup {r \in {<<Empty, TRUE>>} : TreatsAsEmpty /\ troubles < MaxTroubles}
Reads(reading) == troubles' = IF reading[2] THEN troubles + 1 ELSE troubles

(* add, update, remove: the entry is checked against what was read. An      *)
(* update is for sources only.                                              *)
Edit(c, e, v) ==
  /\ store # "settings" /\ At(c, "idle")
  /\ \E reading \in Readings : LET content == reading[1] IN
       /\ Reads(reading)
       /\ \/ content[e] = Absent /\ v # Absent
          \/ content[e] # Absent /\ v = Absent
          \/ content[e] # Absent /\ v # Absent /\ store = "sources"
       /\ call' = [call EXCEPT ![c] =
            [Idle EXCEPT !.at = "writing", !.seen = file, !.misread = reading[2],
                         !.form = Listed(file),
                         !.next = [content EXCEPT ![e] = v], !.asked = [Nobody EXCEPT ![e] = v]]]
  /\ UNCHANGED <<store, file, wanted>>

(* The settings page shows the rows. *)
Show(c) ==
  /\ store = "settings" /\ At(c, "idle")
  /\ \E reading \in Readings : LET content == reading[1] IN
       /\ Reads(reading)
       /\ call' = [call EXCEPT ![c] =
            [Idle EXCEPT !.at = "shown", !.form = Listed(content), !.misread = reading[2]]]
  /\ UNCHANGED <<store, file, wanted>>

(* Mutant: rows are saved the way they were shown.                          *)
Unrestored(content, e) == Blank

(* Mutant: what stands for a withheld value is saved as one.                *)
Placeholder(content, e) == Keep

(* restoreWithheldEnvValues *)
Restored(content, e) == IF content[e] = Absent THEN Blank ELSE content[e]

(* updateSystemSettings replaces all rows by those the operator left in the *)
(* form and the ones that got a value.                                      *)
Submit(c, kept, given) ==
  LET form == call[c].form IN
  /\ At(c, "shown")
  /\ \E reading \in Readings : LET content == reading[1] IN
       /\ Reads(reading)
       /\ call' = [call EXCEPT ![c] =
            [@ EXCEPT !.at = "writing", !.seen = file, !.misread = call[c].misread \/ reading[2],
                      !.next = [e \in Entries |-> IF given[e] # Keep THEN given[e]
                                                  ELSE IF e \in kept THEN Restored(content, e)
                                                  ELSE Absent],
                      !.asked = [e \in Entries |-> IF e \in form \ kept /\ given[e] = Keep
                                                   THEN Absent ELSE given[e]]]]
  /\ UNCHANGED <<store, file, wanted>>

(* A call about other settings writes the rows back as it read them.        *)
SubmitOthers(c) ==
  /\ store = "settings" /\ At(c, "idle")
  /\ \E reading \in Readings : LET content == reading[1] IN
       /\ Reads(reading)
       /\ call' = [call EXCEPT ![c] =
            [Idle EXCEPT !.at = "writing", !.seen = file, !.next = content,
                         !.misread = reading[2], !.form = Listed(content)]]
  /\ UNCHANGED <<store, file, wanted>>

(* Entries a write changes without having been asked to, because what it    *)
(* read, or what its form showed, is no longer so.                          *)
Conceded(c) ==
  {e \in Entries : /\ call[c].asked[e] = Keep
                   /\ \/ call[c].misread /\ store # "sources"
                      \/ call[c].seen[e] # file[e]
                      \/ (e \in call[c].form) # (file[e] # Absent)}

Write(c) ==
  /\ At(c, "writing")
  /\ file' = call[c].next
  /\ wanted' = [e \in Entries |->
       IF e \in Conceded(c) THEN call[c].next[e]
       ELSE IF call[c].asked[e] = Keep THEN wanted[e] ELSE call[c].asked[e]]
  /\ call' = [call EXCEPT ![c] = Idle]
  /\ UNCHANGED <<store, troubles>>

(* writeFile throws and leaves the file. *)
WriteFails(c) ==
  /\ At(c, "writing") /\ Trouble
  /\ call' = [call EXCEPT ![c] = Idle]
  /\ UNCHANGED <<store, file, wanted>>

(* What the operator fills in: one value at most. *)
Inputs == {Nobody} \cup {[Nobody EXCEPT ![e] = v] : e \in Entries, v \in Values}

Next ==
  \E c \in Calls :
    \/ \E e \in Entries, v \in {Absent} \cup Values : Edit(c, e, v)
    \/ Show(c)
    \/ \E kept \in SUBSET call[c].form, given \in Inputs : Submit(c, kept, given)
    \/ SubmitOthers(c) \/ Write(c) \/ WriteFails(c)

Spec == Init /\ [][Next]_vars

-----------------------------------------------------------------------------
(* Types of the variables of the settings. *)
TypeOK ==
  /\ store \in Stores /\ troubles \in 0..MaxTroubles
  /\ file \in [Entries -> {Absent, Blank} \cup Values]
  /\ wanted \in [Entries -> {Absent, Blank} \cup Values]
  /\ \A c \in Calls : call[c].form \subseteq Entries

(* What an operator has entered stays, whatever else is saved by whom, and  *)
(* although a form is sent back without the secrets it was not shown: a     *)
(* source that cannot be read costs the call, not the sources. Conceded:    *)
(* entries changed between a call's read, or the form's, and its write; and *)
(* what a call that could not read the credentials or the settings did not  *)
(* mention.                                                                 *)
NothingForgotten == file = wanted

-----------------------------------------------------------------------------
(* The inductive invariant behind it: NothingForgotten says nothing of what *)
(* a call carries from its read of the file to its write, steps later.      *)
(* What a file can hold, what a call can ask for, what it can be at.        *)
Contents == [Entries -> {Absent, Blank} \cup Values]
Changes  == [Entries -> {Keep, Absent, Blank} \cup Values]
Entered  == [at : {"idle", "shown", "writing"}, form : SUBSET Entries, seen : Contents,
             next : Contents, asked : Changes, misread : BOOLEAN]

StoreTypes ==
  store \in Stores /\ file \in Contents /\ call \in [Calls -> Entered]

(* What a call is about to write is what it was asked to write and, for the *)
(* rest, what the file held when the call read it and when its form showed  *)
(* it; but nothing is promised when it could not be read.                   *)
WritesAsAsked(entry) ==
  \A e \in Entries :
    IF entry.asked[e] # Keep
    THEN entry.next[e] = entry.asked[e]
    ELSE ~entry.misread /\ (e \in entry.form <=> entry.seen[e] # Absent) =>
           entry.next[e] = entry.seen[e]

(* A call that cannot read the sources fails.                               *)
Sound(entry) ==
  /\ entry.misread => store # "sources"
  /\ entry.at = "writing" => WritesAsAsked(entry)

StoreInv == StoreTypes /\ NothingForgotten /\ \A c \in Calls : Sound(call[c])
=============================================================================
