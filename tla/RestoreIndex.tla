---------------------------- MODULE RestoreIndex ----------------------------
(***************************************************************************)
(* The published indexes of the restore@1 contract: what each provider can *)
(* restore, all in one file that publish and discard read, change and      *)
(* write back without a lock                                               *)
(* (packages/server/src/services/core/restore-index.ts), and the handlers  *)
(* of deployment.ts that call them.  A read that fails sees an empty file, *)
(* a write that fails is reported to nobody.                               *)
(*                                                                         *)
(* A provider publishes when it has a new capture and when its poll        *)
(* answers that the server holds no index of it (reindex).                 *)
(***************************************************************************)
EXTENDS Naturals

CONSTANTS
  Providers,
  MaxCaptures,   \* bound on the captures of a provider
  MaxFaults      \* bound on restarts and on reads and writes of the file that fail

Absent == 0
Index  == 0..MaxCaptures   \* Absent, or the captures an index names: the first n

Kinds == {"publish", "discard"}

VARIABLES
  index,       \* config/restore-index.json: Absent, or what it says of each provider
  held,        \* captures each provider holds
  installed,   \* providers installed and consented
  call,        \* the publish call of each provider, and the discard of its uninstall
  faulted

vars == <<index, held, installed, call, faulted>>

Empty  == [p \in Providers |-> Absent]
NoCall == [at |-> "idle", file |-> Empty]

Init ==
  /\ index = Empty
  /\ held = [p \in Providers |-> 1]
  /\ installed = Providers
  /\ call = [p \in Providers, k \in Kinds |-> NoCall]
  /\ faulted = 0

(* What a read returns. *)
Seen == {index} \cup {f \in {Empty} : faulted < MaxFaults}

-----------------------------------------------------------------------------
(* publishRestoreIndex is called; a provider makes one call at a time.      *)
Publish(p) ==
  /\ p \in installed /\ call[p, "publish"].at = "idle"
  /\ call' = [call EXCEPT ![p, "publish"].at = "reading"]
  /\ UNCHANGED <<index, installed, faulted>>

Capture(p) ==
  /\ held[p] < MaxCaptures
  /\ held' = [held EXCEPT ![p] = @ + 1]
  /\ Publish(p)

(* Mutant: the server asks for an index only when it holds none at all.     *)
ReindexWhenEmpty(p) == index = Empty

(* hasPublished is false.                                                   *)
Reindex(p) == index[p] = Absent

(* pollRestoreRequests *)
Poll(p) ==
  /\ Reindex(p)
  /\ UNCHANGED held
  /\ Publish(p)

(* The uninstall waits for no call of the provider. *)
Uninstall(p) ==
  /\ p \in installed
  /\ installed' = installed \ {p}
  /\ call' = [call EXCEPT ![p, "discard"].at = "reading"]
  /\ UNCHANGED <<index, held, faulted>>

(* discard writes nothing when the file does not name the provider.         *)
ReadFile(p, k) ==
  /\ call[p, k].at = "reading"
  /\ \E f \in Seen :
       /\ call' = [call EXCEPT ![p, k] =
            IF k = "discard" /\ f[p] = Absent THEN NoCall ELSE [at |-> "writing", file |-> f]]
       /\ faulted' = IF f = index THEN faulted ELSE faulted + 1
  /\ UNCHANGED <<index, held, installed>>

(* Everything the provider holds replaces its entry in the file as read.    *)
WriteFile(p, k) ==
  /\ call[p, k].at = "writing"
  /\ \/ /\ index' = [call[p, k].file EXCEPT ![p] = IF k = "publish" THEN held[p] ELSE Absent]
        /\ UNCHANGED faulted
     \/ /\ faulted < MaxFaults
        /\ faulted' = faulted + 1
        /\ UNCHANGED index
  /\ call' = [call EXCEPT ![p, k] = NoCall]
  /\ UNCHANGED <<held, installed>>

Crash ==
  /\ faulted < MaxFaults
  /\ faulted' = faulted + 1
  /\ call' = [p \in Providers, k \in Kinds |-> NoCall]
  /\ UNCHANGED <<index, held, installed>>

-----------------------------------------------------------------------------
Handling(p) == \E k \in Kinds : ReadFile(p, k) \/ WriteFile(p, k)

Next ==
  \/ \E p \in Providers : Capture(p) \/ Poll(p) \/ Uninstall(p) \/ Handling(p)
  \/ Crash

Spec == Init /\ [][Next]_vars

(* Providers keep polling and calls are answered; captures and uninstalls   *)
(* need not happen.                                                         *)
Fairness == \A p \in Providers : WF_vars(Poll(p)) /\ WF_vars(Handling(p))

FairSpec == Spec /\ Fairness

-----------------------------------------------------------------------------
(* Types of the variables of the restore index. *)
TypeOK ==
  /\ index \in [Providers -> Index] /\ held \in [Providers -> Index \ {Absent}]
  /\ installed \subseteq Providers
  /\ call \in [Providers \X Kinds -> [at : {"idle", "reading", "writing"}, file : [Providers -> Index]]]
  /\ faulted \in 0..MaxFaults

(* Whatever updates are lost to each other, to failed reads and writes and  *)
(* to restarts, a provider that stays installed is listed again, whoever     *)
(* else publishes or leaves.                                                *)
ListedIfInstalled(p) == p \in installed => index[p] # Absent

IndexHeals == \A p \in Providers : []<>ListedIfInstalled(p)
=============================================================================
