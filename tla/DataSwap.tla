------------------------------- MODULE DataSwap -------------------------------
(***************************************************************************)
(* How a data root is replaced by an archive: extract beside it, move the  *)
(* root aside, move the extracted tree in, remove what was superseded, and *)
(* put the old root back when the tree cannot be moved in                  *)
(* (restoreTarGzInto and moveDir,                                          *)
(* packages/server/src/services/core/snapshot-fs.ts).  A move is a rename, *)
(* or a copy and a removal where the two paths lie on different            *)
(* filesystems.  The server may die at any point; the directories of a     *)
(* dead call stay, and the next call takes fresh names.                    *)
(***************************************************************************)
EXTENDS Naturals

CONSTANTS
  MaxSwaps,    \* bound on calls
  MaxFaults    \* bound on file operations that fail, and on restarts

Dirs    == {"root", "staged", "superseded"}
Content == {"none", "part", "old", "new"}   \* absent; incomplete; as before; as in the archive

VARIABLES
  dir,        \* the three trees of the call
  at,         \* what the call does
  move,       \* the moveDir it is in
  crossing,   \* the staging directory lies on another filesystem
  found,      \* what the call found in the root
  excused,    \* the root could not be put back, or not be removed once copied
  swaps,
  broken

vars == <<dir, at, move, crossing, found, excused, swaps, broken>>

NoMove == [from |-> "root", to |-> "root", at |-> "idle"]
Moving(from, to) == [from |-> from, to |-> to, at |-> "clearing"]

Init ==
  /\ dir = [d \in Dirs |-> IF d = "root" THEN "old" ELSE "none"]
  /\ at = "idle" /\ move = NoMove
  /\ crossing \in BOOLEAN
  /\ found = "none" /\ excused = FALSE
  /\ swaps = 0 /\ broken = 0

Fault == broken < MaxFaults /\ broken' = broken + 1

-----------------------------------------------------------------------------
(* Two fresh directories. *)
Begin ==
  /\ at = "idle" /\ swaps < MaxSwaps
  /\ swaps' = swaps + 1
  /\ dir' = [dir EXCEPT !["staged"] = "none", !["superseded"] = "none"]
  /\ found' = dir["root"] /\ excused' = FALSE
  /\ at' = "extracting"
  /\ UNCHANGED <<move, crossing, broken>>

(* Mutant: the root is wiped before the archive has proved good.            *)
ExtractOver ==
  /\ at = "extracting"
  /\ \/ /\ dir' = [dir EXCEPT !["staged"] = "new", !["root"] = "none"]
        /\ at' = "in" /\ move' = Moving("staged", "root")
        /\ UNCHANGED broken
     \/ /\ Fault
        /\ dir' = [dir EXCEPT !["root"] = "none"]
        /\ at' = "idle" /\ UNCHANGED move
  /\ UNCHANGED <<crossing, found, excused, swaps>>

(* A truncated, corrupt or empty archive ends the call here.                *)
Extract ==
  /\ at = "extracting"
  /\ \/ /\ dir' = [dir EXCEPT !["staged"] = "new"]
        /\ IF dir["root"] = "none"
           THEN at' = "in" /\ move' = Moving("staged", "root")
           ELSE at' = "aside" /\ move' = Moving("root", "superseded")
        /\ UNCHANGED broken
     \/ /\ Fault
        /\ at' = "idle"
        /\ UNCHANGED <<dir, move>>
  /\ UNCHANGED <<crossing, found, excused, swaps>>

-----------------------------------------------------------------------------
(* moveDir, one file operation a step. *)
MoveStep ==
  /\ \/ /\ move.at = "clearing"
        /\ dir' = [dir EXCEPT ![move.to] = "none"]
        /\ move' = [move EXCEPT !.at = "renaming"]
     \/ /\ move.at = "renaming" /\ ~crossing
        /\ dir' = [dir EXCEPT ![move.to] = dir[move.from], ![move.from] = "none"]
        /\ move' = [move EXCEPT !.at = "moved"]
     \/ /\ move.at = "renaming" /\ crossing
        /\ dir' = [dir EXCEPT ![move.to] = "part"]
        /\ move' = [move EXCEPT !.at = "copying"]
     \/ /\ move.at = "copying"
        /\ dir' = [dir EXCEPT ![move.to] = dir[move.from], ![move.from] = "part"]
        /\ move' = [move EXCEPT !.at = "removing"]
     \/ /\ move.at = "removing"
        /\ dir' = [dir EXCEPT ![move.from] = "none"]
        /\ move' = [move EXCEPT !.at = "moved"]
  /\ UNCHANGED <<at, crossing, found, excused, swaps, broken>>

(* Mutant: the old root is given up as soon as it is aside.                 *)
NextMoveDropping ==
  /\ move.at = "moved"
  /\ dir' = IF at = "aside" THEN [dir EXCEPT !["superseded"] = "none"] ELSE dir
  /\ IF at = "aside" THEN at' = "in" /\ move' = Moving("staged", "root")
                     ELSE at' = "idle" /\ move' = NoMove
  /\ UNCHANGED <<crossing, found, excused, swaps, broken>>

(* What follows a move: the tree goes in; the superseded root is removed (a *)
(* leftover does no harm); a root put back ends the call with its error.    *)
NextMove ==
  /\ move.at = "moved"
  /\ IF at = "aside" THEN at' = "in" /\ move' = Moving("staged", "root")
                     ELSE at' = "idle" /\ move' = NoMove
  /\ dir' = IF at = "in" THEN [dir EXCEPT !["superseded"] = "none"] ELSE dir
  /\ UNCHANGED <<crossing, found, excused, swaps, broken>>

(* Mutant: an error while the tree moves in just ends the call.             *)
MoveFailsForGood ==
  /\ move.at \notin {"idle", "moved"}
  /\ Fault
  /\ at' = "idle" /\ move' = NoMove
  /\ UNCHANGED <<dir, crossing, found, excused, swaps>>

(* A file operation of the move fails.  The old root is put back if it was  *)
(* moved aside, and nobody hears when that fails too.                       *)
MoveFails ==
  /\ move.at \notin {"idle", "moved"}
  /\ Fault
  /\ IF at = "in" /\ found # "none"
     THEN at' = "back" /\ move' = Moving("superseded", "root")
     ELSE at' = "idle" /\ move' = NoMove
  /\ excused' = (excused \/ at = "back" \/ move.at = "removing")
  /\ UNCHANGED <<dir, crossing, found, swaps>>

Crash ==
  /\ at # "idle"
  /\ Fault
  /\ at' = "idle" /\ move' = NoMove /\ excused' = TRUE
  /\ UNCHANGED <<dir, crossing, found, swaps>>

-----------------------------------------------------------------------------
Next == Begin \/ Extract \/ MoveStep \/ NextMove \/ MoveFails \/ Crash

Spec == Init /\ [][Next]_vars

-----------------------------------------------------------------------------
(* Types of the variables of a swap. *)
Kinds ==
  /\ dir \in [Dirs -> Content] /\ found \in Content
  /\ at \in {"idle", "extracting", "aside", "in", "back"}
  /\ move \in [from : Dirs, to : Dirs,
               at : {"idle", "clearing", "renaming", "copying", "removing", "moved"}]
  /\ crossing \in BOOLEAN /\ excused \in BOOLEAN

TypeOK == Kinds /\ swaps \in 0..MaxSwaps /\ broken \in 0..MaxFaults

Whole ==
  \/ found \in {"none", "part"}
  \/ found \in {dir["root"], dir["superseded"]}
  \/ dir["root"] = "new"

(* At every moment of a call, and if the server dies there, the data the    *)
(* call found lies whole in the root or in the superseded tree, or the root *)
(* holds all of the archive; and a call that throws leaves the root as it   *)
(* found it ("the data you had is the data you still have").                *)
Preserving ==
  /\ Whole'
  /\ at # "idle" /\ at' = "idle" /\ dir'["root"] # "new" =>
       dir'["root"] = found \/ found = "none" \/ excused'

NothingLost == [][Preserving]_vars

(* The invariant behind it: where the data the call found is, and what else *)
(* the trees hold, at each operation of each move.                          *)
NotMoving == move = NoMove /\ Whole

Extracting ==
  move = NoMove /\ dir["root"] = found

MovingAside ==
  /\ move.from = "root" /\ move.to = "superseded" /\ move.at # "idle"
  /\ dir["staged"] = "new" /\ found # "none"
  /\ IF move.at \in {"clearing", "renaming", "copying"} THEN dir["root"] = found
                                                       ELSE dir["superseded"] = found

MovingIn ==
  /\ move.from = "staged" /\ move.to = "root" /\ move.at # "idle"
  /\ found # "none" => dir["superseded"] = found
  /\ IF move.at \in {"clearing", "renaming", "copying"} THEN dir["staged"] = "new"
                                                       ELSE dir["root"] = "new"

MovingBack ==
  /\ move.from = "superseded" /\ move.to = "root" /\ move.at # "idle"
  /\ found # "none"
  /\ IF move.at \in {"clearing", "renaming", "copying"} THEN dir["superseded"] = found
                                                       ELSE dir["root"] = found

SwapInv ==
  /\ Kinds
  /\ at = "idle" => NotMoving
  /\ at = "extracting" => Extracting
  /\ at = "aside" => MovingAside
  /\ at = "in" => MovingIn
  /\ at = "back" => MovingBack
=============================================================================
