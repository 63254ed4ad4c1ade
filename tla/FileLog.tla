------------------------------- MODULE FileLog -------------------------------
(***************************************************************************)
(* The log on disk: lib/file-logger.ts under services/core/logging.ts.     *)
(* Entries are buffered, flushes run one after the other in a chain of     *)
(* promises, and a file that is full is to be rotated.  Entries are        *)
(* numbered in the order they are logged; a file's size is counted in      *)
(* entries.                                                                *)
(***************************************************************************)
EXTENDS Naturals, Sequences, SequencesExt

CONSTANTS
  MaxEntries,   \* bound on entries
  MaxFileSize,  \* maxFileSize, in entries
  MaxTroubles   \* bound on failed file operations and restarts

VARIABLES
  logged,    \* how many entries there are
  buffer,
  chain,     \* flushChain: whose flushes have not settled, the first one runs
  at,        \* what the flush that runs does
  batch,     \* its entries
  disk,      \* what the files hold, the oldest first
  size,      \* of the current file
  returned,  \* error entries whose log call has returned
  refused,   \* entries an append of which has failed
  torn,      \* those of them which it wrote all the same
  lost,      \* entries that a restart found in memory
  troubles

files  == <<disk, size>>
ghosts == <<returned, refused, torn, lost>>
vars == <<logged, buffer, chain, at, batch, files, ghosts, troubles>>

Numbers  == 1..MaxEntries
Timer    == 0                  \* callers of flush that are no log call
Rotation == MaxEntries + 1
Callers  == Numbers \cup {Timer, Rotation}

Init ==
  /\ logged = 0 /\ buffer = <<>> /\ chain = <<>> /\ at = "idle" /\ batch = <<>>
  /\ disk = <<>> /\ size = 0
  /\ returned = {} /\ refused = {} /\ torn = {} /\ lost = {} /\ troubles = 0

Trouble == troubles < MaxTroubles /\ troubles' = troubles + 1

(* The flush that runs settles: the next in the chain can, its caller goes  *)
(* on.                                                                      *)
Settle ==
  /\ chain' = Tail(chain) /\ at' = "idle" /\ batch' = <<>>
  /\ returned' = returned \cup ({Head(chain)} \cap Numbers)

-----------------------------------------------------------------------------
(* Mutant: nobody waits for an error to be flushed.                         *)
LogUnawaited(error) ==
  /\ logged < MaxEntries
  /\ logged' = logged + 1
  /\ buffer' = Append(buffer, logged + 1)
  /\ chain' = IF error THEN Append(chain, Timer) ELSE chain
  /\ returned' = IF error THEN returned \cup {logged + 1} ELSE returned
  /\ UNCHANGED <<at, batch, files, refused, torn, lost, troubles>>

(* An error is flushed at once, and its log call waits for that.            *)
Log(error) ==
  /\ logged < MaxEntries
  /\ logged' = logged + 1
  /\ buffer' = Append(buffer, logged + 1)
  /\ chain' = IF error THEN Append(chain, logged + 1) ELSE chain
  /\ UNCHANGED <<at, batch, files, ghosts, troubles>>

(* One flush of the timer in the chain stands for several.                  *)
Tick ==
  /\ Timer \notin ToSet(chain)
  /\ chain' = Append(chain, Timer)
  /\ UNCHANGED <<logged, buffer, at, batch, files, ghosts, troubles>>

(* doFlush begins. *)
Drain ==
  /\ at = "idle" /\ chain # <<>> /\ buffer # <<>>
  /\ at' = "sizing" /\ batch' = buffer /\ buffer' = <<>>
  /\ UNCHANGED <<logged, chain, files, ghosts, troubles>>

DrainNothing ==
  /\ at = "idle" /\ chain # <<>> /\ buffer = <<>>
  /\ Settle
  /\ UNCHANGED <<logged, buffer, files, refused, torn, lost, troubles>>

(* checkRotation.  rotate() first waits for a flush of its own, which       *)
(* stands in the chain behind the one that waits for it: neither ends, and  *)
(* what rotate() does then is never reached.                                *)
CheckRotation ==
  /\ at = "sizing"
  /\ IF size >= MaxFileSize
     THEN at' = "rotating" /\ chain' = Append(chain, Rotation)
     ELSE at' = "appending" /\ UNCHANGED chain
  /\ UNCHANGED <<logged, buffer, batch, files, ghosts, troubles>>

AppendBatch ==
  /\ at = "appending"
  /\ disk' = disk \o batch /\ size' = size + Len(batch)
  /\ Settle
  /\ UNCHANGED <<logged, buffer, refused, torn, lost, troubles>>

(* Mutant: what could not be written queues up behind what came since.      *)
FailRequeueing(k) ==
  /\ at \in {"sizing", "appending"} /\ Trouble
  /\ at = "sizing" => k = 0
  /\ disk' = disk \o SubSeq(batch, 1, k) /\ size' = size + k
  /\ buffer' = buffer \o batch
  /\ refused' = refused \cup ToSet(batch) /\ torn' = torn \cup ToSet(SubSeq(batch, 1, k))
  /\ Settle
  /\ UNCHANGED <<logged, lost>>

(* A file operation fails, an append perhaps after its first k entries.     *)
Fail(k) ==
  /\ at \in {"sizing", "appending"} /\ Trouble
  /\ at = "sizing" => k = 0
  /\ disk' = disk \o SubSeq(batch, 1, k) /\ size' = size + k
  /\ buffer' = batch \o buffer
  /\ refused' = refused \cup ToSet(batch) /\ torn' = torn \cup ToSet(SubSeq(batch, 1, k))
  /\ Settle
  /\ UNCHANGED <<logged, lost>>

(* The server starts again: in a new file, unless it is still the same      *)
(* second.                                                                  *)
Restart ==
  /\ Trouble
  /\ lost' = lost \cup ToSet(buffer) \cup ToSet(batch)
  /\ buffer' = <<>> /\ chain' = <<>> /\ at' = "idle" /\ batch' = <<>>
  /\ size' \in {0, size}
  /\ UNCHANGED <<logged, disk, returned, refused, torn>>

-----------------------------------------------------------------------------
FlushStep == Drain \/ DrainNothing \/ CheckRotation \/ AppendBatch

Next ==
  \/ \E error \in BOOLEAN : Log(error)
  \/ Tick \/ FlushStep \/ Restart
  \/ \E k \in 0..Len(batch) : Fail(k)

Spec == Init /\ [][Next]_vars

(* A file operation ends. *)
FairSpec == Spec /\ WF_vars(FlushStep)

-----------------------------------------------------------------------------
(* Types of the variables of the log. *)
TypeOK ==
  /\ logged \in 0..MaxEntries /\ buffer \in Seq(Numbers) /\ chain \in Seq(Callers)
  /\ at \in {"idle", "sizing", "appending", "rotating"} /\ batch \in Seq(Numbers)
  /\ disk \in Seq(Numbers) /\ size \in Nat
  /\ returned \cup refused \cup torn \cup lost \subseteq Numbers /\ troubles \in 0..MaxTroubles

(* In the order they were logged, but for what is excused.                  *)
InOrder(entries, excused) ==
  \A i, j \in 1..Len(entries) : i < j => entries[i] < entries[j] \/ entries[j] \in excused

(* Between the files, the running flush and the buffer no entry is lost,    *)
(* doubled or out of order, but for what a restart found in memory and what *)
(* a failed append wrote all the same; and an error whose log call returned *)
(* is on disk unless it could not be written.                               *)
LogKept ==
  LET all == disk \o batch \o buffer IN
  /\ ToSet(all) \cup lost = 1..logged
  /\ InOrder(all, torn)
  /\ returned \subseteq ToSet(disk) \cup refused \cup lost

(* The invariant behind it, in its parts: what the three hold,              *)
Shapes ==
  /\ logged \in 0..MaxEntries
  /\ disk \in Seq(Numbers) /\ batch \in Seq(Numbers) /\ buffer \in Seq(Numbers)
  /\ chain \in Seq(Callers)
  /\ ToSet(disk) \cup ToSet(batch) \cup ToSet(buffer) \cup lost = 1..logged

(* in which order,                                                          *)
Before(former, latter, excused) ==
  \A x \in ToSet(former), y \in ToSet(latter) : x < y \/ y \in excused

Order ==
  /\ InOrder(disk, torn) /\ InOrder(batch, torn) /\ InOrder(buffer, torn)
  /\ Before(disk, batch, torn) /\ Before(disk, buffer, torn) /\ Before(batch, buffer, torn)

(* and what has become of the errors somebody waits for: the flush of the   *)
(* first in the chain has taken it out of the buffer.                       *)
Awaited ==
  /\ returned \subseteq ToSet(disk) \cup refused \cup lost
  /\ ToSet(chain) \cap Numbers \subseteq 1..logged
  /\ IF at = "idle" THEN batch = <<>>
     ELSE /\ chain # <<>>
          /\ {Head(chain)} \cap Numbers \subseteq ToSet(disk) \cup ToSet(batch) \cup lost

LogInv == Shapes /\ Order /\ Awaited

(* Logging is best effort (logging.ts:146), and "one failure doesn't wedge  *)
(* every future flush" (file-logger.ts:170-172): a call that logs an error  *)
(* comes back.                                                              *)
LogCallsReturn == \A e \in Numbers : (e \in ToSet(chain)) ~> (e \notin ToSet(chain))
=============================================================================
