----------------------------- MODULE BundleCache -----------------------------
(***************************************************************************)
(* The cache of app bundles: calls of ensurePulled share one directory per *)
(* version of an app, a set of versions in use that cleanup must not       *)
(* evict, and a marker beside the files that names the digest they were    *)
(* pulled as (packages/server/src/services/core/bundles.ts,                *)
(* bundle-cache.ts).  A publisher may push new content under an old tag,   *)
(* and the registry may not answer.                                        *)
(*                                                                         *)
(* A bundle is asked for, and marked in use, by its key: source, app and   *)
(* version as they are written.  On disk its name is sanitized, and cleanup *)
(* asks for the marks of the names it finds there.  So a bundle whose      *)
(* version is 1.0.0+b1 has a mark that no cleanup sees, and two keys can   *)
(* share a directory.                                                      *)
(*                                                                         *)
(* A call waits where it asks the registry, pulls and verifies; what it    *)
(* does in between is one step.  oras looks the tag up once and writes the *)
(* files one after the other: those that make a directory count as cached  *)
(* (compose.yaml, manifest.json), then the rest.                           *)
(***************************************************************************)
EXTENDS Naturals

CONSTANTS
  Calls,
  Bundles,       \* the keys of versions of apps; each has a tag
  Dir,           \* of each key the name of its directory; a directory of that
                 \* name is the key's own, so that a name is its own directory
  Mutable,       \* the bundles whose tags are pushed again
  MaxDigest,     \* bound on the contents pushed under a tag, numbered
  MaxTroubles    \* bound on requests that fail, refused bundles, and restarts

(* A digest is of the content that was pushed n-th under a tag.             *)
None    == <<"none", 0>>
Digests == Bundles \X (1..MaxDigest)

(* sanitize *)
Directories == {Dir[b] : b \in Bundles}

VARIABLES
  tag,       \* the content each tag names in the registry
  disk,      \* each directory: what its files are of, and its marker
  inUse,     \* inUseBundles
  call,
  raced,     \* directories written by two calls at once, republished while
             \* pulled, or evicted under a call
  troubles

vars == <<tag, disk, inUse, call, raced, troubles>>

Bare   == [head |-> None, tail |-> None, marker |-> None]
NoCall == [at |-> "idle", of |-> "none", remote |-> None, pulling |-> None,
           pulled |-> FALSE, alone |-> TRUE]

Init ==
  /\ tag = [b \in Bundles |-> 1]
  /\ disk = [d \in Directories |-> Bare]
  /\ inUse = {}
  /\ call = [c \in Calls |-> NoCall]
  /\ raced = [d \in Directories |-> {}]
  /\ troubles = 0

Trouble == troubles < MaxTroubles /\ troubles' = troubles + 1
Named(b) == <<b, tag[b]>>
Whole(d) == d.head # None /\ d.tail = d.head

(* The calls on a directory. *)
On(d) == {c \in Calls : call[c].at # "idle" /\ Dir[call[c].of] = d}

-----------------------------------------------------------------------------
(* What cleanup may evict, as retention and the size cap say: a directory   *)
(* whose name is not a key in use.                                          *)
Evictable(marked) == Directories \ marked

(* The directory d of c is its own again if nobody else has been on it; and *)
(* a call whose directory is evicted has it no longer.                      *)
Traced(c, d, evicted) ==
  raced' = [x \in Directories |->
    IF x = d THEN IF On(d) \subseteq {c} /\ call'[c].alone THEN {} ELSE {"shared"}
    ELSE IF x \in evicted /\ On(x) # {} THEN raced[x] \cup {"evicted"} ELSE raced[x]]

(* Mutant: the pull writes over what is there.                              *)
MakeRoomAround(c, d, marked) ==
  \E evicted \in SUBSET Evictable(marked) :
    /\ disk' = [x \in Directories |-> IF x \in evicted THEN Bare ELSE disk[x]]
    /\ Traced(c, d, evicted)

(* What a call does before it pulls: its directory is emptied, and cleanup  *)
(* runs.                                                                    *)
MakeRoom(c, d, marked) ==
  \E evicted \in SUBSET Evictable(marked) :
    /\ disk' = [x \in Directories |-> IF x = d \/ x \in evicted THEN Bare ELSE disk[x]]
    /\ Traced(c, d, evicted)

(* Mutant: the bundle is not marked in use.                                 *)
Unmarked(b) == inUse

(* markInUse *)
Marked(b) == inUse \cup {b}

(* A call is alone until another one is on the same directory.              *)
Join(c, b, at) ==
  call' = [o \in Calls |->
    IF o = c THEN [NoCall EXCEPT !.at = at, !.of = b, !.alone = On(Dir[b]) = {}]
    ELSE IF o \in On(Dir[b]) THEN [call[o] EXCEPT !.alone = FALSE] ELSE call[o]]

(* ensurePulled, up to its first request. *)
Begin(c, b) ==
  LET d == Dir[b] IN
  /\ call[c].at = "idle"
  /\ inUse' = Marked(b)
  /\ Join(c, b, IF disk[d].head # None THEN "resolving" ELSE "pulling")
  /\ IF disk[d].head # None
     THEN /\ raced' = [raced EXCEPT ![d] = @ \cup {x \in {"shared"} : ~call'[c].alone}]
          /\ UNCHANGED disk
     ELSE MakeRoom(c, d, Marked(b))
  /\ UNCHANGED <<tag, troubles>>

(* resolveDigest: None when the registry cannot be asked.                   *)
Resolved(b, r) == \/ r = Named(b) /\ UNCHANGED troubles
                  \/ r = None /\ Trouble

(* Whatever is cached is served when the registry does not answer, when it  *)
(* names the digest of the marker, and when there is no marker.             *)
Resolve(c) ==
  LET b == call[c].of
      d == Dir[b] IN
  /\ call[c].at = "resolving"
  /\ \E r \in {None, Named(b)} :
       /\ Resolved(b, r)
       /\ IF r = None \/ disk[d].marker \in {None, r}
          THEN /\ call' = [call EXCEPT ![c].at = "verifying", ![c].remote = r]
               /\ UNCHANGED <<disk, raced>>
          ELSE /\ call' = [call EXCEPT ![c].at = "pulling", ![c].remote = r]
               /\ MakeRoom(c, d, inUse)
  /\ UNCHANGED <<tag, inUse>>

(* oras pull *)
PullHead(c) ==
  LET b == call[c].of IN
  /\ call[c].at = "pulling"
  /\ disk' = [disk EXCEPT ![Dir[b]].head = Named(b)]
  /\ call' = [call EXCEPT ![c].at = "filling", ![c].pulling = Named(b)]
  /\ UNCHANGED <<tag, inUse, raced, troubles>>

PullTail(c) ==
  /\ call[c].at = "filling"
  /\ disk' = [disk EXCEPT ![Dir[call[c].of]].tail = call[c].pulling]
  /\ call' = [call EXCEPT ![c].at = "stamping", ![c].pulling = None, ![c].pulled = TRUE]
  /\ UNCHANGED <<tag, inUse, raced, troubles>>

(* The digest asked for before the pull, or asked for only now; a directory *)
(* that is gone takes no marker.                                            *)
Stamp(c) ==
  LET b == call[c].of
      d == Dir[b] IN
  /\ call[c].at = "stamping"
  /\ \E r \in {None, call[c].remote, Named(b)} :
       /\ IF call[c].remote # None THEN r = call[c].remote /\ UNCHANGED troubles
                                   ELSE Resolved(b, r)
       /\ \/ disk' = IF r = None THEN disk ELSE [disk EXCEPT ![d].marker = r]
          \/ disk[d] = Bare /\ UNCHANGED disk
       /\ call' = [call EXCEPT ![c].at = "verifying", ![c].remote = r]
  /\ UNCHANGED <<tag, inUse, raced>>

(* enforceSignaturePolicy: a bundle that is refused is removed.             *)
Verify(c) ==
  /\ call[c].at = "verifying"
  /\ \/ /\ call' = [call EXCEPT ![c].at = "returning"]
        /\ UNCHANGED <<disk, troubles>>
     \/ /\ call' = [call EXCEPT ![c].at = "failing"]
        /\ disk' = [disk EXCEPT ![Dir[call[c].of]] = Bare]
        /\ Trouble
  /\ UNCHANGED <<tag, inUse, raced>>

PullFails(c) ==
  /\ call[c].at \in {"pulling", "filling"} /\ Trouble
  /\ call' = [call EXCEPT ![c].at = "failing"]
  /\ UNCHANGED <<tag, disk, inUse, raced>>

(* The caller reads the directory as soon as the call is over, and the call *)
(* takes its mark away, whoever else has set it too.                        *)
Finish(c) ==
  /\ call[c].at \in {"returning", "failing"}
  /\ inUse' = inUse \ {call[c].of}
  /\ call' = [call EXCEPT ![c] = NoCall]
  /\ UNCHANGED <<tag, disk, raced, troubles>>

-----------------------------------------------------------------------------
(* The publisher. *)
Republish(b) ==
  /\ b \in Mutable /\ tag[b] < MaxDigest
  /\ tag' = [tag EXCEPT ![b] = @ + 1]
  /\ raced' = [raced EXCEPT ![Dir[b]] =
       IF \E c \in Calls : call[c].of = b /\ call[c].at \in {"pulling", "filling", "stamping"}
       THEN @ \cup {"republished"} ELSE @]
  /\ UNCHANGED <<disk, inUse, call, troubles>>

Crash ==
  /\ \E c \in Calls : call[c].at # "idle"
  /\ Trouble
  /\ call' = [c \in Calls |-> NoCall]
  /\ inUse' = {}
  /\ UNCHANGED <<tag, disk, raced>>

Next ==
  \/ \E c \in Calls :
       \/ \E b \in Bundles : Begin(c, b)
       \/ Resolve(c) \/ PullHead(c) \/ PullTail(c) \/ Stamp(c) \/ Verify(c)
       \/ PullFails(c) \/ Finish(c)
  \/ \E b \in Bundles : Republish(b)
  \/ Crash

Spec == Init /\ [][Next]_vars

-----------------------------------------------------------------------------
(* Types of the variables of the bundle cache. *)
TypeOK ==
  /\ tag \in [Bundles -> 1..MaxDigest]
  /\ disk \in [Directories -> [head : Digests \cup {None}, tail : Digests \cup {None},
                              marker : Digests \cup {None}]]
  /\ inUse \subseteq Bundles
  /\ call \in [Calls -> [at : {"idle", "resolving", "pulling", "filling", "stamping",
                               "verifying", "returning", "failing"},
                         of : Bundles \cup {"none"}, remote : Digests \cup {None},
                         pulling : Digests \cup {None}, pulled : BOOLEAN, alone : BOOLEAN]]
  /\ raced \in [Directories -> SUBSET {"shared", "republished", "evicted"}]
  /\ troubles \in 0..MaxTroubles

(* The directory is that of the key, so that its mark is seen.              *)
Plain(b) == Dir[b] = b

(* What a call has pulled and returns is whole and of one content, whatever *)
(* other bundles are pulled and evicted meanwhile, unless the name of its   *)
(* directory differs from its key and cleanup evicted it; and a marker      *)
(* names what lies beside it, all of it: pulls that fail, restarts and      *)
(* republished tags leave no directory that passes for another digest.      *)
BundlesWhole ==
  /\ \A c \in Calls :
       LET b == call[c].of IN
       call[c].at = "returning" /\ call[c].pulled /\ call[c].alone =>
         \/ Whole(disk[Dir[b]])
         \/ ~Plain(b) /\ "evicted" \in raced[Dir[b]]
  /\ \A d \in Directories : disk[d].marker # None /\ raced[d] = {}
                            => Whole(disk[d]) /\ disk[d].marker = disk[d].head
=============================================================================
