---------------------------- MODULE BundleProofs ----------------------------
(***************************************************************************)
(* Proofs about BundleCache: what a call has pulled and returns is whole,  *)
(* and a marker names the files beside it, for any number of calls,        *)
(* bundles, contents, failures and restarts.                               *)
(*                                                                         *)
(* BundleInv follows a directory through the pull of a call that is alone  *)
(* on it, and says why such a call is left alone: its bundle is marked in  *)
(* use, so nobody evicts a directory that has the name of the key, and     *)
(* nobody else is there to take the mark away.  ServicesProofs takes       *)
(* InitBundles and NextBundles to the instance of the runs.                *)
(***************************************************************************)
EXTENDS BundleCache, TLAPS

-----------------------------------------------------------------------------
(* What a directory and a call can be.                                      *)
Contents  == (Bundles \X (Nat \ {0})) \cup {None}
Directory == [head : Contents, tail : Contents, marker : Contents]
Recorded  == [at : {"idle", "resolving", "pulling", "filling", "stamping",
                    "verifying", "returning", "failing"},
              of : Bundles \cup {"none"}, remote : Contents, pulling : Contents,
              pulled : BOOLEAN, alone : BOOLEAN]
Traces    == SUBSET {"shared", "republished", "evicted"}

BundleTypes ==
  /\ tag \in [Bundles -> Nat \ {0}]
  /\ disk \in [Directories -> Directory]
  /\ inUse \in SUBSET Bundles
  /\ call \in [Calls -> Recorded]
  /\ raced \in [Directories -> Traces]

(* A call that is on a directory, with nobody else, and has been from its   *)
(* beginning; and one whose directory has not been evicted under it, or     *)
(* cannot be.                                                               *)
Busy(c)  == call[c].at # "idle"
Alone(c) == Busy(c) /\ call[c].alone
Kept(c)  == Plain(call[c].of) \/ "evicted" \notin raced[Dir[call[c].of]]

(* Its bundle is in use, and no other call is on its directory; a call that *)
(* has met another one has left its trace.                                  *)
CompanyInv ==
  \A c \in Calls :
    /\ Busy(c) => call[c].of \in Bundles
    /\ Alone(c) => /\ call[c].of \in inUse
                   /\ \A o \in Calls \ {c} : Busy(o) => Dir[call[o].of] # Dir[call[c].of]
    /\ Busy(c) /\ ~call[c].alone => "shared" \in raced[Dir[call[c].of]]

(* The directory of a call that is alone on it, at each stage of its pull.  *)
Pulls(entry, d) ==
  /\ entry.at = "resolving" => ~entry.pulled
  /\ entry.at = "pulling" => d.marker = None
  /\ entry.at = "filling" => d.marker = None /\ d.head = entry.pulling /\ d.head # None
  /\ entry.at = "stamping" => d.marker = None /\ Whole(d)
  /\ entry.at \in {"verifying", "returning"} /\ entry.pulled => Whole(d)

PullInv == \A c \in Calls : Alone(c) /\ Kept(c) => Pulls(call[c], disk[Dir[call[c].of]])

(* Unless the tag is pushed again meanwhile, the digest the call has asked  *)
(* for and the files it has are what the tag names.                         *)
Agrees(entry, d, named) ==
  /\ entry.at \in {"pulling", "filling", "stamping"} => entry.remote \in {None, named}
  /\ entry.at = "filling" => entry.pulling = named
  /\ entry.at = "stamping" => d.head = named

Fresh(c) == Alone(c) /\ Kept(c) /\ "republished" \notin raced[Dir[call[c].of]]

FreshInv == \A c \in Calls : Fresh(c) => Agrees(call[c], disk[Dir[call[c].of]], Named(call[c].of))

(* A marker names the files beside it, all of them.                         *)
MarkedRight(d) == d.marker # None => Whole(d) /\ d.marker = d.head

MarkerInv == \A d \in Directories : raced[d] = {} => MarkedRight(disk[d])

(* The inductive invariant.                                                 *)
BundleInv == BundleTypes /\ CompanyInv /\ PullInv /\ FreshInv /\ MarkerInv

(* An emptied directory, and a call that has not begun.                     *)
LEMMA BareDirectory ==
  /\ Bare \in Directory /\ Bare.marker = None /\ None \in Contents
  /\ NoCall \in Recorded /\ NoCall.at = "idle" /\ NoCall.of = "none" /\ NoCall.remote = None
  BY DEF Bare, Directory, NoCall, Recorded, Contents

(* What a tag names is a content, and the directory of a key is one.        *)
LEMMA NamedContents ==
  ASSUME BundleTypes, NEW b \in Bundles
  PROVE  Named(b) \in Contents \ {None} /\ Dir[b] \in Directories
  BY DEF BundleTypes, Named, Contents, None, Directories

(* The invariant holds at first.                                            *)
LEMMA InitBundles == Init => BundleInv
<1> SUFFICES ASSUME Init PROVE BundleInv
  OBVIOUS
<1>1. BundleTypes
  BY BareDirectory DEF Init, BundleTypes, Traces
<1>2. \A c \in Calls : ~Busy(c)
  BY BareDirectory DEF Init, Busy
<1>3. MarkerInv
  BY BareDirectory DEF Init, MarkerInv, MarkedRight
<1> QED
  BY <1>1, <1>2, <1>3 DEF BundleInv, CompanyInv, PullInv, FreshInv, Fresh, Alone

(* Cleanup and the emptying of a directory leave the others as they were,   *)
(* unless they are evicted: then their names are not in use, and it is      *)
(* noted when somebody is on them.                                          *)
Spared(x) ==
  \/ disk'[x] = disk[x] /\ raced'[x] = raced[x]
  \/ /\ x \notin inUse /\ disk'[x] = Bare
     /\ raced'[x] = raced[x] \/ raced'[x] = raced[x] \cup {"evicted"}
     /\ On(x) # {} => "evicted" \in raced'[x]

LEMMA RoomMade ==
  ASSUME BundleTypes, NEW c \in Calls, NEW d \in Directories, NEW marked, inUse \subseteq marked,
         MakeRoom(c, d, marked)
  PROVE  /\ disk' \in [Directories -> Directory]
         /\ raced' \in [Directories -> Traces]
         /\ disk'[d] = Bare
         /\ \A x \in Directories \ {d} : Spared(x)
         /\ raced'[d] = IF On(d) \subseteq {c} /\ call'[c].alone THEN {} ELSE {"shared"}
<1>1. PICK evicted \in SUBSET Evictable(marked) :
        /\ disk' = [x \in Directories |-> IF x = d \/ x \in evicted THEN Bare ELSE disk[x]]
        /\ Traced(c, d, evicted)
  BY DEF MakeRoom
<1>2. disk' \in [Directories -> Directory] /\ disk'[d] = Bare
  BY <1>1, BareDirectory DEF BundleTypes
<1>3. /\ raced' \in [Directories -> Traces]
      /\ raced'[d] = IF On(d) \subseteq {c} /\ call'[c].alone THEN {} ELSE {"shared"}
  BY <1>1 DEF BundleTypes, Traced, Traces
<1>4. ASSUME NEW x \in Directories \ {d}
      PROVE  Spared(x)
  <2>1. CASE x \in evicted
    BY <1>1, <2>1 DEF Traced, Spared, Evictable
  <2>2. CASE x \notin evicted
    BY <1>1, <2>2 DEF Traced, Spared
  <2> QED
    BY <2>1, <2>2
<1> QED
  BY <1>2, <1>3, <1>4

(* A call that is alone elsewhere, and keeps its directory, finds it as it  *)
(* left it.                                                                 *)
LEMMA OthersSpared ==
  ASSUME BundleInv, NEW o \in Calls, Alone(o), call'[o] = call[o],
         Spared(Dir[call[o].of])
  PROVE  /\ Dir[call[o].of] \in Directories /\ call[o].of \in Bundles
         /\ Kept(o)' => Kept(o) /\ disk'[Dir[call[o].of]] = disk[Dir[call[o].of]]
         /\ "republished" \notin raced'[Dir[call[o].of]] => "republished" \notin raced[Dir[call[o].of]]
<1>1. call[o].of \in Bundles /\ call[o].of \in inUse /\ o \in On(Dir[call[o].of])
  BY DEF BundleInv, CompanyInv, Alone, Busy, On
<1>2. Dir[call[o].of] \in Directories
  BY <1>1 DEF Directories
<1> QED
  BY <1>1, <1>2 DEF Spared, Kept, Plain

(* A step of a call and does not take up another bundle: what is left is to *)
(* say what it makes of its own directory.  The other calls that are alone  *)
(* find theirs as they left it.                                             *)
LEMMA CallKeeps ==
  ASSUME BundleInv, NEW c \in Calls, Busy(c), NEW entry \in Recorded,
         NEW d, d = Dir[call[c].of],
         call' = [call EXCEPT ![c] = entry],
         entry.at # "idle" => /\ entry.of = call[c].of /\ entry.alone = call[c].alone
                              /\ inUse' = inUse,
         inUse' = inUse \/ inUse' = inUse \ {call[c].of},
         tag' = tag,
         disk' \in [Directories -> Directory],
         raced' \in [Directories -> Traces],
         \A x \in Directories \ {d} : Spared(x),
         raced'[d] = raced[d] \/ (~call[c].alone => "shared" \in raced'[d]),
         Alone(c) /\ entry.at # "idle" /\ Kept(c)' => Pulls(entry, disk'[d]),
         Alone(c) /\ entry.at # "idle" /\ Kept(c)' /\ "republished" \notin raced'[d] =>
           Agrees(entry, disk'[d], Named(call[c].of)),
         call[c].alone /\ raced'[d] = {} => MarkedRight(disk'[d])
  PROVE  BundleInv'
<1>1. BundleTypes /\ CompanyInv /\ call[c].of \in Bundles /\ d \in Directories
  BY DEF BundleInv, CompanyInv, Directories
<1>2. BundleTypes'
  BY <1>1 DEF BundleTypes
<1>3. \A o \in Calls : call'[o] = IF o = c THEN entry ELSE call[o]
  BY <1>1 DEF BundleTypes
<1>4. ~call[c].alone => "shared" \in raced'[d]
  BY <1>1 DEF CompanyInv
<1>5. ASSUME NEW o \in Calls \ {c}, Busy(o)
      PROVE  call[o].of \in Bundles /\ Dir[call[o].of] \in Directories
  BY <1>1, <1>5 DEF CompanyInv, Directories
<1>6. ASSUME NEW o \in Calls \ {c}, Alone(o)
      PROVE  Dir[call[o].of] # d /\ call[o].of # call[c].of /\ call[o].of \in inUse
  BY <1>1, <1>6 DEF CompanyInv, Alone
<1>7. CompanyInv'
  <2> SUFFICES ASSUME NEW o \in Calls
               PROVE  /\ Busy(o)' => call'[o].of \in Bundles
                      /\ Alone(o)' => /\ call'[o].of \in inUse'
                                     /\ \A p \in Calls \ {o} :
                                          Busy(p)' => Dir[call'[p].of] # Dir[call'[o].of]
                      /\ Busy(o)' /\ ~call'[o].alone => "shared" \in raced'[Dir[call'[o].of]]
    BY DEF CompanyInv
  <2>1. CASE o = c
    BY <1>1, <1>3, <1>4, <2>1 DEF CompanyInv, Busy, Alone
  <2>2. CASE o # c
    <3>1. (Busy(o)' <=> Busy(o)) /\ (Alone(o)' <=> Alone(o)) /\ call'[o] = call[o]
      BY <1>3, <2>2 DEF Busy, Alone
    <3>2. Busy(o)' => call'[o].of \in Bundles
      BY <1>5, <2>2, <3>1
    <3>3. Alone(o)' => call'[o].of \in inUse'
      BY <1>6, <2>2, <3>1
    <3>4. ASSUME Alone(o)', NEW p \in Calls \ {o}, Busy(p)'
          PROVE  Dir[call'[p].of] # Dir[call'[o].of]
      BY <1>1, <1>3, <1>6, <2>2, <3>1, <3>4 DEF CompanyInv, Busy
    <3>5. ASSUME Busy(o)', ~call'[o].alone PROVE "shared" \in raced'[Dir[call'[o].of]]
      <4>1. "shared" \in raced[Dir[call[o].of]]
        BY <1>1, <3>1, <3>5 DEF CompanyInv
      <4> QED
        BY <1>1, <1>4, <1>5, <2>2, <3>1, <3>5, <4>1 DEF Spared, CompanyInv, Alone
    <3> QED
      BY <3>2, <3>3, <3>4, <3>5
  <2> QED
    BY <2>1, <2>2
<1>8. ASSUME NEW o \in Calls \ {c}, Alone(o)'
      PROVE  Alone(o) /\ call'[o] = call[o] /\ Spared(Dir[call[o].of])
  <2>1. Alone(o) /\ call'[o] = call[o]
    BY <1>3, <1>8 DEF Alone, Busy
  <2> QED
    BY <1>5, <1>6, <2>1 DEF Alone
<1>9. Alone(c)' => Alone(c) /\ entry.at # "idle" /\ call'[c] = entry /\ entry.of = call[c].of
  BY <1>3 DEF Alone, Busy
<1>10. PullInv'
  <2> SUFFICES ASSUME NEW o \in Calls, Alone(o)', Kept(o)'
               PROVE  Pulls(call'[o], disk'[Dir[call'[o].of]])
    BY DEF PullInv, Pulls
  <2>1. CASE o = c
    BY <1>9, <2>1
  <2>2. CASE o # c
    BY <1>8, <2>2, OthersSpared DEF BundleInv, PullInv
  <2> QED
    BY <2>1, <2>2
<1>11. \A b : Named(b)' = Named(b)
  BY DEF Named
<1>12. FreshInv'
  <2> SUFFICES ASSUME NEW o \in Calls, Fresh(o)'
               PROVE  Agrees(call'[o], disk'[Dir[call'[o].of]], Named(call'[o].of))
    BY <1>11 DEF FreshInv, Agrees
  <2>1. CASE o = c
    BY <1>9, <2>1 DEF Fresh
  <2>2. CASE o # c
    BY <1>8, <2>2, OthersSpared DEF BundleInv, FreshInv, Fresh
  <2> QED
    BY <2>1, <2>2
<1>13. MarkerInv'
  <2> SUFFICES ASSUME NEW x \in Directories, raced'[x] = {} PROVE MarkedRight(disk'[x])
    BY DEF MarkerInv, MarkedRight
  <2>1. CASE x = d
    BY <1>4, <2>1
  <2>2. CASE x # d
    BY <2>2, BareDirectory DEF BundleInv, MarkerInv, MarkedRight, Spared
  <2> QED
    BY <2>1, <2>2
<1> QED
  BY <1>2, <1>7, <1>10, <1>12, <1>13 DEF BundleInv

(* What the steps of a call start from.                                     *)
LEMMA OnItsWay ==
  ASSUME BundleInv, NEW c \in Calls, Busy(c)
  PROVE  /\ BundleTypes /\ call[c].of \in Bundles /\ Dir[call[c].of] \in Directories
         /\ call[c] \in Recorded /\ disk[Dir[call[c].of]] \in Directory
         /\ Named(call[c].of) \in Contents \ {None}
         /\ Alone(c) /\ Kept(c) => Pulls(call[c], disk[Dir[call[c].of]])
         /\ Fresh(c) => Agrees(call[c], disk[Dir[call[c].of]], Named(call[c].of))
         /\ raced[Dir[call[c].of]] = {} => MarkedRight(disk[Dir[call[c].of]]) /\ Kept(c)
<1>1. BundleTypes /\ call[c].of \in Bundles
  BY DEF BundleInv, CompanyInv
<1>2. Dir[call[c].of] \in Directories /\ Named(call[c].of) \in Contents \ {None}
  BY <1>1, NamedContents
<1> QED
  BY <1>1, <1>2 DEF BundleInv, BundleTypes, PullInv, FreshInv, MarkerInv, Kept

(* A call that asks the registry: an answer is what the tag names.          *)
LEMMA ResolveKeeps ==
  ASSUME BundleInv, NEW c \in Calls, Resolve(c)
  PROVE  BundleInv'
<1> DEFINE b == call[c].of
           d == Dir[b]
<1>1. Busy(c) /\ call[c].at = "resolving" /\ tag' = tag /\ inUse' = inUse
  BY DEF Resolve, Busy
<1>2. /\ BundleTypes /\ b \in Bundles /\ d \in Directories /\ call[c] \in Recorded
      /\ Named(b) \in Contents \ {None} /\ b = call[c].of /\ d = Dir[b]
      /\ Alone(c) /\ Kept(c) => ~call[c].pulled
      /\ raced[d] = {} => MarkedRight(disk[d])
  BY <1>1, OnItsWay DEF Pulls
<1>3. PICK r \in {None, Named(b)} :
        IF r = None \/ disk[d].marker \in {None, r}
        THEN /\ call' = [call EXCEPT ![c].at = "verifying", ![c].remote = r]
             /\ UNCHANGED <<disk, raced>>
        ELSE /\ call' = [call EXCEPT ![c].at = "pulling", ![c].remote = r]
             /\ MakeRoom(c, d, inUse)
  BY DEF Resolve
<1>4. r \in Contents
  BY <1>2, <1>3, BareDirectory
<1> HIDE DEF b, d
<1>5. CASE r = None \/ disk[d].marker \in {None, r}
  <2> DEFINE entry == [call[c] EXCEPT !.at = "verifying", !.remote = r]
  <2>1. /\ entry \in Recorded /\ entry.at = "verifying" /\ entry.of = b /\ entry.alone = call[c].alone
        /\ entry.pulled = call[c].pulled
    BY <1>2, <1>4 DEF Recorded
  <2>2. call' = [call EXCEPT ![c] = entry] /\ disk' = disk /\ raced' = raced
    BY <1>2, <1>3, <1>5 DEF BundleTypes
  <2>3. call'[c].of = b
    BY <1>2, <2>1, <2>2 DEF BundleTypes
  <2>4. Alone(c) /\ Kept(c)' => Pulls(entry, disk'[d])
    BY <1>2, <2>1, <2>2, <2>3 DEF Pulls, Kept
  <2>5. Agrees(entry, disk'[d], Named(b))
    BY <2>1 DEF Agrees
  <2>6. \A x \in Directories \ {d} : Spared(x)
    BY <2>2 DEF Spared
  <2> HIDE DEF entry
  <2> QED
    BY <1>1, <1>2, <2>1, <2>2, <2>4, <2>5, <2>6, CallKeeps DEF BundleTypes
<1>6. CASE ~(r = None \/ disk[d].marker \in {None, r})
  <2> DEFINE entry == [call[c] EXCEPT !.at = "pulling", !.remote = r]
  <2>1. /\ entry \in Recorded /\ entry.at = "pulling" /\ entry.of = b /\ entry.alone = call[c].alone
        /\ entry.remote = r
    BY <1>2, <1>4 DEF Recorded
  <2>2. call' = [call EXCEPT ![c] = entry] /\ call'[c] = entry /\ MakeRoom(c, d, inUse)
    BY <1>2, <1>3, <1>6 DEF BundleTypes
  <2> HIDE DEF entry
  <2>3. /\ disk' \in [Directories -> Directory]
        /\ raced' \in [Directories -> Traces]
        /\ disk'[d] = Bare
        /\ \A x \in Directories \ {d} : Spared(x)
        /\ ~call[c].alone => "shared" \in raced'[d]
    BY <1>2, <2>1, <2>2, RoomMade
  <2>4. Pulls(entry, disk'[d])
    BY <2>1, <2>3, BareDirectory DEF Pulls
  <2>5. Agrees(entry, disk'[d], Named(b))
    BY <1>3, <2>1 DEF Agrees
  <2>6. MarkedRight(disk'[d])
    BY <2>3, BareDirectory DEF MarkedRight
  <2> QED
    BY <1>1, <1>2, <2>1, <2>2, <2>3, <2>4, <2>5, <2>6, CallKeeps
<1> QED
  BY <1>5, <1>6

(* oras pull, file by file.                                                 *)
LEMMA PullHeadKeeps ==
  ASSUME BundleInv, NEW c \in Calls, PullHead(c)
  PROVE  BundleInv'
<1> DEFINE b == call[c].of
           d == Dir[b]
           entry == [call[c] EXCEPT !.at = "filling", !.pulling = Named(b)]
<1>1. /\ Busy(c) /\ call[c].at = "pulling"
      /\ tag' = tag /\ inUse' = inUse /\ raced' = raced
  BY DEF PullHead, Busy
<1>2. /\ BundleTypes /\ b \in Bundles /\ d \in Directories /\ call[c] \in Recorded
      /\ disk[d] \in Directory /\ Named(b) \in Contents \ {None} /\ b = call[c].of /\ d = Dir[b]
      /\ Alone(c) /\ Kept(c) => disk[d].marker = None
      /\ Fresh(c) => call[c].remote \in {None, Named(b)}
      /\ raced[d] = {} => Kept(c)
  BY <1>1, OnItsWay DEF Pulls, Agrees
<1>3. /\ entry \in Recorded /\ entry.at = "filling" /\ entry.of = b /\ entry.alone = call[c].alone
      /\ entry.remote = call[c].remote /\ entry.pulling = Named(b)
  BY <1>2 DEF Recorded
<1>4. call' = [call EXCEPT ![c] = entry] /\ disk' = [disk EXCEPT ![d].head = Named(b)]
  BY <1>2 DEF BundleTypes, PullHead
<1> HIDE DEF b, d, entry
<1>5. /\ disk' \in [Directories -> Directory] /\ disk'[d].head = Named(b)
      /\ disk'[d].marker = disk[d].marker
      /\ \A x \in Directories \ {d} : disk'[x] = disk[x]
  BY <1>2, <1>4 DEF BundleTypes, Directory
<1>6. (Kept(c)' <=> Kept(c)) /\ (call[c].alone <=> Alone(c))
  BY <1>1, <1>2, <1>3, <1>4 DEF Kept, Alone, BundleTypes
<1>7. Alone(c) /\ Kept(c) => Pulls(entry, disk'[d]) /\ MarkedRight(disk'[d])
  BY <1>2, <1>3, <1>5 DEF Pulls, MarkedRight
<1>8. Alone(c) /\ Kept(c) /\ "republished" \notin raced[d] => Agrees(entry, disk'[d], Named(b))
  BY <1>2, <1>3 DEF Fresh, Agrees
<1>9. \A x \in Directories \ {d} : Spared(x)
  BY <1>1, <1>5 DEF Spared
<1>10. raced' \in [Directories -> Traces]
  BY <1>1, <1>2 DEF BundleTypes
<1>11. call[c].alone /\ raced'[d] = {} => MarkedRight(disk'[d])
  BY <1>1, <1>2, <1>6, <1>7
<1>12. /\ Alone(c) /\ Kept(c)' => Pulls(entry, disk'[d])
       /\ Alone(c) /\ Kept(c)' /\ "republished" \notin raced'[d] => Agrees(entry, disk'[d], Named(b))
  BY <1>1, <1>6, <1>7, <1>8
<1>13. raced'[d] = raced[d] /\ inUse' = inUse /\ tag' = tag /\ d = Dir[call[c].of] /\ b = call[c].of
  BY <1>1, <1>2
<1>14. entry.at # "idle" => entry.of = call[c].of /\ entry.alone = call[c].alone /\ inUse' = inUse
  BY <1>2, <1>3, <1>13
<1>15. call' = [call EXCEPT ![c] = entry] /\ disk' \in [Directories -> Directory]
  BY <1>4, <1>5
<1> QED
  BY <1>1, <1>3, <1>9, <1>10, <1>11, <1>12, <1>13, <1>14, <1>15, CallKeeps

(* The other files are of the content that the first ones were of.          *)
LEMMA PullTailKeeps ==
  ASSUME BundleInv, NEW c \in Calls, PullTail(c)
  PROVE  BundleInv'
<1> DEFINE b == call[c].of
           d == Dir[b]
           entry == [call[c] EXCEPT !.at = "stamping", !.pulling = None, !.pulled = TRUE]
<1>1. /\ Busy(c) /\ call[c].at = "filling"
      /\ tag' = tag /\ inUse' = inUse /\ raced' = raced
  BY DEF PullTail, Busy
<1>2. /\ BundleTypes /\ b \in Bundles /\ d \in Directories /\ call[c] \in Recorded
      /\ disk[d] \in Directory /\ call[c].pulling \in Contents /\ b = call[c].of /\ d = Dir[b]
      /\ Alone(c) /\ Kept(c) => disk[d].marker = None /\ disk[d].head = call[c].pulling /\ disk[d].head # None
      /\ Fresh(c) => call[c].remote \in {None, Named(b)} /\ call[c].pulling = Named(b)
      /\ raced[d] = {} => Kept(c)
  BY <1>1, OnItsWay DEF Pulls, Agrees, Recorded
<1>3. /\ entry \in Recorded /\ entry.at = "stamping" /\ entry.of = b /\ entry.alone = call[c].alone
      /\ entry.remote = call[c].remote
  BY <1>2, BareDirectory DEF Recorded
<1>4. call' = [call EXCEPT ![c] = entry] /\ disk' = [disk EXCEPT ![d].tail = call[c].pulling]
  BY <1>2 DEF BundleTypes, PullTail
<1> HIDE DEF b, d, entry
<1>5. /\ disk' \in [Directories -> Directory] /\ disk'[d].head = disk[d].head
      /\ disk'[d].tail = call[c].pulling /\ disk'[d].marker = disk[d].marker
      /\ \A x \in Directories \ {d} : disk'[x] = disk[x]
  BY <1>2, <1>4 DEF BundleTypes, Directory
<1>6. (Kept(c)' <=> Kept(c)) /\ (call[c].alone <=> Alone(c))
  BY <1>1, <1>2, <1>3, <1>4 DEF Kept, Alone, BundleTypes
<1>7. Alone(c) /\ Kept(c) => Pulls(entry, disk'[d]) /\ MarkedRight(disk'[d])
  BY <1>2, <1>3, <1>5 DEF Pulls, MarkedRight, Whole
<1>8. Alone(c) /\ Kept(c) /\ "republished" \notin raced[d] => Agrees(entry, disk'[d], Named(b))
  BY <1>2, <1>3, <1>5 DEF Fresh, Agrees
<1>9. \A x \in Directories \ {d} : Spared(x)
  BY <1>1, <1>5 DEF Spared
<1> QED
  BY <1>1, <1>2, <1>3, <1>4, <1>5, <1>6, <1>7, <1>8, <1>9, CallKeeps DEF BundleTypes

(* The marker: the digest asked for before the pull, or asked for only now, *)
(* is that of the files, unless the tag was pushed again meanwhile.         *)
LEMMA StampKeeps ==
  ASSUME BundleInv, NEW c \in Calls, Stamp(c)
  PROVE  BundleInv'
<1> DEFINE b == call[c].of
           d == Dir[b]
<1>1. /\ Busy(c) /\ call[c].at = "stamping"
      /\ tag' = tag /\ inUse' = inUse /\ raced' = raced
  BY DEF Stamp, Busy
<1>2. /\ BundleTypes /\ b \in Bundles /\ d \in Directories /\ call[c] \in Recorded
      /\ disk[d] \in Directory /\ Named(b) \in Contents \ {None} /\ b = call[c].of /\ d = Dir[b]
      /\ Alone(c) /\ Kept(c) => disk[d].marker = None /\ Whole(disk[d])
      /\ Fresh(c) => call[c].remote \in {None, Named(b)} /\ disk[d].head = Named(b)
      /\ raced[d] = {} => Kept(c)
  BY <1>1, OnItsWay DEF Pulls, Agrees
<1>3. PICK r \in {None, call[c].remote, Named(b)} :
        /\ call[c].remote # None => r = call[c].remote
        /\ \/ disk' = IF r = None THEN disk ELSE [disk EXCEPT ![d].marker = r]
           \/ disk' = disk
        /\ call' = [call EXCEPT ![c].at = "verifying", ![c].remote = r]
  BY DEF Stamp
<1> HIDE DEF b, d
<1>4. r \in Contents
  BY <1>2, <1>3, BareDirectory DEF Recorded
<1> DEFINE entry == [call[c] EXCEPT !.at = "verifying", !.remote = r]
<1>5. /\ entry \in Recorded /\ entry.at = "verifying" /\ entry.of = b /\ entry.alone = call[c].alone
      /\ call' = [call EXCEPT ![c] = entry]
  BY <1>2, <1>3, <1>4 DEF Recorded, BundleTypes
<1> HIDE DEF entry
<1>6. /\ disk' \in [Directories -> Directory] /\ disk'[d].head = disk[d].head
      /\ disk'[d].tail = disk[d].tail /\ disk'[d].marker \in {disk[d].marker, r}
      /\ \A x \in Directories \ {d} : disk'[x] = disk[x]
  BY <1>2, <1>3, <1>4 DEF BundleTypes, Directory
<1>7. (Kept(c)' <=> Kept(c)) /\ (call[c].alone <=> Alone(c))
  BY <1>1, <1>2, <1>5 DEF Kept, Alone, BundleTypes
<1>8. Alone(c) /\ Kept(c) => Pulls(entry, disk'[d])
  BY <1>2, <1>5, <1>6 DEF Pulls, Whole
<1>9. Agrees(entry, disk'[d], Named(b))
  BY <1>5 DEF Agrees
<1>10. ASSUME Alone(c), raced[d] = {} PROVE MarkedRight(disk'[d])
  <2>1. disk[d].head = Named(b) /\ r \in {None, Named(b)} /\ disk[d].marker = None /\ Whole(disk[d])
    BY <1>2, <1>3, <1>10 DEF Fresh
  <2> QED
    BY <1>6, <2>1 DEF MarkedRight, Whole
<1>11. \A x \in Directories \ {d} : Spared(x)
  BY <1>1, <1>6 DEF Spared
<1> QED
  BY <1>1, <1>2, <1>5, <1>6, <1>7, <1>8, <1>9, <1>10, <1>11, CallKeeps DEF BundleTypes

(* A bundle that is refused is removed.                                     *)
LEMMA VerifyKeeps ==
  ASSUME BundleInv, NEW c \in Calls, Verify(c)
  PROVE  BundleInv'
<1> DEFINE b == call[c].of
           d == Dir[b]
<1>1. /\ Busy(c) /\ call[c].at = "verifying"
      /\ tag' = tag /\ inUse' = inUse /\ raced' = raced
  BY DEF Verify, Busy
<1>2. /\ BundleTypes /\ b \in Bundles /\ d \in Directories /\ call[c] \in Recorded
      /\ b = call[c].of /\ d = Dir[b]
      /\ Alone(c) /\ Kept(c) /\ call[c].pulled => Whole(disk[d])
      /\ raced[d] = {} => MarkedRight(disk[d])
  BY <1>1, OnItsWay DEF Pulls
<1> HIDE DEF b, d
<1>3. CASE call' = [call EXCEPT ![c].at = "returning"] /\ disk' = disk
  <2> DEFINE entry == [call[c] EXCEPT !.at = "returning"]
  <2>1. /\ entry \in Recorded /\ entry.at = "returning" /\ entry.of = b
        /\ entry.alone = call[c].alone /\ entry.pulled = call[c].pulled
        /\ call' = [call EXCEPT ![c] = entry]
    BY <1>2, <1>3 DEF Recorded, BundleTypes
  <2> HIDE DEF entry
  <2>2. Kept(c)' <=> Kept(c)
    BY <1>1, <1>2, <2>1 DEF Kept, BundleTypes
  <2>3. Alone(c) /\ Kept(c) => Pulls(entry, disk'[d])
    BY <1>2, <1>3, <2>1 DEF Pulls
  <2>4. Agrees(entry, disk'[d], Named(b))
    BY <2>1 DEF Agrees
  <2>5. \A x \in Directories \ {d} : Spared(x)
    BY <1>1, <1>3 DEF Spared
  <2> QED
    BY <1>1, <1>2, <1>3, <2>1, <2>2, <2>3, <2>4, <2>5, CallKeeps DEF BundleTypes
<1>4. CASE call' = [call EXCEPT ![c].at = "failing"] /\ disk' = [disk EXCEPT ![d] = Bare]
  <2> DEFINE entry == [call[c] EXCEPT !.at = "failing"]
  <2>1. /\ entry \in Recorded /\ entry.at = "failing" /\ entry.of = b
        /\ entry.alone = call[c].alone /\ call' = [call EXCEPT ![c] = entry]
    BY <1>2, <1>4 DEF Recorded, BundleTypes
  <2> HIDE DEF entry
  <2>2. Pulls(entry, disk'[d]) /\ Agrees(entry, disk'[d], Named(b))
    BY <2>1 DEF Pulls, Agrees
  <2>3. /\ disk' \in [Directories -> Directory] /\ disk'[d] = Bare
        /\ \A x \in Directories \ {d} : Spared(x)
    BY <1>1, <1>2, <1>4, BareDirectory DEF BundleTypes, Spared
  <2>4. MarkedRight(disk'[d])
    BY <2>3, BareDirectory DEF MarkedRight
  <2> QED
    BY <1>1, <1>2, <2>1, <2>2, <2>3, <2>4, CallKeeps DEF BundleTypes
<1> QED
  BY <1>3, <1>4 DEF Verify, b, d

(* A pull that fails leaves part of the files, and no marker.               *)
LEMMA PullFailsKeeps ==
  ASSUME BundleInv, NEW c \in Calls, PullFails(c)
  PROVE  BundleInv'
<1> DEFINE d == Dir[call[c].of]
           entry == [call[c] EXCEPT !.at = "failing"]
<1>1. /\ Busy(c) /\ tag' = tag /\ inUse' = inUse /\ raced' = raced /\ disk' = disk
  BY DEF PullFails, Busy
<1>2. /\ BundleTypes /\ d \in Directories /\ call[c] \in Recorded /\ d = Dir[call[c].of]
      /\ raced[d] = {} => MarkedRight(disk[d])
  BY <1>1, OnItsWay
<1>3. /\ entry \in Recorded /\ entry.at = "failing" /\ entry.of = call[c].of
      /\ entry.alone = call[c].alone /\ call' = [call EXCEPT ![c] = entry]
  BY <1>2 DEF Recorded, BundleTypes, PullFails
<1> HIDE DEF d, entry
<1>4. Pulls(entry, disk'[d]) /\ Agrees(entry, disk'[d], Named(call[c].of))
  BY <1>3 DEF Pulls, Agrees
<1>5. \A x \in Directories \ {d} : Spared(x)
  BY <1>1 DEF Spared
<1> QED
  BY <1>1, <1>2, <1>3, <1>4, <1>5, CallKeeps DEF BundleTypes

(* The mark is taken away, and it is only this call's if it is alone.       *)
LEMMA FinishKeeps ==
  ASSUME BundleInv, NEW c \in Calls, Finish(c)
  PROVE  BundleInv'
<1> DEFINE d == Dir[call[c].of]
<1>1. /\ Busy(c) /\ tag' = tag /\ inUse' = inUse \ {call[c].of} /\ raced' = raced /\ disk' = disk
      /\ call' = [call EXCEPT ![c] = NoCall]
  BY DEF Finish, Busy
<1>2. /\ BundleTypes /\ d = Dir[call[c].of]
      /\ raced[d] = {} => MarkedRight(disk[d])
  BY <1>1, OnItsWay
<1> HIDE DEF d
<1>3. \A x \in Directories \ {d} : Spared(x)
  BY <1>1 DEF Spared
<1> QED
  BY <1>1, <1>2, <1>3, BareDirectory, CallKeeps DEF BundleTypes

(* A call that begins: whoever is on its directory is no longer alone, and  *)
(* neither is it.                                                           *)
LEMMA BeginKeeps ==
  ASSUME BundleInv, NEW c \in Calls, NEW b \in Bundles, Begin(c, b)
  PROVE  BundleInv'
<1> DEFINE d == Dir[b]
           at == IF disk[d].head # None THEN "resolving" ELSE "pulling"
           entry == [NoCall EXCEPT !.at = at, !.of = b, !.alone = On(d) = {}]
<1>1. /\ BundleTypes /\ call[c].at = "idle" /\ tag' = tag /\ inUse' = inUse \cup {b}
      /\ Join(c, b, at) /\ d \in Directories /\ d = Dir[b]
  BY NamedContents DEF BundleInv, Begin, Marked
<1>2. /\ entry \in Recorded /\ entry.at \in {"resolving", "pulling"} /\ entry.of = b
      /\ entry.alone = (On(d) = {}) /\ entry.remote = None /\ ~entry.pulled
  BY BareDirectory DEF NoCall, Recorded
<1>3. call'[c] = entry
  BY <1>1 DEF Join
<1>4. /\ disk[d].head # None => /\ raced' = [raced EXCEPT ![d] = @ \cup {x \in {"shared"} : ~entry.alone}]
                               /\ disk' = disk /\ entry.at = "resolving"
      /\ disk[d].head = None => MakeRoom(c, d, inUse \cup {b}) /\ entry.at = "pulling"
  BY <1>1, <1>3 DEF Begin, Marked, NoCall
<1> HIDE DEF d, at, entry
<1>5. ASSUME NEW o \in Calls \ {c}
      PROVE  IF o \in On(d) THEN call'[o] = [call[o] EXCEPT !.alone = FALSE] ELSE call'[o] = call[o]
  BY <1>1 DEF Join
<1>6. ASSUME NEW o \in Calls \ {c}
      PROVE  /\ call'[o] \in Recorded /\ call'[o].at = call[o].at /\ call'[o].of = call[o].of
             /\ call'[o].alone = (call[o].alone /\ o \notin On(d))
  <2>1. call[o] \in Recorded
    BY <1>1 DEF BundleTypes
  <2> QED
    BY <1>5, <2>1 DEF Recorded
<1>7. call' \in [Calls -> Recorded]
  <2>1. call' = [o \in Calls |-> call'[o]]
    BY <1>1 DEF Join
  <2> QED
    BY <1>2, <1>3, <1>6, <2>1
<1>8. /\ disk' \in [Directories -> Directory]
      /\ raced' \in [Directories -> Traces]
      /\ \A x \in Directories \ {d} : Spared(x)
      /\ ~entry.alone => "shared" \in raced'[d]
      /\ entry.at = "resolving" => disk'[d] = disk[d] /\ (raced'[d] = {} => raced[d] = {})
      /\ entry.at = "pulling" => disk'[d] = Bare
  <2>1. CASE disk[d].head # None
    BY <1>1, <1>4, <2>1 DEF BundleTypes, Traces, Spared
  <2>2. CASE disk[d].head = None
    BY <1>1, <1>3, <1>4, <2>2, RoomMade
  <2> QED
    BY <2>1, <2>2
<1>9. BundleTypes'
  BY <1>1, <1>7, <1>8 DEF BundleTypes
<1>10. ASSUME NEW o \in Calls \ {c}, Alone(o)'
      PROVE  /\ Alone(o) /\ call'[o] = call[o] /\ Dir[call[o].of] \in Directories \ {d}
             /\ Spared(Dir[call[o].of]) /\ call[o].of \in inUse
  <2>1. Alone(o) /\ call'[o] = call[o] /\ o \notin On(d)
    BY <1>5, <1>6, <1>10 DEF Alone, Busy
  <2>2. call[o].of \in Bundles /\ call[o].of \in inUse
    BY <2>1 DEF BundleInv, CompanyInv, Alone
  <2>3. Dir[call[o].of] \in Directories \ {d}
    BY <2>1, <2>2 DEF On, Alone, Busy, Directories
  <2> QED
    BY <1>8, <2>1, <2>2, <2>3
<1>11. CompanyInv'
  <2> SUFFICES ASSUME NEW o \in Calls
               PROVE  /\ Busy(o)' => call'[o].of \in Bundles
                      /\ Alone(o)' => /\ call'[o].of \in inUse'
                                     /\ \A p \in Calls \ {o} :
                                          Busy(p)' => Dir[call'[p].of] # Dir[call'[o].of]
                      /\ Busy(o)' /\ ~call'[o].alone => "shared" \in raced'[Dir[call'[o].of]]
    BY DEF CompanyInv
  <2>1. CASE o = c
    <3>1. entry.alone => \A p \in Calls : Busy(p) => Dir[call[p].of] # d
      BY <1>2 DEF On, Busy
    <3> QED
      BY <1>1, <1>2, <1>3, <1>6, <1>8, <2>1, <3>1 DEF Busy, Alone
  <2>2. CASE o # c
    <3>1. Busy(o)' => Busy(o) /\ call'[o].of \in Bundles
      BY <1>6, <2>2 DEF BundleInv, CompanyInv, Busy
    <3>2. Alone(o)' => call'[o].of \in inUse'
      BY <1>1, <1>10, <2>2
    <3>3. ASSUME Alone(o)', NEW p \in Calls \ {o}, Busy(p)' PROVE Dir[call'[p].of] # Dir[call'[o].of]
      <4>1. CASE p = c
        BY <1>1, <1>2, <1>3, <1>10, <2>2, <3>3, <4>1
      <4>2. CASE p # c
        BY <1>6, <1>10, <2>2, <3>3, <4>2 DEF BundleInv, CompanyInv, Busy
      <4> QED
        BY <4>1, <4>2
    <3>4. ASSUME Busy(o)', ~call'[o].alone PROVE "shared" \in raced'[Dir[call'[o].of]]
      <4>1. CASE o \in On(d)
        BY <1>2, <1>6, <1>8, <2>2, <4>1 DEF On
      <4>2. CASE o \notin On(d)
        <5>1. Busy(o) /\ ~call[o].alone /\ call'[o].of = call[o].of /\ Dir[call[o].of] # d
          BY <1>6, <2>2, <3>1, <3>4, <4>2 DEF On, Busy
        <5>2. "shared" \in raced[Dir[call[o].of]] /\ Dir[call[o].of] \in Directories \ {d}
          BY <5>1 DEF BundleInv, CompanyInv, Directories
        <5> QED
          BY <1>8, <5>1, <5>2 DEF Spared
      <4> QED
        BY <4>1, <4>2
    <3> QED
      BY <3>1, <3>2, <3>3, <3>4
  <2> QED
    BY <2>1, <2>2
<1>12. Pulls(entry, disk'[d]) /\ Agrees(entry, disk'[d], Named(b)) /\ \A k : Named(k)' = Named(k)
  BY <1>1, <1>2, <1>8, BareDirectory DEF Pulls, Agrees, Named
<1>13. PullInv'
  <2> SUFFICES ASSUME NEW o \in Calls, Alone(o)', Kept(o)'
               PROVE  Pulls(call'[o], disk'[Dir[call'[o].of]])
    BY DEF PullInv, Pulls
  <2>1. CASE o = c
    BY <1>1, <1>2, <1>3, <1>12, <2>1
  <2>2. CASE o # c
    BY <1>10, <2>2, OthersSpared DEF BundleInv, PullInv
  <2> QED
    BY <2>1, <2>2
<1>14. FreshInv'
  <2> SUFFICES ASSUME NEW o \in Calls, Fresh(o)'
               PROVE  Agrees(call'[o], disk'[Dir[call'[o].of]], Named(call'[o].of))
    BY <1>12 DEF FreshInv, Agrees
  <2>1. CASE o = c
    BY <1>1, <1>2, <1>3, <1>12, <2>1
  <2>2. CASE o # c
    BY <1>10, <2>2, OthersSpared DEF BundleInv, FreshInv, Fresh
  <2> QED
    BY <2>1, <2>2
<1>15. MarkerInv'
  <2> SUFFICES ASSUME NEW x \in Directories, raced'[x] = {} PROVE MarkedRight(disk'[x])
    BY DEF MarkerInv, MarkedRight
  <2>1. CASE x = d
    BY <1>2, <1>8, <2>1, BareDirectory DEF BundleInv, MarkerInv, MarkedRight
  <2>2. CASE x # d
    BY <1>8, <2>2, BareDirectory DEF BundleInv, MarkerInv, MarkedRight, Spared
  <2> QED
    BY <2>1, <2>2
<1> QED
  BY <1>9, <1>11, <1>13, <1>14, <1>15 DEF BundleInv

(* A tag that is pushed again while its bundle is pulled is noted.          *)
LEMMA RepublishKeeps ==
  ASSUME BundleInv, NEW b \in Bundles, Republish(b)
  PROVE  BundleInv'
<1>1. BundleTypes /\ disk' = disk /\ inUse' = inUse /\ call' = call /\ tag' = [tag EXCEPT ![b] = @ + 1]
  BY DEF BundleInv, Republish
<1>2. /\ raced' \in [Directories -> Traces]
      /\ \A x \in Directories : raced'[x] = raced[x] \/ raced'[x] = raced[x] \cup {"republished"}
  BY <1>1 DEF BundleTypes, Republish, Traces
<1>3. ASSUME NEW c \in Calls, Busy(c), "republished" \notin raced'[Dir[call[c].of]],
             call[c].at \in {"pulling", "filling", "stamping"}
      PROVE  Named(call[c].of)' = Named(call[c].of)
  <2>1. call[c].of \in Bundles /\ Dir[call[c].of] \in Directories
    BY <1>3, OnItsWay
  <2>2. call[c].of # b
    BY <1>1, <1>3, <2>1 DEF Republish, BundleTypes
  <2> QED
    BY <1>1, <2>1, <2>2 DEF Named, BundleTypes
<1>4. BundleTypes'
  <2>1. tag[b] \in Nat
    BY <1>1 DEF BundleTypes
  <2>2. tag[b] + 1 \in Nat \ {0}
    BY <2>1
  <2>3. tag' \in [Bundles -> Nat \ {0}]
    BY <1>1, <2>2 DEF BundleTypes
  <2> QED
    BY <1>1, <1>2, <2>3 DEF BundleTypes
<1>5. ASSUME NEW c \in Calls, Alone(c)'
      PROVE  /\ Alone(c) /\ Busy(c) /\ Dir[call[c].of] \in Directories
             /\ Kept(c)' => Kept(c)
             /\ "republished" \notin raced'[Dir[call[c].of]] => "republished" \notin raced[Dir[call[c].of]]
  <2>1. Alone(c) /\ Busy(c)
    BY <1>1, <1>5 DEF Alone, Busy
  <2>2. Dir[call[c].of] \in Directories
    BY <2>1, OnItsWay
  <2> DEFINE d == Dir[call[c].of]
  <2>3. raced'[d] = raced[d] \/ raced'[d] = raced[d] \cup {"republished"}
    BY <1>2, <2>2
  <2>4. "evicted" \in raced[d] => "evicted" \in raced'[d]
    BY <2>3
  <2>5. "republished" \notin raced'[d] => "republished" \notin raced[d]
    BY <2>3
  <2> QED
    BY <1>1, <2>1, <2>2, <2>4, <2>5 DEF Kept
<1>6. CompanyInv'
  <2>1. \A c \in Calls : Busy(c) => Dir[call[c].of] \in Directories
    BY OnItsWay
  <2>2. \A x \in Directories : "shared" \in raced[x] => "shared" \in raced'[x]
    BY <1>2
  <2> QED
    BY <1>1, <2>1, <2>2 DEF BundleInv, CompanyInv, Busy, Alone
<1>7. PullInv'
  BY <1>1, <1>2, <1>5 DEF BundleInv, PullInv, Kept
<1>8. FreshInv'
  <2> SUFFICES ASSUME NEW c \in Calls, Fresh(c)'
               PROVE  Agrees(call[c], disk[Dir[call[c].of]], Named(call[c].of)')
    BY <1>1 DEF FreshInv, Agrees
  <2>1. Alone(c)' /\ Kept(c)' /\ "republished" \notin raced'[Dir[call[c].of]]
    BY <1>1 DEF Fresh
  <2>2. Busy(c) /\ Agrees(call[c], disk[Dir[call[c].of]], Named(call[c].of))
    BY <1>2, <1>5, <2>1 DEF BundleInv, FreshInv, Fresh, Kept
  <2> QED
    BY <1>3, <2>1, <2>2 DEF Agrees
<1>9. MarkerInv'
  <2> SUFFICES ASSUME NEW x \in Directories, raced'[x] = {} PROVE MarkedRight(disk[x])
    BY <1>1 DEF MarkerInv, MarkedRight
  <2> QED
    BY <1>2 DEF BundleInv, MarkerInv
<1> QED
  BY <1>4, <1>6, <1>7, <1>8, <1>9 DEF BundleInv

(* The invariant is inductive.                                              *)
LEMMA NextBundles == ASSUME BundleInv, [Next]_vars PROVE BundleInv'
<1>1. ASSUME NEW c \in Calls, NEW b \in Bundles, Begin(c, b)
      PROVE  BundleInv'
  BY <1>1, BeginKeeps
<1>2. ASSUME NEW c \in Calls, Resolve(c)
      PROVE  BundleInv'
  BY <1>2, ResolveKeeps
<1>3. ASSUME NEW c \in Calls, PullHead(c)
      PROVE  BundleInv'
  BY <1>3, PullHeadKeeps
<1>4. ASSUME NEW c \in Calls, PullTail(c)
      PROVE  BundleInv'
  BY <1>4, PullTailKeeps
<1>5. ASSUME NEW c \in Calls, Stamp(c)
      PROVE  BundleInv'
  BY <1>5, StampKeeps
<1>6. ASSUME NEW c \in Calls, Verify(c)
      PROVE  BundleInv'
  BY <1>6, VerifyKeeps
<1>7. ASSUME NEW c \in Calls, PullFails(c)
      PROVE  BundleInv'
  BY <1>7, PullFailsKeeps
<1>8. ASSUME NEW c \in Calls, Finish(c)
      PROVE  BundleInv'
  BY <1>8, FinishKeeps
<1>9. ASSUME NEW b \in Bundles, Republish(b)
      PROVE  BundleInv'
  BY <1>9, RepublishKeeps
<1>10. CASE Crash
  <2>1. /\ call' = [c \in Calls |-> NoCall] /\ inUse' = {} /\ tag' = tag /\ disk' = disk
        /\ raced' = raced
    BY <1>10 DEF Crash
  <2>2. \A c \in Calls : ~Busy(c)'
    BY <2>1, BareDirectory DEF Busy
  <2>3. BundleTypes'
    BY <2>1, BareDirectory DEF BundleInv, BundleTypes
  <2> QED
    BY <2>1, <2>2, <2>3 DEF BundleInv, CompanyInv, PullInv, FreshInv, MarkerInv, Fresh, Alone
<1>11. CASE UNCHANGED vars
  BY <1>11 DEF vars, BundleInv, BundleTypes, CompanyInv, PullInv, FreshInv, MarkerInv, Fresh,
     Alone, Busy, Kept, Named
<1> QED
  BY <1>1, <1>2, <1>3, <1>4, <1>5, <1>6, <1>7, <1>8, <1>9, <1>10, <1>11 DEF Next

(* BundlesWhole follows: what a call has pulled is whole, unless it was     *)
(* evicted, and a marker names the files beside it.                         *)
LEMMA BundlesFollow == BundleInv => BundlesWhole
<1> SUFFICES ASSUME BundleInv PROVE BundlesWhole
  OBVIOUS
<1>1. ASSUME NEW c \in Calls, call[c].at = "returning", call[c].pulled, call[c].alone, Kept(c)
      PROVE  Whole(disk[Dir[call[c].of]])
  BY <1>1 DEF BundleInv, PullInv, Pulls, Alone, Busy
<1>2. ASSUME NEW d \in Directories, disk[d].marker # None, raced[d] = {}
      PROVE  Whole(disk[d]) /\ disk[d].marker = disk[d].head
  BY <1>2 DEF BundleInv, MarkerInv, MarkedRight
<1> QED
  BY <1>1, <1>2 DEF BundlesWhole, Kept

(* A call that pulled a bundle, and was alone on its directory, returns all *)
(* of it - unless the directory's name differs from the key and cleanup     *)
(* evicted it meanwhile; and a directory's marker is the digest of its      *)
(* files unless calls met on it, its tag was pushed again during a pull or  *)
(* it was evicted under a call (bundles.ts, bundle-cache.ts).               *)
THEOREM BundlesWholeHolds == Spec => []BundlesWhole
  BY InitBundles, NextBundles, BundlesFollow, PTL DEF Spec
=============================================================================
