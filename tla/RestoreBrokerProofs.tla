------------------------- MODULE RestoreBrokerProofs -------------------------
(***************************************************************************)
(* A claim of a restore request is exactly-once and the outcome of a       *)
(* request stands, for any requests, calls, restarts and failing accesses. *)
(*                                                                         *)
(* Both rest on the order of things in a request's life.  A record is      *)
(* written "pending" by CreateRequest only, when its job is "creating";    *)
(* until then it is absent and no call names it.  So a record never        *)
(* becomes pending a second time, and the guard of transition, which only  *)
(* a pending record passes, lets one claim through.                        *)
(***************************************************************************)
EXTENDS RestoreBroker, TLAPS

Statuses == Open \cup Terminal \cup {"none"}

(* The part of the types the argument needs. *)
Types ==
  /\ store \in [Requests -> Statuses]
  /\ wait \in [Requests -> Waiting \cup Over \cup {"idle"}]
  /\ claim \in [Claims -> [at : Calling \cup {"idle", "won", "over"}, on : Requests \cup {NoRequest}]]
  /\ report \in [Reports -> [at : Calling \cup {"idle", "over"},
                             on : Requests \cup {NoRequest}, as : {"completed", "failed"}]]
  /\ crashes \in Nat /\ faults \in Nat

Unborn(r) == wait[r] \in {"idle", "creating"}

(* A request whose job has not created it has no record, and no call names  *)
(* it.                                                                      *)
BornOnce ==
  /\ \A r \in Requests : Unborn(r) => store[r] = "none"
  /\ \A k \in Claims, r \in Requests : Unborn(r) => claim[k].on # r
  /\ \A k \in Reports, r \in Requests : Unborn(r) => report[k].on # r

(* A call that is under way names a request. *)
CallsNameRequests ==
  /\ \A k \in Claims : claim[k].at \in Calling \cup {"won"} => claim[k].on \in Requests
  /\ \A k \in Reports : report[k].at \in Calling => report[k].on \in Requests

(* A claimed request is not up for another claim. *)
ClaimedIsTaken == \A k \in Claims, r \in Requests : Won(k, r) => store[r] # "pending"

IInv ==
  /\ Types
  /\ BornOnce
  /\ CallsNameRequests
  /\ faults = 0 => ClaimedIsTaken /\ ClaimedOnce

-----------------------------------------------------------------------------
(* The accesses to the file. *)

(* What a step may do to a record that it does not create, claim or report  *)
(* on: leave it, expire it while it is open, or drop it.                    *)
Tame(q) ==
  \/ store'[q] = store[q]
  \/ store[q] \in Open /\ store'[q] = "expired"
  \/ store'[q] = "none"

(* A read sees the file or nothing. *)
LEMMA SeenIs == \A s \in Seen : s = store \/ s = Empty
  BY DEF Seen

(* An operation that only read leaves the file alone; it is free of faults  *)
(* only if it saw the file.                                                 *)
LEMMA ReadIs ==
  ASSUME Types, NEW s, Read(s)
  PROVE  /\ store' = store /\ faults' \in Nat
         /\ faults' = 0 => faults = 0 /\ s = store
  BY SMT DEF Types, Read

(* An operation that wrote has written or not; without a fault it saw the   *)
(* file and has written.                                                    *)
LEMMA WrittenIs ==
  ASSUME Types, NEW s, NEW new, Written(s, new)
  PROVE  /\ store' = new \/ store' = store
         /\ faults' \in Nat
         /\ faults' = 0 => faults = 0 /\ s = store /\ store' = new
  BY SMT DEF Types, Written

(* get changes at most the record it is asked for, and only to expire it.   *)
LEMMA GetIs ==
  ASSUME Types, NEW s \in Seen, NEW r \in Requests, Get(s, r)
  PROVE  /\ store' \in [Requests -> Statuses] /\ faults' \in Nat
         /\ \A q \in Requests : Tame(q)
         /\ faults' = 0 => faults = 0 /\ s = store
<1>1. CASE Current(s, r) = s[r]
  <2>1. Read(s)
    BY <1>1 DEF Get
  <2> QED
    BY <2>1, ReadIs DEF Types, Tame
<1>2. CASE Current(s, r) # s[r]
  <2>1. s[r] \in Open /\ Current(s, r) = "expired"
    BY <1>2 DEF Current
  <2>2. s = store
    BY <2>1, SeenIs DEF Empty, Open
  <2>3. Written(s, [s EXCEPT ![r] = "expired"])
    BY <1>2, <2>1 DEF Get
  <2>4. store' = [store EXCEPT ![r] = "expired"] \/ store' = store
    BY <2>2, <2>3, WrittenIs
  <2>5. store' \in [Requests -> Statuses] /\ \A q \in Requests : Tame(q)
    BY <2>1, <2>2, <2>4 DEF Types, Tame, Statuses, Terminal
  <2> QED
    BY <2>2, <2>3, <2>5, WrittenIs
<1> QED
  BY <1>1, <1>2

(* Pruning keeps a record or drops it. *)
LEMMA PrunedIs ==
  ASSUME NEW s \in [Requests -> Statuses], NEW anchor
  PROVE  /\ Pruned(s, anchor) \in [Requests -> Statuses]
         /\ \A q \in Requests : Pruned(s, anchor)[q] \in {s[q], "none"}
         /\ \A q \in Requests : s[q] \notin Terminal => Pruned(s, anchor)[q] = s[q]
  BY DEF Pruned, Closed, Statuses

LEMMA EmptyIs == Empty \in [Requests -> Statuses]
  BY DEF Empty, Statuses

(* What each operation of Next does to the file. *)
LEMMA CreateRequestStore ==
  ASSUME Types, NEW r \in Requests, CreateRequest(r)
  PROVE  /\ store' \in [Requests -> Statuses] /\ faults' \in Nat
         /\ \A q \in Requests : q # r => Tame(q)
         /\ store'[r] \in {"pending", store[r]}
         /\ faults' = 0 => faults = 0
<1>1. PICK s \in Seen : \E anchor \in Newest([s EXCEPT ![r] = "pending"]) :
        Written(s, Pruned([s EXCEPT ![r] = "pending"], anchor))
  BY DEF CreateRequest
<1> DEFINE new == [s EXCEPT ![r] = "pending"]
<1>2. PICK anchor : Written(s, Pruned(new, anchor))
  BY <1>1
<1>3. s \in [Requests -> Statuses] /\ \A q \in Requests : s[q] \in {store[q], "none"}
  BY SeenIs, EmptyIs DEF Types, Empty
<1>4. new \in [Requests -> Statuses] /\ new[r] = "pending" /\ \A q \in Requests : q # r => new[q] = s[q]
  BY <1>3 DEF Statuses, Open
<1> DEFINE kept == Pruned(new, anchor)
<1>5. /\ kept \in [Requests -> Statuses]
      /\ \A q \in Requests : kept[q] \in {new[q], "none"}
      /\ kept[r] = "pending"
  <2> HIDE DEF new
  <2>1. "pending" \notin Terminal
    BY DEF Terminal
  <2> QED
    BY <1>4, <2>1, PrunedIs
<1>6. store' = kept \/ store' = store
  BY <1>2, WrittenIs
<1> HIDE DEF kept, new
<1>7. store' \in [Requests -> Statuses]
  BY <1>5, <1>6 DEF Types
<1>8. \A q \in Requests : q # r => Tame(q)
  BY <1>3, <1>4, <1>5, <1>6 DEF Tame
<1>9. store'[r] \in {"pending", store[r]}
  BY <1>5, <1>6
<1>10. faults' \in Nat /\ (faults' = 0 => faults = 0)
  BY <1>2, WrittenIs
<1> QED
  BY <1>7, <1>8, <1>9, <1>10

LEMMA PollStore ==
  ASSUME Types, Poll
  PROVE  /\ store' \in [Requests -> Statuses] /\ faults' \in Nat
         /\ \A q \in Requests : Tame(q)
         /\ faults' = 0 => faults = 0
<1> DEFINE New(s) == [r \in Requests |-> Current(s, r)]
<1>0. PICK s \in Seen : \E anchor \in Newest(New(s)) :
        IF Pruned(New(s), anchor) = s THEN Read(s) ELSE Written(s, Pruned(New(s), anchor))
  BY DEF Poll
<1>1. PICK anchor :
        IF Pruned(New(s), anchor) = s THEN Read(s) ELSE Written(s, Pruned(New(s), anchor))
  BY <1>0
<1>2. s \in [Requests -> Statuses] /\ \A q \in Requests : s[q] \in {store[q], "none"}
  BY SeenIs, EmptyIs DEF Types, Empty
<1>3. /\ New(s) \in [Requests -> Statuses]
      /\ \A q \in Requests : New(s)[q] = s[q] \/ (s[q] \in Open /\ New(s)[q] = "expired")
  BY <1>2 DEF Current, Statuses, Terminal
<1> DEFINE kept == Pruned(New(s), anchor)
<1>4. kept \in [Requests -> Statuses] /\ \A q \in Requests : kept[q] \in {New(s)[q], "none"}
  <2> HIDE DEF New
  <2> QED
    BY <1>3, PrunedIs
<1>5. /\ store' = kept \/ store' = store
      /\ faults' \in Nat /\ (faults' = 0 => faults = 0)
  BY <1>1, ReadIs, WrittenIs
<1> HIDE DEF kept, New
<1>6. store' \in [Requests -> Statuses]
  BY <1>4, <1>5 DEF Types
<1>7. "none" \notin Open
  BY DEF Open
<1>8. \A q \in Requests : Tame(q)
  BY <1>2, <1>3, <1>4, <1>5, <1>7 DEF Tame
<1> QED
  BY <1>5, <1>6, <1>8

(* transition changes its record from the status the guard names only.      *)
LEMMA ClaimDecidesStore ==
  ASSUME Types, NEW k \in Claims, ClaimDecides(k), claim[k].on \in Requests
  PROVE  LET r == claim[k].on IN
         /\ store' \in [Requests -> Statuses] /\ faults' \in Nat
         /\ \A q \in Requests : q # r => store'[q] = store[q]
         /\ store'[r] = store[r] \/ (store[r] = "pending" /\ store'[r] = "claimed")
         /\ faults' = 0 => faults = 0
         /\ \/ claim' = [claim EXCEPT ![k] = ClaimOver] /\ store' = store
            \/ /\ claim' = [claim EXCEPT ![k].at = "won"]
               /\ faults' = 0 => store[r] = "pending" /\ store'[r] = "claimed"
<1> DEFINE r == claim[k].on
<1>1. PICK s \in Seen :
        IF s[r] = "pending"
        THEN Written(s, [s EXCEPT ![r] = "claimed"]) /\ claim' = [claim EXCEPT ![k].at = "won"]
        ELSE Read(s) /\ claim' = [claim EXCEPT ![k] = ClaimOver]
  BY DEF ClaimDecides
<1>2. CASE s[r] = "pending"
  <2>1. s = store
    BY <1>2, SeenIs DEF Empty
  <2>2. Written(store, [store EXCEPT ![r] = "claimed"])
    BY <1>1, <1>2, <2>1
  <2>3. store' = [store EXCEPT ![r] = "claimed"] \/ store' = store
    BY <2>2, WrittenIs
  <2>4. store[r] = "pending"
    BY <1>2, <2>1
  <2>5. faults' \in Nat /\ (faults' = 0 => faults = 0 /\ store' = [store EXCEPT ![r] = "claimed"])
    BY <2>2, WrittenIs
  <2>6. "claimed" \in Statuses
    BY DEF Statuses, Open
  <2> QED
    BY <1>1, <1>2, <2>3, <2>4, <2>5, <2>6 DEF Types
<1>3. CASE s[r] # "pending"
  <2>1. store' = store /\ faults' \in Nat /\ (faults' = 0 => faults = 0)
    BY <1>1, <1>3, ReadIs
  <2> QED
    BY <1>1, <1>3, <2>1 DEF Types
<1> QED
  BY <1>2, <1>3

LEMMA CompleteDecidesStore ==
  ASSUME Types, NEW k \in Reports, CompleteDecides(k), report[k].on \in Requests
  PROVE  LET r == report[k].on IN
         /\ store' \in [Requests -> Statuses] /\ faults' \in Nat
         /\ \A q \in Requests : q # r => store'[q] = store[q]
         /\ store'[r] = store[r] \/ (store[r] = "claimed" /\ store'[r] = report[k].as)
         /\ faults' = 0 => faults = 0
<1> DEFINE r == report[k].on
<1>1. PICK s \in Seen :
        IF s[r] = "claimed" THEN Written(s, [s EXCEPT ![r] = report[k].as]) ELSE Read(s)
  BY DEF CompleteDecides
<1>2. CASE s[r] = "claimed"
  <2>1. s = store
    BY <1>2, SeenIs DEF Empty
  <2>2. Written(store, [store EXCEPT ![r] = report[k].as])
    BY <1>1, <1>2, <2>1
  <2>3. store' = [store EXCEPT ![r] = report[k].as] \/ store' = store
    BY <2>2, WrittenIs
  <2>4. report[k].as \in Statuses
    BY DEF Types, Statuses, Terminal
  <2>5. store[r] = "claimed"
    BY <1>2, <2>1
  <2> QED
    BY <2>2, <2>3, <2>4, <2>5, WrittenIs DEF Types
<1>3. CASE s[r] # "claimed"
  <2>1. store' = store /\ faults' \in Nat /\ (faults' = 0 => faults = 0)
    BY <1>1, <1>3, ReadIs
  <2> QED
    BY <2>1 DEF Types
<1> QED
  BY <1>2, <1>3

-----------------------------------------------------------------------------
(* The invariant is inductive. *)

THEOREM InitIInv == Init => IInv
<1> SUFFICES ASSUME Init PROVE IInv
  OBVIOUS
<1>1. Types
  BY DEF Init, Types, Statuses, Calling
<1>2. BornOnce
  BY BrokerAssumption DEF Init, BornOnce
<1>3. CallsNameRequests
  BY DEF Init, CallsNameRequests, Calling
<1>4. ClaimedIsTaken /\ ClaimedOnce
  BY DEF Init, ClaimedIsTaken, ClaimedOnce, Won
<1> QED
  BY <1>1, <1>2, <1>3, <1>4 DEF IInv

(* A request's record comes into being in no other step than its creation.  *)
NothingBorn ==
  \A q \in Requests :
    /\ Unborn(q)' => Unborn(q)
    /\ store[q] = "none" => store'[q] = "none"
    /\ store'[q] = "pending" => store[q] = "pending"

(* How a call may move that does not win. *)
Moves(now, then) ==
  \/ then = now
  \/ then.at = "over" /\ then.on = NoRequest
  \/ then.at \in Calling /\ then.on \in Requests /\ ~Unborn(then.on)

(* Every step but a creation and a claim that wins keeps the invariant for  *)
(* these reasons.                                                           *)
LEMMA OrdinaryStep ==
  ASSUME IInv, Types', NothingBorn, faults' = 0 => faults = 0,
         \A k \in Claims : Moves(claim[k], claim'[k]),
         \A k \in Reports : Moves(report[k], report'[k])
  PROVE  IInv'
<1>1. BornOnce'
  <2>1. ASSUME NEW r \in Requests, Unborn(r)'
        PROVE  store'[r] = "none"
    BY <2>1 DEF IInv, BornOnce, NothingBorn
  <2>2. ASSUME NEW r \in Requests, Unborn(r)', NEW k \in Claims
        PROVE  claim'[k].on # r
    BY <2>2, BrokerAssumption DEF IInv, BornOnce, NothingBorn, Moves
  <2>3. ASSUME NEW r \in Requests, Unborn(r)', NEW k \in Reports
        PROVE  report'[k].on # r
    BY <2>3, BrokerAssumption DEF IInv, BornOnce, NothingBorn, Moves
  <2> QED
    BY <2>1, <2>2, <2>3 DEF BornOnce
<1>2. CallsNameRequests'
  BY DEF IInv, CallsNameRequests, Moves, Calling
<1>3. ASSUME NEW k \in Claims, NEW r \in Requests, Won(k, r)'
      PROVE  Won(k, r)
  BY <1>3 DEF Won, Moves, Calling
<1>4. (faults = 0 => ClaimedIsTaken /\ ClaimedOnce)'
  <2>1. ASSUME faults' = 0, NEW k \in Claims, NEW r \in Requests, Won(k, r)'
        PROVE  store'[r] # "pending"
    BY <1>3, <2>1 DEF IInv, ClaimedIsTaken, NothingBorn
  <2>2. ASSUME faults' = 0, NEW r \in Requests, NEW k \in Claims, NEW l \in Claims,
               Won(k, r)', Won(l, r)'
        PROVE  k = l
    BY <1>3, <2>2 DEF IInv, ClaimedOnce
  <2> QED
    BY <2>1, <2>2 DEF ClaimedIsTaken, ClaimedOnce
<1> QED
  BY <1>1, <1>2, <1>4 DEF IInv

(* A file that is left alone, or changed as get and pending change it,      *)
(* brings nothing into being.                                               *)
LEMMA TameBearsNothing ==
  ASSUME \A q \in Requests : Tame(q), \A q \in Requests : Unborn(q)' => Unborn(q)
  PROVE  NothingBorn
  BY DEF NothingBorn, Tame, Open

LEMMA StillCall == \A c : Moves(c, c)
  BY DEF Moves

(* The steps that leave the file and the calls alone. *)
LEMMA QuietSteps ==
  ASSUME IInv, NEW r \in Requests,
         RequestRestore(r) \/ CheckProvider(r) \/ Land(r) \/ DeadlinePasses(r)
           \/ RetentionEnds(r) \/ RevokeConsent
  PROVE  IInv'
<1>1. UNCHANGED <<store, claim, report, crashes, faults>>
  BY DEF RequestRestore, CheckProvider, Land, DeadlinePasses, RetentionEnds, RevokeConsent
<1>2. wait' \in [Requests -> Waiting \cup Over \cup {"idle"}]
  BY DEF RequestRestore, CheckProvider, Land, DeadlinePasses, RetentionEnds, RevokeConsent,
         IInv, Types, Waiting, Over
<1>3. \A q \in Requests : Unborn(q)' => Unborn(q)
  BY DEF RequestRestore, CheckProvider, Land, DeadlinePasses, RetentionEnds, RevokeConsent,
         IInv, Types, Unborn
<1>4. Types'
  BY <1>1, <1>2 DEF IInv, Types
<1>5. NothingBorn
  BY <1>1, <1>3 DEF NothingBorn
<1> QED
  BY <1>1, <1>4, <1>5, StillCall, OrdinaryStep

LEMMA AskStep ==
  ASSUME IInv, NEW r \in Requests, Ask(r)
  PROVE  IInv'
<1>1. PICK s \in Seen : Get(s, r) /\ wait' = [wait EXCEPT ![r] = Verdict(Current(s, r))]
  BY DEF Ask
<1>2. /\ store' \in [Requests -> Statuses] /\ faults' \in Nat
      /\ \A q \in Requests : Tame(q)
      /\ faults' = 0 => faults = 0
  BY <1>1, GetIs DEF IInv
<1>3. UNCHANGED <<claim, report, crashes>> /\ wait[r] = "asking"
  BY DEF Ask
<1>4. Verdict(Current(s, r)) \in {"checking", "landing", "failed"}
  BY DEF Verdict
<1>5. wait' \in [Requests -> Waiting \cup Over \cup {"idle"}]
  BY <1>1, <1>4 DEF IInv, Types, Waiting, Over
<1>6. \A q \in Requests : Unborn(q)' => Unborn(q)
  BY <1>1, <1>3, <1>4 DEF IInv, Types, Unborn
<1>7. Types'
  BY <1>2, <1>3, <1>5 DEF IInv, Types
<1>8. NothingBorn
  BY <1>2, <1>6, TameBearsNothing
<1> QED
  BY <1>2, <1>3, <1>7, <1>8, StillCall, OrdinaryStep

LEMMA PollStep ==
  ASSUME IInv, Poll
  PROVE  IInv'
<1>1. /\ store' \in [Requests -> Statuses] /\ faults' \in Nat
      /\ \A q \in Requests : Tame(q)
      /\ faults' = 0 => faults = 0
  BY PollStore DEF IInv
<1>2. UNCHANGED <<wait, claim, report, crashes>>
  BY DEF Poll
<1>3. Types'
  BY <1>1, <1>2 DEF IInv, Types
<1>4. NothingBorn
  BY <1>1, <1>2, TameBearsNothing DEF Unborn
<1> QED
  BY <1>1, <1>2, <1>3, <1>4, StillCall, OrdinaryStep

(* The creation: the one record that comes into being had no call on it.    *)
LEMMA CreateRequestStep ==
  ASSUME IInv, NEW r \in Requests, CreateRequest(r)
  PROVE  IInv'
<1>1. /\ store' \in [Requests -> Statuses] /\ faults' \in Nat
      /\ \A q \in Requests : q # r => Tame(q)
      /\ faults' = 0 => faults = 0
  BY CreateRequestStore DEF IInv
<1>2. /\ UNCHANGED <<claim, report, crashes>>
      /\ wait[r] = "creating" /\ wait' = [wait EXCEPT ![r] = "asking"]
  BY DEF CreateRequest
<1>3. Types'
  BY <1>1, <1>2 DEF IInv, Types, Waiting
<1>4. ~Unborn(r)' /\ \A q \in Requests : q # r => (Unborn(q)' <=> Unborn(q))
  BY <1>2 DEF IInv, Types, Unborn
<1>5. BornOnce'
  BY <1>1, <1>2, <1>4 DEF IInv, BornOnce, Tame, Open
<1>6. CallsNameRequests'
  BY <1>2 DEF IInv, CallsNameRequests
<1>7. (faults = 0 => ClaimedIsTaken /\ ClaimedOnce)'
  <2>1. ASSUME NEW k \in Claims, NEW q \in Requests, Won(k, q)'
        PROVE  Won(k, q) /\ q # r
    BY <1>2, <2>1 DEF IInv, BornOnce, Unborn, Won
  <2>2. ASSUME faults' = 0, NEW k \in Claims, NEW q \in Requests, Won(k, q)'
        PROVE  store'[q] # "pending"
    BY <1>1, <2>1, <2>2 DEF IInv, ClaimedIsTaken, Tame
  <2>3. ASSUME faults' = 0, NEW q \in Requests, NEW k \in Claims, NEW l \in Claims,
               Won(k, q)', Won(l, q)'
        PROVE  k = l
    BY <1>1, <2>1, <2>3 DEF IInv, ClaimedOnce
  <2> QED
    BY <2>2, <2>3 DEF ClaimedIsTaken, ClaimedOnce
<1> QED
  BY <1>3, <1>5, <1>6, <1>7 DEF IInv

(* A request with a record is past its creation. *)
LEMMA RecordedIsBorn ==
  ASSUME IInv, NEW r \in Requests, store[r] # "none"
  PROVE  ~Unborn(r)
  BY DEF IInv, BornOnce

LEMMA CallBegins ==
  ASSUME IInv, NEW r \in Requests,
         (\E k \in Claims : Claim(k, r)) \/ (\E k \in Reports : Complete(k, r))
  PROVE  IInv'
<1>1. ~Unborn(r)
  BY RecordedIsBorn DEF Claim, Complete
<1>2. UNCHANGED <<store, wait, crashes, faults>>
  BY DEF Claim, Complete
<1>3. NothingBorn
  BY <1>2 DEF NothingBorn, Unborn
<1>4. ASSUME NEW k \in Claims, Claim(k, r)
      PROVE  IInv'
  <2>1. UNCHANGED report /\ claim' = [claim EXCEPT ![k] = [at |-> "reading", on |-> r]]
    BY <1>4 DEF Claim
  <2>2. Types'
    BY <1>2, <2>1 DEF IInv, Types, Calling
  <2>3. \A l \in Claims : Moves(claim[l], claim'[l])
    BY <1>1, <2>1 DEF IInv, Types, Moves, Calling
  <2> QED
    BY <1>2, <1>3, <2>1, <2>2, <2>3, StillCall, OrdinaryStep
<1>5. ASSUME NEW k \in Reports, Complete(k, r)
      PROVE  IInv'
  <2>1. PICK outcome \in {"completed", "failed"} : UNCHANGED claim /\
          report' = [report EXCEPT ![k] = [at |-> "reading", on |-> r, as |-> outcome]]
    BY <1>5 DEF Complete
  <2>2. Types'
    BY <1>2, <2>1 DEF IInv, Types, Calling
  <2>3. \A l \in Reports : Moves(report[l], report'[l])
    BY <1>1, <2>1 DEF IInv, Types, Moves, Calling
  <2> QED
    BY <1>2, <1>3, <2>1, <2>2, <2>3, StillCall, OrdinaryStep
<1> QED
  BY <1>4, <1>5

(* A call under way names a request that was created. *)
LEMMA CallIsOnBorn ==
  ASSUME IInv
  PROVE  /\ \A k \in Claims : claim[k].at \in Calling =>
              claim[k].on \in Requests /\ ~Unborn(claim[k].on)
         /\ \A k \in Reports : report[k].at \in Calling =>
              report[k].on \in Requests /\ ~Unborn(report[k].on)
  BY DEF IInv, CallsNameRequests, BornOnce

LEMMA ClaimReadsStep ==
  ASSUME IInv, NEW k \in Claims, ClaimReads(k)
  PROVE  IInv'
<1>1. PICK s \in Seen :
        /\ Get(s, claim[k].on)
        /\ claim' = [claim EXCEPT ![k] =
             IF Current(s, claim[k].on) = "pending" THEN [@ EXCEPT !.at = "deciding"] ELSE ClaimOver]
  BY DEF ClaimReads
<1>2. UNCHANGED <<wait, report, crashes>> /\ claim[k].at \in Calling
  BY DEF ClaimReads, Calling
<1>3. claim[k].on \in Requests /\ ~Unborn(claim[k].on)
  BY <1>2, CallIsOnBorn
<1>4. /\ store' \in [Requests -> Statuses] /\ faults' \in Nat
      /\ \A q \in Requests : Tame(q)
      /\ faults' = 0 => faults = 0
  BY <1>1, <1>3, GetIs DEF IInv
<1>5. PICK new \in {[claim[k] EXCEPT !.at = "deciding"], ClaimOver} : claim' = [claim EXCEPT ![k] = new]
  BY <1>1
<1>6. Types'
  BY <1>2, <1>4, <1>5 DEF IInv, Types, Calling, ClaimOver
<1>7. \A l \in Claims : Moves(claim[l], claim'[l])
  BY <1>3, <1>5 DEF IInv, Types, Moves, Calling, ClaimOver
<1>8. NothingBorn
  BY <1>2, <1>4, TameBearsNothing DEF Unborn
<1> QED
  BY <1>2, <1>4, <1>6, <1>7, <1>8, StillCall, OrdinaryStep

LEMMA CompleteReadsStep ==
  ASSUME IInv, NEW k \in Reports, CompleteReads(k)
  PROVE  IInv'
<1>1. PICK s \in Seen :
        /\ Get(s, report[k].on)
        /\ report' = [report EXCEPT ![k] =
             IF Current(s, report[k].on) \in {"claimed", "completed", "failed"}
             THEN [@ EXCEPT !.at = "deciding"] ELSE ReportOver]
  BY DEF CompleteReads
<1>2. UNCHANGED <<wait, claim, crashes>> /\ report[k].at \in Calling
  BY DEF CompleteReads, Calling
<1>3. report[k].on \in Requests /\ ~Unborn(report[k].on)
  BY <1>2, CallIsOnBorn
<1>4. /\ store' \in [Requests -> Statuses] /\ faults' \in Nat
      /\ \A q \in Requests : Tame(q)
      /\ faults' = 0 => faults = 0
  BY <1>1, <1>3, GetIs DEF IInv
<1>5. PICK new \in {[report[k] EXCEPT !.at = "deciding"], ReportOver} : report' = [report EXCEPT ![k] = new]
  BY <1>1
<1>6. Types'
  BY <1>2, <1>4, <1>5 DEF IInv, Types, Calling, ReportOver
<1>7. \A l \in Reports : Moves(report[l], report'[l])
  BY <1>3, <1>5 DEF IInv, Types, Moves, Calling, ReportOver
<1>8. NothingBorn
  BY <1>2, <1>4, TameBearsNothing DEF Unborn
<1> QED
  BY <1>2, <1>4, <1>6, <1>7, <1>8, StillCall, OrdinaryStep

LEMMA CompleteDecidesStep ==
  ASSUME IInv, NEW k \in Reports, CompleteDecides(k)
  PROVE  IInv'
<1>1. /\ UNCHANGED <<wait, claim, crashes>> /\ report[k].at \in Calling
      /\ report' = [report EXCEPT ![k] = ReportOver]
  BY DEF CompleteDecides, Calling
<1>2. report[k].on \in Requests
  BY <1>1, CallIsOnBorn
<1>3. /\ store' \in [Requests -> Statuses] /\ faults' \in Nat
      /\ \A q \in Requests : q # report[k].on => store'[q] = store[q]
      /\ \/ store'[report[k].on] = store[report[k].on]
         \/ store[report[k].on] = "claimed" /\ store'[report[k].on] = report[k].as
      /\ faults' = 0 => faults = 0
  BY <1>2, CompleteDecidesStore DEF IInv
<1>4. Types'
  BY <1>1, <1>3 DEF IInv, Types, Calling, ReportOver
<1>5. \A l \in Reports : Moves(report[l], report'[l])
  BY <1>1 DEF IInv, Types, Moves, ReportOver
<1>6. report[k].as # "pending"
  BY DEF IInv, Types
<1>7. NothingBorn
  BY <1>1, <1>3, <1>6 DEF NothingBorn, Unborn
<1> QED
  BY <1>1, <1>3, <1>4, <1>5, <1>7, StillCall, OrdinaryStep

LEMMA CrashStep ==
  ASSUME IInv, Crash
  PROVE  IInv'
<1>1. /\ UNCHANGED <<store, faults>> /\ crashes' = crashes + 1
      /\ wait' = [r \in Requests |-> IF wait[r] \in Waiting THEN "failed" ELSE wait[r]]
      /\ claim' = [k \in Claims |-> IF claim[k].at \in Calling THEN ClaimOver ELSE claim[k]]
      /\ report' = [k \in Reports |-> IF report[k].at \in Calling THEN ReportOver ELSE report[k]]
  BY DEF Crash
<1>2. Types'
  BY <1>1 DEF IInv, Types, Waiting, Over, Calling, ClaimOver, ReportOver
<1>3. NothingBorn
  BY <1>1 DEF NothingBorn, Unborn, Waiting
<1>4. \A k \in Claims : Moves(claim[k], claim'[k])
  BY <1>1 DEF Moves, ClaimOver
<1>5. \A k \in Reports : Moves(report[k], report'[k])
  BY <1>1 DEF Moves, ReportOver
<1> QED
  BY <1>1, <1>2, <1>3, <1>4, <1>5, OrdinaryStep

(* The claim that wins, without a fault, found its request pending: nobody  *)
(* had won it.                                                              *)
LEMMA ClaimDecidesStep ==
  ASSUME IInv, NEW k \in Claims, ClaimDecides(k)
  PROVE  IInv'
<1> DEFINE r == claim[k].on
<1>1. /\ UNCHANGED <<wait, report, crashes>> /\ claim[k].at \in Calling
      /\ claim' = [claim EXCEPT ![k] = ClaimOver] \/ claim' = [claim EXCEPT ![k].at = "won"]
  BY DEF ClaimDecides, Calling
<1>2. r \in Requests /\ ~Unborn(r)
  BY <1>1, CallIsOnBorn
<1>3. /\ store' \in [Requests -> Statuses] /\ faults' \in Nat
      /\ \A q \in Requests : q # r => store'[q] = store[q]
      /\ store'[r] = store[r] \/ (store[r] = "pending" /\ store'[r] = "claimed")
      /\ faults' = 0 => faults = 0
      /\ \/ claim' = [claim EXCEPT ![k] = ClaimOver] /\ store' = store
         \/ /\ claim' = [claim EXCEPT ![k].at = "won"]
            /\ faults' = 0 => store[r] = "pending" /\ store'[r] = "claimed"
  BY <1>2, ClaimDecidesStore DEF IInv
<1>4. Types'
  BY <1>1, <1>3 DEF IInv, Types, Calling, ClaimOver
<1>5. NothingBorn
  BY <1>1, <1>3 DEF NothingBorn, Unborn
<1>6. CASE claim' = [claim EXCEPT ![k] = ClaimOver]
  <2>1. \A l \in Claims : Moves(claim[l], claim'[l])
    BY <1>6 DEF IInv, Types, Moves, ClaimOver
  <2> QED
    BY <1>1, <1>3, <1>4, <1>5, <2>1, StillCall, OrdinaryStep
<1>7. CASE /\ claim' = [claim EXCEPT ![k].at = "won"]
           /\ faults' = 0 => store[r] = "pending" /\ store'[r] = "claimed"
  <2>1. \A l \in Claims : claim'[l].on = claim[l].on
    BY <1>7 DEF IInv, Types
  <2>2. \A l \in Claims : l # k => claim'[l] = claim[l]
    BY <1>7 DEF IInv, Types
  <2>3. BornOnce'
    BY <1>1, <1>3, <2>1 DEF IInv, BornOnce, Unborn
  <2>4. CallsNameRequests'
    BY <1>1, <1>2, <2>1, <2>2 DEF IInv, CallsNameRequests
  <2>5. ASSUME NEW l \in Claims, NEW q \in Requests, Won(l, q)', l # k
        PROVE  Won(l, q)
    BY <2>2, <2>5 DEF Won
  <2>6. ASSUME NEW q \in Requests, Won(k, q)'
        PROVE  q = r
    BY <2>1, <2>6 DEF Won
  <2>7. ASSUME faults' = 0
        PROVE  ClaimedIsTaken'
    <3>1. ASSUME NEW l \in Claims, NEW q \in Requests, Won(l, q)', l # k
          PROVE  store'[q] # "pending"
      BY <1>3, <2>5, <2>7, <3>1 DEF IInv, ClaimedIsTaken
    <3>2. ASSUME NEW q \in Requests, Won(k, q)'
          PROVE  store'[q] # "pending"
      BY <1>7, <2>6, <2>7, <3>2
    <3> QED
      BY <3>1, <3>2 DEF ClaimedIsTaken
  <2>8. ASSUME faults' = 0, NEW q \in Requests, NEW l \in Claims, NEW m \in Claims,
               Won(l, q)', Won(m, q)'
        PROVE  l = m
    <3>1. store[r] = "pending" /\ \A j \in Claims : ~Won(j, r)
      BY <1>2, <1>3, <1>7, <2>8 DEF IInv, ClaimedIsTaken
    <3>2. CASE l # k /\ m # k
      BY <1>3, <2>5, <2>8, <3>2 DEF IInv, ClaimedOnce
    <3>3. CASE l = k /\ m # k
      BY <2>5, <2>6, <2>8, <3>1, <3>3
    <3>4. CASE l # k /\ m = k
      BY <2>5, <2>6, <2>8, <3>1, <3>4
    <3> QED
      BY <3>2, <3>3, <3>4
  <2> QED
    BY <1>4, <2>3, <2>4, <2>7, <2>8 DEF IInv, ClaimedOnce
<1> QED
  BY <1>3, <1>6, <1>7

LEMMA StutterStep ==
  ASSUME IInv, UNCHANGED vars
  PROVE  IInv'
<1>1. Types'
  BY DEF vars, IInv, Types
<1>2. NothingBorn
  BY DEF vars, NothingBorn, Unborn
<1> QED
  BY <1>1, <1>2, StillCall, OrdinaryStep DEF vars

(* Every step of the specification preserves the invariant, whatever the    *)
(* requests, the calls, the restarts and the accesses that fail.            *)
THEOREM NextIInv == IInv /\ [Next]_vars => IInv'
<1> SUFFICES ASSUME IInv, [Next]_vars PROVE IInv'
  OBVIOUS
<1>1. ASSUME NEW r \in Requests,
             RequestRestore(r) \/ WaitStep(r) \/ DeadlinePasses(r) \/ RetentionEnds(r)
      PROVE  IInv'
  BY <1>1, QuietSteps, CreateRequestStep, AskStep DEF WaitStep
<1>2. ASSUME NEW k \in Claims,
             (\E r \in Requests : Claim(k, r)) \/ ClaimReads(k) \/ ClaimDecides(k)
      PROVE  IInv'
  BY <1>2, CallBegins, ClaimReadsStep, ClaimDecidesStep
<1>3. ASSUME NEW k \in Reports,
             (\E r \in Requests : Complete(k, r)) \/ CompleteReads(k) \/ CompleteDecides(k)
      PROVE  IInv'
  BY <1>3, CallBegins, CompleteReadsStep, CompleteDecidesStep
<1>4. CASE Poll
  BY <1>4, PollStep
<1>5. CASE RevokeConsent
  <2>1. UNCHANGED <<store, wait, claim, report, crashes, faults>>
    BY <1>5 DEF RevokeConsent
  <2>2. Types'
    BY <2>1 DEF IInv, Types
  <2>3. NothingBorn
    BY <2>1 DEF NothingBorn, Unborn
  <2> QED
    BY <2>1, <2>2, <2>3, StillCall, OrdinaryStep
<1>6. CASE Crash
  BY <1>6, CrashStep
<1>7. CASE UNCHANGED vars
  BY <1>7, StutterStep
<1> QED
  BY <1>1, <1>2, <1>3, <1>4, <1>5, <1>6, <1>7 DEF Next

-----------------------------------------------------------------------------
(* No step replaces the outcome of a closed request. *)
LEMMA OutcomeStep ==
  ASSUME IInv, [Next]_vars, NEW r \in Requests, store[r] \in Terminal
  PROVE  store'[r] \in {store[r], "none"}
<1>0. Types /\ store[r] \notin Open /\ store[r] # "none"
  BY DEF IInv, Terminal, Open
<1>1. ASSUME NEW q \in Requests, CreateRequest(q)
      PROVE  store'[r] \in {store[r], "none"}
  <2>1. Unborn(q)
    BY <1>1 DEF CreateRequest, Unborn
  <2>2. q # r
    BY <1>0, <2>1 DEF IInv, BornOnce
  <2> QED
    BY <1>0, <1>1, <2>2, CreateRequestStore DEF Tame
<1>2. ASSUME NEW q \in Requests, Ask(q)
      PROVE  store'[r] \in {store[r], "none"}
  <2>1. PICK s \in Seen : Get(s, q)
    BY <1>2 DEF Ask
  <2> QED
    BY <1>0, <2>1, GetIs DEF Tame
<1>3. ASSUME NEW k \in Claims, ClaimReads(k)
      PROVE  store'[r] \in {store[r], "none"}
  <2>1. claim[k].on \in Requests
    BY <1>3, CallIsOnBorn DEF ClaimReads, Calling
  <2>2. PICK s \in Seen : Get(s, claim[k].on)
    BY <1>3 DEF ClaimReads
  <2> QED
    BY <1>0, <2>1, <2>2, GetIs DEF Tame
<1>4. ASSUME NEW k \in Reports, CompleteReads(k)
      PROVE  store'[r] \in {store[r], "none"}
  <2>1. report[k].on \in Requests
    BY <1>4, CallIsOnBorn DEF CompleteReads, Calling
  <2>2. PICK s \in Seen : Get(s, report[k].on)
    BY <1>4 DEF CompleteReads
  <2> QED
    BY <1>0, <2>1, <2>2, GetIs DEF Tame
<1>5. ASSUME NEW k \in Claims, ClaimDecides(k)
      PROVE  store'[r] \in {store[r], "none"}
  <2>1. claim[k].on \in Requests
    BY <1>5, CallIsOnBorn DEF ClaimDecides, Calling
  <2> QED
    BY <1>0, <1>5, <2>1, ClaimDecidesStore DEF Open
<1>6. ASSUME NEW k \in Reports, CompleteDecides(k)
      PROVE  store'[r] \in {store[r], "none"}
  <2>1. report[k].on \in Requests
    BY <1>6, CallIsOnBorn DEF CompleteDecides, Calling
  <2> QED
    BY <1>0, <1>6, <2>1, CompleteDecidesStore DEF Open
<1>7. CASE Poll
  BY <1>0, <1>7, PollStore DEF Tame
<1>8. CASE UNCHANGED store
  BY <1>8
<1> QED
  BY <1>1, <1>2, <1>3, <1>4, <1>5, <1>6, <1>7, <1>8
  DEF Next, WaitStep, vars, RequestRestore, CheckProvider, Land, DeadlinePasses,
      RetentionEnds, Claim, Complete, RevokeConsent, Crash

(* However many claim calls, reports, restarts and expiries interleave, at  *)
(* most one claim call is told it holds a request, as long as no access to  *)
(* the file failed (claimRestoreRequest, transition).                       *)
THEOREM ExactlyOnceClaimHolds == Spec => []ExactlyOnceClaim
<1>1. IInv => ExactlyOnceClaim
  BY DEF IInv, ExactlyOnceClaim
<1> QED
  BY <1>1, InitIInv, NextIInv, PTL DEF Spec

(* A request's outcome is never replaced by another, not even when reads    *)
(* and writes of the file fail: the record stays as it was closed until it  *)
(* is dropped (transition, effectiveStatus, pruneTerminalRequests).         *)
THEOREM OutcomeStandsHolds == Spec => OutcomeStands
<1> DEFINE Stands == \A r \in Requests : store[r] \in Terminal => store'[r] \in {store[r], "none"}
<1>1. IInv /\ [Next]_vars => [Stands]_vars
  BY OutcomeStep
<1> QED
  BY <1>1, InitIInv, NextIInv, PTL DEF Spec, OutcomeStands

-----------------------------------------------------------------------------
(* The waiter's record.  The pins are the jobs that wait, pruning spares    *)
(* what is pinned, and without a fault nothing else drops a record.         *)

Recorded == {"asking", "checking", "landing"}

Pins == waitedOn = {r \in Requests : wait[r] \in Waiting}

RecordInv == Pins /\ WaiterKeepsRecord

(* No pinned record is dropped, unless an access to the file failed.        *)
Spares ==
  faults' = 0 => /\ faults = 0
                 /\ \A r \in waitedOn : store[r] # "none" => store'[r] # "none"

LEMMA GetSpares ==
  ASSUME Types, Pins, NEW s \in Seen, NEW r \in Requests, Get(s, r)
  PROVE  Spares
<1> SUFFICES ASSUME faults' = 0
             PROVE  faults = 0 /\ \A q \in waitedOn : store[q] # "none" => store'[q] # "none"
  BY DEF Spares
<1>1. faults = 0 /\ s = store
  BY GetIs
<1>2. CASE Current(s, r) = s[r]
  <2>1. store' = store
    BY <1>2, ReadIs DEF Get
  <2> QED
    BY <1>1, <2>1
<1>3. CASE Current(s, r) # s[r]
  <2>1. Current(s, r) = "expired"
    BY <1>3 DEF Current
  <2>2. store' = [store EXCEPT ![r] = "expired"]
    BY <1>1, <1>3, <2>1, WrittenIs DEF Get
  <2> QED
    BY <1>1, <2>2 DEF Types, Pins
<1> QED
  BY <1>2, <1>3

LEMMA PrunedSpares ==
  ASSUME NEW s, NEW anchor, NEW r \in Requests, r \in waitedOn
  PROVE  Pruned(s, anchor)[r] = s[r]
  BY DEF Pruned

LEMMA PollSpares ==
  ASSUME Types, Pins, Poll
  PROVE  Spares
<1> DEFINE New(s) == [r \in Requests |-> Current(s, r)]
<1> SUFFICES ASSUME faults' = 0
             PROVE  faults = 0 /\ \A q \in waitedOn : store[q] # "none" => store'[q] # "none"
  BY DEF Spares
<1>1. PICK s \in Seen : \E anchor \in Newest(New(s)) :
        IF Pruned(New(s), anchor) = s THEN Read(s) ELSE Written(s, Pruned(New(s), anchor))
  BY DEF Poll
<1>2. PICK anchor :
        IF Pruned(New(s), anchor) = s THEN Read(s) ELSE Written(s, Pruned(New(s), anchor))
  BY <1>1
<1>3. faults = 0 /\ s = store /\ (store' = store \/ store' = Pruned(New(s), anchor))
  BY <1>2, ReadIs, WrittenIs
<1>4. \A q \in waitedOn : Pruned(New(s), anchor)[q] = New(s)[q]
  <2> HIDE DEF New
  <2> QED
    BY PrunedSpares DEF Pins
<1>5. \A q \in Requests : New(s)[q] \in {s[q], "expired"}
  BY DEF Current
<1> HIDE DEF New
<1> QED
  BY <1>3, <1>4, <1>5 DEF Pins

LEMMA CreateRequestSpares ==
  ASSUME Types, Pins, NEW r \in Requests, CreateRequest(r)
  PROVE  Spares /\ (faults' = 0 => store'[r] # "none")
<1> SUFFICES ASSUME faults' = 0
             PROVE  /\ faults = 0 /\ store'[r] # "none"
                    /\ \A q \in waitedOn : store[q] # "none" => store'[q] # "none"
  BY DEF Spares
<1>1. PICK s \in Seen : \E anchor \in Newest([s EXCEPT ![r] = "pending"]) :
        Written(s, Pruned([s EXCEPT ![r] = "pending"], anchor))
  BY DEF CreateRequest
<1> DEFINE new == [s EXCEPT ![r] = "pending"]
<1>2. PICK anchor : Written(s, Pruned(new, anchor))
  BY <1>1
<1>3. faults = 0 /\ s = store /\ store' = Pruned(new, anchor)
  BY <1>2, WrittenIs
<1>4. r \in waitedOn
  BY DEF Pins, CreateRequest, Waiting
<1>5. \A q \in waitedOn : store'[q] = new[q]
  BY <1>3, PrunedSpares DEF Pins
<1>6. new[r] = "pending" /\ \A q \in Requests : new[q] \in {store[q], "pending"}
  BY <1>3 DEF Types
<1> QED
  BY <1>3, <1>4, <1>5, <1>6 DEF Pins

(* Once its record is made, a job waits on; it does not begin to wait anew. *)
LEMMA StillRecorded ==
  ASSUME RecordInv, Spares, NEW r \in Requests,
         wait[r] \in Recorded, faults' = 0
  PROVE  store'[r] # "none"
  BY DEF RecordInv, Pins, WaiterKeepsRecord, Spares, Recorded, Waiting

LEMMA RecordStep ==
  ASSUME RecordInv, Spares, Pins',
         \A r \in Requests : wait'[r] \in Recorded => wait[r] \in Recorded
  PROVE  RecordInv'
<1>1. ASSUME faults' = 0, NEW r \in Requests, wait'[r] \in Recorded
      PROVE  store'[r] # "none"
  BY <1>1, StillRecorded
<1> QED
  BY <1>1 DEF RecordInv, WaiterKeepsRecord, Recorded

LEMMA WaitsRecord ==
  ASSUME IInv, RecordInv, NEW r \in Requests,
         RequestRestore(r) \/ WaitStep(r) \/ DeadlinePasses(r) \/ RetentionEnds(r)
  PROVE  RecordInv'
<1>1. Types /\ Pins
  BY DEF IInv, RecordInv
<1>2. CASE RequestRestore(r)
  <2>1. Pins' /\ \A q \in Requests : wait'[q] \in Recorded => wait[q] \in Recorded
    BY <1>1, <1>2 DEF RequestRestore, Pins, Types, Waiting, Recorded
  <2>2. Spares
    BY <1>2 DEF RequestRestore, Spares
  <2> QED
    BY <2>1, <2>2, RecordStep
<1>3. CASE CreateRequest(r)
  <2>1. wait[r] = "creating" /\ wait' = [wait EXCEPT ![r] = "asking"] /\ waitedOn' = waitedOn
    BY <1>3 DEF CreateRequest
  <2>2. Pins'
    BY <1>1, <2>1 DEF Pins, Types, Waiting
  <2>3. Spares /\ (faults' = 0 => store'[r] # "none")
    BY <1>1, <1>3, CreateRequestSpares
  <2>4. ASSUME faults' = 0, NEW q \in Requests, wait'[q] \in Recorded
        PROVE  store'[q] # "none"
    <3>1. q = r \/ wait[q] \in Recorded
      BY <1>1, <2>1, <2>4 DEF Types
    <3> QED
      BY <2>3, <2>4, <3>1, StillRecorded
  <2> QED
    BY <2>2, <2>4 DEF RecordInv, WaiterKeepsRecord, Recorded
<1>4. CASE Ask(r)
  <2>1. PICK s \in Seen :
          /\ Get(s, r)
          /\ wait' = [wait EXCEPT ![r] = Verdict(Current(s, r))]
          /\ waitedOn' = IF Verdict(Current(s, r)) \in Over THEN waitedOn \ {r} ELSE waitedOn
    BY <1>4 DEF Ask
  <2>2. wait[r] = "asking" /\ Verdict(Current(s, r)) \in {"checking", "landing", "failed"}
    BY <1>4 DEF Ask, Verdict
  <2>3. Pins'
    BY <1>1, <2>1, <2>2 DEF Pins, Types, Waiting, Over
  <2>4. \A q \in Requests : wait'[q] \in Recorded => wait[q] \in Recorded
    BY <1>1, <2>1, <2>2 DEF Types, Recorded
  <2>5. Spares
    BY <1>1, <2>1, GetSpares
  <2> QED
    BY <2>3, <2>4, <2>5, RecordStep
<1>5. CASE CheckProvider(r) \/ Land(r)
  <2>1. Spares
    BY <1>5 DEF CheckProvider, Land, Spares
  <2>2. Pins' /\ \A q \in Requests : wait'[q] \in Recorded => wait[q] \in Recorded
    BY <1>1, <1>5 DEF CheckProvider, Land, Pins, Types, Waiting, Recorded
  <2> QED
    BY <2>1, <2>2, RecordStep
<1>6. CASE DeadlinePasses(r) \/ RetentionEnds(r)
  <2>1. Spares /\ UNCHANGED <<wait, waitedOn>>
    BY <1>6 DEF DeadlinePasses, RetentionEnds, Spares
  <2> QED
    BY <1>1, <2>1, RecordStep DEF Pins
<1> QED
  BY <1>2, <1>3, <1>4, <1>5, <1>6 DEF WaitStep

LEMMA CallsSpare ==
  ASSUME IInv, Pins,
         \/ \E k \in Claims :
              (\E r \in Requests : Claim(k, r)) \/ ClaimReads(k) \/ ClaimDecides(k)
         \/ \E k \in Reports :
              (\E r \in Requests : Complete(k, r)) \/ CompleteReads(k) \/ CompleteDecides(k)
  PROVE  Spares /\ UNCHANGED <<wait, waitedOn>>
<1>1. UNCHANGED <<wait, waitedOn>>
  BY DEF Claim, ClaimReads, ClaimDecides, Complete, CompleteReads, CompleteDecides
<1>2. Types
  BY DEF IInv
<1>3. ASSUME NEW k \in Claims, ClaimReads(k)
      PROVE  Spares
  <2>1. claim[k].on \in Requests
    BY <1>3, CallIsOnBorn DEF ClaimReads, Calling
  <2> QED
    BY <1>2, <1>3, <2>1, GetSpares DEF ClaimReads
<1>4. ASSUME NEW k \in Reports, CompleteReads(k)
      PROVE  Spares
  <2>1. report[k].on \in Requests
    BY <1>4, CallIsOnBorn DEF CompleteReads, Calling
  <2> QED
    BY <1>2, <1>4, <2>1, GetSpares DEF CompleteReads
<1>5. ASSUME NEW k \in Claims, ClaimDecides(k)
      PROVE  Spares
  <2>1. claim[k].on \in Requests
    BY <1>5, CallIsOnBorn DEF ClaimDecides, Calling
  <2>2. \A q \in Requests : store[q] # "none" => store'[q] # "none"
    BY <1>2, <1>5, <2>1, ClaimDecidesStore
  <2>3. faults' = 0 => faults = 0
    BY <1>2, <1>5, <2>1, ClaimDecidesStore
  <2> QED
    BY <2>2, <2>3 DEF Spares, Pins
<1>6. ASSUME NEW k \in Reports, CompleteDecides(k)
      PROVE  Spares
  <2>1. report[k].on \in Requests
    BY <1>6, CallIsOnBorn DEF CompleteDecides, Calling
  <2>2. report[k].as # "none"
    BY <1>2 DEF Types
  <2>3. \A q \in Requests : store[q] # "none" => store'[q] # "none"
    BY <1>2, <1>6, <2>1, <2>2, CompleteDecidesStore
  <2>4. faults' = 0 => faults = 0
    BY <1>2, <1>6, <2>1, CompleteDecidesStore
  <2> QED
    BY <2>3, <2>4 DEF Spares, Pins
<1> QED
  BY <1>1, <1>3, <1>4, <1>5, <1>6 DEF Claim, Complete, Spares

LEMMA NextRecord == IInv /\ RecordInv /\ [Next]_vars => RecordInv'
<1> SUFFICES ASSUME IInv, RecordInv, [Next]_vars PROVE RecordInv'
  OBVIOUS
<1>1. ASSUME Spares, UNCHANGED <<wait, waitedOn>> PROVE RecordInv'
  BY <1>1, RecordStep DEF RecordInv, Pins
<1>2. ASSUME NEW r \in Requests,
             RequestRestore(r) \/ WaitStep(r) \/ DeadlinePasses(r) \/ RetentionEnds(r)
      PROVE  RecordInv'
  BY <1>2, WaitsRecord
<1>3. CASE \/ \E k \in Claims :
                (\E r \in Requests : Claim(k, r)) \/ ClaimReads(k) \/ ClaimDecides(k)
           \/ \E k \in Reports :
                (\E r \in Requests : Complete(k, r)) \/ CompleteReads(k) \/ CompleteDecides(k)
  BY <1>1, <1>3, CallsSpare DEF RecordInv
<1>4. CASE Poll
  <2>1. Spares
    BY <1>4, PollSpares DEF IInv, RecordInv
  <2> QED
    BY <1>1, <1>4, <2>1 DEF Poll
<1>5. CASE RevokeConsent \/ UNCHANGED vars
  BY <1>1, <1>5 DEF RevokeConsent, vars, Spares
<1>6. CASE Crash
  <2>1. \A r \in Requests : wait'[r] \notin Waiting /\ wait'[r] \notin Recorded
    BY <1>6 DEF Crash, Waiting, Recorded
  <2> QED
    BY <1>6, <2>1 DEF Crash, RecordInv, Pins, WaiterKeepsRecord, Recorded
<1> QED
  BY <1>2, <1>3, <1>4, <1>5, <1>6 DEF Next

(* A job that waits for a restore finds its record whenever it asks, for    *)
(* any number of requests, polls and prunings around it, as long as no      *)
(* access to the file fails (retainWhileWaiting, pruneTerminalRequests).    *)
THEOREM WaiterKeepsRecordHolds == Spec => []WaiterKeepsRecord
<1>1. Init => RecordInv
  BY DEF Init, RecordInv, Pins, WaiterKeepsRecord, Waiting
<1>2. RecordInv => WaiterKeepsRecord
  BY DEF RecordInv
<1> QED
  BY <1>1, <1>2, InitIInv, NextIInv, NextRecord, PTL DEF Spec
=============================================================================
