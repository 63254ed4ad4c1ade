--------------------------- MODULE RestoreBroker ---------------------------
(***************************************************************************)
(* The request queue of the restore@1 contract: deploy jobs that wait for  *)
(* a provider to deliver a capture (acquireProviderRestorePayload), the    *)
(* provider's poll, claim and complete calls                               *)
(* (packages/server/src/services/core/deployment.ts), and the store of     *)
(* requests they share (restore-broker-state.ts, json-record-store.ts).    *)
(*                                                                         *)
(* RestoreBrokerStateStore runs its operations one after the other, so one *)
(* operation (read the file, change it, write it) is one step; what a      *)
(* handler does between two of its operations is open to everybody else.   *)
(* The file is read as empty when it cannot be read, and a write that      *)
(* fails is reported to nobody.                                            *)
(*                                                                         *)
(* Time is abstract: a deadline passes at some moment after the request is *)
(* made, and the retention of a closed request ends at some moment after   *)
(* it was closed.  One provider serves every request.                      *)
(***************************************************************************)
EXTENDS FiniteSets, Naturals

CONSTANTS
  Requests,    \* restore requests, each made by a deploy job of its own
  Claims,      \* claim calls
  Reports,     \* complete calls
  NoRequest,
  MaxMishaps   \* bound on restarts, reads and writes of the file that fail, and
               \* withdrawals of consent, together

ASSUME BrokerAssumption ==
  /\ NoRequest \notin Requests
  /\ MaxMishaps \in Nat

Open     == {"pending", "claimed"}
Terminal == {"completed", "failed", "expired"}

VARIABLES
  store,      \* config/restore-broker.json: status of each request, or "none"
  due,        \* its deadline has passed
  aged,       \* it was closed longer ago than TERMINAL_RECORD_RETENTION_MS
  waitedOn,   \* requests pinned against pruning
  wait,       \* the deploy job of each request
  claim,      \* claim calls: the request and how far the call is
  report,     \* complete calls, likewise, with the outcome they report
  consented,  \* the provider is installed and holds restore consent
  crashes,
  faults

vars == <<store, due, aged, waitedOn, wait, claim, report, consented, crashes, faults>>

Waiting == {"creating", "asking", "checking", "landing"}
Over    == {"landed", "failed"}   \* failed: also by the job recovery after a restart
Calling == {"reading", "deciding"}

(* A call that has answered; a claim that has won keeps its request.        *)
ClaimOver  == [at |-> "over", on |-> NoRequest]
ReportOver == [at |-> "over", on |-> NoRequest, as |-> "completed"]

Mishaps == crashes + faults + (IF consented THEN 0 ELSE 1)

Init ==
  /\ store = [r \in Requests |-> "none"]
  /\ due = [r \in Requests |-> FALSE]
  /\ aged = [r \in Requests |-> FALSE]
  /\ waitedOn = {}
  /\ wait = [r \in Requests |-> "idle"]
  /\ claim = [k \in Claims |-> [at |-> "idle", on |-> NoRequest]]
  /\ report = [k \in Reports |-> [at |-> "idle", on |-> NoRequest, as |-> "completed"]]
  /\ consented = TRUE
  /\ crashes = 0 /\ faults = 0

-----------------------------------------------------------------------------
(* The store. *)
Empty == [r \in Requests |-> "none"]

(* What a read returns: the file, or nothing if it fails. *)
Seen == {store} \cup {s \in {Empty} : Mishaps < MaxMishaps}

(* An operation that only read s.                                           *)
Read(s) ==
  /\ faults' = IF s = store THEN faults ELSE faults + 1
  /\ UNCHANGED store

(* An operation that read s and writes new. *)
Written(s, new) ==
  \/ /\ store' = new
     /\ faults' = IF s = store THEN faults ELSE faults + 1
  \/ /\ s = store /\ Mishaps < MaxMishaps
     /\ faults' = faults + 1
     /\ UNCHANGED store

(* Mutant: a record is read as it is. *)
CurrentUnexpired(s, r) == s[r]

(* Expiry is decided whenever a record is read: no timer is involved.       *)
Current(s, r) == IF s[r] \in Open /\ due[r] THEN "expired" ELSE s[r]

(* The record r of s as get returns it; an expiry it finds is written.      *)
Get(s, r) ==
  IF Current(s, r) = s[r] THEN Read(s)
  ELSE Written(s, [s EXCEPT ![r] = Current(s, r)])

Closed(s) == {r \in Requests : s[r] \in Terminal}

(* Mutant: pinned records are pruned. *)
PrunedPinned(s, anchor) ==
  [r \in Requests |-> IF r \in Closed(s) /\ aged[r] /\ r # anchor THEN "none" ELSE s[r]]

(* pruneTerminalRequests; anchor is the newest closed record. *)
Pruned(s, anchor) ==
  [r \in Requests |->
     IF r \in Closed(s) /\ aged[r] /\ r \notin waitedOn /\ r # anchor THEN "none" ELSE s[r]]

(* The newest closed record has aged only if all have. *)
Newest(s) ==
  LET fresh == {r \in Closed(s) : ~aged[r]}
  IN  IF Closed(s) = {} THEN {NoRequest} ELSE IF fresh # {} THEN fresh ELSE Closed(s)

-----------------------------------------------------------------------------
(* The deploy job.  It pins its request before it exists and lets go of it  *)
(* when it stops waiting.                                                   *)
RequestRestore(r) ==
  /\ wait[r] = "idle" /\ consented
  /\ waitedOn' = waitedOn \cup {r}
  /\ wait' = [wait EXCEPT ![r] = "creating"]
  /\ UNCHANGED <<store, due, aged, claim, report, consented, crashes, faults>>

CreateRequest(r) ==
  /\ wait[r] = "creating"
  /\ \E s \in Seen : LET new == [s EXCEPT ![r] = "pending"] IN
       \E anchor \in Newest(new) : Written(s, Pruned(new, anchor))
  /\ wait' = [wait EXCEPT ![r] = "asking"]
  /\ UNCHANGED <<due, aged, waitedOn, claim, report, consented, crashes>>

Verdict(status) ==
  CASE status \in Open -> "checking"
    [] status = "completed" -> "landing"
    [] OTHER -> "failed"   \* reported failed, expired, or no record at all

Ask(r) ==
  /\ wait[r] = "asking"
  /\ \E s \in Seen :
       /\ Get(s, r)
       /\ wait' = [wait EXCEPT ![r] = Verdict(Current(s, r))]
       /\ waitedOn' = IF Verdict(Current(s, r)) \in Over THEN waitedOn \ {r} ELSE waitedOn
  /\ UNCHANGED <<due, aged, claim, report, consented, crashes>>

(* The provider is gone: give up.  Otherwise sleep and ask again. *)
CheckProvider(r) ==
  /\ wait[r] = "checking"
  /\ IF consented
     THEN /\ wait' = [wait EXCEPT ![r] = "asking"]
          /\ UNCHANGED waitedOn
     ELSE /\ wait' = [wait EXCEPT ![r] = "failed"]
          /\ waitedOn' = waitedOn \ {r}
  /\ UNCHANGED <<store, due, aged, claim, report, consented, crashes, faults>>

(* The delivered tree is located and moved into place, or it cannot be.     *)
Land(r) ==
  /\ wait[r] = "landing"
  /\ \E outcome \in {"landed", "failed"} : wait' = [wait EXCEPT ![r] = outcome]
  /\ waitedOn' = waitedOn \ {r}
  /\ UNCHANGED <<store, due, aged, claim, report, consented, crashes, faults>>

-----------------------------------------------------------------------------
(* The provider's calls.  Each begins with the consent check. *)
Poll ==
  /\ consented
  /\ \E s \in Seen : LET new == [r \in Requests |-> Current(s, r)] IN
       \E anchor \in Newest(new) :
         IF Pruned(new, anchor) = s THEN Read(s) ELSE Written(s, Pruned(new, anchor))
  /\ UNCHANGED <<due, aged, waitedOn, wait, claim, report, consented, crashes>>

Claim(k, r) ==
  /\ claim[k].at = "idle" /\ consented /\ store[r] # "none"
  /\ claim' = [claim EXCEPT ![k] = [at |-> "reading", on |-> r]]
  /\ UNCHANGED <<store, due, aged, waitedOn, wait, report, consented, crashes, faults>>

(* The friendly answers. *)
ClaimReads(k) ==
  /\ claim[k].at = "reading"
  /\ \E s \in Seen :
       /\ Get(s, claim[k].on)
       /\ claim' = [claim EXCEPT ![k] =
            IF Current(s, claim[k].on) = "pending" THEN [@ EXCEPT !.at = "deciding"] ELSE ClaimOver]
  /\ UNCHANGED <<due, aged, waitedOn, wait, report, consented, crashes>>

(* Mutant: the transition has no guard. *)
ClaimDecidesUnguarded(k) ==
  /\ claim[k].at = "deciding"
  /\ Written(store, [store EXCEPT ![claim[k].on] = "claimed"])
  /\ claim' = [claim EXCEPT ![k].at = "won"]
  /\ UNCHANGED <<due, aged, waitedOn, wait, report, consented, crashes>>

(* The compare-and-set that decides. *)
ClaimDecides(k) ==
  /\ claim[k].at = "deciding"
  /\ \E s \in Seen :
       IF s[claim[k].on] = "pending"
       THEN /\ Written(s, [s EXCEPT ![claim[k].on] = "claimed"])
            /\ claim' = [claim EXCEPT ![k].at = "won"]
       ELSE /\ Read(s)
            /\ claim' = [claim EXCEPT ![k] = ClaimOver]
  /\ UNCHANGED <<due, aged, waitedOn, wait, report, consented, crashes>>

Complete(k, r) == \E outcome \in {"completed", "failed"} :
  /\ report[k].at = "idle" /\ consented /\ store[r] # "none"
  /\ report' = [report EXCEPT ![k] = [at |-> "reading", on |-> r, as |-> outcome]]
  /\ UNCHANGED <<store, due, aged, waitedOn, wait, claim, consented, crashes, faults>>

CompleteReads(k) ==
  /\ report[k].at = "reading"
  /\ \E s \in Seen :
       /\ Get(s, report[k].on)
       /\ report' = [report EXCEPT ![k] =
            IF Current(s, report[k].on) \in {"claimed", "completed", "failed"}
            THEN [@ EXCEPT !.at = "deciding"] ELSE ReportOver]
  /\ UNCHANGED <<due, aged, waitedOn, wait, claim, consented, crashes>>

(* Mutant: the transition has no guard. *)
CompleteDecidesUnguarded(k) ==
  /\ report[k].at = "deciding"
  /\ Written(store, [store EXCEPT ![report[k].on] = report[k].as])
  /\ report' = [report EXCEPT ![k] = ReportOver]
  /\ UNCHANGED <<due, aged, waitedOn, wait, claim, consented, crashes>>

(* The call answers ok whether the transition applied or not. *)
CompleteDecides(k) ==
  /\ report[k].at = "deciding"
  /\ \E s \in Seen :
       IF s[report[k].on] = "claimed"
       THEN Written(s, [s EXCEPT ![report[k].on] = report[k].as])
       ELSE Read(s)
  /\ report' = [report EXCEPT ![k] = ReportOver]
  /\ UNCHANGED <<due, aged, waitedOn, wait, claim, consented, crashes>>

-----------------------------------------------------------------------------
(* Time, consent and restarts.  A deadline matters to open records only.    *)
DeadlinePasses(r) ==
  /\ store[r] \in Open /\ ~due[r]
  /\ due' = [due EXCEPT ![r] = TRUE]
  /\ UNCHANGED <<store, aged, waitedOn, wait, claim, report, consented, crashes, faults>>

RetentionEnds(r) ==
  /\ store[r] \in Terminal /\ ~aged[r]
  /\ aged' = [aged EXCEPT ![r] = TRUE]
  /\ UNCHANGED <<store, due, waitedOn, wait, claim, report, consented, crashes, faults>>

RevokeConsent ==
  /\ Mishaps < MaxMishaps
  /\ consented /\ consented' = FALSE
  /\ UNCHANGED <<store, due, aged, waitedOn, wait, claim, report, crashes, faults>>

(* A restart loses the wait loops and their pins, never the records.        *)
Crash ==
  /\ Mishaps < MaxMishaps /\ crashes' = crashes + 1
  /\ waitedOn' = {}
  /\ wait' = [r \in Requests |-> IF wait[r] \in Waiting THEN "failed" ELSE wait[r]]
  /\ claim' = [k \in Claims |-> IF claim[k].at \in Calling THEN ClaimOver ELSE claim[k]]
  /\ report' = [k \in Reports |-> IF report[k].at \in Calling THEN ReportOver ELSE report[k]]
  /\ UNCHANGED <<store, due, aged, consented, faults>>

WaitStep(r) == CreateRequest(r) \/ Ask(r) \/ CheckProvider(r) \/ Land(r)

Next ==
  \/ \E r \in Requests : RequestRestore(r) \/ WaitStep(r) \/ DeadlinePasses(r) \/ RetentionEnds(r)
  \/ \E k \in Claims : (\E r \in Requests : Claim(k, r)) \/ ClaimReads(k) \/ ClaimDecides(k)
  \/ \E k \in Reports : (\E r \in Requests : Complete(k, r)) \/ CompleteReads(k) \/ CompleteDecides(k)
  \/ Poll \/ RevokeConsent \/ Crash

Spec == Init /\ [][Next]_vars

(* The wait loop goes on (its sleep is a timer), and deadlines pass.        *)
Fairness == \A r \in Requests : WF_vars(WaitStep(r)) /\ WF_vars(DeadlinePasses(r))

FairSpec == Spec /\ Fairness

-----------------------------------------------------------------------------
(* Properties. *)

(* The types of the variables, and a request is pinned exactly while a job  *)
(* of this process waits for it (retainWhileWaiting).                       *)
TypeOK ==
  /\ store \in [Requests -> Open \cup Terminal \cup {"none"}]
  /\ due \in [Requests -> BOOLEAN] /\ aged \in [Requests -> BOOLEAN]
  /\ wait \in [Requests -> Waiting \cup Over \cup {"idle"}]
  /\ claim \in [Claims -> [at : Calling \cup {"idle", "won", "over"},
                           on : Requests \cup {NoRequest}]]
  /\ report \in [Reports -> [at : Calling \cup {"idle", "over"},
                             on : Requests \cup {NoRequest}, as : {"completed", "failed"}]]
  /\ consented \in BOOLEAN /\ crashes \in Nat /\ faults \in Nat
  /\ waitedOn = {r \in Requests : wait[r] \in Waiting}

Won(k, r) == claim[k].at = "won" /\ claim[k].on = r

(* Of the claim calls for one request at most one is told it holds it.      *)
ClaimedOnce ==
  \A r \in Requests, k, l \in Claims : Won(k, r) /\ Won(l, r) => k = l

(* The same, as long as no access to the file has failed (claimRestoreRequest, *)
(* transition).                                                             *)
ExactlyOnceClaim == faults = 0 => ClaimedOnce

(* A request that is closed keeps its outcome until it is pruned: a late    *)
(* report does not revive an expired request, nor an expiry a completed one.*)
OutcomeStands ==
  [][\A r \in Requests : store[r] \in Terminal => store'[r] \in {store[r], "none"}]_vars

(* A job that waits finds its record whenever it asks: it takes a missing   *)
(* one for a provider that never answered (pruneTerminalRequests).          *)
WaiterKeepsRecord ==
  faults = 0 => \A r \in Requests : wait[r] \in {"asking", "checking", "landing"} => store[r] # "none"

(* Every wait ends, also if the provider never calls or the file fails.     *)
EveryWaitEnds == \A r \in Requests : wait[r] = "asking" ~> wait[r] \in Over
=============================================================================
