---------------------------- MODULE BackupBroker ----------------------------
(***************************************************************************)
(* The backup@1 contract: a provider announces a backup (prepare), every   *)
(* participating app writes a dump (its preHook), the provider captures    *)
(* the data roots and finalizes, and every app removes its dump (its       *)
(* postHook).  A prepare that nobody finalizes expires                     *)
(* (packages/server/src/services/core/deployment.ts,                       *)
(* backup-broker-state.ts).                                                *)
(*                                                                         *)
(* Three handlers run the postHooks of everybody: the prepare call, when   *)
(* it finds an expired prepare; the timer armed for the open prepare; the  *)
(* finalize call.  They and the prepare job share nothing but the record   *)
(* on disk and the dumps, and hold no lock.                                *)
(*                                                                         *)
(* Time is abstract: the window of a prepare passes at some moment after   *)
(* it was opened, in the order of opening.  A provider works one round     *)
(* after the other, may stop for good or come back at any point, and comes *)
(* back only when the server is done with what it had asked for.           *)
(***************************************************************************)
EXTENDS Naturals, Sequences

CONSTANTS
  Apps,        \* participations with hooks, numbered in the order they run in
  MaxRounds,   \* bound on the rounds of the provider
  MaxMishaps   \* bound on restarts, stopped apps, failing postHooks, failing
               \* reads, lost writes and withdrawn consent, together

Rounds   == 1..MaxRounds
None     == 0
Sweepers == {"prepare", "timer", "finalize"}

VARIABLES
  up,        \* apps that run
  dump,      \* the round whose dump lies in the data root of each app, or None
  record,    \* config/backup-broker.json: the open prepare, or None
  windows,   \* rounds in the order their prepares were opened
  passed,    \* how many of these opened longer ago than prepareTimeoutMs
  timer,     \* the round prepareExpiryTimer is armed for, or None
  provider,  \* what the provider does, and in which round
  job,       \* the prepare job
  sweep,     \* what each of the handlers that run postHooks does
  consented,
  mishaps,
  givenUp,   \* something happened after which the code lets a dump lie
  disarmed   \* a prepare is open and no timer watches it (the server restarted,
             \* or the timer could not read the record), and nobody came since

clock  == <<windows, passed>>
ghosts == <<mishaps, givenUp, disarmed>>
vars == <<up, dump, record, clock, timer, provider, job, sweep, consented, ghosts>>

Dumping == {a \in Apps : dump[a] # None}
First(S) == CHOOSE a \in S : \A b \in S : a <= b

NoSweep == [at |-> "idle", todo |-> {}, saw |-> None]
NoJob   == [at |-> "idle", todo |-> {}, started |-> {}]

Init ==
  /\ up = Apps
  /\ dump = [a \in Apps |-> None]
  /\ record = None
  /\ windows = <<>> /\ passed = 0
  /\ timer = None
  /\ provider = [at |-> "idle", round |-> 0]
  /\ job = NoJob
  /\ sweep = [w \in Sweepers |-> NoSweep]
  /\ consented = TRUE
  /\ mishaps = 0
  /\ givenUp = FALSE /\ disarmed = FALSE

(* isPrepareExpired: prepare r has been open for longer than its window.    *)
Expired(r) == \E i \in 1..passed : windows[i] = r

-----------------------------------------------------------------------------
(* The provider. *)
Prepare ==
  /\ provider.at = "idle" /\ provider.round < MaxRounds /\ consented
  /\ job.at = "idle" /\ sweep["prepare"].at = "idle" /\ sweep["finalize"].at = "idle"
  /\ provider' = [at |-> "preparing", round |-> provider.round + 1]
  /\ sweep' = [sweep EXCEPT !["prepare"].at = "looking"]
  /\ job' = NoJob
  /\ UNCHANGED <<up, dump, record, clock, timer, consented, ghosts>>

(* Without consent the call is refused. *)
Finalize ==
  /\ provider.at = "capturing"
  /\ IF consented
     THEN /\ provider' = [provider EXCEPT !.at = "finalizing"]
          /\ sweep' = [sweep EXCEPT !["finalize"].at = "listing"]
     ELSE /\ provider' = [provider EXCEPT !.at = "idle"]
          /\ UNCHANGED sweep
  /\ UNCHANGED <<up, dump, record, clock, timer, job, consented, ghosts>>

(* The provider dies and comes back; the server goes on with its call.      *)
Abandon ==
  /\ provider.at # "idle"
  /\ provider' = [provider EXCEPT !.at = "idle"]
  /\ UNCHANGED <<up, dump, record, clock, timer, job, sweep, consented, ghosts>>

-----------------------------------------------------------------------------
(* The handlers that run postHooks. *)

(* expireOpenPrepareIfStale, of the record as it was read.                  *)
Judged(w, seen) ==
  sweep' = [sweep EXCEPT
    ![w].at = IF seen # None /\ Expired(seen) THEN "listing"
              ELSE IF w = "prepare" THEN "enqueueing" ELSE "idle",
    ![w].saw = seen]

(* A record that cannot be read counts as empty (JsonRecordStore.read): no  *)
(* prepare is open, and nothing has expired.                                *)
Look(w) ==
  /\ sweep[w].at = "looking"
  /\ \/ Judged(w, record) /\ UNCHANGED <<mishaps, disarmed>>
     \/ /\ mishaps < MaxMishaps
        /\ Judged(w, None)
        /\ mishaps' = mishaps + 1
        /\ disarmed' = (disarmed \/ (w = "timer" /\ timer = None /\ record # None))
  /\ UNCHANGED <<up, dump, record, clock, timer, provider, job, consented, givenUp>>

(* backupParticipants: the apps that run now, without one whose manifest    *)
(* cannot be read.                                                          *)
Participants == {up} \cup (IF mishaps < MaxMishaps THEN {up \ {a} : a \in up} ELSE {})
MissesCount(S) == mishaps' = IF S = up THEN mishaps ELSE mishaps + 1

List(w) ==
  /\ sweep[w].at = "listing"
  /\ \E S \in Participants :
       /\ sweep' = [sweep EXCEPT ![w].at = "sweeping", ![w].todo = S]
       /\ givenUp' = (givenUp \/ \E a \in up \ S : dump[a] # None)
       /\ MissesCount(S)
  /\ UNCHANGED <<up, dump, record, clock, timer, provider, job, consented, disarmed>>

(* runParticipationHook with a postHook: in a stopped app it fails, and it  *)
(* may fail in a running one; nothing comes of it.                          *)
Cleaned(a) ==
  \/ /\ a \in up
     /\ dump' = [dump EXCEPT ![a] = None]
     /\ UNCHANGED <<mishaps, givenUp>>
  \/ /\ a \notin up
     /\ UNCHANGED <<dump, mishaps, givenUp>>
  \/ /\ a \in up /\ mishaps < MaxMishaps
     /\ mishaps' = mishaps + 1
     /\ givenUp' = (givenUp \/ dump[a] # None)
     /\ UNCHANGED dump

PostHook(w) ==
  /\ sweep[w].at = "sweeping" /\ sweep[w].todo # {}
  /\ Cleaned(First(sweep[w].todo))
  /\ sweep' = [sweep EXCEPT ![w].todo = @ \ {First(@)}]
  /\ UNCHANGED <<up, record, clock, timer, provider, job, consented, disarmed>>

(* The record is closed, whatever prepare it names by now.  A write that is *)
(* lost (JsonRecordStore.write) leaves it open.                             *)
Close(w) ==
  /\ sweep[w].at = "sweeping" /\ sweep[w].todo = {}
  /\ \/ /\ record' = None
        /\ givenUp' = (givenUp \/ (w # "finalize" /\ record \notin {None, sweep[w].saw}))
        /\ UNCHANGED mishaps
     \/ /\ mishaps < MaxMishaps
        /\ mishaps' = mishaps + 1
        /\ UNCHANGED <<record, givenUp>>
  /\ sweep' = [sweep EXCEPT ![w] = IF w = "prepare" THEN [NoSweep EXCEPT !.at = "enqueueing"] ELSE NoSweep]
  /\ timer' = IF w = "finalize" THEN None ELSE timer
  /\ disarmed' = (disarmed /\ record' # None)
  /\ provider' = IF w = "finalize" /\ provider.at = "finalizing"
                 THEN [provider EXCEPT !.at = "idle"] ELSE provider
  /\ UNCHANGED <<up, dump, clock, job, consented>>

(* The end of prepareContractBackup: no app to quiesce, no job.             *)
Enqueue ==
  /\ sweep["prepare"].at = "enqueueing"
  /\ sweep' = [sweep EXCEPT !["prepare"] = NoSweep]
  /\ \E S \in Participants :
       /\ job' = IF S = {} THEN NoJob ELSE [NoJob EXCEPT !.at = "queued"]
       /\ provider' = IF provider.at = "preparing"
                      THEN [provider EXCEPT !.at = IF S = {} THEN "capturing" ELSE "waiting"]
                      ELSE provider
       /\ MissesCount(S)
  /\ UNCHANGED <<up, dump, record, clock, timer, consented, givenUp, disarmed>>

(* Mutant: the expired timer is not armed for anything. *)
NoTimer(r) == None

ArmedFor(r) == r

TimerFires ==
  /\ timer # None /\ Expired(timer) /\ sweep["timer"].at = "idle"
  /\ timer' = None
  /\ sweep' = [sweep EXCEPT !["timer"].at = "looking"]
  /\ UNCHANGED <<up, dump, record, clock, provider, job, consented, ghosts>>

-----------------------------------------------------------------------------
(* runContractBackupPrepare. *)
StartJob ==
  /\ job.at = "queued"
  /\ \E S \in Participants :
       /\ job' = [job EXCEPT !.at = "dumping", !.todo = S]
       /\ MissesCount(S)
  /\ UNCHANGED <<up, dump, record, clock, timer, provider, sweep, consented, givenUp, disarmed>>

(* Mutant: a hook counts as started once it has succeeded. *)
StartedIfOk(a, ok) == IF ok THEN job.started \cup {a} ELSE job.started

(* The participations whose preHook was started. *)
Started(a, ok) == job.started \cup {a}

(* A preHook that fails in a running app may have written some of its dump. *)
PreHook ==
  LET a == First(job.todo) IN
  /\ job.at = "dumping" /\ job.todo # {}
  /\ \E ok \in BOOLEAN :
       /\ ok => a \in up
       /\ dump' \in {[dump EXCEPT ![a] = IF a \in up THEN provider.round ELSE @]}
                    \cup (IF ok THEN {} ELSE {dump})
       /\ job' = IF ok THEN [job EXCEPT !.todo = @ \ {a}, !.started = Started(a, ok)]
                 ELSE [at |-> "cleaning", todo |-> Started(a, ok), started |-> Started(a, ok)]
  /\ UNCHANGED <<up, record, clock, timer, provider, sweep, consented, ghosts>>

(* The operator's cancel is noticed before the next preHook. *)
NoticeCancel ==
  /\ job.at = "dumping" /\ job.todo # {}
  /\ job' = [job EXCEPT !.at = "cleaning", !.todo = job.started]
  /\ UNCHANGED <<up, dump, record, clock, timer, provider, sweep, consented, ghosts>>

CleanUp ==
  /\ job.at = "cleaning" /\ job.todo # {}
  /\ Cleaned(First(job.todo))
  /\ job' = [job EXCEPT !.todo = @ \ {First(@)}]
  /\ UNCHANGED <<up, record, clock, timer, provider, sweep, consented, disarmed>>

(* The job ends; a provider that waits for it hears of it. *)
JobFails ==
  /\ job.at = "cleaning" /\ job.todo = {}
  /\ job' = [job EXCEPT !.at = "idle"]
  /\ provider' = IF provider.at = "waiting" THEN [provider EXCEPT !.at = "idle"] ELSE provider
  /\ UNCHANGED <<up, dump, record, clock, timer, sweep, consented, ghosts>>

(* openPrepare writes the record and then arms the timer. *)
OpenPrepare ==
  /\ job.at = "dumping" /\ job.todo = {}
  /\ \/ /\ record' = provider.round
        /\ UNCHANGED <<mishaps, givenUp>>
     \/ /\ mishaps < MaxMishaps
        /\ mishaps' = mishaps + 1 /\ givenUp' = TRUE
        /\ UNCHANGED record
  /\ windows' = Append(windows, provider.round)
  /\ job' = [job EXCEPT !.at = "arming"]
  /\ UNCHANGED <<up, dump, passed, timer, provider, sweep, consented, disarmed>>

ArmTimer ==
  /\ job.at = "arming"
  /\ timer' = ArmedFor(provider.round)
  /\ disarmed' = FALSE
  /\ job' = [job EXCEPT !.at = "idle"]
  /\ provider' = IF provider.at = "waiting" THEN [provider EXCEPT !.at = "capturing"] ELSE provider
  /\ UNCHANGED <<up, dump, record, clock, sweep, consented, mishaps, givenUp>>

-----------------------------------------------------------------------------
(* The world. *)
WindowPasses ==
  /\ passed < Len(windows)
  /\ passed' = passed + 1
  /\ UNCHANGED <<up, dump, record, windows, timer, provider, job, sweep, consented, ghosts>>

StopApp(a) ==
  /\ a \in up /\ mishaps < MaxMishaps
  /\ up' = up \ {a}
  /\ mishaps' = mishaps + 1
  /\ givenUp' = (givenUp \/ dump[a] # None)
  /\ UNCHANGED <<dump, record, clock, timer, provider, job, sweep, consented, disarmed>>

StartApp(a) ==
  /\ a \in Apps \ up
  /\ up' = up \cup {a}
  /\ UNCHANGED <<dump, record, clock, timer, provider, job, sweep, consented, ghosts>>

(* The provider is uninstalled or loses its consent. *)
Withdraw ==
  /\ consented /\ mishaps < MaxMishaps
  /\ consented' = FALSE
  /\ mishaps' = mishaps + 1
  /\ UNCHANGED <<up, dump, record, clock, timer, provider, job, sweep, givenUp, disarmed>>

(* The server stops: the timer and every handler are gone, a running job is *)
(* failed when it starts again (nothing cleans up), a queued one is kept.   *)
Crash ==
  /\ mishaps < MaxMishaps
  /\ mishaps' = mishaps + 1
  /\ timer' = None
  /\ sweep' = [w \in Sweepers |-> NoSweep]
  /\ job' = IF job.at \in {"idle", "queued"} THEN job ELSE [job EXCEPT !.at = "idle"]
  /\ provider' = IF \/ provider.at \in {"preparing", "finalizing"}
                    \/ provider.at = "waiting" /\ job'.at = "idle"
                 THEN [provider EXCEPT !.at = "idle"] ELSE provider
  /\ givenUp' = (givenUp \/ (job'.at # job.at /\ Dumping # {}))
  /\ disarmed' = (record # None)
  /\ UNCHANGED <<up, dump, record, clock, consented>>

-----------------------------------------------------------------------------
Sweeping(w) == (w # "finalize" /\ Look(w)) \/ List(w) \/ PostHook(w) \/ Close(w)

JobStep == StartJob \/ PreHook \/ NoticeCancel \/ CleanUp \/ JobFails \/ OpenPrepare \/ ArmTimer

Next ==
  \/ Prepare \/ Finalize \/ Abandon
  \/ \E w \in Sweepers : Sweeping(w)
  \/ Enqueue \/ TimerFires \/ JobStep
  \/ WindowPasses \/ Withdraw \/ Crash
  \/ \E a \in Apps : StopApp(a) \/ StartApp(a)

Spec == Init /\ [][Next]_vars

(* Handlers, jobs and timers go on and time passes; the provider and the    *)
(* operator need not do anything.                                           *)
Fairness ==
  /\ \A w \in Sweepers : WF_vars(Sweeping(w))
  /\ WF_vars(Enqueue) /\ WF_vars(TimerFires) /\ WF_vars(JobStep) /\ WF_vars(WindowPasses)

FairSpec == Spec /\ Fairness

-----------------------------------------------------------------------------
(* Types of the variables of the backup broker.                             *)
TypeOK ==
  /\ up \subseteq Apps
  /\ dump \in [Apps -> Rounds \cup {None}]
  /\ record \in Rounds \cup {None} /\ timer \in Rounds \cup {None}
  /\ windows \in Seq(Rounds) /\ passed \in 0..Len(windows)
  /\ provider \in [at : {"idle", "preparing", "waiting", "capturing", "finalizing"}, round : 0..MaxRounds]
  /\ job \in [at : {"idle", "queued", "dumping", "cleaning", "arming"},
              todo : SUBSET Apps, started : SUBSET Apps]
  /\ sweep \in [Sweepers -> [at : {"idle", "looking", "listing", "sweeping", "enqueueing"},
                             todo : SUBSET Apps, saw : Rounds \cup {None}]]
  /\ consented \in BOOLEAN /\ givenUp \in BOOLEAN /\ disarmed \in BOOLEAN
  /\ mishaps \in 0..MaxMishaps

(* Dumps do not lie in the data roots for ever: with or without the         *)
(* provider they are removed, unless a hook, an app, a manifest or a write  *)
(* failed, or no timer watches the open prepare (the server restarted, or   *)
(* the timer could not read the record) and no prepare call came since.     *)
Released == Dumping = {} \/ givenUp \/ disarmed

DumpsReleased == (Dumping # {}) ~> Released
=============================================================================
