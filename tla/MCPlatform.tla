----------------------------- MODULE MCPlatform -----------------------------
(***************************************************************************)
(* Instances for TLC of components that share no state with each other or  *)
(* with the job queue, and that promise something eventually:              *)
(* each is a module of its own, and a behaviour is one of any of them.     *)
(* Its first state picks the component.  Only that one moves, so all of    *)
(* them use the same variables.                                            *)
(***************************************************************************)
EXTENDS Naturals

CONSTANT Providers

VARIABLES
  which,     \* the component that runs
  v1, v2, v3, v4, v5, v6, v7, v8, v9, v10, v11, v12, v13

(* The backup contract: two apps with hooks, two rounds of the provider.    *)
B == INSTANCE BackupBroker WITH
  Apps <- {1, 2}, MaxRounds <- 2, MaxMishaps <- 2,
  up <- v1, dump <- v2, record <- v3, windows <- v4, passed <- v5,
  timer <- v6, provider <- v7, job <- v8, sweep <- v9, consented <- v10,
  mishaps <- v11, givenUp <- v12, disarmed <- v13
(* The published restore indexes: two providers.                            *)
X == INSTANCE RestoreIndex WITH
  Providers <- Providers, MaxCaptures <- 2, MaxFaults <- 2,
  index <- v1, held <- v2, installed <- v3, call <- v4, faulted <- v5
(* An install from a capture, and its retries.                              *)
R == INSTANCE RestoreOnInstall WITH
  MaxJobs <- 3, MaxTroubles <- 3,
  record <- v1, saved <- v2, root <- v3, app <- v4, job <- v5, source <- v6,
  jobs <- v7, troubles <- v8, excused <- v9
(* A page of the dashboard, through two states of a deployment and its      *)
(* removal.                                                                 *)
L == INSTANCE LiveView WITH
  MaxVersion <- 2, Acts <- FALSE, MaxAttempts <- 2, MaxTroubles <- 2,
  server <- v1, announced <- v2, events <- v3, subscribed <- v4,
  client <- v5, attempts <- v6, connectedOnce <- v7, view <- v8, cache <- v9,
  stray <- v10, act <- v11, missed <- v12, troubles <- v13

vars == <<which, v1, v2, v3, v4, v5, v6, v7, v8, v9, v10, v11, v12, v13>>

-----------------------------------------------------------------------------
Init ==
  \/ which = "backup" /\ B!Init
  \/ /\ which = "index" /\ X!Init
     /\ v6 = 0 /\ v7 = 0 /\ v8 = 0 /\ v9 = 0 /\ v10 = 0 /\ v11 = 0 /\ v12 = 0 /\ v13 = 0
  \/ /\ which = "install" /\ R!Init
     /\ v10 = 0 /\ v11 = 0 /\ v12 = 0 /\ v13 = 0
  \/ which = "live" /\ L!Init

Next ==
  /\ UNCHANGED which
  /\ \/ which = "backup" /\ B!Next
     \/ /\ which = "index" /\ X!Next
        /\ UNCHANGED <<v6, v7, v8, v9, v10, v11, v12, v13>>
     \/ /\ which = "install" /\ R!Next
        /\ UNCHANGED <<v10, v11, v12, v13>>
     \/ which = "live" /\ L!Next

Spec == Init /\ [][Next]_vars

allVars     == <<v1, v2, v3, v4, v5, v6, v7, v8, v9, v10, v11, v12, v13>>
indexVars   == <<v1, v2, v3, v4, v5>>
installVars == <<v1, v2, v3, v4, v5, v6, v7, v8, v9>>

(* The fairness each component states, for the one that runs.               *)
Fairness ==
  /\ \A w \in B!Sweepers : WF_allVars(which = "backup" /\ B!Sweeping(w))
  /\ WF_allVars(which = "backup" /\ B!Enqueue)
  /\ WF_allVars(which = "backup" /\ B!TimerFires)
  /\ WF_allVars(which = "backup" /\ B!JobStep)
  /\ WF_allVars(which = "backup" /\ B!WindowPasses)
  /\ \A q \in Providers : /\ WF_indexVars(which = "index" /\ X!Poll(q))
                          /\ WF_indexVars(which = "index" /\ X!Handling(q))
  /\ WF_installVars(which = "install" /\ R!JobStep)
  /\ WF_allVars(which = "live" /\ L!Fetching)
  /\ WF_allVars(which = "live" /\ L!Emit)
  /\ WF_allVars(which = "live" /\ L!Streaming)

FairSpec == Spec /\ Fairness

-----------------------------------------------------------------------------
(* Types of the variables of every component.                               *)
TypesOK ==
  CASE which = "backup" -> B!TypeOK
    [] which = "index" -> X!TypeOK
    [] which = "install" -> R!TypeOK
    [] which = "live" -> L!TypeOK

(* backup@1: dumps do not stay in the data roots of the apps.               *)
DumpsReleased == (which = "backup" /\ B!Dumping # {}) ~> (which = "backup" => B!Released)

(* restore@1: an installed provider is listed again after a lost update.    *)
IndexHeals == \A q \in Providers : []<>(which = "index" => X!ListedIfInstalled(q))

(* The source of a restore is not left prepared.                            *)
SourceReleased == (which = "install" /\ R!Prepared) ~> (which = "install" => ~R!Prepared \/ R!Excused)

(* However the stream is lost and found again, an open view ends up showing *)
(* what the server says, unless the code lets it miss something.            *)
ViewsConverge == <>[](which = "live" => L!CurrentOrMissed)
=============================================================================
