----------------------------- MODULE Provisioner -----------------------------
(***************************************************************************)
(* What the server keeps for its apps at the identity provider: per app an *)
(* OIDC client, or a forward-auth gate, or both (the gate as a fallback).  *)
(* Each is a provider and an application, whose name and slug are made of  *)
(* the app and the deployment alone; the gate is also a binding in the one *)
(* outpost all apps share                                                  *)
(* (packages/server/src/services/core/provisioner.ts, and provisionAuth,   *)
(* performDelete and onDeprovision of deployment.ts).                      *)
(*                                                                         *)
(* Every request is a step.  The lifecycle lock gives each deployment one  *)
(* job at a time; jobs of different deployments interleave.                *)
(*                                                                         *)
(* The identity provider addresses applications by their slug, so there is *)
(* one of a slug: the client and the gate of one app cannot both have      *)
(* theirs.  It refuses a second provider of one kind and name; whether it  *)
(* refuses one of the other kind, the code does not say, and it may do     *)
(* either here.  A request that fails may have been carried out all the    *)
(* same (it timed out).                                                    *)
(***************************************************************************)
EXTENDS Naturals, Sequences, SequencesExt

CONSTANTS
  Deployments,
  Dual,          \* those that want an OIDC client with a gate as its fallback
  MaxJobs,       \* bound on the jobs
  MaxTroubles    \* bound on requests and writes that fail, and on restarts

Parts == {"oidc", "gate"}
Wanted(d) == IF d \in Dual THEN <<"oidc", "gate">> ELSE <<"gate">>
Objects == Deployments \X Parts   \* the providers: their name, and their kind

VARIABLES
  providers, applications,   \* at the identity provider; applications by slug
  bound,      \* the deployments whose gate the outpost lists
  ref,        \* metadata.auth: the parts the record of each deployment refers to
  saved,      \* the same on disk
  job,
  installed,
  jobs, troubles,
  excused     \* uninstalls in which a request failed, so that something may stay

backend == <<providers, applications, bound>>
records == <<ref, saved, installed>>
counts  == <<jobs, troubles>>
vars == <<backend, records, job, counts, excused>>

(* todo: the parts still to come; fresh: the part at its head is being      *)
(* created; saw: the outpost as read; crossed: somebody wrote an older one; *)
(* tear: how far each part has been torn down.                              *)
NoTear == [p \in Parts |-> "none"]
NoJob  == [at |-> "idle", act |-> "none", todo |-> <<>>, fresh |-> FALSE,
           saw |-> {}, crossed |-> FALSE, tear |-> NoTear]

Init ==
  /\ providers = {} /\ applications = {} /\ bound = {}
  /\ ref = [d \in Deployments |-> {}] /\ saved = ref
  /\ job = [d \in Deployments |-> NoJob]
  /\ installed = Deployments
  /\ jobs = 0 /\ troubles = 0
  /\ excused = {}

Trouble == troubles < MaxTroubles /\ troubles' = troubles + 1
Part(d) == Head(job[d].todo)
Object(d) == <<d, Part(d)>>
GoTo(d, stage) ==
  job' = [job EXCEPT ![d] = IF stage = "idle" THEN NoJob ELSE [@ EXCEPT !.at = stage]]

-----------------------------------------------------------------------------
(* provisionAuth, in a start job. *)
Provision(d) ==
  /\ job[d].at = "idle" /\ d \in installed /\ jobs < MaxJobs
  /\ jobs' = jobs + 1
  /\ job' = [job EXCEPT ![d] = [NoJob EXCEPT !.at = "choosing", !.act = "start",
                                             !.todo = Wanted(d)]]
  /\ UNCHANGED <<backend, records, troubles, excused>>

(* Reuse what the record refers to, else create it; after the last part,    *)
(* the record is written.                                                   *)
Choose(d) ==
  /\ job[d].at = "choosing"
  /\ job' = [job EXCEPT ![d].at = IF job[d].todo = <<>> THEN "saving"
                                  ELSE IF Part(d) \in ref[d] THEN "reusing" ELSE "creating",
                        ![d].fresh = job[d].todo # <<>> /\ Part(d) \notin ref[d]]
  /\ UNCHANGED <<backend, records, counts, excused>>

(* Mutant: a gate that is reused is taken for bound.                        *)
ReboundIfFresh(d) == IF Part(d) = "gate" /\ job[d].fresh THEN "reading" ELSE "next"

(* The gate is bound to the outpost, also when it is reused.                *)
Rebound(d) == IF Part(d) = "gate" THEN "reading" ELSE "next"

Reuse(d) ==
  /\ job[d].at = "reusing"
  /\ \/ Object(d) \in providers /\ GoTo(d, Rebound(d)) /\ UNCHANGED troubles
     \/ Object(d) \notin providers /\ GoTo(d, "idle") /\ UNCHANGED troubles
     \/ Trouble /\ GoTo(d, "idle")
  /\ UNCHANGED <<backend, records, jobs, excused>>

CreateProvider(d) ==
  /\ job[d].at = "creating"
  /\ \/ /\ Object(d) \notin providers
        /\ providers' = providers \cup {Object(d)}
        /\ GoTo(d, "applying") /\ UNCHANGED troubles
     \/ /\ \E p \in Parts : <<d, p>> \in providers
        /\ GoTo(d, "idle") /\ UNCHANGED <<providers, troubles>>
     \/ /\ providers' \in {providers, providers \cup {Object(d)}}
        /\ GoTo(d, "idle") /\ Trouble
  /\ UNCHANGED <<applications, bound, records, jobs, excused>>

CreateApplication(d) ==
  /\ job[d].at = "applying"
  /\ \/ /\ d \notin applications
        /\ applications' = applications \cup {d}
        /\ GoTo(d, Rebound(d)) /\ UNCHANGED troubles
     \/ /\ d \in applications
        /\ GoTo(d, "rolling back") /\ UNCHANGED <<applications, troubles>>
     \/ /\ applications' \in {applications, applications \cup {d}}
        /\ GoTo(d, "rolling back") /\ Trouble
  /\ UNCHANGED <<providers, bound, records, jobs, excused>>

RollBack(d) ==
  /\ job[d].at = "rolling back"
  /\ \/ providers' = providers \ {Object(d)} /\ UNCHANGED troubles
     \/ providers' \in {providers, providers \ {Object(d)}} /\ Trouble
  /\ GoTo(d, "idle")
  /\ UNCHANGED <<applications, bound, records, jobs, excused>>

(* addProviderToEmbeddedOutpost reads the outpost and writes its list back. *)
ReadOutpost(d) ==
  /\ job[d].at = "reading"
  /\ \/ /\ job' = [job EXCEPT ![d].at = "binding", ![d].saw = bound]
        /\ UNCHANGED troubles
     \/ GoTo(d, "idle") /\ Trouble
  /\ UNCHANGED <<backend, records, jobs, excused>>

(* Whoever has read the outpost by now will write a list without this gate. *)
Rewriting(d) == job[d].at = "binding" \/ job[d].tear["gate"] = "unbinding"
Crossed(d)   == \E x \in Deployments \ {d} : Rewriting(x)

Bind(d) ==
  /\ job[d].at = "binding"
  /\ \/ /\ bound' = job[d].saw \cup {d}
        /\ job' = [job EXCEPT ![d].at = "grouping", ![d].saw = {}, ![d].crossed = Crossed(d)]
        /\ UNCHANGED troubles
     \/ /\ bound' \in {bound, job[d].saw \cup {d}}
        /\ GoTo(d, "idle") /\ Trouble
  /\ UNCHANGED <<providers, applications, records, jobs, excused>>

(* reconcileForwardAuthGroups: a new gate that cannot be restricted is torn *)
(* down again.                                                              *)
ReconcileGroups(d) ==
  /\ job[d].at = "grouping"
  /\ \/ GoTo(d, "next") /\ UNCHANGED troubles
     \/ GoTo(d, "idle") /\ ~job[d].fresh /\ Trouble
     \/ /\ job[d].fresh /\ Trouble
        /\ job' = [job EXCEPT ![d].tear["gate"] = "detaching", ![d].at = "tearing"]
  /\ UNCHANGED <<backend, records, jobs, excused>>

Advance(d) ==
  /\ job[d].at = "next"
  /\ job' = [job EXCEPT ![d].at = "choosing", ![d].todo = Tail(@)]
  /\ UNCHANGED <<backend, records, counts, excused>>

(* The refs, all at once; the record in memory changes even if the write    *)
(* throws.                                                                  *)
SaveRefs(d) ==
  /\ job[d].at = "saving"
  /\ ref' = [ref EXCEPT ![d] = ToSet(Wanted(d))]
  /\ \/ saved' = [saved EXCEPT ![d] = ref'[d]] /\ GoTo(d, "upping") /\ UNCHANGED troubles
     \/ Trouble /\ GoTo(d, "idle") /\ UNCHANGED saved
  /\ UNCHANGED <<backend, installed, jobs, excused>>

(* The app starts. *)
ComposeUp(d) ==
  /\ job[d].at = "upping"
  /\ job' = [job EXCEPT ![d] = NoJob]
  /\ UNCHANGED <<backend, records, counts, excused>>

-----------------------------------------------------------------------------
(* Mutant: without a ref there is nothing to tear down.                     *)
LeftoversByRef(d) == ref[d]

(* onDeprovision: what the record refers to, or, when it refers to nothing, *)
(* what the manifest declares, by name.                                     *)
Leftovers(d) == IF ref[d] # {} THEN ref[d] ELSE ToSet(Wanted(d))

(* A gate that is known by name only is looked up first; a client when its  *)
(* provider is deleted.                                                     *)
Torn(d, parts) ==
  [p \in Parts |-> IF p \notin parts THEN "none"
                   ELSE IF p = "oidc" THEN "application"
                   ELSE IF ref[d] = {} THEN "looking" ELSE "detaching"]

(* performDelete, in an uninstall job; a manifest that cannot be read       *)
(* declares nothing.                                                        *)
Uninstall(d) ==
  /\ job[d].at = "idle" /\ d \in installed /\ jobs < MaxJobs
  /\ jobs' = jobs + 1
  /\ \/ /\ job' = [job EXCEPT ![d] = [NoJob EXCEPT !.at = "tearing", !.act = "uninstall",
                                                  !.tear = Torn(d, Leftovers(d))]]
        /\ excused' = excused \ {d}
        /\ UNCHANGED troubles
     \/ /\ ref[d] = {} /\ Trouble
        /\ job' = [job EXCEPT ![d] = [NoJob EXCEPT !.at = "tearing", !.act = "uninstall"]]
        /\ excused' = excused \cup {d}
  /\ UNCHANGED <<backend, records>>

(* The parts are torn down side by side, and a request that fails ends what *)
(* it is for.                                                               *)
Stage(d, p, stage) ==
  job' = [job EXCEPT ![d].tear[p] = stage, ![d].saw = IF p = "gate" THEN {} ELSE @]
Left(d) == Trouble /\ excused' = excused \cup {d}

(* findProviderPkByName: a gate that is not found has nothing to detach, nor*)
(* has one that cannot be looked up.                                        *)
LookUp(d) ==
  /\ job[d].tear["gate"] = "looking"
  /\ \/ /\ Stage(d, "gate", IF <<d, "gate">> \in providers THEN "detaching"
                                                            ELSE "lone application")
        /\ UNCHANGED <<troubles, excused>>
     \/ Stage(d, "gate", "lone application") /\ Left(d)
  /\ UNCHANGED <<backend, records, jobs>>

(* removeProviderFromOutpost: an error is logged.                           *)
Detach(d) ==
  /\ \/ /\ job[d].tear["gate"] = "detaching"
        /\ \/ /\ job' = [job EXCEPT ![d].tear["gate"] = "unbinding", ![d].saw = bound]
              /\ UNCHANGED troubles
           \/ Stage(d, "gate", "application") /\ Trouble
        /\ UNCHANGED bound
     \/ /\ job[d].tear["gate"] = "unbinding"
        /\ \/ bound' = job[d].saw \ {d} /\ UNCHANGED troubles
           \/ bound' \in {bound, job[d].saw \ {d}} /\ Trouble
        /\ Stage(d, "gate", "application")
  /\ UNCHANGED <<providers, applications, records, jobs, excused>>

(* The application, by its slug, then the provider.                         *)
DeleteApplication(d, p) ==
  /\ job[d].tear[p] \in {"application", "lone application"}
  /\ \/ /\ applications' = applications \ {d}
        /\ Stage(d, p, IF job[d].tear[p] = "application" THEN "provider" ELSE "none")
        /\ UNCHANGED <<troubles, excused>>
     \/ /\ applications' \in {applications, applications \ {d}}
        /\ Stage(d, p, "none") /\ Left(d)
  /\ UNCHANGED <<providers, bound, records, jobs>>

DeleteProvider(d, p) ==
  /\ job[d].tear[p] = "provider"
  /\ \/ /\ providers' = providers \ {<<d, p>>}
        /\ UNCHANGED <<troubles, excused>>
     \/ /\ providers' \in {providers, providers \ {<<d, p>>}}
        /\ Left(d)
  /\ Stage(d, p, "none")
  /\ UNCHANGED <<applications, bound, records, jobs>>

(* A start has failed; the record of an uninstall goes, whatever became of  *)
(* the rest.                                                                *)
TornDown(d) ==
  /\ job[d].at = "tearing" /\ job[d].tear = NoTear
  /\ IF job[d].act = "uninstall"
     THEN /\ installed' = installed \ {d}
          /\ ref' = [ref EXCEPT ![d] = {}] /\ saved' = [saved EXCEPT ![d] = {}]
     ELSE UNCHANGED records
  /\ job' = [job EXCEPT ![d] = NoJob]
  /\ UNCHANGED <<backend, counts, excused>>

Crash ==
  /\ \E d \in Deployments : job[d].at # "idle"
  /\ Trouble
  /\ ref' = saved
  /\ job' = [d \in Deployments |-> NoJob]
  /\ UNCHANGED <<backend, saved, installed, jobs, excused>>

-----------------------------------------------------------------------------
JobStep(d) ==
  \/ Choose(d) \/ Reuse(d) \/ CreateProvider(d) \/ CreateApplication(d) \/ RollBack(d)
  \/ ReadOutpost(d) \/ Bind(d) \/ ReconcileGroups(d) \/ Advance(d) \/ SaveRefs(d) \/ ComposeUp(d)
  \/ LookUp(d) \/ Detach(d) \/ TornDown(d)
  \/ \E p \in Parts : DeleteApplication(d, p) \/ DeleteProvider(d, p)

Next ==
  \/ \E d \in Deployments : Provision(d) \/ Uninstall(d) \/ JobStep(d)
  \/ Crash

Spec == Init /\ [][Next]_vars

-----------------------------------------------------------------------------
Stages == {"idle", "choosing", "reusing", "creating", "applying", "rolling back", "reading",
           "binding", "grouping", "next", "saving", "upping", "tearing"}
Tears  == {"none", "looking", "detaching", "unbinding", "application", "lone application",
           "provider"}
Todos == {<<>>, <<"oidc">>, <<"gate">>, <<"oidc", "gate">>}
Jobs == [at : Stages, act : {"none", "start", "uninstall"}, todo : Todos, fresh : BOOLEAN,
         saw : SUBSET Deployments, crossed : BOOLEAN, tear : [Parts -> Tears]]

(* Types of the variables of the provisioner. *)
TypeOK ==
  /\ providers \subseteq Objects /\ applications \subseteq Deployments /\ bound \subseteq Deployments
  /\ ref \in [Deployments -> SUBSET Parts] /\ saved \in [Deployments -> SUBSET Parts]
  /\ job \in [Deployments -> Jobs]
  /\ installed \subseteq Deployments /\ excused \subseteq Deployments
  /\ jobs \in 0..MaxJobs /\ troubles \in 0..MaxTroubles

(* An uninstall none of whose requests fails leaves no client, gate or      *)
(* application behind, whatever failed or was cut short in the jobs before. *)
NothingOrphaned ==
  \A d \in Deployments \ (installed \cup excused) :
    d \notin applications /\ \A p \in Parts : <<d, p>> \notin providers

(* An app comes up only with its gate in the outpost, also if an update of  *)
(* another app's had dropped it, unless such an update crosses this start.  *)
StartsBound == \A d \in Deployments : ComposeUp(d) => d \in bound \/ job[d].crossed

-----------------------------------------------------------------------------
(* The inductive invariant behind both, one deployment at a time.           *)
Shapes ==
  /\ providers \subseteq Objects /\ applications \subseteq Deployments /\ bound \subseteq Deployments
  /\ ref \in [Deployments -> SUBSET Parts] /\ saved \in [Deployments -> SUBSET Parts]
  /\ job \in [Deployments -> Jobs]
  /\ installed \subseteq Deployments /\ excused \subseteq Deployments

(* What a job is at, what it is for and what it has before it agree.        *)
Acting(d) ==
  LET j == job[d] IN
  /\ j.at = "idle" => j = NoJob
  /\ d \notin installed => j.at = "idle"
  /\ j.at # "idle" => j.act # "none"
  /\ j.act = "start" => j.todo \in {Wanted(d), <<"gate">>, <<>>}
  /\ j.at \notin {"idle", "tearing"} => j.act = "start" /\ j.tear = NoTear
  /\ j.at \notin {"idle", "choosing", "tearing", "saving", "upping"} => j.todo # <<>>
  /\ j.at \in {"saving", "upping"} => j.todo = <<>>
  /\ j.at \in {"reading", "binding", "grouping"} => Part(d) = "gate"

(* A deployment has no objects and no refs but those of the parts it wants. *)
Owns(d) ==
  /\ \A p \in Parts : <<d, p>> \in providers => p \in ToSet(Wanted(d))
  /\ ref[d] \in {{}, ToSet(Wanted(d))} /\ saved[d] \in {{}, ToSet(Wanted(d))}

(* The tear-down of a part that has its application, or its provider, still *)
(* before it.                                                               *)
BeforeApplication == {"looking", "detaching", "unbinding", "application", "lone application"}
BeforeProvider    == {"looking", "detaching", "unbinding", "application", "provider"}

(* What an uninstall has been through is gone, and so is what is gone.      *)
Cleared(d) ==
  d \notin excused =>
    /\ job[d].act = "uninstall" =>
         /\ d \in applications => \E p \in Parts : job[d].tear[p] \in BeforeApplication
         /\ \A p \in Parts : <<d, p>> \in providers => job[d].tear[p] \in BeforeProvider
    /\ d \notin installed => d \notin applications /\ \A p \in Parts : <<d, p>> \notin providers

(* Once a start has bound its gate, all who write the list know of it.      *)
HasBound(d) ==
  /\ job[d].act = "start"
  /\ \/ job[d].at = "grouping"
     \/ job[d].at = "next" /\ Part(d) = "gate"
     \/ job[d].at \in {"choosing", "saving", "upping"} /\ job[d].todo = <<>>

StaysBound(d) ==
  HasBound(d) /\ ~job[d].crossed =>
    d \in bound /\ \A x \in Deployments \ {d} : Rewriting(x) => d \in job[x].saw

IdentityInv ==
  Shapes /\ \A d \in Deployments : Acting(d) /\ Owns(d) /\ Cleared(d) /\ StaysBound(d)

=============================================================================
