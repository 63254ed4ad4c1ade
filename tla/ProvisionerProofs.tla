-------------------------- MODULE ProvisionerProofs --------------------------
(***************************************************************************)
(* Proofs about Provisioner: what an uninstall leaves behind and what an   *)
(* app is bound to when it comes up, for any deployments, jobs, failures   *)
(* and restarts.                                                           *)
(*                                                                         *)
(* IdentityInv holds of each deployment by itself, but for the list of the *)
(* outpost, which all share.  StepKeeps says once what a step of one job   *)
(* owes to the others: their objects, and their place in the list.         *)
(* StartStepKeeps and TearStepKeeps are the steps of a start and of a      *)
(* tear-down; then there is one lemma for each action of the module.       *)
(***************************************************************************)
EXTENDS Provisioner, TLAPS

-----------------------------------------------------------------------------
(* What a list of parts can be, and what its head and tail are.             *)
LEMMA TodoIs ==
  ASSUME NEW t \in Todos
  PROVE  /\ ToSet(t) \subseteq Parts
         /\ t # <<>> => /\ Head(t) \in Parts /\ Tail(t) \in Todos
                        /\ ToSet(t) = {Head(t)} \cup ToSet(Tail(t)) /\ Head(t) \notin ToSet(Tail(t))
         /\ t # <<>> /\ Head(t) = "gate" => t = <<"gate">> /\ Tail(t) = <<>>
<1>1. CASE t = <<>>
  BY <1>1 DEF ToSet
<1>2. CASE t = <<"oidc">>
  <2>1. Head(t) = "oidc" /\ Tail(t) = <<>> /\ ToSet(t) = {"oidc"} /\ ToSet(<<>>) = {}
    BY <1>2 DEF ToSet
  <2> QED
    BY <1>2, <2>1 DEF Parts, Todos
<1>3. CASE t = <<"gate">>
  <2>1. Head(t) = "gate" /\ Tail(t) = <<>> /\ ToSet(t) = {"gate"} /\ ToSet(<<>>) = {}
    BY <1>3 DEF ToSet
  <2> QED
    BY <1>3, <2>1 DEF Parts, Todos
<1>4. CASE t = <<"oidc", "gate">>
  <2>1. Head(t) = "oidc" /\ Tail(t) = <<"gate">>
    BY <1>4
  <2>2. ToSet(t) = {"oidc", "gate"} /\ ToSet(<<"gate">>) = {"gate"}
    BY <1>4 DEF ToSet
  <2> QED
    BY <1>4, <2>1, <2>2 DEF Parts, Todos
<1> QED
  BY <1>1, <1>2, <1>3, <1>4 DEF Todos

(* What an app wants, and what the two refs of a record are as a list.      *)
LEMMA WantedIs ==
  /\ \A d : Wanted(d) \in Todos /\ Wanted(d) \in {<<"oidc", "gate">>, <<"gate">>}
     /\ Wanted(d) # <<>>
  /\ <<"gate">> \in Todos /\ <<>> \in Todos
  /\ \A d : ToSet(<<"gate">>) \subseteq ToSet(Wanted(d)) /\ ToSet(<<>>) = {}
  /\ \A d : ToSet(Wanted(d)) \in SUBSET Parts /\ "gate" \in ToSet(Wanted(d))
<1>1. ToSet(<<>>) = {} /\ ToSet(<<"gate">>) = {"gate"}
      /\ ToSet(<<"oidc", "gate">>) = {"oidc", "gate"}
  BY DEF ToSet
<1> QED
  BY <1>1 DEF Wanted, Todos, Parts

(* With its refs or without, an app has left what it wants.                 *)
LEMMA LeftoversIs ==
  ASSUME NEW d, ref[d] \in {{}, ToSet(Wanted(d))}
  PROVE  Leftovers(d) = ToSet(Wanted(d))
BY DEF Leftovers

(* A job that tears nothing down.                                           *)
LEMMA NoTearIs ==
  /\ NoTear \in [Parts -> Tears] /\ "gate" \in Parts
  /\ \A p \in Parts : NoTear[p] = "none"
BY DEF NoTear, Parts, Tears

(* A deployment without a job.                                              *)
LEMMA NoJobIs ==
  /\ NoJob \in Jobs /\ NoJob.at = "idle" /\ NoJob.act = "none" /\ NoJob.todo = <<>>
  /\ NoJob.saw = {} /\ ~NoJob.crossed /\ NoJob.tear = NoTear /\ NoJob.tear["gate"] = "none"
BY NoTearIs DEF NoJob, Jobs, Stages, Todos

(* What a job is.                                                           *)
LEMMA JobFields ==
  ASSUME Shapes, NEW d \in Deployments
  PROVE  /\ job[d] \in Jobs /\ job[d].at \in Stages /\ job[d].act \in {"none", "start", "uninstall"}
         /\ job[d].todo \in Todos /\ job[d].fresh \in BOOLEAN /\ job[d].saw \in SUBSET Deployments
         /\ job[d].crossed \in BOOLEAN /\ job[d].tear \in [Parts -> Tears]
BY DEF Shapes, Jobs

(* A step of the job of one deployment leaves the others' jobs alone.       *)
Moves(d) == job'[d] \in Jobs /\ job' = [job EXCEPT ![d] = job'[d]]

(* It is still the same task.                                               *)
SameTask(d) == job'[d].act = job[d].act /\ job'[d].todo = job[d].todo

(* A job that becomes y.                                                    *)
LEMMA MovesTo ==
  ASSUME Shapes, NEW d \in Deployments, NEW y \in Jobs, job' = [job EXCEPT ![d] = y]
  PROVE  Moves(d) /\ job'[d] = y
BY DEF Moves, Shapes

(* A job that ends.                                                         *)
LEMMA Ends == ASSUME Shapes, NEW d \in Deployments, GoTo(d, "idle") PROVE Moves(d)
  /\ job'[d] = NoJob
<1>1. job' = [job EXCEPT ![d] = NoJob]
  BY DEF GoTo
<1> QED
  BY <1>1, MovesTo, NoJobIs

(* A job that goes on with what it is at.                                   *)
LEMMA GoesOn ==
  ASSUME Shapes, NEW d \in Deployments, NEW stage \in Stages \ {"idle"}, GoTo(d, stage)
  PROVE  /\ Moves(d) /\ SameTask(d) /\ job'[d].at = stage
         /\ job'[d].saw = job[d].saw /\ job'[d].crossed = job[d].crossed
         /\ job'[d].tear = job[d].tear
<1> DEFINE y == [job[d] EXCEPT !.at = stage]
<1>1. job' = [job EXCEPT ![d] = y]
  BY DEF GoTo, Shapes
<1>2. /\ y \in Jobs /\ y.at = stage /\ y.act = job[d].act /\ y.todo = job[d].todo
      /\ y.saw = job[d].saw /\ y.crossed = job[d].crossed /\ y.tear = job[d].tear
  BY JobFields DEF Jobs
<1> HIDE DEF y
<1> QED
  BY <1>1, <1>2, MovesTo DEF SameTask

(* A step of the job of one deployment keeps what holds of the others, who  *)
(* stay bound: it writes no list without them.                              *)
LEMMA StepKeeps ==
  ASSUME IdentityInv, NEW d \in Deployments, Moves(d),
         providers' \subseteq Objects, applications' \subseteq Deployments,
         bound' \subseteq Deployments,
         NEW r \in {{}, ToSet(Wanted(d))}, NEW s \in {{}, ToSet(Wanted(d))},
         ref' = [ref EXCEPT ![d] = r], saved' = [saved EXCEPT ![d] = s],
         installed' \subseteq Deployments, excused' \subseteq Deployments,
         \A x \in Deployments \ {d} :
           /\ \A p \in Parts : <<x, p>> \in providers' <=> <<x, p>> \in providers
           /\ x \in applications' <=> x \in applications
           /\ x \in installed' <=> x \in installed
           /\ x \in excused' <=> x \in excused
           /\ x \in bound /\ (Rewriting(d) => x \in job[d].saw) =>
                x \in bound' /\ (Rewriting(d)' => x \in job'[d].saw),
         Acting(d)', \A p \in Parts : <<d, p>> \in providers' => p \in ToSet(Wanted(d)),
         Cleared(d)', StaysBound(d)'
  PROVE  IdentityInv'
<1>1. /\ job' \in [Deployments -> Jobs] /\ \A x \in Deployments \ {d} : job'[x] = job[x]
  BY DEF Moves, IdentityInv, Shapes
<1>2. /\ ref' \in [Deployments -> SUBSET Parts] /\ saved' \in [Deployments -> SUBSET Parts]
      /\ ref'[d] = r /\ saved'[d] = s
      /\ \A x \in Deployments \ {d} : ref'[x] = ref[x] /\ saved'[x] = saved[x]
  BY WantedIs DEF IdentityInv, Shapes
<1>3. Shapes'
  BY <1>1, <1>2 DEF Shapes
<1>4. ASSUME NEW x \in Deployments, x # d PROVE Acting(x)' /\ Owns(x)' /\ Cleared(x)'
      /\ StaysBound(x)'
  <2>1. Acting(x) /\ Owns(x) /\ Cleared(x) /\ StaysBound(x)
    BY DEF IdentityInv
  <2>2. job'[x] = job[x] /\ ref'[x] = ref[x] /\ saved'[x] = saved[x]
    BY <1>1, <1>2, <1>4
  <2>3. Acting(x)'
    BY <1>4, <2>1, <2>2 DEF Acting, Part
  <2>5. Owns(x)'
    BY <1>4, <2>1, <2>2 DEF Owns, Wanted
  <2>6. Cleared(x)'
    BY <1>4, <2>1, <2>2 DEF Cleared
  <2>7. StaysBound(x)'
    <3>1. HasBound(x)' <=> HasBound(x)
      BY <2>2 DEF HasBound, Part
    <3>2. HasBound(x) /\ ~job[x].crossed => x \in bound /\ (Rewriting(d) => x \in job[d].saw)
      BY <1>4, <2>1 DEF StaysBound
    <3>3. \A z \in Deployments \ {x} :
            Rewriting(z)' => IF z = d THEN Rewriting(d)'
                                      ELSE Rewriting(z) /\ job'[z].saw = job[z].saw
      BY <1>1 DEF Rewriting
    <3> QED
      BY <1>4, <2>1, <2>2, <3>1, <3>2, <3>3 DEF StaysBound
  <2> QED
    BY <2>3, <2>5, <2>6, <2>7
<1>5. Owns(d)'
  BY <1>2 DEF Owns
<1> QED
  BY <1>3, <1>4, <1>5 DEF IdentityInv

(* The steps of a start, one by one.                                        *)
LEMMA KeptRefs ==
  ASSUME IdentityInv, NEW d \in Deployments
  PROVE  /\ ref = [ref EXCEPT ![d] = ref[d]] /\ saved = [saved EXCEPT ![d] = saved[d]]
         /\ ref[d] \in {{}, ToSet(Wanted(d))} /\ saved[d] \in {{}, ToSet(Wanted(d))}
         /\ Shapes /\ Acting(d) /\ Owns(d) /\ Cleared(d) /\ StaysBound(d)
         /\ installed \subseteq Deployments /\ excused \subseteq Deployments
         /\ providers \subseteq Objects /\ applications \subseteq Deployments
            /\ bound \subseteq Deployments
BY DEF IdentityInv, Owns, Shapes

(* A step that changes nothing at the identity provider, nor the refs.      *)
LEMMA QuietKeeps ==
  ASSUME IdentityInv, NEW d \in Deployments, Moves(d),
         UNCHANGED <<backend, records, excused>>,
         ~Rewriting(d)', Acting(d)', Cleared(d)', StaysBound(d)'
  PROVE  IdentityInv'
<1>1. UNCHANGED <<providers, applications, bound, ref, saved, installed, excused>>
  BY DEF backend, records
<1>2. \A p \in Parts : <<d, p>> \in providers' => p \in ToSet(Wanted(d))
  BY <1>1, KeptRefs DEF Owns
<1> QED
  BY <1>1, <1>2, KeptRefs, StepKeeps

(* A start wants all there is to want.                                      *)
LEMMA ProvisionKeeps == ASSUME IdentityInv, NEW d \in Deployments, Provision(d) PROVE IdentityInv'
<1> DEFINE y == [NoJob EXCEPT !.at = "choosing", !.act = "start", !.todo = Wanted(d)]
<1>1. /\ y \in Jobs /\ y.at = "choosing" /\ y.act = "start" /\ y.todo = Wanted(d)
      /\ y.tear = NoTear
  BY WantedIs, NoTearIs DEF NoJob, Jobs, Stages
<1>2. /\ job' = [job EXCEPT ![d] = y] /\ d \in installed
      /\ UNCHANGED <<backend, records, excused>>
  BY DEF Provision
<1> HIDE DEF y
<1>3. Moves(d) /\ job'[d] = y
  BY <1>1, <1>2, KeptRefs, MovesTo
<1>4. installed' = installed /\ excused' = excused
  BY <1>2 DEF records
<1>5. Acting(d)'
  BY <1>1, <1>2, <1>3, <1>4 DEF Acting
<1>6. Cleared(d)' /\ StaysBound(d)'
  BY <1>1, <1>2, <1>3, <1>4, WantedIs DEF Cleared, StaysBound, HasBound
<1>7. ~Rewriting(d)'
  BY <1>1, <1>3, NoTearIs DEF Rewriting
<1> QED
  BY <1>2, <1>3, <1>5, <1>6, <1>7, QuietKeeps

(* What has a ref is used again, what has none is made.                     *)
LEMMA ChooseKeeps == ASSUME IdentityInv, NEW d \in Deployments, Choose(d) PROVE IdentityInv'
<1>1. /\ job[d].at = "choosing" /\ job[d].act = "start" /\ d \in installed
      /\ job[d].tear = NoTear /\ UNCHANGED <<backend, records, excused>>
  BY KeptRefs DEF Choose, Acting
<1> DEFINE at == IF job[d].todo = <<>> THEN "saving"
                 ELSE IF Part(d) \in ref[d] THEN "reusing" ELSE "creating"
           fresh == job[d].todo # <<>> /\ Part(d) \notin ref[d]
           y == [job[d] EXCEPT !.at = at, !.fresh = fresh]
<1>2. job' = [job EXCEPT ![d] = y]
  BY DEF Choose, IdentityInv, Shapes
<1>3. at \in {"saving", "reusing", "creating"} /\ (at = "saving" <=> job[d].todo = <<>>)
  OBVIOUS
<1>4. fresh \in BOOLEAN
  OBVIOUS
<1>0. y = [job[d] EXCEPT !.at = at, !.fresh = fresh]
  OBVIOUS
<1> HIDE DEF at, fresh, y
<1>5. /\ y \in Jobs /\ y.act = job[d].act /\ y.todo = job[d].todo /\ y.at = at
      /\ y.crossed = job[d].crossed /\ y.tear = job[d].tear
  <2>1. job[d] \in Jobs /\ at \in Stages
    BY <1>3, KeptRefs, JobFields DEF Stages
  <2> QED
    BY <1>0, <1>4, <2>1 DEF Jobs
<1>6. Moves(d) /\ job'[d] = y /\ \A x \in Deployments \ {d} : job'[x] = job[x]
  BY <1>2, <1>5, KeptRefs, MovesTo DEF IdentityInv, Shapes
<1>7. UNCHANGED <<providers, applications, bound, installed, excused>>
  BY <1>1 DEF records, backend
<1>8. Acting(d)' /\ Cleared(d)'
  BY <1>1, <1>3, <1>5, <1>6, <1>7, KeptRefs DEF Acting, Cleared
<1>9. StaysBound(d)'
  BY <1>1, <1>3, <1>5, <1>6, <1>7, KeptRefs DEF StaysBound, HasBound, Rewriting
<1>10. ~Rewriting(d)'
  BY <1>1, <1>3, <1>5, <1>6, NoTearIs DEF Rewriting
<1> QED
  BY <1>1, <1>6, <1>8, <1>9, <1>10, QuietKeeps

(* A job that ends changes nothing for anybody.                             *)
LEMMA EndKeeps ==
  ASSUME IdentityInv, NEW d \in Deployments, Moves(d), job'[d] = NoJob,
         UNCHANGED <<backend, records, excused>>
  PROVE  IdentityInv'
<1>1. UNCHANGED <<providers, applications, bound, installed, excused>>
  BY DEF backend, records
<1>2. Acting(d)' /\ StaysBound(d)'
  BY <1>1, NoJobIs DEF Acting, StaysBound, HasBound
<1>3. Cleared(d)'
  BY <1>1, NoJobIs, KeptRefs DEF Cleared
<1>4. ~Rewriting(d)'
  BY NoJobIs DEF Rewriting
<1> QED
  BY <1>2, <1>3, <1>4, QuietKeeps

(* What is at the head of the list is one of the parts that are wanted.     *)
LEMMA HeadIs ==
  ASSUME IdentityInv, NEW d \in Deployments, job[d].todo # <<>>
  PROVE  Part(d) \in Parts /\ Part(d) \in ToSet(job[d].todo) /\ Object(d) \in Objects
<1> DEFINE t == job[d].todo
<1>1. t \in Todos /\ t # <<>>
  BY KeptRefs, JobFields
<1> HIDE DEF t
<1>2. Head(t) \in Parts /\ Head(t) \in ToSet(t)
  BY <1>1, TodoIs
<1> QED
  BY <1>2 DEF t, Part, Object, Objects

(* A start goes on with the same part, or ends; what it makes or takes away *)
(* is of that part.                                                         *)
LEMMA StartStepKeeps ==
  ASSUME IdentityInv, NEW d \in Deployments, job[d].act = "start", job[d].todo # <<>>,
         job[d].at # "tearing", Moves(d),
         \/ job'[d] = NoJob
         \/ /\ SameTask(d) /\ job'[d].tear = job[d].tear
            /\ job'[d].at \in {"applying", "rolling back", "reading", "binding", "next"}
            /\ job'[d].at \in {"reading", "binding"} => Part(d) = "gate"
            /\ job'[d].at = "next" => Part(d) # "gate"
            /\ job'[d].at = "binding" => job'[d].saw = bound',
         ref' = ref, saved' = saved, installed' = installed, excused' = excused,
         providers' \subseteq providers \cup {Object(d)},
         providers \ {Object(d)} \subseteq providers',
         applications' \subseteq applications \cup {d}, applications \ {d} \subseteq applications',
         bound' \subseteq Deployments,
         \A x \in Deployments \ {d} : x \in bound /\ (Rewriting(d) => x \in job[d].saw)
         => x \in bound'
  PROVE  IdentityInv'
<1>1. job[d].todo \in {Wanted(d), <<"gate">>} /\ d \in installed /\ job[d].tear = NoTear
  BY KeptRefs, NoJobIs DEF Acting
<1>2. Part(d) \in Parts /\ Part(d) \in ToSet(Wanted(d)) /\ Object(d) \in Objects
  BY <1>1, HeadIs, WantedIs
<1>3. providers' \subseteq Objects /\ applications' \subseteq Deployments
  BY <1>2, KeptRefs
<1>4. Acting(d)'
  BY <1>1, NoJobIs DEF Acting, Part, SameTask
<1>5. \A p \in Parts : <<d, p>> \in providers' => p \in ToSet(Wanted(d))
  BY <1>2, KeptRefs DEF Owns, Object
<1>6. Cleared(d)'
  BY <1>1, NoJobIs DEF Cleared, SameTask
<1>7. StaysBound(d)'
  BY NoJobIs DEF StaysBound, HasBound, Part, SameTask
<1>8. \A x \in Deployments \ {d} :
           /\ \A p \in Parts : <<x, p>> \in providers' <=> <<x, p>> \in providers
           /\ x \in applications' <=> x \in applications
  BY DEF Object
<1>9. Rewriting(d)' => job'[d].saw = bound'
  BY <1>1, NoJobIs, NoTearIs DEF Rewriting
<1> QED
  BY <1>3, <1>4, <1>5, <1>6, <1>7, <1>8, <1>9, KeptRefs, StepKeeps

(* A job that tears something down is at nothing else.                      *)
LEMMA Tearing ==
  ASSUME IdentityInv, NEW d \in Deployments, NEW p \in Parts, job[d].tear[p] # "none"
  PROVE  /\ job[d].at = "tearing" /\ d \in installed /\ job[d].act \in {"start", "uninstall"}
         /\ Rewriting(d) <=> job[d].tear["gate"] = "unbinding"
BY KeptRefs, NoJobIs, NoTearIs, JobFields DEF Acting, Rewriting

(* A tear-down only takes away, and has gone through what it has taken away.*)
LEMMA TearStepKeeps ==
  ASSUME IdentityInv, NEW d \in Deployments, job[d].at = "tearing",
         Moves(d), SameTask(d), job'[d].at = "tearing",
         ref' = ref, saved' = saved, installed' = installed,
         excused' = excused \/ excused' = excused \cup {d},
         providers' \subseteq providers, \A x \in providers \ providers' : x[1] = d,
         applications' \subseteq applications, applications \ {d} \subseteq applications',
         bound' \subseteq Deployments,
         \A x \in Deployments \ {d} : x \in bound /\ (Rewriting(d) => x \in job[d].saw)
           => x \in bound' /\ (Rewriting(d)' => x \in job'[d].saw),
         job[d].act = "uninstall" /\ d \notin excused' =>
           /\ d \in applications' => \E p \in Parts : job'[d].tear[p] \in BeforeApplication
           /\ \A p \in Parts : <<d, p>> \in providers' => job'[d].tear[p] \in BeforeProvider
  PROVE  IdentityInv'
<1>1. d \in installed /\ job[d].act \in {"start", "uninstall"}
  BY KeptRefs, JobFields DEF Acting
<1>2. providers' \subseteq Objects /\ applications' \subseteq Deployments
      /\ excused' \subseteq Deployments
  BY KeptRefs
<1>3. Acting(d)'
  BY <1>1, KeptRefs DEF Acting, SameTask
<1>4. \A p \in Parts : <<d, p>> \in providers' => p \in ToSet(Wanted(d))
  BY KeptRefs DEF Owns
<1>5. Cleared(d)'
  BY <1>1 DEF Cleared, SameTask
<1>6. StaysBound(d)'
  BY DEF StaysBound, HasBound
<1>7. \A x \in Deployments \ {d} :
           /\ \A p \in Parts : <<x, p>> \in providers' <=> <<x, p>> \in providers
           /\ x \in applications' <=> x \in applications
           /\ x \in excused' <=> x \in excused
  OBVIOUS
<1> QED
  BY <1>2, <1>3, <1>4, <1>5, <1>6, <1>7, KeptRefs, StepKeeps

(* A part of a tear-down that gets to a stage leaves the other where it is. *)
Staged(d, p, stage) ==
  /\ Moves(d) /\ SameTask(d) /\ job'[d].at = job[d].at
  /\ job'[d].tear[p] = stage
  /\ \A q \in Parts \ {p} : job'[d].tear[q] = job[d].tear[q]
  /\ p # "gate" => job'[d].saw = job[d].saw

(* That is what becomes of a job when one of its parts gets to a stage.     *)
LEMMA StageIs ==
  ASSUME Shapes, NEW d \in Deployments, NEW p \in Parts, NEW stage \in Tears, Stage(d, p, stage)
  PROVE  Staged(d, p, stage)
<1> DEFINE saw == IF p = "gate" THEN {} ELSE job[d].saw
           tear == [job[d].tear EXCEPT ![p] = stage]
           y == [job[d] EXCEPT !.tear = tear, !.saw = saw]
<1>1. job' = [job EXCEPT ![d] = y]
  BY DEF Stage, Shapes, Jobs
<1>2. saw \in SUBSET Deployments /\ tear \in [Parts -> Tears]
      /\ (p # "gate" => saw = job[d].saw) /\ tear[p] = stage
      /\ \A q \in Parts \ {p} : tear[q] = job[d].tear[q]
  BY JobFields
<1>3. y = [job[d] EXCEPT !.tear = tear, !.saw = saw] /\ tear = [job[d].tear EXCEPT ![p] = stage]
  OBVIOUS
<1> HIDE DEF saw, tear, y
<1>4. y \in Jobs /\ y.act = job[d].act /\ y.todo = job[d].todo /\ y.at = job[d].at
      /\ y.saw = saw /\ y.tear = tear
  <2>1. job[d] \in Jobs
    BY JobFields
  <2> QED
    BY <1>2, <1>3, <2>1 DEF Jobs
<1>5. Moves(d) /\ job'[d] = y
  BY <1>1, <1>4, MovesTo
<1> QED
  BY <1>2, <1>3, <1>4, <1>5 DEF Staged, SameTask

(* Using a part again makes nothing.                                        *)
LEMMA ReuseKeeps == ASSUME IdentityInv, NEW d \in Deployments, Reuse(d) PROVE IdentityInv'
<1>1. /\ job[d].act = "start" /\ job[d].todo # <<>> /\ job[d].at # "tearing" /\ ~Rewriting(d)
      /\ UNCHANGED <<providers, applications, bound, ref, saved, installed, excused>>
  BY KeptRefs, NoTearIs DEF Reuse, Acting, Rewriting, backend, records
<1>2. CASE GoTo(d, Rebound(d))
  <2>1. Rebound(d) \in Stages \ {"idle"}
        /\ Rebound(d) = IF Part(d) = "gate" THEN "reading" ELSE "next"
    BY DEF Rebound, Stages
  <2>2. Moves(d) /\ SameTask(d) /\ job'[d].at = Rebound(d) /\ job'[d].tear = job[d].tear
    BY <1>2, <2>1, KeptRefs, GoesOn
  <2> QED
    BY <1>1, <2>1, <2>2, KeptRefs, StartStepKeeps
<1>3. CASE GoTo(d, "idle")
  BY <1>1, <1>3, KeptRefs, Ends, StartStepKeeps
<1> QED
  BY <1>2, <1>3 DEF Reuse

(* A provider that is made is of a part that is wanted.                     *)
LEMMA CreateProviderKeeps == ASSUME IdentityInv, NEW d \in Deployments, CreateProvider(d)
  PROVE IdentityInv'
<1>1. /\ job[d].act = "start" /\ job[d].todo # <<>> /\ job[d].at # "tearing" /\ ~Rewriting(d)
      /\ UNCHANGED <<applications, bound, ref, saved, installed, excused>>
      /\ providers' \subseteq providers \cup {Object(d)} /\ providers \subseteq providers'
  BY KeptRefs, NoTearIs DEF CreateProvider, Acting, Rewriting, records
<1>2. CASE GoTo(d, "applying")
  <2>1. Moves(d) /\ SameTask(d) /\ job'[d].at = "applying" /\ job'[d].tear = job[d].tear
    BY <1>2, KeptRefs, GoesOn DEF Stages
  <2> QED
    BY <1>1, <2>1, KeptRefs, StartStepKeeps
<1>3. CASE GoTo(d, "idle")
  BY <1>1, <1>3, KeptRefs, Ends, StartStepKeeps
<1> QED
  BY <1>2, <1>3 DEF CreateProvider

(* So is an application.                                                    *)
LEMMA CreateApplicationKeeps ==
  ASSUME IdentityInv, NEW d \in Deployments, CreateApplication(d) PROVE IdentityInv'
<1>1. /\ job[d].act = "start" /\ job[d].todo # <<>> /\ job[d].at # "tearing" /\ ~Rewriting(d)
      /\ UNCHANGED <<providers, bound, ref, saved, installed, excused>>
      /\ applications' \subseteq applications \cup {d} /\ applications \subseteq applications'
  BY KeptRefs, NoTearIs DEF CreateApplication, Acting, Rewriting, records
<1>2. CASE GoTo(d, Rebound(d))
  <2>1. Rebound(d) \in Stages \ {"idle"}
        /\ Rebound(d) = IF Part(d) = "gate" THEN "reading" ELSE "next"
    BY DEF Rebound, Stages
  <2>2. Moves(d) /\ SameTask(d) /\ job'[d].at = Rebound(d) /\ job'[d].tear = job[d].tear
    BY <1>2, <2>1, KeptRefs, GoesOn
  <2> QED
    BY <1>1, <2>1, <2>2, KeptRefs, StartStepKeeps
<1>3. CASE GoTo(d, "rolling back")
  <2>1. Moves(d) /\ SameTask(d) /\ job'[d].at = "rolling back" /\ job'[d].tear = job[d].tear
    BY <1>3, KeptRefs, GoesOn DEF Stages
  <2> QED
    BY <1>1, <2>1, KeptRefs, StartStepKeeps
<1> QED
  BY <1>2, <1>3 DEF CreateApplication

(* A provider without its application is taken away.                        *)
LEMMA RollBackKeeps == ASSUME IdentityInv, NEW d \in Deployments, RollBack(d) PROVE IdentityInv'
<1>1. /\ job[d].act = "start" /\ job[d].todo # <<>> /\ job[d].at # "tearing" /\ ~Rewriting(d)
      /\ UNCHANGED <<applications, bound, ref, saved, installed, excused>>
      /\ providers' \subseteq providers /\ providers \ {Object(d)} \subseteq providers'
      /\ GoTo(d, "idle")
  BY KeptRefs, NoTearIs DEF RollBack, Acting, Rewriting, records
<1> QED
  BY <1>1, KeptRefs, Ends, StartStepKeeps

(* A start that looks at the outpost has what it lists.                     *)
LEMMA Looks ==
  ASSUME Shapes, NEW d \in Deployments,
         job' = [job EXCEPT ![d].at = "binding", ![d].saw = bound]
  PROVE  Moves(d) /\ SameTask(d) /\ job'[d].at = "binding" /\ job'[d].saw = bound
         /\ job'[d].tear = job[d].tear
<1> DEFINE y == [job[d] EXCEPT !.at = "binding", !.saw = bound]
<1>1. job' = [job EXCEPT ![d] = y]
  BY DEF Shapes
<1>0. y = [job[d] EXCEPT !.at = "binding", !.saw = bound]
  OBVIOUS
<1> HIDE DEF y
<1>2. y \in Jobs /\ y.act = job[d].act /\ y.todo = job[d].todo /\ y.at = "binding"
      /\ y.saw = bound /\ y.tear = job[d].tear
  <2>1. job[d] \in Jobs /\ bound \in SUBSET Deployments
    BY JobFields DEF Shapes
  <2> QED
    BY <1>0, <2>1 DEF Jobs, Stages
<1> QED
  BY <1>1, <1>2, MovesTo DEF SameTask

(* The job knows what the outpost lists at that moment.                     *)
LEMMA ReadOutpostKeeps == ASSUME IdentityInv, NEW d \in Deployments, ReadOutpost(d)
  PROVE IdentityInv'
<1>1. /\ job[d].act = "start" /\ job[d].todo # <<>> /\ Part(d) = "gate" /\ ~Rewriting(d)
      /\ job[d].at # "tearing"
      /\ UNCHANGED <<providers, applications, bound, ref, saved, installed, excused>>
  BY KeptRefs, NoTearIs DEF ReadOutpost, Acting, Rewriting, records, backend
<1>2. CASE job' = [job EXCEPT ![d].at = "binding", ![d].saw = bound]
  <2>1. Moves(d) /\ SameTask(d) /\ job'[d].at = "binding" /\ job'[d].saw = bound
        /\ job'[d].tear = job[d].tear
    BY <1>2, KeptRefs, Looks
  <2> QED
    BY <1>1, <2>1, KeptRefs, StartStepKeeps
<1>3. CASE GoTo(d, "idle")
  BY <1>1, <1>3, KeptRefs, Ends, StartStepKeeps
<1> QED
  BY <1>2, <1>3 DEF ReadOutpost

(* The list that is written has the gate; an update that is under way by    *)
(* now has read it without.                                                 *)
LEMMA BindKeeps == ASSUME IdentityInv, NEW d \in Deployments, Bind(d) PROVE IdentityInv'
<1>1. /\ job[d].act = "start" /\ job[d].todo # <<>> /\ Part(d) = "gate" /\ Rewriting(d)
      /\ d \in installed /\ job[d].todo \in {Wanted(d), <<"gate">>} /\ job[d].tear = NoTear
      /\ job[d].at # "tearing"
      /\ job[d].saw \subseteq Deployments
      /\ UNCHANGED <<providers, applications, ref, saved, installed, excused>>
  BY KeptRefs, JobFields, NoJobIs DEF Bind, Acting, Rewriting, records
<1>2. bound' \in {bound, job[d].saw \cup {d}}
  BY DEF Bind
<1>3. CASE job' = [job EXCEPT ![d].at = "grouping", ![d].saw = {}, ![d].crossed = Crossed(d)]
           /\ bound' = job[d].saw \cup {d}
  <2> DEFINE b == Crossed(d)
             y == [job[d] EXCEPT !.at = "grouping", !.saw = {}, !.crossed = b]
  <2>1. job' = [job EXCEPT ![d] = y]
    BY <1>3, KeptRefs DEF Shapes
  <2>2. b \in BOOLEAN
    BY DEF Crossed
  <2>3. b <=> \E x \in Deployments \ {d} : Rewriting(x)
    BY DEF Crossed, Rewriting
  <2>0. y = [job[d] EXCEPT !.at = "grouping", !.saw = {}, !.crossed = b]
    OBVIOUS
  <2> HIDE DEF b, y
  <2>4. y \in Jobs /\ y.at = "grouping" /\ y.act = job[d].act /\ y.todo = job[d].todo
        /\ y.crossed = b /\ y.tear = job[d].tear
    <3>1. job[d] \in Jobs
      BY KeptRefs, JobFields
    <3> QED
      BY <2>0, <2>2, <3>1 DEF Jobs, Stages
  <2>5. Moves(d) /\ job'[d] = y /\ \A x \in Deployments \ {d} : job'[x] = job[x]
    BY <2>1, <2>4, KeptRefs, MovesTo DEF Shapes
  <2>6. Acting(d)'
    BY <1>1, <2>4, <2>5 DEF Acting, Part
  <2>7. Cleared(d)'
    BY <1>1, <2>4, <2>5 DEF Cleared
  <2>8. StaysBound(d)'
    BY <1>3, <2>3, <2>4, <2>5 DEF StaysBound, Rewriting
  <2>9. \A p \in Parts : <<d, p>> \in providers' => p \in ToSet(Wanted(d))
    BY <1>1, KeptRefs DEF Owns
  <2>10. ~Rewriting(d)'
    BY <1>1, <2>4, <2>5, NoTearIs DEF Rewriting
  <2>11. bound' \subseteq Deployments
    BY <1>1, <1>3
  <2>12. \A x \in Deployments \ {d} : Rewriting(d) /\ x \in job[d].saw => x \in bound'
    BY <1>3
  <2> QED
    BY <1>1, <2>5, <2>6, <2>7, <2>8, <2>9, <2>10, <2>11, <2>12, KeptRefs, StepKeeps
<1>4. CASE GoTo(d, "idle")
  <2>1. \A x \in Deployments \ {d} : x \in bound /\ (Rewriting(d) => x \in job[d].saw)
        => x \in bound'
    BY <1>1, <1>2
  <2> QED
    BY <1>1, <1>2, <1>4, <2>1, KeptRefs, Ends, StartStepKeeps
<1> QED
  BY <1>3, <1>4 DEF Bind

(* The groups: the gate is bound by now and stays so.                       *)
LEMMA ReconcileGroupsKeeps ==
  ASSUME IdentityInv, NEW d \in Deployments, ReconcileGroups(d) PROVE IdentityInv'
<1>1. /\ job[d].at = "grouping" /\ job[d].act = "start" /\ job[d].todo # <<>> /\ Part(d) = "gate"
      /\ job[d].tear = NoTear /\ UNCHANGED <<backend, records, excused>>
      /\ UNCHANGED <<providers, applications, bound, ref, saved, installed, excused>>
  BY KeptRefs DEF ReconcileGroups, Acting, Rewriting, records, backend
<1>2. CASE GoTo(d, "next")
  <2>1. /\ Moves(d) /\ SameTask(d) /\ job'[d].at = "next" /\ job'[d].crossed = job[d].crossed
        /\ job'[d].tear = NoTear
    BY <1>1, <1>2, KeptRefs, GoesOn DEF Stages
  <2>2. \A x \in Deployments \ {d} : job'[x] = job[x]
    BY <2>1, KeptRefs DEF Moves, Shapes
  <2>3. Acting(d)' /\ Cleared(d)'
    BY <1>1, <2>1, KeptRefs DEF Acting, Cleared, SameTask
  <2>4. StaysBound(d)'
    BY <1>1, <2>1, <2>2, KeptRefs DEF StaysBound, HasBound, Rewriting, SameTask
  <2>5. ~Rewriting(d)'
    BY <2>1, NoTearIs DEF Rewriting
  <2> QED
    BY <1>1, <2>1, <2>3, <2>4, <2>5, QuietKeeps
<1>3. CASE job' = [job EXCEPT ![d].tear["gate"] = "detaching", ![d].at = "tearing"]
  <2> DEFINE tear == [job[d].tear EXCEPT !["gate"] = "detaching"]
             y == [job[d] EXCEPT !.at = "tearing", !.tear = tear]
  <2>1. job' = [job EXCEPT ![d] = y]
    BY <1>3, KeptRefs DEF Shapes, Jobs
  <2>2. tear \in [Parts -> Tears] /\ tear["gate"] = "detaching"
    BY KeptRefs, JobFields, NoTearIs DEF Tears
  <2>3. y = [job[d] EXCEPT !.at = "tearing", !.tear = tear]
    OBVIOUS
  <2> HIDE DEF tear, y
  <2>4. y \in Jobs /\ y.at = "tearing" /\ y.act = job[d].act /\ y.todo = job[d].todo
        /\ y.tear = tear
    <3>1. job[d] \in Jobs
      BY KeptRefs, JobFields
    <3> QED
      BY <2>2, <2>3, <3>1 DEF Jobs, Stages
  <2>5. Moves(d) /\ job'[d] = y
    BY <2>1, <2>4, KeptRefs, MovesTo
  <2>6. Acting(d)' /\ Cleared(d)' /\ StaysBound(d)'
    BY <1>1, <2>4, <2>5, KeptRefs DEF Acting, Cleared, StaysBound, HasBound
  <2>7. ~Rewriting(d)'
    BY <2>2, <2>4, <2>5 DEF Rewriting
  <2> QED
    BY <1>1, <2>5, <2>6, <2>7, QuietKeeps
<1>4. CASE GoTo(d, "idle")
  BY <1>1, <1>4, KeptRefs, Ends, EndKeeps
<1> QED
  BY <1>2, <1>3, <1>4 DEF ReconcileGroups

(* A part that is done is off the list.                                     *)
LEMMA AdvanceKeeps == ASSUME IdentityInv, NEW d \in Deployments, Advance(d) PROVE IdentityInv'
<1>1. /\ job[d].at = "next" /\ job[d].todo # <<>> /\ d \in installed /\ job[d].act = "start"
      /\ job[d].tear = NoTear /\ UNCHANGED <<backend, records, excused>>
      /\ UNCHANGED <<providers, applications, bound, installed, excused>>
  BY KeptRefs, NoJobIs DEF Advance, Acting, records, backend
<1> DEFINE t == job[d].todo
           y == [job[d] EXCEPT !.at = "choosing", !.todo = Tail(t)]
<1>2. job' = [job EXCEPT ![d] = y]
  BY KeptRefs DEF Advance, Shapes
<1>3. y = [job[d] EXCEPT !.at = "choosing", !.todo = Tail(t)]
  OBVIOUS
<1>4. t \in Todos /\ t # <<>> /\ job[d].todo = t /\ Part(d) = Head(t)
  BY <1>1, KeptRefs, JobFields DEF Part
<1> HIDE DEF t, y
<1>5. Tail(t) \in Todos
  BY <1>4, TodoIs
<1>6. /\ y \in Jobs /\ y.at = "choosing" /\ y.act = job[d].act /\ y.todo = Tail(t)
      /\ y.crossed = job[d].crossed /\ y.tear = job[d].tear
  <2>1. job[d] \in Jobs
    BY KeptRefs, JobFields
  <2> QED
    BY <1>3, <1>5, <2>1 DEF Jobs, Stages
<1>7. Moves(d) /\ job'[d] = y /\ \A x \in Deployments \ {d} : job'[x] = job[x]
  BY <1>2, <1>6, KeptRefs, MovesTo DEF Shapes
<1>8. (t = <<"gate">> /\ Tail(t) = <<>>) \/ (t = <<"oidc", "gate">> /\ Tail(t) = <<"gate">>)
  <2>1. t \in {Wanted(d), <<"gate">>, <<>>}
    BY <1>1, <1>4, KeptRefs DEF Acting
  <2>2. t = <<"gate">> \/ t = <<"oidc", "gate">>
    BY <1>4, <2>1, WantedIs
  <2>3. Tail(<<"gate">>) = <<>> /\ Tail(<<"oidc", "gate">>) = <<"gate">>
    OBVIOUS
  <2> QED
    BY <2>2, <2>3
<1>9. Acting(d)' /\ Cleared(d)'
  BY <1>1, <1>6, <1>7, <1>8 DEF Acting, Cleared
<1>10. StaysBound(d)'
  <2>1. HasBound(d)' => HasBound(d)
    <3>1. <<"gate">> # <<>> /\ Head(<<"gate">>) = "gate"
      OBVIOUS
    <3>2. HasBound(d)' => Tail(t) = <<>>
      BY <1>6, <1>7 DEF HasBound
    <3> QED
      BY <1>1, <1>4, <1>8, <3>1, <3>2 DEF HasBound
  <2> QED
    BY <1>1, <1>6, <1>7, <2>1, KeptRefs DEF StaysBound, Rewriting
<1>11. ~Rewriting(d)'
  BY <1>1, <1>6, <1>7, NoTearIs DEF Rewriting
<1> QED
  BY <1>1, <1>7, <1>9, <1>10, <1>11, QuietKeeps

(* The refs are those of what is wanted.                                    *)
LEMMA SaveRefsKeeps == ASSUME IdentityInv, NEW d \in Deployments, SaveRefs(d) PROVE IdentityInv'
<1> DEFINE r == ToSet(Wanted(d))
<1>1. /\ job[d].at = "saving" /\ job[d].act = "start" /\ job[d].todo = <<>> /\ ~Rewriting(d)
         /\ d \in installed /\ job[d].tear = NoTear
      /\ UNCHANGED <<providers, applications, bound, installed, excused>>
      /\ ref' = [ref EXCEPT ![d] = r]
  BY KeptRefs, NoJobIs, NoTearIs DEF SaveRefs, Acting, Rewriting, backend
<1>2. PICK s \in {{}, r} : saved' = [saved EXCEPT ![d] = s]
  <2>1. CASE saved' = [saved EXCEPT ![d] = ref'[d]]
    <3>1. ref'[d] = r
      BY <1>1, KeptRefs DEF Shapes
    <3> QED
      BY <2>1, <3>1
  <2>2. CASE UNCHANGED saved
    BY <2>2, KeptRefs
  <2> QED
    BY <2>1, <2>2 DEF SaveRefs
<1>3. \A p \in Parts : <<d, p>> \in providers' => p \in ToSet(Wanted(d))
  BY <1>1, KeptRefs DEF Owns
<1> HIDE DEF r
<1>4. CASE GoTo(d, "upping")
  <2>0. Moves(d) /\ SameTask(d) /\ job'[d].at = "upping" /\ job'[d].crossed = job[d].crossed
        /\ job'[d].tear = job[d].tear
    BY <1>4, KeptRefs, GoesOn DEF Stages
  <2>1. /\ Moves(d) /\ SameTask(d) /\ job'[d].at = "upping" /\ job'[d].crossed = job[d].crossed
        /\ job'[d].tear = job[d].tear
        /\ \A x \in Deployments \ {d} : job'[x] = job[x]
    BY <2>0, KeptRefs DEF Moves, Shapes
  <2>2. Acting(d)' /\ Cleared(d)'
    BY <1>1, <2>1, KeptRefs DEF Acting, Cleared, SameTask
  <2>3. StaysBound(d)'
    BY <1>1, <2>1, KeptRefs DEF StaysBound, HasBound, Rewriting, SameTask
  <2>4. ~Rewriting(d)'
    BY <1>1, <2>1, NoTearIs DEF Rewriting
  <2> QED
    BY <1>1, <1>2, <1>3, <2>1, <2>2, <2>3, <2>4, KeptRefs, StepKeeps DEF r
<1>5. CASE GoTo(d, "idle")
  <2>1. Moves(d) /\ job'[d] = NoJob
    BY <1>5, KeptRefs, Ends
  <2>2. Acting(d)' /\ StaysBound(d)' /\ Cleared(d)'
    BY <1>1, <2>1, NoJobIs, KeptRefs DEF Acting, StaysBound, HasBound, Cleared
  <2>3. ~Rewriting(d)'
    BY <2>1, NoJobIs DEF Rewriting
  <2> QED
    BY <1>1, <1>2, <1>3, <2>1, <2>2, <2>3, KeptRefs, StepKeeps DEF r
<1> QED
  BY <1>4, <1>5 DEF SaveRefs

(* The app is up, and the job is over.                                      *)
LEMMA ComposeUpKeeps == ASSUME IdentityInv, NEW d \in Deployments, ComposeUp(d) PROVE IdentityInv'
<1>1. Moves(d) /\ job'[d] = NoJob
  BY KeptRefs, NoJobIs, MovesTo DEF ComposeUp
<1> QED
  BY <1>1, EndKeeps DEF ComposeUp

(* A tear-down has before it all that is wanted, so all that is there, or   *)
(* is excused.                                                              *)
LEMMA UninstallKeeps == ASSUME IdentityInv, NEW d \in Deployments, Uninstall(d) PROVE IdentityInv'
<1>1. /\ job[d].at = "idle" /\ d \in installed
      /\ UNCHANGED <<providers, applications, bound, ref, saved, installed>>
  BY DEF Uninstall, backend, records
<1>2. ~Rewriting(d)
  BY <1>1, KeptRefs, NoJobIs DEF Rewriting, Acting
<1>3. \A p \in Parts : <<d, p>> \in providers' => p \in ToSet(Wanted(d))
  BY <1>1, KeptRefs DEF Owns
<1>4. ASSUME NEW y \in Jobs, y.at = "tearing", y.act = "uninstall",
             y.tear["gate"] # "unbinding", job' = [job EXCEPT ![d] = y],
             excused' = excused \ {d} \/ excused' = excused \cup {d},
             d \notin excused' =>
               /\ \E p \in Parts : y.tear[p] \in BeforeApplication
               /\ \A p \in ToSet(Wanted(d)) : y.tear[p] \in BeforeProvider
      PROVE  IdentityInv'
  <2>1. Moves(d) /\ job'[d] = y
    BY <1>4, KeptRefs, MovesTo
  <2>2. Acting(d)' /\ StaysBound(d)' /\ ~Rewriting(d)'
    BY <1>1, <1>4, <2>1 DEF Acting, StaysBound, HasBound, Rewriting
  <2>3. Cleared(d)'
    BY <1>1, <1>3, <1>4, <2>1 DEF Cleared
  <2>4. excused' \subseteq Deployments
        /\ \A x \in Deployments \ {d} : x \in excused' <=> x \in excused
    BY <1>4, KeptRefs
  <2> QED
    BY <1>1, <1>2, <1>3, <2>1, <2>2, <2>3, <2>4, KeptRefs, StepKeeps
<1>5. CASE job' = [job EXCEPT ![d] = [NoJob EXCEPT !.at = "tearing", !.act = "uninstall",
                                                   !.tear = Torn(d, Leftovers(d))]]
           /\ excused' = excused \ {d}
  <2> DEFINE tear == Torn(d, Leftovers(d))
             y == [NoJob EXCEPT !.at = "tearing", !.act = "uninstall", !.tear = tear]
  <2>1. Leftovers(d) = ToSet(Wanted(d))
    BY KeptRefs, LeftoversIs
  <2>2. tear = [p \in Parts |-> IF p \notin ToSet(Wanted(d)) THEN "none"
                               ELSE IF p = "oidc" THEN "application"
                               ELSE IF ref[d] = {} THEN "looking" ELSE "detaching"]
    BY <2>1 DEF Torn
  <2>3. /\ tear \in [Parts -> Tears] /\ tear["gate"] \in {"looking", "detaching"}
        /\ \A p \in ToSet(Wanted(d)) : tear[p] \in BeforeProvider
    BY <2>2, WantedIs, NoTearIs DEF Tears, BeforeProvider
  <2>4. job' = [job EXCEPT ![d] = y] /\ y = [NoJob EXCEPT !.at = "tearing", !.act = "uninstall",
                                                          !.tear = tear]
    BY <1>5
  <2> HIDE DEF tear, y
  <2>5. \E p \in Parts : tear[p] \in BeforeApplication
    BY <2>3, NoTearIs DEF BeforeApplication
  <2>6. y \in Jobs /\ y.at = "tearing" /\ y.act = "uninstall" /\ y.tear = tear
    BY <2>3, <2>4, NoTearIs DEF NoJob, Jobs, Stages, Todos
  <2> QED
    BY <1>4, <1>5, <2>3, <2>4, <2>5, <2>6
<1>6. CASE job' = [job EXCEPT ![d] = [NoJob EXCEPT !.at = "tearing", !.act = "uninstall"]]
           /\ excused' = excused \cup {d}
  <2> DEFINE y == [NoJob EXCEPT !.at = "tearing", !.act = "uninstall"]
  <2>1. y \in Jobs /\ y.at = "tearing" /\ y.act = "uninstall" /\ y.tear = NoTear
    BY NoTearIs DEF NoJob, Jobs, Stages, Todos
  <2>2. job' = [job EXCEPT ![d] = y]
    BY <1>6
  <2> HIDE DEF y
  <2> QED
    BY <1>4, <1>6, <2>1, <2>2, NoTearIs
<1> QED
  BY <1>5, <1>6 DEF Uninstall

(* What the tear-down of one part changes of the other: nothing.            *)
LEMMA StageKeeps ==
  ASSUME IdentityInv, NEW d \in Deployments, NEW p \in Parts, job[d].tear[p] # "none",
         Staged(d, p, job'[d].tear[p]), job'[d].tear[p] # "unbinding",
         ref' = ref, saved' = saved, installed' = installed,
         excused' = excused \/ excused' = excused \cup {d},
         providers' \subseteq providers, providers \ {<<d, p>>} \subseteq providers',
         applications' \subseteq applications, applications \ {d} \subseteq applications',
         bound' \subseteq Deployments,
         \/ bound' = bound
         \/ p = "gate" /\ job[d].tear[p] = "unbinding" /\ job[d].saw \ {d} \subseteq bound',
         d \notin excused' =>
           /\ d \in applications' /\ job[d].tear[p] \in BeforeApplication
                => job'[d].tear[p] \in BeforeApplication
           /\ <<d, p>> \in providers' /\ job[d].tear[p] \in BeforeProvider
                => job'[d].tear[p] \in BeforeProvider
  PROVE  IdentityInv'
<1>1. /\ job[d].at = "tearing" /\ job[d].act \in {"start", "uninstall"}
      /\ Rewriting(d) <=> job[d].tear["gate"] = "unbinding"
  BY Tearing
<1>2. /\ Moves(d) /\ SameTask(d) /\ job'[d].at = "tearing"
      /\ \A q \in Parts \ {p} : job'[d].tear[q] = job[d].tear[q]
      /\ p # "gate" => job'[d].saw = job[d].saw
  BY <1>1 DEF Staged
<1>3. Rewriting(d)' => p # "gate" /\ Rewriting(d)
  BY <1>1, <1>2, NoTearIs DEF Rewriting
<1>4. \A x \in Deployments \ {d} : x \in bound /\ (Rewriting(d) => x \in job[d].saw)
           => x \in bound' /\ (Rewriting(d)' => x \in job'[d].saw)
  BY <1>1, <1>2, <1>3
<1>5. ASSUME job[d].act = "uninstall", d \notin excused'
      PROVE  /\ d \in applications' => \E q \in Parts : job'[d].tear[q] \in BeforeApplication
             /\ \A q \in Parts : <<d, q>> \in providers' => job'[d].tear[q] \in BeforeProvider
  <2>1. /\ d \in applications => \E q \in Parts : job[d].tear[q] \in BeforeApplication
        /\ \A q \in Parts : <<d, q>> \in providers => job[d].tear[q] \in BeforeProvider
    BY <1>5, KeptRefs DEF Cleared
  <2>2. d \in applications' => \E q \in Parts : job'[d].tear[q] \in BeforeApplication
    BY <1>2, <1>5, <2>1
  <2>3. ASSUME NEW q \in Parts, <<d, q>> \in providers'
        PROVE  job'[d].tear[q] \in BeforeProvider
    BY <1>2, <1>5, <2>1, <2>3
  <2> QED
    BY <2>2, <2>3
<1>6. \A x \in providers \ providers' : x[1] = d
  OBVIOUS
<1> QED
  BY <1>1, <1>2, <1>4, <1>5, <1>6, TearStepKeeps

(* A gate that is not found has no provider.                                *)
LEMMA LookUpKeeps == ASSUME IdentityInv, NEW d \in Deployments, LookUp(d) PROVE IdentityInv'
<1>1. /\ job[d].tear["gate"] = "looking" /\ "gate" \in Parts
      /\ UNCHANGED <<providers, applications, bound, ref, saved, installed>>
      /\ bound' \subseteq Deployments
  BY KeptRefs, NoTearIs DEF LookUp, backend, records
<1>2. CASE <<d, "gate">> \in providers /\ Stage(d, "gate", "detaching") /\ excused' = excused
  <2>1. "detaching" \in BeforeApplication \cap BeforeProvider /\ "detaching" \in Tears
    BY DEF BeforeApplication, BeforeProvider, Tears
  <2>2. Staged(d, "gate", "detaching")
    BY <1>1, <1>2, <2>1, KeptRefs, StageIs
  <2> QED
    BY <1>1, <1>2, <2>1, <2>2, StageKeeps DEF Staged
<1>3. CASE /\ Stage(d, "gate", "lone application")
           /\ \/ <<d, "gate">> \notin providers /\ excused' = excused
              \/ excused' = excused \cup {d}
  <2>1. "lone application" \in BeforeApplication /\ "lone application" \in Tears
    BY DEF BeforeApplication, Tears
  <2>2. Staged(d, "gate", "lone application")
    BY <1>1, <1>3, <2>1, KeptRefs, StageIs
  <2>3. d \notin excused' => <<d, "gate">> \notin providers'
    BY <1>1, <1>3
  <2> QED
    BY <1>1, <1>3, <2>1, <2>2, <2>3, StageKeeps DEF Staged
<1> QED
  BY <1>2, <1>3 DEF LookUp, Left

(* The list without the gate keeps all that the job has seen.               *)
LEMMA DetachKeeps == ASSUME IdentityInv, NEW d \in Deployments, Detach(d) PROVE IdentityInv'
<1>1. /\ job[d].tear["gate"] \in {"detaching", "unbinding"} /\ "gate" \in Parts
      /\ UNCHANGED <<providers, applications, ref, saved, installed, excused>>
      /\ bound \subseteq Deployments /\ job[d].saw \subseteq Deployments
  BY KeptRefs, JobFields, NoTearIs DEF Detach, records
<1>2. CASE /\ job[d].tear["gate"] = "detaching" /\ bound' = bound
           /\ job' = [job EXCEPT ![d].tear["gate"] = "unbinding", ![d].saw = bound]
  <2> DEFINE tear == [job[d].tear EXCEPT !["gate"] = "unbinding"]
             y == [job[d] EXCEPT !.tear = tear, !.saw = bound]
  <2>1. job' = [job EXCEPT ![d] = y]
    BY <1>2, KeptRefs DEF Shapes, Jobs
  <2>2. tear \in [Parts -> Tears] /\ tear["gate"] = "unbinding"
        /\ \A q \in Parts \ {"gate"} : tear[q] = job[d].tear[q]
    BY KeptRefs, JobFields, NoTearIs DEF Tears
  <2>3. y = [job[d] EXCEPT !.tear = tear, !.saw = bound]
    OBVIOUS
  <2> HIDE DEF tear, y
  <2>4. y \in Jobs /\ y.at = job[d].at /\ y.act = job[d].act /\ y.todo = job[d].todo
        /\ y.tear = tear /\ y.saw = bound
    <3>1. job[d] \in Jobs /\ bound \in SUBSET Deployments
      BY <1>1, KeptRefs, JobFields
    <3> QED
      BY <2>2, <2>3, <3>1 DEF Jobs
  <2>5. Moves(d) /\ SameTask(d) /\ job'[d] = y
    BY <2>1, <2>4, KeptRefs, MovesTo DEF SameTask
  <2>6. job[d].at = "tearing"
    BY <1>2, <1>1, Tearing
  <2>7. "unbinding" \in BeforeApplication /\ "unbinding" \in BeforeProvider
    BY DEF BeforeApplication, BeforeProvider
  <2>8. ASSUME job[d].act = "uninstall", d \notin excused'
        PROVE  /\ d \in applications' => \E q \in Parts : job'[d].tear[q] \in BeforeApplication
               /\ \A q \in Parts : <<d, q>> \in providers' => job'[d].tear[q] \in BeforeProvider
    <3>1. \A q \in Parts : <<d, q>> \in providers => job[d].tear[q] \in BeforeProvider
      BY <1>1, <2>8, KeptRefs DEF Cleared
    <3> QED
      BY <1>1, <2>2, <2>4, <2>5, <2>7, <3>1
  <2>9. \A x \in Deployments \ {d} : x \in bound => x \in bound' /\ x \in job'[d].saw
    BY <1>2, <2>4, <2>5
  <2>10. bound' \subseteq Deployments /\ \A x \in providers \ providers' : x[1] = d
    BY <1>1, <1>2
  <2> QED
    BY <1>1, <2>4, <2>5, <2>6, <2>8, <2>9, <2>10, TearStepKeeps
<1>3. CASE /\ Stage(d, "gate", "application")
           /\ \/ bound' = bound
              \/ job[d].tear["gate"] = "unbinding" /\ bound' = job[d].saw \ {d}
  <2>1. "application" \in BeforeApplication /\ "application" \in BeforeProvider
        /\ "application" \in Tears
    BY DEF BeforeApplication, BeforeProvider, Tears
  <2>2. bound' \subseteq Deployments
    BY <1>1, <1>3
  <2>3. Staged(d, "gate", "application")
    BY <1>1, <1>3, <2>1, KeptRefs, StageIs
  <2> QED
    BY <1>1, <1>3, <2>1, <2>2, <2>3, StageKeeps DEF Staged
<1> QED
  BY <1>2, <1>3 DEF Detach

(* The application of an app goes with whichever part deletes it.           *)
LEMMA DeleteApplicationKeeps ==
  ASSUME IdentityInv, NEW d \in Deployments, NEW p \in Parts, DeleteApplication(d, p)
  PROVE  IdentityInv'
<1>1. /\ job[d].tear[p] \in {"application", "lone application"}
      /\ UNCHANGED <<providers, bound, ref, saved, installed>> /\ bound' \subseteq Deployments
      /\ applications' \in {applications, applications \ {d}}
  BY KeptRefs DEF DeleteApplication, records
<1>2. CASE /\ applications' = applications \ {d} /\ excused' = excused
           /\ Stage(d, p, IF job[d].tear[p] = "application" THEN "provider" ELSE "none")
  <2>1. {"provider", "none"} \subseteq Tears /\ "provider" \in BeforeProvider
        /\ "lone application" \notin BeforeProvider
    BY DEF Tears, BeforeProvider
  <2>2. CASE job[d].tear[p] = "application"
    <3>1. Stage(d, p, "provider")
      BY <1>2, <2>2
    <3>2. Staged(d, p, "provider")
      BY <2>1, <3>1, KeptRefs, StageIs
    <3>3. d \notin applications' /\ excused' = excused
      BY <1>2
    <3> QED
      BY <1>1, <2>1, <2>2, <3>2, <3>3, StageKeeps DEF Staged
  <2>3. CASE job[d].tear[p] = "lone application"
    <3>1. Stage(d, p, "none")
      BY <1>2, <2>3
    <3>2. Staged(d, p, "none")
      BY <2>1, <3>1, KeptRefs, StageIs
    <3>3. d \notin applications' /\ excused' = excused
      BY <1>2
    <3> QED
      BY <1>1, <2>1, <2>3, <3>2, <3>3, StageKeeps DEF Staged
  <2> QED
    BY <1>1, <2>2, <2>3
<1>3. CASE Stage(d, p, "none") /\ excused' = excused \cup {d}
  <2>1. "none" \in Tears
    BY DEF Tears
  <2>2. Staged(d, p, "none")
    BY <1>3, <2>1, KeptRefs, StageIs
  <2>3. d \in excused'
    BY <1>3
  <2> QED
    BY <1>1, <1>3, <2>2, <2>3, StageKeeps DEF Staged
<1> QED
  BY <1>2, <1>3 DEF DeleteApplication, Left

(* A part whose provider is deleted is gone.                                *)
LEMMA DeleteProviderKeeps ==
  ASSUME IdentityInv, NEW d \in Deployments, NEW p \in Parts, DeleteProvider(d, p)
  PROVE  IdentityInv'
<1>1. /\ job[d].tear[p] = "provider" /\ Stage(d, p, "none")
      /\ UNCHANGED <<applications, bound, ref, saved, installed>> /\ bound' \subseteq Deployments
      /\ providers' \in {providers, providers \ {<<d, p>>}}
      /\ \/ <<d, p>> \notin providers' /\ excused' = excused
         \/ excused' = excused \cup {d}
  BY KeptRefs DEF DeleteProvider, Left, records
<1>2. "none" \in Tears /\ "provider" \notin BeforeApplication
  BY DEF Tears, BeforeApplication
<1>3. Staged(d, p, "none")
  BY <1>1, <1>2, KeptRefs, StageIs
<1>4. d \notin excused' => <<d, p>> \notin providers' /\ excused' = excused
  BY <1>1
<1> QED
  BY <1>1, <1>2, <1>3, <1>4, StageKeeps DEF Staged

(* A tear-down that is over has left nothing, or is excused.                *)
LEMMA TornDownKeeps == ASSUME IdentityInv, NEW d \in Deployments, TornDown(d) PROVE IdentityInv'
<1>1. /\ job[d].at = "tearing" /\ job[d].tear = NoTear /\ job' = [job EXCEPT ![d] = NoJob]
      /\ d \in installed /\ UNCHANGED <<providers, applications, bound, excused>>
      /\ UNCHANGED <<backend, excused>>
  BY KeptRefs DEF TornDown, Acting, backend
<1>2. Moves(d) /\ job'[d] = NoJob /\ ~Rewriting(d)
  BY <1>1, KeptRefs, NoJobIs, NoTearIs, MovesTo DEF Rewriting
<1>3. CASE job[d].act = "uninstall"
  <2>1. installed' = installed \ {d} /\ ref' = [ref EXCEPT ![d] = {}]
        /\ saved' = [saved EXCEPT ![d] = {}]
    BY <1>3 DEF TornDown
  <2>2. \A p \in Parts : <<d, p>> \in providers' => p \in ToSet(Wanted(d))
    BY <1>1, KeptRefs DEF Owns
  <2>3. Cleared(d)'
    <3>1. "none" \notin BeforeApplication /\ "none" \notin BeforeProvider
      BY DEF BeforeApplication, BeforeProvider
    <3>2. d \notin excused => d \notin applications /\ \A p \in Parts : <<d, p>> \notin providers
      BY <1>1, <1>3, <3>1, KeptRefs, NoTearIs DEF Cleared
    <3> QED
      BY <1>1, <1>2, <3>2, NoJobIs DEF Cleared
  <2>4. Acting(d)' /\ StaysBound(d)' /\ ~Rewriting(d)'
    BY <1>2, NoJobIs DEF Acting, StaysBound, HasBound, Rewriting
  <2>5. {} \in {{}, ToSet(Wanted(d))} /\ installed' \subseteq Deployments
        /\ \A x \in Deployments \ {d} : x \in installed' <=> x \in installed
    BY <2>1, KeptRefs
  <2> QED
    BY <1>1, <1>2, <2>1, <2>2, <2>3, <2>4, <2>5, KeptRefs, StepKeeps
<1>4. CASE job[d].act # "uninstall"
  <2>1. UNCHANGED records
    BY <1>4 DEF TornDown
  <2> QED
    BY <1>1, <1>2, <2>1, EndKeeps
<1> QED
  BY <1>3, <1>4

(* No job survives a restart, and the refs are those on disk.               *)
LEMMA CrashKeeps == ASSUME IdentityInv, Crash PROVE IdentityInv'
<1>1. /\ job' = [d \in Deployments |-> NoJob] /\ ref' = saved
      /\ UNCHANGED <<providers, applications, bound, saved, installed, excused>>
  BY DEF Crash, backend
<1>2. \A d \in Deployments : job'[d] = NoJob /\ ref'[d] = saved[d]
  BY <1>1
<1>3. Shapes'
  BY <1>1, NoJobIs DEF IdentityInv, Shapes
<1>4. ASSUME NEW d \in Deployments PROVE Acting(d)' /\ Owns(d)' /\ Cleared(d)' /\ StaysBound(d)'
  <2>1. Acting(d)' /\ StaysBound(d)'
    BY <1>2, NoJobIs DEF Acting, StaysBound, HasBound
  <2>2. Owns(d)'
    BY <1>1, <1>2, KeptRefs DEF Owns
  <2>3. Cleared(d)'
    BY <1>1, <1>2, KeptRefs, NoJobIs DEF Cleared
  <2> QED
    BY <2>1, <2>2, <2>3
<1> QED
  BY <1>3, <1>4 DEF IdentityInv

(* At first there is nothing.                                               *)
LEMMA InitIdentity == Init => IdentityInv
<1> SUFFICES ASSUME Init PROVE IdentityInv
  OBVIOUS
<1>1. Shapes
  BY NoJobIs DEF Init, Shapes
<1>2. \A d \in Deployments : job[d] = NoJob /\ ref[d] = {} /\ saved[d] = {} /\ d \in installed
  BY DEF Init
<1>3. ASSUME NEW d \in Deployments PROVE Acting(d) /\ Owns(d) /\ Cleared(d) /\ StaysBound(d)
  <2>1. Acting(d) /\ StaysBound(d)
    BY <1>2, NoJobIs DEF Acting, StaysBound, HasBound
  <2>2. Owns(d) /\ Cleared(d)
    BY <1>2, NoJobIs DEF Init, Owns, Cleared
  <2> QED
    BY <2>1, <2>2
<1> QED
  BY <1>1, <1>3 DEF IdentityInv

(* Every step keeps the invariant.                                          *)
LEMMA NextIdentity == IdentityInv /\ Next => IdentityInv'
<1> SUFFICES ASSUME IdentityInv, Next PROVE IdentityInv'
  OBVIOUS
<1>1. ASSUME NEW d \in Deployments, Provision(d) \/ Uninstall(d) PROVE IdentityInv'
  BY <1>1, ProvisionKeeps, UninstallKeeps
<1>2. ASSUME NEW d \in Deployments, JobStep(d) PROVE IdentityInv'
  BY <1>2, ChooseKeeps, ReuseKeeps, CreateProviderKeeps, CreateApplicationKeeps, RollBackKeeps,
     ReadOutpostKeeps, BindKeeps, ReconcileGroupsKeeps, AdvanceKeeps, SaveRefsKeeps, ComposeUpKeeps,
     LookUpKeeps, DetachKeeps, TornDownKeeps, DeleteApplicationKeeps, DeleteProviderKeeps
     DEF JobStep
<1> QED
  BY <1>1, <1>2, CrashKeeps DEF Next

(* So does a step of something else.                                        *)
LEMMA StayIdentity == IdentityInv /\ UNCHANGED vars => IdentityInv'
<1> SUFFICES ASSUME IdentityInv, UNCHANGED vars PROVE IdentityInv'
  OBVIOUS
<1>1. UNCHANGED <<providers, applications, bound, ref, saved, installed, job, excused>>
  BY DEF vars, backend, records
<1>2. Shapes'
  BY <1>1 DEF IdentityInv, Shapes
<1>3. ASSUME NEW d \in Deployments PROVE Acting(d)' /\ Owns(d)' /\ Cleared(d)' /\ StaysBound(d)'
  <2>1. Acting(d)' /\ Owns(d)'
    BY <1>1, KeptRefs DEF Acting, Owns, Part
  <2>2. Cleared(d)'
    BY <1>1, KeptRefs DEF Cleared
  <2>3. StaysBound(d)'
    BY <1>1, KeptRefs DEF StaysBound, HasBound, Rewriting, Part
  <2> QED
    BY <2>1, <2>2, <2>3
<1> QED
  BY <1>2, <1>3 DEF IdentityInv

(* What is promised is what the invariant says of apps that are gone, and   *)
(* of apps about to come up.                                                *)
LEMMA IdentityGives ==
  IdentityInv => /\ NothingOrphaned
                 /\ \A d \in Deployments : job[d].at = "upping" => d \in bound \/ job[d].crossed
<1> SUFFICES ASSUME IdentityInv
             PROVE  /\ NothingOrphaned
                    /\ \A d \in Deployments : job[d].at = "upping" => d \in bound \/ job[d].crossed
  OBVIOUS
<1>1. NothingOrphaned
  BY DEF IdentityInv, NothingOrphaned, Cleared
<1>2. ASSUME NEW d \in Deployments, job[d].at = "upping" PROVE d \in bound \/ job[d].crossed
  BY <1>2, KeptRefs DEF Acting, HasBound, StaysBound
<1> QED
  BY <1>1, <1>2

(* A step keeps the invariant and both promises.                            *)
LEMMA NextFollows ==
  IdentityInv /\ [Next]_vars => IdentityInv' /\ [NothingOrphaned' /\ StartsBound]_vars
<1>1. IdentityInv /\ [Next]_vars => IdentityInv'
  BY NextIdentity, StayIdentity
<1>2. IdentityInv' => NothingOrphaned'
  BY DEF IdentityInv, NothingOrphaned, Cleared
<1>3. IdentityInv => StartsBound
  BY IdentityGives DEF StartsBound, ComposeUp
<1> QED
  BY <1>1, <1>2, <1>3

(* For any deployments, jobs, failures and restarts: an uninstall none of   *)
(* whose requests fails leaves nothing at the identity provider, and an app *)
(* comes up only with its gate bound, unless another update crosses it.     *)
THEOREM IdentityKept == Spec => [][NothingOrphaned' /\ StartsBound]_vars
<1>1. IdentityInv /\ [Next]_vars => IdentityInv' /\ [NothingOrphaned' /\ StartsBound]_vars
  BY NextFollows
<1> QED
  BY <1>1, InitIdentity, PTL DEF Spec
=============================================================================
