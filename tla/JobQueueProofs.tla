--------------------------- MODULE JobQueueProofs ---------------------------
(***************************************************************************)
(* Proofs about JobQueue, whatever the jobs, deployments, callers, limits, *)
(* restarts and database faults are: lifecycle work for one deployment     *)
(* never overlaps, and no more jobs run than the limit allows; the service *)
(* implements LifecycleLock; a job's row says what its driver does, and an *)
(* outcome stays.                                                          *)
(***************************************************************************)
EXTENDS JobQueue, FiniteSetTheorems, SequenceTheorems, TLAPS

ExclTypes ==
  {r \in [at : {"idle", "waiting", "inside", "ticking", "done"},
          on : Deployments \cup {NoDeployment}] :
     r.at \in {"waiting", "inside"} => r.on \in Deployments}

(* The types the argument needs. *)
TypeInv ==
  /\ row \in [Jobs -> Statuses]
  /\ born \in [Jobs -> Nat]
  /\ queue \in SUBSET Jobs
  /\ turn \in [Jobs -> Nat]
  /\ pushed \in Nat
  /\ held \in SUBSET Deployments
  /\ waiters \in [Deployments -> Seq(Workers)]
  /\ running \in Int
  /\ phase \in [Jobs -> Phases]
  /\ create \in [Jobs -> {"none", "inserting", "done"}]
  /\ excl \in [Workers -> ExclTypes]
  /\ started \in BOOLEAN
  /\ startup \in {"idle", "opening", "orphansRead", "failing"}
  /\ pending \in SUBSET Jobs

Works(ph, j, d) == ph[j] # "none" /\ DeploymentOf[j] = d
Owns(ex, w, d) == ex[w].at = "inside" /\ ex[w].on = d

(* Everybody at work on d: at most one, and exactly when d is held. *)
Exclusive(h, ph, ex) ==
  \A d \in Deployments :
    /\ \A j, k \in Jobs : Works(ph, j, d) /\ Works(ph, k, d) => j = k
    /\ \A v, w \in Workers : Owns(ex, v, d) /\ Owns(ex, w, d) => v = w
    /\ \A j \in Jobs, w \in Workers : ~(Works(ph, j, d) /\ Owns(ex, w, d))
    /\ d \in h <=> (\E j \in Jobs : Works(ph, j, d)) \/ (\E w \in Workers : Owns(ex, w, d))

(* The queue holds each job once, in a strict order, and only jobs whose    *)
(* runJob has not begun.                                                    *)
Queued(q, t, p, ph) ==
  /\ \A j \in q : ph[j] = "none" /\ t[j] <= p
  /\ \A j, k \in q : t[j] = t[k] => j = k

(* A job is on its way through the service at most once: while its row is   *)
(* being inserted it is neither queued nor running, and before scheduling   *)
(* opens nothing is.                                                        *)
OnceInv ==
  /\ \A j \in Jobs : phase[j] # "none" \/ j \in queue => create[j] = "done"
  /\ \A j \in Jobs : create[j] = "inserting" => started
  /\ ~started => \A j \in Jobs : phase[j] = "none" /\ j \notin queue
  /\ startup # "idle" => ~started
  /\ \A j \in Jobs : row[j] # "absent" => create[j] # "none"
  /\ \A j \in pending : create[j] = "done"

BornSet == {j \in Jobs : born[j] > 0}

(* created_at orders the rows. *)
BornInv ==
  /\ \A j \in Jobs : born[j] > 0 <=> create[j] # "none"
  /\ \A j \in BornSet : born[j] <= Cardinality(BornSet)
  /\ \A j, k \in BornSet : born[j] = born[k] => j = k

(* Callers wait only for a held key, and each in one place. *)
WaitInv(h, ws, ex) ==
  \A d \in Deployments :
    /\ ws[d] # <<>> => d \in h
    /\ \A i \in 1..Len(ws[d]) : ex[ws[d][i]] = [at |-> "waiting", on |-> d]
    /\ \A i, k \in 1..Len(ws[d]) : ws[d][i] = ws[d][k] => i = k

IInv ==
  /\ TypeInv
  /\ Exclusive(held, phase, excl)
  /\ Queued(queue, turn, pushed, phase)
  /\ OnceInv
  /\ BornInv
  /\ WaitInv(held, waiters, excl)

-----------------------------------------------------------------------------
(* What a tick does: it takes a set P of jobs out of the queue, no two of   *)
(* one deployment and none of a held one, takes their keys, and leaves the  *)
(* rest of the queue as it was.                                             *)
Takes(P, q, t, h, ph, rw) ==
  /\ queue' = q \ P
  /\ turn' \in [Jobs -> Nat]
  /\ \A j \in q \ P : turn'[j] = t[j]
  /\ held' = h \cup ({DeploymentOf[j] : j \in P} \ {NoDeployment})
  /\ running' \in Int
  /\ phase' \in [Jobs -> Phases]
  /\ \A j \in Jobs : phase'[j] # "none" <=> j \in P \/ ph[j] # "none"
  /\ row' \in [Jobs -> Statuses]
  /\ \A j \in Jobs : row'[j] = "absent" <=> rw[j] = "absent"
  /\ \A j \in P : DeploymentOf[j] = NoDeployment \/ DeploymentOf[j] \notin h
  /\ \A j, k \in P :
       DeploymentOf[j] = DeploymentOf[k] /\ DeploymentOf[j] # NoDeployment => j = k

(* It does so whatever it is given. *)
LEMMA TickEffect ==
  ASSUME NEW q \in SUBSET Jobs, NEW t \in [Jobs -> Nat], NEW h \in SUBSET Deployments,
         NEW n \in Int, NEW ph \in [Jobs -> Phases], NEW rw \in [Jobs -> Statuses],
         NEW flags,
         \A j, k \in q : t[j] = t[k] => j = k,
         Tick(q, t, h, n, ph, rw, flags)
  PROVE  \E P \in SUBSET q : Takes(P, q, t, h, ph, rw)
<1> DEFINE P == Picked(q, t, h, n)
<1>1. P \subseteq Runnable(q, t, h)
  BY DEF Picked
<1>2. Runnable(q, t, h) \subseteq q
  BY DEF Runnable
<1>3. P \in SUBSET q
  BY <1>1, <1>2
<1>4. \A j \in P : DeploymentOf[j] = NoDeployment \/ DeploymentOf[j] \notin h
  BY <1>1 DEF Runnable
<1>5. ASSUME NEW j \in P, NEW k \in P,
             DeploymentOf[j] = DeploymentOf[k], DeploymentOf[j] # NoDeployment
      PROVE  j = k
  <2>1. t[j] <= t[k] /\ t[k] <= t[j]
    BY <1>1, <1>3, <1>5 DEF Runnable
  <2>2. t[j] \in Nat /\ t[k] \in Nat
    BY <1>3
  <2>3. t[j] = t[k]
    BY <2>1, <2>2
  <2> QED
    BY <2>3, <1>3
<1>6. Cardinality(P) \in Nat
  <2>1. IsFiniteSet(P)
    BY <1>3, FS_Subset, JobQueueAssumption
  <2> QED
    BY <2>1, FS_CardinalityType
<1>7. /\ queue' = q \ P
      /\ turn' = [j \in Jobs |-> IF j \in P THEN 0 ELSE t[j]]
      /\ held' = h \cup ({DeploymentOf[j] : j \in P} \ {NoDeployment})
      /\ running' = n + Cardinality(P)
      /\ phase' = [j \in Jobs |->
                     IF j \notin P THEN ph[j]
                     ELSE IF j \in flags THEN "revoking" ELSE "starting"]
      /\ row' = [j \in Jobs |->
                   IF j \notin P \/ rw[j] = "absent" THEN rw[j]
                   ELSE IF j \in flags THEN "cancelled" ELSE "running"]
  BY DEF Tick
<1> HIDE DEF P
<1>8. turn' \in [Jobs -> Nat] /\ \A j \in q \ P : turn'[j] = t[j]
  BY <1>7
<1>9. phase' \in [Jobs -> Phases] /\ \A j \in Jobs : phase'[j] # "none" <=> j \in P \/ ph[j] # "none"
  BY <1>7 DEF Phases
<1>10. row' \in [Jobs -> Statuses] /\ \A j \in Jobs : row'[j] = "absent" <=> rw[j] = "absent"
  BY <1>7 DEF Statuses, Terminal
<1>11. running' \in Int
  BY <1>6, <1>7
<1> QED
  BY <1>3, <1>4, <1>5, <1>7, <1>8, <1>9, <1>10, <1>11 DEF Takes

(* After a tick the lock is exclusive still and the queue in order.         *)
Kept(q, h, ph, rw, ex, p) ==
  /\ queue' \in SUBSET q
  /\ turn' \in [Jobs -> Nat]
  /\ held' \in SUBSET Deployments
  /\ h \subseteq held'
  /\ running' \in Int
  /\ phase' \in [Jobs -> Phases]
  /\ row' \in [Jobs -> Statuses]
  /\ \A j \in Jobs : phase'[j] # "none" => j \in q \/ ph[j] # "none"
  /\ \A j \in Jobs : row'[j] = "absent" <=> rw[j] = "absent"
  /\ Queued(queue', turn', p, phase')
  /\ Exclusive(held', phase', ex)

LEMMA TickKeeps ==
  ASSUME NEW q \in SUBSET Jobs, NEW t \in [Jobs -> Nat], NEW h \in SUBSET Deployments,
         NEW n \in Int, NEW ph \in [Jobs -> Phases], NEW rw \in [Jobs -> Statuses],
         NEW flags, NEW ex \in [Workers -> ExclTypes], NEW p \in Nat,
         Exclusive(h, ph, ex),
         Queued(q, t, p, ph),
         Tick(q, t, h, n, ph, rw, flags)
  PROVE  Kept(q, h, ph, rw, ex, p)
<1>1. \A j, k \in q : t[j] = t[k] => j = k
  BY DEF Queued
<1>2. PICK P \in SUBSET q : Takes(P, q, t, h, ph, rw)
  BY <1>1, TickEffect
<1>3. held' \in SUBSET Deployments /\ h \subseteq held'
  BY <1>2, JobQueueAssumption DEF Takes
<1>4. Queued(queue', turn', p, phase')
  BY <1>2 DEF Queued, Takes
<1>5. ASSUME NEW d \in Deployments
      PROVE  /\ \A j, k \in Jobs : Works(phase', j, d) /\ Works(phase', k, d) => j = k
             /\ \A v, w \in Workers : Owns(ex, v, d) /\ Owns(ex, w, d) => v = w
             /\ \A j \in Jobs, w \in Workers : ~(Works(phase', j, d) /\ Owns(ex, w, d))
             /\ d \in held' <=> \/ \E j \in Jobs : Works(phase', j, d)
                                \/ \E w \in Workers : Owns(ex, w, d)
  <2>1. d # NoDeployment
    BY JobQueueAssumption
  <2>2. /\ \A j, k \in Jobs : Works(ph, j, d) /\ Works(ph, k, d) => j = k
        /\ \A v, w \in Workers : Owns(ex, v, d) /\ Owns(ex, w, d) => v = w
        /\ \A j \in Jobs, w \in Workers : ~(Works(ph, j, d) /\ Owns(ex, w, d))
        /\ d \in h <=> (\E j \in Jobs : Works(ph, j, d)) \/ (\E w \in Workers : Owns(ex, w, d))
    BY DEF Exclusive
  <2>3. \A j \in Jobs : Works(phase', j, d) <=> Works(ph, j, d) \/ (j \in P /\ DeploymentOf[j] = d)
    BY <1>2 DEF Works, Takes
  <2>4. \A j \in P : DeploymentOf[j] = d => d \notin h
    BY <1>2, <2>1 DEF Takes
  <2>5. \A j, k \in P : DeploymentOf[j] = d /\ DeploymentOf[k] = d => j = k
    BY <1>2, <2>1 DEF Takes
  <2>6. d \in held' <=> d \in h \/ \E j \in P : DeploymentOf[j] = d
    BY <1>2, <2>1 DEF Takes
  <2>7. P \subseteq Jobs
    BY <1>2
  <2> QED
    BY <2>2, <2>3, <2>4, <2>5, <2>6, <2>7
<1>6. Exclusive(held', phase', ex)
  BY <1>5 DEF Exclusive
<1> QED
  BY <1>2, <1>3, <1>4, <1>6 DEF Takes, Kept

-----------------------------------------------------------------------------
LEMMA InitIInv == Init => IInv
<1> SUFFICES ASSUME Init PROVE IInv
  OBVIOUS
<1>1. TypeInv
  <2>1. \A d \in Deployments : waiters[d] \in Seq(Workers)
    BY EmptySeq DEF Init
  <2>2. waiters \in [Deployments -> Seq(Workers)]
    BY <2>1 DEF Init
  <2>3. excl \in [Workers -> ExclTypes]
    BY DEF Init, ExclTypes
  <2>4. row \in [Jobs -> Statuses] /\ phase \in [Jobs -> Phases]
    BY DEF Init, Statuses, Phases
  <2>5. /\ born \in [Jobs -> Nat]
        /\ turn \in [Jobs -> Nat]
        /\ create \in [Jobs -> {"none", "inserting", "done"}]
    BY DEF Init
  <2>6. queue \in SUBSET Jobs /\ held \in SUBSET Deployments /\ pending \in SUBSET Jobs
    BY DEF Init
  <2>7. pushed \in Nat /\ running \in Int
    BY DEF Init
  <2>8. started \in BOOLEAN /\ startup \in {"idle", "opening", "orphansRead", "failing"}
    BY DEF Init
  <2> QED
    BY <2>2, <2>3, <2>4, <2>5, <2>6, <2>7, <2>8 DEF TypeInv
<1>2. Exclusive(held, phase, excl)
  BY DEF Init, Exclusive, Works, Owns
<1>3. Queued(queue, turn, pushed, phase)
  BY DEF Init, Queued
<1>4. OnceInv
  BY DEF Init, OnceInv
<1>5. BornInv
  BY DEF Init, BornInv, BornSet
<1>6. WaitInv(held, waiters, excl)
  BY DEF Init, WaitInv
<1> QED
  BY <1>1, <1>2, <1>3, <1>4, <1>5, <1>6 DEF IInv

(* Steps that touch neither the lock nor the order of the queue: they write *)
(* rows, move a runJob from one await to the next, drop queue entries, or   *)
(* advance recovery.                                                        *)
LEMMA QuietStep ==
  ASSUME IInv,
         UNCHANGED <<born, turn, pushed, held, waiters, create, excl, started>>,
         running' \in Int,
         queue' \subseteq queue,
         row' \in [Jobs -> Statuses],
         \A j \in Jobs : row'[j] # "absent" => row[j] # "absent",
         phase' \in [Jobs -> Phases],
         \A j \in Jobs : phase'[j] = "none" <=> phase[j] = "none",
         startup' \in {"idle", "opening", "orphansRead", "failing"},
         startup' # "idle" => ~started,
         pending' \in SUBSET Jobs,
         \A j \in pending' : create[j] = "done"
  PROVE  IInv'
<1>1. TypeInv'
  BY DEF IInv, TypeInv
<1>2. Exclusive(held, phase, excl)'
  <2>1. \A j \in Jobs : \A d : Works(phase', j, d) <=> Works(phase, j, d)
    BY DEF Works
  <2>2. \A w \in Workers : \A d : Owns(excl', w, d) <=> Owns(excl, w, d)
    BY DEF Owns
  <2>3. Exclusive(held, phase, excl) /\ held' = held
    BY DEF IInv
  <2>4. Exclusive(held', phase', excl')
    BY <2>1, <2>2, <2>3 DEF Exclusive
  <2> QED
    BY <2>4
<1>3. Queued(queue, turn, pushed, phase)'
  BY DEF IInv, TypeInv, Queued
<1>4. OnceInv'
  BY DEF IInv, TypeInv, OnceInv
<1>5. BornInv'
  BY DEF IInv, BornInv, BornSet
<1>6. WaitInv(held, waiters, excl)'
  BY DEF IInv, WaitInv
<1> QED
  BY <1>1, <1>2, <1>3, <1>4, <1>5, <1>6 DEF IInv

(* A write to an existing row leaves it existing. *)
LEMMA StoredRow ==
  ASSUME NEW j \in Jobs, NEW s \in Statuses \ {"absent"},
         row \in [Jobs -> Statuses]
  PROVE  /\ Stored(j, s) \in [Jobs -> Statuses]
         /\ \A k \in Jobs : Stored(j, s)[k] = "absent" <=> row[k] = "absent"
BY DEF Stored

LEMMA RecoveryKeeps ==
  ASSUME IInv
  PROVE  /\ EnsureStarted => IInv'
         /\ ReadOrphans => IInv'
         /\ InitializeFails => IInv'
         /\ ReadPending => IInv'
         /\ \A j \in Jobs : FailOrphan(j) => IInv'
<1> USE DEF tableVars, schedVars, callVars, lockVars, boundVars
<1>1. ASSUME EnsureStarted PROVE IInv'
  BY <1>1, QuietStep DEF EnsureStarted, IInv, TypeInv, OnceInv
<1>2. ASSUME ReadOrphans PROVE IInv'
  BY <1>2, QuietStep DEF ReadOrphans, IInv, TypeInv, OnceInv
<1>3. ASSUME InitializeFails PROVE IInv'
  BY <1>3, QuietStep DEF InitializeFails, IInv, TypeInv, OnceInv
<1>4. ASSUME ReadPending PROVE IInv'
  <2>1. ~started
    BY <1>4 DEF ReadPending, IInv, OnceInv
  <2>2. \A j \in pending' : create[j] = "done"
    BY <1>4, <2>1 DEF ReadPending, IInv, TypeInv, OnceInv
  <2> QED
    BY <1>4, <2>1, <2>2, QuietStep DEF ReadPending, IInv, TypeInv
<1>5. ASSUME NEW j \in Jobs, FailOrphan(j) PROVE IInv'
  <2>1. row' \in [Jobs -> Statuses] /\ \A k \in Jobs : row'[k] # "absent" => row[k] # "absent"
    BY <1>5, StoredRow DEF FailOrphan, IInv, TypeInv, Statuses, Terminal
  <2> QED
    BY <1>5, <2>1, QuietStep DEF FailOrphan, IInv, TypeInv, OnceInv
<1> QED
  BY <1>1, <1>2, <1>3, <1>4, <1>5

(* The snapshot is pushed newest first; the sizes of its upper parts order  *)
(* it strictly.                                                             *)
LEMMA OpenedInOrder ==
  ASSUME IInv, NEW R \in SUBSET Jobs, ~started,
         \A j \in R : create[j] = "done"
  PROVE  LET t == [j \in Jobs |->
                     IF j \in R
                     THEN pushed + Cardinality({k \in R : born[k] >= born[j]})
                     ELSE turn[j]]
             p == pushed + Cardinality(R)
         IN  /\ queue \cup R = R
             /\ p \in Nat
             /\ t \in [Jobs -> Nat]
             /\ Queued(R, t, p, phase)
<1> DEFINE Upper(j) == {k \in R : born[k] >= born[j]}
           rank == [j \in R |-> Cardinality(Upper(j))]
           t == [j \in Jobs |-> IF j \in R THEN pushed + Cardinality(Upper(j)) ELSE turn[j]]
           p == pushed + Cardinality(R)
<1>1. IsFiniteSet(R) /\ Cardinality(R) \in Nat
  BY FS_Subset, FS_CardinalityType, JobQueueAssumption
<1>2. ASSUME NEW j \in R
      PROVE  /\ Upper(j) \in SUBSET R
             /\ IsFiniteSet(Upper(j))
             /\ rank[j] \in Nat
             /\ rank[j] <= Cardinality(R)
  <2>1. Upper(j) \in SUBSET R
    OBVIOUS
  <2> QED
    BY <2>1, <1>1, FS_Subset, FS_CardinalityType
<1>3. ASSUME NEW j \in R, NEW k \in R, born[j] < born[k]
      PROVE  rank[j] # rank[k]
  <2>0. \A i \in R : born[i] \in Nat
    BY DEF IInv, TypeInv
  <2>1. Upper(k) \in SUBSET Upper(j)
    BY <1>3, <2>0
  <2>2. j \in Upper(j) /\ j \notin Upper(k)
    BY <1>3, <2>0
  <2>3. Cardinality(Upper(k)) # Cardinality(Upper(j))
    BY <2>1, <2>2, <1>2, FS_Subset
  <2> QED
    BY <2>3
<1>4. \A j \in Jobs : t[j] = IF j \in R THEN pushed + rank[j] ELSE turn[j]
  OBVIOUS
<1> HIDE DEF rank
<1>5. \A j, k \in R : rank[j] = rank[k] => j = k
  <2>1. \A j \in R : born[j] \in Nat /\ j \in BornSet
    BY DEF IInv, TypeInv, BornInv, BornSet
  <2>2. \A j, k \in R : born[j] = born[k] => j = k
    BY <2>1 DEF IInv, BornInv
  <2> SUFFICES ASSUME NEW j \in R, NEW k \in R, rank[j] = rank[k] PROVE j = k
    OBVIOUS
  <2>3. ~(born[j] < born[k]) /\ ~(born[k] < born[j])
    BY <1>3
  <2> QED
    BY <2>1, <2>2, <2>3
<1>6. queue \cup R = R /\ (\A j \in Jobs : phase[j] = "none")
  BY DEF IInv, TypeInv, OnceInv
<1>7. p = pushed + Cardinality(R) /\ p \in Nat /\ pushed \in Nat
  BY <1>1 DEF IInv, TypeInv
<1>8. t \in [Jobs -> Nat]
  <2>1. \A j \in Jobs : turn[j] \in Nat
    BY DEF IInv, TypeInv
  <2>2. \A j \in Jobs : t[j] \in Nat
    BY <1>2, <1>4, <1>7, <2>1
  <2> QED
    BY <2>2
<1>8b. t = [j \in Jobs |-> IF j \in R
                          THEN pushed + Cardinality({k \in R : born[k] >= born[j]})
                          ELSE turn[j]]
  OBVIOUS
<1> HIDE DEF t, p
<1>9. Queued(R, t, p, phase)
  <2>1. \A j \in R : t[j] = pushed + rank[j] /\ rank[j] \in Nat /\ rank[j] <= Cardinality(R)
    BY <1>2, <1>4
  <2>2. \A j \in R : t[j] <= p
    BY <2>1, <1>1, <1>7
  <2>3. \A j, k \in R : t[j] = t[k] => j = k
    BY <2>1, <1>5, <1>7
  <2> QED
    BY <2>2, <2>3, <1>6 DEF Queued
<1> QED
  BY <1>6, <1>7, <1>8, <1>8b, <1>9

LEMMA OpenSchedulingKeeps ==
  ASSUME IInv, NEW R \in SUBSET Jobs, ~started,
         \A j \in R : create[j] = "done",
         OpenScheduling(R)
  PROVE  IInv'
<1> DEFINE t == [j \in Jobs |-> IF j \in R
                                THEN pushed + Cardinality({k \in R : born[k] >= born[j]})
                                ELSE turn[j]]
<1>6. /\ queue \cup R = R
      /\ pushed' = pushed + Cardinality(R)
      /\ \A j \in Jobs : phase[j] = "none"
  BY OpenedInOrder DEF OpenScheduling, IInv, OnceInv
<1>7. pushed' \in Nat /\ t \in [Jobs -> Nat] /\ Queued(R, t, pushed', phase)
  BY <1>6, OpenedInOrder
<1>10. Tick(R, t, held, running, phase, row, cancelled)
  BY <1>6 DEF OpenScheduling
<1> HIDE DEF t
<1>11. Kept(R, held, phase, row, excl, pushed')
  <2>1. /\ held \in SUBSET Deployments /\ running \in Int /\ phase \in [Jobs -> Phases]
        /\ row \in [Jobs -> Statuses] /\ excl \in [Workers -> ExclTypes]
        /\ Exclusive(held, phase, excl)
    BY DEF IInv, TypeInv
  <2> QED
    BY <1>7, <1>10, <2>1, TickKeeps
<1>12. /\ UNCHANGED <<born, create, waiters, excl>>
       /\ started' = TRUE /\ startup' = "idle" /\ pending' = {}
  BY DEF OpenScheduling, callVars, lockVars
<1>13. TypeInv'
  BY <1>7, <1>11, <1>12 DEF IInv, TypeInv, Kept
<1>14. OnceInv'
  BY <1>6, <1>11, <1>12 DEF IInv, TypeInv, OnceInv, Kept
<1>15. BornInv'
  BY <1>12 DEF IInv, BornInv, BornSet
<1>16. WaitInv(held, waiters, excl)'
  BY <1>11, <1>12 DEF IInv, WaitInv, Kept
<1> QED
  BY <1>11, <1>12, <1>13, <1>14, <1>15, <1>16 DEF IInv, Kept

LEMMA RecoverKeeps == IInv /\ (Recover \/ RecoverFails) => IInv'
<1> SUFFICES ASSUME IInv, Recover \/ RecoverFails PROVE IInv'
  OBVIOUS
<1>1. OpenScheduling(pending) /\ startup # "idle"
  BY DEF Recover, RecoverFails
<1>2. ~started /\ pending \in SUBSET Jobs /\ \A j \in pending : create[j] = "done"
  BY <1>1 DEF IInv, TypeInv, OnceInv
<1> QED
  BY <1>1, <1>2, OpenSchedulingKeeps

LEMMA InsertKeeps ==
  ASSUME IInv, NEW j \in Jobs, Insert(j)
  PROVE  IInv'
<1>1. /\ started /\ create[j] = "none"
      /\ create' = [create EXCEPT ![j] = "inserting"]
      /\ row' = [row EXCEPT ![j] = "pending"]
      /\ born' = [born EXCEPT ![j] = 1 + Cardinality(BornSet)]
      /\ UNCHANGED <<queue, turn, pushed, held, running, phase, waiters, excl,
                     started, startup, pending>>
  BY DEF Insert, BornSet, schedVars, lockVars, bootVars
<1>2. IsFiniteSet(BornSet) /\ Cardinality(BornSet) \in Nat
  BY FS_Subset, FS_CardinalityType, JobQueueAssumption DEF BornSet
<1>3. j \notin BornSet
  BY <1>1 DEF IInv, BornInv, BornSet
<1>4. BornSet' = BornSet \cup {j}
  <2>1. \A k \in Jobs : born'[k] = IF k = j THEN 1 + Cardinality(BornSet) ELSE born[k]
    BY <1>1 DEF IInv, TypeInv
  <2>2. \A k \in Jobs : born'[k] > 0 <=> k = j \/ born[k] > 0
    BY <1>2, <2>1
  <2> QED
    BY <2>2 DEF BornSet
<1>5. Cardinality(BornSet') = Cardinality(BornSet) + 1
  BY <1>2, <1>3, <1>4, FS_AddElement
<1>6. TypeInv'
  BY <1>1, <1>2 DEF IInv, TypeInv, Statuses
<1>7. BornInv'
  <2>1. \A k \in Jobs : born'[k] > 0 <=> create'[k] # "none"
    BY <1>1, <1>2 DEF IInv, TypeInv, BornInv
  <2>2. \A k \in BornSet : born'[k] = born[k] /\ born[k] <= Cardinality(BornSet) /\ born[k] \in Nat
    BY <1>1, <1>3 DEF IInv, TypeInv, BornInv, BornSet
  <2>3. born'[j] = Cardinality(BornSet) + 1
    BY <1>1, <1>2 DEF IInv, TypeInv
  <2>4. \A k \in BornSet' : born'[k] <= Cardinality(BornSet')
    BY <2>2, <2>3, <1>2, <1>4, <1>5
  <2>5. \A i, k \in BornSet : born[i] = born[k] => i = k
    BY DEF IInv, BornInv
  <2>6. \A i, k \in BornSet' : born'[i] = born'[k] => i = k
    BY <2>2, <2>3, <2>5, <1>2, <1>4
  <2> QED
    BY <2>1, <2>4, <2>6 DEF BornInv
<1>8. OnceInv'
  BY <1>1 DEF IInv, TypeInv, OnceInv
<1>9. /\ Exclusive(held, phase, excl)' /\ Queued(queue, turn, pushed, phase)'
      /\ WaitInv(held, waiters, excl)'
  BY <1>1 DEF IInv, Exclusive, Works, Owns, Queued, WaitInv
<1> QED
  BY <1>6, <1>7, <1>8, <1>9 DEF IInv

(* A job pushed by createJob is behind everything queued.                   *)
LEMMA PushedLast ==
  ASSUME IInv, NEW j \in Jobs, create[j] = "inserting"
  PROVE  Queued(queue \cup {j}, [turn EXCEPT ![j] = pushed + 1], pushed + 1, phase)
<1> DEFINE t == [turn EXCEPT ![j] = pushed + 1]
<1>1. j \notin queue /\ phase[j] = "none"
  BY DEF IInv, OnceInv
<1>2. t[j] = pushed + 1 /\ \A k \in queue : t[k] = turn[k] /\ turn[k] \in Nat
  BY <1>1 DEF IInv, TypeInv
<1>3. \A k \in queue : phase[k] = "none" /\ turn[k] <= pushed
  BY DEF IInv, Queued
<1>4. \A i, k \in queue : turn[i] = turn[k] => i = k
  BY DEF IInv, Queued
<1>5. pushed \in Nat
  BY DEF IInv, TypeInv
<1> HIDE DEF t
<1>6. Queued(queue \cup {j}, t, pushed + 1, phase)
  BY <1>1, <1>2, <1>3, <1>4, <1>5 DEF Queued
<1> QED
  BY <1>6 DEF t

LEMMA EnqueueKeeps ==
  ASSUME IInv, NEW j \in Jobs, Enqueue(j)
  PROVE  IInv'
<1>1. /\ create[j] = "inserting"
      /\ create' = [create EXCEPT ![j] = "done"]
      /\ UNCHANGED <<born, waiters, excl, started, startup, pending>>
  BY DEF Enqueue, lockVars, bootVars
<1>2. BornInv'
  BY <1>1 DEF IInv, TypeInv, BornInv, BornSet
<1>3. CASE row[j] = "absent"
  <2>1. UNCHANGED <<row, queue, turn, pushed, held, running, phase>>
    BY <1>3 DEF Enqueue, schedVars
  <2>2. TypeInv' /\ OnceInv'
    BY <1>1, <2>1 DEF IInv, TypeInv, OnceInv
  <2>3. /\ Exclusive(held, phase, excl)' /\ Queued(queue, turn, pushed, phase)'
        /\ WaitInv(held, waiters, excl)'
    BY <1>1, <2>1 DEF IInv, Exclusive, Works, Owns, Queued, WaitInv
  <2> QED
    BY <1>2, <2>2, <2>3 DEF IInv
<1>4. CASE row[j] # "absent"
  <2> DEFINE q == queue \cup {j}
             t == [turn EXCEPT ![j] = pushed + 1]
  <2>1. pushed' = pushed + 1 /\ Tick(q, t, held, running, phase, row, cancelled)
    BY <1>4 DEF Enqueue
  <2>2. /\ q \in SUBSET Jobs /\ t \in [Jobs -> Nat] /\ pushed' \in Nat
        /\ held \in SUBSET Deployments /\ running \in Int /\ phase \in [Jobs -> Phases]
        /\ row \in [Jobs -> Statuses] /\ excl \in [Workers -> ExclTypes]
        /\ Exclusive(held, phase, excl)
    BY <2>1 DEF IInv, TypeInv
  <2>3. Queued(q, t, pushed', phase)
    BY <1>1, <2>1, PushedLast
  <2> HIDE DEF q, t
  <2>4. Kept(q, held, phase, row, excl, pushed')
    BY <2>1, <2>2, <2>3, TickKeeps
  <2>5. TypeInv'
    BY <1>1, <2>2, <2>4 DEF IInv, TypeInv, Kept
  <2>6. OnceInv'
    BY <1>1, <2>4 DEF IInv, TypeInv, OnceInv, Kept, q
  <2>7. WaitInv(held, waiters, excl)'
    BY <1>1, <2>4 DEF IInv, WaitInv, Kept
  <2> QED
    BY <1>1, <1>2, <2>4, <2>5, <2>6, <2>7 DEF IInv, Kept
<1> QED
  BY <1>3, <1>4

(* Between its first write and its finally clause runJob stays active and   *)
(* keeps its key.                                                           *)
LEMMA RunJobKeeps ==
  ASSUME IInv, NEW j \in Jobs,
         \/ Started(j) \/ ExecutorHandles(j) \/ ExecutorThrows(j) \/ ExecutorCancels(j)
         \/ ExecutorDeclines(j) \/ Checkpoint(j) \/ Slept(j) \/ Settled(j) \/ StoreFails(j)
  PROVE  IInv'
<1>1. UNCHANGED RunJobFrame
  BY DEF Started, ExecutorHandles, ExecutorThrows, ExecutorCancels, ExecutorDeclines,
         Checkpoint, Slept, Settled, StoreFails
<1>2. /\ phase[j] # "none"
      /\ \E p \in Phases \ {"none"} : Enter(j, p)
  BY DEF Started, ExecutorHandles, ExecutorThrows, ExecutorCancels, ExecutorDeclines,
         Checkpoint, Slept, Settled, StoreFails, Caught, Phases, Enter
<1>3. \/ UNCHANGED row
      \/ \E s \in Statuses \ {"absent"} : row' = Stored(j, s)
  BY DEF Started, ExecutorHandles, ExecutorThrows, ExecutorCancels, ExecutorDeclines,
         Checkpoint, Slept, Settled, StoreFails, Caught, Statuses, Terminal
<1>4. /\ phase' \in [Jobs -> Phases]
      /\ \A k \in Jobs : phase'[k] = "none" <=> phase[k] = "none"
  BY <1>2 DEF Enter, IInv, TypeInv
<1>5. /\ row' \in [Jobs -> Statuses]
      /\ \A k \in Jobs : row'[k] # "absent" => row[k] # "absent"
  <2>0. row \in [Jobs -> Statuses]
    BY DEF IInv, TypeInv
  <2>1. CASE UNCHANGED row
    BY <2>0, <2>1
  <2>2. ASSUME NEW s \in Statuses \ {"absent"}, row' = Stored(j, s)
        PROVE  /\ row' \in [Jobs -> Statuses]
               /\ \A k \in Jobs : row'[k] # "absent" => row[k] # "absent"
    BY <2>0, <2>2, StoredRow
  <2> QED
    BY <1>3, <2>1, <2>2
<1>6. /\ UNCHANGED <<born, queue, turn, pushed, held, running, create, waiters, excl,
                     started, startup, pending>>
      /\ queue' \subseteq queue
  BY <1>1 DEF RunJobFrame, callVars, lockVars, bootVars
<1>7. /\ running' \in Int
      /\ startup' \in {"idle", "opening", "orphansRead", "failing"}
      /\ pending' \in SUBSET Jobs
  BY <1>6 DEF IInv, TypeInv
<1>8. (startup' # "idle" => ~started) /\ (\A k \in pending' : create[k] = "done")
  BY <1>6 DEF IInv, OnceInv
<1> QED
  BY <1>4, <1>5, <1>6, <1>7, <1>8, QuietStep

(* A line of callers waiting for d, each in one place. *)
Line(s, d, ex) ==
  /\ \A i \in 1..Len(s) : ex[s[i]] = [at |-> "waiting", on |-> d]
  /\ \A i, k \in 1..Len(s) : s[i] = s[k] => i = k

LEMMA WaitInvLines ==
  ASSUME NEW h, NEW ws, NEW ex
  PROVE  WaitInv(h, ws, ex) <=>
           \A d \in Deployments : (ws[d] # <<>> => d \in h) /\ Line(ws[d], d, ex)
BY DEF WaitInv, Line

(* The callers behind the first one are still in line when only it has been *)
(* woken, and so is everybody in another line.                              *)
LEMMA LineBehindHead ==
  ASSUME NEW s \in Seq(Workers), s # <<>>, NEW d, NEW ex, NEW ey,
         Line(s, d, ex),
         \A w \in Workers : w # Head(s) /\ ex[w].at = "waiting" => ey[w] = ex[w]
  PROVE  /\ Head(s) \in Workers
         /\ ex[Head(s)] = [at |-> "waiting", on |-> d]
         /\ Tail(s) \in Seq(Workers)
         /\ Line(Tail(s), d, ey)
<1> DEFINE r == Tail(s)
<1>1. /\ Head(s) \in Workers /\ Head(s) = s[1]
      /\ r \in Seq(Workers)
      /\ Len(s) \in Nat \ {0}
      /\ Len(r) = Len(s) - 1
      /\ \A i \in 1..Len(r) : r[i] = s[i + 1]
  BY HeadTailProperties, EmptySeq
<1> HIDE DEF r
<1>2. \A i \in 1..Len(s) : s[i] \in Workers
  BY ElementOfSeq
<1>3. 1 \in 1..Len(s)
  BY <1>1
<1>4. \A i \in 1..Len(r) : i + 1 \in 1..Len(s) /\ i + 1 # 1
  BY <1>1
<1>5. ex[Head(s)] = [at |-> "waiting", on |-> d]
  BY <1>1, <1>3 DEF Line
<1>6. ASSUME NEW i \in 1..Len(r) PROVE ey[r[i]] = [at |-> "waiting", on |-> d]
  <2>1. r[i] = s[i + 1] /\ i + 1 \in 1..Len(s) /\ i + 1 # 1
    BY <1>1, <1>4
  <2>2. r[i] \in Workers /\ ex[r[i]] = [at |-> "waiting", on |-> d]
    BY <2>1, <1>2 DEF Line
  <2>3. s[i + 1] # s[1]
    BY <2>1, <1>3 DEF Line
  <2>4. r[i] # Head(s)
    BY <2>1, <2>3, <1>1
  <2>5. ex[r[i]].at = "waiting"
    BY <2>2
  <2> QED
    BY <2>2, <2>4, <2>5
<1>7. ASSUME NEW i \in 1..Len(r), NEW k \in 1..Len(r), r[i] = r[k]
      PROVE  i = k
  <2>1. i + 1 = k + 1
    BY <1>1, <1>4, <1>7 DEF Line
  <2> QED
    BY <2>1
<1>8. Line(r, d, ey)
  BY <1>6, <1>7 DEF Line
<1> QED
  BY <1>1, <1>5, <1>8 DEF r

LEMMA OtherLine ==
  ASSUME NEW s \in Seq(Workers), NEW c, NEW ex, NEW ey, NEW v, Line(s, c, ex),
         ex[v].on # c,
         \A w \in Workers : w # v /\ ex[w].at = "waiting" => ey[w] = ex[w]
  PROVE  Line(s, c, ey)
<1>1. \A i \in 1..Len(s) : s[i] \in Workers
  BY ElementOfSeq
<1>2. ASSUME NEW i \in 1..Len(s) PROVE ey[s[i]] = [at |-> "waiting", on |-> c]
  <2>1. s[i] \in Workers /\ ex[s[i]] = [at |-> "waiting", on |-> c]
    BY <1>1 DEF Line
  <2>2. ex[s[i]].at = "waiting" /\ ex[s[i]].on = c
    BY <2>1
  <2>3. s[i] # v
    BY <2>2
  <2> QED
    BY <2>1, <2>2, <2>3
<1> QED
  BY <1>2 DEF Line

(* release, when somebody waits: the first waiter gets the key, everybody   *)
(* behind it waits on.                                                      *)
HandedOn(d, ws, ex) ==
  /\ Head(waiters[d]) \in Workers
  /\ excl[Head(waiters[d])] = [at |-> "waiting", on |-> d]
  /\ d \in held
  /\ ws \in [Deployments -> Seq(Workers)]
  /\ WaitInv(held, ws, ex)

LEMMA HandOff ==
  ASSUME IInv, NEW d \in Deployments, waiters[d] # <<>>,
         NEW ws, ws = [waiters EXCEPT ![d] = Tail(waiters[d])],
         NEW ex,
         \A w \in Workers :
           w # Head(waiters[d]) /\ excl[w].at = "waiting" => ex[w] = excl[w]
  PROVE  HandedOn(d, ws, ex)
<1> DEFINE head == Head(waiters[d])
<1>1. waiters \in [Deployments -> Seq(Workers)] /\ waiters[d] \in Seq(Workers)
  BY DEF IInv, TypeInv
<1>2. \A c \in Deployments : (waiters[c] # <<>> => c \in held) /\ Line(waiters[c], c, excl)
  BY WaitInvLines DEF IInv
<1>3. /\ head \in Workers
      /\ excl[head] = [at |-> "waiting", on |-> d]
      /\ Tail(waiters[d]) \in Seq(Workers)
      /\ Line(Tail(waiters[d]), d, ex)
  BY <1>1, <1>2, LineBehindHead
<1>4. d \in held
  BY <1>2
<1>5. ws \in [Deployments -> Seq(Workers)]
  BY <1>1, <1>3
<1>6. ASSUME NEW c \in Deployments
      PROVE  (ws[c] # <<>> => c \in held) /\ Line(ws[c], c, ex)
  <2>1. CASE c = d
    <3>1. ws[c] = Tail(waiters[d])
      BY <1>1, <2>1
    <3> QED
      BY <1>3, <1>4, <2>1, <3>1
  <2>2. CASE c # d
    <3>1. ws[c] = waiters[c] /\ waiters[c] \in Seq(Workers)
      BY <1>1, <2>2
    <3>2. excl[head].on # c
      BY <1>3, <2>2
    <3>3. Line(waiters[c], c, excl)
      BY <1>2
    <3>4. \A w \in Workers : w # head /\ excl[w].at = "waiting" => ex[w] = excl[w]
      OBVIOUS
    <3> HIDE DEF head
    <3>5. Line(waiters[c], c, ex)
      BY <3>1, <3>2, <3>3, <3>4, OtherLine
    <3> QED
      BY <1>2, <3>1, <3>5
  <2> QED
    BY <2>1, <2>2
<1>7. WaitInv(held, ws, ex)
  BY <1>6, WaitInvLines
<1> QED
  BY <1>3, <1>4, <1>5, <1>7 DEF HandedOn

LEMMA FinishKeeps ==
  ASSUME IInv, NEW j \in Jobs, Finish(j)
  PROVE  IInv'
<1> DEFINE d == DeploymentOf[j]
           handOff == d # NoDeployment /\ waiters[d] # <<>>
           h == IF handOff THEN held ELSE held \ {d}
           ph == [phase EXCEPT ![j] = "none"]
<1>1. /\ phase[j] = "closing"
      /\ Tick(queue, turn, h, running - 1, ph, row, cancelled)
      /\ UNCHANGED <<born, pushed, create, started, startup, pending>>
      /\ handOff => /\ excl' = [excl EXCEPT ![Head(waiters[d])].at = "inside"]
                    /\ waiters' = [waiters EXCEPT ![d] = Tail(@)]
      /\ ~handOff => UNCHANGED <<waiters, excl>>
  BY DEF Finish, callVars, bootVars, lockVars
<1>2. d \in Deployments \cup {NoDeployment}
  BY JobQueueAssumption
<1>3. /\ row \in [Jobs -> Statuses] /\ queue \in SUBSET Jobs /\ turn \in [Jobs -> Nat]
      /\ held \in SUBSET Deployments /\ running - 1 \in Int /\ phase \in [Jobs -> Phases]
      /\ excl \in [Workers -> ExclTypes] /\ pushed \in Nat
      /\ waiters \in [Deployments -> Seq(Workers)]
  BY DEF IInv, TypeInv
<1>4. ph \in [Jobs -> Phases] /\ \A k \in Jobs : ph[k] = IF k = j THEN "none" ELSE phase[k]
  BY <1>3 DEF Phases
<1>5. h \in SUBSET Deployments
  BY <1>3
<1>6. /\ excl' \in [Workers -> ExclTypes]
      /\ waiters' \in [Deployments -> Seq(Workers)]
      /\ WaitInv(h, waiters', excl')
      /\ \A k \in Jobs, c \in Deployments :
           Works(ph, k, c) <=> Works(phase, k, c) /\ k # j
      /\ \A w \in Workers, c \in Deployments :
           Owns(excl', w, c) <=> Owns(excl, w, c) \/ (handOff /\ c = d /\ w = Head(waiters[d]))
  <2>1. \A k \in Jobs, c \in Deployments : Works(ph, k, c) <=> Works(phase, k, c) /\ k # j
    BY <1>4 DEF Works
  <2>2. CASE handOff
    <3> DEFINE head == Head(waiters[d])
    <3>1. d \in Deployments /\ waiters[d] # <<>> /\ h = held
      BY <1>2, <2>2
    <3>2. \A w \in Workers : w # head => excl'[w] = excl[w]
      BY <1>1, <1>3, <2>2
    <3> HIDE DEF h, ph
    <3>2b. waiters' = [waiters EXCEPT ![d] = Tail(waiters[d])]
      BY <1>1, <2>2
    <3>2c. HandedOn(d, waiters', excl')
      BY <3>1, <3>2, <3>2b, HandOff
    <3>3. /\ head \in Workers
          /\ excl[head] = [at |-> "waiting", on |-> d]
          /\ waiters' \in [Deployments -> Seq(Workers)]
          /\ WaitInv(held, waiters', excl')
      BY <3>2c DEF HandedOn
    <3>4. excl'[head] = [at |-> "inside", on |-> d]
      BY <1>1, <1>3, <2>2, <3>3
    <3> HIDE DEF head, d, handOff
    <3>4b. [at |-> "inside", on |-> d] \in ExclTypes
      BY <3>1 DEF ExclTypes
    <3>5. \A w \in Workers : excl'[w] \in ExclTypes
      BY <1>3, <3>2, <3>4, <3>4b
    <3>6. excl' \in [Workers -> ExclTypes]
      BY <1>1, <1>3, <2>2, <3>5
    <3>7. \A w \in Workers, c \in Deployments :
            Owns(excl', w, c) <=> Owns(excl, w, c) \/ (c = d /\ w = head)
      BY <3>2, <3>3, <3>4 DEF Owns
    <3> QED
      BY <2>1, <2>2, <3>1, <3>3, <3>6, <3>7 DEF head
  <2>3. CASE ~handOff
    <3>1. h = held \ {d} /\ UNCHANGED <<waiters, excl>>
      BY <1>1, <2>3
    <3>2. \A c \in Deployments : waiters[c] # <<>> => c # d
      BY <2>3, JobQueueAssumption
    <3> HIDE DEF d, handOff, h, ph
    <3>3. WaitInv(h, waiters, excl)
      BY <3>1, <3>2 DEF IInv, WaitInv
    <3> QED
      BY <1>3, <2>1, <2>3, <3>1, <3>3
  <2> QED
    BY <2>2, <2>3
<1>7. Queued(queue, turn, pushed, ph)
  <2> HIDE DEF ph
  <2> QED
    BY <1>3, <1>4 DEF IInv, Queued
<1>8. Exclusive(h, ph, excl')
  <2> SUFFICES ASSUME NEW c \in Deployments
               PROVE  /\ \A i, k \in Jobs : Works(ph, i, c) /\ Works(ph, k, c) => i = k
                      /\ \A v, w \in Workers : Owns(excl', v, c) /\ Owns(excl', w, c) => v = w
                      /\ \A k \in Jobs, w \in Workers : ~(Works(ph, k, c) /\ Owns(excl', w, c))
                      /\ c \in h <=> \/ \E k \in Jobs : Works(ph, k, c)
                                     \/ \E w \in Workers : Owns(excl', w, c)
    BY DEF Exclusive
  <2>1. /\ \A i, k \in Jobs : Works(phase, i, c) /\ Works(phase, k, c) => i = k
        /\ \A v, w \in Workers : Owns(excl, v, c) /\ Owns(excl, w, c) => v = w
        /\ \A k \in Jobs, w \in Workers : ~(Works(phase, k, c) /\ Owns(excl, w, c))
        /\ c \in held <=> \/ \E k \in Jobs : Works(phase, k, c)
                          \/ \E w \in Workers : Owns(excl, w, c)
    BY DEF IInv, Exclusive
  <2>2. c = d => Works(phase, j, c)
    BY <1>1 DEF Works
  <2>3. c # d => ~Works(phase, j, c)
    BY DEF Works
  <2>4. handOff /\ c = d => Head(waiters[d]) \in Workers
    <3>1. ASSUME d \in Deployments, waiters[d] # <<>> PROVE Head(waiters[d]) \in Workers
      BY <1>3, <3>1, HeadTailProperties, EmptySeq
    <3> QED
      BY <3>1
  <2>5. c \in h <=> c \in held /\ (handOff \/ c # d)
    OBVIOUS
  <2> HIDE DEF h, ph, handOff, d
  <2> QED
    BY <1>6, <2>1, <2>2, <2>3, <2>4, <2>5
<1> HIDE DEF h, ph, d, handOff
<1>9. Kept(queue, h, ph, row, excl', pushed)
  BY <1>1, <1>3, <1>4, <1>5, <1>6, <1>7, <1>8, TickKeeps
<1>10. TypeInv'
  BY <1>1, <1>3, <1>6, <1>9 DEF IInv, TypeInv, Kept
<1>11. OnceInv'
  BY <1>1, <1>3, <1>4, <1>9 DEF IInv, OnceInv, Kept
<1>12. BornInv'
  BY <1>1 DEF IInv, BornInv, BornSet
<1>13. WaitInv(held, waiters, excl)'
  BY <1>6, <1>9 DEF WaitInv, Kept
<1> QED
  BY <1>1, <1>9, <1>10, <1>11, <1>12, <1>13 DEF IInv, Kept

(* Steps of the lock that dispatch nothing. *)
LEMMA LockStep ==
  ASSUME IInv,
         UNCHANGED <<row, born, queue, turn, pushed, running, phase, create,
                     started, startup, pending>>,
         held' \in SUBSET Deployments,
         waiters' \in [Deployments -> Seq(Workers)],
         excl' \in [Workers -> ExclTypes],
         Exclusive(held', phase, excl'),
         WaitInv(held', waiters', excl')
  PROVE  IInv'
<1>1. TypeInv'
  BY DEF IInv, TypeInv
<1>2. Exclusive(held, phase, excl)'
  <2>1. phase' = phase
    OBVIOUS
  <2> QED
    BY <2>1
<1>3. Queued(queue, turn, pushed, phase)' /\ OnceInv' /\ BornInv'
  BY DEF IInv, Queued, OnceInv, BornInv, BornSet
<1> QED
  BY <1>1, <1>2, <1>3 DEF IInv

(* A caller that finds the key held joins the end of the line. *)
LEMMA LineJoined ==
  ASSUME NEW s \in Seq(Workers), NEW d, NEW ex, NEW ey, NEW v \in Workers,
         Line(s, d, ex), ex[v].at # "waiting",
         ey[v] = [at |-> "waiting", on |-> d],
         \A w \in Workers : w # v => ey[w] = ex[w]
  PROVE  Append(s, v) \in Seq(Workers) /\ Line(Append(s, v), d, ey)
<1> DEFINE r == Append(s, v)
<1>1. /\ r \in Seq(Workers)
      /\ Len(s) \in Nat
      /\ Len(r) = Len(s) + 1
      /\ \A i \in 1..Len(s) : r[i] = s[i]
      /\ r[Len(s) + 1] = v
  BY AppendProperties, LenProperties
<1> HIDE DEF r
<1>2. \A i \in 1..Len(s) : s[i] \in Workers /\ ex[s[i]] = [at |-> "waiting", on |-> d]
  BY ElementOfSeq DEF Line
<1>3. \A i \in 1..Len(s) : s[i] # v
  BY <1>2
<1>4. \A i \in 1..Len(r) : i \in 1..Len(s) \/ i = Len(s) + 1
  BY <1>1
<1>5. \A i \in 1..Len(r) : ey[r[i]] = [at |-> "waiting", on |-> d]
  BY <1>1, <1>2, <1>3, <1>4
<1>6. \A i, k \in 1..Len(r) : r[i] = r[k] => i = k
  BY <1>1, <1>3, <1>4 DEF Line
<1> QED
  BY <1>1, <1>5, <1>6 DEF Line, r

LEMMA ExclusiveEnterKeeps ==
  ASSUME IInv, NEW v \in Workers, NEW d \in Deployments, ExclusiveEnter(v, d)
  PROVE  IInv'
<1>1. /\ held \in SUBSET Deployments
      /\ excl \in [Workers -> ExclTypes]
      /\ waiters \in [Deployments -> Seq(Workers)] /\ waiters[d] \in Seq(Workers)
  BY DEF IInv, TypeInv
<1>2. /\ excl[v].at = "idle"
      /\ UNCHANGED <<row, born, queue, turn, pushed, running, phase, create,
                     started, startup, pending>>
  BY DEF ExclusiveEnter, tableVars, callVars, bootVars
<1>3. \A c \in Deployments : (waiters[c] # <<>> => c \in held) /\ Line(waiters[c], c, excl)
  BY WaitInvLines DEF IInv
<1>4. \A c \in Deployments : ~Owns(excl, v, c)
  BY <1>2 DEF Owns
<1>5. Exclusive(held, phase, excl)
  BY DEF IInv
<1>6. CASE d \in held
  <2>1. /\ excl' = [excl EXCEPT ![v] = [at |-> "waiting", on |-> d]]
        /\ waiters' = [waiters EXCEPT ![d] = Append(waiters[d], v)]
        /\ held' = held
    BY <1>6 DEF ExclusiveEnter
  <2>2. [at |-> "waiting", on |-> d] \in ExclTypes
    BY DEF ExclTypes
  <2>3. /\ excl' \in [Workers -> ExclTypes]
        /\ excl'[v] = [at |-> "waiting", on |-> d]
        /\ \A w \in Workers : w # v => excl'[w] = excl[w]
    BY <1>1, <2>1, <2>2
  <2>4. Append(waiters[d], v) \in Seq(Workers) /\ Line(Append(waiters[d], v), d, excl')
    BY <1>1, <1>2, <1>3, <2>3, LineJoined
  <2>5. waiters' \in [Deployments -> Seq(Workers)]
    BY <1>1, <2>1, <2>4
  <2>6. ASSUME NEW c \in Deployments
        PROVE  (waiters'[c] # <<>> => c \in held') /\ Line(waiters'[c], c, excl')
    <3>1. CASE c = d
      BY <1>1, <1>6, <2>1, <2>4, <3>1
    <3>2. CASE c # d
      <4>1. waiters'[c] = waiters[c] /\ waiters[c] \in Seq(Workers) /\ Line(waiters[c], c, excl)
        BY <1>1, <1>3, <2>1, <3>2
      <4>2. \A i \in 1..Len(waiters[c]) :
              waiters[c][i] \in Workers /\ excl[waiters[c][i]].at = "waiting"
        BY <4>1, ElementOfSeq DEF Line
      <4>3. \A i \in 1..Len(waiters[c]) : excl'[waiters[c][i]] = excl[waiters[c][i]]
        BY <1>2, <2>3, <4>2
      <4>4. Line(waiters[c], c, excl')
        BY <4>1, <4>3 DEF Line
      <4> QED
        BY <1>3, <2>1, <4>1, <4>4
    <3> QED
      BY <3>1, <3>2
  <2>7. WaitInv(held', waiters', excl')
    BY <2>6, WaitInvLines
  <2>8. \A w \in Workers, c \in Deployments : Owns(excl', w, c) <=> Owns(excl, w, c)
    BY <1>4, <2>3 DEF Owns
  <2>9. Exclusive(held', phase, excl')
    BY <1>5, <2>1, <2>8 DEF Exclusive
  <2> QED
    BY <1>1, <1>2, <2>1, <2>3, <2>5, <2>7, <2>9, LockStep
<1>7. CASE d \notin held
  <2>1. /\ excl' = [excl EXCEPT ![v] = [at |-> "inside", on |-> d]]
        /\ held' = held \cup {d}
        /\ waiters' = waiters
    BY <1>7 DEF ExclusiveEnter
  <2>2. [at |-> "inside", on |-> d] \in ExclTypes
    BY DEF ExclTypes
  <2>3. /\ excl' \in [Workers -> ExclTypes]
        /\ excl'[v] = [at |-> "inside", on |-> d]
        /\ \A w \in Workers : w # v => excl'[w] = excl[w]
    BY <1>1, <2>1, <2>2
  <2>4. ASSUME NEW c \in Deployments
        PROVE  (waiters'[c] # <<>> => c \in held') /\ Line(waiters'[c], c, excl')
    <3>1. waiters'[c] = waiters[c] /\ waiters[c] \in Seq(Workers) /\ Line(waiters[c], c, excl)
      BY <1>1, <1>3, <2>1
    <3>2. \A i \in 1..Len(waiters[c]) :
            waiters[c][i] \in Workers /\ excl[waiters[c][i]].at = "waiting"
      BY <3>1, ElementOfSeq DEF Line
    <3>3. \A i \in 1..Len(waiters[c]) : excl'[waiters[c][i]] = excl[waiters[c][i]]
      BY <1>2, <2>3, <3>2
    <3>4. Line(waiters[c], c, excl')
      BY <3>1, <3>3 DEF Line
    <3> QED
      BY <1>3, <2>1, <3>1, <3>4
  <2>5. WaitInv(held', waiters', excl')
    BY <2>4, WaitInvLines
  <2>6. \A w \in Workers, c \in Deployments :
          Owns(excl', w, c) <=> Owns(excl, w, c) \/ (w = v /\ c = d)
    BY <1>4, <2>3 DEF Owns
  <2>7. ASSUME NEW c \in Deployments
        PROVE  /\ \A j, k \in Jobs : Works(phase, j, c) /\ Works(phase, k, c) => j = k
               /\ \A u, w \in Workers : Owns(excl', u, c) /\ Owns(excl', w, c) => u = w
               /\ \A j \in Jobs, w \in Workers : ~(Works(phase, j, c) /\ Owns(excl', w, c))
               /\ c \in held' <=> \/ \E j \in Jobs : Works(phase, j, c)
                                  \/ \E w \in Workers : Owns(excl', w, c)
    <3>1. /\ \A j, k \in Jobs : Works(phase, j, c) /\ Works(phase, k, c) => j = k
          /\ \A u, w \in Workers : Owns(excl, u, c) /\ Owns(excl, w, c) => u = w
          /\ \A j \in Jobs, w \in Workers : ~(Works(phase, j, c) /\ Owns(excl, w, c))
          /\ c \in held <=> \/ \E j \in Jobs : Works(phase, j, c)
                            \/ \E w \in Workers : Owns(excl, w, c)
      BY <1>5 DEF Exclusive
    <3>2. c \in held' <=> c \in held \/ c = d
      BY <2>1
    <3> QED
      BY <1>7, <2>6, <3>1, <3>2
  <2>8. Exclusive(held', phase, excl')
    BY <2>7 DEF Exclusive
  <2> QED
    BY <1>1, <1>2, <2>1, <2>3, <2>5, <2>8, LockStep
<1> QED
  BY <1>6, <1>7

LEMMA ExclusiveLeaveKeeps ==
  ASSUME IInv, NEW v \in Workers, ExclusiveLeave(v)
  PROVE  IInv'
<1> DEFINE d == excl[v].on
<1>1. /\ held \in SUBSET Deployments
      /\ excl \in [Workers -> ExclTypes]
      /\ waiters \in [Deployments -> Seq(Workers)]
  BY DEF IInv, TypeInv
<1>2. /\ excl[v].at = "inside"
      /\ UNCHANGED <<row, born, queue, turn, pushed, running, phase, create,
                     started, startup, pending>>
  BY DEF ExclusiveLeave, tableVars, callVars, bootVars
<1>3. d \in Deployments /\ excl[v] = [at |-> "inside", on |-> d] /\ Owns(excl, v, d)
  BY <1>1, <1>2 DEF ExclTypes, Owns
<1>4. [at |-> "ticking", on |-> d] \in ExclTypes /\ [at |-> "inside", on |-> d] \in ExclTypes
  BY <1>3 DEF ExclTypes
<1>5. ASSUME NEW c \in Deployments
      PROVE  /\ \A j, k \in Jobs : Works(phase, j, c) /\ Works(phase, k, c) => j = k
             /\ \A u, w \in Workers : Owns(excl, u, c) /\ Owns(excl, w, c) => u = w
             /\ \A j \in Jobs, w \in Workers : ~(Works(phase, j, c) /\ Owns(excl, w, c))
             /\ c \in held <=> \/ \E j \in Jobs : Works(phase, j, c)
                               \/ \E w \in Workers : Owns(excl, w, c)
  BY DEF IInv, Exclusive
<1>6. CASE waiters[d] # <<>>
  <2> DEFINE head == Head(waiters[d])
  <2>1. /\ excl' = [excl EXCEPT ![v].at = "ticking", ![head].at = "inside"]
        /\ waiters' = [waiters EXCEPT ![d] = Tail(waiters[d])]
        /\ held' = held
    BY <1>6 DEF ExclusiveLeave
  <2>2. \A w \in Workers : w # head /\ w # v => excl'[w] = excl[w]
    BY <1>1, <2>1
  <2>3. \A w \in Workers : w # head /\ excl[w].at = "waiting" => excl'[w] = excl[w]
    BY <1>2, <2>2
  <2>4. HandedOn(d, waiters', excl')
    <3> HIDE DEF d
    <3> QED
      BY <1>3, <1>6, <2>1, <2>3, HandOff
  <2>5. head \in Workers /\ head # v /\ excl[head] = [at |-> "waiting", on |-> d]
    BY <1>2, <2>4 DEF HandedOn
  <2>6. excl'[head] = [at |-> "inside", on |-> d] /\ excl'[v] = [at |-> "ticking", on |-> d]
    BY <1>1, <1>3, <2>1, <2>5
  <2> HIDE DEF d, head
  <2>7. \A w \in Workers : excl'[w] \in ExclTypes
    BY <1>1, <1>4, <2>2, <2>6
  <2>8. excl' \in [Workers -> ExclTypes]
    BY <1>1, <2>1, <2>7
  <2>9. \A w \in Workers, c \in Deployments :
          Owns(excl', w, c) <=> (Owns(excl, w, c) /\ w # v) \/ (c = d /\ w = head)
    BY <2>2, <2>5, <2>6 DEF Owns
  <2>10. Exclusive(held', phase, excl')
    <3> SUFFICES ASSUME NEW c \in Deployments
        PROVE  /\ \A j, k \in Jobs : Works(phase, j, c) /\ Works(phase, k, c) => j = k
               /\ \A u, w \in Workers : Owns(excl', u, c) /\ Owns(excl', w, c) => u = w
               /\ \A j \in Jobs, w \in Workers : ~(Works(phase, j, c) /\ Owns(excl', w, c))
               /\ c \in held' <=> \/ \E j \in Jobs : Works(phase, j, c)
                                  \/ \E w \in Workers : Owns(excl', w, c)
      BY DEF Exclusive
    <3>1. Owns(excl, v, c) <=> c = d
      BY <1>3 DEF Owns
    <3>2. CASE c = d
      <4>1. \A w \in Workers : Owns(excl', w, c) <=> w = head
        BY <1>5, <2>9, <3>1, <3>2
      <4>2. c \in held' /\ \A j \in Jobs : ~Works(phase, j, c)
        BY <1>5, <2>1, <3>1, <3>2
      <4> QED
        BY <2>5, <4>1, <4>2
    <3>3. CASE c # d
      <4>1. \A w \in Workers : Owns(excl', w, c) <=> Owns(excl, w, c)
        BY <2>9, <3>1, <3>3
      <4> QED
        BY <1>5, <2>1, <4>1
    <3> QED
      BY <3>2, <3>3
  <2> QED
    BY <1>1, <1>2, <2>1, <2>4, <2>8, <2>10, LockStep DEF HandedOn
<1>7. CASE waiters[d] = <<>>
  <2>1. /\ excl' = [excl EXCEPT ![v].at = "ticking"]
        /\ waiters' = waiters
        /\ held' = held \ {d}
    BY <1>7 DEF ExclusiveLeave
  <2>2. /\ excl'[v] = [at |-> "ticking", on |-> d]
        /\ \A w \in Workers : w # v => excl'[w] = excl[w]
    BY <1>1, <1>3, <2>1
  <2> HIDE DEF d
  <2>3. \A w \in Workers : excl'[w] \in ExclTypes
    BY <1>1, <1>4, <2>2
  <2>4. excl' \in [Workers -> ExclTypes]
    BY <1>1, <2>1, <2>3
  <2>5. ASSUME NEW c \in Deployments
        PROVE  (waiters'[c] # <<>> => c \in held') /\ Line(waiters'[c], c, excl')
    <3>1. /\ waiters'[c] = waiters[c] /\ waiters[c] \in Seq(Workers)
          /\ Line(waiters[c], c, excl) /\ (waiters[c] # <<>> => c \in held)
      BY <1>1, <2>1, WaitInvLines DEF IInv
    <3>2. \A i \in 1..Len(waiters[c]) :
            waiters[c][i] \in Workers /\ excl[waiters[c][i]].at = "waiting"
      BY <3>1, ElementOfSeq DEF Line
    <3>3. \A i \in 1..Len(waiters[c]) : excl'[waiters[c][i]] = excl[waiters[c][i]]
      BY <1>2, <2>2, <3>2
    <3>4. Line(waiters[c], c, excl')
      BY <3>1, <3>3 DEF Line
    <3>5. waiters[c] # <<>> => c # d
      BY <1>7
    <3> QED
      BY <2>1, <3>1, <3>4, <3>5
  <2>6. WaitInv(held', waiters', excl')
    BY <2>5, WaitInvLines
  <2>7. \A w \in Workers, c \in Deployments : Owns(excl', w, c) <=> Owns(excl, w, c) /\ w # v
    BY <2>2 DEF Owns
  <2>8. Exclusive(held', phase, excl')
    <3> SUFFICES ASSUME NEW c \in Deployments
        PROVE  /\ \A j, k \in Jobs : Works(phase, j, c) /\ Works(phase, k, c) => j = k
               /\ \A u, w \in Workers : Owns(excl', u, c) /\ Owns(excl', w, c) => u = w
               /\ \A j \in Jobs, w \in Workers : ~(Works(phase, j, c) /\ Owns(excl', w, c))
               /\ c \in held' <=> \/ \E j \in Jobs : Works(phase, j, c)
                                  \/ \E w \in Workers : Owns(excl', w, c)
      BY DEF Exclusive
    <3>1. Owns(excl, v, c) <=> c = d
      BY <1>3 DEF Owns
    <3>2. c \in held' <=> c \in held /\ c # d
      BY <2>1
    <3>3. CASE c = d
      <4>1. \A j \in Jobs : ~Works(phase, j, c)
        BY <1>5, <3>1, <3>3
      <4>2. \A w \in Workers : ~Owns(excl', w, c)
        BY <1>5, <2>7, <3>1, <3>3
      <4> QED
        BY <3>2, <3>3, <4>1, <4>2
    <3>4. CASE c # d
      <4>1. \A w \in Workers : Owns(excl', w, c) <=> Owns(excl, w, c)
        BY <2>7, <3>1, <3>4
      <4> QED
        BY <1>5, <3>2, <3>4, <4>1
    <3> QED
      BY <3>3, <3>4
  <2> QED
    BY <1>1, <1>2, <2>1, <2>4, <2>6, <2>8, LockStep
<1> QED
  BY <1>6, <1>7

LEMMA ExclusiveTickKeeps ==
  ASSUME IInv, NEW v \in Workers, ExclusiveTick(v)
  PROVE  IInv'
<1>1. /\ excl[v].at = "ticking"
      /\ excl' = [excl EXCEPT ![v].at = "done"]
      /\ Tick(queue, turn, held, running, phase, row, cancelled)
      /\ UNCHANGED <<born, pushed, waiters, create, started, startup, pending>>
  BY DEF ExclusiveTick, callVars, bootVars
<1>2. /\ row \in [Jobs -> Statuses] /\ queue \in SUBSET Jobs /\ turn \in [Jobs -> Nat]
      /\ held \in SUBSET Deployments /\ running \in Int /\ phase \in [Jobs -> Phases]
      /\ excl \in [Workers -> ExclTypes] /\ pushed \in Nat
      /\ waiters \in [Deployments -> Seq(Workers)]
  BY DEF IInv, TypeInv
<1>3. /\ excl'[v] = [at |-> "done", on |-> excl[v].on]
      /\ \A w \in Workers : w # v => excl'[w] = excl[w]
  BY <1>1, <1>2 DEF ExclTypes
<1>4. [at |-> "done", on |-> excl[v].on] \in ExclTypes
  BY <1>2 DEF ExclTypes
<1>5. excl' \in [Workers -> ExclTypes]
  BY <1>1, <1>2, <1>3, <1>4
<1>6. \A w \in Workers, c \in Deployments : Owns(excl', w, c) <=> Owns(excl, w, c)
  BY <1>1, <1>3 DEF Owns
<1>7. Exclusive(held, phase, excl')
  BY <1>6 DEF IInv, Exclusive
<1>8. Kept(queue, held, phase, row, excl', pushed)
  <2>1. Queued(queue, turn, pushed, phase)
    BY DEF IInv
  <2> QED
    BY <1>1, <1>2, <1>5, <1>7, <2>1, TickKeeps
<1>9. TypeInv'
  BY <1>1, <1>2, <1>5, <1>8 DEF IInv, TypeInv, Kept
<1>10. OnceInv'
  BY <1>1, <1>2, <1>8 DEF IInv, OnceInv, Kept
<1>11. BornInv'
  BY <1>1 DEF IInv, BornInv, BornSet
<1>12. ASSUME NEW c \in Deployments
       PROVE  (waiters'[c] # <<>> => c \in held') /\ Line(waiters'[c], c, excl')
  <2>1. /\ waiters'[c] = waiters[c] /\ waiters[c] \in Seq(Workers)
        /\ Line(waiters[c], c, excl) /\ (waiters[c] # <<>> => c \in held)
    BY <1>1, <1>2, WaitInvLines DEF IInv
  <2>2. \A i \in 1..Len(waiters[c]) :
          waiters[c][i] \in Workers /\ excl[waiters[c][i]].at = "waiting"
    BY <2>1, ElementOfSeq DEF Line
  <2>3. \A i \in 1..Len(waiters[c]) : excl'[waiters[c][i]] = excl[waiters[c][i]]
    BY <1>1, <1>3, <2>2
  <2>4. Line(waiters[c], c, excl')
    BY <2>1, <2>3 DEF Line
  <2> QED
    BY <1>8, <2>1, <2>4 DEF Kept
<1>13. WaitInv(held, waiters, excl)'
  <2>1. WaitInv(held', waiters', excl')
    BY <1>12, WaitInvLines
  <2> QED
    BY <2>1
<1> QED
  BY <1>1, <1>8, <1>9, <1>10, <1>11, <1>13 DEF IInv, Kept

(* cancelJob, discardDeploymentJobs and clearJobs write rows, raise flags   *)
(* and drop entries from the queue, but never touch the lock.               *)
LEMMA CancelKeeps ==
  ASSUME IInv, NEW j \in Jobs, CancelRead(j) \/ CancelAct(j) \/ CancelDone(j)
  PROVE  IInv'
<1>1. /\ UNCHANGED <<born, turn, pushed, held, running, phase, create, waiters, excl,
                     started, startup, pending>>
      /\ queue' \subseteq queue
  BY DEF CancelRead, CancelAct, CancelDone, tableVars, schedVars, lockVars, bootVars
<1>2. UNCHANGED row \/ row' = Stored(j, "cancelled")
  BY DEF CancelRead, CancelAct, CancelDone, tableVars
<1>3. /\ row' \in [Jobs -> Statuses]
      /\ \A k \in Jobs : row'[k] # "absent" => row[k] # "absent"
  BY <1>2, StoredRow DEF IInv, TypeInv, Statuses, Terminal
<1> QED
  BY <1>1, <1>3, QuietStep DEF IInv, TypeInv, OnceInv

LEMMA DiscardKeeps ==
  ASSUME IInv, NEW d \in Deployments, Discard(d)
  PROVE  IInv'
<1>1. /\ UNCHANGED <<born, turn, pushed, held, running, phase, create, waiters, excl,
                     started, startup, pending>>
      /\ queue' \subseteq queue
  BY DEF Discard, DiscardStart, DiscardRow, DiscardScan, DiscardFlag,
         tableVars, schedVars, lockVars, bootVars
<1>2. UNCHANGED row \/ \E j \in Jobs : row' = Stored(j, "cancelled")
  BY DEF Discard, DiscardStart, DiscardRow, DiscardScan, DiscardFlag, tableVars
<1>3. /\ row' \in [Jobs -> Statuses]
      /\ \A k \in Jobs : row'[k] # "absent" => row[k] # "absent"
  <2>1. row \in [Jobs -> Statuses] /\ "cancelled" \in Statuses \ {"absent"}
    BY DEF IInv, TypeInv, Statuses, Terminal
  <2>2. ASSUME NEW j \in Jobs, row' = Stored(j, "cancelled")
        PROVE  /\ row' \in [Jobs -> Statuses]
               /\ \A k \in Jobs : row'[k] # "absent" => row[k] # "absent"
    BY <2>1, <2>2, StoredRow
  <2> QED
    BY <1>2, <2>1, <2>2
<1> QED
  BY <1>1, <1>3, QuietStep DEF IInv, TypeInv, OnceInv

LEMMA ClearKeeps ==
  ASSUME IInv, (\E s \in Terminal : ClearRead(s)) \/ (\E j \in Jobs : ClearDelete(j))
  PROVE  IInv'
<1>1. /\ UNCHANGED <<born, queue, turn, pushed, held, running, phase, create, waiters,
                     excl, started, startup, pending>>
      /\ \/ UNCHANGED row
         \/ \E j \in Jobs : row' = [row EXCEPT ![j] = "absent"]
  BY DEF ClearRead, ClearDelete, tableVars, schedVars, lockVars, bootVars
<1>2. /\ row' \in [Jobs -> Statuses]
      /\ \A k \in Jobs : row'[k] # "absent" => row[k] # "absent"
  BY <1>1 DEF IInv, TypeInv, Statuses
<1> QED
  BY <1>1, <1>2, QuietStep DEF IInv, TypeInv, OnceInv

(* A restart keeps the table and drops every lock, job and caller.          *)
LEMMA CrashKeeps == IInv /\ Crash => IInv'
<1> SUFFICES ASSUME IInv, Crash PROVE IInv'
  OBVIOUS
<1>1. TypeInv'
  <2>1. \A d \in Deployments : waiters'[d] \in Seq(Workers)
    BY EmptySeq DEF Crash
  <2>2. waiters' \in [Deployments -> Seq(Workers)]
    BY <2>1 DEF Crash
  <2>3. excl' \in [Workers -> ExclTypes]
    BY DEF Crash, ExclTypes
  <2>4. phase' \in [Jobs -> Phases]
    BY DEF Crash, Phases
  <2>5. row' \in [Jobs -> Statuses] /\ born' \in [Jobs -> Nat]
    BY DEF Crash, IInv, TypeInv, tableVars
  <2>6. turn' \in [Jobs -> Nat] /\ create' \in [Jobs -> {"none", "inserting", "done"}]
    BY DEF Crash
  <2>7. queue' \in SUBSET Jobs /\ held' \in SUBSET Deployments /\ pending' \in SUBSET Jobs
    BY DEF Crash
  <2>8. pushed' \in Nat /\ running' \in Int
    BY DEF Crash
  <2>9. started' \in BOOLEAN /\ startup' \in {"idle", "opening", "orphansRead", "failing"}
    BY DEF Crash
  <2> QED
    BY <2>2, <2>3, <2>4, <2>5, <2>6, <2>7, <2>8, <2>9 DEF TypeInv
<1>2. Exclusive(held, phase, excl)'
  BY DEF Crash, Exclusive, Works, Owns
<1>3. Queued(queue, turn, pushed, phase)'
  BY DEF Crash, Queued
<1>4. /\ UNCHANGED <<row, born>>
      /\ \A j \in Jobs : create'[j] # "none" <=> create[j] # "none"
      /\ \A j \in Jobs : create'[j] # "inserting"
  BY DEF Crash, tableVars
<1>5. OnceInv'
  BY <1>4 DEF Crash, IInv, OnceInv
<1>6. BornInv'
  BY <1>4 DEF IInv, BornInv, BornSet
<1>7. WaitInv(held, waiters, excl)'
  BY DEF Crash, WaitInv
<1> QED
  BY <1>1, <1>2, <1>3, <1>5, <1>6, <1>7 DEF IInv

LEMMA StutterKeeps == IInv /\ UNCHANGED vars => IInv'
<1> SUFFICES ASSUME IInv, UNCHANGED vars PROVE IInv'
  OBVIOUS
<1>1. UNCHANGED <<row, born, queue, turn, pushed, held, waiters, running, phase,
                  create, excl, started, startup, pending>>
  BY DEF vars, tableVars, schedVars, callVars, lockVars, bootVars
<1> QED
  BY <1>1, QuietStep DEF IInv, TypeInv, OnceInv

-----------------------------------------------------------------------------
(* IInv holds of every behaviour of the job service (jobs.ts): the lock     *)
(* table, the queue and the runJobs in flight never contradict each other.  *)
THEOREM Inductive == Spec => []IInv
<1>1. Init => IInv
  BY InitIInv
<1>2. IInv /\ [Next]_vars => IInv'
  <2> SUFFICES ASSUME IInv, [Next]_vars PROVE IInv'
    OBVIOUS
  <2>1. CASE RecoveryStep
    BY <2>1, RecoveryKeeps, RecoverKeeps DEF RecoveryStep
  <2>2. ASSUME NEW j \in Jobs, Insert(j) \/ Enqueue(j) \/ RunJob(j) PROVE IInv'
    BY <2>2, InsertKeeps, EnqueueKeeps, RunJobKeeps, FinishKeeps DEF RunJob
  <2>3. ASSUME NEW w \in Workers, RunExclusive(w) PROVE IInv'
    BY <2>3, ExclusiveEnterKeeps, ExclusiveLeaveKeeps, ExclusiveTickKeeps
    DEF RunExclusive
  <2>4. ASSUME NEW j \in Jobs, CancelRead(j) \/ CancelAct(j) \/ CancelDone(j) PROVE IInv'
    BY <2>4, CancelKeeps
  <2>5. ASSUME NEW d \in Deployments, Discard(d) PROVE IInv'
    BY <2>5, DiscardKeeps
  <2>6. CASE (\E s \in Terminal : ClearRead(s)) \/ (\E j \in Jobs : ClearDelete(j))
    BY <2>6, ClearKeeps
  <2>7. CASE Crash
    BY <2>7, CrashKeeps
  <2>8. CASE UNCHANGED vars
    BY <2>8, StutterKeeps
  <2> QED
    BY <2>1, <2>2, <2>3, <2>4, <2>5, <2>6, <2>7, <2>8 DEF Next
<1> QED
  BY <1>1, <1>2, PTL DEF Spec

(* Lifecycle work for one deployment never overlaps (jobs.ts:30): no two    *)
(* dispatched jobs, no two runExclusive bodies, and no job beside a body.   *)
THEOREM LifecycleExclusionHolds == Spec => []LifecycleExclusion
<1>1. IInv => LifecycleExclusion
  <2> SUFFICES ASSUME IInv, NEW d \in Deployments
               PROVE  /\ \A j, k \in ActiveOn(d) : j = k
                      /\ \A v, w \in Inside(d) : v = w
                      /\ ActiveOn(d) = {} \/ Inside(d) = {}
    BY DEF LifecycleExclusion
  <2>1. \A j : j \in ActiveOn(d) <=> j \in Jobs /\ Works(phase, j, d)
    BY DEF ActiveOn, Active, Works
  <2>2. \A w : w \in Inside(d) <=> w \in Workers /\ Owns(excl, w, d)
    BY DEF Inside, Owns
  <2> QED
    BY <2>1, <2>2 DEF IInv, Exclusive
<1> QED
  BY <1>1, Inductive, PTL

(* No path through runJob or runExclusive leaks a deployment's lock or      *)
(* frees it under its owner (release, jobs.ts:61).                          *)
THEOREM HeldExactlyWhileOwnedHolds == Spec => []HeldExactlyWhileOwned
<1>1. IInv => HeldExactlyWhileOwned
  <2> SUFFICES ASSUME IInv, NEW d \in Deployments
               PROVE  d \in held <=> ActiveOn(d) # {} \/ Inside(d) # {}
    BY DEF HeldExactlyWhileOwned
  <2>1. \A j : j \in ActiveOn(d) <=> j \in Jobs /\ Works(phase, j, d)
    BY DEF ActiveOn, Active, Works
  <2>2. \A w : w \in Inside(d) <=> w \in Workers /\ Owns(excl, w, d)
    BY DEF Inside, Owns
  <2> QED
    BY <2>1, <2>2 DEF IInv, Exclusive
<1> QED
  BY <1>1, Inductive, PTL

-----------------------------------------------------------------------------
(* The concurrency limit: the slot counter is the number of runJobs in      *)
(* flight, and the tick never takes more jobs than there are free slots.    *)
InFlight(ph) == {j \in Jobs : ph[j] # "none"}

Slots(n, ph) == n = Cardinality(InFlight(ph)) /\ n <= MaxConcurrency

(* The jobs a tick picks have different numbers of runnable entries ahead   *)
(* of them, all below the number of free slots: there are no more of them   *)
(* than slots.                                                              *)
LEMMA PickedFits ==
  ASSUME NEW q \in SUBSET Jobs, NEW t \in [Jobs -> Nat], NEW h, NEW n \in Nat,
         n <= MaxConcurrency,
         \A j, k \in q : t[j] = t[k] => j = k
  PROVE  /\ Picked(q, t, h, n) \in SUBSET q
         /\ IsFiniteSet(Picked(q, t, h, n))
         /\ Cardinality(Picked(q, t, h, n)) \in Nat
         /\ n + Cardinality(Picked(q, t, h, n)) <= MaxConcurrency
<1> DEFINE R == Runnable(q, t, h)
           P == Picked(q, t, h, n)
           Ahead(j) == {k \in R : t[k] < t[j]}
           rank == [j \in P |-> Cardinality(Ahead(j))]
           free == 0 .. (MaxConcurrency - n - 1)
<1>1. R \in SUBSET q /\ P \in SUBSET R
  BY DEF Runnable, Picked
<1>2. IsFiniteSet(R) /\ IsFiniteSet(P) /\ Cardinality(P) \in Nat
  BY <1>1, FS_Subset, FS_CardinalityType, JobQueueAssumption
<1>3. ASSUME NEW j \in R
      PROVE  Ahead(j) \in SUBSET R /\ IsFiniteSet(Ahead(j)) /\ Cardinality(Ahead(j)) \in Nat
  <2>1. Ahead(j) \in SUBSET R
    OBVIOUS
  <2> HIDE DEF Ahead, R
  <2> QED
    BY <2>1, <1>2, FS_Subset, FS_CardinalityType
<1>4. \A j \in P : n + Cardinality(Ahead(j)) < MaxConcurrency
  BY DEF Picked
<1>5. \A j \in P : rank[j] \in free
  <2> HIDE DEF P, R, Ahead
  <2> QED
    BY <1>1, <1>3, <1>4, JobQueueAssumption
<1>6. ASSUME NEW j \in R, NEW k \in R, t[j] < t[k]
      PROVE  Cardinality(Ahead(j)) # Cardinality(Ahead(k))
  <2>0. \A i \in R : t[i] \in Nat
    BY <1>1
  <2>1. Ahead(j) \in SUBSET Ahead(k)
    BY <1>6, <2>0
  <2>2. j \in Ahead(k) /\ j \notin Ahead(j)
    BY <1>6, <2>0
  <2>3. IsFiniteSet(Ahead(k))
    BY <1>3
  <2> HIDE DEF Ahead, R
  <2> QED
    BY <2>1, <2>2, <2>3, FS_Subset
<1>7. \A j, k \in P : rank[j] = rank[k] => j = k
  <2> SUFFICES ASSUME NEW j \in P, NEW k \in P, rank[j] = rank[k] PROVE j = k
    OBVIOUS
  <2>1. rank[j] = Cardinality(Ahead(j)) /\ rank[k] = Cardinality(Ahead(k))
    OBVIOUS
  <2> HIDE DEF rank, P, R, Ahead
  <2>2. ~(t[j] < t[k]) /\ ~(t[k] < t[j])
    BY <1>1, <1>6, <2>1
  <2>3. t[j] \in Nat /\ t[k] \in Nat
    BY <1>1
  <2> QED
    BY <1>1, <2>2, <2>3
<1>8. rank \in Injection(P, free)
  <2> SUFFICES rank \in [P -> free]
    BY <1>7 DEF Injection, IsInjective
  <2> HIDE DEF P, free
  <2> QED
    BY <1>5
<1>9. /\ IsFiniteSet(free)
      /\ Cardinality(free) = MaxConcurrency - n
  BY FS_Interval, JobQueueAssumption
<1>10. Cardinality(P) <= Cardinality(free)
  <2> HIDE DEF rank, P, free
  <2> QED
    BY <1>8, <1>9, FS_Injection
<1> QED
  BY <1>1, <1>2, <1>9, <1>10, JobQueueAssumption

LEMMA InFlightFinite ==
  ASSUME NEW ph
  PROVE  IsFiniteSet(InFlight(ph)) /\ Cardinality(InFlight(ph)) \in Nat
BY FS_Subset, FS_CardinalityType, JobQueueAssumption DEF InFlight

(* A tick that starts with an honest counter leaves one.                    *)
LEMMA TickSlots ==
  ASSUME NEW q \in SUBSET Jobs, NEW t \in [Jobs -> Nat], NEW h, NEW n, NEW p,
         NEW ph \in [Jobs -> Phases], NEW rw, NEW flags,
         Queued(q, t, p, ph), Slots(n, ph),
         Tick(q, t, h, n, ph, rw, flags)
  PROVE  Slots(running', phase')
<1> DEFINE P == Picked(q, t, h, n)
<1>1. n \in Nat /\ n <= MaxConcurrency /\ n = Cardinality(InFlight(ph))
  BY InFlightFinite DEF Slots
<1>2. \A j, k \in q : t[j] = t[k] => j = k
  BY DEF Queued
<1>3. /\ P \in SUBSET q /\ IsFiniteSet(P) /\ Cardinality(P) \in Nat
      /\ n + Cardinality(P) <= MaxConcurrency
  BY <1>1, <1>2, PickedFits
<1>4. /\ running' = n + Cardinality(P)
      /\ phase' = [j \in Jobs |->
                     IF j \notin P THEN ph[j]
                     ELSE IF j \in flags THEN "revoking" ELSE "starting"]
  BY DEF Tick
<1> HIDE DEF P
<1>5. InFlight(phase') = InFlight(ph) \cup P
  BY <1>3, <1>4 DEF InFlight
<1>6. InFlight(ph) \cap P = {}
  BY <1>3 DEF InFlight, Queued
<1>7. Cardinality(InFlight(phase')) = n + Cardinality(P) - Cardinality({})
  BY <1>1, <1>3, <1>5, <1>6, InFlightFinite, FS_Union
<1> QED
  BY <1>1, <1>3, <1>4, <1>7, FS_EmptySet DEF Slots

-----------------------------------------------------------------------------
(* Steps that start and end no runJob. *)
LEMMA SlotsUntouched ==
  ASSUME Slots(running, phase), running' = running,
         \A j \in Jobs : phase'[j] = "none" <=> phase[j] = "none"
  PROVE  Slots(running', phase')
<1>1. InFlight(phase') = InFlight(phase)
  BY DEF InFlight
<1> QED
  BY <1>1 DEF Slots

LEMMA OpenSchedulingSlots ==
  ASSUME IInv, Slots(running, phase), NEW S \in SUBSET Jobs, ~started,
         \A j \in S : create[j] = "done",
         OpenScheduling(S)
  PROVE  Slots(running', phase')
<1> DEFINE q == queue \cup S
           t == [j \in Jobs |->
                   IF j \in S
                   THEN pushed + Cardinality({k \in S : born[k] >= born[j]})
                   ELSE turn[j]]
           p == pushed + Cardinality(S)
<1>1. Tick(q, t, held, running, phase, row, cancelled)
  BY DEF OpenScheduling
<1>2. q \in SUBSET Jobs /\ phase \in [Jobs -> Phases]
  BY DEF IInv, TypeInv
<1>3. t \in [Jobs -> Nat] /\ Queued(q, t, p, phase)
  BY OpenedInOrder
<1> HIDE DEF q, t, p
<1> QED
  BY <1>1, <1>2, <1>3, TickSlots

LEMMA EnqueueSlots ==
  ASSUME IInv, Slots(running, phase), NEW j \in Jobs, Enqueue(j)
  PROVE  Slots(running', phase')
<1>1. CASE row[j] = "absent"
  BY <1>1 DEF Enqueue, schedVars
<1>2. CASE row[j] # "absent"
  <2> DEFINE q == queue \cup {j}
             t == [turn EXCEPT ![j] = pushed + 1]
  <2>1. Tick(q, t, held, running, phase, row, cancelled)
    BY <1>2 DEF Enqueue
  <2>2. q \in SUBSET Jobs /\ phase \in [Jobs -> Phases] /\ t \in [Jobs -> Nat]
    BY DEF IInv, TypeInv
  <2>3. Queued(q, t, pushed + 1, phase)
    BY PushedLast DEF Enqueue
  <2> HIDE DEF q, t
  <2> QED
    BY <2>1, <2>2, <2>3, TickSlots
<1> QED
  BY <1>1, <1>2

LEMMA FinishSlots ==
  ASSUME IInv, Slots(running, phase), NEW j \in Jobs, Finish(j)
  PROVE  Slots(running', phase')
<1> DEFINE ph == [phase EXCEPT ![j] = "none"]
           d == DeploymentOf[j]
           h == IF d # NoDeployment /\ waiters[d] # <<>> THEN held ELSE held \ {d}
<1>1. phase[j] = "closing" /\ Tick(queue, turn, h, running - 1, ph, row, cancelled)
  BY DEF Finish
<1>2. /\ phase \in [Jobs -> Phases] /\ queue \in SUBSET Jobs /\ turn \in [Jobs -> Nat]
      /\ Queued(queue, turn, pushed, phase)
  BY DEF IInv, TypeInv
<1>3. ph \in [Jobs -> Phases] /\ \A k \in Jobs : ph[k] = IF k = j THEN "none" ELSE phase[k]
  BY <1>2 DEF Phases
<1> HIDE DEF ph, h
<1>4. Queued(queue, turn, pushed, ph)
  BY <1>2, <1>3 DEF Queued
<1>5. Slots(running - 1, ph)
  <2>1. InFlight(ph) = InFlight(phase) \ {j} /\ j \in InFlight(phase)
    BY <1>1, <1>3 DEF InFlight
  <2>2. Cardinality(InFlight(ph)) = Cardinality(InFlight(phase)) - 1
    BY <2>1, InFlightFinite, FS_RemoveElement
  <2> QED
    BY <2>2, InFlightFinite, JobQueueAssumption DEF Slots
<1> QED
  BY <1>1, <1>2, <1>3, <1>4, <1>5, TickSlots

LEMMA NextSlots == IInv /\ Slots(running, phase) /\ [Next]_vars => Slots(running, phase)'
<1> SUFFICES ASSUME IInv, Slots(running, phase), [Next]_vars
             PROVE  Slots(running', phase')
  OBVIOUS
<1> USE DEF schedVars
<1>1. CASE RecoveryStep
  <2>1. CASE Recover \/ RecoverFails
    <3>1. OpenScheduling(pending) /\ startup # "idle"
      BY <2>1 DEF Recover, RecoverFails
    <3>2. ~started /\ pending \in SUBSET Jobs /\ \A j \in pending : create[j] = "done"
      BY <3>1 DEF IInv, TypeInv, OnceInv
    <3> QED
      BY <3>1, <3>2, OpenSchedulingSlots
  <2>2. CASE ~(Recover \/ RecoverFails)
    <3>1. UNCHANGED <<running, phase>>
      BY <1>1, <2>2 DEF RecoveryStep, EnsureStarted, ReadOrphans, InitializeFails,
                        ReadPending, FailOrphan
    <3> QED
      BY <3>1
  <2> QED
    BY <2>1, <2>2
<1>2. ASSUME NEW j \in Jobs, Insert(j) \/ Enqueue(j) \/ RunJob(j)
      PROVE  Slots(running', phase')
  <2>1. CASE Insert(j)
    BY <2>1 DEF Insert
  <2>2. CASE Enqueue(j)
    BY <2>2, EnqueueSlots
  <2>3. CASE Finish(j)
    BY <2>3, FinishSlots
  <2>4. CASE RunJob(j) /\ ~Finish(j)
    <3>1. /\ running' = running
          /\ phase[j] # "none"
          /\ \E p \in Phases \ {"none"} : Enter(j, p)
      BY <2>4 DEF RunJob, Started, ExecutorHandles, ExecutorThrows, ExecutorCancels,
                  ExecutorDeclines, Checkpoint, Slept, Settled, StoreFails, Caught,
                  Phases, Enter, RunJobFrame
    <3>2. \A k \in Jobs : phase'[k] = "none" <=> phase[k] = "none"
      BY <3>1 DEF Enter, IInv, TypeInv
    <3> QED
      BY <3>1, <3>2, SlotsUntouched
  <2> QED
    BY <1>2, <2>1, <2>2, <2>3, <2>4
<1>3. ASSUME NEW w \in Workers, RunExclusive(w)
      PROVE  Slots(running', phase')
  <2>1. CASE ExclusiveTick(w)
    <3>1. Tick(queue, turn, held, running, phase, row, cancelled)
      BY <2>1 DEF ExclusiveTick
    <3> QED
      BY <3>1, TickSlots DEF IInv, TypeInv
  <2>2. CASE ~ExclusiveTick(w)
    <3>1. UNCHANGED <<running, phase>>
      BY <1>3, <2>2 DEF RunExclusive, ExclusiveEnter, ExclusiveLeave
    <3> QED
      BY <3>1
  <2> QED
    BY <2>1, <2>2
<1>4. ASSUME NEW j \in Jobs, CancelRead(j) \/ CancelAct(j) \/ CancelDone(j)
      PROVE  Slots(running', phase')
  <2>1. UNCHANGED <<running, phase>>
    BY <1>4 DEF CancelRead, CancelAct, CancelDone
  <2> QED
    BY <2>1
<1>5. ASSUME NEW d \in Deployments, Discard(d)
      PROVE  Slots(running', phase')
  <2>1. UNCHANGED <<running, phase>>
    BY <1>5 DEF Discard, DiscardStart, DiscardRow, DiscardScan, DiscardFlag
  <2> QED
    BY <2>1
<1>6. CASE (\E s \in Terminal : ClearRead(s)) \/ (\E j \in Jobs : ClearDelete(j))
  <2>1. UNCHANGED <<running, phase>>
    BY <1>6 DEF ClearRead, ClearDelete
  <2> QED
    BY <2>1
<1>7. CASE Crash
  <2>1. InFlight(phase') = {} /\ running' = 0
    BY <1>7 DEF Crash, InFlight
  <2> QED
    BY <2>1, FS_EmptySet, JobQueueAssumption DEF Slots
<1>8. CASE UNCHANGED vars
  BY <1>8 DEF vars
<1> QED
  BY <1>1, <1>2, <1>3, <1>4, <1>5, <1>6, <1>7, <1>8 DEF Next

(* The slot counter (jobs.ts: this.running) is the number of jobs in flight *)
(* and never exceeds HOLA_JOBS_CONCURRENCY, for any set of jobs, any limit, *)
(* and whatever failed or crashed on the way.                               *)
THEOREM SlotsAccountedForHolds == Spec => []SlotsAccountedFor
<1>1. Init => Slots(running, phase)
  <2> SUFFICES ASSUME Init PROVE Slots(running, phase)
    OBVIOUS
  <2>1. InFlight(phase) = {} /\ running = 0
    BY DEF Init, InFlight
  <2> QED
    BY <2>1, FS_EmptySet, JobQueueAssumption DEF Slots
<1>2. Slots(running, phase) => SlotsAccountedFor
  BY DEF Slots, InFlight, SlotsAccountedFor, Active
<1> QED
  BY <1>1, <1>2, NextSlots, Inductive, PTL DEF Spec

-----------------------------------------------------------------------------
(* The job service implements LifecycleLock, for any instance.              *)
(*                                                                          *)
(* Its steps are matched deployment by deployment: the invariant, before    *)
(* and after the step, says who may own what; a tick adds owners to free    *)
(* deployments only, and the lock operations move the owner of one          *)
(* deployment.                                                              *)

(* The step of the lock that one deployment sees. *)
LockMove(d) == Lock!Take(d) \/ Lock!Join(d) \/ Lock!Leave(d) \/ Lock!Stay(d)

(* The owners of a deployment in terms of the invariant, before and after a *)
(* step.                                                                    *)
LEMMA OwnersNow ==
  \A d, a : a \in OwnersOf(d) <=>
    \/ \E j \in Jobs : a = <<"job", j>> /\ Works(phase, j, d)
    \/ \E w \in Workers : a = <<"call", w>> /\ Owns(excl, w, d)
  BY DEF OwnersOf, ActiveOn, Active, Inside, Works, Owns

LEMMA OwnersThen ==
  \A d, a : a \in OwnersOf(d)' <=>
    \/ \E j \in Jobs : a = <<"job", j>> /\ Works(phase', j, d)
    \/ \E w \in Workers : a = <<"call", w>> /\ Owns(excl', w, d)
  BY DEF OwnersOf, ActiveOn, Active, Inside, Works, Owns

LEMMA SameOwners ==
  ASSUME NEW d,
         \A j \in Jobs : Works(phase', j, d) <=> Works(phase, j, d),
         \A w \in Workers : Owns(excl', w, d) <=> Owns(excl, w, d)
  PROVE  OwnersOf(d)' = OwnersOf(d)
  BY OwnersNow, OwnersThen

(* A free deployment has no owner and nobody in line. *)
LEMMA FreeIsEmpty ==
  ASSUME IInv, NEW d \in Deployments, d \notin held
  PROVE  /\ OwnersOf(d) = {} /\ waiters[d] = <<>>
         /\ \A j \in Jobs : ~Works(phase, j, d)
         /\ \A w \in Workers : ~Owns(excl, w, d)
<1>1. /\ \A j \in Jobs : ~Works(phase, j, d)
      /\ \A w \in Workers : ~Owns(excl, w, d)
  BY DEF IInv, Exclusive
<1>2. waiters[d] = <<>>
  BY DEF IInv, WaitInv
<1> QED
  BY <1>1, <1>2, OwnersNow

(* What a tick does to one deployment: it adds workers only where the lock  *)
(* is free.                                                                 *)
LEMMA TickTakes ==
  ASSUME NEW q \in SUBSET Jobs, NEW t, NEW h, NEW n, NEW ph, NEW rw, NEW flags,
         Tick(q, t, h, n, ph, rw, flags), NEW d \in Deployments
  PROVE  \E P \in SUBSET Jobs :
           /\ \A j \in Jobs : Works(phase', j, d) <=> Works(ph, j, d) \/ j \in P
           /\ P # {} => d \notin h
<1> DEFINE P == {j \in Picked(q, t, h, n) : DeploymentOf[j] = d}
<1>1. Picked(q, t, h, n) \subseteq Runnable(q, t, h)
  BY DEF Picked
<1>2. P \in SUBSET Jobs
  BY <1>1 DEF Runnable
<1>3. \A j \in P : d \notin h
  BY <1>1, JobQueueAssumption DEF Runnable
<1>4. phase' = [j \in Jobs |->
                  IF j \notin Picked(q, t, h, n) THEN ph[j]
                  ELSE IF j \in flags THEN "revoking" ELSE "starting"]
  BY DEF Tick
<1>5. \A j \in Jobs : Works(phase', j, d) <=> Works(ph, j, d) \/ j \in P
  BY <1>4 DEF Works
<1> QED
  BY <1>2, <1>3, <1>5

(* A step whose only effect on a deployment is a tick takes it or leaves it *)
(* alone.                                                                   *)
LEMMA DispatchMoves ==
  ASSUME IInv, IInv',
         NEW q \in SUBSET Jobs, NEW t, NEW n, NEW rw, NEW flags, NEW ph, NEW h,
         Tick(q, t, h, n, ph, rw, flags), NEW d \in Deployments,
         d \in held => d \in h,
         \A j \in Jobs : Works(ph, j, d) <=> Works(phase, j, d),
         waiters'[d] = waiters[d],
         \A w \in Workers : Owns(excl', w, d) <=> Owns(excl, w, d)
  PROVE  LockMove(d)
<1>1. PICK P \in SUBSET Jobs :
        /\ \A j \in Jobs : Works(phase', j, d) <=> Works(ph, j, d) \/ j \in P
        /\ P # {} => d \notin h
  BY TickTakes
<1>2. CASE P = {}
  <2>1. OwnersOf(d)' = OwnersOf(d)
    BY <1>1, <1>2, SameOwners
  <2> QED
    BY <2>1 DEF LockMove, Lock!Stay
<1>3. CASE P # {}
  <2>1. d \notin held
    BY <1>1, <1>3
  <2>2. OwnersOf(d) = {} /\ waiters[d] = <<>> /\ \A w \in Workers : ~Owns(excl, w, d)
    BY <2>1, FreeIsEmpty
  <2>3. PICK i \in P : Works(phase', i, d)
    BY <1>1, <1>3
  <2>4. \A j, k \in Jobs : Works(phase', j, d) /\ Works(phase', k, d) => j = k
    <3>1. Exclusive(held', phase', excl')
      BY DEF IInv
    <3> QED
      BY <3>1 DEF Exclusive
  <2>5. \A j \in Jobs : Works(phase', j, d) <=> j = i
    BY <2>3, <2>4
  <2>6. \A a : a \in OwnersOf(d)' <=> a = <<"job", i>>
    BY <2>2, <2>5, OwnersThen
  <2>7. OwnersOf(d)' = {<<"job", i>>}
    BY <2>6
  <2>8. Lock!Take(d)
    BY <2>2, <2>7 DEF Lock!Take, Lock!Owners
  <2> QED
    BY <2>8 DEF LockMove
<1> QED
  BY <1>2, <1>3

(* The same when the step is a tick over the state as it is. *)
LEMMA TickMoves ==
  ASSUME IInv, IInv',
         \E q \in SUBSET Jobs : \E t, n, flags : Tick(q, t, held, n, phase, row, flags),
         UNCHANGED waiters,
         NEW d \in Deployments,
         \A w \in Workers : Owns(excl', w, d) <=> Owns(excl, w, d)
  PROVE  LockMove(d)
<1>1. PICK q \in SUBSET Jobs : \E t, n, flags : Tick(q, t, held, n, phase, row, flags)
  OBVIOUS
<1>2. PICK t, n, flags : Tick(q, t, held, n, phase, row, flags)
  BY <1>1
<1> QED
  BY <1>2, DispatchMoves

(* A step that changes neither who works on a deployment nor who waits. *)
LEMMA QuietMoves ==
  ASSUME NEW d \in Deployments,
         waiters'[d] = waiters[d],
         \A j \in Jobs : Works(phase', j, d) <=> Works(phase, j, d),
         \A w \in Workers : Owns(excl', w, d) <=> Owns(excl, w, d)
  PROVE  LockMove(d)
<1>1. OwnersOf(d)' = OwnersOf(d)
  BY SameOwners
<1> QED
  BY <1>1 DEF LockMove, Lock!Stay

LEMMA RecoveryMoves ==
  ASSUME IInv, IInv', RecoveryStep, NEW d \in Deployments
  PROVE  LockMove(d)
<1>1. CASE Recover \/ RecoverFails
  <2>1. OpenScheduling(pending)
    BY <1>1 DEF Recover, RecoverFails
  <2>2. queue \cup pending \in SUBSET Jobs
    BY DEF IInv, TypeInv
  <2>3. \E q \in SUBSET Jobs : \E t, n, flags : Tick(q, t, held, n, phase, row, flags)
    BY <2>1, <2>2 DEF OpenScheduling
  <2>4. UNCHANGED <<waiters, excl>>
    BY <2>1 DEF OpenScheduling, lockVars
  <2> QED
    BY <2>3, <2>4, TickMoves
<1>2. CASE ~(Recover \/ RecoverFails)
  <2>1. UNCHANGED <<waiters, excl, phase>>
    BY <1>2 DEF RecoveryStep, EnsureStarted, ReadOrphans, InitializeFails, ReadPending,
                FailOrphan, lockVars, schedVars
  <2> QED
    BY <2>1, QuietMoves
<1> QED
  BY <1>1, <1>2

LEMMA CreateMoves ==
  ASSUME IInv, IInv', NEW i \in Jobs, Insert(i) \/ Enqueue(i), NEW d \in Deployments
  PROVE  LockMove(d)
<1>1. UNCHANGED <<waiters, excl>>
  BY DEF Insert, Enqueue, lockVars
<1>2. UNCHANGED phase
      \/ Tick(queue \cup {i}, [turn EXCEPT ![i] = pushed + 1], held, running, phase, row,
              cancelled)
  BY DEF Insert, Enqueue, schedVars
<1>3. queue \cup {i} \in SUBSET Jobs
  BY DEF IInv, TypeInv
<1> QED
  BY <1>1, <1>2, <1>3, QuietMoves, TickMoves

LEMMA RunJobMoves ==
  ASSUME IInv, NEW i \in Jobs, NEW d \in Deployments,
         \/ Started(i) \/ ExecutorHandles(i) \/ ExecutorThrows(i) \/ ExecutorCancels(i)
         \/ ExecutorDeclines(i) \/ Checkpoint(i) \/ Slept(i) \/ Settled(i) \/ StoreFails(i)
  PROVE  LockMove(d)
<1>1. UNCHANGED <<waiters, excl>>
  BY DEF Started, ExecutorHandles, ExecutorThrows, ExecutorCancels, ExecutorDeclines,
         Checkpoint, Slept, Settled, StoreFails, RunJobFrame, lockVars
<1>2. phase[i] # "none" /\ \E p \in Phases \ {"none"} : Enter(i, p)
  BY DEF Started, ExecutorHandles, ExecutorThrows, ExecutorCancels, ExecutorDeclines,
         Checkpoint, Slept, Settled, StoreFails, Caught, Phases, Enter
<1>3. \A j \in Jobs : phase'[j] = "none" <=> phase[j] = "none"
  BY <1>2 DEF Enter, IInv, TypeInv
<1> QED
  BY <1>1, <1>3, QuietMoves DEF Works

(* The finally clause of runJob: its deployment is left, and handed to the  *)
(* first in line, taken by the tick, or free; other deployments only see    *)
(* the tick.                                                                *)
LEMMA FinishMoves ==
  ASSUME IInv, IInv', NEW i \in Jobs, Finish(i), NEW d \in Deployments
  PROVE  LockMove(d)
<1> DEFINE e == DeploymentOf[i]
           handOff == e # NoDeployment /\ waiters[e] # <<>>
           h == IF handOff THEN held ELSE held \ {e}
           ph == [phase EXCEPT ![i] = "none"]
<1>1. /\ phase[i] = "closing"
      /\ Tick(queue, turn, h, running - 1, ph, row, cancelled)
      /\ handOff => /\ excl' = [excl EXCEPT ![Head(waiters[e])].at = "inside"]
                    /\ waiters' = [waiters EXCEPT ![e] = Tail(@)]
      /\ ~handOff => UNCHANGED <<waiters, excl>>
  BY DEF Finish, lockVars
<1>2. /\ queue \in SUBSET Jobs /\ phase \in [Jobs -> Phases]
      /\ excl \in [Workers -> ExclTypes] /\ waiters \in [Deployments -> Seq(Workers)]
  BY DEF IInv, TypeInv
<1>3. \A j \in Jobs : Works(ph, j, d) <=> Works(phase, j, d) /\ j # i
  BY <1>2 DEF Works
<1>4. e \in Deployments \cup {NoDeployment} /\ NoDeployment \notin Deployments
  BY JobQueueAssumption
<1>5. ASSUME handOff
      PROVE  LET head == Head(waiters[e])
             IN  /\ head \in Workers
                 /\ excl[head] = [at |-> "waiting", on |-> e]
                 /\ excl'[head] = [at |-> "inside", on |-> e]
                 /\ \A w \in Workers : w # head => excl'[w] = excl[w]
  <2> DEFINE head == Head(waiters[e])
  <2>1. e \in Deployments /\ waiters[e] # <<>> /\ e \in held
    BY <1>4, <1>5 DEF IInv, WaitInv
  <2>2. waiters[e] \in Seq(Workers) /\ Line(waiters[e], e, excl)
    BY <1>2, <2>1, WaitInvLines DEF IInv
  <2> HIDE DEF e
  <2>3. head \in Workers /\ excl[head] = [at |-> "waiting", on |-> e]
    BY <2>1, <2>2, LineBehindHead
  <2>4. excl' = [excl EXCEPT ![head].at = "inside"]
    BY <1>1, <1>5
  <2> HIDE DEF head
  <2>5. excl'[head] = [at |-> "inside", on |-> e] /\ \A w \in Workers : w # head => excl'[w] = excl[w]
    BY <1>2, <2>3, <2>4
  <2> QED
    BY <2>3, <2>5 DEF head
<1>6. CASE d # e
  <2>1. d \in held => d \in h
    BY <1>6
  <2>2. waiters'[d] = waiters[d]
    BY <1>1, <1>2, <1>6
  <2>3. \A j \in Jobs : Works(ph, j, d) <=> Works(phase, j, d)
    BY <1>3, <1>6 DEF Works
  <2>4. \A w \in Workers : Owns(excl', w, d) <=> Owns(excl, w, d)
    BY <1>1, <1>5, <1>6 DEF Owns
  <2> HIDE DEF h, ph, e, handOff
  <2> QED
    BY <1>1, <1>2, <2>1, <2>2, <2>3, <2>4, DispatchMoves
<1>7. CASE d = e
  <2>1. Works(phase, i, d) /\ d # NoDeployment
    BY <1>1, <1>4, <1>7 DEF Works
  <2>2. /\ \A j \in Jobs : Works(phase, j, d) => j = i
        /\ \A w \in Workers : ~Owns(excl, w, d)
        /\ d \in held
    BY <2>1 DEF IInv, Exclusive
  <2>3. OwnersOf(d) # {}
    BY <2>1, OwnersNow
  <2>4. \A j \in Jobs : ~Works(ph, j, d)
    BY <1>3, <2>2
  <2>5. PICK P \in SUBSET Jobs :
          /\ \A j \in Jobs : Works(phase', j, d) <=> Works(ph, j, d) \/ j \in P
          /\ P # {} => d \notin h
    <3> HIDE DEF h, ph, handOff, e
    <3>1. Tick(queue, turn, h, running - 1, ph, row, cancelled)
      BY <1>1
    <3>2. queue \in SUBSET Jobs
      BY <1>2
    <3> QED
      BY <3>1, <3>2, TickTakes
  <2>6. \A j \in Jobs : Works(phase', j, d) <=> j \in P
    BY <2>4, <2>5
  <2>7. CASE handOff
    <3> DEFINE head == Head(waiters[d])
    <3>1. P = {}
      BY <2>2, <2>5, <2>7
    <3>2. \A w \in Workers : Owns(excl', w, d) <=> w = head
      BY <1>5, <1>7, <2>2, <2>7 DEF Owns
    <3>3. head \in Workers
      BY <1>5, <1>7, <2>7
    <3> HIDE DEF head
    <3>4. \A a : a \in OwnersOf(d)' <=> a = <<"call", head>>
      BY <2>6, <3>1, <3>2, <3>3, OwnersThen
    <3>5. OwnersOf(d)' = {<<"call", head>>}
      BY <3>4
    <3>6. waiters[d] # <<>> /\ waiters'[d] = Tail(waiters[d])
      BY <1>1, <1>2, <1>7, <2>7
    <3> QED
      BY <2>3, <3>5, <3>6 DEF LockMove, Lock!Leave, head
  <2>8. CASE ~handOff
    <3>1. waiters'[d] = waiters[d] /\ waiters[d] = <<>> /\ excl' = excl
      BY <1>1, <1>7, <2>1, <2>8
    <3>2. \A w \in Workers : ~Owns(excl', w, d)
      BY <2>2, <3>1
    <3>3. CASE P = {}
      <4>1. OwnersOf(d)' = {}
        BY <2>6, <3>2, <3>3, OwnersThen
      <4> QED
        BY <2>3, <3>1, <4>1 DEF LockMove, Lock!Leave
    <3>4. CASE P # {}
      <4>1. PICK k \in P : Works(phase', k, d)
        BY <2>6, <3>4
      <4>2. \A j \in Jobs : Works(phase', j, d) <=> j = k
        <5>1. Exclusive(held', phase', excl')
          BY DEF IInv
        <5> QED
          BY <4>1, <5>1 DEF Exclusive
      <4>3. \A a : a \in OwnersOf(d)' <=> a = <<"job", k>>
        BY <3>2, <4>2, OwnersThen
      <4>4. OwnersOf(d)' = {<<"job", k>>}
        BY <4>3
      <4> QED
        BY <2>3, <3>1, <4>4 DEF LockMove, Lock!Leave
    <3> QED
      BY <3>3, <3>4
  <2> QED
    BY <2>7, <2>8
<1> QED
  BY <1>6, <1>7

(* runExclusive on a free key is Take, on a held one Join. *)
LEMMA EnterMoves ==
  ASSUME IInv, NEW v \in Workers, NEW e \in Deployments, ExclusiveEnter(v, e),
         NEW d \in Deployments
  PROVE  LockMove(d)
<1>1. /\ excl \in [Workers -> ExclTypes] /\ waiters \in [Deployments -> Seq(Workers)]
      /\ excl[v].at = "idle" /\ phase' = phase
  BY DEF ExclusiveEnter, IInv, TypeInv
<1>2. \A j \in Jobs : Works(phase', j, d) <=> Works(phase, j, d)
  BY <1>1
<1>3. CASE d # e \/ e \in held
  <2>1. \A w \in Workers : Owns(excl', w, d) <=> Owns(excl, w, d)
    BY <1>1, <1>3 DEF ExclusiveEnter, Owns
  <2>2. OwnersOf(d)' = OwnersOf(d)
    BY <1>2, <2>1, SameOwners
  <2>3. CASE d # e
    <3>1. waiters'[d] = waiters[d]
      BY <1>1, <2>3 DEF ExclusiveEnter
    <3> QED
      BY <2>2, <3>1 DEF LockMove, Lock!Stay
  <2>4. CASE d = e
    <3>1. waiters'[d] = Append(waiters[d], v)
      BY <1>1, <1>3, <2>4 DEF ExclusiveEnter
    <3>2. OwnersOf(d) # {}
      <4>1. \/ \E j \in Jobs : Works(phase, j, d)
            \/ \E w \in Workers : Owns(excl, w, d)
        BY <1>3, <2>4 DEF IInv, Exclusive
      <4> QED
        BY <4>1, OwnersNow
    <3> QED
      BY <2>2, <3>1, <3>2 DEF LockMove, Lock!Join
  <2> QED
    BY <2>3, <2>4
<1>4. CASE d = e /\ e \notin held
  <2>1. /\ OwnersOf(d) = {} /\ waiters[d] = <<>>
        /\ \A j \in Jobs : ~Works(phase, j, d)
        /\ \A w \in Workers : ~Owns(excl, w, d)
    BY <1>4, FreeIsEmpty
  <2>2. waiters' = waiters /\ excl' = [excl EXCEPT ![v] = [at |-> "inside", on |-> d]]
    BY <1>4 DEF ExclusiveEnter
  <2>3. \A w \in Workers : Owns(excl', w, d) <=> w = v
    BY <1>1, <2>1, <2>2 DEF Owns
  <2>4. \A a : a \in OwnersOf(d)' <=> a = <<"call", v>>
    BY <1>2, <2>1, <2>3, OwnersThen
  <2>5. OwnersOf(d)' = {<<"call", v>>}
    BY <2>4
  <2> QED
    BY <2>1, <2>2, <2>5 DEF LockMove, Lock!Take, Lock!Owners
<1> QED
  BY <1>3, <1>4

(* A settled runExclusive leaves its deployment to the first in line. *)
LEMMA LeaveMoves ==
  ASSUME IInv, NEW v \in Workers, ExclusiveLeave(v), NEW d \in Deployments
  PROVE  LockMove(d)
<1> DEFINE e == excl[v].on
           head == Head(waiters[e])
<1>1. /\ excl \in [Workers -> ExclTypes] /\ waiters \in [Deployments -> Seq(Workers)]
      /\ excl[v].at = "inside" /\ phase' = phase
  BY DEF ExclusiveLeave, IInv, TypeInv
<1>2. \A j \in Jobs : Works(phase', j, d) <=> Works(phase, j, d)
  BY <1>1
<1>3. e \in Deployments /\ Owns(excl, v, e)
  BY <1>1 DEF ExclTypes, Owns
<1>4. CASE waiters[e] # <<>>
  <2>1. /\ excl' = [excl EXCEPT ![v].at = "ticking", ![head].at = "inside"]
        /\ waiters' = [waiters EXCEPT ![e] = Tail(waiters[e])]
    BY <1>4 DEF ExclusiveLeave
  <2>2. head \in Workers /\ excl[head] = [at |-> "waiting", on |-> e]
    <3> HIDE DEF e
    <3>1. waiters[e] \in Seq(Workers) /\ Line(waiters[e], e, excl)
      BY <1>1, <1>3, WaitInvLines DEF IInv
    <3> QED
      BY <1>4, <3>1, LineBehindHead
  <2> HIDE DEF head
  <2>3. /\ excl'[head] = [at |-> "inside", on |-> e] /\ excl'[v].at = "ticking"
        /\ \A w \in Workers : w # head /\ w # v => excl'[w] = excl[w]
    <3>1. head # v
      BY <1>1, <2>2
    <3> QED
      BY <1>1, <2>1, <2>2, <3>1 DEF ExclTypes
  <2>4. CASE d # e
    <3>1. \A w \in Workers : Owns(excl', w, d) <=> Owns(excl, w, d)
      BY <1>3, <2>2, <2>3, <2>4 DEF Owns
    <3> QED
      BY <1>1, <1>2, <2>1, <2>4, <3>1, QuietMoves
  <2>5. CASE d = e
    <3> HIDE DEF e
    <3>1. /\ \A j \in Jobs : ~Works(phase, j, d)
          /\ \A w \in Workers : Owns(excl, w, d) => w = v
      BY <1>3, <2>5 DEF IInv, Exclusive
    <3>2. \A w \in Workers : Owns(excl', w, d) <=> w = head
      BY <2>3, <2>5, <3>1 DEF Owns
    <3>3. \A a : a \in OwnersOf(d)' <=> a = <<"call", head>>
      BY <1>2, <2>2, <3>1, <3>2, OwnersThen
    <3>4. OwnersOf(d)' = {<<"call", Head(waiters[d])>>}
      BY <2>5, <3>3 DEF head
    <3>5. OwnersOf(d) # {}
      BY <1>3, <2>5, OwnersNow
    <3>6. waiters[d] # <<>> /\ waiters'[d] = Tail(waiters[d])
      BY <1>1, <1>4, <2>1, <2>5
    <3> QED
      BY <3>4, <3>5, <3>6 DEF LockMove, Lock!Leave
  <2> QED
    BY <2>4, <2>5
<1>5. CASE waiters[e] = <<>>
  <2>1. excl' = [excl EXCEPT ![v].at = "ticking"] /\ waiters' = waiters
    BY <1>5 DEF ExclusiveLeave
  <2>2. \A w \in Workers : Owns(excl', w, d) <=> Owns(excl, w, d) /\ w # v
    BY <1>1, <2>1 DEF Owns
  <2>3. CASE d # e
    <3>1. \A w \in Workers : Owns(excl', w, d) <=> Owns(excl, w, d)
      BY <2>2, <2>3 DEF Owns
    <3> QED
      BY <1>2, <2>1, <3>1, QuietMoves
  <2>4. CASE d = e
    <3> HIDE DEF e
    <3>1. /\ \A j \in Jobs : ~Works(phase, j, d)
          /\ \A w \in Workers : Owns(excl, w, d) => w = v
      BY <1>3, <2>4 DEF IInv, Exclusive
    <3>2. OwnersOf(d)' = {}
      BY <1>2, <2>2, <3>1, OwnersThen
    <3>3. OwnersOf(d) # {}
      BY <1>3, <2>4, OwnersNow
    <3> QED
      BY <1>5, <2>1, <2>4, <3>2, <3>3 DEF LockMove, Lock!Leave
  <2> QED
    BY <2>3, <2>4
<1> QED
  BY <1>4, <1>5

LEMMA ExclusiveMoves ==
  ASSUME IInv, IInv', NEW v \in Workers, RunExclusive(v), NEW d \in Deployments
  PROVE  LockMove(d)
<1>1. CASE ExclusiveTick(v)
  <2>1. /\ Tick(queue, turn, held, running, phase, row, cancelled)
        /\ waiters' = waiters /\ excl[v].at = "ticking"
        /\ excl' = [excl EXCEPT ![v].at = "done"]
    BY <1>1 DEF ExclusiveTick
  <2>2. queue \in SUBSET Jobs /\ excl \in [Workers -> ExclTypes]
    BY DEF IInv, TypeInv
  <2>3. \A w \in Workers : Owns(excl', w, d) <=> Owns(excl, w, d)
    BY <2>1, <2>2 DEF Owns
  <2> QED
    BY <2>1, <2>2, <2>3, TickMoves
<1> QED
  BY <1>1, EnterMoves, LeaveMoves DEF RunExclusive

LEMMA OtherMoves ==
  ASSUME NEW d \in Deployments,
         \/ \E j \in Jobs : CancelRead(j) \/ CancelAct(j) \/ CancelDone(j)
         \/ \E c \in Deployments : Discard(c)
         \/ \E s \in Terminal : ClearRead(s)
         \/ \E j \in Jobs : ClearDelete(j)
         \/ UNCHANGED vars
  PROVE  LockMove(d)
<1>1. UNCHANGED <<waiters, excl, phase>>
  BY DEF CancelRead, CancelAct, CancelDone, Discard, DiscardStart, DiscardRow, DiscardScan,
         DiscardFlag, ClearRead, ClearDelete, schedVars, lockVars, vars
<1> QED
  BY <1>1, QuietMoves

-----------------------------------------------------------------------------
(* The job service implements the lock (jobs.ts:30-47): a deployment has    *)
(* one owner at a time, a waiter is overtaken neither by the dispatcher nor *)
(* by another waiter, and nothing is left locked by a restart.              *)
THEOREM ImplementsLockHolds == Spec => ImplementsLock
<1>1. Init => Lock!Init
  <2> SUFFICES ASSUME Init PROVE Lock!Init
    OBVIOUS
  <2>1. IInv /\ held = {} /\ waiters = [d \in Deployments |-> <<>>]
    BY InitIInv DEF Init
  <2>2. \A d \in Deployments : OwnersOf(d) = {}
    BY <2>1, FreeIsEmpty
  <2> QED
    BY <2>1, <2>2 DEF Lock!Init
<1>2. IInv /\ IInv' /\ [Next]_vars => [Lock!Next]_(Lock!vars)
  <2> SUFFICES ASSUME IInv, IInv', [Next]_vars PROVE [Lock!Next]_(Lock!vars)
    OBVIOUS
  <2>1. CASE Crash
    <3>1. held' = {} /\ waiters' = [d \in Deployments |-> <<>>]
      BY <2>1 DEF Crash
    <3>2. /\ \A j \in Jobs : \A d : ~Works(phase', j, d)
          /\ \A w \in Workers : \A d : ~Owns(excl', w, d)
      BY <2>1 DEF Crash, Works, Owns
    <3>3. \A d \in Deployments : OwnersOf(d)' = {}
      BY <3>2, OwnersThen
    <3> QED
      BY <3>1, <3>3 DEF Lock!Next, Lock!Restart
  <2>2. CASE ~Crash
    <3>1. ASSUME NEW d \in Deployments PROVE LockMove(d)
      BY <2>2, RecoveryMoves, CreateMoves, RunJobMoves, FinishMoves, ExclusiveMoves, OtherMoves
      DEF Next, RunJob
    <3>2. \A d \in Deployments : OwnersOf(d)' \in SUBSET Lock!Owners
      BY OwnersThen DEF Lock!Owners
    <3>3. DOMAIN waiters' = Deployments
      BY DEF IInv, TypeInv
    <3> QED
      BY <3>1, <3>2, <3>3 DEF LockMove, Lock!Next, Lock!Work
  <2> QED
    BY <2>1, <2>2
<1> QED
  BY <1>1, <1>2, Inductive, PTL DEF Spec, ImplementsLock, Lock!Spec

-----------------------------------------------------------------------------
(* What the jobs table says and what the service does agree: every row of   *)
(* a job nobody cancels is written in the order pending, running, outcome,  *)
(* by one driver, and an outcome stays.                                     *)

CallTypes ==
  /\ cancel \in [Jobs -> {"none", "pending", "running", "written"}]
  /\ discard \in [Deployments -> [jobs : SUBSET Jobs,
                                  at : {"idle", "dropping", "flagging", "done"}]]
  /\ clearing \in SUBSET Jobs
  /\ orphans \in SUBSET Jobs
  /\ faults \in Nat

(* What the row of j says at each point of its runJob. *)
RowInFlight(j, rw, p) ==
  /\ p \in {"starting", "executing", "checkpoint", "sleeping"} => rw = "running"
  /\ p \in {"completing", "simCompleting"} => rw \in {"completed", "absent"}
  /\ p \in {"revoking", "cancelling"} => rw \in {"cancelled", "absent"}
  /\ p = "failing" => rw \in {"failed", "absent"}

(* A job that is queued, about to be, or taken off the queue to be          *)
(* discarded is pending.                                                    *)
Waits(j, rw) ==
  /\ j \in queue => rw = "pending"
  /\ j \in pending => rw = "pending"
  /\ create[j] = "inserting" => rw = "pending"
  /\ \A d \in Deployments : Dropped(d, j) => rw = "pending"

RowInv ==
  \A j \in Uncancelled :
    /\ cancel[j] = "none"
    /\ RowInFlight(j, row[j], phase[j])
    /\ Waits(j, row[j])
    /\ j \in orphans => row[j] = "running"
    /\ j \in clearing => row[j] \in Terminal \cup {"absent"}

(* A discard has taken its jobs off the queue for good. *)
DiscardInv ==
  \A d \in Deployments, j \in Jobs :
    Dropped(d, j) => /\ started /\ DeploymentOf[j] = d
                     /\ phase[j] = "none" /\ j \notin queue /\ create[j] = "done"

(* The snapshots a call works from: recovery's exist while it works on      *)
(* them, and clearJobs has read rows only.                                  *)
SnapshotInv ==
  /\ orphans # {} => startup \in {"orphansRead", "failing"}
  /\ pending # {} => startup = "failing"
  /\ \A j \in clearing : create[j] # "none"

(* Without a database fault nothing is forgotten: recovery has in its       *)
(* snapshots what the table holds, and an ending runJob has an outcome.     *)
NothingForgotten ==
  \A j \in Uncancelled :
    /\ phase[j] = "closing" => row[j] \in Terminal \cup {"absent"}
    /\ startup \in {"orphansRead", "failing"} /\ row[j] = "running" => j \in orphans
    /\ startup = "failing" /\ row[j] = "pending" => j \in pending

OutcomeInv ==
  /\ CallTypes
  /\ RowInv
  /\ DiscardInv
  /\ SnapshotInv
  /\ faults = 0 => NothingForgotten
  /\ RowsMatchQueue

-----------------------------------------------------------------------------
(* What the two action properties ask of a step. *)
Final == \A j \in Uncancelled : row[j] \in Terminal => row'[j] \in {row[j], "absent"}
Fresh == \A j \in Uncancelled \cap (queue' \ queue) : row[j] = "pending" /\ phase[j] = "none"
Good  == (faults' = faults => Final) /\ Fresh

(* Recovery over, its snapshots are gone.                                   *)
LEMMA OpenMeansRecovered ==
  ASSUME IInv, OutcomeInv, started
  PROVE  startup = "idle" /\ orphans = {} /\ pending = {}
BY DEF IInv, TypeInv, OnceInv, OutcomeInv, SnapshotInv

(* A tick gives the jobs it takes a driver and the row to go with it.       *)
LEMMA TickRows ==
  ASSUME NEW q, NEW t, NEW h, NEW n, NEW ph, NEW rw, NEW flags,
         Tick(q, t, h, n, ph, rw, flags)
  PROVE  \E P \in SUBSET q :
           /\ queue' = q \ P
           /\ \A j \in Jobs :
                /\ j \notin P => phase'[j] = ph[j] /\ row'[j] = rw[j]
                /\ j \in P => /\ phase'[j] \in {"revoking", "starting"}
                              /\ rw[j] = "absent" => row'[j] = "absent"
                              /\ rw[j] # "absent" =>
                                   row'[j] = IF phase'[j] = "revoking" THEN "cancelled"
                                             ELSE "running"
<1> DEFINE P == Picked(q, t, h, n)
<1>1. P \in SUBSET q
  BY DEF Picked, Runnable
<1>2. /\ queue' = q \ P
      /\ phase' = [j \in Jobs |->
                     IF j \notin P THEN ph[j]
                     ELSE IF j \in flags THEN "revoking" ELSE "starting"]
      /\ row' = [j \in Jobs |->
                   IF j \notin P \/ rw[j] = "absent" THEN rw[j]
                   ELSE IF j \in flags THEN "cancelled" ELSE "running"]
  BY DEF Tick
<1> HIDE DEF P
<1> QED
  BY <1>1, <1>2

(* A step that ends in a tick: q is the queue it leaves to the tick, ph the *)
(* runJobs in flight.                                                       *)
LEMMA TickOutcomes ==
  ASSUME IInv, OutcomeInv,
         NEW q \in SUBSET Jobs, NEW t, NEW h, NEW n, NEW ph \in [Jobs -> Phases],
         Tick(q, t, h, n, ph, row, cancelled),
         UNCHANGED <<cancel, discard, clearing>>,
         faults' \in Nat, faults' = 0 => faults = 0,
         \A j \in Jobs : ph[j] = phase[j] \/ (ph[j] = "none" /\ phase[j] = "closing"),
         \A j \in q : /\ j \in queue \/ (j \in Uncancelled => row[j] = "pending")
                      /\ phase[j] = "none"
                      /\ create'[j] = "done"
                      /\ \A d \in Deployments : ~Dropped(d, j),
         \A j \in Jobs : create'[j] = create[j] \/ (create[j] = "inserting" /\ create'[j] = "done"),
         started' = TRUE,
         started => startup' = startup,
         startup' = "idle", orphans' = {}, pending' = {},
         faults' = 0 =>
           \A j \in Uncancelled :
             /\ row[j] = "pending" => \/ j \in q
                                      \/ create'[j] = "inserting"
                                      \/ \E d \in Deployments : Dropped(d, j)
             /\ row[j] = "running" => ph[j] # "none"
  PROVE  OutcomeInv' /\ Good
<1>1. PICK P \in SUBSET q :
        /\ queue' = q \ P
        /\ \A j \in Jobs :
             /\ j \notin P => phase'[j] = ph[j] /\ row'[j] = row[j]
             /\ j \in P => /\ phase'[j] \in {"revoking", "starting"}
                           /\ row[j] = "absent" => row'[j] = "absent"
                           /\ row[j] # "absent" =>
                                row'[j] = IF phase'[j] = "revoking" THEN "cancelled"
                                          ELSE "running"
  BY TickRows
<1>2. \A j \in q : j \in Uncancelled => row[j] = "pending"
  BY DEF OutcomeInv, RowInv, Waits
<1>3. Uncancelled \subseteq Jobs /\ \A d, j : Dropped(d, j)' <=> Dropped(d, j)
  BY DEF Uncancelled, Dropped
<1>4. CallTypes'
  BY DEF OutcomeInv, CallTypes
<1>5. RowInv'
  <2> SUFFICES ASSUME NEW j \in Uncancelled
               PROVE  /\ cancel'[j] = "none"
                      /\ RowInFlight(j, row'[j], phase'[j])
                      /\ (Waits(j, row[j]))'
                      /\ j \in orphans' => row'[j] = "running"
                      /\ j \in clearing' => row'[j] \in Terminal \cup {"absent"}
    BY DEF RowInv
  <2>1. /\ cancel[j] = "none"
        /\ RowInFlight(j, row[j], phase[j])
        /\ Waits(j, row[j])
        /\ j \in clearing => row[j] \in Terminal \cup {"absent"}
    BY DEF OutcomeInv, RowInv
  <2>2. CASE j \in P
    <3>1. row[j] = "pending"
      BY <1>2, <2>2
    <3>2. RowInFlight(j, row'[j], phase'[j])
      BY <1>1, <1>3, <2>2, <3>1 DEF RowInFlight
    <3>3. (Waits(j, row[j]))'
      BY <1>1, <1>3, <2>2 DEF Waits
    <3> QED
      BY <2>1, <3>1, <3>2, <3>3 DEF Terminal
  <2>3. CASE j \notin P
    <3>1. row'[j] = row[j] /\ phase'[j] = ph[j]
      BY <1>1, <1>3, <2>3
    <3>2. RowInFlight(j, row'[j], phase'[j])
      BY <1>3, <2>1, <3>1 DEF RowInFlight
    <3>3. (Waits(j, row[j]))'
      BY <1>1, <1>2, <1>3, <2>1, <3>1 DEF Waits
    <3> QED
      BY <2>1, <3>1, <3>2, <3>3
  <2> QED
    BY <2>2, <2>3
<1>6. DiscardInv'
  <2> SUFFICES ASSUME NEW d \in Deployments, NEW j \in Jobs, Dropped(d, j)
               PROVE  /\ DeploymentOf[j] = d /\ phase'[j] = "none"
                      /\ j \notin queue' /\ create'[j] = "done"
    BY <1>3 DEF DiscardInv
  <2>1. DeploymentOf[j] = d /\ phase[j] = "none" /\ create[j] = "done"
    BY DEF OutcomeInv, DiscardInv
  <2>2. j \notin q
    OBVIOUS
  <2> QED
    BY <1>1, <2>1, <2>2
<1>7. SnapshotInv'
  BY DEF OutcomeInv, CallTypes, SnapshotInv
<1>8. faults' = 0 => NothingForgotten'
  <2> SUFFICES ASSUME faults' = 0, NEW j \in Uncancelled, phase'[j] = "closing"
               PROVE  row'[j] \in Terminal \cup {"absent"}
    BY DEF NothingForgotten
  <2>1. phase[j] = "closing" => row[j] \in Terminal \cup {"absent"}
    BY DEF OutcomeInv, NothingForgotten
  <2> QED
    BY <1>1, <1>3, <2>1
<1>9. RowsMatchQueue'
  <2> SUFFICES ASSUME faults' = 0, NEW j \in Uncancelled
               PROVE  /\ row'[j] = "pending" => \/ j \in queue'
                                                \/ create'[j] = "inserting"
                                                \/ \E d \in Deployments : Dropped(d, j)'
                      /\ j \in queue' => row'[j] = "pending"
                      /\ row'[j] = "running" => phase'[j] # "none"
    BY <1>3 DEF RowsMatchQueue, Active
  <2> QED
    BY <1>1, <1>2, <1>3
<1>10. Final
  BY <1>1, <1>2, <1>3 DEF Final, Terminal
<1>11. Fresh
  BY <1>1, <1>2, <1>3 DEF Fresh
<1> QED
  BY <1>4, <1>5, <1>6, <1>7, <1>8, <1>9, <1>10, <1>11 DEF OutcomeInv, Good

(* A driver moves on from one await to the next and writes at most the row  *)
(* of its job.                                                              *)
LEMMA DriverStep ==
  ASSUME IInv, OutcomeInv, NEW j \in Jobs, NEW p \in Phases \ {"none"},
         phase[j] \notin {"none", "closing"},
         phase' = [phase EXCEPT ![j] = p],
         UNCHANGED <<queue, create, cancel, discard, clearing, started, startup, orphans, pending>>,
         faults' \in Nat, faults' = 0 => faults = 0,
         \A k \in Jobs : k # j => row'[k] = row[k],
         j \in Uncancelled =>
           /\ RowInFlight(j, row'[j], p)
           /\ row[j] \in Terminal \cup {"absent"} => row'[j] \in Terminal \cup {"absent"}
           /\ faults' = faults /\ row[j] \in Terminal => row'[j] = row[j]
           /\ row'[j] # "pending"
           /\ p = "closing" /\ faults' = 0 => row'[j] \in Terminal \cup {"absent"}
  PROVE  OutcomeInv' /\ Good
<1>1. phase \in [Jobs -> Phases] /\ Uncancelled \subseteq Jobs
  BY DEF IInv, TypeInv, Uncancelled
<1>2. phase'[j] = p /\ \A k \in Jobs : k # j => phase'[k] = phase[k]
  BY <1>1
<1>3. started /\ j \notin queue /\ create[j] = "done"
  BY DEF IInv, OnceInv, Queued
<1>4. startup = "idle" /\ orphans = {} /\ pending = {}
  BY <1>3, OpenMeansRecovered
<1>5. \A d \in Deployments : ~Dropped(d, j)
  BY DEF OutcomeInv, DiscardInv
<1>6. \A d, k : Dropped(d, k)' <=> Dropped(d, k)
  BY DEF Dropped
<1>7. CallTypes'
  BY DEF OutcomeInv, CallTypes
<1>8. RowInv'
  <2> SUFFICES ASSUME NEW k \in Uncancelled
               PROVE  /\ cancel'[k] = "none"
                      /\ RowInFlight(k, row'[k], phase'[k])
                      /\ (Waits(k, row[k]))'
                      /\ k \in orphans' => row'[k] = "running"
                      /\ k \in clearing' => row'[k] \in Terminal \cup {"absent"}
    BY DEF RowInv
  <2>1. /\ cancel[k] = "none"
        /\ RowInFlight(k, row[k], phase[k])
        /\ Waits(k, row[k])
        /\ k \in clearing => row[k] \in Terminal \cup {"absent"}
    BY DEF OutcomeInv, RowInv
  <2>2. CASE k = j
    <3>1. (Waits(k, row[k]))'
      BY <1>3, <1>4, <1>5, <1>6, <2>2 DEF Waits
    <3> QED
      BY <1>2, <1>4, <2>1, <2>2, <3>1
  <2>3. CASE k # j
    <3>1. row'[k] = row[k] /\ phase'[k] = phase[k]
      BY <1>1, <1>2, <2>3
    <3>2. (Waits(k, row[k]))'
      BY <1>6, <2>1, <3>1 DEF Waits
    <3> QED
      BY <1>4, <2>1, <3>1, <3>2
  <2> QED
    BY <2>2, <2>3
<1>9. DiscardInv'
  BY <1>2, <1>5, <1>6 DEF OutcomeInv, DiscardInv
<1>10. SnapshotInv'
  BY DEF OutcomeInv, SnapshotInv
<1>11. faults' = 0 => NothingForgotten'
  <2> SUFFICES ASSUME faults' = 0, NEW k \in Uncancelled, phase'[k] = "closing"
               PROVE  row'[k] \in Terminal \cup {"absent"}
    BY <1>4 DEF NothingForgotten
  <2>1. phase[k] = "closing" => row[k] \in Terminal \cup {"absent"}
    BY DEF OutcomeInv, NothingForgotten
  <2> QED
    BY <1>1, <1>2, <2>1
<1>12. RowsMatchQueue'
  <2> SUFFICES ASSUME faults' = 0, NEW k \in Uncancelled
               PROVE  /\ row'[k] = "pending" => \/ k \in queue'
                                                \/ create'[k] = "inserting"
                                                \/ \E d \in Deployments : Dropped(d, k)'
                      /\ k \in queue' => row'[k] = "pending"
                      /\ row'[k] = "running" => phase'[k] # "none"
    BY <1>1 DEF RowsMatchQueue, Active
  <2>1. /\ row[k] = "pending" => \/ k \in queue
                                 \/ create[k] = "inserting"
                                 \/ \E d \in Deployments : Dropped(d, k)
        /\ k \in queue => row[k] = "pending"
        /\ row[k] = "running" => phase[k] # "none"
    BY <1>3 DEF OutcomeInv, RowsMatchQueue, Active
  <2> QED
    BY <1>1, <1>2, <1>3, <1>6, <2>1
<1>13. faults' = faults => Final
  BY <1>1 DEF Final
<1>14. Fresh
  BY DEF Fresh
<1> QED
  BY <1>7, <1>8, <1>9, <1>10, <1>11, <1>12, <1>13, <1>14 DEF OutcomeInv, Good

(* The steps of runJob before its finally clause. *)
LEMMA RunJobOutcomes ==
  ASSUME IInv, OutcomeInv, NEW j \in Jobs,
         \/ Started(j) \/ ExecutorHandles(j) \/ ExecutorThrows(j) \/ ExecutorCancels(j)
         \/ ExecutorDeclines(j) \/ Checkpoint(j) \/ Slept(j) \/ Settled(j) \/ StoreFails(j)
  PROVE  OutcomeInv' /\ Good
<1> USE DEF RunJobFrame, callVars, lockVars, bootVars, boundVars
<1>1. /\ row \in [Jobs -> Statuses] /\ phase[j] \in Phases
      /\ faults \in Nat
  BY DEF IInv, TypeInv, OutcomeInv, CallTypes
<1>2. UNCHANGED <<queue, create, cancel, discard, clearing, started, startup, orphans, pending>>
  BY DEF Started, ExecutorHandles, ExecutorThrows, ExecutorCancels, ExecutorDeclines,
         Checkpoint, Slept, Settled, StoreFails
<1>3. \A s : Stored(j, s)[j] = (IF row[j] = "absent" THEN "absent" ELSE s)
             /\ \A k \in Jobs : k # j => Stored(j, s)[k] = row[k]
  BY <1>1 DEF Stored
<1>4. /\ phase[j] \notin {"none", "closing"}
      /\ faults' \in Nat /\ (faults' = 0 => faults = 0)
  BY <1>1 DEF Started, ExecutorHandles, ExecutorThrows, ExecutorCancels, ExecutorDeclines,
              Checkpoint, Slept, Settled, StoreFails
<1>5. j \in Uncancelled => RowInFlight(j, row[j], phase[j])
  BY DEF OutcomeInv, RowInv
<1>6. ASSUME NEW p \in Phases \ {"none"}, Enter(j, p),
             \A k \in Jobs : k # j => row'[k] = row[k],
             j \in Uncancelled =>
               /\ RowInFlight(j, row'[j], p)
               /\ row[j] \in Terminal \cup {"absent"} => row'[j] \in Terminal \cup {"absent"}
               /\ faults' = faults /\ row[j] \in Terminal => row'[j] = row[j]
               /\ row'[j] # "pending"
               /\ p = "closing" /\ faults' = 0 => row'[j] \in Terminal \cup {"absent"}
      PROVE  OutcomeInv' /\ Good
  BY <1>2, <1>4, <1>6, DriverStep DEF Enter
<1> USE DEF Phases, RowInFlight, Terminal
<1>7. CASE Started(j)
  <2>1. CASE row[j] = "absent"
    BY <1>3, <1>5, <1>6, <1>7, <2>1 DEF Started, Caught
  <2>2. CASE row[j] # "absent"
    BY <1>3, <1>5, <1>6, <1>7, <2>2 DEF Started
  <2> QED
    BY <2>1, <2>2
<1>8. CASE ExecutorHandles(j)
  BY <1>3, <1>5, <1>6, <1>8 DEF ExecutorHandles
<1>9. CASE ExecutorThrows(j)
  BY <1>3, <1>5, <1>6, <1>9 DEF ExecutorThrows, Caught
<1>10. CASE ExecutorCancels(j)
  BY <1>3, <1>5, <1>6, <1>10 DEF ExecutorCancels
<1>11. CASE ExecutorDeclines(j)
  BY <1>3, <1>5, <1>6, <1>11 DEF ExecutorDeclines
<1>12. CASE Checkpoint(j)
  <2>1. CASE j \in cancelled
    BY <1>3, <1>5, <1>6, <1>12, <2>1 DEF Checkpoint
  <2>2. CASE j \notin cancelled
    BY <1>3, <1>5, <1>6, <1>12, <2>2 DEF Checkpoint
  <2> QED
    BY <2>1, <2>2
<1>13. CASE Slept(j)
  <2>1. CASE row[j] = "absent"
    BY <1>3, <1>5, <1>6, <1>13, <2>1 DEF Slept, Caught
  <2>2. CASE row[j] # "absent"
    BY <1>3, <1>5, <1>6, <1>13, <2>2 DEF Slept
  <2> QED
    BY <2>1, <2>2
<1>14. CASE Settled(j)
  <2>1. CASE row[j] = "absent" /\ phase[j] \notin {"cancelling", "failing"}
    BY <1>3, <1>5, <1>6, <1>14, <2>1 DEF Settled, Caught
  <2>2. CASE ~(row[j] = "absent" /\ phase[j] \notin {"cancelling", "failing"})
    <3>1. Enter(j, "closing") /\ row' = row /\ faults' = faults
      BY <1>14, <2>2 DEF Settled
    <3>2. j \in Uncancelled => row[j] \in Terminal \cup {"absent"}
      BY <1>5, <1>14 DEF Settled
    <3> QED
      BY <1>6, <3>1, <3>2
  <2> QED
    BY <2>1, <2>2
<1>15. CASE StoreFails(j)
  <2>1. faults' = faults + 1 /\ faults' # faults /\ faults' # 0
    BY <1>1, <1>15 DEF StoreFails
  <2>2. CASE Caught(j)
    BY <1>3, <1>5, <1>6, <2>1, <2>2 DEF Caught
  <2>3. CASE Enter(j, "closing") /\ UNCHANGED row
    <3>1. j \in Uncancelled => row[j] # "pending"
      BY <1>5, <1>15 DEF StoreFails
    <3> QED
      BY <1>6, <2>1, <2>3, <3>1
  <2> QED
    BY <1>15, <2>2, <2>3 DEF StoreFails
<1> QED
  BY <1>7, <1>8, <1>9, <1>10, <1>11, <1>12, <1>13, <1>14, <1>15

(* The steps that dispatch. *)
LEMMA OpenSchedulingOutcomes ==
  ASSUME IInv, OutcomeInv, OpenScheduling(pending), startup # "idle",
         (UNCHANGED faults /\ startup = "failing" /\ orphans = {}) \/ faults' = faults + 1
  PROVE  OutcomeInv' /\ Good
<1> DEFINE q == queue \cup pending
           t == [j \in Jobs |->
                   IF j \in pending
                   THEN pushed + Cardinality({k \in pending : born[k] >= born[j]})
                   ELSE turn[j]]
<1>1. /\ started' = TRUE /\ startup' = "idle" /\ orphans' = {} /\ pending' = {}
      /\ Tick(q, t, held, running, phase, row, cancelled)
      /\ UNCHANGED <<create, cancel, discard, clearing>>
  BY DEF OpenScheduling, callVars
<1>2. /\ ~started /\ queue = {} /\ q = pending /\ q \in SUBSET Jobs
      /\ phase \in [Jobs -> Phases]
      /\ \A j \in Jobs : phase[j] = "none" /\ create[j] # "inserting"
      /\ \A j \in pending : create[j] = "done"
  BY DEF IInv, TypeInv, OnceInv
<1>3. \A j \in q : j \in Uncancelled => row[j] = "pending"
  BY <1>2 DEF OutcomeInv, RowInv, Waits
<1>4. \A j \in Jobs, d \in Deployments : ~Dropped(d, j)
  BY <1>2 DEF OutcomeInv, DiscardInv
<1>5. /\ faults' \in Nat /\ (faults' = 0 => faults = 0)
      /\ faults' = 0 => startup = "failing" /\ orphans = {}
  BY DEF OutcomeInv, CallTypes
<1>6. ASSUME faults' = 0, NEW j \in Uncancelled
      PROVE  (row[j] = "pending" => j \in q) /\ row[j] # "running"
  BY <1>2, <1>5, <1>6 DEF OutcomeInv, NothingForgotten
<1>7. Uncancelled \subseteq Jobs
  BY DEF Uncancelled
<1> HIDE DEF q, t
<1> QED
  BY <1>1, <1>2, <1>3, <1>4, <1>5, <1>6, <1>7, TickOutcomes

LEMMA EnqueueOutcomes ==
  ASSUME IInv, OutcomeInv, NEW j \in Jobs, Enqueue(j)
  PROVE  OutcomeInv' /\ Good
<1>1. /\ create[j] = "inserting" /\ create' = [create EXCEPT ![j] = "done"]
      /\ UNCHANGED <<cancel, discard, clearing, faults, started, startup, orphans, pending>>
  BY DEF Enqueue, bootVars, boundVars
<1>2. /\ create \in [Jobs -> {"none", "inserting", "done"}]
      /\ queue \in SUBSET Jobs /\ phase \in [Jobs -> Phases] /\ faults \in Nat
      /\ Uncancelled \subseteq Jobs
  BY DEF IInv, TypeInv, OutcomeInv, CallTypes, Uncancelled
<1>3. /\ create'[j] = "done" /\ \A k \in Jobs : k # j => create'[k] = create[k]
  BY <1>1, <1>2
<1>4. /\ started = TRUE /\ phase[j] = "none" /\ j \notin queue
      /\ \A k \in queue : create[k] = "done" /\ phase[k] = "none"
  BY <1>1, <1>2 DEF IInv, TypeInv, OnceInv, Queued
<1>5. startup = "idle" /\ orphans = {} /\ pending = {}
  BY <1>4, OpenMeansRecovered
<1>6. \A d \in Deployments, k \in Jobs : Dropped(d, k) => k \notin queue \cup {j}
  BY <1>1 DEF OutcomeInv, DiscardInv
<1>7. faults = 0 => \A k \in Uncancelled :
             /\ row[k] = "pending" => \/ k \in queue
                                      \/ create[k] = "inserting"
                                      \/ \E d \in Deployments : Dropped(d, k)
             /\ row[k] = "running" => phase[k] # "none"
  BY <1>2, <1>4 DEF OutcomeInv, RowsMatchQueue, Active
<1>8. j \in Uncancelled => row[j] = "pending"
  BY <1>1 DEF OutcomeInv, RowInv, Waits
<1>9. CASE row[j] # "absent"
  <2> DEFINE q == queue \cup {j}
             t == [turn EXCEPT ![j] = pushed + 1]
  <2>1. Tick(q, t, held, running, phase, row, cancelled)
    BY <1>9 DEF Enqueue
  <2>2. q \in SUBSET Jobs
    BY <1>2
  <2>3. \A k \in q : /\ k \in queue \/ (k \in Uncancelled => row[k] = "pending")
                     /\ phase[k] = "none"
                     /\ create'[k] = "done"
                     /\ \A d \in Deployments : ~Dropped(d, k)
    BY <1>2, <1>3, <1>4, <1>6, <1>8
  <2>4. faults' = 0 =>
           \A k \in Uncancelled :
             /\ row[k] = "pending" => \/ k \in q
                                      \/ create'[k] = "inserting"
                                      \/ \E d \in Deployments : Dropped(d, k)
             /\ row[k] = "running" => phase[k] # "none"
    BY <1>1, <1>2, <1>3, <1>7
  <2>5. \A k \in Jobs : create'[k] = create[k] \/ (create[k] = "inserting" /\ create'[k] = "done")
    BY <1>1, <1>3
  <2> HIDE DEF q, t
  <2> QED
    BY <1>1, <1>2, <1>4, <1>5, <2>1, <2>2, <2>3, <2>4, <2>5, TickOutcomes
<1>10. CASE row[j] = "absent"
  <2>1. UNCHANGED <<row, queue, phase>> /\ j \notin Uncancelled
    BY <1>8, <1>10 DEF Enqueue, schedVars
  <2>2. \A d, k : Dropped(d, k)' <=> Dropped(d, k)
    BY <1>1 DEF Dropped
  <2>3. CallTypes' /\ SnapshotInv'
    BY <1>1 DEF OutcomeInv, CallTypes, SnapshotInv
  <2>4. RowInv'
    BY <1>1, <1>2, <1>3, <2>1, <2>2 DEF OutcomeInv, RowInv, Waits
  <2>5. DiscardInv'
    BY <1>1, <1>3, <2>1, <2>2 DEF OutcomeInv, DiscardInv
  <2>6. faults' = 0 => NothingForgotten'
    BY <1>1, <2>1 DEF OutcomeInv, NothingForgotten
  <2>7. RowsMatchQueue'
    BY <1>1, <1>2, <1>3, <2>1, <2>2 DEF OutcomeInv, RowsMatchQueue, Active
  <2>8. Good
    BY <2>1 DEF Good, Final, Fresh
  <2> QED
    BY <2>3, <2>4, <2>5, <2>6, <2>7, <2>8 DEF OutcomeInv
<1> QED
  BY <1>9, <1>10

LEMMA FinishOutcomes ==
  ASSUME IInv, OutcomeInv, NEW j \in Jobs, Finish(j)
  PROVE  OutcomeInv' /\ Good
<1> DEFINE ph == [phase EXCEPT ![j] = "none"]
           d == DeploymentOf[j]
           h == IF d # NoDeployment /\ waiters[d] # <<>> THEN held ELSE held \ {d}
<1>1. /\ phase[j] = "closing" /\ Tick(queue, turn, h, running - 1, ph, row, cancelled)
      /\ UNCHANGED <<create, cancel, discard, clearing, faults, started, startup, orphans, pending>>
  BY DEF Finish, callVars, bootVars, boundVars
<1>2. /\ queue \in SUBSET Jobs /\ phase \in [Jobs -> Phases] /\ faults \in Nat
      /\ started \in BOOLEAN /\ Uncancelled \subseteq Jobs
  BY DEF IInv, TypeInv, OutcomeInv, CallTypes, Uncancelled
<1>3. ph \in [Jobs -> Phases] /\ \A k \in Jobs : ph[k] = IF k = j THEN "none" ELSE phase[k]
  BY <1>2 DEF Phases
<1> HIDE DEF ph, h
<1>4. started = TRUE
  BY <1>1, <1>2 DEF IInv, OnceInv
<1>5. startup = "idle" /\ orphans = {} /\ pending = {}
  BY <1>4, OpenMeansRecovered
<1>6. \A k \in queue : /\ phase[k] = "none" /\ create[k] = "done"
                       /\ \A c \in Deployments : ~Dropped(c, k)
  BY <1>2 DEF IInv, Queued, OnceInv, OutcomeInv, DiscardInv
<1>7. faults = 0 => \A k \in Uncancelled :
             /\ row[k] = "pending" => \/ k \in queue
                                      \/ create[k] = "inserting"
                                      \/ \E c \in Deployments : Dropped(c, k)
             /\ row[k] = "running" => ph[k] # "none"
  BY <1>1, <1>2, <1>3, <1>4 DEF OutcomeInv, RowsMatchQueue, Active, NothingForgotten, Terminal
<1>8. \A k \in Jobs : ph[k] = phase[k] \/ (ph[k] = "none" /\ phase[k] = "closing")
  BY <1>1, <1>3
<1> QED
  BY <1>1, <1>2, <1>3, <1>4, <1>5, <1>6, <1>7, <1>8, TickOutcomes

LEMMA ExclusiveTickOutcomes ==
  ASSUME IInv, OutcomeInv, NEW w \in Workers, ExclusiveTick(w), started
  PROVE  OutcomeInv' /\ Good
<1>1. /\ Tick(queue, turn, held, running, phase, row, cancelled)
      /\ UNCHANGED <<create, cancel, discard, clearing, faults, started, startup, orphans, pending>>
  BY DEF ExclusiveTick, callVars, bootVars, boundVars
<1>2. /\ queue \in SUBSET Jobs /\ phase \in [Jobs -> Phases] /\ faults \in Nat
      /\ started = TRUE /\ Uncancelled \subseteq Jobs
  BY DEF IInv, TypeInv, OutcomeInv, CallTypes, Uncancelled
<1>3. startup = "idle" /\ orphans = {} /\ pending = {}
  BY <1>2, OpenMeansRecovered
<1>4. \A k \in queue : /\ phase[k] = "none" /\ create[k] = "done"
                       /\ \A c \in Deployments : ~Dropped(c, k)
  BY <1>2 DEF IInv, Queued, OnceInv, OutcomeInv, DiscardInv
<1>5. faults = 0 => \A k \in Uncancelled :
             /\ row[k] = "pending" => \/ k \in queue
                                      \/ create[k] = "inserting"
                                      \/ \E c \in Deployments : Dropped(c, k)
             /\ row[k] = "running" => phase[k] # "none"
  BY <1>2 DEF OutcomeInv, RowsMatchQueue, Active
<1> QED
  BY <1>1, <1>2, <1>3, <1>4, <1>5, TickOutcomes

(* Steps that write no row of a job nobody cancels and move no runJob; the  *)
(* queue loses at most jobs somebody cancels.                               *)
LEMMA QuietOutcomes ==
  ASSUME IInv, OutcomeInv,
         \A j \in Uncancelled : row'[j] = row[j],
         \A j \in Jobs : phase'[j] = phase[j],
         UNCHANGED <<create, discard, clearing, started, orphans, pending>>,
         cancel' \in [Jobs -> {"none", "pending", "running", "written"}],
         \A j \in Uncancelled : cancel'[j] = cancel[j],
         queue' \subseteq queue,
         \A j \in queue \ queue' : j \notin Uncancelled,
         faults' \in Nat, faults' = 0 => faults = 0,
         startup' = startup \/ (startup' \in {"idle", "opening"} /\ orphans = {} /\ pending = {})
  PROVE  OutcomeInv' /\ Good
<1>1. Uncancelled \subseteq Jobs /\ \A d, k : Dropped(d, k)' <=> Dropped(d, k)
  BY DEF Uncancelled, Dropped
<1>2. CallTypes' /\ SnapshotInv'
  BY DEF OutcomeInv, CallTypes, SnapshotInv
<1>3. RowInv'
  <2> SUFFICES ASSUME NEW j \in Uncancelled
               PROVE  /\ cancel'[j] = "none"
                      /\ RowInFlight(j, row'[j], phase'[j])
                      /\ (Waits(j, row[j]))'
                      /\ j \in orphans' => row'[j] = "running"
                      /\ j \in clearing' => row'[j] \in Terminal \cup {"absent"}
    BY DEF RowInv
  <2>1. /\ cancel[j] = "none"
        /\ RowInFlight(j, row[j], phase[j])
        /\ Waits(j, row[j])
        /\ j \in orphans => row[j] = "running"
        /\ j \in clearing => row[j] \in Terminal \cup {"absent"}
    BY DEF OutcomeInv, RowInv
  <2>2. (Waits(j, row[j]))'
    BY <1>1, <2>1 DEF Waits
  <2> QED
    BY <1>1, <2>1, <2>2
<1>4. DiscardInv'
  BY <1>1 DEF OutcomeInv, DiscardInv
<1>5. faults' = 0 => NothingForgotten'
  BY <1>1 DEF OutcomeInv, NothingForgotten
<1>6. RowsMatchQueue'
  <2> SUFFICES ASSUME faults' = 0, started, NEW j \in Uncancelled
               PROVE  /\ row'[j] = "pending" => \/ j \in queue'
                                                \/ create'[j] = "inserting"
                                                \/ \E d \in Deployments : Dropped(d, j)'
                      /\ j \in queue' => row'[j] = "pending"
                      /\ row'[j] = "running" => phase'[j] # "none"
    BY <1>1 DEF RowsMatchQueue, Active
  <2>1. /\ row[j] = "pending" => \/ j \in queue
                                 \/ create[j] = "inserting"
                                 \/ \E d \in Deployments : Dropped(d, j)
        /\ j \in queue => row[j] = "pending"
        /\ row[j] = "running" => phase[j] # "none"
    BY DEF OutcomeInv, RowsMatchQueue, Active
  <2> QED
    BY <1>1, <2>1
<1>7. Good
  BY DEF Good, Final, Fresh
<1> QED
  BY <1>2, <1>3, <1>4, <1>5, <1>6, <1>7 DEF OutcomeInv

(* runExclusive reads and writes no row; its tick finds nothing to dispatch *)
(* before scheduling is open.                                               *)
LEMMA ExclusiveOutcomes ==
  ASSUME IInv, OutcomeInv, NEW w \in Workers, RunExclusive(w)
  PROVE  OutcomeInv' /\ Good
<1>1. CASE ExclusiveTick(w) /\ started
  BY <1>1, ExclusiveTickOutcomes
<1>2. CASE ExclusiveTick(w) /\ ~started
  <2>1. /\ Tick(queue, turn, held, running, phase, row, cancelled)
        /\ UNCHANGED <<create, cancel, discard, clearing, faults, started, startup, orphans, pending>>
    BY <1>2 DEF ExclusiveTick, callVars, bootVars, boundVars
  <2>2. queue = {}
    BY <1>2 DEF IInv, TypeInv, OnceInv
  <2>3. queue' = {} /\ \A j \in Jobs : row'[j] = row[j] /\ phase'[j] = phase[j]
    BY <2>1, <2>2, TickRows
  <2> QED
    BY <2>1, <2>2, <2>3, QuietOutcomes DEF OutcomeInv, CallTypes, Uncancelled
<1>3. CASE ~ExclusiveTick(w)
  <2>1. UNCHANGED <<row, phase, queue, create, cancel, discard, clearing, faults, started,
                    startup, orphans, pending>>
    BY <1>3 DEF RunExclusive, ExclusiveEnter, ExclusiveLeave, tableVars, callVars,
                bootVars, boundVars
  <2> QED
    BY <2>1, QuietOutcomes DEF OutcomeInv, CallTypes
<1> QED
  BY <1>1, <1>2, <1>3

(* cancelJob concerns its own job only. *)
LEMMA CancelOutcomes ==
  ASSUME IInv, OutcomeInv, NEW j \in Jobs, CancelRead(j) \/ CancelAct(j) \/ CancelDone(j)
  PROVE  OutcomeInv' /\ Good
<1>1. j \notin Uncancelled
  BY DEF CancelRead, CancelAct, CancelDone, OutcomeInv, RowInv, Uncancelled
<1>2. /\ row \in [Jobs -> Statuses] /\ Uncancelled \subseteq Jobs
      /\ cancel \in [Jobs -> {"none", "pending", "running", "written"}]
  BY DEF IInv, TypeInv, OutcomeInv, CallTypes, Uncancelled
<1>3. /\ UNCHANGED <<phase, create, discard, clearing, faults, started, startup, orphans, pending>>
      /\ row' = row \/ row' = Stored(j, "cancelled")
      /\ queue' = queue \/ queue' = queue \ {j}
      /\ \E c \in {"none", "pending", "running", "written"} : cancel' = [cancel EXCEPT ![j] = c]
  BY <1>2 DEF CancelRead, CancelAct, CancelDone, tableVars, schedVars, bootVars, boundVars
<1>4. /\ cancel' \in [Jobs -> {"none", "pending", "running", "written"}]
      /\ \A k \in Uncancelled : cancel'[k] = cancel[k] /\ row'[k] = row[k]
  BY <1>1, <1>2, <1>3 DEF Stored
<1> QED
  BY <1>1, <1>3, <1>4, QuietOutcomes DEF OutcomeInv, CallTypes

-----------------------------------------------------------------------------
(* Recovery *)

LEMMA RecoveryOutcomes ==
  ASSUME IInv, OutcomeInv, RecoveryStep
  PROVE  OutcomeInv' /\ Good
<1> USE DEF tableVars, schedVars, callVars, boundVars
<1>0. Uncancelled \subseteq Jobs /\ faults \in Nat
  BY DEF Uncancelled, OutcomeInv, CallTypes
<1>1. CASE EnsureStarted \/ InitializeFails
  <2>1. /\ UNCHANGED <<row, phase, queue, create, cancel, discard, clearing, started, orphans, pending>>
        /\ faults' \in Nat /\ (faults' = 0 => faults = 0)
        /\ startup' \in {"idle", "opening"} /\ startup \in {"idle", "opening"}
    BY <1>0, <1>1 DEF EnsureStarted, InitializeFails
  <2>2. orphans = {} /\ pending = {}
    BY <2>1 DEF OutcomeInv, SnapshotInv
  <2> QED
    BY <2>1, <2>2, QuietOutcomes DEF OutcomeInv, CallTypes
<1>2. ASSUME startup # "idle", NEW j \in Jobs
      PROVE  /\ ~started /\ phase[j] = "none" /\ j \notin queue /\ create[j] # "inserting"
             /\ \A d \in Deployments : ~Dropped(d, j)
  BY <1>2 DEF IInv, OnceInv, OutcomeInv, DiscardInv
<1>3. ASSUME startup # "idle", startup' # "idle",
             UNCHANGED <<phase, queue, create, cancel, discard, clearing, faults, started>>,
             orphans' \in SUBSET Jobs, SnapshotInv',
             \A j \in Uncancelled :
               /\ row'[j] = row[j] \/ (row[j] = "running" /\ row'[j] = "failed")
               /\ j \in orphans' => row'[j] = "running"
               /\ j \in pending' => row'[j] = "pending"
               /\ startup' \in {"orphansRead", "failing"} /\ row'[j] = "running" /\ faults = 0
                    => j \in orphans'
               /\ startup' = "failing" /\ row'[j] = "pending" /\ faults = 0 => j \in pending'
      PROVE  OutcomeInv' /\ Good
  <2>1. \A d, k : Dropped(d, k)' <=> Dropped(d, k)
    BY <1>3 DEF Dropped
  <2>2. CallTypes'
    BY <1>3 DEF OutcomeInv, CallTypes
  <2>3. RowInv'
    <3> SUFFICES ASSUME NEW j \in Uncancelled
                 PROVE  /\ cancel[j] = "none"
                        /\ RowInFlight(j, row'[j], phase[j])
                        /\ (Waits(j, row[j]))'
                        /\ j \in clearing => row'[j] \in Terminal \cup {"absent"}
      BY <1>3 DEF RowInv
    <3>1. (Waits(j, row[j]))'
      BY <1>0, <1>2, <1>3, <2>1 DEF Waits
    <3>2. RowInFlight(j, row'[j], phase[j])
      BY <1>0, <1>2, <1>3 DEF RowInFlight
    <3>3. cancel[j] = "none" /\ (j \in clearing => row[j] \in Terminal \cup {"absent"})
      BY DEF OutcomeInv, RowInv
    <3> QED
      BY <1>3, <3>1, <3>2, <3>3 DEF Terminal
  <2>4. DiscardInv'
    BY <1>2, <1>3, <2>1 DEF DiscardInv
  <2>5. faults' = 0 => NothingForgotten'
    BY <1>0, <1>2, <1>3 DEF NothingForgotten
  <2>6. RowsMatchQueue'
    BY <1>2, <1>3 DEF RowsMatchQueue, IInv, OnceInv
  <2>7. Good
    BY <1>3 DEF Good, Final, Fresh, Terminal
  <2> QED
    BY <1>3, <2>2, <2>3, <2>4, <2>5, <2>6, <2>7 DEF OutcomeInv
<1>4. CASE ReadOrphans
  <2>1. pending = {}
    BY <1>4 DEF ReadOrphans, OutcomeInv, SnapshotInv
  <2>2. SnapshotInv'
    BY <1>4, <2>1 DEF ReadOrphans, OutcomeInv, SnapshotInv
  <2> QED
    BY <1>0, <1>3, <1>4, <2>1, <2>2 DEF ReadOrphans
<1>5. CASE ReadPending
  <2>1. \A j \in Uncancelled : /\ j \in orphans => row[j] = "running"
                               /\ faults = 0 /\ row[j] = "running" => j \in orphans
    BY <1>5 DEF ReadPending, OutcomeInv, RowInv, NothingForgotten
  <2>2. orphans \in SUBSET Jobs
    BY DEF OutcomeInv, CallTypes
  <2>3. SnapshotInv'
    BY <1>5 DEF ReadPending, OutcomeInv, SnapshotInv
  <2> QED
    BY <1>0, <1>3, <1>5, <2>1, <2>2, <2>3 DEF ReadPending
<1>6. ASSUME NEW j \in Jobs, FailOrphan(j)
      PROVE  OutcomeInv' /\ Good
  <2>1. /\ startup = "failing" /\ j \in orphans
        /\ row' = Stored(j, "failed") /\ orphans' = orphans \ {j}
        /\ UNCHANGED <<phase, queue, create, cancel, discard, clearing, faults, started,
                       startup, pending>>
    BY <1>6 DEF FailOrphan
  <2>2. row \in [Jobs -> Statuses] /\ orphans \in SUBSET Jobs
    BY DEF IInv, TypeInv, OutcomeInv, CallTypes
  <2>3. /\ \A k \in Jobs : k # j => row'[k] = row[k]
        /\ row[j] = "running" => row'[j] = "failed"
    BY <2>1, <2>2 DEF Stored
  <2>4. \A k \in Uncancelled :
          /\ k \in orphans => row[k] = "running"
          /\ k \in pending => row[k] = "pending"
          /\ faults = 0 /\ row[k] = "running" => k \in orphans
          /\ faults = 0 /\ row[k] = "pending" => k \in pending
    BY <2>1 DEF OutcomeInv, RowInv, Waits, NothingForgotten
  <2>5. SnapshotInv'
    BY <2>1 DEF OutcomeInv, SnapshotInv
  <2>6. \A k \in Uncancelled :
               /\ row'[k] = row[k] \/ (row[k] = "running" /\ row'[k] = "failed")
               /\ k \in orphans' => row'[k] = "running"
               /\ k \in pending' => row'[k] = "pending"
               /\ row'[k] = "running" /\ faults = 0 => k \in orphans'
               /\ row'[k] = "pending" /\ faults = 0 => k \in pending'
    BY <1>0, <2>1, <2>3, <2>4
  <2> QED
    BY <1>3, <2>1, <2>2, <2>5, <2>6
<1>7. CASE Recover \/ RecoverFails
  <2>1. /\ OpenScheduling(pending) /\ startup # "idle"
        /\ (UNCHANGED faults /\ startup = "failing" /\ orphans = {}) \/ faults' = faults + 1
    BY <1>7 DEF Recover, RecoverFails
  <2> QED
    BY <2>1, OpenSchedulingOutcomes
<1> QED
  BY <1>1, <1>4, <1>5, <1>6, <1>7 DEF RecoveryStep

-----------------------------------------------------------------------------
(* createJob, discardDeploymentJobs, clearJobs and a restart *)

LEMMA InsertOutcomes ==
  ASSUME IInv, OutcomeInv, NEW j \in Jobs, Insert(j)
  PROVE  OutcomeInv' /\ Good
<1>1. /\ started /\ create[j] = "none"
      /\ create' = [create EXCEPT ![j] = "inserting"]
      /\ row' = [row EXCEPT ![j] = "pending"]
      /\ UNCHANGED <<queue, phase, cancel, discard, clearing, faults, started, startup,
                     orphans, pending>>
  BY DEF Insert, schedVars, bootVars, boundVars
<1>2. /\ row[j] = "absent" /\ phase[j] = "none" /\ j \notin queue
      /\ Uncancelled \subseteq Jobs
  BY <1>1 DEF IInv, OnceInv, Uncancelled
<1>3. startup = "idle" /\ orphans = {} /\ pending = {}
  BY <1>1, OpenMeansRecovered
<1>4. /\ row'[j] = "pending" /\ create'[j] = "inserting"
      /\ \A k \in Jobs : k # j => row'[k] = row[k] /\ create'[k] = create[k]
  BY <1>1 DEF IInv, TypeInv
<1>5. /\ \A d \in Deployments : ~Dropped(d, j)
      /\ \A d, k : Dropped(d, k)' <=> Dropped(d, k)
  BY <1>1 DEF OutcomeInv, DiscardInv, Dropped
<1>6. CallTypes' /\ SnapshotInv'
  BY <1>1 DEF OutcomeInv, CallTypes, SnapshotInv
<1>7. RowInv'
  <2> SUFFICES ASSUME NEW k \in Uncancelled
               PROVE  /\ cancel[k] = "none"
                      /\ RowInFlight(k, row'[k], phase[k])
                      /\ (Waits(k, row[k]))'
                      /\ k \in clearing => row'[k] \in Terminal \cup {"absent"}
    BY <1>1, <1>3 DEF RowInv
  <2>1. /\ cancel[k] = "none"
        /\ RowInFlight(k, row[k], phase[k])
        /\ Waits(k, row[k])
        /\ k \in clearing => row[k] \in Terminal \cup {"absent"}
    BY DEF OutcomeInv, RowInv
  <2>2. CASE k = j
    <3>1. j \notin clearing
      BY <1>1 DEF OutcomeInv, SnapshotInv
    <3> QED
      BY <1>1, <1>2, <1>3, <1>4, <1>5, <2>1, <2>2, <3>1 DEF Waits, RowInFlight
  <2>3. CASE k # j
    BY <1>1, <1>2, <1>4, <1>5, <2>1, <2>3 DEF Waits
  <2> QED
    BY <2>2, <2>3
<1>8. DiscardInv'
  BY <1>1, <1>4, <1>5 DEF OutcomeInv, DiscardInv
<1>9. faults' = 0 => NothingForgotten'
  BY <1>1, <1>2, <1>3, <1>4 DEF OutcomeInv, NothingForgotten
<1>10. RowsMatchQueue'
  BY <1>1, <1>2, <1>4, <1>5 DEF OutcomeInv, RowsMatchQueue, Active
<1>11. Good
  BY <1>1, <1>2, <1>4 DEF Good, Final, Fresh, Terminal
<1> QED
  BY <1>6, <1>7, <1>8, <1>9, <1>10, <1>11 DEF OutcomeInv

LEMMA DiscardStartOutcomes ==
  ASSUME IInv, OutcomeInv, NEW d \in Deployments, DiscardStart(d)
  PROVE  OutcomeInv' /\ Good
<1> DEFINE dropped == {j \in queue : DeploymentOf[j] = d}
<1>1. /\ discard[d].at = "idle"
      /\ discard' = [discard EXCEPT ![d] = [jobs |-> dropped, at |-> "dropping"]]
      /\ queue' = queue \ dropped
      /\ UNCHANGED <<row, phase, create, cancel, clearing, faults, started, startup,
                     orphans, pending>>
  BY DEF DiscardStart, tableVars, bootVars, boundVars
<1>2. /\ queue \in SUBSET Jobs /\ Uncancelled \subseteq Jobs
      /\ discard \in [Deployments -> [jobs : SUBSET Jobs,
                                      at : {"idle", "dropping", "flagging", "done"}]]
  BY DEF IInv, TypeInv, OutcomeInv, CallTypes, Uncancelled
<1>3. /\ discard'[d] = [jobs |-> dropped, at |-> "dropping"]
      /\ \A c \in Deployments : c # d => discard'[c] = discard[c]
  BY <1>1, <1>2
<1>4. \A c \in Deployments : \A j : Dropped(c, j)' <=> Dropped(c, j) \/ (c = d /\ j \in dropped)
  BY <1>1, <1>3 DEF Dropped
<1>5. /\ \A j \in dropped : /\ j \in queue /\ DeploymentOf[j] = d
                            /\ phase[j] = "none" /\ create[j] = "done" /\ started
      /\ \A j \in queue' : j \in queue
  BY <1>1, <1>2 DEF IInv, OnceInv, Queued
<1>6. CallTypes' /\ SnapshotInv'
  <2>1. [jobs |-> dropped, at |-> "dropping"] \in
          [jobs : SUBSET Jobs, at : {"idle", "dropping", "flagging", "done"}]
    BY <1>2
  <2> QED
    BY <1>1, <1>2, <2>1 DEF OutcomeInv, CallTypes, SnapshotInv
<1> HIDE DEF dropped
<1>7. RowInv'
  <2> SUFFICES ASSUME NEW j \in Uncancelled PROVE (Waits(j, row[j]))'
    BY <1>1 DEF OutcomeInv, RowInv
  <2>1. Waits(j, row[j])
    BY DEF OutcomeInv, RowInv
  <2> QED
    BY <1>1, <1>4, <1>5, <2>1 DEF Waits
<1>8. DiscardInv'
  BY <1>1, <1>2, <1>4, <1>5 DEF OutcomeInv, DiscardInv
<1>9. faults' = 0 => NothingForgotten'
  BY <1>1 DEF OutcomeInv, NothingForgotten
<1>10. RowsMatchQueue'
  <2> SUFFICES ASSUME faults = 0, started, NEW j \in Uncancelled
               PROVE  /\ row[j] = "pending" => \/ j \in queue'
                                                \/ create[j] = "inserting"
                                                \/ \E c \in Deployments : Dropped(c, j)'
                      /\ j \in queue' => row[j] = "pending"
                      /\ row[j] = "running" => phase[j] # "none"
    BY <1>1, <1>2 DEF RowsMatchQueue, Active
  <2>1. /\ row[j] = "pending" => \/ j \in queue
                                 \/ create[j] = "inserting"
                                 \/ \E c \in Deployments : Dropped(c, j)
        /\ j \in queue => row[j] = "pending"
        /\ row[j] = "running" => phase[j] # "none"
    BY DEF OutcomeInv, RowsMatchQueue, Active
  <2>2. j \in queue => j \in queue' \/ Dropped(d, j)'
    BY <1>1, <1>4
  <2> QED
    BY <1>4, <1>5, <2>1, <2>2
<1>11. Good
  BY <1>1, <1>5 DEF Good, Final, Fresh
<1> QED
  BY <1>6, <1>7, <1>8, <1>9, <1>10, <1>11 DEF OutcomeInv

(* One round of the discard loop: the row it writes was pending. *)
LEMMA DiscardRowOutcomes ==
  ASSUME IInv, OutcomeInv, NEW d \in Deployments, NEW j \in Jobs, DiscardRow(d, j)
  PROVE  OutcomeInv' /\ Good
<1>1. /\ discard[d].at = "dropping" /\ j \in discard[d].jobs /\ Dropped(d, j)
      /\ discard' = [discard EXCEPT ![d].jobs = @ \ {j}]
      /\ \/ row' = Stored(j, "cancelled") /\ faults' = faults
         \/ row' = row /\ faults' = faults + 1
      /\ UNCHANGED <<queue, phase, create, cancel, clearing, started, startup, orphans, pending>>
  BY DEF DiscardRow, Dropped, schedVars, bootVars
<1>2. /\ row \in [Jobs -> Statuses] /\ faults \in Nat /\ Uncancelled \subseteq Jobs
      /\ discard \in [Deployments -> [jobs : SUBSET Jobs,
                                      at : {"idle", "dropping", "flagging", "done"}]]
  BY DEF IInv, TypeInv, OutcomeInv, CallTypes, Uncancelled
<1>3. /\ discard'[d] = [jobs |-> discard[d].jobs \ {j}, at |-> "dropping"]
      /\ \A c \in Deployments : c # d => discard'[c] = discard[c]
  BY <1>1, <1>2
<1>4. \A c \in Deployments : \A k : Dropped(c, k)' <=> Dropped(c, k) /\ ~(c = d /\ k = j)
  BY <1>1, <1>3 DEF Dropped
<1>5. /\ started /\ DeploymentOf[j] = d /\ phase[j] = "none" /\ j \notin queue
      /\ create[j] = "done"
  BY <1>1 DEF OutcomeInv, DiscardInv
<1>6. startup = "idle" /\ orphans = {} /\ pending = {}
  BY <1>5, OpenMeansRecovered
<1>7. /\ faults' \in Nat /\ (faults' = 0 => faults = 0)
      /\ \A k \in Jobs : k # j => row'[k] = row[k]
      /\ j \in Uncancelled => row[j] = "pending"
      /\ j \in Uncancelled => row'[j] = "cancelled" \/ (row'[j] = row[j] /\ faults' # 0)
  <2>1. j \in Uncancelled => row[j] = "pending"
    BY <1>1 DEF OutcomeInv, RowInv, Waits
  <2>2. CASE row' = Stored(j, "cancelled") /\ faults' = faults
    BY <1>2, <2>1, <2>2 DEF Stored
  <2>3. CASE row' = row /\ faults' = faults + 1
    BY <1>2, <2>1, <2>3
  <2> QED
    BY <1>1, <2>2, <2>3
<1>8. \A c \in Deployments : c # d => ~Dropped(c, j)
  BY <1>5 DEF OutcomeInv, DiscardInv
<1>9. CallTypes' /\ SnapshotInv'
  <2>1. discard' \in [Deployments -> [jobs : SUBSET Jobs,
                                      at : {"idle", "dropping", "flagging", "done"}]]
    BY <1>1, <1>2
  <2>2. CallTypes'
    BY <1>1, <1>2, <1>7, <2>1 DEF OutcomeInv, CallTypes
  <2>3. SnapshotInv'
    BY <1>1, <1>3 DEF OutcomeInv, SnapshotInv
  <2> QED
    BY <2>2, <2>3
<1>10. RowInv'
  <2> SUFFICES ASSUME NEW k \in Uncancelled
               PROVE  /\ cancel[k] = "none"
                      /\ RowInFlight(k, row'[k], phase[k])
                      /\ (Waits(k, row[k]))'
                      /\ k \in clearing => row'[k] \in Terminal \cup {"absent"}
    BY <1>1, <1>6 DEF RowInv
  <2>1. /\ cancel[k] = "none"
        /\ RowInFlight(k, row[k], phase[k])
        /\ Waits(k, row[k])
        /\ k \in clearing => row[k] \in Terminal \cup {"absent"}
    BY DEF OutcomeInv, RowInv
  <2>2. CASE k = j
    <3>1. (Waits(k, row[k]))'
      BY <1>1, <1>4, <1>5, <1>6, <1>8, <2>2 DEF Waits
    <3>2. RowInFlight(k, row'[k], phase[k])
      BY <1>5, <2>2 DEF RowInFlight
    <3> QED
      BY <1>7, <2>1, <2>2, <3>1, <3>2 DEF Terminal
  <2>3. CASE k # j
    <3>1. row'[k] = row[k]
      BY <1>2, <1>7, <2>3
    <3>2. (Waits(k, row[k]))'
      BY <1>1, <1>4, <2>1, <3>1 DEF Waits
    <3> QED
      BY <2>1, <3>1, <3>2
  <2> QED
    BY <2>2, <2>3
<1>11. DiscardInv'
  BY <1>1, <1>4 DEF OutcomeInv, DiscardInv
<1>12. faults' = 0 => NothingForgotten'
  <2> SUFFICES ASSUME faults' = 0, NEW k \in Uncancelled, phase[k] = "closing"
               PROVE  row'[k] \in Terminal \cup {"absent"}
    BY <1>1, <1>6 DEF NothingForgotten
  <2> QED
    BY <1>2, <1>5, <1>7 DEF OutcomeInv, NothingForgotten
<1>13. RowsMatchQueue'
  <2> SUFFICES ASSUME faults' = 0, NEW k \in Uncancelled
               PROVE  /\ row'[k] = "pending" => \/ k \in queue
                                                \/ create[k] = "inserting"
                                                \/ \E c \in Deployments : Dropped(c, k)'
                      /\ k \in queue => row'[k] = "pending"
                      /\ row'[k] = "running" => phase[k] # "none"
    BY <1>1, <1>2 DEF RowsMatchQueue, Active
  <2>1. /\ row[k] = "pending" => \/ k \in queue
                                 \/ create[k] = "inserting"
                                 \/ \E c \in Deployments : Dropped(c, k)
        /\ k \in queue => row[k] = "pending"
        /\ row[k] = "running" => phase[k] # "none"
    BY <1>5, <1>7 DEF OutcomeInv, RowsMatchQueue, Active
  <2>2. CASE k = j
    BY <1>5, <1>7, <2>2
  <2>3. CASE k # j
    <3>1. row'[k] = row[k] /\ \A c \in Deployments : Dropped(c, k)' <=> Dropped(c, k)
      BY <1>2, <1>4, <1>7, <2>3
    <3> QED
      BY <2>1, <3>1
  <2> QED
    BY <2>2, <2>3
<1>14. Good
  BY <1>1, <1>2, <1>7 DEF Good, Final, Fresh, Terminal
<1> QED
  BY <1>9, <1>10, <1>11, <1>12, <1>13, <1>14 DEF OutcomeInv

(* Flagging running jobs writes no row. *)
LEMMA DiscardFlagOutcomes ==
  ASSUME IInv, OutcomeInv, NEW d \in Deployments, DiscardScan(d) \/ DiscardFlag(d)
  PROVE  OutcomeInv' /\ Good
<1>1. /\ UNCHANGED <<row, queue, phase, create, cancel, clearing, faults, started, startup,
                     orphans, pending>>
      /\ \E r \in [jobs : SUBSET Jobs, at : {"flagging", "done"}] :
           discard' = [discard EXCEPT ![d] = r]
      /\ \/ discard[d].at = "dropping" /\ discard[d].jobs = {}
         \/ discard[d].at = "flagging"
  <2>1. CASE DiscardScan(d)
    BY <2>1 DEF DiscardScan, tableVars, schedVars, bootVars, boundVars
  <2>2. CASE DiscardFlag(d)
    BY <2>2 DEF DiscardFlag, tableVars, schedVars, bootVars, boundVars
  <2> QED
    BY <2>1, <2>2
<1>2. PICK r \in [jobs : SUBSET Jobs, at : {"flagging", "done"}] :
        discard' = [discard EXCEPT ![d] = r]
  BY <1>1
<1>3. /\ discard \in [Deployments -> [jobs : SUBSET Jobs,
                                      at : {"idle", "dropping", "flagging", "done"}]]
      /\ Uncancelled \subseteq Jobs
  BY DEF OutcomeInv, CallTypes, Uncancelled
<1>4. discard'[d] = r /\ \A c \in Deployments : c # d => discard'[c] = discard[c]
  BY <1>2, <1>3
<1>5. \A c \in Deployments : \A k : Dropped(c, k)' <=> Dropped(c, k)
  BY <1>1, <1>2, <1>4 DEF Dropped
<1>6. CallTypes' /\ SnapshotInv'
  BY <1>1, <1>2, <1>3, <1>4 DEF OutcomeInv, CallTypes, SnapshotInv
<1>7. RowInv'
  BY <1>1, <1>5 DEF OutcomeInv, RowInv, Waits
<1>8. DiscardInv'
  BY <1>1, <1>5 DEF OutcomeInv, DiscardInv
<1>9. faults' = 0 => NothingForgotten'
  BY <1>1 DEF OutcomeInv, NothingForgotten
<1>10. RowsMatchQueue'
  <2> SUFFICES ASSUME faults = 0, started, NEW k \in Uncancelled
               PROVE  /\ row[k] = "pending" => \/ k \in queue
                                               \/ create[k] = "inserting"
                                               \/ \E c \in Deployments : Dropped(c, k)'
                      /\ k \in queue => row[k] = "pending"
                      /\ row[k] = "running" => phase[k] # "none"
    BY <1>1, <1>3 DEF RowsMatchQueue, Active
  <2>1. /\ row[k] = "pending" => \/ k \in queue
                                 \/ create[k] = "inserting"
                                 \/ \E c \in Deployments : Dropped(c, k)
        /\ k \in queue => row[k] = "pending"
        /\ row[k] = "running" => phase[k] # "none"
    BY DEF OutcomeInv, RowsMatchQueue, Active
  <2> QED
    BY <1>5, <2>1
<1>11. Good
  BY <1>1 DEF Good, Final, Fresh
<1> QED
  BY <1>6, <1>7, <1>8, <1>9, <1>10, <1>11 DEF OutcomeInv

(* clearJobs deletes rows that had an outcome when it read them, and have.  *)
LEMMA ClearOutcomes ==
  ASSUME IInv, OutcomeInv,
         (\E s \in Terminal : ClearRead(s)) \/ (\E j \in Jobs : ClearDelete(j))
  PROVE  OutcomeInv' /\ Good
<1>1. /\ UNCHANGED <<queue, phase, create, cancel, discard, faults, started, startup,
                     orphans, pending>>
  BY DEF ClearRead, ClearDelete, tableVars, schedVars, bootVars, boundVars
<1>2. /\ clearing' \in SUBSET Jobs
      /\ \A j \in clearing' : create[j] # "none"
      /\ \A j \in Uncancelled :
           /\ row'[j] = row[j] \/ (row[j] \in Terminal \cup {"absent"} /\ row'[j] = "absent")
           /\ j \in clearing' => row'[j] \in Terminal \cup {"absent"}
  <2>1. ASSUME NEW s \in Terminal, ClearRead(s)
        PROVE  clearing' = {j \in Jobs : row[j] = s} /\ row' = row
    BY <2>1 DEF ClearRead, tableVars
  <2>2. ASSUME NEW s \in Terminal, ClearRead(s)
        PROVE  \A j \in clearing' : create[j] # "none"
    BY <2>1, <2>2 DEF IInv, OnceInv, Terminal
  <2>3. ASSUME NEW j \in Jobs, ClearDelete(j)
        PROVE  /\ clearing' = clearing \ {j} /\ j \in clearing
               /\ row' = [row EXCEPT ![j] = "absent"]
    BY <2>3 DEF ClearDelete
  <2>4. /\ row \in [Jobs -> Statuses] /\ clearing \in SUBSET Jobs
        /\ \A j \in clearing : create[j] # "none"
        /\ \A j \in Uncancelled : j \in clearing => row[j] \in Terminal \cup {"absent"}
    BY DEF IInv, TypeInv, OutcomeInv, CallTypes, SnapshotInv, RowInv
  <2>5. CASE \E s \in Terminal : ClearRead(s)
    BY <2>1, <2>2, <2>5
  <2>6. CASE \E j \in Jobs : ClearDelete(j)
    BY <2>3, <2>4, <2>6 DEF Uncancelled
  <2> QED
    BY <2>5, <2>6
<1>3. /\ Uncancelled \subseteq Jobs
      /\ \A d, k : Dropped(d, k)' <=> Dropped(d, k)
  BY <1>1 DEF Uncancelled, Dropped
<1>4. CallTypes' /\ SnapshotInv'
  BY <1>1, <1>2 DEF OutcomeInv, CallTypes, SnapshotInv
<1>5. RowInv'
  <2> SUFFICES ASSUME NEW j \in Uncancelled
               PROVE  /\ cancel[j] = "none"
                      /\ RowInFlight(j, row'[j], phase[j])
                      /\ (Waits(j, row[j]))'
                      /\ j \in orphans => row'[j] = "running"
                      /\ j \in clearing' => row'[j] \in Terminal \cup {"absent"}
    BY <1>1 DEF RowInv
  <2>1. /\ cancel[j] = "none"
        /\ RowInFlight(j, row[j], phase[j])
        /\ Waits(j, row[j])
        /\ j \in orphans => row[j] = "running"
    BY DEF OutcomeInv, RowInv
  <2>2. RowInFlight(j, row'[j], phase[j])
    BY <1>2, <2>1 DEF RowInFlight, Terminal
  <2>3. (Waits(j, row[j]))'
    BY <1>1, <1>2, <1>3, <2>1 DEF Waits, Terminal
  <2> QED
    BY <1>2, <2>1, <2>2, <2>3 DEF Terminal
<1>6. DiscardInv'
  BY <1>1, <1>3 DEF OutcomeInv, DiscardInv
<1>7. faults' = 0 => NothingForgotten'
  BY <1>1, <1>2 DEF OutcomeInv, NothingForgotten
<1>8. RowsMatchQueue'
  <2> SUFFICES ASSUME faults = 0, started, NEW j \in Uncancelled
               PROVE  /\ row'[j] = "pending" => \/ j \in queue
                                                \/ create[j] = "inserting"
                                                \/ \E d \in Deployments : Dropped(d, j)
                      /\ j \in queue => row'[j] = "pending"
                      /\ row'[j] = "running" => phase[j] # "none"
    BY <1>1, <1>3 DEF RowsMatchQueue, Active
  <2> QED
    BY <1>2, <1>3 DEF OutcomeInv, RowsMatchQueue, Active, Terminal
<1>9. Good
  BY <1>1, <1>2 DEF Good, Final, Fresh
<1> QED
  BY <1>4, <1>5, <1>6, <1>7, <1>8, <1>9 DEF OutcomeInv

(* A restart keeps the rows and forgets every snapshot of them.             *)
LEMMA CrashOutcomes ==
  ASSUME IInv, OutcomeInv, Crash
  PROVE  OutcomeInv' /\ Good
<1>1. /\ UNCHANGED <<row, faults>>
      /\ queue' = {} /\ pending' = {} /\ orphans' = {} /\ clearing' = {}
      /\ started' = FALSE /\ startup' = "idle"
      /\ phase' = [j \in Jobs |-> "none"]
      /\ cancel' = [j \in Jobs |-> "none"]
      /\ discard' = [d \in Deployments |-> Idle]
      /\ \A j \in Jobs : create'[j] # "inserting"
  BY DEF Crash, tableVars
<1>2. Uncancelled \subseteq Jobs /\ \A d \in Deployments : \A j : ~Dropped(d, j)'
  BY <1>1 DEF Uncancelled, Dropped, Idle
<1>3. CallTypes'
  BY <1>1 DEF OutcomeInv, CallTypes, Idle
<1>4. RowInv' /\ SnapshotInv' /\ DiscardInv'
  BY <1>1, <1>2 DEF RowInv, RowInFlight, Waits, SnapshotInv, DiscardInv
<1>5. NothingForgotten' /\ RowsMatchQueue'
  BY <1>1, <1>2 DEF NothingForgotten, RowsMatchQueue
<1>6. Good
  BY <1>1 DEF Good, Final, Fresh
<1> QED
  BY <1>3, <1>4, <1>5, <1>6 DEF OutcomeInv

-----------------------------------------------------------------------------
LEMMA InitOutcomes == Init => OutcomeInv
<1> SUFFICES ASSUME Init PROVE OutcomeInv
  OBVIOUS
<1>1. CallTypes
  BY DEF Init, CallTypes, Idle
<1>2. Uncancelled \subseteq Jobs /\ \A d \in Deployments : \A j : ~Dropped(d, j)
  BY DEF Init, Uncancelled, Dropped, Idle
<1>3. RowInv /\ DiscardInv /\ SnapshotInv /\ RowsMatchQueue /\ NothingForgotten
  BY <1>2 DEF Init, RowInv, RowInFlight, Waits, DiscardInv, SnapshotInv, RowsMatchQueue,
              NothingForgotten
<1> QED
  BY <1>1, <1>3 DEF OutcomeInv

LEMMA NextOutcomes == IInv /\ OutcomeInv /\ [Next]_vars => OutcomeInv' /\ Good
<1> SUFFICES ASSUME IInv, OutcomeInv, [Next]_vars PROVE OutcomeInv' /\ Good
  OBVIOUS
<1>1. CASE RecoveryStep
  BY <1>1, RecoveryOutcomes
<1>2. ASSUME NEW j \in Jobs, Insert(j) \/ Enqueue(j) \/ RunJob(j)
      PROVE  OutcomeInv' /\ Good
  BY <1>2, InsertOutcomes, EnqueueOutcomes, RunJobOutcomes, FinishOutcomes DEF RunJob
<1>3. ASSUME NEW w \in Workers, RunExclusive(w)
      PROVE  OutcomeInv' /\ Good
  BY <1>3, ExclusiveOutcomes
<1>4. ASSUME NEW j \in Jobs, CancelRead(j) \/ CancelAct(j) \/ CancelDone(j)
      PROVE  OutcomeInv' /\ Good
  BY <1>4, CancelOutcomes
<1>5. ASSUME NEW d \in Deployments, Discard(d)
      PROVE  OutcomeInv' /\ Good
  BY <1>5, DiscardStartOutcomes, DiscardRowOutcomes, DiscardFlagOutcomes DEF Discard
<1>6. CASE (\E s \in Terminal : ClearRead(s)) \/ (\E j \in Jobs : ClearDelete(j))
  BY <1>6, ClearOutcomes
<1>7. CASE Crash
  BY <1>7, CrashOutcomes
<1>8. CASE UNCHANGED vars
  <2>1. UNCHANGED <<row, phase, queue, create, cancel, discard, clearing, faults, started,
                    startup, orphans, pending>>
    BY <1>8 DEF vars, tableVars, schedVars, callVars, bootVars, boundVars
  <2> QED
    BY <2>1, QuietOutcomes DEF OutcomeInv, CallTypes
<1> QED
  BY <1>1, <1>2, <1>3, <1>4, <1>5, <1>6, <1>7, <1>8 DEF Next

(* For any set of jobs, deployments and callers, any limit and any number   *)
(* of restarts and database faults: runJob, recovery and discard never      *)
(* write over an outcome they or each other have recorded (jobs.ts:379,     *)
(* jobs.ts:261, jobs.ts:463).                                               *)
THEOREM OutcomeIsFinalHolds == Spec => OutcomeIsFinal
<1>1. IInv /\ OutcomeInv /\ [Next]_vars =>
        [faults' = faults =>
           \A j \in Uncancelled : row[j] \in Terminal => row'[j] \in {row[j], "absent"}]_vars
  BY NextOutcomes DEF Good, Final
<1>2. IInv /\ OutcomeInv /\ [Next]_vars => OutcomeInv'
  BY NextOutcomes
<1> QED
  BY <1>1, <1>2, InitOutcomes, Inductive, PTL DEF Spec, OutcomeIsFinal

(* In the same generality: whatever enters the queue is pending and idle,   *)
(* and, while no database call has failed, every pending row has its place  *)
(* and every running row its driver, across restarts (jobs.ts:463).         *)
THEOREM EachJobDrivenOnceHolds == Spec => EachJobDrivenOnce
<1>1. IInv /\ OutcomeInv /\ [Next]_vars =>
        [/\ RowsMatchQueue'
         /\ \A j \in Uncancelled \cap (queue' \ queue) : row[j] = "pending" /\ phase[j] = "none"]_vars
  BY NextOutcomes DEF Good, Fresh, OutcomeInv
<1>2. IInv /\ OutcomeInv /\ [Next]_vars => OutcomeInv'
  BY NextOutcomes
<1> QED
  BY <1>1, <1>2, InitOutcomes, Inductive, PTL DEF Spec, EachJobDrivenOnce
=============================================================================
