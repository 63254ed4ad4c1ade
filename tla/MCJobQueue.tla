----------------------------- MODULE MCJobQueue -----------------------------
(* Small instances of JobQueue for TLC. *)
EXTENDS JobQueue, TLC

CONSTANTS j1, j2, j3, d1, none

(* Two jobs of one deployment. *)
TwoTogether == j1 :> d1 @@ j2 :> d1

(* Two jobs of one deployment and one that belongs to none. *)
TwoAndFleet == j1 :> d1 @@ j2 :> d1 @@ j3 :> none

(* runExclusive callers are interchangeable. *)
WorkerSymmetry == Permutations(Workers)
=============================================================================
