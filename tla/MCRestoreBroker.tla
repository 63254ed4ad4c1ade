--------------------------- MODULE MCRestoreBroker ---------------------------
(* Small instances of RestoreBroker for TLC. *)
EXTENDS RestoreBroker, TLC

(* Claim calls are interchangeable, and so are complete calls. *)
CallSymmetry == Permutations(Claims) \cup Permutations(Reports)
=============================================================================
