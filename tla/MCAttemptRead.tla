----------------------------- MODULE MCAttemptRead -----------------------------
(***************************************************************************)
(* Instances of AttemptRead for TLC.                                       *)
(***************************************************************************)
EXTENDS AttemptRead, TLC

(* Attempts, questions, slots and requests are interchangeable.            *)
Symmetry == Permutations(Attempt) \cup Permutations(Question)
              \cup Permutations(Slot) \cup Permutations(Request)
=============================================================================
