----------------------------- MODULE MCQuizAttempts -----------------------------
(***************************************************************************)
(* Instances of QuizAttempts for TLC.                                      *)
(***************************************************************************)
EXTENDS QuizAttempts, TLC

(* Attempts, questions, slots and requests are interchangeable.            *)
Symmetry == Permutations(Attempt) \cup Permutations(Question)
              \cup Permutations(Slot) \cup Permutations(Request)
=============================================================================
