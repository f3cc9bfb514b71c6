-------------------------- MODULE MCQuestionSelection --------------------------
(***************************************************************************)
(* Instances of QuestionSelection for TLC.                                 *)
(***************************************************************************)
EXTENDS QuestionSelection, TLC

(* Questions and categories are interchangeable.                           *)
Symmetry == Permutations(Question) \cup Permutations(Category)
=============================================================================
