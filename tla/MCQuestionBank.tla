----------------------------- MODULE MCQuestionBank -----------------------------
(***************************************************************************)
(* Instances of QuestionBank for TLC.                                      *)
(***************************************************************************)
EXTENDS QuestionBank, TLC

(* Questions, requests, titles and categories are interchangeable.         *)
Symmetry == Permutations(Question) \cup Permutations(Request)
              \cup Permutations(Title) \cup Permutations(Category)
=============================================================================
