\* Quizzes of up to two questions from a bank of five.
CONSTANTS
    Question = {q1, q2, q3, q4, q5}
    Category = {c1, c2}
    All = All
    Request = {r1}
    MaxCount = 2
SYMMETRY Symmetry
SPECIFICATION Spec
INVARIANTS
    QuizIsFull
