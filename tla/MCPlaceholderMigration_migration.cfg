SPECIFICATION Spec
CONSTANTS
    Attempt = {a1, a2}
    Question = {q1, q2}
    Process = {p1, p2}
SYMMETRY Symmetry
INVARIANTS
    QuestionsKept
    VersionServesItsOwn
    CreditKept
