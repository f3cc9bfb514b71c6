\* One question, its options replaced at any time, two concurrent requests.
CONSTANTS
    Attempt = {a1}
    Question = {q1}
    Slot = {s1, s2}
    Request = {r1, r2}
    NoRow = NoRow
    NULL = NULL
    Purger = Purger
    MaxEdits = 1
    BatchSize = 1
SYMMETRY Symmetry
SPECIFICATION Spec
INVARIANTS
    TypeOK
    OneAcceptedOption
    AckedAnswerKept
    RetryAccepted
    VerdictMatchesKey
    CompletedOnce
    ScoreExactUnlessOvertaken
PROPERTIES
    ScoreFrozen
    AnswerFinal
    ImplementsContract
