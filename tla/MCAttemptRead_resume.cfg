\* A page read while its one question is answered, edited and purged.
CONSTANTS
    Attempt = {a1}
    Question = {q1}
    Slot = {s1, s2}
    Request = {r1}
    NoRow = NoRow
    NULL = NULL
    Purger = Purger
    MaxEdits = 1
    BatchSize = 1
SYMMETRY Symmetry
SPECIFICATION ReadSpec
INVARIANTS
    KeyStaysSecret
    PageCoherent
    ScoreShown
    AckedShown
