\* Two attempts, purged in one batch or one by one as they grow old, while
\* the options of their question are replaced.
CONSTANTS
    Attempt = {a1, a2}
    Question = {q1}
    Slot = {s1}
    Request = {r1}
    NoRow = NoRow
    NULL = NULL
    Purger = Purger
    MaxEdits = 1
    BatchSize = 2
SYMMETRY Symmetry
SPECIFICATION Spec
INVARIANTS
    CompletedHasAnswer
    DeadlockNeedsEditAndPurge
