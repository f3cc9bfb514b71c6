\* The purge against a player who completes late.
CONSTANTS
    Attempt = {a1}
    Question = {q1}
    Slot = {s1}
    Request = {r1}
    NoRow = NoRow
    NULL = NULL
    Purger = Purger
    MaxEdits = 0
    BatchSize = 1
SPECIFICATION Spec
PROPERTIES
    CompletedKept
