\* Two questions: scores of several answers, options of the wrong question,
\* and the purge between requests that keep the attempt locked.
CONSTANTS
    Attempt = {a1}
    Question = {q1, q2}
    Slot = {s1}
    Request = {r1, r2}
    NoRow = NoRow
    NULL = NULL
    Purger = Purger
    MaxEdits = 0
    BatchSize = 1
SPECIFICATION FairSpec
INVARIANTS
    VerdictMatchesKey
    ScoreExactUnlessOvertaken
PROPERTIES
    AbandonedGoes
