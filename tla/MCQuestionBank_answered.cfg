\* Liveness: creates, imports, bulk changes and edits that lock each other out.
CONSTANTS
    Question = {q1, q2}
    Title = {x, y}
    Category = {c1}
    Slug = {c1}
    Difficulty = {d1}
    Selection = {{q1, q2}}
    Request = {r1, r2}
    NoRow = NoRow
    Keep = Keep
    MaxEdits = 3
SPECIFICATION FairSpec
PROPERTIES
    RequestsAnswered
