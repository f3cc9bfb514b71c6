\* Two questions that may share titles and categories, written by two requests.
CONSTANTS
    Question = {q1, q2}
    Title = {x, y}
    Category = {c1, c2}
    Slug = {c1, c2, unknown}
    Difficulty = {d1}
    Selection = {{q1}, {q2}, {q1, q2}}
    Request = {r1, r2}
    NoRow = NoRow
    Keep = Keep
    MaxEdits = 3
SYMMETRY Symmetry
SPECIFICATION Spec
INVARIANTS
    TypeOK
    UniquePairs
    OneOptionList
    AffectedExact
PROPERTIES
    EditReplacesWhatItLoaded
    ImplementsBank
