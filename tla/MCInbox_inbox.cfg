SPECIFICATION Spec
CONSTANTS
    Entry = {e1, e2, e3}
    Status = {"open", "reviewed"}
    Request = {r1, r2}
    PageSize = 1
    None = None
    MaxSets = 2
    MaxClock = 3
SYMMETRY Symmetry
INVARIANTS
    MissedBounded
