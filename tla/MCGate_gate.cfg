SPECIFICATION Spec
CONSTANTS
    Process = {p1, p2}
    Client = {c1, c2}
    Cloudflare = Cloudflare
    Edge = Edge
    Store = Store
    Down = Down
    Settings <- Environments
    Written <- Claims
    Limit = 2
    MaxHits = 3
    MaxStarts = 3
SYMMETRY Symmetry
INVARIANTS
    TypeOK
    OwnBucket
    BudgetHeld
