SPECIFICATION SourcesSpec
CONSTANTS
    Path = {p, q}
    Curated = {p}
    Incoming = {p}
    Odd = {q}
    Text = {a, b}
    Malformed = {a}
    Canonical <- MCCanonical
    Writer = {w}
    Threshold = 1
    MaxClock = 3
    MaxStarts = 2
    None = None
    Sender = {"x", "y"}
    File <- MCFile
    MaxPiece = 2
    MaxCuts = 2
    Nothing = Nothing
    Card = {"c1", "c2", "c3"}
    Category <- MCCategory
    Slot <- MCSlot
    Proc = {p1, p2}
    Legacy = {"c1", "c2"}
    Plan <- MCPlan
    MaxFaults = 2
    MaxEdits = 1
    NoCard = NoCard
    User = {u, v}
    IdleSeconds = 3
    NoUser = NoUser
INVARIANTS
    StaleTells
    WholeFile
    ImportsSound
PROPERTIES
    WatchCatchesUp
    IdleFreed
CONSTRAINTS
    ArrivalsOld
CHECK_DEADLOCK FALSE
