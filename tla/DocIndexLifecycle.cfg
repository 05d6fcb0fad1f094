SPECIFICATION Spec
CONSTANTS
    Doc = {1, 2}
    Managed = {1}
    Converted = {2}
    Writer = {w1}
    Text = {a, b}
    Stamp = {m, n}
    MaxSlots = 2
    MayFail = FALSE
    None = None
CONSTRAINT Bounded
INVARIANTS
    RowsOwed
PROPERTIES
    ArchiveFollows
