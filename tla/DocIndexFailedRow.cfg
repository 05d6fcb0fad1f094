SPECIFICATION Spec
CONSTANTS
    Doc = {1}
    Managed = {1}
    Converted = {}
    Writer = {w1}
    Text = {a, b}
    Stamp = {m}
    MaxSlots = 1
    MayFail = TRUE
    None = None
INVARIANTS
    UnchangedRowsAreRight
