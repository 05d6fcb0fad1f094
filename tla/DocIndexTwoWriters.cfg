SPECIFICATION Spec
CONSTANTS
    Doc = {1}
    Managed = {}
    Converted = {}
    Writer = {w1, w2}
    Text = {a, b}
    Stamp = {}
    MaxSlots = 2
    MayFail = FALSE
    None = None
INVARIANTS
    VecFaithful
