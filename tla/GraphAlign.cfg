SPECIFICATION Spec
CONSTANTS
    Doc = {1}
    Proc = {p1, p2}
    Text = {a, b}
    MaxSlots = 3
    Window = FALSE
    MayFail = TRUE
    None = None
SYMMETRY Interchangeable
CONSTRAINT Bounded
INVARIANTS
    MarksBacked
    CountsExact
    Faithful
PROPERTIES
    MentionsFollow
