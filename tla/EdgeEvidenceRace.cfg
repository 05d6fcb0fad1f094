SPECIFICATION Spec
CONSTANTS
    Concept = {1, 2, 3}
    Chunk = {c1, c2}
    Asserted <- MCAsserted
    Overtaken <- MCOvertaken
    LegacyEdge <- MCLegacyEdge
    MaxRows = 2
    MaxMerges = 1
    None = None
PROPERTIES
    RelationsKept
