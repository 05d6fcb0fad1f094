SPECIFICATION FairSpec
CONSTANTS
    Proc = {p1, p2}
    Viewer = {s}
    Chunk = {c}
    MaxJobs = 2
    MaxDigest = 2
INVARIANTS
    OneGeneration
    JobTruth
    OneVectorSpace
    Exclusive
PROPERTIES
    ImplementsActiveStore
    BusyEnds
