SPECIFICATION ExtractionSpec
CONSTANTS
    Chunk = {1, 2, 3}
    Version = {a, p}
    Poison = {p}
    MaxBatch = 1
    MaxLate = 1
    MaxWrites = 1
    MaxFaults = 1
    None = None
    Proc = {t}
    BatchSize = 1
    Retries = 1
    Tolerated = 2
    MaxBatches = 1
    MaxRuns = 2
    RunWrites = 2
INVARIANTS
    NothingHidden
    SelectionStored
PROPERTIES
    WorkerExtracts
    RetriesRetired
    CompletedCovers
    EverExtracted
