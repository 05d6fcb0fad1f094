SPECIFICATION ServingSpec
CONSTANTS
    a = a
    x = x
    Name <- MCName
    Space = {g, x, y}
    Global = g
    MaxConcepts = 3
    MaxId = 4
    Row <- MCRow
    Mention <- MCMention
    Readable = {"open"}
    Requests <- MCRequests
    MaxNodes = 3
    Limit = 2
    MaxWrites = 1
    ann = ann
    bob = bob
    team = team
    Person = {ann, bob}
    Group = {team}
    Anyone = anyone
    Resource <- MCResource
    Policy <- MCPolicy
    Broken = broken
    Thread = {t1, t2}
    MaxEdits = 2
    None = none
    Chunk = {"a1", "a2", "a3", "b1"}
    Doc <- MCDoc
    Canonical <- MCCanonicalId
    Version <- MCVersion
    Rankings <- MCRankings
    Calls <- MCCalls
    TopK = 3
    MaxPerDoc = 2
    MaxQueries = 2
    RerankScores <- MCRerankScores
    Tenths = {0, 3}
    Unit <- MCUnit
    Alphabet <- MCAlphabet
    MaxLines = 5
    ChunkSize = 4
    ChunkOverlap = 1
    TinyBelow = 2
    Client = {c1, c2}
    Medium = {1, 2}
    Audio = {2}
    Content = {"short", "long"}
    Parts <- MCParts
    Page = 1
    MaxChanges = 1
    MaxFailures = 1
    Gone = gone
SYMMETRY Alike
INVARIANTS
    LookupAgrees
    NeighbourhoodExact
    ChainsExact
    FilterExact
    PolicyFresh
    ChunksFaithful
    MediaExact
PROPERTIES
    NamesKept
    CurationFollows
    RankingFair
CHECK_DEADLOCK FALSE
