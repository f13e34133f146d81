\* Every limit around the boundaries, two concurrent writes, and every text of
\* up to four units, with up to two matches.
CONSTANTS
    MaxInt = 15
    Probe = 3
    Preallocate = 5
    Files <- MCFiles
    Maxima <- MCMaxima
    Sizes <- FileSize
    MaxWrites = 2
    Contents <- MCContents
    Paths <- MCPaths
    Plans <- MCPlans
SPECIFICATION FSpec
INVARIANTS
    MemoryGuard
    WholeFileRead
    OffsetsExact
    PolicyExact
    CoverageExact
    RecordExact
