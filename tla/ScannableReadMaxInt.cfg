\* The largest limit validateScanOptions accepts.
CONSTANTS
    MaxInt = 7
    Probe = 3
    Preallocate = 5
    Files <- MCFiles
    Maxima <- OnlyMaxInt
    Sizes <- FileSize
    MaxWrites = 0
SPECIFICATION Spec
INVARIANTS
    WholeFileRead
