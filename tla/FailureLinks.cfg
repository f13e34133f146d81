\* Every small binary trie, with one to three workers and levels of two edges
\* or more done in parallel.
CONSTANTS
    Tries <- MCTries
    MaxNodes = 7
    Processors = {1, 2, 3}
    ParallelEdges = 2
    None = None
SPECIFICATION Spec
INVARIANTS
    LinksCorrect
    NoDataRace
    ChannelsSuffice
