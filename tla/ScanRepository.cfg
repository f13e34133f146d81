\* The walk and the worker pool under one context, up to the exit status.
CONSTANTS
    Expressions <- MCExpressions
    IdentificationOf <- MCIdentificationOf
    IncludeLegalFiles = FALSE
    Trees <- MCTrees
    Options <- MCOptions
    Discoveries = {}
    Requested = 2
    MaxWorkers = 16
SPECIFICATION RSpec
INVARIANTS
    DiscoveryExact
    OneFate
    ReportAddsUp
    ExitStatusTrue
PROPERTIES
    CommandEnds
