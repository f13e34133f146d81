\* Two workers and up to three tasks: the report, the conservation of tasks
\* and termination.
CONSTANTS
    Expressions <- MCExpressions
    IdentificationOf <- MCIdentificationOf
    IncludeLegalFiles = TRUE
    Discoveries <- MCDiscoveries
    Requested = 3
    MaxWorkers = 2
SPECIFICATION Spec
INVARIANTS
    TypeOK
    TasksConserved
    ReturnedComplete
    NoGoroutineLeft
PROPERTIES
    Terminates
    ImplementsContract
