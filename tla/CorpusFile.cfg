\* Two runs of corpusgen, up to two faults, and one load of what they leave.
CONSTANTS
    MaxRuleCount = 6
    MaxWordCount = 4
    MaxTokenCount = 5
    MaxNodeCount = 7
    AttributionOnly = {3}
    Sources <- MCSources
    Masks <- MCMasks
    Generators <- MCGenerators
    Jobs <- MCJobs
    Outputs <- MCOutputs
    MaxFaults = 2
SPECIFICATION Spec
INVARIANTS
    OutputWhole
    TemporaryGone
    LoadedAsBuilt
    KeysStable
