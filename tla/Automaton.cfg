\* Three patterns of two tokens, inputs of four tokens.
CONSTANTS
    PatternSets <- MCPatternSets
    Tokens = {1, 2, 3}
    MaxInput = 4
    WordBits = 2
    None = None
SPECIFICATION Spec
INVARIANTS
    BuiltExact
    RestoredAsBuilt
    OutputsExact
