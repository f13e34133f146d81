\* Spans of up to ten tokens whose overlaps fall on both sides of the ratios.
CONSTANTS
    Rules = {1, 2, 3}
    Expression <- MCExpression
    FalsePositives = {3}
    Candidates <- MCCandidates
    Points = {0, 3, 7, 10, 14}
    MorePoints = {0, 3, 5, 6, 9, 15}
SPECIFICATION Spec
INVARIANTS
    NoneContained
    NothingUncovered
    RestoredExactly
