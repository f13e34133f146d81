\* Every input of up to five or six words against twelve rules.
CONSTANTS
    Rules <- MCRules
    Expression <- MCExpression
    ReportedExpression <- MCReportedExpression
    FalsePositives = {6}
    Candidates = {}
    Vocabulary <- MCVocabulary
    Stopwords = {"the"}
    Unknown = "x"
    RuleTokens <- MCRuleTokens
    RuleStopwords <- MCRuleStopwords
    Strict <- MCStrict
    Variable <- MCVariable
    KindOf <- MCKindOf
    Number <- MCNumber
    Hash <- MCHash
    Texts <- MCTexts
    Threshold = 3
    Limit = 6
    MinMatches = 2
    MinExpressions = 2
    MaxTokens = 1
    MaxDistance = 2
SPECIFICATION MSpec
INVARIANTS
    CollectionExact
    MatchesSound
    WholeInputRule
    ListsDropped
    ResultOrdered
