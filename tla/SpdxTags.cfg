\* Up to three tags against up to two rule matches.
CONSTANTS
    Texts <- MCTexts
    Found <- MCFound
    MaxBytes = 4
    Expressions = {"mit"}
    None = None
SPECIFICATION Spec
INVARIANTS
    DeclarationsExact
    DeclarationsStated
    NoComponentLeft
