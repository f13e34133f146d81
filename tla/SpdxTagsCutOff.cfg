\* A rule match that begins in a tag cut off by the limit.
CONSTANTS
    Texts <- MCTexts
    Found <- MCFound
    MaxBytes = 4
    Expressions = {"mit"}
    None = None
SPECIFICATION Spec
INVARIANTS
    DeclarationsPreserved
