SPECIFICATION Spec
CONSTANTS
    MaxTokens = 14
    MaxFailures = 2
INVARIANTS
    TypeOK
    BlocksFreedOnce
    AcceptsGrammar
    NoSilentFailure
    TreeSpellsStatement
    TreeServesExecutor
