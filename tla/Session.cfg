SPECIFICATION Observed
CONSTANTS
    Spaces <- MCSpaces
    Digits = {"1"}
    Letters <- MCLetters
    Singles <- MCSingles
    SingleType <- MCSingleType
    Upper <- MCUpper
    Keywords <- MCKeywords
    MaxFailures = 1
    Files <- MCFiles
    Prompts <- MCPrompts
    Width = 8
    LogWidth = 6
    StopWords <- MCStopWords
    LogPath <- MCLogPath
    DefaultSchema <- MCDefaultSchema
    NoTable = NoTable
INVARIANTS
    TypeOK
    NoLeak
    LexesByLongestMatch
    LogTellsStatements
PROPERTIES
    IsScript
CHECK_DEADLOCK FALSE
