SPECIFICATION Spec
CONSTANTS
    Base = 6
    IntBytes = 2
    LongMax = 107
    TempSize = 5
    MaxRowSize = 8
    Quote = 5
    MaxColumns = 3
    MaxData = 8
    MaxEdits = 1
    Names <- MCNames
    KeptName <- MCKeptName
    Lines <- MCLines
    NoSchema = NoSchema
    Schemas <- MCSchemas
    Edits <- MCEdits
    ValueLists <- MCValueLists
    Lists <- MCLists
    Wheres <- MCWheres
    NoFile = NoFile
INVARIANT PrintsOnlyThatId
CHECK_DEADLOCK FALSE
