SPECIFICATION FairSpec
CONSTANTS
    MaxId = 12
    FirstIds = {3, 4, 5, 6}
    RepeatedId = 5
    MaxNodes = 12
    Order = 4
    MaxFailures = 1
    NULL = NULL
    Keys <- MCKeys
    Offsets <- MCOffsets
    Requests <- MCRequests
    Addr <- MCAddr
ACTION_CONSTRAINTS
    InsertsAscend
    SearchesLast
INVARIANTS
    TypeOK
    LeafChain
    NodesOwnedOnce
    Balanced
    OverfullByFailure
    SearchTree
PROPERTIES
    IsIdIndex
    CallsReturn
CHECK_DEADLOCK FALSE
