SPECIFICATION FairSpec
CONSTANTS
    p1 = p1
    p2 = p2
    users = users
    orders = orders
    ghost = ghost
    noid = noid
    Procs = {p1}
    Tables = {users, orders, ghost, noid}
    Schemas = {users, orders, noid}
    IdTables = {users, orders}
    Payloads = {7}
    Ids = {0, 1, 2, 4}
    NoFile = NoFile
    NoTable = NoTable
    InitialFiles <- MCShortFiles
    MaxWords = 6
    MaxFaults = 0
INVARIANTS
    TypeOK
    DenseIds
    IndexAgrees
    SelectsRight
    FailsOnlyWithoutFile
    SuccessLogsItsPath
PROPERTIES
    StatementsEnd
