SPECIFICATION Spec
CONSTANTS
    p1 = p1
    p2 = p2
    users = users
    orders = orders
    ghost = ghost
    noid = noid
    Procs = {p1, p2}
    Tables = {users}
    Schemas = {users}
    IdTables = {users}
    Payloads = {7, 8}
    Ids = {2}
    NoFile = NoFile
    NoTable = NoTable
    InitialFiles <- MCShortFiles
    MaxWords = 4
    MaxFaults = 0
INVARIANTS
    IndexWithinFile
    IdsWithoutGaps
    AckedRowStored
