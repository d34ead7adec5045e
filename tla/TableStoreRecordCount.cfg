SPECIFICATION Spec
CONSTANTS
    p1 = p1
    p2 = p2
    users = users
    orders = orders
    ghost = ghost
    noid = noid
    Procs = {p1}
    Tables = {users}
    Schemas = {users}
    IdTables = {users}
    Payloads = {7}
    Ids = {1}
    NoFile = NoFile
    NoTable = NoTable
    InitialFiles <- MCShortFiles
    MaxWords = 6
    MaxFaults = 1
INVARIANTS
    RecordCountIsRowCount
