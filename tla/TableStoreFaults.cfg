SPECIFICATION Spec
CONSTANTS
    p1 = p1
    p2 = p2
    users = users
    orders = orders
    ghost = ghost
    noid = noid
    Procs = {p1}
    Tables = {users, orders}
    Schemas = {users, orders}
    IdTables = {users, orders}
    Payloads = {2}
    Ids = {2}
    NoFile = NoFile
    NoTable = NoTable
    InitialFiles <- MCForeignFiles
    MaxWords = 6
    MaxFaults = 1
INVARIANTS
    FaultsStayInTable
    ScanPrintsBeginning
    IndexCoversFile
    AckedOnlyIfDistinct
