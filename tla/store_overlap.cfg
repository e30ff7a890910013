SPECIFICATION Spec
CONSTANTS
    Versions = {v1}
    Contents = {k1, k2}
    Admins = {a1, a2}
    Clients = {}
    Inodes = {i1, i2}
    NoRow = NoRow
    NoTx = NoTx
    NoInode = NoInode
    NoVersion = NoVersion
    Partial = Partial
    Faults = {}
    MaxId = 1
    MaxCount = 1
INVARIANT RowHasFileAtRest
CHECK_DEADLOCK FALSE
