SPECIFICATION DisjointSpec
CONSTANTS
    Versions = {v1, v2}
    Contents = {k1, k2}
    Admins = {a1, a2}
    Clients = {c1}
    Inodes = {i1, i2, i3, i4}
    NoRow = NoRow
    NoTx = NoTx
    NoInode = NoInode
    NoVersion = NoVersion
    Partial = Partial
    Faults = {"write", "remove"}
    MaxId = 2
    MaxCount = 1
SYMMETRY Symmetry
VIEW Relevant
INVARIANTS RowHasFile CountCoversLogs
PROPERTY StoredWhenAcknowledged
CHECK_DEADLOCK FALSE
