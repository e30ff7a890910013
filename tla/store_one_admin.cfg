SPECIFICATION Spec
CONSTANTS
    Versions = {v1, v2}
    Contents = {k1, k2}
    Admins = {a1}
    Clients = {c1}
    Inodes = {i1, i2, i3, i4}
    NoRow = NoRow
    NoTx = NoTx
    NoInode = NoInode
    NoVersion = NoVersion
    Partial = Partial
    Faults = {"write", "remove", "statement", "crash"}
    MaxId = 3
    MaxCount = 1
SYMMETRY Symmetry
VIEW Relevant
INVARIANTS TypeOK RowHasFile StreamsTheRow
PROPERTIES StatsStayWithTheRow ImplementsCatalog
CHECK_DEADLOCK FALSE
