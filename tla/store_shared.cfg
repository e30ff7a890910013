SPECIFICATION FairSpec
CONSTANTS
    Versions = {v1}
    Contents = {k1}
    Admins = {a1, a2}
    Clients = {}
    Inodes = {i1, i2}
    NoRow = NoRow
    NoTx = NoTx
    NoInode = NoInode
    NoVersion = NoVersion
    Partial = Partial
    Faults = {"statement", "rollback", "select"}
    MaxId = 1
    MaxCount = 1
INVARIANT TransactionHasOwner
PROPERTY TransactionsEnd
CHECK_DEADLOCK FALSE
