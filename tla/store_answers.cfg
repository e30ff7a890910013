SPECIFICATION Spec
CONSTANTS
    Versions = {v1}
    Contents = {k1, k2}
    Admins = {a1}
    Clients = {c1}
    Inodes = {i1, i2, i3, i4}
    NoRow = NoRow
    NoTx = NoTx
    NoInode = NoInode
    NoVersion = NoVersion
    Partial = Partial
    Faults = {}
    MaxId = 2
    MaxCount = 1
INVARIANT AnswersTellOfTheRequest
CHECK_DEADLOCK FALSE
