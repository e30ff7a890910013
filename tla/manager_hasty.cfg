SPECIFICATION FairSpec
CONSTANTS
    v1 = v1
    v2 = v2
    Versions = {v1}
    Lists <- OneList
    Version = Version
    Description = Description
    Columns = {Version, Description}
    Key <- Keys
    None = None
    Threads = {d1, d2}
    Updaters = {u1}
    Haste = {"announce", "update", "restart"}
    MaxChecks = 1
    MaxRestarts = 1
INVARIANTS OneDownload
PROPERTIES ButtonsComeBack
