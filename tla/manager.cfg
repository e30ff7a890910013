SPECIFICATION FairSpec
CONSTANTS
    v1 = v1
    v2 = v2
    Versions = {v1, v2}
    Lists <- TwoLists
    Version = Version
    Description = Description
    Columns = {Version, Description}
    Key <- Keys
    None = None
    Threads = {d1, d2}
    Updaters = {u1, u2}
    Haste = {}
    MaxChecks = 2
    MaxRestarts = 1
INVARIANTS TypeOK InstalledIsVerified LogStays
PROPERTIES DownloadsTheSelected ImplementsUpdateCycle
