SPECIFICATION FairSpec
CONSTANTS
    exe = exe
    lib = lib
    app = app
    Paths = {exe, lib}
    Nested = {lib}
    SelfNamed = {lib}
    Dirs = {app}
    NoDir = NoDir
    NoZip = NoZip
    Partial = Partial
    Missing = Missing
    Packages <- AllZips
    Windows = TRUE
    RetryCount = 2
    MaxRuns = 2
    Faults = {"open", "rename", "write", "remove", "die"}
INVARIANTS TypeOK HarmIsCounted SuccessMeansInstalled
PROPERTIES ImplementsInstallation UpdateEnds
CHECK_DEADLOCK FALSE
