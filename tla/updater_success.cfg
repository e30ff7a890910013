SPECIFICATION Spec
CONSTANTS
    exe = exe
    lib = lib
    app = app
    Paths = {exe, lib}
    Nested = {lib}
    SelfNamed = {lib}
    Dirs = {app}
    NoDir = NoDir
    NoZip = NoZip
    Partial = Partial
    Missing = Missing
    Packages <- OneZip
    Windows = TRUE
    RetryCount = 2
    MaxRuns = 2
    Faults = {"flush"}
INVARIANT SuccessMeansInstalled
CHECK_DEADLOCK FALSE
