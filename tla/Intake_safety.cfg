SPECIFICATION Spec
CONSTANTS
    Hooks = {h1, h2}
    HookJob = "hooked"
    Bodies = {b1, b2, b3}
    Window = 2
    MaxEntries = 2
    FileJobs = {f1, f2}
    Paths = {"dir", "file"}
    Asks <- OnDirOrFile
    Parent <- DirOf
    None = None
    MaxTime = 3
    MaxHooks = 4
    MaxFileOps = 3
    MaxEdits = 2
    MaxCrashes = 1
INVARIANTS
    NothingOwed
    KernelFollows
PROPERTIES
    ReplayWindow
ACTION_CONSTRAINT OneSource
SYMMETRY Symmetry
CHECK_DEADLOCK FALSE
