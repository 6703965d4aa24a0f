SPECIFICATION PipeSafe
CONSTANTS
    Jobs = {"a", "b"}
    Resources = {"x"}
    Runs = {1, 2, 3}
    NoJob = NoJob
    NoRun = NoRun
    Units <- UnitsBoth
    Capacity <- CapacityTwo
    MaxAttempts <- TwiceA
    Timed = {"a"}
    Broken = {"b"}
    Conditional = {"b"}
    QueueCap = 1
    MaxFires <- OnceEach
    MaxCrashes = 0
    MaxOverrides = 0
    OperatorStates = {"success", "failed"}
INVARIANTS
    NoOversubscription
ACTION_CONSTRAINT IdsInOrder
CHECK_DEADLOCK FALSE
