SPECIFICATION PipeSafe
CONSTANTS
    Jobs = {"a", "b"}
    Resources = {"x"}
    Runs = {1, 2, 3}
    NoJob = NoJob
    NoRun = NoRun
    Units <- UnitsBoth
    Capacity <- CapacityTwo
    MaxAttempts <- TwiceA
    Timed = {"a"}
    Broken = {"b"}
    Conditional = {"b"}
    QueueCap = 1
    MaxFires <- OnceEach
    MaxCrashes = 1
    MaxOverrides = 1
    OperatorStates = {"success"}
INVARIANTS
    TypeOK
    CapacityRespected
    IntentOnce
    ClaimsHeld
    HoldsAccounted
    RetryChain
    RowTellsOutcome
    KillReaches
PROPERTIES
    ImplementsLife
CONSTRAINT OneUpset
ACTION_CONSTRAINT IdsInOrder
CHECK_DEADLOCK FALSE
