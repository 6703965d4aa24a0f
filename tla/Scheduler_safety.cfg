SPECIFICATION SafeSpec
CONSTANTS
    Jobs = {"a", "c"}
    Resources = {"x"}
    Runs = {1, 2}
    NoJob = NoJob
    NoRun = NoRun
    Units <- UnitsA
    Capacity <- CapacityOne
    MaxAttempts <- TwiceC
    Timed = {}
    Broken = {}
    Conditional = {"c"}
    QueueCap = 1
    MaxFires <- TwiceEach
    MaxCrashes = 1
    MaxOverrides = 0
    OperatorStates = {"success"}
    Timer = {"a"}
    OneShot = {}
    Calendared = {"a"}
    Garbled = {}
    MaxRequests = 1
    MaxEdits = 0
INVARIANTS
    SchedulerTypeOK
    FireOnce
    ConditionSingle
ACTION_CONSTRAINT IdsInOrder
CHECK_DEADLOCK FALSE
