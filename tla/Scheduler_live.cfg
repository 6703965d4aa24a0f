SPECIFICATION Spec
CONSTANTS
    Jobs = {"a", "b", "g"}
    Resources = {"x"}
    Runs = {1, 2, 3, 4}
    NoJob = NoJob
    NoRun = NoRun
    Units <- UnitsAB
    Capacity <- CapacityOne
    MaxAttempts <- OnceEach
    Timed = {"a", "b", "g"}
    Broken = {}
    Conditional = {}
    QueueCap = 4
    MaxFires <- TwiceAB
    MaxCrashes = 0
    MaxOverrides = 0
    OperatorStates = {"success"}
    Timer = {"a", "g"}
    OneShot = {"b"}
    Calendared = {}
    Garbled = {"g"}
    MaxRequests = 1
    MaxEdits = 1
PROPERTIES
    DueServed
ACTION_CONSTRAINT LiveStep
CHECK_DEADLOCK FALSE
