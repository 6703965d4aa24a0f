SPECIFICATION Spec
CONSTANTS
    NoCode = NoCode
    Codes = {0}
    MaxExitSuccess = 0
    FailCodes = {}
    ConditionCode = 9
    ChanCap = 1
    ReadMax = 1
    LogCap = 2
    FetchLimit = 1
    FromSeqs = {0}
    OperatorStates = {"success"}
    MaxWrites <- OneAndOne
    MaxOverrides = 1
PROPERTIES
    RunEnds
    TailEnds
CHECK_DEADLOCK FALSE
