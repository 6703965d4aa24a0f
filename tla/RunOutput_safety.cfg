SPECIFICATION SafeSpec
CONSTANTS
    NoCode = NoCode
    Codes = {0, 1}
    MaxExitSuccess = 0
    FailCodes = {}
    ConditionCode = 9
    ChanCap = 1
    ReadMax = 2
    LogCap = 2
    FetchLimit = 2
    FromSeqs = {0, 1}
    OperatorStates = {"success"}
    MaxWrites <- TwoAndOne
    MaxOverrides = 0
INVARIANTS
    OutputTypeOK
    RowsArePrefix
    LogComplete
    PluginVerdict
    TailInOrder
CHECK_DEADLOCK FALSE
