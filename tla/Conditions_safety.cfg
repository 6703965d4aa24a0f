SPECIFICATION Spec
CONSTANTS
    Jobs = {"a"}
    Globals = {"day"}
    Triggers <- Triggers1
    Exprs <- Exprs1
    Node <- Node1
    Outcomes <- Ends
    PerJobHistory = 1
    MaxSpan = 5
    NoWindow = NoWindow
    NoTime = NoTime
    NoCode = NoCode
    NoRun = NoRun
    MaxRuns <- RunsOf
    MaxTime = 2
INVARIANTS
    TypeOK
    AnswerWasTrue
    UnknownNeverFires
ACTION_CONSTRAINT NothingLate
CHECK_DEADLOCK FALSE
