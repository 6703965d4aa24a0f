SPECIFICATION Spec
CONSTANTS
    MaxExp = 3
    MaxWord = 31
    None = None
    Absent = Absent
    TimeKind <- TimeKindOf
    Jobs = {"x", "y"}
    Day = 4
    Names = {"a", "b"}
    Keys = {"job_type", "command", "n_retrys", "kill_job"}
    Values = {"c", "x", "few"}
INVARIANTS
    ParserAgrees
    BlocksAgree
    CycleFound
    ForwardOnly
CHECK_DEADLOCK FALSE
