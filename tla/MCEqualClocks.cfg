\* The alignment that the documentation recommends: 480, 480 and 490 seconds.
CONSTANTS
    Modes = {"off"}
    Floors = {60}
    Yolos = {0}
    Confidences = {60}
    Risks = {20}
    Absent = Absent
    NotANumber = NotANumber
    Yes = Yes
    No = No
    TriageTimeout = 0
    ApprovalTimeout = 48
    GateTimeout = 48
    HookTimeout = 49
    Lag = 1
SPECIFICATION HookSpec
INVARIANT SilenceIsNoFailure
CHECK_DEADLOCK FALSE
