\* Windows of five and six seconds and pushes of up to one, with and without a
\* cap, in every mode.
CONSTANTS
    Windows = {0, 5, 6}
    Caps = {0, 7}
    PushLimit = 1
    Horizon = 17
SPECIFICATION Spec
INVARIANTS
    TypeOK
    WatchedWorkSurvives
    StalledIsKilled
    CapHolds
