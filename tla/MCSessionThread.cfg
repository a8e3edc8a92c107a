\* Two messages, the second in step mode, one /new and one restart.
CONSTANTS
    a = a
    b = b
    Calls = {a, b}
    Stepped = {b}
    NoCall = NoCall
    MaxNames = 2
    MaxSessions = 2
    MaxRows = 4
    MaxRestarts = 1
SPECIFICATION Spec
CHECK_DEADLOCK FALSE
INVARIANTS
    TypeOK
    RecapIsOwn
    WatchedIsOwn
    ThreadContinues
    NewIsFinal
    PinnedIsOurs
