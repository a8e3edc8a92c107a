\* Two chats, two /hold and a /go for two workers, in step mode until a restart;
\* two threads that announce and one that stops; two /model commands and a
\* restart between; the proxy with its
\* default ratio of 30, 30 and 90 seconds; a hook whose clocks are aligned, and
\* Jev's numbers on both sides of every threshold.
CONSTANTS
    chat1 = chat1
    chat2 = chat2
    hold1 = hold1
    hold2 = hold2
    go1 = go1
    Messages = {chat1, chat2, hold1, hold2, go1}
    Kind <- TheKind
    Workers = 2
    HoldLimit = 1
    StepModes = {TRUE}
    Callers = {c1, c2}
    Stoppers = {s1}
    Cadences = {20}
    EnvInterval = 20
    MaxTimers = 2
    Nobody = Nobody
    Commands = {k1, k2}
    Models = {p1, p2}
    Default = Default
    EnvModel = p1
    Torn = Torn
    Unlocked = Unlocked
    MaxRestarts = 1
    MaxBoots = 1
    Interval = 3
    MaxAge = 3
    WatchdogSec = 9
    Jumps <- TheJumps
    Modes = {"off", "hint_only", "allow_benign", "benign"}
    Floors = {60, 101, NotANumber}
    Yolos = {0, 1}
    Confidences = {59, 60, 90, 170, Absent, Yes}
    Risks <- TheRisks
    Absent = Absent
    NotANumber = NotANumber
    Yes = Yes
    No = No
    TriageTimeout = 1
    ApprovalTimeout = 2
    GateTimeout = 4
    HookTimeout = 6
    Lag = 1
SPECIFICATION FairSpec
INVARIANTS
    TypeOK
    HoldIsBounded
    LoopsReachable
    StopIsFinal
    TimerRuns
    PinsAgree
    PinSurvives
    
    
    RunsByConsent
    RefusalIsMeant
    VerdictMonotone
    ClocksAligned
PROPERTIES
    EveryMessageHandled
    StoppedLoopsEnd
\* The process may be gone for good, the unit be stopped.
CHECK_DEADLOCK FALSE
