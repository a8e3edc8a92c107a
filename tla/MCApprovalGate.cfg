\* Two overlapping gates of one session, one of each kind of client, and an
\* operator who answers as often as wanted, or not at all.
CONSTANTS
    s1 = s1
    Gates = {g1, g2}
    StepGates = {g2}
    Sessions = {s1}
    SessionOf <- TheSession
    Answers = {a1}
    NoGate = NoGate
SPECIFICATION FairSpec
INVARIANTS
    TypeOK
    NoPhantomGate
    ApprovedInItsTime
PROPERTIES
    ImplementsPermits
    EveryGateCloses
\* Both requests may be over.
CHECK_DEADLOCK FALSE
