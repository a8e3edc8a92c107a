\* Two gates of one session, the second opened while an answer to the first
\* is on its way.
CONSTANTS
    s1 = s1
    Gates = {g1, g2}
    StepGates = {g2}
    Sessions = {s1}
    SessionOf <- TheSession
    Answers = {a1}
    NoGate = NoGate
SPECIFICATION Spec
INVARIANT UnansweredNeverRuns
CHECK_DEADLOCK FALSE
