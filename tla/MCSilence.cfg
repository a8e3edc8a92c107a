\* A plugin gate that nobody answers, after an answered one.
CONSTANTS
    s1 = s1
    Gates = {g1, g2}
    StepGates = {g2}
    Sessions = {s1}
    SessionOf <- TheSession
    Answers = {a1}
    NoGate = NoGate
SPECIFICATION Spec
PROPERTY SilenceIsTimeout
CHECK_DEADLOCK FALSE
