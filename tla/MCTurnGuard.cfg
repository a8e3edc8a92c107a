\* Two concurrent messages, each with a possible retry, and an operator who
\* sends /stop as often as wanted.
CONSTANTS
    Chats = {c1, c2}
    Stoppers = {s1}
    NoChat = NoChat
    NoRun = NoRun
SPECIFICATION Spec
SYMMETRY ChatSymmetry
INVARIANTS
    TypeOK
    OneTurnAtATime
    StopIsEffective
\* Nothing happens once both messages are answered.
CHECK_DEADLOCK FALSE
