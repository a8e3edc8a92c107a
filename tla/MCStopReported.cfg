\* Two concurrent messages and one /stop.
CONSTANTS
    Chats = {c1, c2}
    Stoppers = {s1}
    NoChat = NoChat
    NoRun = NoRun
SPECIFICATION Spec
PROPERTY StopReportedHonestly
CHECK_DEADLOCK FALSE
