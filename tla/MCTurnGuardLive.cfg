\* Two concurrent messages that nobody stops.
CONSTANTS
    Chats = {c1, c2}
    Stoppers = {}
    NoChat = NoChat
    NoRun = NoRun
SPECIFICATION FairSpec
PROPERTIES
    EveryChatAnswered
    ImplementsService
\* Nothing happens once both messages are answered.
CHECK_DEADLOCK FALSE
