CONSTANTS
    NoConn = NoConn
    Conns = {c1}
    MaxRooms = 1
    MaxGeneration = 0
    MaxFrames = 1
    InboxLimit = 2
    PollBatch = 1
    Modes = {"host"}
    ListenerMayStall = FALSE
    FailingStarts = {}
SPECIFICATION Spec
INVARIANTS
    ChatIsPeerText
