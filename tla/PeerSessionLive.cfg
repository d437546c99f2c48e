CONSTANTS
    NoConn = NoConn
    Conns = {c1}
    MaxRooms = 2
    MaxGeneration = 1
    MaxFrames = 1
    InboxLimit = 1
    PollBatch = 1
    Modes = {"host", "guest"}
    ListenerMayStall = TRUE
    FailingStarts = {"guest"}
SPECIFICATION FairSpec
PROPERTIES
    StaleSessionEnds
    ClaimSettles
    BothConfirmedIsVerified
    CloseEnds
