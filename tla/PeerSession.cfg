CONSTANTS
    NoConn = NoConn
    Conns = {c1, c2}
    MaxRooms = 1
    MaxGeneration = 1
    MaxFrames = 2
    InboxLimit = 1
    PollBatch = 1
    Modes = {"host", "guest"}
    ListenerMayStall = FALSE
    FailingStarts = {"guest"}
SPECIFICATION Spec
SYMMETRY Symmetry
INVARIANTS
    TypeOK
    SessionBelongsToOwner
    VerifiedByBoth
    TextOnlyFromVerified
    SentUnderOwnBox
    OneAnnouncement
    NoTextFromClosedRoom
PROPERTIES
    OnlyOwnThreadEndsSession
