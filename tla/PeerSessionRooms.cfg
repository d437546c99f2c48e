CONSTANTS
    NoConn = NoConn
    Conns = {c1, c2}
    MaxRooms = 2
    MaxGeneration = 0
    MaxFrames = 0
    InboxLimit = 1
    PollBatch = 1
    Modes = {"guest","host"}
    ListenerMayStall = TRUE
    FailingStarts = {"listener","handler"}
SPECIFICATION Spec
SYMMETRY Symmetry
INVARIANTS
    PeerCountIsTrue
    NoSocketLeak
    SlotIsServed
