SPECIFICATION FairSpec
CONSTANTS
    Kinds <- SmallKinds
    HandshakeFrames = 1
    Chunk = 2
    MaxHandshake = 2
    MaxApplication = 3
    MaxFrame = 4
    Second = 3
    RateFrames = 2
    RateBytes = 4
    QueueMessages = 2
    QueueBytes = 5
    ItemBytes = 3
    PollMessages = 2
    PollBytes = 3
    NoticeBytes = 1
    MaxFrames = 4
    MaxTime = 3
CHECK_DEADLOCK FALSE
INVARIANTS
    BytesAreCounted
    EndIsTrue
    RateIsBounded
PROPERTIES
    ImplementsChannel
    TextsArrive
