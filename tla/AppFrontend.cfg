SPECIFICATION FairSpec
CONSTANTS
    MaxInFlight = 2
    MaxCommands = 3
    MaxEvents = 2
    MaxTexts = 2
    MaxDrafts = 1
    InboxLimit = 2
    PollBatch = 1
    HistoryLimit = 2
CHECK_DEADLOCK FALSE
INVARIANTS
    PeerTextsInOrder
    BubbleWasSent
    VerifiedShownIsTrue
PROPERTIES
    DisplayConverges
