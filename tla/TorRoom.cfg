SPECIFICATION FairSpec
CONSTANTS
    MaxTors = 3
    MaxRooms = 3
    MaxFaults = 2
CHECK_DEADLOCK FALSE
INVARIANTS
    RouteIsTrue
    NothingLeaks
    NothingIsLeft
PROPERTIES
    RoomIsNotReplaced
    OldListenersEnd
