SPECIFICATION FairSpec
CONSTANTS
    MaxRooms = 2
    MaxCopies = 3
    MaxCloses = 1
CHECK_DEADLOCK FALSE
INVARIANTS
    InvitationIsTracked
PROPERTIES
    InvitationLeaves
