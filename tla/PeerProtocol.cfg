SPECIFICATION FairSpec
CONSTANTS
    MaxConns = 2
    MaxConfirms = 1
    MaxMessages = 1
CHECK_DEADLOCK FALSE
INVARIANTS
    SafetyCodeIsShared
    VerifiedIsMutual
    NoUnexpectedFrame
PROPERTIES
    BothConfirmedVerify
