SPECIFICATION Spec
CONSTANTS
    MaxConns = 1
    MaxConfirms = 1
    MaxMessages = 1
CHECK_DEADLOCK FALSE
INVARIANTS
    SentIsAccepted
