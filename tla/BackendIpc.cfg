SPECIFICATION FairSpec
CONSTANTS
    Callers = {t1, t2}
    Main = Main
    MaxRequests = 3
    MaxSessions = 2
    MaxCrashes = 1
    Survivors = {1}
CHECK_DEADLOCK FALSE
INVARIANTS
    AnswerIsOwn
    OneBackend
PROPERTIES
    ImplementsCall
    CallReturns
    BackendEnds
