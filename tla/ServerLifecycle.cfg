CONSTANTS
    Clients = {c1, c2, c3}
    DriverConns = {k1, k2}
    LockNames = {migration}
    NoConn = NoConn
    NoOwner = NoOwner
    MaxSessions = 3
SPECIFICATION FairSpec
INVARIANTS
    TypeOK
    BackendOutlivesHandlers
    CloseIsFinal
    LockOwnerServing
PROPERTIES
    CloseReturns
    WaitingMeansBusy
    ImplementsLease
CHECK_DEADLOCK FALSE
