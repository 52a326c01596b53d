CONSTANTS
    Clients = {c1, c2}
    DriverConns = {k1, k2}
    Savepoints = {sp}
    Begun = Begun
    NoConn = NoConn
    Shared = TRUE
    SharedDb = SharedDb
    Habits = {"abandon"}
    MaxId = 3
    MaxFrames = 2
SPECIFICATION Spec
INVARIANTS
    FlagTracksTransaction
