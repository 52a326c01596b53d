CONSTANTS
    Clients = {c1, c2}
    DriverConns = {k1, k2}
    Savepoints = {sp}
    Begun = Begun
    NoConn = NoConn
    Shared = TRUE
    SharedDb = SharedDb
    Habits = {}
    MaxId = 4
    MaxFrames = 3
SPECIFICATION Spec
SYMMETRY Interchangeable
INVARIANTS
    TypeOK
    FlagTracksTransaction
    AckedOutsideIsDurable
PROPERTIES
    NoReuseUnlessRaced
