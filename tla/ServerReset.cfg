CONSTANTS
    Clients = {c1, c2}
    Keys = {r1, r2, r3}
    Seed = {r1, r2}
    Schemas <- PlainOrTriggered
    Habits = {"deadline", "ddl"}
    Nobody = Nobody
    Server = Server
    MaxResets = 3
SPECIFICATION Spec
SYMMETRY Interchangeable
INVARIANTS
    TypeOK
    NothingLeftOpen
PROPERTIES
    
    NoHalfReset
    ResetRecovers
CHECK_DEADLOCK FALSE
