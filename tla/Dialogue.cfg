CONSTANTS
    SeqNumbers = 4
    ta = ta
    tb = tb
    Types <- MCTypes
    Unbound = Unbound
    MaxColumns = 2
    MaxRows = 2
    MaxParams = 2
    MaxPieces = 1
    MaxPrepares = 2
    MaxCommands = 4
SPECIFICATION Spec
CHECK_DEADLOCK FALSE
INVARIANTS
    TypeOK
    ClientFollows
    InStepWhenIdle
    StatementsAgree
PROPERTIES
    NobodyIsLeftWaiting
