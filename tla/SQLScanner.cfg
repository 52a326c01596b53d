CONSTANTS
    Beginnings <- Few
    Pieces <- SomePieces
    MaxPieces = 5
SPECIFICATION ScannerSpec
CHECK_DEADLOCK FALSE
INVARIANTS
    ArgumentsReachTheirRows
    PartsStandAlone
