CONSTANTS
    s1 = s1
    s2 = s2
    a = a
    b = b
    x = x
    Sessions = {s1, s2}
    NoSession = NoSession
    Codes = {a, b}
    Refs = {x}
    Null = Null
    Default = Default
    Implicit = Implicit
    ImplicitDefaults = FALSE
    ExplicitIds = {2, 4}
    SeedRows <- TwoRows
    MaxId = 4
    MaxRows = 2
SPECIFICATION Spec
SYMMETRY Interchangeable
CHECK_DEADLOCK FALSE
INVARIANTS
    TypeOK
    RowAsInMySQL
    FreshUnlessRaced
    AllocationCoversTable
