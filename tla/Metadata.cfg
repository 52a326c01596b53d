CONSTANTS
    t = t
    u = u
    i = i
    Sessions = {s1, s2}
    Tables = {t, u}
    IndexNames = {i}
    Scripts <- SomeScripts
    Remade <- SomeRemade
    NoTable = NoTable
    MaxResets = 2
    MaxDDLs = 1
    MaxLookups = 2
SPECIFICATION Spec
SYMMETRY Interchangeable
CHECK_DEADLOCK FALSE
INVARIANTS
    TypeOK
    CacheCurrent
    MetadataFollowsSchema
