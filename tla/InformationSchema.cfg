CONSTANTS
    s1 = s1
    s2 = s2
    db1 = db1
    Sessions = {s1, s2}
    NoSession = NoSession
    Dbs = {db1}
    DbOf <- SameDb
    NoDb = NoDb
    Tables = {t1, t2}
    Queries = {t1, "list", "all"}
    Cacheable = {t1}
    MaxStatements = 3
    MaxTransactions = 1
    MaxResets = 1
SPECIFICATION Spec
CHECK_DEADLOCK FALSE
INVARIANTS
    TypeOK
    WrongOnlyAfterUndoneRefresh
    StoredResultsAreCurrent
PROPERTIES
    CallsEnd
