CONSTANTS
    s1 = s1
    s2 = s2
    Sessions = {s1, s2}
    Texts <- AllTexts
    NoText = "none"
    Normal <- NormalForm
    Covers <- FoundIn
    Inputs <- Sent
    AnyArgs = AnyArgs
    Null = Null
    Repr <- Printed
    Route <- Where
    ConfigFiles <- Files
    MaxQueries = 2
    MaxResets = 1
SPECIFICATION Spec
CHECK_DEADLOCK FALSE
INVARIANTS
    TypeOK
    FirstUnlessUsed
    AnsweredIsRecorded
PROPERTIES
    QueriesEnd
