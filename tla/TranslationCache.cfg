CONSTANTS
    Translators = {s1, s2, s3}
    Matching = {q1, q2}
    Others = {o1}
    Malformed = {m1}
    Limit = 2
    MaxCalls = 6
SPECIFICATION TranslationSpec
SYMMETRY Interchangeable
CHECK_DEADLOCK FALSE
INVARIANTS
    TranslationTypeOK
PROPERTIES
    AnswersAreFresh
