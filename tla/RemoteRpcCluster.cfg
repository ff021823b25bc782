SPECIFICATION Spec
CONSTANTS
    PlainAsks = {a1, a2}
    TimedAsks = {b1}
    Tells = {t1}
    NoRequest = NoRequest
    UniqueIds = FALSE
    CmdCapacity = 1
    WireCapacity = 1
INVARIANTS AnswersMatch
CHECK_DEADLOCK FALSE
