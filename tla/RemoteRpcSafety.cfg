SPECIFICATION Spec
CONSTANTS
    PlainAsks = {a1, a2}
    TimedAsks = {b1}
    Tells = {t1}
    NoRequest = NoRequest
    UniqueIds = TRUE
    CmdCapacity = 1
    WireCapacity = 1
INVARIANTS TypeOK AnswersMatch NoForgottenCaller DeadlockIsGridlock
PROPERTIES KeepsContract
SYMMETRY Symmetry
CHECK_DEADLOCK FALSE
