SPECIFICATION FairSpec
CONSTANTS
    PlainAsks = {a1}
    TimedAsks = {b1}
    Tells = {t1}
    NoRequest = NoRequest
    UniqueIds = TRUE
    CmdCapacity = 1
    WireCapacity = 1
PROPERTIES AnsweredUnlessStuck LossIsReported
CHECK_DEADLOCK FALSE
