SPECIFICATION FairSpec
CONSTANTS
    Sends = {s1, s2}
    TimedSends = {t1}
    DoSends = {d1}
    TrySends = {y1}
    NoRequest = NoRequest
    Capacity = 2
INVARIANTS TypeOK InOrder NoLostWakeup
PROPERTIES KeepsContract EveryCallReturns
CHECK_DEADLOCK FALSE
