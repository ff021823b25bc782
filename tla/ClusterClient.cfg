SPECIFICATION FairSpec
CONSTANTS
    Asks = {p, q}
    Tells = {t}
    Nodes = {m, n}
    NoCall = NoCall
    MaxClears = 1
INVARIANTS TypeOK ReusesConnections GoesToNode
PROPERTIES FailureIsForgotten EveryCallEnds
CHECK_DEADLOCK FALSE
