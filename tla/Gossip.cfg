SPECIFICATION FairSpec
CONSTANTS
    a = a  b = b  c = c  x = x
    Nodes = {a, b, c}
    Actors = {x}
    Hosts <- MCHosts
    Gossipers = {a}
    Seeds <- MCSeeds
    SuspectTimeout = 1
    MaxInputs = 2
INVARIANTS TypeOK DownIsEarned DirectoryIsTrue
PROPERTIES LocationsAreKept DownIsForGood FailureIsDetected ActorsAreFound
CHECK_DEADLOCK FALSE
