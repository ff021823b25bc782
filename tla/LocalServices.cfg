SPECIFICATION FairSpec
CONSTANTS
    a = a
    Actors = {a, b}
    Names = {n}
    MaxRegistryCalls = 3
    Laters = {later}
    Intervals = {interval}
    Owner <- MCOwner
    Capacity = 1
INVARIANT CancelStops
PROPERTIES NamesAreFreed NamesAreKept TimersEnd LatersFire
CHECK_DEADLOCK FALSE
