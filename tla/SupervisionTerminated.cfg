SPECIFICATION FairSpec
CONSTANTS
    Actors = {a1, a2}
    Tops = {a1}
    NoActor = NoActor
    UserMsg = UserMsg
    Strategies = {"Stop", "Restart", "Escalate"}
    Capacity = 1
    MaxRestarts = 1
    MaxInputs = 2
    HookPanics = FALSE
    StoppedSpawns = FALSE
PROPERTY ParentHearsTerminated
CHECK_DEADLOCK FALSE
