SPECIFICATION TimedFairSpec
CONSTANTS
    Actors = {a1, a2}
    Tops = {a1}
    NoActor = NoActor
    UserMsg = UserMsg
    Strategies = {"Stop", "Restart", "Escalate"}
    Capacity = 1
    MaxRestarts = 2
    Within = 1
    MaxInputs = 3
    HookPanics = TRUE
    StoppedSpawns = FALSE
PROPERTIES RestartsFollowWindow StopIsObeyed EscalationIsObeyed ChildStopsWithParent
CHECK_DEADLOCK FALSE
