SPECIFICATION Spec
CONSTANTS
    Actors = {a1, a2, a3}
    Tops = {a1, a2, a3}
    NoActor = NoActor
    UserMsg = UserMsg
    Strategies = {"Stop", "Restart", "Escalate"}
    Capacity = 1
    MaxRestarts = 1
    MaxInputs = 2
    HookPanics = TRUE
    StoppedSpawns = FALSE
SYMMETRY Symmetry
INVARIANTS TypeOK TerminatedIsFinal NoOrphans EscalationIsCurrent
CHECK_DEADLOCK FALSE
