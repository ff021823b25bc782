SPECIFICATION FairSpec
CONSTANTS
    Streams = {r, s}
    MaxInputs = 4
INVARIANTS TypeOK SleepsWhenIdle
PROPERTIES StreamsAreHandled
CHECK_DEADLOCK FALSE
