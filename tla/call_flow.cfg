\* One call, up to three routes.
CONSTANTS
    i1 = i1
    i2 = i2
    s1 = s1
    s2 = s2
    None = None
    Intcon <- MCIntcon
    MaxFound = 2
    Code <- MCCode
    StopCodes <- MCStopCodes
    StopStates <- MCStopStates
SPECIFICATION Spec
INVARIANTS TypeOK OneLeg InOrder CauseExplained AllReleased
PROPERTIES CallerGone
CHECK_DEADLOCK FALSE
