CONSTANTS
    Calls <- FourCalls
    Limit = 2
    Asks <- SomeAsks
    Window = 2
    MaxWindow = 2
    MaxInt = 8
    MaxTime = 3
    MaxFaults = 1
SPECIFICATION Spec
INVARIANTS TypeOK NoneMissed MissedByLateOnly RepeatsPushedDown PagesInReach
CHECK_DEADLOCK FALSE
