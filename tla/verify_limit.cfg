CONSTANTS
    c1 = c1  c2 = c2  c3 = c3  a = a  b = b
    Calls <- ThreeCalls
    Subscribers <- TwoSubscribers
    Limit = 1
    MaxFaults = 1
    MaxCrashes = 1
SPECIFICATION Spec
SYMMETRY AnyCallAnySubscriber
INVARIANTS TypeOK OvershootWithinInFlight ChargedOnlyIfReached RefusedCostNothing
PROPERTY KeepsMeter
