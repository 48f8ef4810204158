CONSTANTS
    c1 = c1  c2 = c2  c3 = c3  a = a  b = b
    Calls <- ThreeCalls
    Subscribers <- OneSubscriber
    Limit = 1
    MaxFaults = 0
    MaxCrashes = 0
SPECIFICATION Spec
SYMMETRY AnyCallAnySubscriber
INVARIANT BadRequestNeverReached
