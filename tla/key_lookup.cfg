CONSTANTS
    h1 = h1  h2 = h2  a = a  b = b  k1 = k1  k2 = k2
    Nil = Nil
    Handlers <- TwoHandlers
    Ids <- TwoIds
    Keys <- TwoKeys
    Entries <- SomeEntries
    Lags <- SomeLags
    Life = 1
    TTL = 1
    Timeout = 1
    MaxTime = 3
    MaxChanges = 1
SPECIFICATION Spec
SYMMETRY AnyHandlerAnyId
INVARIANTS TypeOK KeyInUseRecent
PROPERTIES RotationTakesEffect WindowHeldInTime
