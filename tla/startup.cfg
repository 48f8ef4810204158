CONSTANTS
    Databases <- SomeDatabases
    Configs <- SomeConfigs
    Written <- OnlyPending
    MaxFaults = 2
    MaxStops = 2
SPECIFICATION FairSpec
INVARIANTS TypeOK ServesOnlyReady RowsResolve VendorsResolve FlushedUnlessCutShort
PROPERTIES IdsStable EventuallyServes
