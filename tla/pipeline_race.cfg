CONSTANTS
    s1 = s1  s2 = s2  p = p  q = q
    Submissions <- TwoSubmissions
    Payloads <- TwoPayloads
    BatchSize <- Singles
    MaxRetries = 1
    ChanCap = 2
    PollLimit = 2
    MaxFaults = 1
    MaxRestarts = 1
SPECIFICATION Spec
SYMMETRY AnySubmission
INVARIANTS TypeOK NoDoubleInsert EvidenceFirst SnapshotStillPending CopiesAccounted CredentialsBounded ItemsExplained
PROPERTIES UnissuedByBreakdown KeepsBoard
