CONSTANTS
    s1 = s1  s2 = s2  p = p  q = q
    Submissions <- TwoSubmissions
    Payloads <- OnePayload
    BatchSize <- Singles
    MaxRetries = 0
    ChanCap = 1
    PollLimit = 1
    MaxFaults = 1
    MaxRestarts = 1
SPECIFICATION FairSpec
PROPERTY EverySubmissionEnds
