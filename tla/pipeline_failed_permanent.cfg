CONSTANTS
    s1 = s1  s2 = s2  p = p  q = q
    Submissions <- TwoSubmissions
    Payloads <- OnePayload
    BatchSize <- Singles
    MaxRetries = 1
    ChanCap = 1
    PollLimit = 1
    MaxFaults = 0
    MaxRestarts = 0
SPECIFICATION Spec
PROPERTY FailedIsPermanent
