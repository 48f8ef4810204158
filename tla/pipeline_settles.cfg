CONSTANTS
    s1 = s1  s2 = s2  p = p  q = q
    Submissions <- OneSubmission
    Payloads <- OnePayload
    BatchSize <- Pairs
    MaxRetries = 1
    ChanCap = 1
    PollLimit = 1
    MaxFaults = 1
    MaxRestarts = 1
SPECIFICATION FairCountedSpec
INVARIANT AttemptsBounded
PROPERTY EventuallySettled
