CONSTANTS
    s1 = s1  s2 = s2  p = p  q = q
    Submissions <- TwoSubmissions
    Payloads <- OnePayload
    BatchSize <- Pairs
    MaxRetries = 1
    ChanCap = 2
    PollLimit = 2
    MaxFaults = 0
    MaxRestarts = 0
SPECIFICATION Spec
SYMMETRY AnySubmission
INVARIANT AnswerIsOneBatch
