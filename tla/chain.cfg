CONSTANTS
    N = 3
    Nil = Nil
    Definitions <- Shipped
    Data <- SomeData
    Answers <- SomeAnswers
SPECIFICATION TypedSpec
INVARIANTS WellTyped FirstSuccessWins EvidenceOfLastOnly NothingBlankSent SentAlike VerifiedOnReply
PROPERTY KeepsPromise
