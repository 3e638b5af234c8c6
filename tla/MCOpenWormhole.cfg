SPECIFICATION FairOpenSpec
CONSTANTS
    JWTs = {j1, j2}
    NoJWT = NoJWT
    MaxDuration <- MCMaxDuration
    MinimumRetryBackoff <- MCMinimumRetryBackoff
    MinRetryBackoff <- MCMinRetryBackoff
    MaxRetryBackoff <- MCMaxRetryBackoff
    Jitters <- MCJitters
    StatusCodes <- MCStatusCodes
INVARIANTS
    OpenTypeOK
    SuccessMeansInterrupted
    CauseReported
PROPERTIES
    InterruptEnds
    OneEndsAll
    TakenPortEnds
