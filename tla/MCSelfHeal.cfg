SPECIFICATION FairSpec
CONSTANTS
    JWTs = {j1, j2}
    NoJWT = NoJWT
    MaxDuration <- MCMaxDuration
    MinimumRetryBackoff <- MCMinimumRetryBackoff
    MinRetryBackoff <- MCMinRetryBackoff
    MaxRetryBackoff <- MCMaxRetryBackoff
    Jitters <- MCJitters
    StatusCodes <- MCStatusCodes
INVARIANTS
    TypeOK
    RecoveryBudget
    CredentialsCurrent
    OneForwarder
    BackoffRespected
    CancelQuiesces
PROPERTIES
    CancelReported
    BackoffMonotone
    PromiseKept
    CancelTerminates
    ForwarderReleased
    RecoveryEnds
