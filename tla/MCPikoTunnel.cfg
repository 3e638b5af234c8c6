SPECIFICATION FairTunnelSpec
CONSTANTS
    JWTs = {j1, j2}
    NoJWT = NoJWT
    MaxDuration <- MCMaxDuration
    MinimumRetryBackoff <- MCMinimumRetryBackoff
    MinRetryBackoff <- MCMinRetryBackoff
    MaxRetryBackoff <- MCMaxRetryBackoff
    Jitters <- MCJitters
    StatusCodes <- MCStatusCodes
    MaxStreams = 2
    MaxOrphans = 2
INVARIANTS
    SessionOwned
PROPERTIES
    TransientLossSurvived
    CancelDrains
    DeadForwarderSeen
