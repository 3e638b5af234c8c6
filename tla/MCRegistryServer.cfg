SPECIFICATION FairWorldSpec
CONSTANTS
    JWTs = {j1, j2, j3}
    NoJWT = NoJWT
    NoStray = NoStray
    MaxMishaps = 2
    MaxDuration <- MCMaxDuration
    MinimumRetryBackoff <- MCMinimumRetryBackoff
    MinRetryBackoff <- MCMinRetryBackoff
    MaxRetryBackoff <- MCMaxRetryBackoff
    Jitters <- MCJitters
    StatusCodes <- MCStatusCodes
INVARIANTS
    SurrenderNeedsTwo
PROPERTIES
    Recovers
