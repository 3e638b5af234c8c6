SPECIFICATION FairSpec
INVARIANTS
    TypeOK
    NetworkBeforeApp
    FailureReported
PROPERTIES
    EndsTogether
    NoneLeftAlone
    SyncOrEnd
