SPECIFICATION FairSpec
PROPERTIES
    CancelEnds
