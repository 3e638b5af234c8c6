SPECIFICATION FairSpec
INVARIANTS
    NoSlirpLeft
PROPERTIES
    SlirpEndSeen
    ImplementsLaunchNetwork
