SPECIFICATION Spec
CONSTANTS
    CommunityIDs <- MCCommunityIDs
    RouteIDs <- MCRouteIDs
    Names <- MCNames
    FQNames <- MCFQNames
    CommunityIdents <- MCCommunityIdents
    RouteIdents <- MCRouteIdents
    MinIDLength = 2
    Absent = Absent
    NoDomain = NoDomain
    NoArg = NoArg
INVARIANTS
    ZeroCaseCovered
