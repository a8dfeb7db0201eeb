CONSTANTS
    CIDR <- MCCIDR
    NoUser = NoUser
    Configs <- MCConfigs
    User <- John
    Objects <- MCObjects
    Elsewhere <- MCElsewhere
    None = None
    Ids = {i1, i2, i3}
    MaxCalls = 2
    MaxFailures = 1
    MaxMoves = 1
SPECIFICATION FairSpec
INVARIANTS   AuthenticatedIsEnough FormIsUsable 
PROPERTY RequestIsServed
CHECK_DEADLOCK FALSE
