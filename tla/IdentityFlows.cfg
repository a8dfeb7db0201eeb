SPECIFICATION Spec
CONSTANTS
    r1 = r1
    r2 = r2
    u1 = u1
    u2 = u2
    s1 = s1
    s2 = s2
    s3 = s3
    Users = {u1, u2}
    NoUser = NoUser
    Sessions = {s1, s3}
    NoSession = NoSession
    SessionUser <- MCSessionUser
    Requests = {r1, r2}
    Lifetime = 0
    MaxTime = 1
    MaxLinks = 2
SYMMETRY Symmetry
INVARIANTS
    OpensBounded
    EffectsFollowVerification
    RegistrationByOwner
CHECK_DEADLOCK FALSE
