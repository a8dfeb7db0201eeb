SPECIFICATION Spec
CONSTANTS
    r1 = r1
    r2 = r2
    u1 = u1
    u2 = u2
    id1 = id1
    id2 = id2
    id3 = id3
    id4 = id4
    Users = {u1}
    NoUser = NoUser
    SessionIds = {id1, id2, id3}
    NoId = NoId
    Absent = Absent
    Requests = {r1}
    Handlers = {"FirstFactorPost", "ResetPasswordIdentityFinish", "ResetPasswordPost"}
INVARIANTS
    LoginResetsSession
