SPECIFICATION ProgressSpec
CONSTANTS
    u1 = u1
    u2 = u2
    t1 = t1
    t2 = t2
    id1 = id1
    id2 = id2
    id3 = id3
    p1 = p1
    p2 = p2
    Users = {u1, u2}
    Usernames = {u1, u2}
    NoUser = NoUser
    ClientPolicy <- MCClientPolicy
    Asks <- MCAsks
    SessionIds = {id1, id2, id3}
    NoId = NoId
    Absent = Absent
    Nil = Nil
    Tabs = {t1}
    MaxTime = 2
    MaxVisits = 3
    Passwords = {p1, p2}
    NoPassword = none
    Calls = {1, 2}
    Idle = Idle
    Algorithm = "argon2id"
    Files <- MCFiles
    NoCall = NoCall
    MaxFailures = 1
    MaxUpdates = 2
INVARIANTS
    ProgressTypeOK
    VerdictIsRight
PROPERTIES
    WorkflowEnds
    FileImplementsDirectory
    FileCallsReturn
CHECK_DEADLOCK FALSE
