SPECIFICATION Spec
CONSTANTS
    u1 = u1
    u2 = u2
    id1 = id1
    id2 = id2
    id3 = id3
    t1 = t1
    t2 = t2
    Users = {u1, u2}
    NoUser = NoUser
    ClientPolicy <- MCClientPolicy
    Asks <- MCAsks
    SessionIds = {id1, id2, id3}
    NoId = NoId
    Absent = Absent
    Nil = Nil
    Tabs = {t1, t2}
    MaxTime = 2
    MaxVisits = 2
INVARIANTS
    
    AuthTimeOfSubject
    
SYMMETRY Symmetry
CHECK_DEADLOCK FALSE
