SPECIFICATION Spec
CONSTANTS
    r1 = r1
    r2 = r2
    u1 = u1
    u2 = u2
    Users = {u1, u2}
    Requests = {r1}
    MaxRetries = 2
    FindTime = 2
    BanTime = 3
    MaxTime = 3
    MaxLog = 4
    MaxErrors = 0
PROPERTIES
    BanLastsBanTime
CHECK_DEADLOCK FALSE
