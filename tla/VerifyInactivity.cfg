SPECIFICATION Spec
CONSTANTS
    r1 = r1
    r2 = r2
    member = member
    other = other
    Requests = {r1, r2}
    Profiles = {member}
    Gone = Gone
    NoProfile = NoProfile
    Absent = Absent
    Required <- MCRequired
    Inactivity = 1
    RefreshProfile = TRUE
    RefreshIntervals = {1}
    MaxTime = 6
    Latency = 1
SYMMETRY Symmetry
PROPERTIES
    ActiveSessionKept
CHECK_DEADLOCK FALSE
