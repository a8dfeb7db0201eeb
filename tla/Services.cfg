SPECIFICATION ServicesSpec
CONSTANTS
    r1 = r1
    r2 = r2
    u1 = u1
    p1 = p1
    p2 = p2
    totp = totp
    u2f = u2f
    Users = {u1}
    Requests = {r1, r2}
    MaxRetries = 2
    FindTime = 2
    BanTime = 3
    MaxTime = 3
    MaxLog = 4
    MaxErrors = 1
    MaxCommandErrors = 1
    Entries = {u1}
    Passwords = {p1, p2}
    NoPassword = none
    Calls = {1, 2}
    Idle = Idle
    Authelia = authelia
    Nobody = nobody
    Connections = {0, 1, 2}
    StartupConnection = 0
    NoConnection = NoConnection
    MaxLDAPFailures = 1
    MaxChanges = 2
    InfoUsers = {u1}
    InfoRequests = {r1, r2}
    PossibleMethods = {totp, u2f}
    FirstMethod = totp
    UnknownMethod = other
    NoRow = NoRow
    Row = Row
    MaxLoadFailures = 2
    Sends = {"s1", "s2"}
    StartupCheck = "check"
    NoClient = "none"
    Word = 256
    Configurations <- MCConfigurations
SYMMETRY RequestSymmetry
INVARIANTS
    ServicesTypeOK
    AttemptsBounded
    BannedUntilIsAhead
    BoundConnectionsAreHeld
    PasswordsOverTLS
    InfoWasTrue
    PasswordIsEncrypted
    
    StartupCheckPredicts
    AcceptedConfigurationStarts
    PasswordsCanBeHashed
    
PROPERTIES
    RefusalHasCause
    LDAPImplementsDirectory
CHECK_DEADLOCK FALSE
