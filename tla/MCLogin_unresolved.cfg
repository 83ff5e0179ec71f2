\* A login for an address that resolves to no User, no fault.
CONSTANTS
    r1 = r1  r2 = r2  r3 = r3  e1 = e1  e2 = e2  e3 = e3  e4 = e4  a1 = a1
    Requests = {r1}
    Emails = {e1, e2, e3, e4}
    Ips = {a1}
    NoIp = NoIp
    NoUser = NoUser
    Account <- OneOfEach
    Passwords = {"own", "phrase", "other"}
    Cap = 1
    FirstBackoff = 1
    MaxBackoff = 2
    TicksPerSecond = 1
    LogError = 0
    MaxGone = 0
    MaxSpent = 0
    MaxOutages = 0
    MaxNow = 0
SPECIFICATION Spec
INVARIANTS
    UnresolvedIsInvalidCredentials
CHECK_DEADLOCK FALSE
