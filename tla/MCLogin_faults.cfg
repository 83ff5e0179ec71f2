\* Two logins over one address of every kind, one permit, every kind of fault.
CONSTANTS
    r1 = r1  r2 = r2  r3 = r3  e1 = e1  e2 = e2  e3 = e3  e4 = e4  a1 = a1
    Requests = {r1, r2}
    Emails = {e1, e2, e3, e4}
    Ips = {a1}
    NoIp = NoIp
    NoUser = NoUser
    Account <- OneOfEach
    Passwords = {"own", "phrase"}
    Cap = 1
    FirstBackoff = 1
    MaxBackoff = 2
    TicksPerSecond = 1
    LogError = 0
    MaxGone = 2
    MaxSpent = 1
    MaxOutages = 1
    MaxNow = 1
SPECIFICATION Spec
SYMMETRY Permutable
INVARIANTS
    RefusedGuessIsCounted
    FailuresWereChecked
    SessionsAreEarned
CHECK_DEADLOCK FALSE
