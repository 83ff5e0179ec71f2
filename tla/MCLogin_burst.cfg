\* Three logins on one account, two permits, an outage, a tick of the clock.
CONSTANTS
    r1 = r1  r2 = r2  r3 = r3  e1 = e1  e2 = e2  e3 = e3  e4 = e4  a1 = a1
    Requests = {r1, r2, r3}
    Emails = {e1}
    Ips = {}
    NoIp = NoIp
    NoUser = NoUser
    Account <- OneActive
    Passwords = {"own", "other"}
    Cap = 2
    FirstBackoff = 1
    MaxBackoff = 2
    TicksPerSecond = 1
    LogError = 0
    MaxGone = 0
    MaxSpent = 0
    MaxOutages = 1
    MaxNow = 1
SPECIFICATION FairSpec
INVARIANTS
    PermitsMatchHolders
    LateChecksBounded
PROPERTIES
    FailuresStand
    EveryLoginAnswered
CHECK_DEADLOCK FALSE
