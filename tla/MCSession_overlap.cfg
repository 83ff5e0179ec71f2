\* Two requests open at once, a window and a cap of two ticks, clocks that agree
\* or not, an outage.
CONSTANTS
    q1 = q1  q2 = q2  t1 = t1
    Requests = {q1, q2}
    Tokens = {t1}
    NoToken = NoToken
    TTL = 2
    MaxLifetime = 2
    Skews = {0, 1}
    Ops = {"login", "logout", "me"}
    MaxNow = 2
    MaxOutages = 1
SPECIFICATION FairSpec
INVARIANTS
    LoggedOutStaysOut
    AbsoluteCap
    LateRequestsAnonymous
PROPERTIES
    OutageSignsNobodyOut
    DeadTokenForgotten
