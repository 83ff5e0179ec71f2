\* A touch that arrives after the window it was to slide has closed.
CONSTANTS
    q1 = q1  q2 = q2  t1 = t1
    Requests = {q1, q2}
    Tokens = {t1}
    NoToken = NoToken
    TTL = 2
    MaxLifetime = 3
    Skews = {0}
    Ops = {"login", "me"}
    MaxNow = 3
    MaxOutages = 0
SPECIFICATION Spec
INVARIANTS
    ClearedCookieCannotWork
