\* Three callers that keep coming back, two permits.
CONSTANTS
    c1 = c1  c2 = c2  c3 = c3
    Callers = {c1, c2, c3}
    Cap = 2
SPECIFICATION FairSpec
INVARIANTS
    MetersAgree
PROPERTIES
    ImplementsPool
    NobodyStarves
