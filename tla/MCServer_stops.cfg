\* A login and a probe on one connection of the pool, one outage, fairness, with
\* a read deadline and without.
CONSTANTS
    r1 = r1  r2 = r2
    Requests = {r1, r2}
    Shapes <- Waiting
    Configs <- WithAndWithoutDeadline
    PoolSize = 1
    Grace = 1
    MaxLag = 0
    MaxOutages = 1
SPECIFICATION FairSpec
PROPERTIES
    StopsWhenTold
    EveryRequestEnds
CHECK_DEADLOCK FALSE
