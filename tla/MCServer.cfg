\* Two requests on one connection of the pool, one outage.
CONSTANTS
    r1 = r1  r2 = r2
    Requests = {r1, r2}
    Shapes <- SomeShapes
    Configs <- SomeConfigs
    PoolSize = 1
    Grace = 2
    MaxLag = 1
    MaxOutages = 1
SPECIFICATION Spec
SYMMETRY Permutable
INVARIANTS
    TypeOK
    CleanExit
    ServedWhenReady
    CutOffIsHeard
    
    CrossSiteNeverActs
    AnswersMirror
CHECK_DEADLOCK FALSE
