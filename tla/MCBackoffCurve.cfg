\* All configurations of up to nine ticks, half a second each, over eight
\* failures: twice what the longest of them needs to reach its cap.
CONSTANTS
    Longest = 9
    Configs <- AllConfigs
    TicksPerSecond = 2
    IntervalMax = 72
    MaxFailures = 8
    MaxWait = 2
    MaxNow = 12
SPECIFICATION Spec
INVARIANTS
    FollowsCurve
    RetryAfterIsEnough
CHECK_DEADLOCK FALSE
