SPECIFICATION Spec
CONSTANTS
    Scale = 10
    WarmUpDays = 1
    DriftingBelow <- MinusOneDay
    TakingOnWaterBelow <- MinusThreeDays
    Days = 4
    MaxRefund = 2
    MaxAhead = 5
    MaxSettled = 14
    Pools <- FourDayPools
    Amounts <- SomeAmounts
INVARIANTS
    TypeOK
    ObedienceIsSafe
    StateAgreesWithBuffer
    FiguresRoundAsPromised
    TargetLineHolds
PROPERTIES
    ForwardIsTomorrow
    SpendNeverHelps
CHECK_DEADLOCK FALSE
