CONSTANTS
    None = None
    Garbled = Garbled
    Json <- MCJson
    Columns <- MCColumns
    Seed <- MCSeed
    Suites <- MCSuites
    Instants <- MCInstants
SPECIFICATION FairSpec
INVARIANTS
    CaseStartsFresh
    OwnRowsOnly
    DifferencesAreRuled
    SnapshotIsExact
    TwinsPass
    RunIsReal
PROPERTIES
    OutageEnds
