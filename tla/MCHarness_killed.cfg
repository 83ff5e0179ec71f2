CONSTANTS
    None = None
    Garbled = Garbled
    Json <- MCJson
    Columns <- MCColumns
    Seed <- MCSeed
    Suites <- KilledSuites
    Instants <- MCInstants
SPECIFICATION Spec
INVARIANTS
    KilledOutageIsUndone
