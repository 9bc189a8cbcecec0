\* The assertions of the watching party, in the shortest scenario.
SPECIFICATION Spec
CONSTANTS
    NoTx = NoTx
    MaxUpdates = 1
    Scenarios <- PanicScenarios
INVARIANT NoPanic
CHECK_DEADLOCK FALSE
