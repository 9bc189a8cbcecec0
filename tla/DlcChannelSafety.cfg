\* The scenarios of MCDlcChannel, one after the other.
SPECIFICATION Spec
CONSTANTS
    NoTx = NoTx
    MaxUpdates = 2
    Scenarios <- SafetyScenarios
INVARIANTS ChannelInv AgreeWhenStable CanAlwaysClose NeverPublishRevoked
INVARIANTS PublishedIsWatched SafeToClose
\* The channel may stay open, or be closed for ever.
CHECK_DEADLOCK FALSE
