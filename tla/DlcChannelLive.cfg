\* Lost messages and time-outs; nobody forces a close by hand.
SPECIFICATION FairSpec
CONSTANTS
    NoTx = NoTx
    MaxUpdates = 1
    Scenarios <- LivenessScenarios
PROPERTIES ClosingEnds WaitingEnds
\* The channel may stay open, or be closed for ever.
CHECK_DEADLOCK FALSE
