\* One party runs the code against an arbitrary counter party: two CETs, a
\* cooperative close and the refund compete for the funding output.
SPECIFICATION FairSpec
CONSTANTS
    Cets = {"cet1", "cet2"}
    Closes = {"close"}
    NoTx = NoTx
    Honest = {"offer"}
    NB_CONFIRMATIONS = 2
    AUTOMATIC_REFUND = TRUE
    CetLocktime = 1
    MaturityTime = 0
    RefundLocktime = 1
    ApiEnabled = TRUE
    ReportsCounterpartyClose = TRUE
    MaxTime = 1
    MaxFaults = 1
    MaxDrops = 1
INVARIANTS
    TypeOK
    ClosedIsSettled
    RecordedWasBroadcast
PROPERTIES
    PendingCloseDetected
