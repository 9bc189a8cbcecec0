\* The periodic checks of two parties, without direct calls: two CETs and the
\* refund, an oracle that may stay silent.
SPECIFICATION FairSpec
CONSTANTS
    Cets = {"cet1", "cet2"}
    Closes = {"close"}
    NoTx = NoTx
    Honest = {"offer", "accept"}
    NB_CONFIRMATIONS = 2
    AUTOMATIC_REFUND = TRUE
    CetLocktime = 0
    MaturityTime = 0
    RefundLocktime = 1
    ApiEnabled = FALSE
    ReportsCounterpartyClose = FALSE
    MaxTime = 1
    MaxFaults = 1
    MaxDrops = 1
INVARIANTS
    OneOutcome
PROPERTIES
    PreClosedSettles
    FundsReleased
