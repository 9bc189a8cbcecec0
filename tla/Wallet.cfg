SPECIFICATION Spec
CONSTANTS
    None = None
    Clients = {c1, c2}
    MaxTxs = 3
    MaxIndex = 5
    MaxHeight = 2
    MaxCommands = 4
    MaxFaults = 2
    StopGap = 1
    Lookahead = 2
INVARIANT WalletInv
PROPERTIES NotReusedOnceSeen SyncFindsOwnCoins
CHECK_DEADLOCK FALSE
