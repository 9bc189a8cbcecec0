SPECIFICATION Spec
CONSTANTS
    None = None
    Clients = {c1, c2, w}
    WalletClient = w
    temp = temp
    final = final
    own = own
    ext = ext
    t1 = t1
    b1 = b1
    Ids <- MCIds
    Keychains <- MCKeychains
    Txs <- MCTxs
    Hashes <- MCHashes
    Heights <- MCHeights
    OwnOffers <- MCOwnOffers
    ContractOps <- MCContractOps
    WalletOps <- MCWalletOps
    Backends = {"postgres", "sled"}
    MaxConnections = 2
    MaxCalls = 3
INVARIANT StoreInv
PROPERTIES StoreIsAtomic EveryCallReturns
CHECK_DEADLOCK FALSE
