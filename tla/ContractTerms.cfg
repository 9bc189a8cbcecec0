SPECIFICATION Spec
CONSTANTS
    None = None
    Terms <- MCTerms
    RenewPayouts <- MCRenewPayouts
    SettlePayouts <- MCSettlePayouts
    PunishRate = 2
    MaxUpdates = 3
    Contracts <- MCContracts
    ManagerInputs <- MCFundingInputs
    Setups <- MCSetups
    FundingKey <- MCFundingKey
    MinTimeout = 1
    MaxTimeout = 6
    MaxFaults = 1
INVARIANTS TypeOK EachNumberHasItsCet TrieMatchesSignatures PaysWhatWasAttested QuorumSettles
    FundedIsCovered HonestFundingCompletes
    RateIsPaid EachGetsItsDue SoundTermsNeverPanic
CHECK_DEADLOCK FALSE
