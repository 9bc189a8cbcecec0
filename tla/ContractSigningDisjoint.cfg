SPECIFICATION Spec
CONSTANTS
    Contracts <- MCDisjoint
    FundingInputs <- MCFundingInputs
    None = None
INVARIANT EveryQuorumSettles
CHECK_DEADLOCK FALSE
