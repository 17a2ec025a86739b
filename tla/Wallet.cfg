SPECIFICATION Spec
CONSTANTS
    None = None
    NoTarget = NoTarget
    Target = NoTarget
    Bits = 3
    Stores = {"redb", "sqlite", "memory"}
    Tasks = {"t1"}
    Ops = {"mint_quote", "mint", "check_all_mint_quotes", "swap", "send", "melt_quote", "melt_quote_status", "melt", "receive", "restore", "check_all_pending_proofs", "refresh_mint_keys", "add_mint"}
    MaxOps = 3
    MaxFaults = 1
    Chain <- MCChain
    MintQuotes = {"q1"}
    Notes = {"n1"}
    MeltQuotes = {"m1"}
    AmountOf <- MCAmountOf
    ExpiryOf <- MCExpiryOf
    FeeReserve = 1
    SendAmounts = {1}
    Conditions = {"ours", "theirs"}
    MintInfos = {"info"}
    Locks = {"theirs"}
    Keyed = {"ours"}
    Foreign <- MCForeign
    BatchSize = 2
    EmptyLimit = 3
INVARIANTS
    
    
    NothingVanishes
    PaidQuoteKept
PROPERTIES
    RestoreFindsAll
CHECK_DEADLOCK FALSE
