SPECIFICATION Spec
CONSTANTS
    None = None
    NoTarget = NoTarget
    Target = NoTarget
    Bits = 3
    Stores = {"redb"}
    Tasks = {"t1", "t2"}
    Ops = {"mint", "send"}
    MaxOps = 3
    MaxFaults = 0
    Chain <- MCChain
    MintQuotes = {"q1"}
    Notes = {"n1"}
    MeltQuotes = {"m1"}
    AmountOf <- MCAmountOf
    ExpiryOf <- MCExpiryOf
    FeeReserve = 1
    SendAmounts = {2}
    Conditions = {"ours", "theirs"}
    MintInfos = {"info"}
    Locks = {}
    Keyed = {"ours"}
    Foreign <- MCForeign
    BatchSize = 2
    EmptyLimit = 3
INVARIANT SentOnce
CHECK_DEADLOCK FALSE
