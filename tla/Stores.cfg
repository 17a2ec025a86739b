SPECIFICATION Spec
CONSTANTS
    None = None
    Urls = {"mint1", "mint2"}
    Ys = {"y1", "y2"}
    Locked = {"y2"}
    QuoteIds = {"q1", "q2"}
    Ids = {"k1", "k2"}
    MintOf <- MCMintOf
    MaxCount = 2
INVARIANTS
    WalletStoresAgree
    CountersAgree
    CacheIsLatest
    MintStoresAgree
PROPERTIES
    SpentStays

