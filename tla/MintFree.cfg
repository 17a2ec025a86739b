CONSTANTS
    a = a  b = b  c = c  d = d  e = e
    k1 = k1  k2 = k2  q1 = q1  m1 = m1
    Coins = {a, b, c, d, e}
    Locked = {e}
    Keysets = {k1, k2}
    FirstKeyset = k1
    SeedKeys = SeedKeys
    KeyAmounts = {1, 2, 4}
    Word = 8
    MintQuotes = {q1}
    MeltQuotes = {m1}
    Circulating <- MCCirculating
    SignatureInsert = "replace"
    Workers = {w1, w2}
    Requests <- MCRequests
    NoQuote = NoQuote
    NoRequest = NoRequest
    MintAmount <- MCMintAmount
    MeltAmount <- MCMeltAmount
    FeeReserve <- MCFeeReserve
    NoInvoice = NoInvoice
    External = External
    MeltInvoice <- MCMeltInvoice
    Fees = {0, 3}
    PayStatuses = {"complete", "pending", "failed"}
    Replay = FALSE
    EventsFail = TRUE
    MaxRequests = 3
    MaxFaults = 1
    MaxRotations = 1
SPECIFICATION Spec
INVARIANTS TypeOK SigningIsBacked
 
CHECK_DEADLOCK FALSE
