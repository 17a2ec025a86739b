CONSTANTS
    a = a  b = b  c = c  d = d  e = e  f = f
    k1 = k1  q1 = q1  m1 = m1
    Coins = {a, b, c, d, e, f}
    Locked = {}
    Keysets = {k1}
    FirstKeyset = k1
    SeedKeys = SeedKeys
    KeyAmounts = {1, 2, 4}
    Word = 8
    MintQuotes = {q1}
    MeltQuotes = {m1}
    Circulating <- MCCirculating
    SignatureInsert = "replace"
    Workers = {w1, w2}
    Requests <- MCRequests
    NoQuote = NoQuote
    NoRequest = NoRequest
    MintAmount <- MCMintAmount
    MeltAmount <- MCMeltAmount
    FeeReserve <- MCFeeReserve
    NoInvoice = NoInvoice
    External = External
    MeltInvoice <- MCMeltInvoice
    Fees = {0}
    PayStatuses = {"complete"}
    Replay = TRUE
    EventsFail = FALSE
    MaxRequests = 4
    MaxFaults = 1
    MaxRotations = 0
SPECIFICATION FairExclusiveSpec
INVARIANT SpentOnce
PROPERTIES  PaidInvoiceCredited RequestAnswered
CHECK_DEADLOCK FALSE
