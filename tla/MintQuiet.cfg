CONSTANTS
    a = a  b = b  c = c  d = d  e = e  f = f  g = g  h = h
    k1 = k1  q1 = q1  m1 = m1  m2 = m2
    Coins = {a, b, c, d, e, f, g, h}
    Locked = {}
    Keysets = {k1}
    FirstKeyset = k1
    SeedKeys = SeedKeys
    KeyAmounts = {1, 2, 4}
    Word = 8
    MintQuotes = {q1}
    MeltQuotes = {m1, m2}
    Circulating <- MCCirculating
    SignatureInsert = "reject"
    Workers = {w1, w2}
    Requests <- MCRequests
    NoQuote = NoQuote
    NoRequest = NoRequest
    MintAmount <- MCMintAmount
    MeltAmount <- MCMeltAmount
    FeeReserve <- MCFeeReserve
    NoInvoice = NoInvoice
    External = External
    MeltInvoice <- MCMeltInvoice
    Fees = {0}
    PayStatuses = {"complete"}
    Replay = TRUE
    EventsFail = TRUE
    MaxRequests = 5
    MaxFaults = 0
    MaxRotations = 0
SPECIFICATION Spec
ACTION_CONSTRAINT ExclusiveDispatch
INVARIANTS PaymentsSettled  Solvent NothingLost
CHECK_DEADLOCK FALSE
