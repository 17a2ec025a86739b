CONSTANTS
    a = a  b = b  c = c  d = d
    k1 = k1  k2 = k2  n1 = n1  n2 = n2
    Coins = {a, b, c, d}
    Locked = {}
    Keysets = {k1, k2}
    FirstKeyset = k1
    SeedKeys = SeedKeys
    KeyAmounts = {1, 2, 4}
    Word = 8
    MintQuotes = {}
    MeltQuotes = {}
    Circulating <- MCCirculating
    SignatureInsert = "reject"
    Workers = {w1}
    Requests <- MCRequests
    NoQuote = NoQuote
    NoRequest = NoRequest
    MintAmount <- NoAmounts
    MeltAmount <- NoAmounts
    FeeReserve <- NoAmounts
    FedWorkers = {f1, f2}
    Notes = {n1, n2}
    NoNotes = NoNotes
    NotesValue <- MCNotesValue
    FedRequests <- MCFedRequests
    FedBalance = 1
    MaxSwaps = 2
    MaxFedRequests = 4
    MaxFaults = 1
SPECIFICATION Spec
INVARIANTS FedTypeOK NotesBackOneRequest SignedWithinNotes
CHECK_DEADLOCK FALSE
