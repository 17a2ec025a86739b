SPECIFICATION Spec
CONSTANTS
    None = None
    NoTarget = NoTarget
    Bits = 6
    Payments <- MCPayments
    Wants <- MCWants
    Keyrings <- MCKeyrings
    SenderKeys <- MCSenderKeys
    Preimages = {"p"}
    ReceiveTarget = 8
    MaxSends = 2
    MaxTime = 3
INVARIANTS
    ClaimedBackOnlyLate
    VerifiedIsSpendable
    AuthorisedOnly
    OwnersAreServed
    PartsAddUp
CHECK_DEADLOCK FALSE
