SPECIFICATION Spec
CONSTANTS
    None = None
    NoTarget = NoTarget
    Bits = 6
    Payments <- MCHtlcs
    Wants <- MCWants
    Keyrings <- MCKeyrings
    SenderKeys <- MCSenderKeys
    Preimages = {"p"}
    ReceiveTarget = 8
    MaxSends = 1
    MaxTime = 2
INVARIANT HtlcOpens
CHECK_DEADLOCK FALSE
