CONSTANTS
    k1 = k1  k2 = k2  k3 = k3
    Keysets = {k1, k2, k3}
    UnitOf <- MCUnitOf
    FirstKeyset = k1
    NoKeyset = NoKeyset
    Workers = {w1, w2}
    MaxCrashes = 2
    MaxRotations = 2
SPECIFICATION Spec
INVARIANTS TypeOK ActiveIsStored SignsWhenActivated CanSign
CHECK_DEADLOCK FALSE
