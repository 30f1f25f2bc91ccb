SPECIFICATION Spec
CONSTANTS
    RingLen = 8
    CacheSize = 4
    Masks = {0, 3}
INVARIANTS
    AssertsHold
    RingOrder
    SlotsConserved
    DoneBitsExact
    DescLeftExact
