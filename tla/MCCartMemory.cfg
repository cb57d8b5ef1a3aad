SPECIFICATION Spec
CONSTANTS
    Count = 2
    Carts <- AllCarts
    Budget = 4
    ScratchSize = 4
    AllocSizes = {1, 2}
    Peers = {0, 2}
    Nested = TRUE
    MaxPins = 2
    MaxFetch = 5
    MaxDepth = 1
INVARIANTS PublishedFresh ReferencedResident
PROPERTY GuestStaysInBudget
