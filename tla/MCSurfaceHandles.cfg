SPECIFICATION HandlesSpec
CONSTANTS
    MaxSlots = 3
    ScreenSize = 1
    Sizes <- SizesSmall
    Color <- One
    Blank = 0
    Card = 0
    GenMod = 2
    ArenaSize = 4
    LockAlign = 2
    Budget = 3
    OtherUse <- One
    Carts <- ReleaseHybrids
    RawPath = TRUE
    GdbWasm = FALSE
CHECK_DEADLOCK FALSE
INVARIANTS LockArenaSound StaleNeverResolves
