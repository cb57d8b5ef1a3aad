SPECIFICATION Spec
CONSTANTS
    MaxSlots = 2
    ScreenSize = 2
    Sizes <- SizesTwo
    Color <- Two
    Blank = 0
    Card = 1
    GenMod = 1
    ArenaSize = 5
    LockAlign = 1
    Budget = 2
    OtherUse <- NoOther
    Carts <- AllCarts
    RawPath = FALSE
    GdbWasm = TRUE
CHECK_DEADLOCK FALSE
INVARIANT DrawScoped
PROPERTY ImplementsContract
