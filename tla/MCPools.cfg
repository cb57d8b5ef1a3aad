SPECIFICATION PoolsSpec
CONSTANTS
    MaxSlots = 3
    ScreenSize = 1
    Sizes <- SizesSmall
    Color <- Two
    Blank = 0
    Card = 1
    GenMod = 2
    NativeArena = 3
    MaxEpoch = 2
    MaxKept = 2
INVARIANT BuffersDisjoint LiveLocksOwn
PROPERTY NativeImplementsContract
