SPECIFICATION LegsSpec
CONSTANTS
    MaxSlots = 2
    ScreenSize = 1
    Sizes <- SizesOne
    Color <- Two
    Blank = 0
    Card = 1
    GenMod = 2
    ArenaSize = 4
    LockAlign = 1
    Budget = 2
    MaxEpoch = 3
    Discipline <- AllRules
INVARIANT SameLegs
