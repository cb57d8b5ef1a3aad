SPECIFICATION Spec
CONSTANTS
    Modes <- MCModes
    Depth = 2
    MaxCalls <- MCCalls
    MaxOps = 2
    MaxStack = 2
    Budget = 1
    MetaCallsNative = FALSE
CHECK_DEADLOCK FALSE
INVARIANTS OwnFrame NestingBalanced BudgetShared
PROPERTIES PcallContract 
