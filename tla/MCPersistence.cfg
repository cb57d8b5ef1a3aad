CONSTANTS
    Layouts <- MCLayouts
    MaxSlots = 2
    MaxFields = 2
    MaxBuffers = 2
    NativeMaxBuf = 2
    ByteSpan = 2
    SaveSlots = {1}
    MaxBorn = 3
    MaxImages = 3
    FlushFails = FALSE
SPECIFICATION Spec
CHECK_DEADLOCK FALSE
INVARIANTS RefsSound FreshSlotsZero 
  
