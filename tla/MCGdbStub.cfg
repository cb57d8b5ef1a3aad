CONSTANTS
    N = 2
    StepEnds = {2}
    MaxBreaks = 2
    MaxGdbBreaks = 2
    Scenes <- MCScenes
    StopCap = 1
SPECIFICATION Spec
CHECK_DEADLOCK FALSE
INVARIANTS CacheCoherent 
PROPERTIES InstalledFires Released
