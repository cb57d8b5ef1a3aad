CONSTANTS
    Depth <- MCDepth
    QueueCap = 3
    Inflight = 3
    Scenes <- MCScenes
SPECIFICATION Spec
CHECK_DEADLOCK FALSE
INVARIANTS AnswersOwnStop ArmedBeforeFirstLine
PROPERTIES   Restarted
