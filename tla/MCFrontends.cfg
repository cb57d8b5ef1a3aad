SPECIFICATION Spec
CONSTANTS
    Codes <- MCCodes
    Cmds <- MCCmds
    Plays0 <- MCPlays
    MaxLive = 3
    MaxLibs = 3
    MaxTicks = 2
    MaxCmds = 2
    Overlap = FALSE
    Early = FALSE
CHECK_DEADLOCK FALSE
INVARIANTS  ProgressKept LibsMatchCart ArmedBeforeInit
PROPERTY CommandsAnswered
