---------------------------- MODULE MCFrontends -----------------------------
EXTENDS Frontends

MCCodes == 1 .. 2
MCCmds == {"reset", "reload", "save_state", "load_state", "update_assets", "unknown"}
MCPlays == {"play", "quit", "exit", "trap"}
=============================================================================
