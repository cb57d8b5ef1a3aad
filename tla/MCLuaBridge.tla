----------------------------- MODULE MCLuaBridge -----------------------------
(* Small instances of the Lua bridge. *)
EXTENDS LuaBridge

MCModes == {"sync", "hl", "web"}
MCCalls == [sync |-> 3, hl |-> 2, web |-> 2]
MCSync == {"sync"}
MCSyncCalls == [sync |-> 2]
MCParked == {"hl"}
MCParkedCalls == [hl |-> 1]
=============================================================================
