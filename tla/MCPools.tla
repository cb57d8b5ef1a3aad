------------------------------- MODULE MCPools ---------------------------------
(* The two pools that hand out the buffer itself, for TLC: the bare-metal  *)
(* one (host is "bare") or the one of a pure-Lua cart, chosen at the start. *)
EXTENDS NativeSurfaces, LuaSurfaces

Two == {0, 1}
SizesSmall == {1, 2}

PoolsInit == host \in {"bare", "desktop", "wasm"} /\ NInit /\ LInit

PoolsNext ==
    \/ host = "bare" /\ NNext /\ UNCHANGED lvars
    \/ host # "bare" /\ LNext /\ UNCHANGED nvars

PoolsSpec == PoolsInit /\ [][PoolsNext]_<<nvars, lvars>>

=============================================================================
