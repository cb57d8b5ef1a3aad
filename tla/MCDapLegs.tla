------------------------------- MODULE MCDapLegs -------------------------------
(* Three lines, the second one a call deeper; rings of three.              *)
EXTENDS DapLegs

MCDepth == <<1, 2, 1>>
Legs == {"emulated", "hostlua", "wasm", "native"}
S(leg, bps, cond, ops) == [leg |-> leg, waits |-> TRUE, bps |-> bps, cond |-> cond, ops |-> ops]
MCScenes ==
    {S(leg, {1}, {}, {"inspect", "step", "pause"}) : leg \in Legs}
    \cup {S(leg, {2}, {2}, {"step", "restart", "pause"}) : leg \in Legs}
    \cup {S(leg, {1}, {}, {"inspect", "disconnect", "error", "restart"}) : leg \in Legs}
    \cup {S(leg, {2}, {}, {"inspect", "close", "rebreak", "error"}) : leg \in Legs}
    \cup {S(leg, {1}, {}, {"inspect", "eager", "rebreak", "exit"}) : leg \in Legs \ {"emulated"}}
    \cup {[S("emulated", {2}, {}, {"close", "exit"}) EXCEPT !.waits = FALSE]}
MCPipelined == {S("hostlua", {1}, {}, {"eager", "rebreak"})}
MCRestart == {S("wasm", {1}, {}, {"restart"})}
MCEager == {S("emulated", {1}, {}, {"inspect", "eager"})}
===============================================================================
