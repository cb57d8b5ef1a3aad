------------------------------- MODULE MCGdbStub -------------------------------
(* The GDB stub with two code addresses that one rv_step runs together, so *)
(* that a breakpoint on the second is hit inside it.                       *)
EXTENDS GdbStub

MCScenes ==
    {[start |-> "player", bps |-> {1, 2}, ops |-> {"D", "k", "close"}],
     [start |-> "core", bps |-> {2}, ops |-> {"close"}],
     [start |-> "core", bps |-> {}, ops |-> {"close", "again"}],
     [start |-> "hybrid", bps |-> {2}, ops |-> {"intr"}],
     [start |-> "player", bps |-> {2}, ops |-> {"s", "D", "k"}]}
===============================================================================
