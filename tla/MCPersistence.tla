----------------------------- MODULE MCPersistence -----------------------------
(* Two builds of a cart with two buffers: the second adds a field to the   *)
(* entities.  Bytes of two values: generations 1..3, slots of two.         *)
EXTENDS Persistence

MCLayouts == << <<[name |-> "player", types |-> <<"u32", "f64">>, count |-> 2],
                  [name |-> "mobs", types |-> <<"f64">>, count |-> 1]>>,
                <<[name |-> "player", types |-> <<"u32", "f64">>, count |-> 2],
                  [name |-> "mobs", types |-> <<"f64", "u8">>, count |-> 1]>> >>
===============================================================================
