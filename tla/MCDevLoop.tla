------------------------------ MODULE MCDevLoop ------------------------------
(* Two assets, one of them absent at first, and one or two players. *)
EXTENDS DevLoop

MCAssets == <<"hero", "level">>
=============================================================================
