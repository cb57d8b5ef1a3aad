------------------------------ MODULE MCSurfaces -------------------------------
(* Instances of Surfaces for TLC.  Generations and lock generations are     *)
(* taken modulo a small GenMod, so every run covers their wrap-around.      *)
EXTENDS Surfaces

Two == {0, 1}
One == {0}
SizesSmall == {1, 2}
SizesOne == {1}
SizesTwo == {2}
NoOther == {0}
SomeOther == {0, 2}
AllCarts == [debug : BOOLEAN, hybrid : BOOLEAN]
ReleaseCarts == {[debug |-> FALSE, hybrid |-> FALSE]}
ReleaseHybrids == {[debug |-> FALSE, hybrid |-> TRUE]}

=============================================================================
