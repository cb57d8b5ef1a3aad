----------------------------- MODULE MCCartMemory -----------------------------
(* Instances of CartMemory: packed carts with a compressed persistent      *)
(* resource, and one staged cart before and after an asset grew.           *)
EXTENDS CartMemory

Packed(h) ==
    [hybrid |-> h, staged |-> FALSE, zstd |-> {1, 2}, len |-> <<1, 2>>,
     persistent |-> {1}, palettes |-> {2}]
Staged(n) ==
    [hybrid |-> FALSE, staged |-> TRUE, zstd |-> {}, len |-> <<1, n>>,
     persistent |-> {1}, palettes |-> {2}]

NativeCart == {Packed(FALSE)}
StagedCart == {Staged(2)}
HybridCart == {Packed(TRUE)}
AllCarts == NativeCart \cup HybridCart \cup {Staged(1), Staged(2)}
================================================================================
