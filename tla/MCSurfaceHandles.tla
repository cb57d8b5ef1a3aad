--------------------------- MODULE MCSurfaceHandles ----------------------------
(* An instance of SurfaceHandles for TLC: both halves of a release hybrid. *)
EXTENDS SurfaceHandles

One == {0}
SizesSmall == {1, 2}
ReleaseHybrids == {[debug |-> FALSE, hybrid |-> TRUE]}

=============================================================================
