--------------------------------- MODULE Strips --------------------------------
(***************************************************************************)
(* What the three surface registries of blyt share: slots, of which slot 0 *)
(* is the screen, and the shared rasteriser (blyt_raster.c).  A surface is *)
(* a strip of cells: width, height and stride matter to no property here.  *)
(***************************************************************************)
EXTENDS Integers

CONSTANTS
    MaxSlots,   \* slots of the registry (64 on every leg)
    ScreenSize, \* BLYT_FRAME_W * BLYT_FRAME_H
    Sizes,      \* sizes (w * h) the cart creates surfaces with
    Color,      \* palette indices
    Blank,      \* palette index 0, what a created surface is filled with
    Card,       \* stands for the pixels of the boot test card
    GenMod      \* 2^16: generations are uint16_t

Slots == 0 .. MaxSlots - 1
Screen == 0
OffScreen == Slots \ {Screen}

Cells(n) == 1 .. n
Filled(n, c) == [k \in Cells(n) |-> c]

\* The pixels after a clear, pixel, rectangle or line, clipped to the strip.
Paint(p, cells, c) == [k \in DOMAIN p |-> IF k \in cells THEN c ELSE p[k]]

\* The pixels of d after all of s is copied into it at offset x, clipped.
Blit(d, s, x) == [k \in DOMAIN d |-> IF k - x \in DOMAIN s THEN s[k - x] ELSE d[k]]

\* Cell sets a raster operation touches: a run of cells, clipped to the strip.
Spans(n) == {lo .. hi : lo \in Cells(n), hi \in Cells(n)} \ {{}}

=============================================================================
