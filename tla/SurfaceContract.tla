---------------------------- MODULE SurfaceContract ----------------------------
(***************************************************************************)
(* What the surface API of blyt promises a cart, on every execution leg    *)
(* (blyt.h, blyt_phase.h).  A surface is one buffer.  A tier-1 operation   *)
(* on its handle and a raw write through a tier-2 lock both change that    *)
(* one buffer, at once; while the lock is held the handle is refused, and  *)
(* releasing the lock changes no pixel.  There is no lock arena, no copy   *)
(* in and no copy out here: Surfaces (the emulated leg) has them and is    *)
(* shown to implement this module, NativeSurfaces (bare metal) hands out   *)
(* the buffer itself and implements it too.                                *)
(***************************************************************************)
EXTENDS Integers

CONSTANTS
    MaxSlots,   \* registry slots, slot 0 is the screen
    ScreenSize, \* cells of the screen
    Sizes,      \* cells an off-screen surface may be created with
    Color,      \* palette indices
    Blank,      \* palette index 0, what a created surface is filled with
    Card,       \* stands for the pixels of the boot test card
    GenMod      \* generations are taken modulo this

VARIABLES
    phase,    \* lifecycle phase the cart is in
    live,     \* live[i]: slot i holds a surface
    gen,      \* gen[i]: generation a handle to slot i must carry
    size,     \* size[i]: cells of the surface in slot i
    content,  \* content[i]: the pixels a reader of surface i sees
    held,     \* held[i]: nobody, a lock or a phantom lock owns surface i
    lockGen   \* lockGen[i]: generation a lock token for slot i must carry

cvars == <<phase, live, gen, size, content, held, lockGen>>

Slots == 0 .. MaxSlots - 1
Screen == 0
OffScreen == Slots \ {Screen}

\* The pixels after the cells of `cells` are set to colour c (a clear, a
\* pixel, a rectangle and a line all have this form, clipped to the buffer).
Paint(p, cells, c) == [k \in DOMAIN p |-> IF k \in cells THEN c ELSE p[k]]

\* The pixels of d after all of s is copied into it at offset x, clipped.
Blit(d, s, x) == [k \in DOMAIN d |-> IF k - x \in DOMAIN s THEN s[k - x] ELSE d[k]]

Filled(n, c) == [k \in 1 .. n |-> c]

-----------------------------------------------------------------------------

ContractInit ==
    /\ phase = "none"
    /\ live = [i \in Slots |-> i = Screen]
    /\ gen = [i \in Slots |-> 0]
    /\ size = [i \in Slots |-> IF i = Screen THEN ScreenSize ELSE 0]
    /\ content = [i \in Slots |-> Filled(IF i = Screen THEN ScreenSize ELSE 0, Blank)]
    /\ held = [i \in Slots |-> "none"]
    /\ lockGen = [i \in Slots |-> 0]

PhaseEnter(p) ==
    /\ phase' = p
    /\ UNCHANGED <<live, gen, size, content, held, lockGen>>

\* The new surface is blank and unlocked, and takes the generation its slot
\* had reached, so no handle minted before can name it.
CreateSurface(i, n) ==
    /\ i \in OffScreen /\ ~live[i]
    /\ live' = [live EXCEPT ![i] = TRUE]
    /\ size' = [size EXCEPT ![i] = n]
    /\ content' = [content EXCEPT ![i] = Filled(n, Blank)]
    /\ UNCHANGED <<phase, gen, held, lockGen>>

DestroySurface(i) ==
    /\ i \in OffScreen /\ live[i] /\ held[i] = "none"
    /\ live' = [live EXCEPT ![i] = FALSE]
    /\ gen' = [gen EXCEPT ![i] = (@ + 1) % GenMod]
    /\ size' = [size EXCEPT ![i] = 0]
    /\ content' = [content EXCEPT ![i] = Filled(0, Blank)]
    /\ UNCHANGED <<phase, held, lockGen>>

\* A tier-1 operation: only on a surface nobody holds.
DrawSurface(i, cells, c) ==
    /\ live[i] /\ held[i] = "none"
    /\ content' = [content EXCEPT ![i] = Paint(@, cells, c)]
    /\ UNCHANGED <<phase, live, gen, size, held, lockGen>>

BlitSurface(d, s, x) ==
    /\ live[d] /\ live[s] /\ held[d] = "none" /\ held[s] = "none"
    /\ content' = [content EXCEPT ![d] = Blit(@, content[s], x)]
    /\ UNCHANGED <<phase, live, gen, size, held, lockGen>>

\* Taking a lock changes no pixel.  A phantom lock is what an acquire
\* outside draw() yields.
AcquireSurface(i, kind) ==
    /\ live[i] /\ held[i] = "none"
    /\ kind \in {"lock", "phantom"}
    /\ held' = [held EXCEPT ![i] = kind]
    /\ UNCHANGED <<phase, live, gen, size, content, lockGen>>

\* A raw write through a lock shows at once; through a phantom lock, never.
WriteView(i, cells, c) ==
    /\ held[i] = "lock"
    /\ content' = [content EXCEPT ![i] = Paint(@, cells, c)]
    /\ UNCHANGED <<phase, live, gen, size, held, lockGen>>

\* Giving a lock back changes no pixel and makes its token stale.
ReleaseSurface(i) ==
    /\ held[i] # "none"
    /\ held' = [held EXCEPT ![i] = "none"]
    /\ lockGen' = [lockGen EXCEPT ![i] = (@ + 1) % GenMod]
    /\ UNCHANGED <<phase, live, gen, size, content>>

\* The frame boundary: no lock and no off-screen surface survives it, and
\* the screen keeps every pixel drawn to it, through a lock or not.
ReapSurfaces ==
    /\ live' = [i \in Slots |-> i = Screen]
    /\ gen' = [i \in Slots |-> IF i # Screen /\ live[i] THEN (gen[i] + 1) % GenMod ELSE gen[i]]
    /\ size' = [i \in Slots |-> IF i = Screen THEN size[i] ELSE 0]
    /\ content' = [i \in Slots |-> IF i = Screen THEN content[i] ELSE Filled(0, Blank)]
    /\ held' = [i \in Slots |-> "none"]
    /\ lockGen' = [i \in Slots |->
                     IF held[i] # "none" THEN (lockGen[i] + 1) % GenMod ELSE lockGen[i]]
    /\ UNCHANGED phase

\* The boot test card replaces the screen at the end of a frame in which the
\* cart has not drawn yet.
ShowTestCard ==
    /\ content' = [content EXCEPT ![Screen] = Filled(size[Screen], Card)]
    /\ UNCHANGED <<phase, live, gen, size, held, lockGen>>

ContractNext ==
    \/ \E p \in {"none", "init", "update", "draw"} : PhaseEnter(p)
    \/ \E i \in Slots, n \in Sizes : CreateSurface(i, n)
    \/ \E i \in Slots : DestroySurface(i)
    \/ \E i \in Slots : \E cells \in SUBSET (1 .. size[i]), c \in Color : DrawSurface(i, cells, c)
    \/ \E d, s \in Slots : \E x \in -size[s] .. size[d] : BlitSurface(d, s, x)
    \/ \E i \in Slots, kind \in {"lock", "phantom"} : AcquireSurface(i, kind)
    \/ \E i \in Slots : \E cells \in SUBSET (1 .. size[i]), c \in Color : WriteView(i, cells, c)
    \/ \E i \in Slots : ReleaseSurface(i)
    \/ ReapSurfaces
    \/ ShowTestCard

Contract == ContractInit /\ [][ContractNext]_cvars

=============================================================================
