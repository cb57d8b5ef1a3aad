---------------------------- MODULE NativeSurfaces -----------------------------
(***************************************************************************)
(* The surface pool of the bare-metal leg (libblyt32/blyt32.c), where the  *)
(* guest library is the runtime.  Off-screen buffers are carved from a     *)
(* static bump arena that only the frame boundary rewinds, a lock hands    *)
(* out the buffer itself, and every access outside draw() is refused.      *)
(***************************************************************************)
EXTENDS Strips

CONSTANT
    NativeArena  \* sizeof(s_surface_arena), the 16 MiB budget

ASSUME NativeAssumption ==
    /\ MaxSlots \in Nat \ {0}
    /\ ScreenSize \in Nat
    /\ Sizes \subseteq Nat
    /\ Blank \in Color
    /\ GenMod \in Nat \ {0}
    /\ NativeArena \in Nat

VARIABLES
    nrun,     \* guest: inside callbacks; top: behind frame_done; quit
    nphase,   \* g_blyt_phase
    ninUse,   \* s_surfaces[i].in_use
    ngen,     \* s_surfaces[i].gen
    nsize,    \* s_surfaces[i].w * s_surfaces[i].h
    base,     \* s_surfaces[i].pixels, as an offset into the arena
    locked,   \* s_surfaces[i].locked
    nlockGen, \* s_surfaces[i].lock_gen
    bump,     \* s_surface_bump
    arena,    \* s_surface_arena
    fb        \* s_framebuffer

nvars == <<nrun, nphase, ninUse, ngen, nsize, base, locked, nlockGen, bump, arena, fb>>

\* Mutant of NWrap: the increment forgotten.
NWrapForgotten(g) == g

NWrap(g) == (g + 1) % GenMod

\* The pixels of surface i, wherever they live.
NContent == [i \in Slots |->
               IF i = Screen THEN fb ELSE [k \in Cells(nsize[i]) |-> arena[base[i] + k]]]

\* Store the pixels p into surface i's buffer.
Store(i, p) ==
    /\ fb' = IF i = Screen THEN p ELSE fb
    /\ arena' = IF i = Screen THEN arena
                ELSE [a \in Cells(NativeArena) |->
                        IF a - base[i] \in Cells(nsize[i]) THEN p[a - base[i]] ELSE arena[a]]

NInit ==
    /\ nrun = "guest" /\ nphase = "none"
    /\ ninUse = [i \in Slots |-> i = Screen]
    /\ ngen = [i \in Slots |-> 0]
    /\ nsize = [i \in Slots |-> IF i = Screen THEN ScreenSize ELSE 0]
    /\ base = [i \in Slots |-> 0]
    /\ locked = [i \in Slots |-> FALSE]
    /\ nlockGen = [i \in Slots |-> 0]
    /\ bump = 0
    /\ arena = Filled(NativeArena, Blank)
    /\ fb = Filled(ScreenSize, Blank)

\* native_resolve_surface / native_resolve_drawable: draw() only, live, and
\* for every call but acquire not locked.
MayAccess == nrun \in {"guest", "quit"} /\ nphase = "draw"
\* Mutant of Drawable: the lock is not asked for.
DrawableLocked(i) == MayAccess /\ ninUse[i]

Drawable(i) == MayAccess /\ ninUse[i] /\ ~locked[i]

NCreate(i, n) ==
    /\ MayAccess
    /\ bump + n <= NativeArena
    /\ i \in OffScreen /\ ~ninUse[i] /\ \A j \in OffScreen : ~ninUse[j] => i <= j
    /\ ninUse' = [ninUse EXCEPT ![i] = TRUE]
    /\ nsize' = [nsize EXCEPT ![i] = n]
    /\ base' = [base EXCEPT ![i] = bump]
    /\ bump' = bump + n
    /\ arena' = [a \in Cells(NativeArena) |-> IF a - bump \in Cells(n) THEN Blank ELSE arena[a]]
    /\ UNCHANGED <<nrun, nphase, ngen, locked, nlockGen, fb>>

\* Mutant of NDestroy: the bytes come back at once.
NDestroyRewinds(i) ==
    /\ Drawable(i) /\ i # Screen
    /\ ninUse' = [ninUse EXCEPT ![i] = FALSE]
    /\ ngen' = [ngen EXCEPT ![i] = NWrap(@)]
    /\ nsize' = [nsize EXCEPT ![i] = 0]
    /\ bump' = bump - nsize[i]
    /\ UNCHANGED <<nrun, nphase, base, locked, nlockGen, arena, fb>>

\* The arena bytes of a destroyed surface come back at the frame boundary only.
NDestroy(i) ==
    /\ Drawable(i) /\ i # Screen
    /\ ninUse' = [ninUse EXCEPT ![i] = FALSE]
    /\ ngen' = [ngen EXCEPT ![i] = NWrap(@)]
    /\ nsize' = [nsize EXCEPT ![i] = 0]
    /\ UNCHANGED <<nrun, nphase, base, locked, nlockGen, bump, arena, fb>>

NDraw(i, cells, c) ==
    /\ Drawable(i)
    /\ Store(i, [k \in Cells(nsize[i]) |-> IF k \in cells THEN c ELSE NContent[i][k]])
    /\ UNCHANGED <<nrun, nphase, ninUse, ngen, nsize, base, locked, nlockGen, bump>>

NBlit(d, s, x) ==
    /\ Drawable(d) /\ Drawable(s)
    /\ Store(d, [k \in Cells(nsize[d]) |->
                   IF k - x \in Cells(nsize[s]) THEN NContent[s][k - x] ELSE NContent[d][k]])
    /\ UNCHANGED <<nrun, nphase, ninUse, ngen, nsize, base, locked, nlockGen, bump>>

NAcquire(i) ==
    /\ MayAccess /\ ninUse[i] /\ ~locked[i]
    /\ locked' = [locked EXCEPT ![i] = TRUE]
    /\ UNCHANGED <<nrun, nphase, ninUse, ngen, nsize, base, nlockGen, bump, arena, fb>>

\* The cart stores through lock.pixels, which is the surface's buffer.
NLockWrite(i, cells, c) ==
    /\ nrun \in {"guest", "quit"} /\ locked[i]
    /\ Store(i, [k \in Cells(nsize[i]) |-> IF k \in cells THEN c ELSE NContent[i][k]])
    /\ UNCHANGED <<nrun, nphase, ninUse, ngen, nsize, base, locked, nlockGen, bump>>

\* The release resolves the token only: no phase gate.
NRelease(i) ==
    /\ nrun \in {"guest", "quit"} /\ locked[i]
    /\ locked' = [locked EXCEPT ![i] = FALSE]
    /\ nlockGen' = [nlockGen EXCEPT ![i] = NWrap(@)]
    /\ UNCHANGED <<nrun, nphase, ninUse, ngen, nsize, base, bump, arena, fb>>

\* blyt_frame_done ends with blyt_gfx_reap_surfaces.
NFrameDone ==
    /\ nrun = "guest" /\ nphase = "draw"
    /\ nrun' = "top"
    /\ ninUse' = [i \in Slots |-> i = Screen]
    /\ ngen' = [i \in Slots |-> IF i # Screen /\ ninUse[i] THEN NWrap(ngen[i]) ELSE ngen[i]]
    /\ nsize' = [i \in Slots |-> IF i = Screen THEN nsize[i] ELSE 0]
    /\ locked' = [i \in Slots |-> FALSE]
    /\ nlockGen' = [i \in Slots |-> IF locked[i] THEN NWrap(nlockGen[i]) ELSE nlockGen[i]]
    /\ bump' = 0
    /\ UNCHANGED <<nphase, base, arena, fb>>

NPhase(p) ==
    /\ \/ p = "init" /\ nrun = "guest" /\ nphase = "none"
       \/ p = "update" /\ nrun = "guest" /\ nphase = "init"
       \/ p = "update" /\ nrun = "top"
       \/ p = "draw" /\ nrun = "guest" /\ nphase = "update"
    /\ nphase' = p /\ nrun' = "guest"
    /\ UNCHANGED <<ninUse, ngen, nsize, base, locked, nlockGen, bump, arena, fb>>

NQuitLoop ==
    /\ nrun = "top" /\ nrun' = "quit"
    /\ UNCHANGED <<nphase, ninUse, ngen, nsize, base, locked, nlockGen, bump, arena, fb>>

NNext ==
    \/ \E i \in Slots, n \in Sizes : NCreate(i, n)
    \/ \E i \in Slots : NDestroy(i)
    \/ \E i \in Slots, c \in Color : \E cells \in Spans(nsize[i]) : NDraw(i, cells, c)
    \/ \E d, s \in Slots : \E x \in -nsize[s] .. nsize[d] : NBlit(d, s, x)
    \/ \E i \in Slots : NAcquire(i)
    \/ \E i \in Slots, c \in Color : \E cells \in Spans(nsize[i]) : NLockWrite(i, cells, c)
    \/ \E i \in Slots : NRelease(i)
    \/ NFrameDone
    \/ \E p \in {"init", "update", "draw"} : NPhase(p)
    \/ NQuitLoop

NSpec == NInit /\ [][NNext]_nvars

-----------------------------------------------------------------------------
(* Properties *)

\* Every field of the pool keeps its type.
NTypeOK ==
    /\ nrun \in {"guest", "top", "quit"}
    /\ nphase \in {"none", "init", "update", "draw"}
    /\ ninUse \in [Slots -> BOOLEAN] /\ locked \in [Slots -> BOOLEAN]
    /\ ngen \in [Slots -> 0 .. GenMod - 1] /\ nlockGen \in [Slots -> 0 .. GenMod - 1]
    /\ nsize \in [Slots -> Nat] /\ base \in [Slots -> Nat] /\ bump \in Nat
    /\ arena \in [Cells(NativeArena) -> Color]
    /\ fb \in [Cells(ScreenSize) -> Color]
    /\ ninUse[Screen] /\ nsize[Screen] = ScreenSize

\* The buffers of two live surfaces never overlap, although the pool neither
\* frees nor compacts: nobody can draw into a surface through another one.
BuffersDisjoint ==
    /\ bump <= NativeArena
    /\ \A i \in OffScreen : ninUse[i] => base[i] + nsize[i] <= bump
    /\ \A i, j \in OffScreen :
         ninUse[i] /\ ninUse[j] /\ i # j =>
            base[i] + nsize[i] <= base[j] \/ base[j] + nsize[j] <= base[i]

NAbs == INSTANCE SurfaceContract
          WITH phase <- nphase, live <- ninUse, gen <- ngen, size <- nsize, lockGen <- nlockGen,
               content <- NContent,
               held <- [i \in Slots |-> IF locked[i] THEN "lock" ELSE "none"]

\* The bare-metal pool keeps the same promises as the emulated registry.
NativeImplementsContract == NAbs!Contract

=============================================================================
