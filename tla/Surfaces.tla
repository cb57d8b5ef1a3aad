------------------------------- MODULE Surfaces --------------------------------
(***************************************************************************)
(* The surface registry of the emulated leg (cart_run.c).  The canonical   *)
(* buffer of a surface lives in the host (`pix`).  A tier-2 lock carves a  *)
(* region of the guest address gap with a bump allocator (`mem`, `at`,     *)
(* `lockBump`), copies the buffer into it and copies it back on release.   *)
(* The legacy raw framebuffer path (gfx_acquire / gfx_present) uses the    *)
(* start of that same gap.  In a hybrid cart the host-Lua half drives the  *)
(* same registry through pointers to the canonical buffers.                *)
(***************************************************************************)
EXTENDS Strips, FiniteSets, Functions

CONSTANTS
    ArenaSize,  \* BLYT_SURFACE_LOCK_ARENA_SIZE
    LockAlign,  \* lock regions are rounded up to 4 bytes
    Budget,     \* the 16 MiB budget of blyt_mem_budget.h
    OtherUse,   \* what heap, resources and peer heap may already charge
    Carts,      \* the kinds of cart that may run: see `cart`
    RawPath,    \* the cart uses the paths that ask for no lock: gfx_acquire /
                \* gfx_present, and blyt32.gfx.* of a hybrid's host-Lua half
    GdbWasm     \* a GDB stop returns from run_frame in the middle of a frame

ASSUME SurfacesAssumption ==
    /\ MaxSlots \in Nat \ {0}
    /\ ScreenSize \in Nat
    /\ Sizes \subseteq Nat
    /\ Blank \in Color /\ Card \in Color
    /\ GenMod \in Nat \ {0}
    /\ ArenaSize \in Nat /\ ScreenSize <= ArenaSize
    /\ LockAlign \in Nat \ {0}
    /\ Budget \in Nat /\ OtherUse \subseteq Nat
    /\ Carts \subseteq [debug : BOOLEAN, hybrid : BOOLEAN]
    /\ {RawPath, GdbWasm} \subseteq BOOLEAN

VARIABLES
    cart,         \* the loaded cart; debug: cart_is_debug, misuse halts instead
                  \* of being dropped; hybrid: a host-Lua half drives the frame
                  \* and calls into the guest
    run,          \* who executes: see Runs
    phase,        \* ctx.phase
    inUse,        \* slots[i].in_use
    gen,          \* slots[i].gen
    size,         \* slots[i].w * slots[i].h
    pix,          \* slots[i].pixels, the canonical buffers
    lock,         \* slots[i].locked / lock_phantom / lock_direct
    at,           \* slots[i].lock_vaddr, as an offset into the gap
    lockGen,      \* slots[i].lock_gen
    surfaceBytes, \* registry.surface_bytes
    lockBump,     \* registry.lock_bump
    activeLocks,  \* registry.active_locks
    mem,          \* the guest memory of the gap
    hasDrawn      \* session.cart_has_drawn (or the host-Lua half's flag)

registry == <<inUse, gen, size, pix, lock, at, lockGen, surfaceBytes, lockBump, activeLocks>>
vars == <<cart, run, phase, registry, mem, hasDrawn>>

Locks == {"none", "copy", "phantom", "direct"}
Phases == {"none", "init", "update", "draw"}
\* idle: before the first frame; guest: the cart runs; top: it was resumed
\* behind frame_done; quit: it left its loop; host: the host-Lua half runs;
\* paused: a GDB stop left run_frame; done: the frame ended; fault: dev_fault.
Runs == {"idle", "guest", "top", "quit", "host", "paused", "done", "fault"}

Locked(i) == lock[i] # "none"
Region(i) == at[i] + 1 .. at[i] + size[i]
View(i) == [k \in Cells(size[i]) |-> mem[at[i] + k]]
Aligned(n) == n + ((-n) % LockAlign)
\* Mutant of Wrap: the increment forgotten.
WrapForgotten(g) == g

Wrap(g) == (g + 1) % GenMod

GuestRuns == run \in {"guest", "quit"}
Draws(i) == hasDrawn' = (hasDrawn \/ i = Screen)

Init ==
    /\ cart \in Carts
    /\ run = "idle"
    /\ phase = "none"
    /\ inUse = [i \in Slots |-> i = Screen]
    /\ gen = [i \in Slots |-> 0]
    /\ size = [i \in Slots |-> IF i = Screen THEN ScreenSize ELSE 0]
    /\ pix = [i \in Slots |-> Filled(IF i = Screen THEN ScreenSize ELSE 0, Blank)]
    /\ lock = [i \in Slots |-> "none"]
    /\ at = [i \in Slots |-> 0]
    /\ lockGen = [i \in Slots |-> 0]
    /\ surfaceBytes = 0 /\ lockBump = 0 /\ activeLocks = 0
    /\ mem = Filled(ArenaSize, Blank)
    /\ hasDrawn = FALSE

-----------------------------------------------------------------------------
(* The registry's operations, shared by the ECALL handlers and the host API *)

\* blyt_surface_create_slot: the lowest free slot, and only if the bytes fit
\* beside what everything else charges.  Any other outcome is BLYT_HANDLE_NONE.
FirstFree(i) ==
    /\ i \in OffScreen /\ ~inUse[i]
    /\ \A j \in OffScreen : ~inUse[j] => i <= j

CreateSlot(i, n, other) ==
    /\ FirstFree(i)
    /\ other + surfaceBytes + n <= Budget
    /\ inUse' = [inUse EXCEPT ![i] = TRUE]
    /\ size' = [size EXCEPT ![i] = n]
    /\ pix' = [pix EXCEPT ![i] = Filled(n, Blank)]
    /\ surfaceBytes' = surfaceBytes + n
    /\ UNCHANGED <<gen, lock, at, lockGen, lockBump, activeLocks, mem, hasDrawn>>

\* blyt_surface_free_slot, reached for an unlocked off-screen surface only.
FreeSlot(i) ==
    /\ i \in OffScreen /\ inUse[i] /\ ~Locked(i)
    /\ inUse' = [inUse EXCEPT ![i] = FALSE]
    /\ gen' = [gen EXCEPT ![i] = Wrap(@)]
    /\ size' = [size EXCEPT ![i] = 0]
    /\ pix' = [pix EXCEPT ![i] = Filled(0, Blank)]
    /\ surfaceBytes' = surfaceBytes - size[i]
    /\ UNCHANGED <<lock, at, lockGen, lockBump, activeLocks, mem, hasDrawn>>

\* A tier-1 operation on an unlocked surface (clear, pixel, rect_fill, line).
DrawSlot(i, cells, c) ==
    /\ inUse[i] /\ ~Locked(i)
    /\ pix' = [pix EXCEPT ![i] = Paint(@, cells, c)]
    /\ Draws(i)
    /\ UNCHANGED <<inUse, gen, size, lock, at, lockGen, surfaceBytes, lockBump, activeLocks, mem>>

BlitSlot(d, s, x) ==
    /\ inUse[d] /\ inUse[s] /\ ~Locked(d) /\ ~Locked(s)
    /\ pix' = [pix EXCEPT ![d] = Blit(@, pix[s], x)]
    /\ Draws(d)
    /\ UNCHANGED <<inUse, gen, size, lock, at, lockGen, surfaceBytes, lockBump, activeLocks, mem>>

\* blyt_surface_acquire_lock: copy the buffer into a fresh region of the gap;
\* an acquire outside draw() (a phantom) materialises zeros instead.
AcquireLock(i, kind) ==
    /\ inUse[i] /\ ~Locked(i)
    /\ lockBump + Aligned(size[i]) <= ArenaSize
    /\ at' = [at EXCEPT ![i] = lockBump]
    /\ lockBump' = lockBump + Aligned(size[i])
    /\ activeLocks' = activeLocks + 1
    /\ lock' = [lock EXCEPT ![i] = kind]
    /\ mem' = [a \in Cells(ArenaSize) |->
                 IF a - lockBump \in Cells(size[i])
                 THEN IF kind = "phantom" THEN Blank ELSE pix[i][a - lockBump]
                 ELSE mem[a]]
    /\ UNCHANGED <<inUse, gen, size, pix, lockGen, surfaceBytes, hasDrawn>>

\* Mutant of AcquireDirect: the lock is not counted.
AcquireDirectUncounted(i) ==
    /\ inUse[i] /\ ~Locked(i)
    /\ at' = [at EXCEPT ![i] = 0]
    /\ lock' = [lock EXCEPT ![i] = "direct"]
    /\ UNCHANGED <<inUse, gen, size, pix, lockGen, surfaceBytes, lockBump, activeLocks, mem, hasDrawn>>

\* blyt_session_surface_acquire: the host-Lua half gets the buffer itself.
AcquireDirect(i) ==
    /\ inUse[i] /\ ~Locked(i)
    /\ at' = [at EXCEPT ![i] = 0]
    /\ activeLocks' = activeLocks + 1
    /\ lock' = [lock EXCEPT ![i] = "direct"]
    /\ UNCHANGED <<inUse, gen, size, pix, lockGen, surfaceBytes, lockBump, mem, hasDrawn>>

\* Mutants of Flushed: a phantom lock is written back too, no lock is.
FlushedPhantom(i) == IF lock[i] \in {"copy", "phantom"} THEN View(i) ELSE pix[i]
FlushedNever(i) == pix[i]

\* blyt_surface_flush_lock: only a copy lock is written back; the arena is
\* reclaimed when the last lock goes.
Flushed(i) == IF lock[i] = "copy" THEN View(i) ELSE pix[i]

ReleaseLock(i) ==
    /\ Locked(i)
    /\ pix' = [pix EXCEPT ![i] = Flushed(i)]
    /\ lock' = [lock EXCEPT ![i] = "none"]
    /\ lockGen' = [lockGen EXCEPT ![i] = Wrap(@)]
    /\ activeLocks' = IF activeLocks > 0 THEN activeLocks - 1 ELSE 0
    /\ lockBump' = IF activeLocks' = 0 THEN 0 ELSE lockBump
    /\ UNCHANGED <<inUse, gen, size, at, surfaceBytes, mem>>

\* blyt_surface_reap_all: flush every lock, then free every off-screen slot.
Reap ==
    /\ inUse' = [i \in Slots |-> i = Screen]
    /\ gen' = [i \in Slots |-> IF i # Screen /\ inUse[i] THEN Wrap(gen[i]) ELSE gen[i]]
    /\ size' = [i \in Slots |-> IF i = Screen THEN size[i] ELSE 0]
    /\ pix' = [i \in Slots |-> IF i = Screen THEN Flushed(i) ELSE Filled(0, Blank)]
    /\ lock' = [i \in Slots |-> "none"]
    /\ lockGen' = [i \in Slots |-> IF Locked(i) THEN Wrap(lockGen[i]) ELSE lockGen[i]]
    /\ surfaceBytes' = surfaceBytes - SumFunctionOnSet(size, {i \in OffScreen : inUse[i]})
    /\ lockBump' = 0 /\ activeLocks' = 0
    /\ UNCHANGED <<at, mem, hasDrawn>>

-----------------------------------------------------------------------------
(* The cart's calls.  A call the gates refuse is a no-op in a release cart  *)
(* and halts a debug cart (Misuse); drawing is for draw() only.             *)

ControlUnchanged == UNCHANGED <<run, phase>>

SurfaceCreate(i, n, other) ==
    GuestRuns /\ phase = "draw" /\ CreateSlot(i, n, other) /\ ControlUnchanged

SurfaceDestroy(i) ==
    GuestRuns /\ FreeSlot(i) /\ ControlUnchanged

SurfaceDraw(i, cells, c) ==
    GuestRuns /\ phase = "draw" /\ DrawSlot(i, cells, c) /\ ControlUnchanged

SurfaceBlit(d, s, x) ==
    GuestRuns /\ phase = "draw" /\ BlitSlot(d, s, x) /\ ControlUnchanged

SurfaceAcquire(i) ==
    GuestRuns /\ phase = "draw" /\ AcquireLock(i, "copy") /\ ControlUnchanged

\* An acquire outside draw() in a release cart: a lock that reads as cleared.
SurfaceAcquirePhantom(i) ==
    GuestRuns /\ phase # "draw" /\ ~cart.debug /\ AcquireLock(i, "phantom") /\ ControlUnchanged

\* The cart writes through lock.pixels: plain stores to guest memory.
LockWrite(i, cells, c) ==
    /\ GuestRuns
    /\ lock[i] \in {"copy", "phantom"}
    /\ mem' = [a \in Cells(ArenaSize) |-> IF a - at[i] \in cells THEN c ELSE mem[a]]
    /\ UNCHANGED <<run, phase, registry, hasDrawn>>

\* The release of a copy or phantom lock by its token; on the screen it counts
\* as a draw either way.
SurfaceRelease(i) ==
    /\ GuestRuns
    /\ lock[i] \in {"copy", "phantom"}
    /\ ReleaseLock(i)
    /\ Draws(i)
    /\ ControlUnchanged

\* The gates in a debug cart: a surface call outside draw(), or through the
\* handle of a locked surface, raises dev_fault and halts the emulator.
Misuse ==
    /\ GuestRuns /\ cart.debug
    /\ phase # "draw" \/ \E i \in Slots : inUse[i] /\ Locked(i)
    /\ run' = "fault"
    /\ UNCHANGED <<phase, registry, mem, hasDrawn>>

\* gfx_acquire returns the start of the gap; the cart stores there, and
\* gfx_present copies the region over the screen's canonical buffer.
GfxWrite(k, c) ==
    /\ RawPath /\ GuestRuns
    /\ k \in Cells(ScreenSize)
    /\ mem' = [mem EXCEPT ![k] = c]
    /\ UNCHANGED <<run, phase, registry, hasDrawn>>

GfxPresent ==
    /\ RawPath /\ GuestRuns
    /\ pix' = [pix EXCEPT ![Screen] = [k \in Cells(ScreenSize) |-> mem[k]]]
    /\ hasDrawn' = TRUE
    /\ UNCHANGED <<inUse, gen, size, lock, at, lockGen, surfaceBytes, lockBump, activeLocks, mem>>
    /\ ControlUnchanged

\* The order in which blyt_main signals its phases.
PhaseSignal(p) ==
    /\ ~cart.hybrid
    /\ \/ p = "init" /\ run = "guest" /\ phase = "none"
       \/ p = "update" /\ run = "guest" /\ phase = "init"
       \/ p = "update" /\ run = "top"
       \/ p = "draw" /\ run = "guest" /\ phase = "update"
    /\ phase' = p /\ run' = "guest"
    /\ UNCHANGED <<registry, mem, hasDrawn>>

\* The loop condition failed: on_quit and cleanup run, still in phase DRAW.
QuitLoop ==
    /\ run = "top" /\ run' = "quit"
    /\ UNCHANGED <<phase, registry, mem, hasDrawn>>

-----------------------------------------------------------------------------
(* The frame loop of the host *)

\* Mutant of RunFrame: a frame entered anew does not reap.
RunFrameReapless ==
    /\ ~cart.hybrid
    /\ run \in {"idle", "done", "paused"}
    /\ run' = IF run = "done" THEN "top" ELSE "guest"
    /\ UNCHANGED <<phase, registry, mem, hasDrawn>>

\* run_frame: the previous frame's surfaces are reaped at the entry, whether
\* that is a new frame or the resumption of one a GDB stop had left.
RunFrame ==
    /\ ~cart.hybrid
    /\ run \in {"idle", "done", "paused"}
    /\ Reap
    /\ run' = IF run = "done" THEN "top" ELSE "guest"
    /\ UNCHANGED phase

\* BLYT_ECALL_FRAME_DONE and the tail of run_frame: the test card fills the
\* canonical screen as long as the cart has drawn nothing.
TestCard ==
    /\ pix' = IF hasDrawn THEN pix ELSE [pix EXCEPT ![Screen] = Filled(ScreenSize, Card)]
    /\ UNCHANGED <<inUse, gen, size, lock, at, lockGen, surfaceBytes, lockBump, activeLocks, mem,
                   hasDrawn>>

FrameDone ==
    /\ ~cart.hybrid /\ run = "guest" /\ phase = "draw"
    /\ run' = "done"
    /\ TestCard
    /\ UNCHANGED phase

GdbPause ==
    /\ GdbWasm /\ ~cart.hybrid /\ run = "guest"
    /\ run' = "paused"
    /\ UNCHANGED <<phase, registry, mem, hasDrawn>>

-----------------------------------------------------------------------------
(* A hybrid cart: the host-Lua half runs the frame loop and draws through   *)
(* the session's registry, not phase-gated; calls into the guest do not     *)
(* reap.                                                                    *)

HostRunFrame ==
    /\ cart.hybrid /\ run \in {"idle", "done"}
    /\ Reap
    /\ run' = "host"
    /\ UNCHANGED phase

HostPhase(p) ==
    /\ run = "host"
    /\ <<phase, p>> \in {<<"none", "update">>, <<"update", "draw">>, <<"draw", "none">>}
    /\ phase' = p
    /\ UNCHANGED <<run, registry, mem, hasDrawn>>

HostFrameDone ==
    /\ run = "host" /\ phase = "none"
    /\ run' = "done"
    /\ TestCard
    /\ UNCHANGED phase

HostCallGuest ==
    /\ run = "host" /\ run' = "guest"
    /\ UNCHANGED <<phase, registry, mem, hasDrawn>>

GuestReturn ==
    /\ cart.hybrid /\ run = "guest" /\ run' = "host"
    /\ UNCHANGED <<phase, registry, mem, hasDrawn>>

HostCreate(i, n, other) == run = "host" /\ CreateSlot(i, n, other) /\ ControlUnchanged

HostDestroy(i) == run = "host" /\ FreeSlot(i) /\ ControlUnchanged

HostDraw(i, cells, c) == run = "host" /\ DrawSlot(i, cells, c) /\ ControlUnchanged

\* blyt32.gfx.* of the host-Lua half rasterises into the session's canonical
\* screen buffer without asking whether the screen is locked.
HostGfx(cells, c) ==
    /\ RawPath /\ run = "host"
    /\ pix' = [pix EXCEPT ![Screen] = Paint(@, cells, c)]
    /\ hasDrawn' = TRUE
    /\ UNCHANGED <<inUse, gen, size, lock, at, lockGen, surfaceBytes, lockBump, activeLocks, mem>>
    /\ ControlUnchanged

HostBlit(d, s, x) == run = "host" /\ BlitSlot(d, s, x) /\ ControlUnchanged

HostAcquire(i) == run = "host" /\ AcquireDirect(i) /\ ControlUnchanged

HostLockWrite(i, cells, c) ==
    /\ run = "host" /\ lock[i] = "direct"
    /\ pix' = [pix EXCEPT ![i] = Paint(@, cells, c)]
    /\ Draws(i)
    /\ UNCHANGED <<inUse, gen, size, lock, at, lockGen, surfaceBytes, lockBump, activeLocks, mem>>
    /\ ControlUnchanged

HostRelease(i) ==
    /\ run = "host" /\ lock[i] = "direct"
    /\ ReleaseLock(i)
    /\ UNCHANGED hasDrawn
    /\ ControlUnchanged

-----------------------------------------------------------------------------

GuestNext ==
    \/ \E i \in Slots, n \in Sizes, other \in OtherUse : SurfaceCreate(i, n, other)
    \/ \E i \in Slots : SurfaceDestroy(i)
    \/ \E i \in Slots, c \in Color : \E cells \in Spans(size[i]) : SurfaceDraw(i, cells, c)
    \/ \E d, s \in Slots : \E x \in -size[s] .. size[d] : SurfaceBlit(d, s, x)
    \/ \E i \in Slots : SurfaceAcquire(i)
    \/ \E i \in Slots : SurfaceAcquirePhantom(i)
    \/ \E i \in Slots, c \in Color : \E cells \in Spans(size[i]) : LockWrite(i, cells, c)
    \/ \E i \in Slots : SurfaceRelease(i)
    \/ Misuse
    \/ \E k \in Cells(ScreenSize), c \in Color : GfxWrite(k, c)
    \/ GfxPresent
    \/ \E p \in Phases : PhaseSignal(p)
    \/ QuitLoop

HostNext ==
    \/ \E i \in Slots, n \in Sizes, other \in OtherUse : HostCreate(i, n, other)
    \/ \E i \in Slots : HostDestroy(i)
    \/ \E i \in Slots, c \in Color : \E cells \in Spans(size[i]) : HostDraw(i, cells, c)
    \/ \E d, s \in Slots : \E x \in -size[s] .. size[d] : HostBlit(d, s, x)
    \/ \E c \in Color : \E cells \in Spans(ScreenSize) : HostGfx(cells, c)
    \/ \E i \in Slots : HostAcquire(i)
    \/ \E i \in Slots, c \in Color : \E cells \in Spans(size[i]) : HostLockWrite(i, cells, c)
    \/ \E i \in Slots : HostRelease(i)
    \/ \E p \in Phases : HostPhase(p)
    \/ HostCallGuest

FrameNext == RunFrame \/ FrameDone \/ GdbPause \/ HostRunFrame \/ HostFrameDone \/ GuestReturn

Next == (GuestNext \/ HostNext \/ FrameNext) /\ UNCHANGED cart

Spec == Init /\ [][Next]_vars

-----------------------------------------------------------------------------
(* Properties *)

ControlTypeOK == run \in Runs /\ phase \in Phases /\ hasDrawn \in BOOLEAN

RegistryTypeOK ==
    /\ inUse \in [Slots -> BOOLEAN]
    /\ gen \in [Slots -> 0 .. GenMod - 1] /\ lockGen \in [Slots -> 0 .. GenMod - 1]
    /\ size \in [Slots -> Nat] /\ at \in [Slots -> Nat]
    /\ DOMAIN pix = Slots /\ pix = [i \in Slots |-> pix[i]]
    /\ \A i \in Slots : pix[i] \in [Cells(size[i]) -> Color]
    /\ lock \in [Slots -> Locks]
    /\ lockBump \in Nat /\ activeLocks \in Nat
    /\ mem \in [Cells(ArenaSize) -> Color]
    /\ inUse[Screen] /\ size[Screen] = ScreenSize

\* Every registry field keeps its type, the buffers their slot's size, and the
\* screen its slot.
TypeOK == ControlTypeOK /\ RegistryTypeOK

ArenaLocks == {i \in Slots : lock[i] \in {"copy", "phantom"}}

LocksAccounted ==
    /\ activeLocks = Cardinality({i \in Slots : Locked(i)})
    /\ \A i \in Slots : Locked(i) => inUse[i]

LockRegionsDisjoint ==
    /\ lockBump <= ArenaSize
    /\ \A i \in ArenaLocks : at[i] + size[i] <= lockBump
    /\ \A i, j \in ArenaLocks :
         i # j => at[i] + size[i] <= at[j] \/ at[j] + size[j] <= at[i]

\* The lock arena is sound.  active_locks is the number of locked slots, and only
\* a live surface is locked, so the bump is reset exactly when no lock is left,
\* although guest ECALLs, the host-Lua half and the reap all take locks back.
\* And the regions of two locks never overlap and stay below the bump, inside
\* the gap: a write through one lock cannot reach another surface.
LockArenaSound == LocksAccounted /\ LockRegionsDisjoint

\* "Surfaces are draw-scoped" (blyt.h): when a cart that is not a hybrid runs its
\* init or update code, no off-screen surface and no writing lock of an earlier
\* draw() is left, although the reap happens at the entry of the next run_frame.
DrawScoped ==
    ~cart.hybrid /\ phase # "draw" =>
        \A i \in Slots : (i # Screen => ~inUse[i]) /\ lock[i] # "copy"

\* What a reader of surface i sees: the view while a copy lock holds it.
Content == [i \in Slots |-> Flushed(i)]
Held == [i \in Slots |-> IF lock[i] \in {"copy", "direct"} THEN "lock" ELSE lock[i]]

Abs == INSTANCE SurfaceContract WITH live <- inUse, content <- Content, held <- Held

\* The copying registry behaves as if every surface were one buffer: copy-in,
\* copy-out, the phantom locks, the direct locks of the host-Lua half and the
\* reap never lose, leak or duplicate a pixel write.
ImplementsContract == Abs!Contract

-----------------------------------------------------------------------------
(* What comments say and the code does not keep: TLC finds a counterexample *)
(* to each, with RawPath and with GdbWasm.                                  *)

\* A raw framebuffer store touches no surface: "nothing else maps here" (the
\* comment at BLYT_GFX_FB_BASE).
RawRegionPrivate ==
    [][\A k \in Cells(ScreenSize), c \in Color : GfxWrite(k, c) => Content' = Content]_vars

\* Resuming a frame keeps its surfaces: they are "reaped automatically at the
\* end of draw()" (blyt.h) and a debugger stop does not end draw().
StopKeepsSurfaces == [][run = "paused" => inUse' = inUse]_vars

=============================================================================
