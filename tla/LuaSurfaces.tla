------------------------------ MODULE LuaSurfaces ------------------------------
(***************************************************************************)
(* The surface pool of a pure-Lua cart, which runs in a host Lua VM with   *)
(* no emulator behind it: wasm_main.c in the browser, cart_run_hostlua.c   *)
(* on the desktop, one the mirror of the other.  A lock is a userdata that *)
(* keeps the buffer's address; what tells a lock of this frame from one    *)
(* whose surface is gone is the epoch, bumped where the pool is reaped.    *)
(* Nothing is gated by phase, and nothing is charged to a budget.          *)
(***************************************************************************)
EXTENDS Strips, FiniteSets

CONSTANTS
    MaxEpoch, \* frames of a run; the code counts 2^32, two years of them
    MaxKept   \* lock userdata the cart keeps without releasing them

VARIABLES
    host,    \* "desktop" or "wasm": which of the two programs this is
    lrun,    \* boot: the VM runs its body and init(); frame: update() and draw();
             \* paused: a debugger stop left the frame; out: between two frames
    luse,    \* surf[i].in_use
    lgen,    \* surf[i].gen
    lpix,    \* surf[i].pixels, of surf[i].w * surf[i].h cells
    llocked, \* surf[i].locked
    epoch,   \* lock_epoch
    locks,   \* the lock userdata not released yet: slot and generation of the
             \* handle, and the epoch captured at acquire
    drawn    \* hl->drawn, g_lua_drawn

lvars == <<host, lrun, luse, lgen, lpix, llocked, epoch, locks, drawn>>

LInit ==
    /\ lrun = "boot"
    /\ luse = [i \in Slots |-> i = Screen]
    /\ lgen = [i \in Slots |-> 0]
    /\ lpix = [i \in Slots |-> Filled(IF i = Screen THEN ScreenSize ELSE 0, Blank)]
    /\ llocked = [i \in Slots |-> FALSE]
    /\ epoch = 0 /\ locks = {}
    /\ drawn = FALSE

LuaRuns == lrun \in {"boot", "frame"}
LDrawable(i) == LuaRuns /\ luse[i] /\ ~llocked[i]
LDraws(i) == drawn' = (drawn \/ i = Screen)
Freed == Filled(0, Blank)
LSize(i) == Cardinality(DOMAIN lpix[i])

\* surface.create: the lowest free slot, as long as there is one.
LCreate(i, n) ==
    /\ LuaRuns
    /\ i \in OffScreen /\ ~luse[i] /\ \A j \in OffScreen : ~luse[j] => i <= j
    /\ luse' = [luse EXCEPT ![i] = TRUE]
    /\ lpix' = [lpix EXCEPT ![i] = Filled(n, Blank)]
    /\ UNCHANGED <<host, lrun, lgen, llocked, epoch, locks, drawn>>

\* Mutant of LDestroy: the lock is not asked for.
LDestroyLocked(i) ==
    /\ LuaRuns /\ luse[i] /\ i # Screen
    /\ luse' = [luse EXCEPT ![i] = FALSE]
    /\ lgen' = [lgen EXCEPT ![i] = (@ + 1) % GenMod]
    /\ lpix' = [lpix EXCEPT ![i] = Freed]
    /\ UNCHANGED <<host, lrun, llocked, epoch, locks, drawn>>

LDestroy(i) ==
    /\ LDrawable(i) /\ i # Screen
    /\ luse' = [luse EXCEPT ![i] = FALSE]
    /\ lgen' = [lgen EXCEPT ![i] = (@ + 1) % GenMod]
    /\ lpix' = [lpix EXCEPT ![i] = Freed]
    /\ UNCHANGED <<host, lrun, llocked, epoch, locks, drawn>>

LDraw(i, cells, c) ==
    /\ LDrawable(i)
    /\ lpix' = [lpix EXCEPT ![i] = Paint(@, cells, c)]
    /\ LDraws(i)
    /\ UNCHANGED <<host, lrun, luse, lgen, llocked, epoch, locks>>

LBlit(d, s, x) ==
    /\ LDrawable(d) /\ LDrawable(s)
    /\ lpix' = [lpix EXCEPT ![d] = Blit(@, lpix[s], x)]
    /\ LDraws(d)
    /\ UNCHANGED <<host, lrun, luse, lgen, llocked, epoch, locks>>

\* gfx.clear .. line: into the framebuffer, whether the screen is locked or not.
LGfx(cells, c) ==
    /\ LuaRuns
    /\ lpix' = [lpix EXCEPT ![Screen] = Paint(@, cells, c)]
    /\ drawn' = TRUE
    /\ UNCHANGED <<host, lrun, luse, lgen, llocked, epoch, locks>>

LAcquire(i) ==
    /\ LDrawable(i)
    /\ Cardinality(locks) < MaxKept
    /\ llocked' = [llocked EXCEPT ![i] = TRUE]
    /\ locks' = locks \cup {[slot |-> i, gen |-> lgen[i], epoch |-> epoch]}
    /\ UNCHANGED <<host, lrun, luse, lgen, lpix, epoch, drawn>>

\* A lock method tests that its lock was not released and is of this epoch, and
\* nothing else: it then writes through the address kept at acquire.
LockLive(lk) == lk \in locks /\ lk.epoch = epoch

LLockWrite(lk, cells, c) ==
    /\ LuaRuns /\ LockLive(lk)
    /\ lpix' = [lpix EXCEPT ![lk.slot] = Paint(@, cells, c)]
    /\ LDraws(lk.slot)
    /\ UNCHANGED <<host, lrun, luse, lgen, llocked, epoch, locks>>

\* A stale lock is marked released too, and unlocks nothing.
LRelease(lk) ==
    /\ LuaRuns /\ lk \in locks
    /\ llocked' = [llocked EXCEPT ![lk.slot] =
                     @ /\ ~(LockLive(lk) /\ luse[lk.slot] /\ lgen[lk.slot] = lk.gen)]
    /\ locks' = locks \ {lk}
    /\ UNCHANGED <<host, lrun, luse, lgen, lpix, epoch, drawn>>

\* Reap the surfaces and the locks of the frame before, and make its lock
\* userdata stale.  The browser's loop comes here for a resumed frame as well,
\* and forgets there what the frame has drawn.
LReap ==
    /\ luse' = [i \in Slots |-> i = Screen]
    /\ lgen' = [i \in Slots |->
                  IF i # Screen /\ luse[i] THEN (lgen[i] + 1) % GenMod ELSE lgen[i]]
    /\ lpix' = [i \in Slots |-> IF i = Screen THEN lpix[i] ELSE Freed]
    /\ llocked' = [i \in Slots |-> IF i = Screen \/ luse[i] THEN FALSE ELSE llocked[i]]

LRunFrame ==
    /\ lrun # "frame" /\ lrun' = "frame"
    /\ epoch < MaxEpoch /\ epoch' = epoch + 1
    /\ LReap
    /\ drawn' = IF host = "wasm" THEN FALSE ELSE drawn
    /\ UNCHANGED <<host, locks>>

\* On the desktop a stop waits inside the hook; in the browser it yields.
LPause ==
    /\ host = "wasm" /\ lrun = "frame" /\ lrun' = "paused"
    /\ UNCHANGED <<host, luse, lgen, lpix, llocked, epoch, locks, drawn>>

CardScreen == Filled(ScreenSize, Card)

\* The end of a frame: on the desktop the test card goes into the framebuffer
\* itself, as long as the cart has never drawn.
LFrameDone ==
    /\ lrun = "frame" /\ lrun' = "out"
    /\ lpix' = IF host = "desktop" /\ ~drawn THEN [lpix EXCEPT ![Screen] = CardScreen] ELSE lpix
    /\ UNCHANGED <<host, luse, lgen, llocked, epoch, locks, drawn>>

\* What is presented and hashed then: in the browser the card has a buffer of
\* its own, and shows whenever this frame drew nothing.
Shown == IF host = "wasm" /\ ~drawn THEN CardScreen ELSE lpix[Screen]

\* A reset, a restart or a reload builds a new VM over the pool as it is; the
\* lock userdata go with the old VM.
LRebuild ==
    /\ lrun # "frame" /\ lrun' = "boot"
    /\ locks' = {}
    /\ UNCHANGED <<host, luse, lgen, lpix, llocked, epoch, drawn>>

LNext ==
    \/ \E i \in Slots, n \in Sizes : LCreate(i, n)
    \/ \E i \in Slots : LDestroy(i)
    \/ \E i \in Slots, c \in Color : \E cells \in Spans(LSize(i)) : LDraw(i, cells, c)
    \/ \E d, s \in Slots : \E x \in -LSize(s) .. LSize(d) : LBlit(d, s, x)
    \/ \E c \in Color : \E cells \in Spans(ScreenSize) : LGfx(cells, c)
    \/ \E i \in Slots : LAcquire(i)
    \/ \E lk \in locks, c \in Color :
         \E cells \in Spans(LSize(lk.slot)) : LLockWrite(lk, cells, c)
    \/ \E lk \in locks : LRelease(lk)
    \/ LRunFrame \/ LPause \/ LFrameDone \/ LRebuild

LSpec == host \in {"desktop", "wasm"} /\ LInit /\ [][LNext]_lvars

-----------------------------------------------------------------------------
(* Properties *)

\* A lock method that does not reject its lock writes into the surface the lock
\* was taken on: the epoch is all it tests, and it is enough, through destroys,
\* reaps, debugger stops and rebuilt VMs.  Otherwise lk:set would write through
\* the address of a freed buffer ("reject rather than touch freed memory",
\* wasm_main.c at the epoch's bump).
LiveLocksOwn ==
    \A lk \in locks : lk.epoch = epoch =>
        luse[lk.slot] /\ llocked[lk.slot] /\ lgen[lk.slot] = lk.gen

=============================================================================
