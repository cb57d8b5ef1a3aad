------------------------------ MODULE SurfaceLegs ------------------------------
(***************************************************************************)
(* The same release cart on the emulated leg (Surfaces) and on another one *)
(* of the legs that must not differ from it, call by call: bare metal      *)
(* (NativeSurfaces) or, for a pure-Lua cart, the host Lua VM of the        *)
(* desktop or the browser (LuaSurfaces).  A call one leg refuses is a      *)
(* no-op on that leg, so the two may drift apart; the frame hash compared  *)
(* across legs at every frame_done is what must not.  `Discipline` names   *)
(* the rules the cart, and its debugger, keep to:                          *)
(*   inPhase    surfaces are used inside draw() only;                      *)
(*   release    every lock is released before draw() returns;              *)
(*   drawFirst  the screen is drawn to before the first frame ends (a lock *)
(*              of it taken and released unwritten is not enough);         *)
(*   budget     all surfaces created in one frame fit the budget together, *)
(*              the ones destroyed in that frame included;                 *)
(*   lockOnce   a surface is locked at most once in a frame;               *)
(*   gfxFree    blyt32.gfx.* is not used while the screen is locked;       *)
(*   drawEach   the screen is drawn to in every frame;                     *)
(*   stopEarly  the debugger stops in update() only.                       *)
(* The last three are needed by the host Lua legs alone.                   *)
(***************************************************************************)
EXTENDS Integers, FiniteSets

CONSTANTS MaxSlots, ScreenSize, Sizes, Color, Blank, Card, GenMod, ArenaSize, LockAlign, Budget,
          MaxEpoch, Discipline

VARIABLES
    run, phase, inUse, gen, size, pix, lock, at, lockGen, surfaceBytes, lockBump, activeLocks, mem,
    hasDrawn,
    nrun, nphase, ninUse, ngen, nsize, base, locked, nlockGen, bump, arena, fb,
    lrun, luse, lgen, lpix, llocked, epoch, locks, drawn,
    peer,       \* the leg the emulated one is compared with
    lockedOnce, \* the surfaces the cart has locked in this frame
    painted     \* when the cart last drew to the screen: never, before or now

ReleaseCart == [debug |-> FALSE, hybrid |-> FALSE]

E == INSTANCE Surfaces
       WITH OtherUse <- {0}, Carts <- {ReleaseCart}, cart <- ReleaseCart, RawPath <- FALSE,
            GdbWasm <- FALSE
N == INSTANCE NativeSurfaces WITH NativeArena <- Budget
L == INSTANCE LuaSurfaces WITH host <- peer, MaxKept <- MaxSlots

evars == <<run, phase, inUse, gen, size, pix, lock, at, lockGen, surfaceBytes, lockBump,
           activeLocks, mem, hasDrawn>>
nvars == <<nrun, nphase, ninUse, ngen, nsize, base, locked, nlockGen, bump, arena, fb>>
lvars == <<lrun, luse, lgen, lpix, llocked, epoch, locks, drawn>>
rules == <<lockedOnce, painted>>
Painting(b) == painted' = IF b THEN "now" ELSE painted

Keeps(rule) == rule \in Discipline
InPhase == Keeps("inPhase") => phase = "draw"

\* What the other leg does: n on bare metal, l in a host Lua VM.
PeerStep(n, l) ==
    \/ peer = "native" /\ n /\ UNCHANGED lvars
    \/ peer # "native" /\ l /\ UNCHANGED nvars

\* One call of the cart: each leg does it, or refuses it.
Call(e, n, l) ==
    /\ e \/ (~ENABLED e /\ UNCHANGED evars)
    /\ PeerStep(n \/ (~ENABLED n /\ UNCHANGED nvars), l \/ (~ENABLED l /\ UNCHANGED lvars))
    /\ UNCHANGED peer

CallCreate ==
    /\ InPhase
    /\ \E size0 \in Sizes :
         /\ Keeps("budget") => IF peer = "native" THEN bump + size0 <= Budget
                               ELSE surfaceBytes + size0 <= Budget
         /\ Call(\E i \in E!Slots : E!SurfaceCreate(i, size0, 0),
                 \E i \in E!Slots : N!NCreate(i, size0),
                 \E i \in E!Slots : L!LCreate(i, size0))
    /\ UNCHANGED rules

CallDestroy ==
    /\ InPhase
    /\ \E i \in E!OffScreen : Call(E!SurfaceDestroy(i), N!NDestroy(i), L!LDestroy(i))
    /\ UNCHANGED rules

CallDraw ==
    /\ InPhase
    /\ \E i \in E!Slots, c \in Color : \E cells \in E!Spans(size[i]) :
         /\ Call(E!SurfaceDraw(i, cells, c), N!NDraw(i, cells, c), L!LDraw(i, cells, c))
         /\ Painting(i = E!Screen /\ ~E!Locked(i))
    /\ UNCHANGED lockedOnce

\* blyt32.gfx.*: on the emulated leg and on bare metal a call on BLYT_SCREEN.
CallGfx ==
    /\ InPhase
    /\ Keeps("gfxFree") => ~E!Locked(E!Screen)
    /\ \E c \in Color : \E cells \in E!Spans(ScreenSize) :
         Call(E!SurfaceDraw(E!Screen, cells, c), N!NDraw(E!Screen, cells, c), L!LGfx(cells, c))
    /\ Painting(~E!Locked(E!Screen))
    /\ UNCHANGED lockedOnce

CallBlit ==
    /\ InPhase
    /\ \E d, s \in E!Slots : \E x \in -size[s] .. size[d] :
         /\ Call(E!SurfaceBlit(d, s, x), N!NBlit(d, s, x), L!LBlit(d, s, x))
         /\ Painting(d = E!Screen /\ ENABLED E!SurfaceBlit(d, s, x))
    /\ UNCHANGED lockedOnce

CallAcquire ==
    /\ InPhase
    /\ \E i \in E!Slots :
         /\ Keeps("lockOnce") => i \notin lockedOnce
         /\ Call(E!SurfaceAcquire(i) \/ E!SurfaceAcquirePhantom(i), N!NAcquire(i), L!LAcquire(i))
         /\ lockedOnce' = lockedOnce \cup {i}
    /\ UNCHANGED painted

\* The cart stores through, or releases, the lock a leg gave it.
CallLockWrite ==
    /\ \E i \in E!Slots, c \in Color : \E cells \in E!Spans(size[i]) :
         /\ Call(E!LockWrite(i, cells, c), N!NLockWrite(i, cells, c),
                 \E lk \in locks : lk.slot = i /\ L!LLockWrite(lk, cells, c))
         /\ Painting(i = E!Screen /\ E!Locked(i))
    /\ UNCHANGED lockedOnce

CallRelease ==
    /\ \E i \in E!Slots :
         Call(E!SurfaceRelease(i), N!NRelease(i), \E lk \in locks : lk.slot = i /\ L!LRelease(lk))
    /\ UNCHANGED rules

\* A host Lua VM enters its frame loop, and reaps, where update() is called.
EnterPhase ==
    /\ \E p \in {"init", "update", "draw"} :
         /\ E!PhaseSignal(p)
         /\ PeerStep(N!NPhase(p), IF p = "update" THEN L!LRunFrame ELSE UNCHANGED lvars)
    /\ UNCHANGED <<peer, rules>>

\* A debugger stop in the browser leaves the frame loop and enters it anew; on
\* the emulated leg it parks the emulator.
StopInBrowser ==
    /\ Keeps("stopEarly") => phase = "update"
    /\ L!LPause
    /\ UNCHANGED <<evars, nvars, rules>>

ResumeInBrowser ==
    /\ lrun = "paused" /\ L!LRunFrame
    /\ UNCHANGED <<evars, nvars, rules>>

\* frame_done on both legs; the emulated one then waits for the next run_frame.
EndFrame ==
    /\ Keeps("release") => \A i \in E!Slots : ~E!Locked(i)
    /\ Keeps("drawFirst") => painted # "never"
    /\ Keeps("drawEach") /\ peer = "wasm" => painted = "now"
    /\ E!FrameDone /\ PeerStep(N!NFrameDone, L!LFrameDone)
    /\ lockedOnce' = {} /\ painted' = IF painted = "now" THEN "before" ELSE painted
    /\ UNCHANGED peer

StartFrame ==
    /\ E!RunFrame
    /\ UNCHANGED <<nvars, lvars, peer, rules>>

LegsInit ==
    /\ E!Init /\ N!NInit /\ L!LInit
    /\ peer \in {"native", "desktop", "wasm"}
    /\ lockedOnce = {} /\ painted = "never"

\* The model of a host Lua leg ends with its last frame.
Finished ==
    /\ epoch = MaxEpoch
    /\ UNCHANGED <<evars, nvars, lvars, peer, rules>>

\* The cart calls while both legs run it.
LegsNext ==
    \/ /\ run = "guest" /\ lrun # "paused"
       /\ \/ CallCreate \/ CallDestroy \/ CallDraw \/ CallGfx \/ CallBlit \/ CallAcquire
          \/ CallLockWrite \/ CallRelease
    \/ lrun # "paused" /\ (EnterPhase \/ EndFrame \/ StartFrame)
    \/ StopInBrowser \/ ResumeInBrowser \/ Finished

LegsSpec == LegsInit /\ [][LegsNext]_<<evars, nvars, lvars, peer, rules>>

-----------------------------------------------------------------------------
(* Properties *)

\* The cart cannot tell the legs apart.  At every frame_done of a cart that has
\* drawn both show the same screen: "the native bare-metal framebuffer hashes
\* identically to the host/wasm/libretro legs" (blyt32.c,
\* blyt_gfx_on_frame_boundary).  While it runs, the same surfaces are live under
\* the same handles, locked alike, and show the same pixels.
SameLegs ==
    /\ run = "done" /\ hasDrawn =>
         pix[E!Screen] = IF peer = "native" THEN fb ELSE L!Shown
    /\ run = "guest" /\ peer = "native" =>
         /\ inUse = ninUse /\ gen = ngen /\ lockGen = nlockGen
         /\ \A i \in E!Slots : E!Locked(i) = locked[i]
         /\ E!Content = N!NContent
    /\ run = "guest" /\ peer # "native" =>
         /\ inUse = luse /\ gen = lgen
         /\ \A i \in E!Slots : E!Locked(i) = llocked[i]
         /\ \A i \in E!Slots : E!Locked(i) <=> \E lk \in locks : lk.slot = i /\ L!LockLive(lk)
         /\ E!Content = lpix

=============================================================================
