------------------------------ MODULE CartLife ------------------------------
(***************************************************************************)
(* One cart inside one virtual machine, as the operations that drive it    *)
(* see it: the callbacks it has run, its transient and its saved state,    *)
(* and what frames, hooks, cart swaps and rebuilds make of them.  The      *)
(* operations of the rv32 session (cart_run.c) and of the host-Lua runner  *)
(* (cart_run_hostlua.c, wasm_main.c) are operators on the record `vm`:     *)
(*   code, assets  the build and the asset version in the machine          *)
(*   base          the load base of a session's image                      *)
(*   life          fresh (no callback ran since the statics were blank),   *)
(*                 inited, ended (cleanup ran)                             *)
(*   live, bufs    transient progress, and the copy in the state buffers   *)
(*   quit, halt    the quit latch; how the machine stopped                 *)
(*   sound         no callback has run out of its lifecycle order so far   *)
(* A step of the cart is taken from Plays: it plays on, asks to quit,      *)
(* exits at once, or traps.                                                *)
(***************************************************************************)
EXTENDS Naturals, Sequences, FiniteSets

CONSTANTS Codes,     \* the builds of the cart, 1..n
          MaxLive,   \* bound on the cart's progress
          MaxLibs,   \* MAX_GDB_LIBS
          MaxTicks   \* BLYT_RELOAD_NOTIFY_MAX_TICKS

ASSUME LifeBounds == MaxLibs \in Nat \ {0} /\ MaxTicks \in Nat \ {0} /\ MaxLive \in Nat \ {0}

ASSUME CodesAreNumbered == Cardinality(Codes) \in Nat \ {0} /\ Codes = 1 .. Cardinality(Codes)

Plays == {"play", "quit", "exit", "trap"}
Bases == {"native", "A", "B"}
Lives == {"fresh", "inited", "ended"}
Halts == {"no", "exit", "trap", "stuck"}

Vms == [code : Codes, assets : Codes, base : Bases, life : Lives, live : 0 .. MaxLive,
        bufs : 0 .. MaxLive, quit : BOOLEAN, halt : Halts, exited : BOOLEAN, sound : BOOLEAN]

Fresh(b) == [code |-> b.code, assets |-> b.code, base |-> "native", life |-> "fresh",
             live |-> 0, bufs |-> 0, quit |-> FALSE, halt |-> "no", exited |-> FALSE,
             sound |-> TRUE]

(* ------------------------------ the cart ------------------------------ *)

Ordered(c, lives) == c.sound /\ c.life \in lives

init(c) == [c EXCEPT !.sound = Ordered(c, {"fresh"}), !.life = "inited", !.live = 0]
on_new_state(c) == [c EXCEPT !.sound = Ordered(c, {"inited"}), !.live = 1]
update(c) == [c EXCEPT !.sound = Ordered(c, {"inited"}),
                       !.live = IF @ < MaxLive THEN @ + 1 ELSE @]
on_save_state(c) == [c EXCEPT !.sound = Ordered(c, {"inited"}), !.bufs = c.live]
on_load_state(c) == [c EXCEPT !.sound = Ordered(c, {"inited"}), !.live = c.bufs]
on_assets_reloaded(c) == [c EXCEPT !.sound = Ordered(c, {"inited"})]
cleanup(c) == [c EXCEPT !.sound = Ordered(c, {"inited"}), !.life = "ended"]

(* ---------------------------- rv32 session ----------------------------- *)

blyt_main(c) == IF c.life = "fresh" THEN on_new_state(init([c EXCEPT !.quit = FALSE])) ELSE c

(* What one run of the guest up to its next stop makes of the cart. *)
Step(b, play) ==
    CASE b.quit -> [cleanup(b) EXCEPT !.halt = "exit", !.exited = TRUE]
      [] ~b.quit /\ play = "play" -> update(b)
      [] ~b.quit /\ play = "quit" -> [update(b) EXCEPT !.quit = TRUE]
      [] ~b.quit /\ play = "exit" -> [update(b) EXCEPT !.halt = "exit", !.exited = TRUE]
      [] ~b.quit /\ play = "trap" -> [update(b) EXCEPT !.halt = "trap"]

run_frame_impl(c, play) == CASE c.halt = "no" -> Step(blyt_main(c), play)
                             [] c.halt = "stuck" -> [c EXCEPT !.halt = "trap"]
                             [] c.halt \in {"exit", "trap"} -> c

FrameDone(c) == c.halt = "no"

(* A hook runs on a cleared halt; a machine that trapped returns at once,  *)
(* and restoring the registers forgets the trap until the guest resumes at *)
(* the instruction that trapped.                                           *)
call_guest_hook(c, after) == IF c.halt = "trap" THEN [c EXCEPT !.halt = "stuck"] ELSE after

session_snapshot(c) == call_guest_hook(c, on_save_state(c))

swap_cart(c, b, base) ==
    [Fresh(b) EXCEPT !.base = base, !.exited = c.exited, !.sound = c.sound]

call_guest_on_load_state(c) == call_guest_hook(c, on_load_state(c))

session_restore(c, snap) == call_guest_on_load_state([c EXCEPT !.bufs = snap])

next_reload_base(c) == IF c.base = "A" THEN "B" ELSE "A"

notify_assets_reloaded(c) == call_guest_hook(c, on_assets_reloaded(c))

(* The buffers and statics are blanked and refilled around a second init();*)
(* the guest's loop goes on where it stood.                                *)
reset_every_frame_cycle(c) ==
    IF c.exited \/ c.halt = "trap" THEN c
    ELSE LET s == on_save_state(c)
             z == init([s EXCEPT !.bufs = 0, !.live = 0, !.life = "fresh"])
         IN on_load_state([z EXCEPT !.bufs = s.bufs])

ResetAlsoAfterExit(c) ==
    LET s == on_save_state(c)
        z == init([s EXCEPT !.bufs = 0, !.live = 0, !.life = "fresh"])
    IN on_load_state([z EXCEPT !.bufs = s.bufs])

(* ---------------------------- host-Lua runner -------------------------- *)

CO_BODY_INIT(c) == on_new_state(init(c))
CO_BODY_RELOAD_INIT(c) == init(c)

(* One resume of the frame chunk.  An error in a callback is printed and   *)
(* the loop goes on, so a trap is an ordinary frame here.                  *)
CO_BODY_RUNNING(c, play) ==
    CASE c.quit -> [cleanup(c) EXCEPT !.halt = "exit"]
      [] ~c.quit /\ play \in {"play", "trap"} -> update(c)
      [] ~c.quit /\ play \in {"quit", "exit"} -> [update(c) EXCEPT !.quit = TRUE]

(* Every Lua global is blank in a machine just built; the buffers, which   *)
(* the state context holds, are left as they were.                         *)
build_vm(c) == [c EXCEPT !.life = "fresh", !.live = 0]
hl_new(b) == build_vm(Fresh(b))

(* The boot chunk, run to its end; the frame chunk then takes its place. *)
hl_boot(c, reload_boot) == IF reload_boot THEN CO_BODY_RELOAD_INIT(c) ELSE CO_BODY_INIT(c)

hostlua_create(b) == hl_boot(hl_new(b), FALSE)
hostlua_wait_ready(c) == IF c.life = "fresh" THEN hl_boot(c, FALSE) ELSE c

rebuild_and_restore(c, snap) ==
    on_load_state([hl_boot(build_vm(c), TRUE) EXCEPT !.bufs = snap])

hostlua_reset_cycle(c) ==
    IF c.halt # "no" THEN c
    ELSE LET s == on_save_state(c) IN rebuild_and_restore([s EXCEPT !.bufs = 0], s.bufs)

(* The host's own save and load of a slot, and the asset swap, call the    *)
(* cart's hooks on the live machine.                                       *)
hostlua_save_state(c) == on_save_state(c)
hostlua_load_state(c, slot) == on_load_state([c EXCEPT !.bufs = slot])
hostlua_update_assets(c, assets) == on_assets_reloaded([c EXCEPT !.assets = assets])
=============================================================================
