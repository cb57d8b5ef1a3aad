----------------------------- MODULE PlayerLoop -----------------------------
(***************************************************************************)
(* blytplay and the libretro core: the main loop that polls the control    *)
(* channel and runs one frame, and the operations a command makes on the   *)
(* rv32 session or on the host-Lua runner.  All of it is one thread; the   *)
(* tool, its builds and the native debugger's client are not.              *)
(***************************************************************************)
EXTENDS DevControl

IsLua == leg \in LuaLegs
Quiet == UNCHANGED <<leg, disk, cmd, web>>

(* retro_load_game: the host-Lua runner boots at once unless a debugger is *)
(* to be waited for; a session boots in its first frame.                   *)
retro_load_game(l, debug) ==
    LET b == [code |-> 1]
    IN CASE l \notin LuaLegs -> Fresh(b)
         [] l \in LuaLegs /\ debug -> hl_new(b)
         [] l \in LuaLegs /\ ~debug -> hostlua_create(b)

(* The readiness gates: no cart code runs before the debuggers are ready,  *)
(* and on the host-Lua legs the boot happens here.                         *)
debug_boot ==
    /\ pc = "gate"
    /\ pc' = "poll"
    /\ vm' = IF IsLua THEN hostlua_wait_ready(vm) ELSE vm
    /\ progress' = IF IsLua THEN 1 ELSE progress
    /\ UNCHANGED <<dbg, done, inbox, answer, saved, pend>> /\ Quiet

run_frame(c, play) == IF IsLua THEN CO_BODY_RUNNING(c, play) ELSE run_frame_impl(c, play)

StressCycle(c) == IF IsLua THEN hostlua_reset_cycle(c) ELSE reset_every_frame_cycle(c)

RunStressesFinished(play, stress) ==
    /\ pc = "poll" /\ inbox = <<>> /\ ~done
    /\ LET c == run_frame(vm, play)
       IN /\ vm' = IF stress THEN
                      (IF IsLua THEN hostlua_reset_cycle(c) ELSE ResetAlsoAfterExit(c)) ELSE c
          /\ done' = ~FrameDone(c)
    /\ progress' = FrameProgress(vm)
    /\ UNCHANGED <<dbg, pc, inbox, answer, saved, pend>> /\ Quiet

(* One pass of the main loop after the poll: a frame, the stress cycle on  *)
(* a cart that still runs, and the test whether to go on.                  *)
retro_run(play, stress) ==
    /\ pc = "poll" /\ inbox = <<>> /\ ~done
    /\ LET c == run_frame(vm, play)
       IN /\ vm' = IF stress /\ FrameDone(c) THEN StressCycle(c) ELSE c
          /\ done' = ~FrameDone(c)
    /\ progress' = FrameProgress(vm)
    /\ UNCHANGED <<dbg, pc, inbox, answer, saved, pend>> /\ Quiet

(* ------------------------------ commands ------------------------------- *)

Taken(op) == pc = "poll" /\ inbox # <<>> /\ ~done /\ cmd[Head(inbox)] = op
Next1 == inbox' = Tail(inbox)

(* A new session or runner, booted before the answer: a session by its     *)
(* first frame.  The debugger of the old session is gone.                  *)
libretro_reset(play) ==
    /\ Taken("reset") /\ Next1
    /\ LET b == [code |-> vm.code]
       IN vm' = IF IsLua THEN hostlua_create(b) ELSE run_frame_impl(Fresh(b), play)
    /\ dbg' = NoDebugger
    /\ progress' = IF IsLua THEN 1 ELSE Capped(2)
    /\ Answered(Head(inbox), "ok")
    /\ UNCHANGED <<done, pc, saved, pend>> /\ Quiet

Saving(c) == IF IsLua THEN hostlua_save_state(c) ELSE session_snapshot(c)
Loading(c, slot) == IF IsLua THEN hostlua_load_state(c, slot)
                    ELSE call_guest_on_load_state([c EXCEPT !.bufs = slot])

libretro_save_state(io) ==
    /\ Taken("save_state") /\ Next1
    /\ vm' = Saving(vm)
    /\ saved' = IF io THEN vm'.bufs ELSE saved
    /\ Answered(Head(inbox), IF io THEN "ok" ELSE "error")
    /\ UNCHANGED <<dbg, done, pc, pend, progress>> /\ Quiet

libretro_load_state ==
    /\ Taken("load_state") /\ Next1
    /\ LET there == saved # NoSave
       IN /\ vm' = IF there THEN Loading(vm, saved) ELSE vm
          /\ progress' = Expected(IF there THEN saved ELSE progress)
          /\ Answered(Head(inbox), IF there THEN "ok" ELSE "error")
    /\ UNCHANGED <<dbg, done, pc, saved, pend>> /\ Quiet

libretro_update_assets ==
    /\ Taken("update_assets") /\ Next1
    /\ vm' = IF IsLua THEN hostlua_update_assets(vm, disk.code)
             ELSE notify_assets_reloaded([vm EXCEPT !.assets = disk.code])
    /\ Answered(Head(inbox), "ok")
    /\ UNCHANGED <<dbg, done, pc, saved, pend, progress>> /\ Quiet

unknown_command ==
    /\ Taken("unknown") /\ Next1
    /\ Answered(Head(inbox), "error")
    /\ UNCHANGED <<vm, dbg, done, pc, saved, pend, progress>> /\ Quiet

(* What reading the new cart refuses, before the old one is disturbed. *)
Refused == \/ disk.flaw = "unopenable"
           \/ disk.flaw = "unswappable" /\ leg \in Sessions
           \/ disk.flaw = "nolua" /\ IsLua

(* A reload that fails leaves the old code running; the cart has only seen *)
(* its on_save_state hook, and not even that if the runner refused first.  *)
reload_fails ==
    /\ Taken("reload") /\ Next1 /\ Refused
    /\ vm' = IF IsLua /\ disk.flaw # "unswappable" THEN vm ELSE Saving(vm)
    /\ Answered(Head(inbox), "error")
    /\ UNCHANGED <<dbg, done, pc, saved, pend, progress>> /\ Quiet

(* The new image in place of the old one, with the buffers still blank. *)
Swapped(s) ==
    LET base == IF dbg.on THEN next_reload_base(s) ELSE "native"
        z == [build_vm(s) EXCEPT !.code = disk.code, !.assets = disk.code, !.bufs = 0]
    IN CASE leg = "emulated" -> swap_cart(s, disk, base)
         [] leg = "hosthybrid" -> [z EXCEPT !.base = base]
         [] leg = "hostlua" -> z

RestoresBeforeBoot(c, snap, play) ==
    IF IsLua THEN on_load_state([CO_BODY_RELOAD_INIT(build_vm([c EXCEPT !.bufs = snap]))
                                   EXCEPT !.bufs = 0])
    ELSE run_frame_impl([c EXCEPT !.bufs = snap], play)

(* The tail of every reload: boot the new cart, put the buffers back. *)
Restored(c, snap, play) ==
    IF IsLua THEN rebuild_and_restore(c, snap)
    ELSE session_restore(run_frame_impl(c, play), snap)

reload_impl(play) ==
    /\ Taken("reload") /\ Next1 /\ ~Refused
    /\ LET s == Saving(vm)
           c == Swapped(s)
       IN IF dbg.on
          THEN /\ vm' = c
               /\ dbg' = notify_cart_reloaded(dbg, c)
               /\ pc' = "solib"
               /\ pend' = [id |-> Head(inbox), snap |-> s.bufs]
               /\ UNCHANGED answer
          ELSE /\ vm' = Restored(c, s.bufs, play)
               /\ Answered(Head(inbox), "ok")
               /\ UNCHANGED <<dbg, pc, pend>>
    /\ progress' = IF dbg.on /\ Trapped(vm) THEN Saving(vm).bufs
                   ELSE IF dbg.on THEN progress ELSE Expected(progress)
    /\ UNCHANGED <<done, saved>> /\ Quiet

(* While the debugger rebinds, the main thread sleeps in the wait. *)
solib_wait ==
    /\ pc = "solib" /\ dbg.phase # 0
    /\ dbg' = publish_libs_and_wait(dbg)
    /\ UNCHANGED <<vm, done, pc, inbox, answer, saved, pend, progress>> /\ Quiet

reload_tail(play) ==
    /\ pc = "solib" /\ dbg.phase = 0
    /\ vm' = Restored(vm, pend.snap, play)
    /\ Answered(pend.id, "ok")
    /\ pend' = NoPend
    /\ pc' = "poll"
    /\ progress' = Expected(progress)
    /\ UNCHANGED <<dbg, done, inbox, saved>> /\ Quiet

PlayerStep ==
    /\ leg \in PlayerLegs
    /\ \/ debug_boot
       \/ \E p \in PlaysOf(leg), s \in BOOLEAN : retro_run(p, s)
       \/ \E p \in PlaysOf(leg) : libretro_reset(p)
       \/ \E io \in BOOLEAN : libretro_save_state(io)
       \/ libretro_load_state
       \/ libretro_update_assets
       \/ unknown_command
       \/ reload_fails
       \/ \E p \in PlaysOf(leg) : reload_impl(p)
       \/ solib_wait
       \/ \E p \in PlaysOf(leg) : reload_tail(p)
=============================================================================
