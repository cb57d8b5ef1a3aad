------------------------------ MODULE WebLoop -------------------------------
(***************************************************************************)
(* The browser frontend (wasm_main.c).  The page hands every command to    *)
(* the runtime between two animation ticks; a reload and an asset update   *)
(* go back to the page, which fetches the new files and calls again; under *)
(* a native debugger the rest of a reload is left to the ticks.  `web` is  *)
(*   lphase, co   g_lua_phase and the chunk the driver coroutine runs      *)
(*   start        g_lua_needs_start: a debugger has yet to configure       *)
(*   fatal        g_lua_fatal                                              *)
(*   fetch, assets  g_dev_ctrl_reload_id, g_dev_ctrl_assets_id (0: none)   *)
(*   rphase       g_reload_phase                                           *)
(*   wild         the closed Lua state has been used                       *)
(***************************************************************************)
EXTENDS DevControl

Webs == [lphase : {"init", "running"}, co : {"none", "boot", "reload", "running"},
         start : BOOLEAN, fatal : BOOLEAN, fetch : 0 .. MaxCmds, assets : 0 .. MaxCmds,
         rphase : {"none", "rearm", "init"}, wild : BOOLEAN]

NoWeb == [lphase |-> "init", co |-> "none", start |-> FALSE, fatal |-> FALSE, fetch |-> 0,
          assets |-> 0, rphase |-> "none", wild |-> FALSE]

run_lua_cart(start) == [NoWeb EXCEPT !.co = "boot", !.start = start]

Still == UNCHANGED <<leg, disk, cmd, pc>>
HasSession == leg \in {"webnative", "webhybrid"} /\ ~done
HasLua == leg \in {"weblua", "webhybrid"} /\ ~done

(* ------------------------------- ticks --------------------------------- *)

Ticking == ~done /\ ~web.wild

configurationDone ==
    /\ Ticking /\ web.start
    /\ web' = [web EXCEPT !.start = FALSE]
    /\ UNCHANGED <<vm, dbg, done, inbox, answer, saved, pend, progress>> /\ Still

(* Both loops hold the last frame while the debugger rebinds. *)
rearm_tick ==
    /\ Ticking /\ web.rphase = "rearm"
    /\ dbg' = reload_notify_pump(dbg)
    /\ web' = [web EXCEPT !.rphase = IF dbg'.phase = 0 THEN "init" ELSE @]
    /\ UNCHANGED <<vm, done, inbox, answer, saved, pend, progress>> /\ Still

LuaTicks == Ticking /\ leg \in {"weblua", "webhybrid"} /\ web.rphase # "rearm" /\ ~web.start

lua_cleanup ==
    /\ LuaTicks /\ web.fatal
    /\ done' = TRUE
    /\ UNCHANGED <<vm, dbg, inbox, answer, saved, pend, web, progress>> /\ Still

(* The machine torn down and built again: every Lua global is blank. *)
Rebuilt(c) == [c EXCEPT !.life = "fresh", !.live = 0]

(* wasm_lua_rebuild: a fresh machine, booted inside the call, and the      *)
(* running coroutine left for the next tick.  The phase is not touched.    *)
Rebuild(c, snap, preserve) ==
    IF preserve THEN on_load_state([CO_BODY_RELOAD_INIT(Rebuilt(c)) EXCEPT !.bufs = snap])
    ELSE CO_BODY_INIT([Rebuilt(c) EXCEPT !.bufs = 0])

wasm_lua_reset_cycle(c) == LET s == on_save_state(c) IN Rebuild([s EXCEPT !.bufs = 0], s.bufs, TRUE)

reload_restore_tail(c) == on_load_state([c EXCEPT !.bufs = pend.snap])

(* A resume of the driver coroutine runs the chunk it holds; the boot      *)
(* chunks end at once, the frame chunk yields until the cart has quit.     *)
Resume(play) == CASE web.co = "boot" -> CO_BODY_INIT(vm)
                  [] web.co = "reload" -> CO_BODY_RELOAD_INIT(vm)
                  [] web.co = "running" -> CO_BODY_RUNNING(vm, play)
Ends(c) == web.co # "running" \/ c.halt = "exit"

ResumeProgress == CASE web.co = "boot" -> 1
                    [] web.co = "reload" -> progress
                    [] web.co = "running" -> FrameProgress(vm)

(* In the INIT phase the running coroutine takes the ended chunk's place. *)
init_tick(play) ==
    /\ LuaTicks /\ ~web.fatal /\ web.lphase = "init"
    /\ LET c == Resume(play)
           tail == Ends(c) /\ web.rphase = "init"
       IN /\ vm' = [IF tail THEN reload_restore_tail(c) ELSE c EXCEPT !.halt = "no"]
          /\ web' = IF Ends(c) THEN [web EXCEPT !.co = "running", !.lphase = "running",
                                                !.rphase = "none"] ELSE web
          /\ pend' = IF tail THEN NoPend ELSE pend
    /\ progress' = ResumeProgress
    /\ UNCHANGED <<dbg, done, inbox, answer, saved>> /\ Still

(* In the RUNNING phase it ends the program. *)
wasm_lua_loop(play, stress) ==
    /\ LuaTicks /\ ~web.fatal /\ web.lphase = "running"
    /\ LET c == Resume(play)
       IN /\ vm' = IF stress /\ ~Ends(c) THEN wasm_lua_reset_cycle(c) ELSE c
          /\ done' = Ends(c)
    /\ progress' = ResumeProgress
    /\ UNCHANGED <<dbg, inbox, answer, saved, pend, web>> /\ Still

(* The loop of a native cart, with the restore that ends a debug reload. *)
wasm_loop(play, stress) ==
    /\ Ticking /\ leg = "webnative" /\ web.rphase # "rearm"
    /\ LET c == run_frame_impl(vm, play)
           tail == web.rphase = "init" /\ FrameDone(c)
           r == IF tail THEN session_restore(c, pend.snap) ELSE c
       IN /\ vm' = IF stress /\ FrameDone(c) THEN reset_every_frame_cycle(r) ELSE r
          /\ done' = ~FrameDone(c)
          /\ web' = IF tail THEN [web EXCEPT !.rphase = "none"] ELSE web
          /\ pend' = IF tail THEN NoPend ELSE pend
          /\ progress' = IF tail THEN progress ELSE FrameProgress(vm)
    /\ UNCHANGED <<dbg, inbox, answer, saved>> /\ Still

(* ------------------------------ commands ------------------------------- *)

Command(op) == inbox # <<>> /\ cmd[Head(inbox)] = op /\ ~web.wild /\ inbox' = Tail(inbox)

dev_ctrl_lua_path == leg = "weblua" /\ ~done

refused_command ==
    /\ \E op \in {"reset", "save_state", "load_state", "unknown"} :
           Command(op) /\ (op = "unknown" \/ ~dev_ctrl_lua_path)
    /\ Answered(Head(inbox), "error")
    /\ UNCHANGED <<vm, dbg, done, saved, pend, web, progress>> /\ Still

reset_command ==
    /\ Command("reset") /\ dev_ctrl_lua_path
    /\ vm' = Rebuild(vm, 0, FALSE)
    /\ web' = [web EXCEPT !.co = "running"]
    /\ progress' = 1
    /\ Answered(Head(inbox), "ok")
    /\ UNCHANGED <<dbg, done, saved, pend>> /\ Still

save_command(io) ==
    /\ Command("save_state") /\ dev_ctrl_lua_path
    /\ vm' = on_save_state(vm)
    /\ saved' = IF io THEN vm'.bufs ELSE saved
    /\ Answered(Head(inbox), IF io THEN "ok" ELSE "error")
    /\ UNCHANGED <<dbg, done, pend, web, progress>> /\ Still

load_command ==
    /\ Command("load_state") /\ dev_ctrl_lua_path
    /\ LET there == saved # NoSave
       IN /\ vm' = IF there THEN on_load_state([vm EXCEPT !.bufs = saved]) ELSE vm
          /\ progress' = IF there THEN saved ELSE progress
          /\ Answered(Head(inbox), IF there THEN "ok" ELSE "error")
    /\ UNCHANGED <<dbg, done, saved, pend, web>> /\ Still

FetchIgnoresBusy ==
    /\ \E op \in {"reload", "update_assets"} :
         /\ Command(op)
         /\ web' = IF op = "reload" THEN [web EXCEPT !.fetch = Head(inbox)]
                   ELSE [web EXCEPT !.assets = Head(inbox)]
    /\ UNCHANGED <<vm, dbg, done, saved, pend, progress, answer>> /\ Still

(* One reload, and one asset update, may be waiting for the page. *)
fetch_command ==
    /\ \E op \in {"reload", "update_assets"} :
         /\ Command(op)
         /\ LET busy == IF op = "reload" THEN web.fetch # 0 ELSE web.assets # 0
            IN IF busy THEN Answered(Head(inbox), "error") /\ UNCHANGED web
               ELSE /\ UNCHANGED answer
                    /\ web' = IF op = "reload" THEN [web EXCEPT !.fetch = Head(inbox)]
                              ELSE [web EXCEPT !.assets = Head(inbox)]
    /\ UNCHANGED <<vm, dbg, done, saved, pend, progress>> /\ Still

assets_fetched(ok) ==
    /\ web.assets # 0 /\ ~web.wild
    /\ LET c == [vm EXCEPT !.assets = disk.code]
       IN vm' = CASE ~ok \/ done -> vm
                  [] ok /\ HasSession -> notify_assets_reloaded(c)
                  [] ok /\ ~HasSession /\ HasLua -> on_assets_reloaded(c)
    /\ Answered(web.assets, IF ok /\ ~done THEN "ok" ELSE "error")
    /\ web' = [web EXCEPT !.assets = 0]
    /\ UNCHANGED <<dbg, done, inbox, saved, pend, progress>> /\ Still

(* ------------------------- the fetched reload -------------------------- *)

Fetched == web.fetch # 0 /\ ~web.wild
Reply(a) == Answered(web.fetch, a)

(* The fetch failed, or the runtime refuses the file before it is used. *)
reload_refused(ok) ==
    /\ Fetched
    /\ \/ ~ok /\ vm' = vm
       \/ /\ ok /\ HasSession /\ disk.flaw \in {"unopenable", "unswappable"}
          /\ vm' = IF leg = "webhybrid" THEN on_save_state(vm) ELSE session_snapshot(vm)
       \/ ok /\ done /\ leg = "webnative" /\ vm' = vm
    /\ Reply("error")
    /\ web' = [web EXCEPT !.fetch = 0]
    /\ UNCHANGED <<dbg, done, inbox, saved, pend, progress>> /\ Still

(* A Lua cart whose old file was closed, or whose native half was swapped, *)
(* before the new file proved unusable ends at the next tick.              *)
reload_fatal ==
    /\ Fetched
    /\ LET s == on_save_state(vm)
           base == IF dbg.on THEN next_reload_base(vm) ELSE "native"
       IN \/ /\ leg = "weblua" /\ disk.flaw \in {"unopenable", "nolua"}
             /\ vm' = IF done THEN vm ELSE s
          \/ /\ leg = "webhybrid" /\ ~done /\ disk.flaw = "nolua"
             /\ vm' = [s EXCEPT !.code = disk.code, !.assets = disk.code,
                                !.bufs = 0, !.base = base]
    /\ Reply("error")
    /\ web' = [web EXCEPT !.fetch = 0, !.fatal = TRUE]
    /\ UNCHANGED <<dbg, done, inbox, saved, pend, progress>> /\ Still

(* A cart that had already ended: the rebuild uses the closed Lua state. *)
reload_after_end ==
    /\ Fetched /\ done /\ leg \in {"weblua", "webhybrid"} /\ disk.flaw \notin {"unopenable", "nolua"}
    /\ web' = [web EXCEPT !.fetch = 0, !.wild = TRUE]
    /\ UNCHANGED <<vm, dbg, done, inbox, answer, saved, pend, progress>> /\ Still

Usable == Fetched /\ ~done /\ disk.flaw # "unopenable" /\ (HasLua => disk.flaw # "nolua")
                 /\ (HasSession => disk.flaw # "unswappable")

NewImage(s, base) == [Rebuilt(s) EXCEPT !.code = disk.code, !.assets = disk.code,
                                        !.bufs = 0, !.base = base]

reload_fetched(play) ==
    /\ Usable /\ ~(HasSession /\ dbg.on)
    /\ vm' = IF HasLua
             THEN LET s == on_save_state(vm) IN Rebuild(NewImage(s, vm.base), s.bufs, TRUE)
             ELSE LET s == session_snapshot(vm)
                  IN session_restore(run_frame_impl(swap_cart(s, disk, "native"), play), s.bufs)
    /\ web' = [web EXCEPT !.fetch = 0, !.co = IF HasLua THEN "running" ELSE @]
    /\ progress' = Expected(progress)
    /\ Reply("ok")
    /\ UNCHANGED <<dbg, done, inbox, saved, pend>> /\ Still

(* Under a debugger: swap, begin the rebind, answer, and leave init() and  *)
(* the restore to the ticks.                                               *)
wasm_session_reload ==
    /\ Usable /\ HasSession /\ dbg.on
    /\ LET s == IF HasLua THEN on_save_state(vm) ELSE session_snapshot(vm)
           base == next_reload_base(vm)
           c == IF HasLua THEN NewImage(s, base) ELSE swap_cart(s, disk, base)
       IN /\ vm' = c
          /\ dbg' = reload_notify_begin(dbg, c)
          /\ pend' = [id |-> web.fetch, snap |-> s.bufs]
    /\ web' = [web EXCEPT !.fetch = 0, !.rphase = "rearm",
                          !.co = IF HasLua THEN "reload" ELSE @,
                          !.lphase = IF HasLua THEN "init" ELSE @]
    /\ Reply("ok")
    /\ UNCHANGED <<done, inbox, saved, progress>> /\ Still

WebStep ==
    /\ leg \in WebLegs
    /\ \/ configurationDone
       \/ rearm_tick
       \/ lua_cleanup
       \/ \E p \in PlaysOf(leg) : init_tick(p)
       \/ \E p \in PlaysOf(leg), s \in BOOLEAN : wasm_lua_loop(p, s)
       \/ \E p \in PlaysOf(leg), s \in BOOLEAN : wasm_loop(p, s)
       \/ refused_command
       \/ reset_command
       \/ \E io \in BOOLEAN : save_command(io)
       \/ load_command
       \/ fetch_command
       \/ \E ok \in BOOLEAN : assets_fetched(ok)
       \/ \E ok \in BOOLEAN : reload_refused(ok)
       \/ reload_fatal
       \/ reload_after_end
       \/ \E p \in PlaysOf(leg) : reload_fetched(p)
       \/ wasm_session_reload
=============================================================================
