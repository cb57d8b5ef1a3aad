-------------------------------- MODULE DapCore --------------------------------
(***************************************************************************)
(* dap_lua_inspect.c and master_hook.c: the protocol and the line hook     *)
(* that host Lua and the browser share.  The core keeps no lock of its     *)
(* own: a transport calls it from the thread it chooses.                   *)
(***************************************************************************)
EXTENDS Dap

handle_configuration_done(s) == [s EXCEPT !.cfg = TRUE]
handle_set_breakpoints(s, bps) == [s EXCEPT !.bps = bps]
handle_set_exception_breakpoints(s, filter) == [s EXCEPT !.filter = filter]
handle_continue(s) == [s EXCEPT !.cont = TRUE, !.step = "none", !.pause = FALSE]

(* The base is the depth of the Lua state that is paused, if there is one. *)
handle_step(s, mode) ==
    [s EXCEPT !.step = mode, !.base = IF s.state = "none" THEN 0 ELSE s.depth, !.pause = FALSE,
              !.cont = TRUE]
handle_pause(s) == [s EXCEPT !.pause = TRUE]
handle_disconnect(s) == [s EXCEPT !.cont = TRUE, !.step = "none", !.pause = FALSE]
RestartStaysConfigured(s) ==
    [s EXCEPT !.bps = {}, !.restart = TRUE, !.cont = TRUE, !.step = "none", !.pause = FALSE]
handle_restart(s) ==
    [s EXCEPT !.bps = {}, !.cfg = FALSE, !.restart = TRUE, !.cont = TRUE, !.step = "none",
              !.pause = FALSE]

dispatched(s, m) ==
    CASE m.op = "configurationDone" -> handle_configuration_done(s)
      [] m.op = "setBreakpoints" ->
             handle_set_exception_breakpoints(handle_set_breakpoints(s, m.bps), m.filter)
      [] m.op = "continue" -> handle_continue(s)
      [] m.op = "step" -> handle_step(s, m.step)
      [] m.op = "pause" -> handle_pause(s)
      [] m.op = "disconnect" -> handle_disconnect(s)
      [] m.op = "restart" -> handle_restart(s)
      [] m.op = "inspect" -> s

(* stackTrace, scopes, variables and evaluate read the paused Lua state.    *)
handle_inspection(m) == Answer(m)

(* One request.                                                            *)
dap_lua_dispatch(m) ==
    /\ srv' = dispatched(srv, m)
    /\ IF m.op = "inspect" THEN handle_inspection(m) ELSE UNCHANGED <<client, answer>>
    /\ IF m.op = "restart" THEN Event([event |-> "initialized"]) ELSE UNCHANGED outbox

(* The step test of the hook comes first, then a pause or a breakpoint     *)
(* (a condition may turn out either way).                                  *)
StepHit == hook.step # "none" /\ StepStops(hook.step, hook.base, Depth[cpu.line])
dap_lua_should_break(hit) ==
    /\ hit => fd /\ (srv.pause \/ cpu.line \in srv.bps)
    /\ ~hit => ~fd \/ (~srv.pause /\ cpu.line \notin srv.bps \ scene.cond)

enter_paused(s) == [s EXCEPT !.state = "live", !.paused = TRUE, !.cont = FALSE, !.pause = FALSE,
                             !.depth = Depth[cpu.line]]
on_exception(s) == [s EXCEPT !.state = "none", !.paused = TRUE, !.cont = FALSE]
apply_resume(s) == [s EXCEPT !.state = "none", !.paused = FALSE, !.cont = FALSE]
ResumeHook == [step |-> srv.step, base |-> srv.base]
===============================================================================
