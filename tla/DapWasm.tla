-------------------------------- MODULE DapWasm --------------------------------
(***************************************************************************)
(* The browser (dap_transport_wasm.c, wasm_lua_loop): one event loop.  A   *)
(* tick drains the messages, acts on what they changed and, unless the     *)
(* cart is parked or not yet started, resumes its coroutine; a stop yields *)
(* the coroutine and parks it.                                             *)
(***************************************************************************)
EXTENDS DapCore

rest == <<scene, rd, queue>>
Ticked == [cpu EXCEPT !.pc = "frame"]

ws_onopen ==
    /\ sock = "calling" /\ sock' = "up" /\ fd' = TRUE
    /\ UNCHANGED <<rest, srv, hook, cpu, inbox, outbox, client, stopNo, answer>>

(* onclose only clears the flag that the next hook reads.                  *)
ws_onclose ==
    /\ sock = "closed" /\ inbox = << >> /\ sock' = "none" /\ fd' = FALSE
    /\ UNCHANGED <<rest, srv, hook, cpu, inbox, outbox, client, stopNo, answer>>

drain_queue ==
    /\ At("frame") /\ inbox # << >> /\ sock # "calling"
    /\ dap_lua_dispatch(Head(inbox)) /\ inbox' = Tail(inbox)
    /\ UNCHANGED <<rest, hook, fd, cpu, sock, stopNo>>

Resumable == (cpu.starts => srv.cfg) /\ (cpu.parked => srv.cont)

(* A restart replaces the coroutine; the core keeps the one it was paused  *)
(* in.                                                                     *)
TickRestart ==
    /\ At("frame") /\ inbox = << >> /\ srv.restart
    /\ srv' = [srv EXCEPT !.restart = FALSE, !.state = IF @ = "live" THEN "stale" ELSE @]
    /\ cpu' = [Rebuilt(cpu) EXCEPT !.pc = "frame", !.parked = FALSE, !.starts = TRUE]
    /\ UNCHANGED <<rest, hook, fd, net, stopNo, answer>>

(* The coroutine is resumed: at the line after a stop, or at the top.      *)
TickResumes ==
    /\ At("frame") /\ inbox = << >> /\ ~srv.restart /\ Resumable
    /\ srv' = IF cpu.parked THEN apply_resume(srv) ELSE srv
    /\ hook' = IF cpu.parked THEN ResumeHook ELSE hook
    /\ cpu' = [IF cpu.parked /\ cpu.after = "stop" THEN [Ran(cpu) EXCEPT !.after = "line"]
               ELSE [cpu EXCEPT !.pc = "hook"] EXCEPT !.parked = FALSE, !.starts = FALSE]
    /\ UNCHANGED <<rest, fd, net, stopNo, answer>>

(* fc_dap_pause_loop: the line hook yields the coroutine.                  *)
pause_loop ==
    /\ srv' = enter_paused(srv) /\ Stopped
    /\ cpu' = [Ticked EXCEPT !.parked = TRUE, !.after = "stop"]

dap_dispatch ==
    /\ At("hook")
    /\ \/ StepHit /\ hook' = [hook EXCEPT !.step = "none"] /\ pause_loop
       \/ /\ ~StepHit /\ UNCHANGED hook
          /\ \/ dap_lua_should_break(TRUE) /\ pause_loop
             \/ dap_lua_should_break(FALSE) /\ cpu' = Ran(cpu) /\ UNCHANGED <<srv, outbox, stopNo>>
    /\ UNCHANGED <<rest, fd, sock, inbox, client, answer>>

(* An error is caught inside the coroutine, which runs on to the end of    *)
(* its frame before it parks.                                              *)
report_exception ==
    /\ At("hook") /\ Does("error")
    /\ IF fd /\ srv.filter
       THEN srv' = on_exception(srv) /\ Stopped /\ cpu' = [Raised(cpu) EXCEPT !.parked = TRUE]
       ELSE cpu' = Raised(cpu) /\ UNCHANGED <<srv, outbox, stopNo>>
    /\ UNCHANGED <<rest, hook, fd, sock, inbox, client, answer>>

WasmCart ==
    /\ Leg("wasm")
    /\ ws_onopen \/ ws_onclose \/ drain_queue \/ TickRestart \/ TickResumes \/ dap_dispatch
WasmNext == WasmCart \/ (Leg("wasm") /\ report_exception)
===============================================================================
