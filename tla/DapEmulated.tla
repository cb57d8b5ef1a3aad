------------------------------ MODULE DapEmulated ------------------------------
(***************************************************************************)
(* The emulated leg: dap_server.c's thread reads requests and keeps the    *)
(* flags under one mutex; the cart's thread consults them line by line     *)
(* through the DAP_HOOK call, and when it stops the guest's pause loop     *)
(* fetches inspections with DAP_RECV and answers them with DAP_SEND.       *)
(***************************************************************************)
EXTENDS Dap

handle_configuration_done(s) == [s EXCEPT !.cfg = TRUE]
handle_set_breakpoints(s, bps) == [s EXCEPT !.bps = bps]
handle_set_exception_breakpoints(s, filter) == [s EXCEPT !.filter = filter]
handle_continue(s) == [s EXCEPT !.step = "none", !.pause = FALSE, !.cont = @ \/ s.paused]
handle_step(s, mode) ==
    [s EXCEPT !.base = s.depth, !.step = mode, !.pause = FALSE, !.cont = @ \/ s.paused]
handle_pause(s) == [s EXCEPT !.pause = TRUE]
handle_disconnect(s) == [s EXCEPT !.cont = TRUE, !.step = "none", !.pause = FALSE]
handle_restart(s) ==
    [s EXCEPT !.bps = {}, !.cfg = FALSE, !.restart = TRUE, !.cont = TRUE, !.step = "none",
              !.pause = FALSE]

(* Every request but an inspection.                                        *)
dispatched(s, m) ==
    CASE m.op = "configurationDone" -> handle_configuration_done(s)
      [] m.op = "setBreakpoints" ->
             handle_set_exception_breakpoints(handle_set_breakpoints(s, m.bps), m.filter)
      [] m.op = "continue" -> handle_continue(s)
      [] m.op = "step" -> handle_step(s, m.step)
      [] m.op = "pause" -> handle_pause(s)
      [] m.op = "disconnect" -> handle_disconnect(s)
      [] m.op = "restart" -> handle_restart(s)

(* Which of them signal the cart's thread.                                 *)
Signals(s, m) ==
    \/ m.op \in {"configurationDone", "restart"}
    \/ m.op \in {"continue", "step", "disconnect"} /\ s.paused

(***************************************************************************)
(* The server's thread.                                                    *)
(***************************************************************************)
Accept ==
    /\ rd.pc = "accept" /\ sock = "calling"
    /\ sock' = "up" /\ fd' = TRUE /\ rd' = [rd EXCEPT !.pc = "read"]
    /\ UNCHANGED <<scene, srv, hook, queue, cpu, inbox, outbox, client, stopNo, answer>>

dispatch ==
    /\ rd.pc = "read" /\ inbox # << >> /\ Head(inbox).op # "inspect"
    /\ LET m == Head(inbox) IN
         /\ srv' = dispatched(srv, m)
         /\ cpu' = IF Signals(srv, m) THEN Woken(cpu) ELSE cpu
         /\ IF m.op = "restart" THEN Event([event |-> "initialized"]) ELSE UNCHANGED outbox
    /\ inbox' = Tail(inbox)
    /\ UNCHANGED <<scene, hook, queue, fd, rd, sock, client, stopNo, answer>>

InspectionAlsoEmpty ==
    /\ rd.pc = "read" /\ inbox # << >> /\ Head(inbox).op = "inspect" /\ inbox' = Tail(inbox)
    /\ rd' = IF srv.paused THEN [pc |-> "push", m |-> Head(inbox)] ELSE rd
    /\ Reply /\ answer' = "empty"
    /\ UNCHANGED <<scene, srv, hook, queue, fd, cpu, sock, outbox, stopNo>>

(* An inspection is for the guest when it is in its pause loop, which the  *)
(* server asks under the lock, and otherwise answered with nothing.        *)
dispatch_inspection ==
    /\ rd.pc = "read" /\ inbox # << >> /\ Head(inbox).op = "inspect"
    /\ inbox' = Tail(inbox)
    /\ IF srv.paused THEN rd' = [pc |-> "push", m |-> Head(inbox)] /\ UNCHANGED <<client, answer>>
                     ELSE Reply /\ answer' = "empty" /\ UNCHANGED rd
    /\ UNCHANGED <<scene, srv, hook, queue, fd, cpu, sock, outbox, stopNo>>

(* The push takes the lock again; a full ring drops the request.           *)
PushSilent ==
    /\ rd.pc = "push" /\ rd' = [pc |-> "read", m |-> << >>]
    /\ queue' = IF Room THEN Append(queue, rd.m) ELSE queue
    /\ UNCHANGED <<scene, srv, hook, fd, cpu, net, stopNo, answer>>

q_push ==
    /\ rd.pc = "push" /\ rd' = [pc |-> "read", m |-> << >>]
    /\ queue' = IF Room THEN Append(queue, rd.m) ELSE queue
    /\ cpu' = IF Room THEN Woken(cpu) ELSE cpu
    /\ UNCHANGED <<scene, srv, hook, fd, net, stopNo, answer>>

(* The connection is over; a guest in its pause loop is woken.             *)
Hangup ==
    /\ rd.pc = "read" /\ sock = "closed" /\ inbox = << >>
    /\ sock' = "none" /\ fd' = FALSE /\ rd' = [rd EXCEPT !.pc = "accept"]
    /\ cpu' = IF srv.paused THEN Woken(cpu) ELSE cpu
    /\ UNCHANGED <<scene, srv, hook, queue, inbox, outbox, client, stopNo, answer>>

(***************************************************************************)
(* The cart's thread.                                                      *)
(***************************************************************************)
rest == <<scene, hook, fd, rd, sock, inbox>>
quiet == <<rest, queue, outbox, client, stopNo, answer>>
Awake == ~cpu.asleep
Sleep == cpu' = [cpu EXCEPT !.asleep = TRUE] /\ UNCHANGED <<srv, quiet>>

(* blyt_session_dap_wait_ready                                             *)
wait_configuration_done ==
    /\ At("boot") /\ Awake
    /\ \/ ~srv.cfg /\ Sleep
       \/ srv.cfg /\ cpu' = [cpu EXCEPT !.pc = "frame"] /\ UNCHANGED <<srv, quiet>>

(* A frame begins: a restart that was asked for is taken, once.            *)
Frame ==
    /\ At("frame") /\ Awake
    /\ srv' = [srv EXCEPT !.restart = FALSE]
    /\ cpu' = IF srv.restart THEN Rebuilt(cpu) ELSE [cpu EXCEPT !.pc = "hook"]
    /\ UNCHANGED quiet

(* fc_dap_check_hook_line, lock by lock: without a client the line runs;   *)
(* before the client has configured it waits, unless a restart is due.     *)
CheckClient ==
    /\ At("hook")
    /\ cpu' = IF fd THEN [cpu EXCEPT !.pc = "config"] ELSE Ran(cpu)
    /\ UNCHANGED <<srv, quiet>>

CheckConfigured ==
    /\ At("config") /\ Awake
    /\ \/ fd /\ ~srv.cfg /\ ~srv.restart /\ Sleep
       \/ /\ ~(fd /\ ~srv.cfg /\ ~srv.restart)
          /\ cpu' = IF fd /\ ~srv.restart THEN [cpu EXCEPT !.pc = "flags"] ELSE Ran(cpu)
          /\ UNCHANGED <<srv, quiet>>

CheckStep ==
    /\ At("flags")
    /\ cpu' = IF srv.pause THEN [cpu EXCEPT !.pc = "stop"]
              ELSE IF srv.step = "none" THEN [cpu EXCEPT !.pc = "bps"]
              ELSE IF StepStops(srv.step, srv.base, Depth[cpu.line]) THEN [cpu EXCEPT !.pc = "stop"]
              ELSE Ran(cpu)
    /\ UNCHANGED <<srv, quiet>>

CheckBreakpoints ==
    /\ At("bps")
    /\ IF cpu.line \notin srv.bps THEN cpu' = Ran(cpu) /\ UNCHANGED srv
       ELSE IF cpu.line \in scene.cond
            THEN /\ cpu' = [cpu EXCEPT !.pc = "cond"]
                 /\ srv' = [srv EXCEPT !.depth = Depth[cpu.line]]
            ELSE cpu' = [cpu EXCEPT !.pc = "stop"] /\ UNCHANGED srv
    /\ UNCHANGED quiet

Stop(s) == [s EXCEPT !.pause = FALSE, !.step = "none", !.paused = TRUE, !.cont = FALSE, !.state = "live"]

EnterStop ==
    /\ At("stop")
    /\ srv' = [Stop(srv) EXCEPT !.depth = Depth[cpu.line]]
    /\ cpu' = [cpu EXCEPT !.pc = "tell"]
    /\ UNCHANGED quiet

(* The guest evaluates the condition and reports what it found.            *)
on_condition_result ==
    /\ At("cond")
    /\ \/ cpu' = Ran(cpu) /\ UNCHANGED srv
       \/ cpu' = [cpu EXCEPT !.pc = "tell"] /\ srv' = Stop(srv)
    /\ UNCHANGED quiet

(* An error that nothing in the cart catches; the depth of the last stop   *)
(* stays.                                                                  *)
on_exception ==
    /\ At("hook") /\ Does("error")
    /\ IF fd /\ srv.filter
       THEN srv' = Stop(srv) /\ cpu' = [cpu EXCEPT !.pc = "tell", !.after = "frame"]
       ELSE cpu' = Raised(cpu) /\ UNCHANGED srv
    /\ UNCHANGED quiet

Tell ==
    /\ At("tell") /\ Stopped /\ cpu' = [cpu EXCEPT !.pc = "recv"]
    /\ UNCHANGED <<rest, srv, queue, client, answer>>

(* The guest reads its own Lua state for an answer.                        *)
on_inspection(m) == Answer(m)

(* The pause loop: an inspection to answer, or the word to resume.         *)
host_recv ==
    /\ At("recv") /\ Awake
    /\ \/ fd /\ ~srv.cont /\ queue = << >> /\ Sleep
       \/ /\ ~fd \/ srv.cont
          /\ srv' = [srv EXCEPT !.cont = FALSE, !.paused = FALSE, !.state = "none"]
          /\ cpu' = Resumed(cpu) /\ UNCHANGED quiet
       \/ /\ fd /\ ~srv.cont /\ queue # << >>
          /\ queue' = Tail(queue) /\ on_inspection(Head(queue))
          /\ UNCHANGED <<rest, srv, cpu, outbox, stopNo>>

Shutdown ==
    /\ At("frame") /\ Does("exit")
    /\ cpu' = [cpu EXCEPT !.pc = "off"] /\ fd' = FALSE /\ rd' = [pc |-> "done", m |-> << >>]
    /\ sock' = "none" /\ inbox' = << >> /\ outbox' = << >> /\ client' = [client EXCEPT !.phase = "off", !.asked = 0]
    /\ UNCHANGED <<scene, srv, hook, queue, stopNo, answer>>

EmuServer == Leg("emulated") /\ (Accept \/ dispatch \/ dispatch_inspection \/ q_push \/ Hangup)
EmuCart ==
    /\ Leg("emulated")
    /\ \/ wait_configuration_done \/ Frame \/ CheckClient \/ CheckConfigured \/ CheckStep
       \/ CheckBreakpoints \/ EnterStop \/ on_condition_result \/ Tell \/ host_recv
EmuNext == EmuServer \/ EmuCart \/ (Leg("emulated") /\ (on_exception \/ Shutdown))
===============================================================================
