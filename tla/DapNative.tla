------------------------------- MODULE DapNative -------------------------------
(***************************************************************************)
(* The native process (dap_server_native.c, master_hook_native.c): no      *)
(* thread but the cart's, which accepts one client before init() and reads *)
(* the socket while it waits for the configuration or is stopped.          *)
(* Restart is not offered, a pause is a step into the next line.           *)
(***************************************************************************)
EXTENDS Dap

rest == <<scene, hook, queue, rd>>

Accept ==
    /\ At("boot") /\ ~fd /\ sock = "calling" /\ sock' = "up" /\ fd' = TRUE
    /\ srv' = [srv EXCEPT !.cfg = FALSE]
    /\ UNCHANGED <<rest, cpu, inbox, outbox, client, stopNo, answer>>

Flags(s, m) ==
    CASE m.op = "configurationDone" -> [s EXCEPT !.cfg = TRUE]
      [] m.op = "setBreakpoints" -> [s EXCEPT !.bps = m.bps]
      [] m.op = "continue" -> [s EXCEPT !.step = "none"]
      [] m.op = "step" -> [s EXCEPT !.step = m.step, !.base = s.depth]
      [] m.op = "pause" -> [s EXCEPT !.step = "in"]
      [] OTHER -> s

(* The requests after which dispatch tells its caller to go on.            *)
Resumes(m) == m.op \in {"continue", "step", "disconnect"}
Incoming == fd /\ inbox # << >>
Lost == fd /\ inbox = << >> /\ sock = "closed"

(* The cart starts once configured, or when its client gives up.           *)
wait_configuration_done ==
    /\ At("boot")
    /\ \/ /\ Incoming
          /\ srv' = Flags(srv, Head(inbox)) /\ inbox' = Tail(inbox)
          /\ cpu' = IF srv'.cfg \/ Resumes(Head(inbox)) THEN [cpu EXCEPT !.pc = "hook"] ELSE cpu
       \/ Lost /\ cpu' = [cpu EXCEPT !.pc = "hook"] /\ UNCHANGED <<srv, inbox>>
    /\ UNCHANGED <<rest, fd, sock, outbox, client, stopNo, answer>>

Frame ==
    /\ At("frame") /\ cpu' = [cpu EXCEPT !.pc = "hook"]
    /\ UNCHANGED <<rest, srv, fd, net, stopNo, answer>>

ShouldBreak ==
    /\ fd /\ srv.cfg
    /\ IF srv.step = "none" THEN cpu.line \in srv.bps ELSE StepStops(srv.step, srv.base, Depth[cpu.line])

check_hook_line ==
    /\ At("hook")
    /\ IF ShouldBreak
       THEN /\ srv' = [srv EXCEPT !.depth = Depth[cpu.line], !.step = "none", !.paused = TRUE, !.state = "live"]
            /\ Stopped /\ cpu' = [cpu EXCEPT !.pc = "recv"]
       ELSE cpu' = Ran(cpu) /\ UNCHANGED <<srv, outbox, stopNo>>
    /\ UNCHANGED <<rest, fd, sock, inbox, client, answer>>

on_inspection(m) == Answer(m)

(* The pause loop reads until it is told to resume or the client is gone.  *)
host_recv ==
    /\ At("recv")
    /\ \/ /\ Incoming /\ inbox' = Tail(inbox)
          /\ LET m == Head(inbox) IN
             IF m.op = "inspect" THEN on_inspection(m) /\ UNCHANGED <<srv, cpu>>
             ELSE /\ srv' = [Flags(srv, m) EXCEPT !.paused = ~Resumes(m)]
                  /\ cpu' = IF Resumes(m) THEN Ran(cpu) ELSE cpu
                  /\ UNCHANGED <<client, answer>>
       \/ /\ Lost /\ cpu' = Ran(cpu) /\ srv' = [srv EXCEPT !.paused = FALSE]
          /\ UNCHANGED <<inbox, client, answer>>
    /\ UNCHANGED <<rest, fd, sock, outbox, stopNo>>

NativeCart ==
    Leg("native") /\ (Accept \/ wait_configuration_done \/ Frame \/ check_hook_line \/ host_recv)
===============================================================================
