------------------------------ MODULE DapHostLua -------------------------------
(***************************************************************************)
(* Host Lua over TCP (dap_transport_tcp_lua.c): a reader thread hands the  *)
(* requests of a paused cart to the thread that owns the VM, which serves  *)
(* them holding the mutex except while it waits for the next.              *)
(***************************************************************************)
EXTENDS DapCore

Unlocked == ~cpu.lock

Accept ==
    /\ rd.pc = "accept" /\ sock = "calling" /\ Unlocked
    /\ sock' = "up" /\ fd' = TRUE /\ rd' = [rd EXCEPT !.pc = "read"]
    /\ UNCHANGED <<scene, srv, hook, queue, cpu, inbox, outbox, client, stopNo, answer>>

(* A request of a paused cart is queued (or dropped when the ring is       *)
(* full); otherwise it is carried out here and every waiter woken.         *)
ReadMsg ==
    /\ rd.pc = "read" /\ inbox # << >> /\ Unlocked /\ inbox' = Tail(inbox)
    /\ IF srv.paused
       THEN /\ queue' = IF Room THEN Append(queue, Head(inbox)) ELSE queue
            /\ cpu' = IF Room THEN Woken(cpu) ELSE cpu
            /\ UNCHANGED <<srv, client, answer, outbox>>
       ELSE dap_lua_dispatch(Head(inbox)) /\ cpu' = Woken(cpu) /\ UNCHANGED queue
    /\ UNCHANGED <<scene, hook, fd, rd, sock, stopNo>>

HangupSilent ==
    /\ rd.pc = "read" /\ sock = "closed" /\ inbox = << >> /\ Unlocked
    /\ sock' = "none" /\ fd' = FALSE /\ rd' = [rd EXCEPT !.pc = "accept"]
    /\ UNCHANGED <<scene, srv, hook, queue, cpu, inbox, outbox, client, stopNo, answer>>

Hangup ==
    /\ rd.pc = "read" /\ sock = "closed" /\ inbox = << >> /\ Unlocked
    /\ sock' = "none" /\ fd' = FALSE /\ rd' = [rd EXCEPT !.pc = "accept"] /\ cpu' = Woken(cpu)
    /\ UNCHANGED <<scene, srv, hook, queue, inbox, outbox, client, stopNo, answer>>

(***************************************************************************)
(* The VM's thread.                                                        *)
(***************************************************************************)
rest == <<scene, fd, rd, sock, inbox>>
quiet == <<rest, queue, outbox, client, stopNo, answer>>
Sleep == cpu' = [cpu EXCEPT !.asleep = TRUE, !.lock = FALSE]

(* The deferred boot waits for the configuration.                          *)
wait_ready ==
    /\ At("boot") /\ ~cpu.asleep
    /\ IF srv.cfg THEN cpu' = [cpu EXCEPT !.pc = "frame"] ELSE Sleep
    /\ UNCHANGED <<srv, hook, quiet>>

RestartIgnored ==
    /\ At("frame") /\ srv' = [srv EXCEPT !.restart = FALSE] /\ cpu' = [cpu EXCEPT !.pc = "hook"]
    /\ UNCHANGED <<hook, quiet>>

run_frame ==
    /\ At("frame")
    /\ srv' = [srv EXCEPT !.restart = FALSE]
    /\ cpu' = IF srv.restart THEN Rebuilt(cpu) ELSE [cpu EXCEPT !.pc = "hook"]
    /\ UNCHANGED <<hook, quiet>>

dap_dispatch ==
    /\ At("hook")
    /\ \/ /\ StepHit
          /\ hook' = [hook EXCEPT !.step = "none"] /\ cpu' = [cpu EXCEPT !.pc = "stop"]
       \/ /\ ~StepHit /\ UNCHANGED hook
          /\ \E hit \in BOOLEAN :
               /\ dap_lua_should_break(hit)
               /\ cpu' = IF hit THEN [cpu EXCEPT !.pc = "stop"] ELSE Ran(cpu)
    /\ UNCHANGED <<srv, quiet>>

(* fc_dap_pause_loop takes the mutex and serves under it.                  *)
Pausing ==
    /\ At("stop")
    /\ srv' = enter_paused(srv) /\ Stopped
    /\ cpu' = [cpu EXCEPT !.pc = "serve", !.lock = TRUE]
    /\ UNCHANGED <<rest, hook, queue, client, answer>>

report_exception ==
    /\ At("hook") /\ Does("error")
    /\ IF fd /\ srv.filter
       THEN /\ srv' = on_exception(srv) /\ Stopped
            /\ cpu' = [cpu EXCEPT !.pc = "serve", !.lock = TRUE, !.after = "frame"]
       ELSE cpu' = Raised(cpu) /\ UNCHANGED <<srv, outbox, stopNo>>
    /\ UNCHANGED <<rest, hook, queue, client, answer>>

Serve ==
    /\ At("serve") /\ ~cpu.asleep /\ fd /\ ~srv.cont
    /\ IF queue = << >> THEN Sleep /\ UNCHANGED <<srv, queue, client, answer, outbox>>
       ELSE /\ dap_lua_dispatch(Head(queue)) /\ queue' = Tail(queue)
            /\ cpu' = [cpu EXCEPT !.lock = TRUE]
    /\ UNCHANGED <<rest, hook, stopNo>>

Resume ==
    /\ At("serve") /\ ~cpu.asleep /\ (~fd \/ srv.cont)
    /\ srv' = apply_resume(srv) /\ hook' = ResumeHook /\ queue' = << >>
    /\ cpu' = [Resumed(cpu) EXCEPT !.lock = FALSE]
    /\ UNCHANGED <<rest, outbox, client, stopNo, answer>>

Shutdown ==
    /\ At("frame") /\ Does("exit")
    /\ cpu' = [cpu EXCEPT !.pc = "off"] /\ fd' = FALSE /\ rd' = [pc |-> "done", m |-> << >>]
    /\ sock' = "none" /\ inbox' = << >> /\ outbox' = << >> /\ queue' = << >>
    /\ client' = [client EXCEPT !.phase = "off", !.asked = 0]
    /\ UNCHANGED <<scene, srv, hook, stopNo, answer>>

HlReader == Leg("hostlua") /\ (Accept \/ ReadMsg \/ Hangup)
HlCart ==
    Leg("hostlua") /\ (wait_ready \/ run_frame \/ dap_dispatch \/ Pausing \/ Serve \/ Resume)
HlNext == HlReader \/ HlCart \/ (Leg("hostlua") /\ (report_exception \/ Shutdown))
===============================================================================
