-------------------------------- MODULE DapLegs --------------------------------
(***************************************************************************)
(* A debugging session on one of the four legs, and what a client may      *)
(* count on whichever it is.                                               *)
(***************************************************************************)
EXTENDS Dap

Emu == INSTANCE DapEmulated
HostLua == INSTANCE DapHostLua
Wasm == INSTANCE DapWasm
Native == INSTANCE DapNative

Next == ClientNext \/ Emu!EmuNext \/ HostLua!HlNext \/ Wasm!WasmNext \/ Native!NativeCart

(* Threads and the event loop are scheduled; the client configures, hears  *)
(* what it is sent and goes on after a stop, and one that has taken its    *)
(* leave closes.  It need not inspect, step, pause or restart.             *)
Fairness ==
    /\ WF_vars(Emu!EmuServer) /\ WF_vars(Emu!EmuCart)
    /\ SF_vars(HostLua!HlReader) /\ WF_vars(HostLua!HlCart)
    /\ WF_vars(Wasm!WasmCart) /\ WF_vars(Native!NativeCart)
    /\ WF_vars(SetBreakpoints) /\ WF_vars(ConfigurationDone) /\ WF_vars(Hear)
    /\ SF_vars(Continue) /\ WF_vars(client.phase = "leaving" /\ Close)

Spec == Init /\ [][Next]_vars /\ Fairness

(***************************************************************************)
(* Properties.                                                             *)
(***************************************************************************)
(* Every variable keeps its shape on every leg, no ring holds more than    *)
(* its capacity less one, and the cart's call depth is the one of a line.  *)
TypeOK ==
    /\ srv \in [cfg : BOOLEAN, bps : SUBSET Lines, step : {"none", "over", "in", "out"},
                base : {0} \cup {Depth[l] : l \in Lines}, pause : BOOLEAN, cont : BOOLEAN,
                restart : BOOLEAN, filter : BOOLEAN, paused : BOOLEAN,
                depth : {0} \cup {Depth[l] : l \in Lines}, state : {"none", "live", "stale"}]
    /\ cpu.line \in Lines /\ cpu.vm \in 0..1 /\ Len(queue) < QueueCap
    /\ client.asked \in 0..QueueCap /\ stopNo \in 0..2

(* An inspection is answered from the stop it was asked in, never from a   *)
(* later one and never from a coroutine that a restart has replaced: the   *)
(* queues of dap_server.c and dap_transport_tcp_lua.c hold no request over *)
(* to the next stop.  Not so for an impatient client on the emulated leg   *)
(* (Fresh).                                                                *)
AnswersOwnStop ==
    (Leg("emulated") => ~Does("eager")) => answer \notin {"another stop", "stale state"}

(* "The lua_State the debugger is currently paused on (NULL when running)" *)
(* (dap_lua_inspect.h): a cart that runs is paused in no Lua state.        *)
NullWhenRunning == (At("hook") /\ scene.leg \in {"hostlua", "wasm"}) => srv.state = "none"

(* "Inspection commands need direct Lua access -- queue for the guest when *)
(* it is inside its pause loop; return empty responses otherwise"          *)
(* (dap_server.c, dispatch): an inspection is never answered from another  *)
(* stop than the one it was asked in.                                      *)
Fresh == answer # "another stop"

(* "Paused ...: the execution thread owns the VM, so it must run every     *)
(* handler.  Enqueue for it to drain in-order." (dap_transport_tcp_lua.c,  *)
(* reader_thread): the pause loop of host Lua ends with nothing but        *)
(* inspections unserved in its queue, for queue_clear to drop.             *)
RunsEveryHandler ==
    (Leg("hostlua") /\ At("serve") /\ ~cpu.asleep /\ srv.cont) =>
      \A i \in DOMAIN queue : queue[i].op = "inspect"

(* A VM runs its first line only when the client has configured the        *)
(* session and its breakpoints are set, after a restart too, so that one   *)
(* in init() fires (blyt_hostlua_dap_wait_ready, blyt_session_dap_wait_    *)
(* ready, wasm_lua_loop's needs_start, fc_dap_wait_ready_for_cart): unless *)
(* the client left or asked for yet another restart.                       *)
ArmedBeforeFirstLine ==
    (At("hook") /\ cpu.new /\ scene.waits /\ client.phase \notin {"leaving", "off"}) =>
      srv.restart \/ (srv.cfg /\ (Does("rebreak") \/ srv.bps = scene.bps))

(* A client that waits for its answers gets them, on every leg: either it  *)
(* has none to wait for, again and again, or answers keep coming (requests *)
(* are answered in the order they were sent).                              *)
Answered ==
    (scene.ops \cap {"eager", "close", "exit", "disconnect"} = {}) =>
      \/ []<>(client.asked = 0)
      \/ []<><<client'.asked < client.asked>>_vars

(* A cart is not left stopped when its client has gone, whether it took    *)
(* its leave or was cut off: it reaches its next frame.  In the browser a  *)
(* connection that drops without a disconnect leaves it parked.            *)
Released ==
    ~(Leg("wasm") /\ Does("close")) =>
      ((client.phase = "off" /\ srv.cfg) ~> cpu.pc \in {"frame", "off"})

(* A restart takes effect: once asked for, the VM is built anew, even if a *)
(* stop, a step or a configuration crosses the request.  (For a client     *)
(* that does not inspect for ever.)                                        *)
Restarted ==
    (~Leg("native") /\ scene.ops \cap {"inspect", "eager", "close", "exit", "disconnect"} = {}) =>
      ((client.phase = "restarting") ~> (cpu.vm = 1))
===============================================================================
