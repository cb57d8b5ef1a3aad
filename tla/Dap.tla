---------------------------------- MODULE Dap ----------------------------------
(***************************************************************************)
(* Lua debugging over the Debug Adapter Protocol: what the four legs have  *)
(* in common.  The legs are the emulated cart (a server thread in the      *)
(* host, the pause loop in the guest), host Lua (a reader thread, the VM's *)
(* thread blocked in the pause loop), the browser (one event loop) and the *)
(* native process (the cart's own thread reads the socket when it stops).  *)
(*                                                                         *)
(* A cart is the lines 1..Len(Depth) run once a frame, Depth their call    *)
(* depth; all in one source file.  A request is told apart by what it does *)
(* to the server; "inspect" stands for stackTrace, scopes, variables and   *)
(* evaluate, which only read the paused Lua state.                         *)
(***************************************************************************)
EXTENDS Integers, Sequences

CONSTANTS
    Depth,     \* call depth of each line
    QueueCap,  \* slots of a ring of inspection requests; one stays empty
    Scenes,    \* sessions explored: see SceneType
    Inflight   \* requests on their way to the server

Lines == 1..Len(Depth)

(* A session: the leg; whether the frontend waits for the configuration    *)
(* before the first frame; the breakpoints set, conditional ones among     *)
(* them; and what the client does besides configuring and continuing       *)
(* ("eager": it does not wait for the answer to one request before it      *)
(* sends the next).                                                        *)
SceneType == [leg : {"emulated", "hostlua", "wasm", "native"}, waits : BOOLEAN,
              bps : SUBSET Lines, cond : SUBSET Lines,
              ops : SUBSET {"inspect", "eager", "step", "pause", "restart", "disconnect",
                            "close", "error", "rebreak", "exit"}]

ASSUME DapAssumption ==
    /\ Depth \in Seq(Nat) /\ Len(Depth) > 0
    /\ QueueCap \in Nat \ {0, 1} /\ Inflight \in Nat \ {0}
    /\ Scenes \subseteq SceneType

VARIABLES
    scene,
    srv,     \* the server's flags
    hook,    \* fc_master_hook_cfg: the step in force on host Lua and wasm
    queue,   \* inspection requests for the thread that owns the Lua state
    fd,      \* a client is connected, as the server sees it
    rd,      \* the server's thread: [pc, m]
    cpu,     \* the cart's thread
    sock, inbox, outbox, \* the connection, and what is on its way
    client,  \* what the client believes
    stopNo,  \* the number, modulo 3, of the last stop
    answer   \* how the last inspection was answered

net == <<sock, inbox, outbox, client>>
vars == <<scene, srv, hook, queue, fd, rd, cpu, net, stopNo, answer>>

(* "state" is paused_L: none, the live one, or a coroutine that a restart  *)
(* has replaced; "depth" the depth of the last stop.                       *)
FreshServer ==
    [cfg |-> FALSE, bps |-> {}, step |-> "none", base |-> 0, pause |-> FALSE, cont |-> FALSE,
     restart |-> FALSE, filter |-> FALSE, paused |-> FALSE, depth |-> 0, state |-> "none"]

(* "after" is where the cart goes on after a stop, "parked" the browser's  *)
(* g_lua_dap_paused, "starts" its g_lua_needs_start; "new" until the VM    *)
(* has run a line, "vm" the VMs rebuilt.                                   *)
FreshCpu ==
    [pc |-> IF scene.waits /\ scene.leg # "wasm" THEN "boot" ELSE "frame",
     line |-> 1, asleep |-> FALSE, lock |-> FALSE,
     after |-> "line", parked |-> FALSE, starts |-> scene.leg = "wasm", new |-> TRUE, vm |-> 0]

Init ==
    /\ scene \in Scenes
    /\ srv = FreshServer /\ hook = [step |-> "none", base |-> 0] /\ queue = << >>
    /\ fd = FALSE /\ rd = [pc |-> "accept", m |-> << >>] /\ cpu = FreshCpu
    /\ sock = "none" /\ inbox = << >> /\ outbox = << >>
    /\ client = [phase |-> "new", stopped |-> FALSE, stop |-> 0, asked |-> 0, restarts |-> 0]
    /\ stopNo = 0 /\ answer = "none"

(***************************************************************************)
(* What the legs share.                                                    *)
(***************************************************************************)
Leg(l) == scene.leg = l
At(pc) == cpu.pc = pc

(* A step in progress stops at a line of this depth?                       *)
StepStops(step, base, depth) ==
    \/ step = "in"
    \/ step = "over" /\ depth <= base
    \/ step = "out" /\ depth < base

(* The line is executed, and after the last one the frame is over.         *)
Ran(c) == [c EXCEPT !.pc = IF c.line = Len(Depth) THEN "frame" ELSE "hook",
                    !.line = IF c.line = Len(Depth) THEN 1 ELSE c.line + 1, !.new = FALSE]

(* The line raises an error, which ends the callback.                      *)
Raised(c) == [c EXCEPT !.pc = "frame", !.line = 1, !.after = "line", !.new = FALSE]
Resumed(c) == IF c.after = "frame" THEN Raised(c) ELSE Ran(c)

(* The frontend builds the cart's VM anew.                                 *)
Rebuilt(c) == [c EXCEPT !.pc = "boot", !.line = 1, !.new = TRUE, !.vm = @ + 1]

Woken(c) == [c EXCEPT !.asleep = FALSE]

Event(e) == outbox' = IF fd /\ sock = "up" THEN Append(outbox, e) ELSE outbox
Stopped == Event([event |-> "stopped", stop |-> (stopNo + 1) % 3]) /\ stopNo' = (stopNo + 1) % 3

Reply == client' = IF client.asked > 0 THEN [client EXCEPT !.asked = @ - 1] ELSE client
Answer(m) ==
    /\ Reply
    /\ answer' = IF srv.state = "stale" THEN "stale state"
                 ELSE IF m.stop = stopNo THEN "right" ELSE "another stop"

Room == Len(queue) + 1 < QueueCap

(***************************************************************************)
(* The client, external: VS Code's debugger or a test driver.              *)
(***************************************************************************)
target == <<scene, srv, hook, queue, fd, rd, cpu, stopNo, answer>>
Does(op) == op \in scene.ops
Quiet == Does("eager") \/ (client.asked = 0 /\ inbox = << >> /\ queue = << >>)
Idle == client.phase = "ready"

Send(m, c) ==
    /\ sock \in {"calling", "up"} /\ Len(inbox) < Inflight
    /\ inbox' = Append(inbox, m) /\ client' = c
    /\ UNCHANGED <<target, sock, outbox>>

Connect ==
    /\ sock = "none" /\ client.phase = "new" /\ ~At("off")
    /\ sock' = "calling" /\ client' = [client EXCEPT !.phase = "config"]
    /\ UNCHANGED <<target, inbox, outbox>>

SetBreakpoints ==
    /\ client.phase = "config"
    /\ Send([op |-> "setBreakpoints", bps |-> scene.bps, filter |-> Does("error")],
            [client EXCEPT !.phase = "armed"])

ConfigurationDone ==
    client.phase = "armed" /\ Send([op |-> "configurationDone"], [client EXCEPT !.phase = "ready"])

(* Breakpoints change while the cart runs or is stopped.                   *)
Rebreak(bps) ==
    Does("rebreak") /\ Idle /\ Quiet /\ Send([op |-> "setBreakpoints", bps |-> bps, filter |-> Does("error")], client)

(* Inspections may follow one another without waiting.                     *)
Inspect ==
    /\ Does("inspect") /\ Idle /\ client.stopped /\ client.asked < QueueCap - 1
    /\ Does("eager") \/ (\A i \in DOMAIN (inbox \o queue) : (inbox \o queue)[i].op = "inspect")
    /\ Send([op |-> "inspect", stop |-> client.stop], [client EXCEPT !.asked = @ + 1])

Running == [client EXCEPT !.stopped = FALSE]
Continue == Idle /\ client.stopped /\ Quiet /\ Send([op |-> "continue"], Running)
StepBy(step) ==
    Does("step") /\ Idle /\ client.stopped /\ Quiet /\ Send([op |-> "step", step |-> step], Running)
Pause ==
    Does("pause") /\ Idle /\ ~client.stopped /\ Quiet /\ Send([op |-> "pause"], [client EXCEPT !.phase = "pausing"])

(* On the emulated leg only a stopped cart is restarted here: the events   *)
(* of a running one and the server's share send_event's buffer.            *)
Restart ==
    /\ Does("restart") /\ Idle /\ Quiet /\ client.restarts = 0
    /\ Leg("emulated") => client.stopped
    /\ Send([op |-> "restart"], [Running EXCEPT !.phase = "restarting", !.restarts = 1])

Disconnect ==
    Does("disconnect") /\ Idle /\ Quiet /\ Send([op |-> "disconnect"], [client EXCEPT !.phase = "leaving"])

(* A new configuration begins where the server says so: what stopped       *)
(* before is over.                                                         *)
Hear ==
    /\ sock = "up" /\ outbox # << >>
    /\ outbox' = Tail(outbox)
    /\ client' = IF Head(outbox).event = "initialized" THEN [Running EXCEPT !.phase = "config"]
                 ELSE [client EXCEPT !.stopped = TRUE, !.stop = Head(outbox).stop,
                                     !.phase = IF @ = "pausing" THEN "ready" ELSE @]
    /\ UNCHANGED <<target, sock, inbox>>

(* It closes the connection after taking its leave, or without a word.     *)
Close ==
    /\ sock = "up" /\ (Does("close") \/ (client.phase = "leaving" /\ inbox = << >>))
    /\ sock' = "closed" /\ outbox' = << >>
    /\ client' = [client EXCEPT !.phase = "off", !.asked = 0]
    /\ UNCHANGED <<target, inbox>>

ClientNext ==
    \/ Connect \/ SetBreakpoints \/ ConfigurationDone \/ Inspect \/ Continue \/ Pause \/ Restart
    \/ Disconnect \/ Hear \/ Close
    \/ \E step \in {"over", "in", "out"} : StepBy(step)
    \/ \E bps \in {{}, scene.bps} : Rebreak(bps)
===============================================================================
