-------------------------------- MODULE GdbStub --------------------------------
(***************************************************************************)
(* Native debugging over TCP: the GDB stub, its transport's reader thread, *)
(* the CPU thread running the cart in run_frame, and the client.  The two  *)
(* threads share the stub's state and the guest's code memory; the stub's  *)
(* flags are under its mutex, the saved words and the flush request under  *)
(* g_bp_mutex, the list of breakpoints under neither.                      *)
(*                                                                         *)
(* The cart's code is the addresses 1..N, run once a frame; executing N    *)
(* ends the frame.  Packets that only read are left out.                   *)
(***************************************************************************)
EXTENDS Integers, Sequences, FiniteSets

CONSTANTS
    N,           \* code addresses
    StepEnds,    \* addresses after which rv_step returns to the run loop
    MaxBreaks,   \* MAX_BREAKS of the stub
    MaxGdbBreaks,\* MAX_GDB_BREAKS of the session
    Scenes,      \* sessions explored: see SceneType
    StopCap      \* stop replies in flight to the client that are told apart

Addr == 1..N
Word == {"orig", "ebreak"}

(* A session: the player waits for the client, and with a Lua half also    *)
(* for its first continue, the libretro core alone does not wait; what the *)
(* client does besides inserting, removing and continuing ("again" is to   *)
(* connect once more); and where it sets breakpoints.                      *)
SceneType == [start : {"core", "player", "hybrid"}, bps : SUBSET Addr,
              ops : SUBSET {"s", "intr", "D", "k", "close", "again"}]

ASSUME GdbAssumption ==
    /\ N \in Nat \ {0} /\ StepEnds \subseteq Addr /\ N \in StepEnds
    /\ MaxBreaks \in Nat \ {0} /\ MaxGdbBreaks \in Nat \ {0} /\ StopCap \in Nat \ {0}
    /\ Scenes \subseteq SceneType

VARIABLES
    scene,
    mem,     \* the words in guest memory
    saved,   \* gdb_bps: by address, the original words kept, oldest first
    nbp,     \* gdb_nbp
    cache,   \* rv32emu's translated code
    flush,   \* g_gdb_block_flush_pending
    breaks, nbreaks, \* the stub's list of breakpoints
    halted, pending, initial, hasClient, continued, \* continued: continue_gen # 0
    running, \* of the transport
    fd,      \* client_fd >= 0
    reader,  \* the reader thread: [pc, addr, i]
    cpu,     \* the CPU thread: [pc, ctx, at, done, step, resume, single, i]
    sock,    \* the client's connection
    packet,  \* the packet on its way to the stub, if any
    client,  \* what the client believes of the target
    want,    \* breakpoints it has inserted
    stops    \* stop replies on their way to it

code == <<mem, saved, nbp, cache, flush>>
list == <<breaks, nbreaks>>
flags == <<halted, pending, initial, hasClient, continued>>
peer == <<sock, packet, client, want>>
vars == <<scene, code, list, flags, running, fd, reader, cpu, peer, stops>>

Actions == {-1, 0, 1, 2}   \* none yet, continue, step, exit
NoPacket == [op |-> "none", addr |-> 0]
Packets == [op : {"Z0", "z0"}, addr : Addr] \cup
           [op : {"?", "c", "s", "intr", "D", "k"}, addr : {0}]

Init ==
    /\ mem = [a \in Addr |-> "orig"] /\ saved = [a \in Addr |-> << >>] /\ nbp = 0
    /\ cache = [a \in Addr |-> "none"] /\ flush = FALSE
    /\ breaks = [i \in 1..MaxBreaks |-> 0] /\ nbreaks = 0
    /\ halted = TRUE /\ pending = -1 /\ initial = TRUE /\ hasClient = FALSE /\ continued = FALSE
    /\ running = TRUE /\ fd = FALSE
    /\ reader = [pc |-> "accept", addr |-> 0, i |-> 0]
    /\ scene \in Scenes
    /\ cpu = [pc |-> IF scene.start = "core" THEN "frame" ELSE "attach", ctx |-> "none", at |-> 1,
              done |-> FALSE, step |-> 0, resume |-> 0, single |-> FALSE, i |-> 0]
    /\ sock = "none" /\ packet = NoPacket /\ client = "new" /\ want = {} /\ stops = 0

(***************************************************************************)
(* The session's operations on guest code, atomic under g_bp_mutex.        *)
(***************************************************************************)
(* Mutants: the word is saved after it was patched; no flush is requested. *)
SetPatchedFirst(a) ==
    IF nbp >= MaxGdbBreaks THEN UNCHANGED <<mem, saved, nbp, flush>>
    ELSE /\ saved' = [saved EXCEPT ![a] = Append(@, "ebreak")]
         /\ mem' = [mem EXCEPT ![a] = "ebreak"]
         /\ nbp' = nbp + 1
         /\ flush' = TRUE
SetUnflushed(a) ==
    IF nbp >= MaxGdbBreaks THEN UNCHANGED <<mem, saved, nbp, flush>>
    ELSE /\ saved' = [saved EXCEPT ![a] = Append(@, mem[a])]
         /\ mem' = [mem EXCEPT ![a] = "ebreak"]
         /\ nbp' = nbp + 1
         /\ UNCHANGED flush

gdb_set_bp(a) ==
    IF nbp >= MaxGdbBreaks THEN UNCHANGED <<mem, saved, nbp, flush>>
    ELSE /\ saved' = [saved EXCEPT ![a] = Append(@, mem[a])]
         /\ mem' = [mem EXCEPT ![a] = "ebreak"]
         /\ nbp' = nbp + 1
         /\ flush' = TRUE

gdb_clear_bp(a) ==
    IF saved[a] = << >> THEN UNCHANGED <<mem, saved, nbp, flush>>
    ELSE /\ mem' = [mem EXCEPT ![a] = Head(saved[a])]
         /\ saved' = [saved EXCEPT ![a] = Tail(@)]
         /\ nbp' = nbp - 1
         /\ flush' = TRUE

check_break(a) == \E i \in 1..nbreaks : breaks[i] = a

(***************************************************************************)
(* The stub's state changes, each one critical section.                    *)
(***************************************************************************)
Park(init) == halted' = TRUE /\ pending' = -1 /\ initial' = init

Release(action) == halted' = FALSE /\ pending' = action

SendStop == stops' = IF fd /\ stops < StopCap THEN stops + 1 ELSE stops

(* Mutant: the client is forgotten, a CPU it parked is not released.       *)
DropUnreleased == hasClient' = FALSE /\ UNCHANGED <<halted, pending, initial, continued>>

(* The end of set_has_client(0); the breakpoints are gone by then.         *)
DropClient == Release(0) /\ hasClient' = FALSE /\ UNCHANGED <<initial, continued>>

(***************************************************************************)
(* The reader thread.                                                      *)
(***************************************************************************)
ReaderAt(pc) == reader.pc = pc
Goto(pc) == reader' = [reader EXCEPT !.pc = pc]
Idle(pc) == reader' = [pc |-> pc, addr |-> 0, i |-> 0]

Accept ==
    /\ ReaderAt("accept") /\ running /\ sock = "calling"
    /\ sock' = "up" /\ Goto("hello")
    /\ UNCHANGED <<scene, code, list, flags, running, fd, cpu, packet, client, want, stops>>

Hello ==
    /\ ReaderAt("hello")
    /\ fd' = TRUE /\ Goto("recv")
    /\ hasClient' = TRUE /\ Park(TRUE)
    /\ UNCHANGED <<scene, code, list, continued, running, cpu, peer, stops>>

(* One packet of the loop in tcp_thread; what changes state in one         *)
(* critical section is done here, the others go on step by step.           *)
Receive ==
    /\ ReaderAt("recv") /\ running /\ packet # NoPacket
    /\ packet' = NoPacket
    /\ reader' = [pc |-> CASE packet.op = "Z0" -> IF nbreaks >= MaxBreaks THEN "recv" ELSE "Zset"
                           [] packet.op = "z0" -> "zcompact"
                           [] packet.op = "D"  -> "Dclear"
                           [] OTHER -> "recv",
                  addr |-> packet.addr, i |-> IF packet.op = "D" THEN 1 ELSE 0]
    /\ CASE packet.op \in {"c", "s"} ->
                /\ Release(IF packet.op = "s" THEN 1 ELSE 0) /\ initial' = FALSE
                /\ continued' = (continued \/ packet.op = "c")
                /\ UNCHANGED <<hasClient, stops>>
         [] packet.op = "intr" -> Park(FALSE) /\ SendStop /\ UNCHANGED <<hasClient, continued>>
         [] packet.op = "?" -> SendStop /\ UNCHANGED flags
         [] packet.op = "D" -> Release(0) /\ UNCHANGED <<initial, hasClient, continued, stops>>
         [] packet.op = "k" -> pending' = 2 /\ UNCHANGED <<halted, initial, hasClient, continued, stops>>
         [] OTHER -> UNCHANGED <<flags, stops>>
    /\ UNCHANGED <<scene, code, list, running, fd, cpu, sock, client, want>>

(* handle_Z0 patches the guest's code, then lists the breakpoint.          *)
Z0Set ==
    /\ ReaderAt("Zset") /\ gdb_set_bp(reader.addr) /\ Goto("Zadd")
    /\ UNCHANGED <<scene, cache, list, flags, running, fd, cpu, peer, stops>>

Z0Add ==
    /\ ReaderAt("Zadd") /\ Idle("recv")
    /\ breaks' = [breaks EXCEPT ![nbreaks + 1] = reader.addr] /\ nbreaks' = nbreaks + 1
    /\ UNCHANGED <<scene, code, flags, running, fd, cpu, peer, stops>>

Others(a) == {i \in 1..nbreaks : breaks[i] # a}

(* handle_z0 moves the other breakpoints down in the list, in their order, *)
(* restores the word, and only then shortens the list.                     *)
z0Compact ==
    /\ ReaderAt("zcompact")
    /\ LET kept == Others(reader.addr)
       IN /\ \E from \in [1..Cardinality(kept) -> kept] :
                /\ {from[i] : i \in DOMAIN from} = kept
                /\ \A i, j \in DOMAIN from : i < j => from[i] < from[j]
                /\ breaks' = [i \in 1..MaxBreaks |->
                                IF i \in DOMAIN from THEN breaks[from[i]] ELSE breaks[i]]
          /\ reader' = [reader EXCEPT !.pc = "zclear", !.i = Cardinality(kept)]
    /\ UNCHANGED <<scene, code, nbreaks, flags, running, fd, cpu, peer, stops>>

z0Clear ==
    /\ ReaderAt("zclear") /\ Goto("zcommit")
    /\ IF reader.i = nbreaks THEN UNCHANGED <<mem, saved, nbp, flush>> ELSE gdb_clear_bp(reader.addr)
    /\ UNCHANGED <<scene, cache, list, flags, running, fd, cpu, peer, stops>>

z0Commit ==
    /\ ReaderAt("zcommit") /\ Idle("recv") /\ nbreaks' = reader.i
    /\ UNCHANGED <<scene, code, breaks, flags, running, fd, cpu, peer, stops>>

(* The socket fails or the transport stops: forget the client.             *)
Hangup ==
    /\ ReaderAt("recv") /\ (~running \/ (sock = "closed" /\ packet = NoPacket))
    /\ fd' = FALSE /\ reader' = [reader EXCEPT !.pc = "Bclear", !.i = 1]
    /\ packet' = NoPacket
    /\ UNCHANGED <<scene, code, list, flags, running, cpu, sock, client, want, stops>>

(* set_has_client(0): clear_all_breakpoints restores the words one by one, *)
(* empties the list, then the flags release the CPU.                       *)
ReaderClear ==
    /\ reader.pc \in {"Dclear", "Bclear"} /\ reader.i <= nbreaks
    /\ gdb_clear_bp(breaks[reader.i])
    /\ reader' = [reader EXCEPT !.i = @ + 1]
    /\ UNCHANGED <<scene, cache, list, flags, running, fd, cpu, peer, stops>>

ReaderEmpty ==
    /\ reader.pc \in {"Dclear", "Bclear"} /\ reader.i > nbreaks
    /\ nbreaks' = 0
    /\ Goto(IF ReaderAt("Dclear") THEN "Ddrop" ELSE "Bdrop")
    /\ UNCHANGED <<scene, code, breaks, flags, running, fd, cpu, peer, stops>>

ReaderDrop ==
    /\ reader.pc \in {"Ddrop", "Bdrop"}
    /\ DropClient
    /\ Idle(IF ReaderAt("Ddrop") THEN "recv" ELSE IF running THEN "accept" ELSE "done")
    /\ sock' = IF ReaderAt("Ddrop") THEN sock ELSE "none"
    /\ UNCHANGED <<scene, code, list, running, fd, cpu, packet, client, want, stops>>

(* accept() fails once the listening socket is shut down.                  *)
AcceptFails ==
    /\ ReaderAt("accept") /\ ~running /\ Goto("done")
    /\ UNCHANGED <<scene, code, list, flags, running, fd, cpu, peer, stops>>

ReaderNext ==
    \/ Accept \/ Hello \/ Receive \/ Z0Set \/ Z0Add \/ z0Compact \/ z0Clear \/ z0Commit
    \/ Hangup \/ ReaderClear \/ ReaderEmpty \/ ReaderDrop \/ AcceptFails

(***************************************************************************)
(* The CPU thread.                                                         *)
(***************************************************************************)
CpuAt(pc) == cpu.pc = pc
CpuGoto(pc) == cpu' = [cpu EXCEPT !.pc = pc]
shared == <<scene, list, flags, running, fd, reader, peer, stops>>

(* The frontend's gates before the cart boots; waiting for the first       *)
(* continue gives up after five seconds and then clears the initial halt.  *)
WaitAttached ==
    /\ CpuAt("attach") /\ hasClient
    /\ CpuGoto(IF scene.start = "hybrid" THEN "gate" ELSE "frame")
    /\ UNCHANGED <<code, shared>>

WaitContinue ==
    /\ CpuAt("gate") /\ continued /\ CpuGoto("frame")
    /\ UNCHANGED <<code, shared>>

GateTimeout ==
    /\ CpuAt("gate") /\ ~continued /\ CpuGoto("frame")
    /\ IF halted /\ pending < 0 /\ initial THEN Release(0) /\ initial' = FALSE
                                           ELSE UNCHANGED <<halted, pending, initial>>
    /\ UNCHANGED <<scene, code, list, hasClient, continued, running, fd, reader, peer, stops>>

Frame ==
    /\ CpuAt("frame")
    /\ cpu' = IF halted THEN [cpu EXCEPT !.pc = "onstop", !.ctx = "entry", !.done = FALSE]
                        ELSE [cpu EXCEPT !.pc = "loop", !.done = FALSE]
    /\ UNCHANGED <<code, shared>>

(* tcp_on_stop: wait for a client's word, or forget there ever was one.    *)
OnStop ==
    /\ CpuAt("onstop")
    /\ cpu' = [cpu EXCEPT !.pc = IF hasClient THEN "poll" ELSE "clear", !.i = 1]
    /\ UNCHANGED <<code, shared>>

CpuClear ==
    /\ CpuAt("clear") /\ cpu.i <= nbreaks
    /\ gdb_clear_bp(breaks[cpu.i])
    /\ cpu' = [cpu EXCEPT !.i = @ + 1]
    /\ UNCHANGED <<cache, shared>>

CpuEmpty ==
    /\ CpuAt("clear") /\ cpu.i > nbreaks
    /\ nbreaks' = 0 /\ CpuGoto("drop")
    /\ UNCHANGED <<scene, code, breaks, flags, running, fd, reader, peer, stops>>

CpuDrop ==
    /\ CpuAt("drop") /\ DropClient /\ CpuGoto("resume")
    /\ UNCHANGED <<scene, code, list, running, fd, reader, peer, stops>>

Poll ==
    /\ CpuAt("poll") /\ pending >= 0 /\ CpuGoto("resume")
    /\ UNCHANGED <<code, shared>>

(* The action is read again: the poll only saw that there was one.         *)
Resume ==
    /\ CpuAt("resume")
    /\ IF pending = 2 THEN CpuGoto("exited") /\ UNCHANGED <<mem, saved, nbp, flush>>
       ELSE LET c == [cpu EXCEPT !.single = (pending = 1)]
            IN CASE cpu.ctx = "entry" ->
                        cpu' = [c EXCEPT !.pc = "loop"] /\ UNCHANGED <<mem, saved, nbp, flush>>
                 [] cpu.ctx = "check" ->
                        cpu' = [c EXCEPT !.pc = "step", !.step = cpu.at] /\ gdb_clear_bp(cpu.at)
                 [] cpu.ctx = "ebreak" ->
                        cpu' = [c EXCEPT !.pc = "single", !.resume = cpu.at] /\ gdb_clear_bp(cpu.at)
                 [] cpu.ctx = "single" ->
                        cpu' = [c EXCEPT !.pc = "end"] /\ UNCHANGED <<mem, saved, nbp, flush>>
    /\ UNCHANGED <<cache, shared>>

(* Mutant: the request is taken, the translated code stays.                *)
LoopKeepsCode ==
    /\ CpuAt("loop") /\ CpuGoto("check") /\ flush' = FALSE
    /\ UNCHANGED <<mem, saved, nbp, cache, shared>>

(* Top of the run loop: drop the translated code if a word was patched.    *)
Loop ==
    /\ CpuAt("loop") /\ CpuGoto("check")
    /\ IF flush THEN cache' = [a \in Addr |-> "none"] /\ flush' = FALSE
                ELSE UNCHANGED <<cache, flush>>
    /\ UNCHANGED <<mem, saved, nbp, shared>>

Check ==
    /\ CpuAt("check")
    /\ cpu' = IF cpu.resume # 0 THEN [cpu EXCEPT !.pc = "step", !.step = cpu.resume, !.resume = 0]
              ELSE IF check_break(cpu.at) THEN [cpu EXCEPT !.pc = "notify", !.ctx = "check"]
              ELSE [cpu EXCEPT !.pc = "step"]
    /\ UNCHANGED <<code, shared>>

(* What the code at p..e does, word by word, given what is executed there: *)
(* it stops at the first ebreak the stub knows; an ebreak it does not know *)
(* is skipped, and with it the instruction it replaced.                    *)
Hits(p, e, w) == {a \in p..e : w[a] = "ebreak" /\ check_break(a)}
Ran(p, e, w) ==
    IF Hits(p, e, w) = {} THEN [at |-> e, hit |-> FALSE]
    ELSE [at |-> CHOOSE a \in Hits(p, e, w) : \A b \in Hits(p, e, w) : a <= b, hit |-> TRUE]

StepEnd(p) == CHOOSE e \in StepEnds : e >= p /\ \A d \in StepEnds : d >= p => e <= d

Translate(p, e) == [a \in Addr |-> IF a \in p..e /\ cache[a] = "none" THEN mem[a] ELSE cache[a]]

(* rv_step runs translated code; rv_step_debug, used to step over a        *)
(* breakpoint, one instruction from memory.                                *)
Step ==
    /\ CpuAt("step")
    /\ LET e == IF cpu.step # 0 THEN cpu.at ELSE StepEnd(cpu.at)
           w == IF cpu.step # 0 THEN mem ELSE Translate(cpu.at, e)
           r == Ran(cpu.at, e, w)
       IN /\ cache' = IF cpu.step # 0 THEN cache ELSE w
          /\ cpu' = [cpu EXCEPT !.pc = IF cpu.step # 0 THEN "patch" ELSE "post",
                                !.at = IF r.hit THEN r.at ELSE IF r.at = N THEN 1 ELSE r.at + 1,
                                !.ctx = IF r.hit THEN "ebreak" ELSE "ran",
                                !.done = ~r.hit /\ r.at = N]
    /\ UNCHANGED <<mem, saved, nbp, flush, shared>>

(* fc_gdb_stub_repatch_bp: if the breakpoint is still listed, set it again *)
Repatch ==
    /\ CpuAt("patch")
    /\ cpu' = IF check_break(cpu.step) THEN [cpu EXCEPT !.pc = "patchset"]
                                       ELSE [cpu EXCEPT !.pc = "post", !.step = 0]
    /\ UNCHANGED <<code, shared>>

RepatchSet ==
    /\ CpuAt("patchset") /\ gdb_set_bp(cpu.step)
    /\ cpu' = [cpu EXCEPT !.pc = "post", !.step = 0]
    /\ UNCHANGED <<cache, shared>>

(* After rv_step: an ebreak, else the pause of a single step, else the end *)
(* of the frame.                                                           *)
Post ==
    /\ CpuAt("post")
    /\ CpuGoto(IF cpu.ctx = "ebreak" THEN "notify" ELSE "single")
    /\ UNCHANGED <<code, shared>>

SinglePause ==
    /\ CpuAt("single")
    /\ cpu' = IF cpu.single THEN [cpu EXCEPT !.pc = "notify", !.single = FALSE, !.ctx = "single"]
                            ELSE [cpu EXCEPT !.pc = "end"]
    /\ UNCHANGED <<code, shared>>

(* fc_gdb_stub_notify_stopped; then block_until_resume.                    *)
Notify ==
    /\ CpuAt("notify") /\ Park(FALSE) /\ SendStop /\ CpuGoto("onstop")
    /\ UNCHANGED <<scene, code, list, hasClient, continued, running, fd, reader, peer>>

End ==
    /\ CpuAt("end") /\ CpuGoto(IF cpu.done THEN "frame" ELSE "loop")
    /\ UNCHANGED <<code, shared>>

(* Unloading the cart, between frames or after it exited: the transport's  *)
(* shutdown closes both sockets and joins the reader.                      *)
Shutdown ==
    /\ cpu.pc \in {"frame", "exited"} /\ running
    /\ running' = FALSE /\ CpuGoto("join")
    /\ UNCHANGED <<scene, code, list, flags, fd, reader, peer, stops>>

Join ==
    /\ CpuAt("join") /\ ReaderAt("done") /\ CpuGoto("off")
    /\ UNCHANGED <<code, shared>>

CpuNext ==
    \/ WaitAttached \/ WaitContinue \/ GateTimeout \/ Frame \/ OnStop \/ CpuClear \/ CpuEmpty \/ CpuDrop
    \/ Poll \/ Resume \/ Loop \/ Check \/ Step \/ Repatch \/ RepatchSet \/ Post \/ SinglePause
    \/ Notify \/ End \/ Join

(***************************************************************************)
(* The client, external: it speaks when the target has stopped, interrupts *)
(* it when it runs, inserts a breakpoint once, and may go at any time.     *)
(***************************************************************************)
engine == <<scene, code, list, flags, running, fd, reader, cpu>>

Connect ==
    /\ sock = "none" /\ running /\ (client = "new" \/ "again" \in scene.ops)
    /\ sock' = "calling" /\ client' = "asking" /\ want' = {} /\ stops' = 0
    /\ packet' = [op |-> "?", addr |-> 0]
    /\ UNCHANGED engine

Send(p, believes, wants) ==
    /\ sock \in {"calling", "up"} /\ packet = NoPacket
    /\ packet' = p /\ client' = believes /\ want' = wants
    /\ UNCHANGED <<engine, sock, stops>>

Insert(a) == client = "stopped" /\ a \notin want /\ Send([op |-> "Z0", addr |-> a], "stopped", want \cup {a})
Remove(a) == client = "stopped" /\ a \in want /\ Send([op |-> "z0", addr |-> a], "stopped", want \ {a})
Continue == client = "stopped" /\ Send([op |-> "c", addr |-> 0], "running", want)
SingleStep == "s" \in scene.ops /\ client = "stopped" /\ Send([op |-> "s", addr |-> 0], "running", want)
Interrupt == "intr" \in scene.ops /\ client = "running" /\ Send([op |-> "intr", addr |-> 0], "asking", want)
Detach == "D" \in scene.ops /\ client = "stopped" /\ Send([op |-> "D", addr |-> 0], "gone", {})
Kill == "k" \in scene.ops /\ client = "stopped" /\ Send([op |-> "k", addr |-> 0], "gone", want)

HearStop ==
    /\ stops > 0 /\ client \in {"asking", "running", "stopped"}
    /\ stops' = stops - 1 /\ client' = "stopped"
    /\ UNCHANGED <<engine, sock, packet, want>>

Close ==
    /\ sock = "up" /\ ("close" \in scene.ops \/ (client = "gone" /\ packet = NoPacket))
    /\ sock' = "closed" /\ client' = "off" /\ want' = {} /\ stops' = 0
    /\ UNCHANGED <<engine, packet>>

ClientNext ==
    \/ Connect \/ Continue \/ SingleStep \/ Interrupt \/ Detach \/ Kill \/ HearStop \/ Close
    \/ \E a \in scene.bps : Insert(a) \/ Remove(a)

Next == ReaderNext \/ CpuNext \/ Shutdown \/ ClientNext

(* Threads run; a client reads its replies, does not keep a stopped target *)
(* for ever, and leaves once it detached; an exited cart is unloaded.      *)
Fairness ==
    /\ WF_vars(ReaderNext) /\ WF_vars(CpuNext)
    /\ SF_vars(Poll)
    /\ WF_vars(CpuAt("exited") /\ Shutdown)
    /\ WF_vars(HearStop)
    /\ SF_vars(Continue)
    /\ WF_vars(client = "gone" /\ packet = NoPacket /\ Close)

Spec == Init /\ [][Next]_vars /\ Fairness

(***************************************************************************)
(* Properties.                                                             *)
(***************************************************************************)
TypeOK ==
    /\ mem \in [Addr -> Word] /\ saved \in [Addr -> Seq(Word)] /\ nbp \in Int
    /\ cache \in [Addr -> Word \cup {"none"}] /\ flush \in BOOLEAN
    /\ breaks \in [1..MaxBreaks -> 0..N] /\ nbreaks \in 0..MaxBreaks
    /\ halted \in BOOLEAN /\ pending \in Actions /\ initial \in BOOLEAN
    /\ hasClient \in BOOLEAN /\ continued \in BOOLEAN /\ running \in BOOLEAN /\ fd \in BOOLEAN
    /\ packet \in Packets \cup {NoPacket} /\ want \in SUBSET Addr /\ stops \in 0..StopCap
    /\ cpu.at \in Addr /\ cpu.step \in 0..N /\ cpu.resume \in 0..N

(* However insertions, removals, step-overs, a kill and a disconnection    *)
(* interleave, the instruction under an ebreak is still among the words    *)
(* gdb_set_bp saved for that address, so it can be put back.  A client     *)
(* that also steps, interrupts or reconnects can break this, because the   *)
(* list of breakpoints is shared without a lock.                           *)
OriginalKept ==
    (scene.start = "player" /\ scene.ops \cap {"s", "intr", "again"} = {}) =>
    \A a \in Addr : mem[a] = "ebreak" => \E i \in 1..Len(saved[a]) : saved[a][i] = "orig"

(* Issue #146: unless a flush is requested, the code the emulator has      *)
(* translated is the code in memory, whichever thread patched it.          *)
CacheCoherent ==
    ~flush => \A a \in Addr : cache[a] \in {"none", mem[a]}

Installed(a) == check_break(a) /\ (mem[a] = "ebreak" \/ cpu.step = a \/ cpu.resume = a)

(* A breakpoint that is listed and patched in stops the target again and   *)
(* again, also when it went into code already translated (#146: "a late    *)
(* insert re-translates and fires the next time its address executes").    *)
InstalledFires ==
    \A a \in Addr : <>[]Installed(a) => []<>(CpuAt("notify") /\ cpu.at = a)

(* The run loop is not permanently blocked in tcp_on_stop: a continue, a   *)
(* step, a detach, a kill or a disconnection always gets through to it.    *)
Released == CpuAt("poll") ~> ~CpuAt("poll")

(* "Client disconnected: clear all breakpoints so the cart does not hit    *)
(* dangling ebreaks" (set_has_client): with no client no ebreak is left.   *)
NoDanglingEbreaks ==
    (ReaderAt("accept") /\ cpu.pc \in {"frame", "loop"}) => \A a \in Addr : mem[a] = "orig"

===============================================================================
