----------------------------- MODULE GdbStubProofs ------------------------------
(***************************************************************************)
(* Proofs about the GDB stub, for any code, block boundaries, breakpoint   *)
(* tables and sessions.                                                    *)
(*                                                                         *)
(* CacheCoherent is not inductive by itself: what Resume does to the code  *)
(* depends on why the CPU had stopped, so the invariant also says that a   *)
(* stopped CPU knows its reason.                                           *)
(*                                                                         *)
(* OriginalKept says nothing of the client, yet it rests on who may speak  *)
(* when: a second insertion at an address, or one that meets a step-over,  *)
(* would save the ebreak as if it were the cart's own word.  KeptInv       *)
(* follows the conversation, the list and the saved words together.        *)
(***************************************************************************)
EXTENDS GdbStub, FiniteSetTheorems, TLAPS

Stopped == {"notify", "onstop", "clear", "drop", "poll", "resume"}
Reasons == {"entry", "check", "ebreak", "single"}

CpuFields ==
    DOMAIN cpu = {"pc", "ctx", "at", "done", "step", "resume", "single", "i"}

StopInv ==
    /\ CpuFields
    /\ flush \in BOOLEAN
    /\ cpu.pc \in Stopped => cpu.ctx \in Reasons
    /\ CacheCoherent

\* Words patched or restored leave a flush request behind, unless nothing was
\* done (gdb_set_bp and gdb_clear_bp, "#146").
LEMMA PatchCoherent ==
  ASSUME StopInv, NEW a, gdb_set_bp(a) \/ gdb_clear_bp(a) \/ UNCHANGED <<mem, saved, nbp, flush>>,
         UNCHANGED cache
  PROVE  CacheCoherent' /\ flush' \in BOOLEAN
<1>1. flush' \/ UNCHANGED <<mem, flush, cache>>
  BY DEF gdb_set_bp, gdb_clear_bp
<1> QED
  BY <1>1, Zenon DEF CacheCoherent, StopInv, gdb_set_bp, gdb_clear_bp

\* Nothing is translated or stopped in the initial states.
LEMMA InitCoherent == Init => StopInv
<1> SUFFICES ASSUME Init PROVE StopInv
  OBVIOUS
<1>1. CpuFields /\ cpu.pc \in {"frame", "attach"}
  BY DEF Init, CpuFields
<1>2. CacheCoherent
  BY DEF Init, CacheCoherent
<1> QED
  BY <1>1, <1>2, Zenon DEF Init, StopInv, Stopped

\* The reader thread patches code while the CPU translates it, always with a
\* flush request, and never touches the CPU's own state.
LEMMA ReaderCoherent ==
  ASSUME StopInv, ReaderNext
  PROVE  StopInv'
<1>1. cpu' = cpu /\ cache' = cache
  BY Zenon DEF ReaderNext, Accept, Hello, Receive, Z0Set, Z0Add, z0Compact, z0Clear, z0Commit, Hangup,
         ReaderClear, ReaderEmpty, ReaderDrop, AcceptFails, code
<1>2. \/ UNCHANGED <<mem, saved, nbp, flush>>
      \/ gdb_set_bp(reader.addr) \/ gdb_clear_bp(reader.addr) \/ gdb_clear_bp(breaks[reader.i])
  BY Zenon DEF ReaderNext, Accept, Hello, Receive, Z0Set, Z0Add, z0Compact, z0Clear, z0Commit, Hangup,
         ReaderClear, ReaderEmpty, ReaderDrop, AcceptFails, code
<1>3. CacheCoherent' /\ flush' \in BOOLEAN
  BY <1>1, <1>2, PatchCoherent
<1> QED
  BY <1>1, <1>3, Zenon DEF StopInv, CpuFields

\* The CPU's steps that leave the code alone and follow the reason of a stop.
LEMMA CpuWalks ==
  ASSUME StopInv, UNCHANGED code, DOMAIN cpu' = DOMAIN cpu,
         cpu'.pc \in Stopped => cpu'.ctx \in Reasons
  PROVE  StopInv'
  BY DEF StopInv, CpuFields, CacheCoherent, code

\* Every step of the CPU thread keeps translated code and memory together: the
\* top of the loop drops all of it before it takes the request back, a block is
\* translated from the words in memory, a step-over patches with a request.
LEMMA CpuCoherent ==
  ASSUME StopInv, CpuNext
  PROVE  StopInv'
<1> USE DEF CpuAt, CpuGoto
<1>1. CASE WaitAttached \/ WaitContinue \/ GateTimeout \/ Join \/ End
  <2>1. UNCHANGED code /\ DOMAIN cpu' = DOMAIN cpu /\ cpu'.pc \notin Stopped
    BY <1>1 DEF WaitAttached, WaitContinue, GateTimeout, Join, End, StopInv, CpuFields, Stopped
  <2> QED
    BY <2>1, CpuWalks
<1>2. CASE Frame \/ Check \/ Repatch \/ SinglePause \/ Post
  <2>1. UNCHANGED code /\ DOMAIN cpu' = DOMAIN cpu
    BY <1>2, Zenon DEF Frame, Check, Repatch, SinglePause, Post
  <2>2. cpu'.pc \in Stopped => cpu'.ctx \in Reasons
    BY <1>2, Zenon DEF Frame, Check, Repatch, SinglePause, Post, StopInv, CpuFields, Stopped, Reasons
  <2> QED
    BY <2>1, <2>2, CpuWalks
<1>3. CASE OnStop \/ CpuEmpty \/ CpuDrop \/ Poll \/ Notify
  <2>1. UNCHANGED code /\ DOMAIN cpu' = DOMAIN cpu /\ cpu'.ctx = cpu.ctx /\ cpu.pc \in Stopped
    BY <1>3, Zenon DEF OnStop, CpuEmpty, CpuDrop, Poll, Notify, StopInv, CpuFields, Stopped
  <2> QED
    BY <2>1, CpuWalks DEF StopInv
<1>4. CASE CpuClear
  <2>1. CacheCoherent' /\ flush' \in BOOLEAN
    BY <1>4, PatchCoherent DEF CpuClear
  <2>2. CpuFields' /\ cpu'.ctx = cpu.ctx /\ cpu.pc \in Stopped
    BY <1>4 DEF CpuClear, StopInv, CpuFields, Stopped
  <2> QED
    BY <2>1, <2>2 DEF StopInv
<1>5. CASE Resume
  <2>1. cpu.ctx \in Reasons
    BY <1>5 DEF Resume, StopInv, Stopped
  <2>2. gdb_clear_bp(cpu.at) \/ UNCHANGED <<mem, saved, nbp, flush>>
    BY <1>5, <2>1, Zenon DEF Resume, Reasons
  <2>3. CacheCoherent' /\ flush' \in BOOLEAN
    BY <1>5, <2>2, PatchCoherent DEF Resume
  <2>4. CpuFields' /\ cpu'.pc \notin Stopped
    BY <1>5, <2>1, Zenon DEF Resume, Reasons, StopInv, CpuFields, Stopped
  <2> QED
    BY <2>3, <2>4 DEF StopInv
<1>6. CASE Loop
  <2>1. CacheCoherent' /\ flush' \in BOOLEAN
    BY <1>6, Zenon DEF Loop, StopInv, CacheCoherent
  <2>2. CpuFields' /\ cpu'.pc \notin Stopped
    BY <1>6 DEF Loop, StopInv, CpuFields, Stopped
  <2> QED
    BY <2>1, <2>2 DEF StopInv
<1>7. CASE Step
  <2>1. \/ cache' = cache
        \/ \E e : cache' = Translate(cpu.at, e)
    BY <1>7 DEF Step
  <2>2. \A a \in Addr : cache'[a] = cache[a] \/ cache'[a] = mem[a]
    BY <2>1 DEF Translate
  <2>3. UNCHANGED <<mem, flush>> /\ CpuFields' /\ cpu'.pc \notin Stopped
    BY <1>7 DEF Step, StopInv, CpuFields, Stopped
  <2> QED
    BY <2>2, <2>3 DEF StopInv, CacheCoherent
<1>8. CASE RepatchSet
  <2>1. CacheCoherent' /\ flush' \in BOOLEAN
    BY <1>8, PatchCoherent DEF RepatchSet
  <2>2. CpuFields' /\ cpu'.pc \notin Stopped
    BY <1>8 DEF RepatchSet, StopInv, CpuFields, Stopped
  <2> QED
    BY <2>1, <2>2 DEF StopInv
<1> QED
  BY <1>1, <1>2, <1>3, <1>4, <1>5, <1>6, <1>7, <1>8 DEF CpuNext

\* The client only sends and hears.
LEMMA ClientCoherent ==
  ASSUME StopInv, ClientNext \/ UNCHANGED vars
  PROVE  StopInv'
<1>1. UNCHANGED <<code, cpu>>
  BY DEF ClientNext, Connect, Send, Insert, Remove, Continue, SingleStep, Interrupt, Detach, Kill,
         HearStop, Close, engine, vars
<1> QED
  BY <1>1, Zenon DEF StopInv, CpuFields, CacheCoherent, code

\* Every step of either thread and of the client keeps them together.
LEMMA StopPreserved ==
  ASSUME StopInv, [Next]_vars
  PROVE  StopInv'
<1>1. CASE Shutdown
  <2>1. UNCHANGED code /\ DOMAIN cpu' = DOMAIN cpu /\ cpu'.pc \notin Stopped
    BY <1>1 DEF Shutdown, CpuGoto, StopInv, CpuFields, Stopped
  <2> QED
    BY <2>1, CpuWalks
<1> QED
  BY <1>1, ReaderCoherent, CpuCoherent, ClientCoherent DEF Next

\* Unless a flush is requested, the code the emulator has translated is the code
\* in memory, whichever thread patched it and however the two interleave with
\* any number of clients, breakpoints, steps, interrupts and disconnections.
THEOREM TranslatedAlwaysCoherent == Spec => []CacheCoherent
<1>1. StopInv => CacheCoherent
  BY DEF StopInv
<1> QED
  BY <1>1, InitCoherent, StopPreserved, PTL DEF Spec

(***************************************************************************)
(* The original words.  A client that neither steps nor interrupts nor     *)
(* reconnects speaks only while the CPU is parked, so a word is saved at   *)
(* most once: by the insertion, or by the step over a breakpoint that put  *)
(* it back itself.                                                         *)
(***************************************************************************)
Calm == scene.start = "player" /\ scene.ops \cap {"s", "intr", "again"} = {}

Gone == client \in {"gone", "off"}
Left == Gone \/ ~running
Dead == cpu.pc \in {"exited", "join", "off"}
Listing == {"Zset", "Zadd", "zcompact", "zclear", "zcommit"}
Serving == Listing \cup {"recv"}

\* Before a client has been greeted.
Before ==
    /\ cpu.pc = "attach" /\ reader.pc \in {"accept", "hello"} /\ ~hasClient /\ running
    /\ nbreaks = 0 /\ \A a \in Addr : saved[a] = << >>

\* The CPU does not run and will not before the client has said so.
Parked ==
    /\ cpu.step = 0 /\ cpu.resume = 0
    /\ Dead \/ (hasClient /\ halted /\ pending = -1
                /\ cpu.pc \in {"attach", "frame", "onstop", "poll"})

\* Somebody counts on the CPU to stay where it is.
Awaiting ==
    \/ client = "stopped" \/ packet.op \in {"Z0", "z0", "c"}
    \/ stops > 0 /\ client \in {"asking", "running"}
    \/ reader.pc \in Listing

Shapes ==
    /\ CpuFields /\ DOMAIN reader = {"pc", "addr", "i"} /\ DOMAIN packet = {"op", "addr"}
    /\ DOMAIN mem = Addr /\ DOMAIN saved = Addr
    /\ DOMAIN breaks = 1..MaxBreaks /\ nbreaks \in 0..MaxBreaks
    /\ stops \in Nat
    /\ cpu.pc # "gate" /\ cpu.single = FALSE /\ pending \in {-1, 0, 2}

\* Each word is in place, or an ebreak is and the word is saved once.
Clean == \A a \in Addr : \/ mem[a] = "orig" /\ saved[a] = << >>
                         \/ mem[a] = "ebreak" /\ saved[a] = <<"orig">>

\* The breakpoint that is being stepped over is not patched in.
StepInv ==
    /\ cpu.step # 0 => cpu.pc \in {"step", "patch", "patchset"}
    /\ cpu.resume # 0 => cpu.pc \in {"single", "end", "loop", "check"} /\ cpu.done = FALSE
    /\ cpu.ctx = "ebreak" => cpu.done = FALSE
    /\ \A a \in Addr : a \in {cpu.step, cpu.resume} => saved[a] = << >>

\* What the client has said, and what is on its way.
TalkInv ==
    /\ client \in {"new", "asking", "running", "stopped"} \cup {"gone", "off"}
    /\ client = "new" => Before /\ packet = NoPacket /\ sock = "none" /\ reader.pc = "accept"
    /\ sock = "calling" => Before /\ packet.op = "?" /\ reader.pc = "accept"
    /\ reader.pc = "hello" => Before /\ packet.op = "?"
    /\ sock = "closed" => client = "off"
    /\ packet.op \in {"none", "?", "Z0", "z0", "c", "D", "k"}
    /\ packet.op = "?" => client \in {"asking", "off"} /\ (Before \/ (Parked /\ reader.pc \in Serving))
    /\ packet.op \in {"Z0", "z0"} => client \in {"stopped", "off"}
    /\ packet.op = "c" => client \in {"running", "off"}
    /\ packet.op \in {"D", "k"} => Gone
    /\ client = "stopped" => stops = 0
    /\ client \in {"asking", "running"} => stops <= 1
    /\ packet.op \in {"?", "c"} => stops = 0 \/ Gone

\* Who is there.
PresentInv ==
    /\ Awaiting => Parked
    /\ client \in {"asking", "running", "stopped"} =>
           hasClient \/ Dead \/ (Before /\ packet.op = "?")
    /\ ~running => Dead
    /\ cpu.pc \in {"clear", "drop"} => ~hasClient
    /\ reader.pc \in {"Dclear", "Ddrop"} => Gone /\ packet = NoPacket
    /\ reader.pc \in {"Bclear", "Bdrop"} => (client = "off" /\ packet = NoPacket) \/ Dead
    /\ reader.pc \in Serving /\ ~hasClient => reader.pc = "recv" /\ Gone /\ packet = NoPacket

\* The list, against what the client wants and what is patched in.
Known(b) == Left \/ b \in want \/ packet = [op |-> "z0", addr |-> b]
Clearing(a) == reader.pc \in {"zcompact", "zclear"} /\ reader.addr = a
Listed(a) ==
    CASE reader.pc = "Zadd" -> check_break(a) \/ a = reader.addr
      [] reader.pc = "zclear" -> \/ \E i \in 1..reader.i : breaks[i] = a
                                 \/ a = reader.addr /\ reader.i # nbreaks
      [] reader.pc = "zcommit" -> \E i \in 1..reader.i : breaks[i] = a
      [] OTHER -> check_break(a)

ListInv ==
    /\ reader.pc \in {"Zset", "Zadd"} => Known(reader.addr) /\ nbreaks < MaxBreaks
    /\ reader.pc \in {"zclear", "zcommit"} => reader.i \in 0..nbreaks
    /\ reader.pc = "zclear" => \A i \in 1..reader.i : breaks[i] # reader.addr
    /\ packet.op = "Z0" => packet.addr \in want \/ Left
    /\ \A i \in 1..(IF reader.pc \in {"zclear", "zcommit"} THEN reader.i ELSE nbreaks) :
           Known(breaks[i]) \/ (reader.pc = "zcompact" /\ breaks[i] = reader.addr)
    /\ hasClient /\ reader.pc \in Serving => \A a \in Addr : saved[a] # << >> => Listed(a)
    /\ cpu.pc = "patchset" =>
           /\ cpu.step \in want \/ Left
           /\ hasClient /\ reader.pc \in Serving => check_break(cpu.step)

\* A word that is saved belongs to a breakpoint the client has inserted, and one
\* on its way is not saved yet.
SavedInv ==
    /\ \A a \in Addr : saved[a] # << >> => Known(a) \/ Clearing(a)
    /\ running /\ packet.op = "Z0" /\ packet.addr \in Addr /\ saved[packet.addr] # << >> =>
           Clearing(packet.addr)
    /\ reader.pc = "Zset" /\ reader.addr \in Addr => saved[reader.addr] = << >>
    /\ running /\ reader.pc = "Zset" /\ packet.op = "Z0" => packet.addr # reader.addr

KeptInv == Shapes /\ Clean /\ StepInv /\ TalkInv /\ PresentInv /\ ListInv /\ SavedInv
KeptWhenCalm == Calm => KeptInv

\* gdb_set_bp on a word in place saves that word; it changes no other.
LEMMA SetKeeps ==
  ASSUME Clean, DOMAIN mem = Addr, DOMAIN saved = Addr, NEW a, gdb_set_bp(a),
         a \in Addr => saved[a] = << >>
  PROVE  /\ Clean' /\ DOMAIN mem' = Addr /\ DOMAIN saved' = Addr
         /\ \A b \in Addr : b # a => saved'[b] = saved[b]
<1>1. CASE nbp >= MaxGdbBreaks
  BY <1>1 DEF gdb_set_bp, Clean
<1>2. CASE ~(nbp >= MaxGdbBreaks)
  <2>1. /\ saved' = [saved EXCEPT ![a] = Append(@, mem[a])]
        /\ mem' = [mem EXCEPT ![a] = "ebreak"]
    BY <1>2 DEF gdb_set_bp
  <2>2. a \in Addr => saved'[a] = <<"orig">> /\ mem'[a] = "ebreak"
    BY <2>1 DEF Clean
  <2> QED
    BY <2>1, <2>2 DEF Clean
<1> QED
  BY <1>1, <1>2

\* gdb_clear_bp puts the one word saved for the address back.
LEMMA ClearKeeps ==
  ASSUME Clean, DOMAIN mem = Addr, DOMAIN saved = Addr, NEW a, gdb_clear_bp(a)
  PROVE  /\ Clean' /\ DOMAIN mem' = Addr /\ DOMAIN saved' = Addr
         /\ \A b \in Addr : b # a => saved'[b] = saved[b]
         /\ a \in Addr => saved'[a] = << >>
<1>1. CASE saved[a] = << >>
  BY <1>1 DEF gdb_clear_bp, Clean
<1>2. CASE saved[a] # << >>
  <2>1. /\ mem' = [mem EXCEPT ![a] = Head(saved[a])]
        /\ saved' = [saved EXCEPT ![a] = Tail(@)]
    BY <1>2 DEF gdb_clear_bp
  <2>2. a \in Addr => saved[a] = <<"orig">>
    BY <1>2 DEF Clean
  <2>3. Head(<<"orig">>) = "orig" /\ Tail(<<"orig">>) = << >>
    OBVIOUS
  <2>4. a \in Addr => saved'[a] = << >> /\ mem'[a] = "orig"
    BY <2>1, <2>2, <2>3, Zenon
  <2> QED
    BY <2>1, <2>4 DEF Clean
<1> QED
  BY <1>1, <1>2

\* Once the reader is past its greeting, a client was there before.
LEMMA Greeted ==
  ASSUME KeptInv, reader.pc \notin {"accept", "hello"}
  PROVE  /\ ~Before /\ client # "new" /\ sock # "calling"
         /\ packet.op = "?" => Parked /\ reader.pc \in Serving
  BY DEF KeptInv, TalkInv, Before

\* A CPU that is not parked: nobody counts on it to stay where it is, and the
\* reader is not at work on the list.
LEMMA NotAwaited ==
  ASSUME KeptInv, ~Parked
  PROVE  /\ client # "stopped" /\ packet.op \notin {"Z0", "z0", "c"} /\ reader.pc \notin Listing
         /\ client \in {"asking", "running"} => stops = 0
         /\ cpu.pc # "attach" => packet.op # "?" /\ client # "new" /\ sock # "calling" /\ reader.pc # "hello"
  BY DEF KeptInv, PresentInv, Awaiting, TalkInv, Before, Shapes

\* In the initial states no word is patched and nobody has connected.
LEMMA InitKept == Init => KeptWhenCalm
<1> SUFFICES ASSUME Init, Calm PROVE KeptInv
  BY DEF KeptWhenCalm
<1>1. /\ cpu = [pc |-> "attach", ctx |-> "none", at |-> 1, done |-> FALSE, step |-> 0,
                resume |-> 0, single |-> FALSE, i |-> 0]
      /\ reader.pc = "accept" /\ DOMAIN reader = {"pc", "addr", "i"}
      /\ packet.op = "none" /\ packet = NoPacket /\ DOMAIN packet = {"op", "addr"}
  BY DEF Init, Calm, NoPacket
<1>2. Shapes
  BY <1>1, GdbAssumption DEF Init, Shapes, CpuFields
<1>3. Clean /\ StepInv
  BY <1>1 DEF Init, Clean, StepInv
<1>4. Before
  BY <1>1 DEF Init, Before
<1>5. TalkInv
  BY <1>1, <1>4 DEF Init, TalkInv
<1>6. PresentInv
  BY <1>1 DEF Init, PresentInv, Awaiting, Listing, Serving
<1>7. ListInv /\ SavedInv
  BY <1>1 DEF Init, ListInv, SavedInv
<1> QED
  BY <1>2, <1>3, <1>5, <1>6, <1>7 DEF KeptInv

\* The client speaks: it believes that the target has stopped, and it has.  A
\* breakpoint it inserts is one whose word is in place, or is about to be.
LEMMA ClientSpeaksKept ==
  ASSUME Calm, KeptInv,
         Continue \/ SingleStep \/ Interrupt \/ Detach \/ Kill \/ \E a \in scene.bps : Insert(a) \/ Remove(a)
  PROVE  KeptInv'
<1> USE DEF engine, list, flags, code
<1>1. /\ UNCHANGED <<mem, saved, breaks, nbreaks, hasClient, halted, pending, running, reader, cpu, sock, stops>>
      /\ client = "stopped" /\ packet = NoPacket /\ DOMAIN packet' = {"op", "addr"}
  BY DEF Continue, SingleStep, Interrupt, Detach, Kill, Insert, Remove, Send, Calm
<1>2. /\ (Dead' <=> Dead) /\ (Parked' <=> Parked) /\ (Before' <=> Before)
      /\ (\A a : Clearing(a)' <=> Clearing(a)) /\ (\A a : Listed(a)' <=> Listed(a))
      /\ (\A a : check_break(a)' <=> check_break(a))
  BY <1>1, Zenon DEF Dead, Parked, Before, Clearing, Listed, check_break
<1>3. Shapes' /\ Clean' /\ StepInv'
  BY <1>1, Zenon DEF KeptInv, Shapes, CpuFields, Clean, StepInv
<1>4. /\ Parked /\ ~Gone /\ stops = 0 /\ cpu.pc # "patchset" /\ (Left <=> ~running) /\ packet.op = "none"
      /\ sock # "closed" /\ sock # "calling" /\ reader.pc # "hello"
  BY <1>1 DEF KeptInv, PresentInv, Awaiting, TalkInv, Gone, Left, NoPacket, Parked, Dead
<1>5. ASSUME client' \in {"stopped", "running", "gone"},
             packet'.op \in {"Z0", "z0"} => client' = "stopped",
             packet'.op = "c" => client' = "running",
             packet'.op \in {"D", "k"} => client' = "gone",
             packet'.op \in {"Z0", "z0", "c", "D", "k"}
      PROVE  TalkInv' /\ PresentInv'
  <2>1. Gone' <=> client' = "gone"
    BY <1>5, Zenon DEF Gone
  <2>2. TalkInv'
    BY <1>1, <1>2, <1>4, <1>5, <2>1 DEF KeptInv, TalkInv
  <2>3. PresentInv'
    <3>1. hasClient \/ Dead
      BY <1>1, <1>4, Zenon DEF KeptInv, PresentInv
    <3>2. reader.pc \notin {"Dclear", "Ddrop"} /\ (reader.pc \in {"Bclear", "Bdrop"} => Dead)
      BY <1>1, <1>4, Zenon DEF KeptInv, PresentInv
    <3>3. reader.pc \in Serving => hasClient
      BY <1>4, Zenon DEF KeptInv, PresentInv
    <3> QED
      BY <1>1, <1>2, <1>4, <3>1, <3>2, <3>3, Zenon DEF KeptInv, PresentInv
  <2> QED
    BY <2>2, <2>3, Zenon
<1>6. ASSUME \A a : Known(a) => Known(a)', Left => Left',
             packet'.op = "Z0" => packet'.addr \in want' \/ Left',
             running /\ packet'.op = "Z0" /\ packet'.addr \in Addr /\ saved[packet'.addr] # << >>
                 => Clearing(packet'.addr),
             running /\ reader.pc = "Zset" /\ packet'.op = "Z0" => packet'.addr # reader.addr
      PROVE  ListInv' /\ SavedInv'
  <2>1. ListInv'
    BY <1>1, <1>2, <1>4, <1>6, Zenon DEF KeptInv, ListInv
  <2>2. SavedInv'
    BY <1>1, <1>2, <1>6, Zenon DEF KeptInv, SavedInv
  <2> QED
    BY <2>1, <2>2
<1>7. CASE Continue \/ Detach \/ Kill
  <2>1. /\ packet'.op \in {"c", "D", "k"} /\ (packet'.op = "c" <=> client' = "running")
        /\ client' \in {"running", "gone"} /\ (client' = "running" => want' = want)
    BY <1>7 DEF Continue, Detach, Kill, Send
  <2>2. (\A a : Known(a) => Known(a)') /\ (Left => Left')
    BY <1>1, <1>4, <2>1 DEF Known, Left, Gone
  <2> QED
    BY <1>3, <1>5, <1>6, <2>1, <2>2, Zenon DEF KeptInv
<1>8. ASSUME NEW a, Insert(a) PROVE KeptInv'
  <2>1. packet'.op = "Z0" /\ packet'.addr = a /\ client' = "stopped" /\ a \notin want /\ want' = want \cup {a}
    BY <1>8, Zenon DEF Insert, Send
  <2>2. (\A b : Known(b) => Known(b)') /\ (Left => Left')
    BY <1>1, <1>4, <2>1 DEF Known, Left, Gone
  <2>3. ~Known(a) \/ ~running
    BY <1>4, <2>1 DEF Known, Gone, Left
  <2>4. running /\ a \in Addr /\ saved[a] # << >> => Clearing(a)
    BY <2>3, Zenon DEF KeptInv, SavedInv
  <2>5. running /\ reader.pc = "Zset" => a # reader.addr
    BY <2>3, Zenon DEF KeptInv, ListInv
  <2> QED
    BY <1>3, <1>5, <1>6, <2>1, <2>2, <2>4, <2>5, Zenon DEF KeptInv
<1>9. ASSUME NEW a, Remove(a) PROVE KeptInv'
  <2>1. packet' = [op |-> "z0", addr |-> a] /\ packet'.op = "z0" /\ client' = "stopped" /\ want' = want \ {a}
    BY <1>9, Zenon DEF Remove, Send
  <2>2. (\A b : Known(b) => Known(b)') /\ (Left => Left')
    BY <1>1, <1>4, <2>1 DEF Known, Left, Gone
  <2> QED
    BY <1>3, <1>5, <1>6, <2>1, <2>2, Zenon DEF KeptInv
<1>10. ~SingleStep /\ ~Interrupt
  BY DEF SingleStep, Interrupt, Calm
<1> QED
  BY <1>7, <1>8, <1>9, <1>10, Zenon

\* The client hears, connects or leaves.
LEMMA ClientTurnKept ==
  ASSUME Calm, KeptInv, Connect \/ HearStop \/ Close
  PROVE  KeptInv'
<1> USE DEF engine, list, flags, code
<1>1. UNCHANGED <<mem, saved, breaks, nbreaks, hasClient, halted, pending, running, reader, cpu>>
  BY DEF Connect, HearStop, Close
<1>2. /\ (Dead' <=> Dead) /\ (Parked' <=> Parked) /\ (Before' <=> Before)
      /\ (\A a : Clearing(a)' <=> Clearing(a)) /\ (\A a : Listed(a)' <=> Listed(a))
      /\ (\A a : check_break(a)' <=> check_break(a))
  BY <1>1, Zenon DEF Dead, Parked, Before, Clearing, Listed, check_break
<1>3. Clean' /\ StepInv'
  BY <1>1, Zenon DEF KeptInv, Clean, StepInv
<1>4. CASE Connect
  <2>1. /\ client = "new" /\ Before /\ reader.pc = "accept"
        /\ \A a \in Addr : saved[a] = << >>
    BY <1>4, Zenon DEF Connect, Calm, KeptInv, TalkInv, Before
  <2>2. /\ sock' = "calling" /\ client' = "asking" /\ stops' = 0 /\ packet'.op = "?"
        /\ DOMAIN packet' = {"op", "addr"}
    BY <1>4, Zenon DEF Connect
  <2>3. Shapes'
    BY <1>1, <2>2, Zenon DEF KeptInv, Shapes, CpuFields
  <2>4. TalkInv' /\ PresentInv'
    BY <1>1, <1>2, <2>1, <2>2 DEF KeptInv, TalkInv, PresentInv, Awaiting, Listing, Serving, Before
  <2>5. ListInv' /\ SavedInv'
    BY <1>1, <2>1, <2>2 DEF ListInv, SavedInv, Before, Serving, Listing
  <2> QED
    BY <1>3, <2>3, <2>4, <2>5, Zenon DEF KeptInv
<1>5. CASE HearStop
  <2>1. /\ UNCHANGED <<sock, packet, want>> /\ stops > 0 /\ stops' = stops - 1 /\ client' = "stopped"
        /\ client \in {"asking", "running", "stopped"}
    BY <1>5, Zenon DEF HearStop
  <2>2. client \in {"asking", "running"} /\ stops' = 0 /\ ~Gone /\ Parked
    BY <2>1 DEF KeptInv, TalkInv, Shapes, Gone, PresentInv, Awaiting
  <2>3. Shapes'
    BY <1>1, <2>1, <2>2 DEF KeptInv, Shapes, CpuFields
  <2>4. ~Gone' /\ packet.op \notin {"?", "c", "D", "k"}
    BY <2>1, <2>2 DEF KeptInv, TalkInv, Gone, Shapes
  <2>5. TalkInv'
    BY <1>1, <1>2, <2>1, <2>2, <2>4, Zenon DEF KeptInv, TalkInv
  <2>6. PresentInv'
    BY <1>1, <1>2, <2>1, <2>2, <2>4 DEF KeptInv, PresentInv
  <2>7. (Left' <=> Left) /\ (\A a : Known(a)' <=> Known(a))
    BY <1>1, <2>1, <2>2, <2>4 DEF Left, Known
  <2>8. ListInv' /\ SavedInv'
    BY <1>1, <1>2, <2>1, <2>7 DEF KeptInv, ListInv, SavedInv
  <2> QED
    BY <1>3, <2>3, <2>5, <2>6, <2>8, Zenon DEF KeptInv
<1>6. CASE Close
  <2>1. UNCHANGED packet /\ sock = "up" /\ sock' = "closed" /\ client' = "off" /\ stops' = 0
    BY <1>6 DEF Close
  <2>2. Shapes'
    BY <1>1, <2>1 DEF KeptInv, Shapes, CpuFields
  <2>3. Gone' /\ Left' /\ \A a : Known(a)'
    BY <2>1, Zenon DEF Gone, Left, Known
  <2>4. TalkInv'
    BY <1>1, <1>2, <2>1, <2>3, Zenon DEF KeptInv, TalkInv
  <2>5. PresentInv'
    <3>1. Awaiting' => Awaiting
      BY <1>1, <2>1 DEF Awaiting
    <3>2. reader.pc \in {"Bclear", "Bdrop"} => Dead \/ packet = NoPacket
      BY DEF KeptInv, PresentInv
    <3>3. reader.pc \in {"Dclear", "Ddrop"} => packet = NoPacket
      BY Zenon DEF KeptInv, PresentInv
    <3> QED
      BY <1>1, <1>2, <2>1, <2>3, <3>1, <3>2, <3>3, Zenon DEF KeptInv, PresentInv
  <2>6. ListInv' /\ SavedInv'
    BY <1>1, <1>2, <2>1, <2>3, Zenon DEF KeptInv, ListInv, SavedInv
  <2> QED
    BY <1>3, <2>2, <2>4, <2>5, <2>6 DEF KeptInv
<1> QED
  BY <1>4, <1>5, <1>6, Zenon

\* The CPU stops and tells the client, which then may count on it.
LEMMA NotifyKept ==
  ASSUME KeptInv, Notify
  PROVE  KeptInv'
<1> USE DEF CpuAt, CpuGoto, list, flags, peer, code
<1>1. /\ CpuFields /\ cpu.pc = "notify" /\ ~Parked /\ ~Dead /\ ~Before /\ cpu.step = 0 /\ cpu.resume = 0
  BY DEF Notify, KeptInv, Shapes, Parked, Dead, StepInv, Before
<1>2. /\ UNCHANGED <<mem, saved, breaks, nbreaks, hasClient, running, fd, reader, sock, packet, client, want>>
      /\ halted' = TRUE /\ pending' = -1 /\ stops' \in {stops, stops + 1}
  BY DEF Notify, Park, SendStop
<1>3. /\ CpuFields' /\ cpu'.pc = "onstop" /\ cpu'.single = cpu.single /\ cpu'.step = 0
      /\ cpu'.resume = 0 /\ cpu'.ctx = cpu.ctx /\ cpu'.done = cpu.done
  BY <1>1, Zenon DEF Notify, CpuFields
<1>4. Shapes' /\ Clean'
  BY <1>2, <1>3 DEF KeptInv, Shapes, Clean
<1>5. StepInv'
  BY <1>1, <1>2, <1>3 DEF KeptInv, StepInv
<1>6. /\ (Gone' <=> Gone) /\ (Left' <=> Left)
      /\ (\A a : check_break(a)' <=> check_break(a)) /\ (\A a : Listed(a)' <=> Listed(a))
      /\ (\A a : Known(a)' <=> Known(a)) /\ (\A a : Clearing(a)' <=> Clearing(a))
  BY <1>2 DEF Gone, Left, check_break, Listed, Known, Clearing
<1>7. hasClient => Parked'
  BY <1>2, <1>3, <1>4, Zenon DEF Parked
<1>8. TalkInv'
  BY <1>1, <1>2, <1>6, NotAwaited DEF KeptInv, TalkInv
<1>9. PresentInv'
  <2>1. client \in {"asking", "running"} => hasClient
    BY <1>1 DEF KeptInv, PresentInv
  <2>2. Awaiting' => Parked'
    BY <1>1, <1>2, <1>7, <2>1, NotAwaited, Zenon DEF Awaiting
  <2> QED
    BY <1>1, <1>2, <1>3, <1>6, <2>2 DEF KeptInv, PresentInv, Dead
<1>10. ListInv' /\ SavedInv'
  BY <1>1, <1>2, <1>3, <1>6, Zenon DEF KeptInv, ListInv, SavedInv
<1> QED
  BY <1>4, <1>5, <1>8, <1>9, <1>10 DEF KeptInv

\* The client is greeted and the CPU parked, in one critical section.
LEMMA HelloKept ==
  ASSUME KeptInv, Hello
  PROVE  KeptInv'
<1> USE DEF ReaderAt, Goto, list, flags, peer, code
<1>1. DOMAIN reader = {"pc", "addr", "i"} /\ reader.pc = "hello" /\ Before /\ packet.op = "?"
  BY DEF Hello, KeptInv, Shapes, TalkInv
<1>2. /\ UNCHANGED <<mem, saved, breaks, nbreaks, running, cpu, sock, packet, client, want, stops>>
      /\ DOMAIN reader' = {"pc", "addr", "i"} /\ reader'.pc = "recv"
      /\ hasClient' = TRUE /\ halted' = TRUE /\ pending' = -1
  BY <1>1, Zenon DEF Hello, Park
<1>3. Shapes' /\ Clean' /\ StepInv'
  BY <1>2, Zenon DEF KeptInv, Shapes, CpuFields, Clean, StepInv
<1>4. Parked'
  BY <1>1, <1>2, Zenon DEF Before, Parked, KeptInv, StepInv
<1>5. TalkInv'
  BY <1>1, <1>2, <1>4, Zenon DEF KeptInv, TalkInv, Gone, Serving
<1>6. PresentInv'
  BY <1>1, <1>2, <1>4 DEF KeptInv, PresentInv, Before
<1>7. /\ nbreaks' = 0 /\ \A a \in Addr : saved'[a] = << >>
      /\ cpu'.pc = "attach" /\ running' = running
  BY <1>1, <1>2, Zenon DEF Before
<1>8. ListInv' /\ SavedInv'
  BY <1>1, <1>2, <1>7 DEF ListInv, SavedInv
<1> QED
  BY <1>3, <1>5, <1>6, <1>8 DEF KeptInv

\* The reader accepts the connection, or finds that the transport stops.
LEMMA AcceptKept ==
  ASSUME KeptInv, Accept \/ AcceptFails
  PROVE  KeptInv'
<1> USE DEF ReaderAt, Goto, list, flags, peer, code
<1>1. DOMAIN reader = {"pc", "addr", "i"} /\ reader.pc = "accept"
  BY DEF Accept, AcceptFails, KeptInv, Shapes
<1>2. /\ UNCHANGED <<mem, saved, breaks, nbreaks, hasClient, halted, pending, running, cpu, packet, client, want, stops>>
      /\ DOMAIN reader' = {"pc", "addr", "i"}
      /\ \/ sock = "calling" /\ sock' = "up" /\ reader'.pc = "hello"
         \/ ~running /\ sock' = sock /\ reader'.pc = "done"
  BY <1>1, Zenon DEF Accept, AcceptFails
<1>3. Shapes' /\ Clean' /\ StepInv'
  BY <1>2 DEF KeptInv, Shapes, CpuFields, Clean, StepInv
<1>4. (Gone' <=> Gone) /\ (Dead' <=> Dead) /\ (Parked' <=> Parked) /\ (Left' <=> Left)
  BY <1>2 DEF Gone, Dead, Parked, Left
<1>5. Before => Before' /\ sock' = "up"
  BY <1>1, <1>2, Zenon DEF Before
<1>6. TalkInv'
  BY <1>1, <1>2, <1>4, <1>5, Zenon DEF KeptInv, TalkInv, Serving, Listing, Before
<1>7. PresentInv'
  BY <1>1, <1>2, <1>4, <1>5, Zenon DEF KeptInv, PresentInv, Awaiting, Serving, Listing
<1>8. (\A a : Known(a)' <=> Known(a)) /\ \A a : ~Clearing(a) /\ ~Clearing(a)'
  BY <1>1, <1>2, <1>4, Zenon DEF Known, Clearing
<1>9. ListInv' /\ SavedInv'
  BY <1>1, <1>2, <1>4, <1>8 DEF KeptInv, ListInv, SavedInv, Serving, Listing
<1> QED
  BY <1>3, <1>6, <1>7, <1>9 DEF KeptInv

\* While the reader is at work on the list, the client is there and the CPU is
\* parked, with no breakpoint to step over.
LEMMA AtWork ==
  ASSUME KeptInv, reader.pc \in Listing
  PROVE  /\ Parked /\ hasClient /\ cpu.step = 0 /\ cpu.resume = 0 /\ cpu.pc # "patchset"
         /\ reader.pc \in Serving /\ reader.pc \notin {"accept", "hello", "recv"}
  BY Zenon DEF KeptInv, PresentInv, Awaiting, Serving, Listing, Parked, Dead

\* What handle_Z0 and handle_z0 do concerns the words and the list only.
LEMMA ListWorkKept ==
  ASSUME KeptInv, reader.pc \in Listing, reader'.pc \in Serving,
         UNCHANGED <<hasClient, halted, pending, running, cpu, sock, packet, client, want, stops>>
  PROVE  TalkInv' /\ PresentInv' /\ StepInv' /\ (\A a : Known(a)' <=> Known(a)) /\ cpu'.pc # "patchset"
<1>1. /\ (Gone' <=> Gone) /\ (Left' <=> Left) /\ Parked' /\ (Dead' <=> Dead)
      /\ cpu'.step = 0 /\ cpu'.resume = 0 /\ cpu'.pc # "patchset"
  BY AtWork, Zenon DEF Gone, Left, Parked, Dead
<1>2. TalkInv'
  BY <1>1, AtWork, Greeted, Zenon DEF KeptInv, TalkInv, Serving, Listing
<1>3. PresentInv'
  BY <1>1, AtWork, Greeted, Zenon DEF KeptInv, PresentInv, Serving, Listing
<1>4. StepInv'
  BY <1>1 DEF KeptInv, StepInv, Addr
<1> QED
  BY <1>1, <1>2, <1>3, <1>4, Zenon DEF Known

\* handle_Z0 patches a word in place and lists the breakpoint.
LEMMA InsertKept ==
  ASSUME KeptInv, Z0Set \/ Z0Add
  PROVE  KeptInv'
<1> USE DEF ReaderAt, Goto, Idle, list, flags, peer, code
<1>1. /\ UNCHANGED <<hasClient, halted, pending, running, cpu, sock, packet, client, want, stops>>
      /\ reader.pc \in Listing /\ reader.pc \in {"Zset", "Zadd"} /\ reader'.pc \in Serving
      /\ DOMAIN reader' = {"pc", "addr", "i"}
  BY DEF Z0Set, Z0Add, KeptInv, Shapes, Listing, Serving
<1>2. TalkInv' /\ PresentInv' /\ StepInv' /\ (\A a : Known(a)' <=> Known(a)) /\ cpu'.pc # "patchset"
  BY <1>1, ListWorkKept, Zenon
<1>3. /\ hasClient /\ Known(reader.addr) /\ nbreaks < MaxBreaks /\ nbreaks \in Nat /\ MaxBreaks \in Nat
      /\ (packet.op = "Z0" => packet.addr \in want \/ Left) /\ (Left' <=> Left)
      /\ \A i \in 1..nbreaks : Known(breaks[i])
  <2>1. hasClient /\ nbreaks \in Nat /\ MaxBreaks \in Nat /\ (Left' <=> Left)
    <3>1. hasClient
      BY <1>1, AtWork
    <3>2. nbreaks \in Nat /\ MaxBreaks \in Nat
      BY GdbAssumption DEF KeptInv, Shapes
    <3>3. Left' <=> Left
      BY <1>1, Zenon DEF Left, Gone
    <3> QED
      BY <3>1, <3>2, <3>3
  <2>2. Known(reader.addr) /\ nbreaks < MaxBreaks /\ \A i \in 1..nbreaks : Known(breaks[i])
    <3>1. reader.pc \notin {"zclear", "zcommit", "zcompact"}
      BY <1>1, Zenon
    <3>2. \A i \in 1..nbreaks : Known(breaks[i])
      BY <3>1, Zenon DEF KeptInv, ListInv
    <3> QED
      BY <1>1, <3>2 DEF KeptInv, ListInv
  <2>3. packet.op = "Z0" => packet.addr \in want \/ Left
    BY Zenon DEF KeptInv, ListInv
  <2> QED
    BY <2>1, <2>2, <2>3
<1>4. CASE Z0Set
  <2>1. /\ UNCHANGED <<breaks, nbreaks>> /\ reader.pc = "Zset" /\ reader'.pc = "Zadd"
        /\ reader'.addr = reader.addr
    BY <1>4, Zenon DEF Z0Set, KeptInv, Shapes
  <2>2. reader.addr \in Addr => saved[reader.addr] = << >>
    BY <2>1 DEF KeptInv, SavedInv
  <2>3. /\ Clean' /\ DOMAIN mem' = Addr /\ DOMAIN saved' = Addr
        /\ \A b \in Addr : b # reader.addr => saved'[b] = saved[b]
    BY <1>4, <2>2, SetKeeps DEF Z0Set, KeptInv, Shapes
  <2>4. Shapes'
    BY <1>1, <2>1, <2>3 DEF KeptInv, Shapes, CpuFields
  <2>5. \A a \in Addr : saved'[a] # << >> => Listed(a)'
    <3>1. \A a \in Addr : saved[a] # << >> => check_break(a)
      BY <1>1, <1>3, <2>1, AtWork, Zenon DEF KeptInv, ListInv, Listed
    <3> QED
      BY <2>1, <2>3, <3>1, Zenon DEF Listed, check_break
  <2>6. ListInv'
    BY <1>1, <1>2, <1>3, <2>1, <2>5, Zenon DEF ListInv
  <2>7. SavedInv'
    <3>1. \A a \in Addr : saved'[a] # << >> => Known(a)
      <4>1. \A a : ~Clearing(a)
        BY <2>1, Zenon DEF Clearing
      <4> QED
        BY <1>3, <2>3, <4>1, Zenon DEF KeptInv, SavedInv
    <3>2. running /\ packet.op = "Z0" /\ packet.addr \in Addr => saved'[packet.addr] = << >>
      BY <2>1, <2>3 DEF KeptInv, SavedInv, Clearing
    <3> QED
      BY <1>1, <1>2, <2>1, <3>1, <3>2, Zenon DEF SavedInv
  <2> QED
    BY <1>2, <2>3, <2>4, <2>6, <2>7 DEF KeptInv
<1>5. CASE Z0Add
  <2>1. /\ UNCHANGED <<mem, saved>> /\ reader.pc = "Zadd" /\ reader'.pc = "recv"
        /\ breaks' = [breaks EXCEPT ![nbreaks + 1] = reader.addr] /\ nbreaks' = nbreaks + 1
    BY <1>5, Zenon DEF Z0Add
  <2>2. /\ DOMAIN breaks' = 1..MaxBreaks /\ nbreaks' \in 0..MaxBreaks
        /\ \A i \in 1..nbreaks : breaks'[i] = breaks[i]
        /\ breaks'[nbreaks + 1] = reader.addr
    BY <1>3, <2>1 DEF KeptInv, Shapes
  <2>3. Shapes' /\ Clean'
    BY <1>1, <2>1, <2>2 DEF KeptInv, Shapes, CpuFields, Clean
  <2>4. \A a \in Addr : saved'[a] # << >> => Listed(a)'
    <3>1. \A a \in Addr : saved[a] # << >> => check_break(a) \/ a = reader.addr
      BY <1>1, <1>3, <2>1, AtWork, Zenon DEF KeptInv, ListInv, Listed
    <3>2. \A a : check_break(a) => check_break(a)'
      BY <1>3, <2>1, <2>2 DEF check_break
    <3>3. \A a : a = reader.addr => check_break(a)'
      BY <1>3, <2>1, <2>2 DEF check_break
    <3> QED
      BY <2>1, <3>1, <3>2, <3>3, Zenon DEF Listed
  <2>5. \A i \in 1..nbreaks' : Known(breaks[i])'
    <3> SUFFICES ASSUME NEW i \in 1..nbreaks' PROVE Known(breaks'[i])
      BY <1>2, Zenon
    <3> QED
      BY <1>3, <2>1, <2>2
  <2>6. ListInv'
    BY <1>1, <1>2, <1>3, <2>1, <2>4, <2>5, Zenon DEF ListInv
  <2>7. SavedInv'
    BY <1>1, <1>2, <2>1, Zenon DEF KeptInv, SavedInv, Clearing
  <2> QED
    BY <1>2, <2>3, <2>6, <2>7, Zenon DEF KeptInv
<1> QED
  BY <1>4, <1>5

\* A step of the CPU thread that changes its own state and the words only: what
\* the others know of it stays so if it stays parked, dead or waiting for a
\* client, and patches at most the breakpoint it has stepped over.
LEMMA CpuMoves ==
  ASSUME KeptInv, UNCHANGED shared, Shapes', Clean', StepInv',
         \A a \in Addr : saved'[a] # << >> => saved[a] # << >> \/ (a = cpu.step /\ cpu.pc = "patchset"),
         Parked => Parked', Dead => Dead',
         cpu.pc = "attach" /\ ~hasClient => cpu'.pc = "attach",
         cpu'.pc \in {"clear", "drop"} => ~hasClient,
         cpu'.pc = "patchset" => check_break(cpu'.step) /\ ~Parked
  PROVE  KeptInv'
<1> USE DEF shared, list, flags, peer
<1>1. Before => Before'
  BY DEF Before, KeptInv
<1>2. /\ Gone' <=> Gone
      /\ Left' <=> Left
      /\ Awaiting' <=> Awaiting
      /\ \A a : check_break(a)' <=> check_break(a)
      /\ \A a : Known(a)' <=> Known(a)
      /\ \A a : Clearing(a)' <=> Clearing(a)
      /\ \A a : Listed(a)' <=> Listed(a)
  BY Zenon DEF Gone, Left, Awaiting, check_break, Known, Clearing, Listed
<1>3. TalkInv'
  BY <1>1, <1>2, Zenon DEF KeptInv, TalkInv
<1>4. PresentInv'
  BY <1>1, <1>2, Zenon DEF KeptInv, PresentInv
<1>5. \A a \in Addr : Awaiting /\ saved'[a] # << >> => saved[a] # << >>
  BY DEF KeptInv, PresentInv, Parked, Addr
<1>6. ListInv'
  <2>1. ~Parked => reader.pc \notin Listing /\ packet.op # "z0"
    BY DEF KeptInv, PresentInv, Awaiting
  <2>2. cpu'.pc = "patchset" => cpu'.step \in want \/ Left
    <3> SUFFICES ASSUME cpu'.pc = "patchset" PROVE cpu'.step \in want \/ Left
      OBVIOUS
    <3>1. reader.pc \notin Listing /\ packet.op # "z0"
      BY <2>1
    <3>2. PICK i \in 1..nbreaks : breaks[i] = cpu'.step
      BY Zenon DEF check_break
    <3>3. Known(breaks[i])
      BY <3>1 DEF KeptInv, ListInv, Listing
    <3> QED
      BY <3>1, <3>2, <3>3 DEF Known
  <2>3. hasClient /\ reader.pc \in Serving => \A a \in Addr : saved'[a] # << >> => Listed(a)
    <3> SUFFICES ASSUME hasClient, reader.pc \in Serving, NEW a \in Addr, saved'[a] # << >>
                 PROVE  Listed(a)
      OBVIOUS
    <3>1. CASE saved[a] # << >>
      BY <3>1 DEF KeptInv, ListInv
    <3>2. CASE a = cpu.step /\ cpu.pc = "patchset"
      <4>1. reader.pc = "recv"
        BY <2>1, <3>2 DEF Parked, Dead, Serving
      <4> QED
        BY <3>2, <4>1 DEF KeptInv, ListInv, Listed
    <3> QED
      BY <3>1, <3>2
  <2>4. cpu'.pc = "patchset" => check_break(cpu.step)'
    BY Zenon DEF check_break
  <2> QED
    BY <1>2, <2>2, <2>3, <2>4, Zenon DEF KeptInv, ListInv
<1>7. SavedInv'
  <2>1. packet.op = "Z0" \/ reader.pc = "Zset" => Awaiting
    BY Zenon DEF Awaiting, Listing
  <2>2. \A a \in Addr : saved'[a] # << >> => Known(a) \/ Clearing(a)
    BY DEF KeptInv, SavedInv, ListInv, Known
  <2> QED
    BY <1>2, <1>5, <2>1, <2>2, Zenon DEF KeptInv, SavedInv
<1> QED
  BY <1>3, <1>4, <1>6, <1>7 DEF KeptInv

\* The CPU thread's steps that leave words, list and flags alone.
LEMMA CpuPlainKept ==
  ASSUME Calm, KeptInv,
         \/ WaitAttached \/ Frame \/ OnStop \/ Poll \/ Loop \/ Check \/ Repatch \/ Post
         \/ SinglePause \/ End \/ Join
  PROVE  KeptInv'
<1> USE DEF CpuAt, CpuGoto
<1>1. UNCHANGED <<mem, saved, shared>>
  BY DEF WaitAttached, Frame, OnStop, Poll, Loop, Check, Repatch, Post, SinglePause, End, Join, code
<1>2. scene.start = "player" /\ CpuFields /\ cpu.single = FALSE
  BY DEF Calm, KeptInv, Shapes
<1>3. CpuFields' /\ cpu'.pc # "gate" /\ cpu'.single = FALSE /\ cpu'.at = cpu.at
  BY <1>2, Zenon DEF WaitAttached, Frame, OnStop, Poll, Loop, Check, Repatch, Post, SinglePause, End, Join,
              CpuFields
<1>4. Shapes' /\ Clean'
  BY <1>1, <1>3 DEF KeptInv, Shapes, Clean, shared, list, flags, peer
<1>5. StepInv'
  <2>1. StepInv /\ \A a \in Addr : saved'[a] = saved[a]
    BY <1>1 DEF KeptInv
  <2>2. CASE WaitAttached \/ Frame \/ OnStop \/ Poll \/ Loop \/ Join
    BY <1>2, <2>1, <2>2, Zenon DEF WaitAttached, Frame, OnStop, Poll, Loop, Join, StepInv, CpuFields
  <2>3. CASE Check
    BY <1>2, <2>1, <2>3 DEF Check, StepInv, CpuFields
  <2>4. CASE Repatch \/ Post
    BY <1>2, <2>1, <2>4, Zenon DEF Repatch, Post, StepInv, CpuFields
  <2>5. CASE SinglePause
    BY <1>2, <2>1, <2>5 DEF SinglePause, StepInv, CpuFields
  <2>6. CASE End
    <3>1. cpu.resume # 0 => cpu'.pc = "loop"
      BY <1>2, <2>1, <2>6 DEF End, StepInv, CpuFields
    <3>2. cpu'.step = cpu.step /\ cpu'.resume = cpu.resume /\ cpu'.ctx = cpu.ctx /\ cpu'.done = cpu.done
      BY <1>2, <2>6 DEF End, CpuFields
    <3> QED
      BY <2>1, <2>6, <3>1, <3>2 DEF End, StepInv
  <2> QED
    BY <2>2, <2>3, <2>4, <2>5, <2>6
<1>6. Parked => Parked'
  <2>1. UNCHANGED <<hasClient, halted, pending>>
    BY <1>1 DEF shared, flags
  <2>2. CASE WaitAttached \/ Frame \/ OnStop \/ Join
    BY <1>2, <2>1, <2>2, Zenon DEF WaitAttached, Frame, OnStop, Join, Parked, Dead, CpuFields
  <2>3. CASE Poll \/ Loop \/ Check \/ Repatch \/ Post \/ SinglePause \/ End
    BY <2>3 DEF Poll, Loop, Check, Repatch, Post, SinglePause, End, Parked, Dead
  <2> QED
    BY <2>2, <2>3
<1>7. /\ Dead => Dead'
      /\ cpu.pc = "attach" /\ ~hasClient => cpu'.pc = "attach"
      /\ cpu'.pc \in {"clear", "drop"} => ~hasClient
  BY <1>2, Zenon DEF WaitAttached, Frame, OnStop, Poll, Loop, Check, Repatch, Post, SinglePause, End,
         Join, Dead, CpuFields
<1>8. cpu'.pc = "patchset" => check_break(cpu'.step) /\ ~Parked
  BY <1>2, Zenon DEF WaitAttached, Frame, OnStop, Poll, Loop, Check, Repatch, Post, SinglePause, End,
         Join, Parked, Dead, CpuFields
<1> QED
  BY <1>1, <1>4, <1>5, <1>6, <1>7, <1>8, CpuMoves, Zenon

\* The CPU thread forgets the client: its breakpoints are restored by then.
LEMMA CpuForgetsKept ==
  ASSUME KeptInv, CpuEmpty \/ CpuDrop
  PROVE  KeptInv'
<1> USE DEF CpuAt, CpuGoto, list, flags, peer, code
<1>1. /\ CpuFields /\ ~hasClient /\ cpu.pc \in {"clear", "drop"} /\ ~Parked
      /\ cpu.pc # "attach"
  BY DEF CpuEmpty, CpuDrop, KeptInv, Shapes, PresentInv, Parked, Dead
<1>2. /\ UNCHANGED <<mem, saved, breaks, running, fd, reader, sock, packet, client, want, stops>>
      /\ ~hasClient' /\ nbreaks' \in {0, nbreaks} /\ pending' \in {0, pending}
  BY <1>1 DEF CpuEmpty, CpuDrop, DropClient, Release
<1>3. /\ CpuFields' /\ cpu'.pc \in {"drop", "resume"} /\ cpu'.single = cpu.single /\ cpu'.step = cpu.step
      /\ cpu'.resume = cpu.resume /\ cpu'.ctx = cpu.ctx /\ cpu'.done = cpu.done
  BY <1>1 DEF CpuEmpty, CpuDrop, CpuFields
<1>4. Shapes' /\ Clean'
  BY <1>2, <1>3, GdbAssumption DEF KeptInv, Shapes, Clean
<1>5. StepInv'
  BY <1>1, <1>2, <1>3 DEF KeptInv, StepInv
<1>6. /\ (Gone' <=> Gone) /\ (Left' <=> Left) /\ (Awaiting' <=> Awaiting)
      /\ (\A a : Known(a)' <=> Known(a)) /\ (\A a : Clearing(a)' <=> Clearing(a))
  BY <1>2 DEF Gone, Left, Awaiting, Known, Clearing
<1>7. TalkInv'
  BY <1>1, <1>2, <1>6, NotAwaited, Zenon DEF KeptInv, TalkInv
<1>8. PresentInv'
  BY <1>1, <1>2, <1>3, <1>6, Zenon DEF KeptInv, PresentInv, Before, Dead
<1>9. ListInv'
  <2>1. reader.pc \notin Listing /\ packet.op # "Z0"
    BY <1>1, NotAwaited, Zenon
  <2>2. \A i \in 1..nbreaks' : i \in 1..nbreaks
    BY <1>2 DEF KeptInv, Shapes
  <2> QED
    BY <1>1, <1>2, <1>3, <1>6, <2>1, <2>2 DEF KeptInv, ListInv, Listing
<1>10. SavedInv'
  BY <1>2, <1>6 DEF KeptInv, SavedInv
<1> QED
  BY <1>4, <1>5, <1>7, <1>8, <1>9, <1>10 DEF KeptInv

\* handle_z0 restores the word of a breakpoint that was listed, then shortens
\* the list.
LEMMA RemoveKept ==
  ASSUME KeptInv, z0Clear \/ z0Commit
  PROVE  KeptInv'
<1> USE DEF ReaderAt, Goto, Idle, list, flags, peer, code
<1>1. /\ UNCHANGED <<breaks, hasClient, halted, pending, running, cpu, sock, packet, client, want, stops>>
      /\ reader.pc \in Listing /\ reader.pc \in {"zclear", "zcommit"} /\ reader'.pc \in Serving
      /\ DOMAIN reader' = {"pc", "addr", "i"}
  BY DEF z0Clear, z0Commit, KeptInv, Shapes, Listing, Serving
<1>2. TalkInv' /\ PresentInv' /\ StepInv' /\ (\A a : Known(a)' <=> Known(a)) /\ cpu'.pc # "patchset"
  BY <1>1, ListWorkKept, Zenon
<1>3. /\ nbreaks \in Nat /\ MaxBreaks \in Nat /\ nbreaks <= MaxBreaks
      /\ reader.i \in 0..nbreaks /\ \A i \in 1..reader.i : Known(breaks[i])
  <2>1. nbreaks \in Nat /\ MaxBreaks \in Nat /\ nbreaks <= MaxBreaks
    BY GdbAssumption DEF KeptInv, Shapes
  <2>2. reader.i \in 0..nbreaks /\ \A i \in 1..reader.i : Known(breaks[i])
    BY <1>1, Zenon DEF KeptInv, ListInv
  <2> QED
    BY <2>1, <2>2, Zenon
<1>4. \A a \in Addr : saved[a] # << >> => Listed(a)
  BY <1>1, AtWork, Zenon DEF KeptInv, ListInv
<1>5. (packet.op = "Z0" => packet.addr \in want \/ Left) /\ (Left' <=> Left)
  BY <1>1, Zenon DEF KeptInv, ListInv, Left, Gone
<1>6. CASE z0Clear
  <2>1. /\ UNCHANGED nbreaks /\ reader.pc = "zclear" /\ reader'.pc = "zcommit"
        /\ reader'.addr = reader.addr /\ reader'.i = reader.i
    BY <1>6, Zenon DEF z0Clear, KeptInv, Shapes
  <2>2. /\ Clean' /\ DOMAIN mem' = Addr /\ DOMAIN saved' = Addr
        /\ \A a \in Addr : saved'[a] # << >> => saved[a] # << >>
        /\ reader.i # nbreaks /\ reader.addr \in Addr => saved'[reader.addr] = << >>
    <3>1. CASE reader.i = nbreaks
      BY <1>6, <3>1 DEF z0Clear, KeptInv, Shapes, Clean
    <3>2. CASE reader.i # nbreaks
      BY <1>6, <3>2, ClearKeeps DEF z0Clear, KeptInv, Shapes
    <3> QED
      BY <3>1, <3>2
  <2>3. \A a \in Addr : saved'[a] # << >> => \E i \in 1..reader.i : breaks[i] = a
    BY <1>4, <2>1, <2>2, Zenon DEF Listed
  <2>4. \A a \in Addr : saved'[a] # << >> => a # reader.addr /\ Known(a)
    <3>1. \A i \in 1..reader.i : breaks[i] # reader.addr
      BY <2>1, Zenon DEF KeptInv, ListInv
    <3> QED
      BY <1>3, <2>3, <3>1, Zenon
  <2>5. Shapes'
    BY <1>1, <2>1, <2>2, Zenon DEF KeptInv, Shapes, CpuFields
  <2>6. ListInv'
    <3>1. \A a \in Addr : saved'[a] # << >> => Listed(a)'
      BY <1>1, <2>1, <2>3, Zenon DEF Listed
    <3> QED
      BY <1>1, <1>2, <1>3, <1>5, <2>1, <3>1, Zenon DEF ListInv
  <2>7. SavedInv'
    <3>1. running /\ packet.op = "Z0" /\ packet.addr \in Addr => saved'[packet.addr] = << >>
      BY <2>2, <2>4, Zenon DEF KeptInv, SavedInv, Clearing
    <3> QED
      BY <1>1, <1>2, <2>1, <2>4, <3>1, Zenon DEF SavedInv
  <2> QED
    BY <1>2, <2>2, <2>5, <2>6, <2>7 DEF KeptInv
<1>7. CASE z0Commit
  <2>1. UNCHANGED <<mem, saved>> /\ reader.pc = "zcommit" /\ reader'.pc = "recv" /\ nbreaks' = reader.i
    BY <1>7, Zenon DEF z0Commit
  <2>2. Shapes' /\ Clean'
    <3>1. nbreaks' \in 0..MaxBreaks
      BY <1>3, <2>1
    <3>2. Shapes'
      BY <1>1, <2>1, <3>1, Zenon DEF KeptInv, Shapes, CpuFields
    <3>3. Clean'
      BY <2>1, Zenon DEF KeptInv, Clean
    <3> QED
      BY <3>2, <3>3, Zenon
  <2>3. ListInv'
    <3>1. \A a \in Addr : saved'[a] # << >> => Listed(a)'
      <4>1. \A a \in Addr : saved[a] # << >> => \E i \in 1..reader.i : breaks[i] = a
        <5>1. reader.pc = "zcommit"
          BY <2>1, Zenon
        <5> QED
          BY <1>4, <5>1, Zenon DEF Listed
      <4> QED
        BY <1>1, <2>1, <4>1, Zenon DEF Listed, check_break
    <3> QED
      BY <1>1, <1>2, <1>3, <1>5, <2>1, <3>1 DEF ListInv
  <2>4. SavedInv'
    BY <1>1, <1>2, <2>1 DEF KeptInv, SavedInv, Clearing
  <2> QED
    BY <1>2, <2>2, <2>3, <2>4 DEF KeptInv
<1> QED
  BY <1>6, <1>7

\* handle_z0 moves the other breakpoints down; the list is as long as before, and
\* the removed one was listed if and only if fewer are left.
LEMMA CompactKept ==
  ASSUME KeptInv, z0Compact
  PROVE  KeptInv'
<1> USE DEF ReaderAt, list, flags, peer, code
<1> DEFINE kept == Others(reader.addr)
           n == Cardinality(kept)
<1>1. /\ UNCHANGED <<mem, saved, nbreaks, hasClient, halted, pending, running, cpu, sock, packet, client, want, stops>>
      /\ reader.pc = "zcompact" /\ reader.pc \in Listing /\ reader'.pc = "zclear" /\ reader'.pc \in Serving
      /\ DOMAIN reader' = {"pc", "addr", "i"} /\ reader'.addr = reader.addr /\ reader'.i = n
  BY DEF z0Compact, KeptInv, Shapes, Listing, Serving
<1>2. PICK from \in [1..n -> kept] :
         /\ {from[i] : i \in DOMAIN from} = kept
         /\ breaks' = [i \in 1..MaxBreaks |-> IF i \in DOMAIN from THEN breaks[from[i]] ELSE breaks[i]]
  BY Zenon DEF z0Compact
<1>3. nbreaks \in Nat /\ MaxBreaks \in Nat /\ nbreaks <= MaxBreaks
  BY GdbAssumption DEF KeptInv, Shapes
<1>4. kept \subseteq 1..nbreaks /\ (\A j \in 1..nbreaks : j \in kept <=> breaks[j] # reader.addr)
  BY DEF Others
<1>5. n \in 0..nbreaks /\ (n = nbreaks => kept = 1..nbreaks)
  <2>1. IsFiniteSet(1..nbreaks) /\ Cardinality(1..nbreaks) = nbreaks
    BY <1>3, FS_Interval
  <2>2. n \in Nat /\ n <= nbreaks /\ (n = nbreaks => kept = 1..nbreaks)
    BY <1>4, <2>1, FS_Subset, FS_CardinalityType
  <2> QED
    BY <1>3, <2>2
<1> HIDE DEF kept, n
<1>6. TalkInv' /\ PresentInv' /\ StepInv' /\ (\A a : Known(a)' <=> Known(a)) /\ cpu'.pc # "patchset"
  BY <1>1, ListWorkKept
<1>7. \A i \in 1..n : from[i] \in kept /\ breaks'[i] = breaks[from[i]]
  BY <1>2, <1>3, <1>5
<1>8. \A j \in kept : \E i \in 1..n : from[i] = j
  BY <1>2
<1>9. Shapes' /\ Clean'
  BY <1>1, <1>2 DEF KeptInv, Shapes, CpuFields, Clean
<1>10. \A a \in Addr : saved'[a] # << >> => Listed(a)'
  <2> SUFFICES ASSUME NEW a \in Addr, saved[a] # << >> PROVE Listed(a)'
    BY <1>1
  <2>1. PICK j \in 1..nbreaks : breaks[j] = a
    BY <1>1, AtWork DEF KeptInv, ListInv, Listed, check_break
  <2>2. CASE a = reader.addr
    BY <1>1, <1>4, <1>5, <2>1, <2>2 DEF Listed
  <2>3. CASE a # reader.addr
    <3>1. PICK i \in 1..n : from[i] = j
      BY <1>4, <1>8, <2>1, <2>3
    <3>2. breaks'[i] = a
      BY <1>7, <2>1, <3>1
    <3> QED
      BY <1>1, <3>2 DEF Listed
  <2> QED
    BY <2>2, <2>3
<1>11. \A i \in 1..n : breaks'[i] # reader.addr /\ Known(breaks'[i])
  <2> SUFFICES ASSUME NEW i \in 1..n PROVE breaks'[i] # reader.addr /\ Known(breaks'[i])
    OBVIOUS
  <2>1. from[i] \in 1..nbreaks /\ breaks[from[i]] # reader.addr /\ breaks'[i] = breaks[from[i]]
    BY <1>4, <1>7, Zenon
  <2>2. Known(breaks[from[i]])
    BY <1>1, <2>1 DEF KeptInv, ListInv
  <2> QED
    BY <2>1, <2>2, Zenon
<1>12. ListInv'
  <2>1. packet.op = "Z0" => packet.addr \in want \/ Left
    BY DEF KeptInv, ListInv
  <2>2. Left' <=> Left
    BY <1>1, Zenon DEF Left, Gone
  <2> QED
    BY <1>1, <1>5, <1>6, <1>10, <1>11, <2>1, <2>2, Zenon DEF ListInv
<1>13. SavedInv'
  <2>1. \A a : Clearing(a)' <=> Clearing(a)
    BY <1>1 DEF Clearing
  <2> QED
    BY <1>1, <1>6, <2>1 DEF KeptInv, SavedInv
<1> QED
  BY <1>6, <1>9, <1>12, <1>13 DEF KeptInv

\* A packet of a client that is done: it detaches or kills the cart.
LEMMA ReceiveLastKept ==
  ASSUME KeptInv, Receive, packet.op \in {"D", "k"}
  PROVE  KeptInv'
<1> USE DEF ReaderAt, list, flags, peer, code
<1>1. reader.pc = "recv" /\ Gone /\ running
  BY DEF Receive, KeptInv, TalkInv
<1>2. /\ UNCHANGED <<mem, saved, breaks, nbreaks, hasClient, running, cpu, sock, client, want, stops>>
      /\ DOMAIN reader' = {"pc", "addr", "i"} /\ reader'.pc \in {"recv", "Dclear"}
      /\ packet' = NoPacket /\ packet'.op = "none" /\ DOMAIN packet' = {"op", "addr"}
      /\ pending' \in {0, 2}
  BY Zenon DEF Receive, Release, NoPacket
<1>3. Shapes' /\ Clean' /\ StepInv'
  BY <1>2 DEF KeptInv, Shapes, CpuFields, Clean, StepInv
<1>4. Gone' /\ Left' /\ (Dead' <=> Dead) /\ ~Awaiting' /\ (\A a : Known(a)') /\ \A a : ~Clearing(a) /\ ~Clearing(a)'
  BY <1>1, <1>2 DEF Gone, Left, Dead, Awaiting, Known, Clearing, Listing
<1>5. TalkInv'
  BY <1>1, <1>2, <1>4, Greeted DEF KeptInv, TalkInv
<1>6. PresentInv'
  <2>1. hasClient
    BY <1>1 DEF Receive, KeptInv, PresentInv, Serving
  <2>2. client \notin {"asking", "running", "stopped"}
    BY <1>1 DEF Gone
  <2> QED
    BY <1>1, <1>2, <1>4, <2>1, <2>2 DEF KeptInv, PresentInv
<1>7. ListInv' /\ SavedInv'
  <2>1. hasClient => \A a : Listed(a) => Listed(a)' \/ reader'.pc = "Dclear"
    BY <1>1, <1>2, Zenon DEF Listed, check_break
  <2>2. ListInv'
    BY <1>1, <1>2, <1>4, <2>1, Zenon DEF KeptInv, ListInv, Serving, Listing, check_break
  <2>3. SavedInv'
    BY <1>1, <1>2, <1>4 DEF KeptInv, SavedInv
  <2> QED
    BY <2>2, <2>3
<1> QED
  BY <1>3, <1>5, <1>6, <1>7, Zenon DEF KeptInv

\* A packet that asks for a stop reply or lets the target run: by then no reply
\* is on its way.
LEMMA ReceiveTurnKept ==
  ASSUME KeptInv, Receive, packet.op \in {"?", "c"}
  PROVE  KeptInv'
<1> USE DEF ReaderAt, list, flags, peer, code
<1>1. reader.pc = "recv" /\ running /\ (stops = 0 \/ Gone) /\ client \in {"asking", "running", "off"}
      /\ Parked /\ packet # NoPacket
  BY Greeted DEF Receive, KeptInv, TalkInv, PresentInv, Awaiting
<1>2. /\ UNCHANGED <<mem, saved, breaks, nbreaks, hasClient, running, cpu, sock, client, want>>
      /\ DOMAIN reader' = {"pc", "addr", "i"} /\ reader'.pc = "recv"
      /\ packet' = NoPacket /\ packet'.op = "none" /\ DOMAIN packet' = {"op", "addr"}
      /\ \/ UNCHANGED <<halted, pending>> /\ stops' \in {stops, stops + 1}
         \/ pending' = 0 /\ stops' = stops
  BY Zenon DEF Receive, Release, NoPacket, SendStop
<1>3. Shapes' /\ Clean' /\ StepInv'
  BY <1>2 DEF KeptInv, Shapes, CpuFields, Clean, StepInv
<1>4. /\ (Gone' <=> Gone) /\ (Left' <=> Left) /\ (Dead' <=> Dead)
      /\ (\A a : Known(a) => Known(a)') /\ (\A a : ~Clearing(a) /\ ~Clearing(a)')
      /\ (\A a : Listed(a)' <=> Listed(a)) /\ (\A a : check_break(a)' <=> check_break(a))
  BY <1>1, <1>2 DEF Gone, Left, Dead, Known, Clearing, Listed, check_break
<1>5. TalkInv'
  BY <1>1, <1>2, <1>4, Greeted DEF KeptInv, TalkInv, Gone, Shapes
<1>6. PresentInv'
  <2>1. Awaiting' => UNCHANGED <<halted, pending>>
    BY <1>1, <1>2 DEF Awaiting, Listing, Gone
  <2>2. UNCHANGED <<halted, pending>> => Parked'
    BY <1>1, <1>2 DEF Parked, Dead
  <2>3. hasClient
    BY <1>1 DEF KeptInv, PresentInv, Serving
  <2> QED
    BY <1>1, <1>2, <1>4, <2>1, <2>2, <2>3 DEF KeptInv, PresentInv
<1>7. ListInv' /\ SavedInv'
  <2>1. ListInv'
    BY <1>1, <1>2, <1>4, Zenon DEF KeptInv, ListInv
  <2>2. SavedInv'
    BY <1>1, <1>2, <1>4 DEF KeptInv, SavedInv
  <2> QED
    BY <2>1, <2>2, Zenon
<1> QED
  BY <1>3, <1>5, <1>6, <1>7, Zenon DEF KeptInv

\* A packet that inserts or removes a breakpoint, or one the reader ignores.
LEMMA ReceiveBreakKept ==
  ASSUME KeptInv, Receive, packet.op \in {"Z0", "z0", "none"}
  PROVE  KeptInv'
<1> USE DEF ReaderAt, list, flags, peer, code
<1>1. reader.pc = "recv" /\ running /\ hasClient /\ nbreaks \in 0..MaxBreaks /\ MaxBreaks \in Nat
  BY GdbAssumption, Zenon DEF Receive, KeptInv, PresentInv, Serving, Shapes
<1>2. /\ UNCHANGED <<mem, saved, breaks, nbreaks, hasClient, halted, pending, running, cpu, sock, client, want, stops>>
      /\ DOMAIN reader' = {"pc", "addr", "i"} /\ reader'.pc \in {"recv", "Zset", "zcompact"}
      /\ reader'.addr = packet.addr
      /\ reader'.pc = "Zset" => packet.op = "Z0" /\ nbreaks < MaxBreaks
      /\ reader'.pc = "zcompact" <=> packet.op = "z0"
      /\ packet' = NoPacket /\ packet'.op = "none" /\ DOMAIN packet' = {"op", "addr"}
  <2>1. /\ UNCHANGED <<mem, saved, breaks, nbreaks, hasClient, halted, pending, running, cpu, sock, client, want, stops>>
        /\ packet' = NoPacket
    BY Zenon DEF Receive
  <2>2. CASE packet.op = "Z0"
    BY <1>1, <2>1, <2>2 DEF Receive, NoPacket
  <2>3. CASE packet.op = "z0"
    BY <2>1, <2>3 DEF Receive, NoPacket
  <2>4. CASE packet.op = "none"
    BY <2>1, <2>4 DEF Receive, NoPacket
  <2> QED
    BY <2>2, <2>3, <2>4
<1>3. Shapes' /\ Clean' /\ StepInv'
  BY <1>2 DEF KeptInv, Shapes, CpuFields, Clean, StepInv
<1>4. /\ (Gone' <=> Gone) /\ (Left' <=> Left) /\ (Dead' <=> Dead) /\ (Parked' <=> Parked)
      /\ (\A a : Listed(a)' <=> Listed(a)) /\ (\A a : check_break(a)' <=> check_break(a))
  BY <1>1, <1>2 DEF Gone, Left, Dead, Parked, Listed, check_break
<1>5. \A a : /\ ~Clearing(a)
             /\ Known(a) => Known(a)' \/ (reader'.pc = "zcompact" /\ reader'.addr = a)
             /\ Clearing(a)' <=> (reader'.pc = "zcompact" /\ reader'.addr = a)
  BY <1>1, <1>2, <1>4 DEF Known, Clearing
<1>6. TalkInv'
  BY <1>1, <1>2, <1>4, Greeted, Zenon DEF KeptInv, TalkInv
<1>7. PresentInv'
  <2>1. Awaiting' => Awaiting
    BY <1>1, <1>2 DEF Awaiting, Listing
  <2> QED
    BY <1>1, <1>2, <1>4, <2>1, Greeted, Zenon DEF KeptInv, PresentInv
<1>8. ListInv'
  <2>1. packet.op = "Z0" => packet.addr \in want \/ Left
    BY Zenon DEF KeptInv, ListInv
  <2>2. reader'.pc = "Zset" => Known(reader.addr)' /\ nbreaks < MaxBreaks
    BY <1>2, <1>4, <2>1, Zenon DEF Known
  <2>3. \A i \in 1..nbreaks : Known(breaks[i])' \/ (reader'.pc = "zcompact" /\ breaks[i] = reader'.addr)
    <3>1. \A i \in 1..nbreaks : Known(breaks[i])
      BY <1>1, Zenon DEF KeptInv, ListInv
    <3> QED
      BY <1>2, <1>5, <3>1, Zenon
  <2>4. \A a \in Addr : saved[a] # << >> => Listed(a)
    BY <1>1, Zenon DEF KeptInv, ListInv, Serving
  <2> QED
    BY <1>1, <1>2, <1>4, <2>2, <2>3, <2>4, Zenon DEF KeptInv, ListInv, Serving
<1>9. SavedInv'
  BY <1>1, <1>2, <1>4, <1>5 DEF KeptInv, SavedInv
<1> QED
  BY <1>3, <1>6, <1>7, <1>8, <1>9, Zenon DEF KeptInv

\* One packet of the loop in tcp_thread.
LEMMA ReceiveKept ==
  ASSUME KeptInv, Receive
  PROVE  KeptInv'
<1>1. packet.op \in {"none", "?", "Z0", "z0", "c", "D", "k"}
  BY Zenon DEF KeptInv, TalkInv
<1> QED
  BY <1>1, ReceiveLastKept, ReceiveTurnKept, ReceiveBreakKept, Zenon

\* The CPU thread's steps that patch or restore a word: the breakpoints of a
\* client that is gone, the one it steps over, and that one again.
LEMMA CpuWordsKept ==
  ASSUME StopInv, KeptInv, CpuClear \/ Resume \/ RepatchSet \/ Step
  PROVE  KeptInv'
<1> USE DEF CpuAt, CpuGoto
<1>1. /\ Shapes /\ Clean /\ StepInv /\ CpuFields
      /\ DOMAIN mem = Addr /\ DOMAIN saved = Addr /\ cpu.single = FALSE
  BY DEF KeptInv, Shapes
<1>2. UNCHANGED shared
  BY Zenon DEF CpuClear, Resume, RepatchSet, Step
<1>3. ~Parked /\ ~Dead /\ cpu.pc # "attach"
  BY Zenon DEF CpuClear, Resume, RepatchSet, Step, Parked, Dead
<1>4. ASSUME CpuFields', cpu'.pc \notin {"gate", "drop", "patchset"}, cpu'.pc = "clear" => cpu.pc = "clear",
             cpu'.single = FALSE, DOMAIN mem' = Addr, DOMAIN saved' = Addr, Clean', StepInv',
             \A a \in Addr : saved'[a] # << >> => saved[a] # << >> \/ (a = cpu.step /\ cpu.pc = "patchset")
      PROVE  KeptInv'
  <2>1. Shapes'
    BY <1>1, <1>2, <1>4 DEF Shapes, shared, list, flags, peer
  <2>2. cpu'.pc \in {"clear", "drop"} => ~hasClient
    BY <1>4 DEF KeptInv, PresentInv
  <2> QED
    BY <1>2, <1>3, <1>4, <2>1, <2>2, CpuMoves, Zenon
<1>5. CASE CpuClear
  <2>1. /\ Clean' /\ DOMAIN mem' = Addr /\ DOMAIN saved' = Addr
        /\ \A a \in Addr : saved'[a] # << >> => saved[a] # << >>
    BY <1>1, <1>5, ClearKeeps DEF CpuClear
  <2>2. /\ CpuFields' /\ cpu'.pc = "clear" /\ cpu'.single = cpu.single /\ cpu'.step = cpu.step
        /\ cpu'.resume = cpu.resume /\ cpu'.ctx = cpu.ctx /\ cpu'.done = cpu.done /\ cpu.pc = "clear"
    BY <1>1, <1>5 DEF CpuClear, CpuFields
  <2>3. StepInv'
    BY <1>1, <2>1, <2>2 DEF StepInv
  <2> QED
    BY <1>1, <1>4, <2>1, <2>2, <2>3, Zenon
<1>6. CASE Resume
  <2>1. cpu.ctx \in Reasons /\ cpu.pc = "resume" /\ pending # 1
    BY <1>1, <1>6 DEF Resume, StopInv, Stopped, Shapes
  <2>2. cpu.step = 0 /\ cpu.resume = 0 /\ (cpu.ctx = "ebreak" => cpu.done = FALSE)
    BY <1>1, <2>1 DEF StepInv
  <2>3. CASE gdb_clear_bp(cpu.at) /\ pending # 2 /\ cpu.ctx \in {"check", "ebreak"}
    <3>1. /\ Clean' /\ DOMAIN mem' = Addr /\ DOMAIN saved' = Addr
          /\ \A a \in Addr : saved'[a] # << >> => saved[a] # << >>
          /\ cpu.at \in Addr => saved'[cpu.at] = << >>
      BY <1>1, <2>3, ClearKeeps
    <3>2. /\ CpuFields' /\ cpu'.single = FALSE /\ cpu'.ctx = cpu.ctx /\ cpu'.done = cpu.done
          /\ cpu.ctx = "check" => cpu'.pc = "step" /\ cpu'.step = cpu.at /\ cpu'.resume = 0
          /\ cpu.ctx = "ebreak" => cpu'.pc = "single" /\ cpu'.resume = cpu.at /\ cpu'.step = 0
      <4>1. CASE cpu.ctx = "check"
        BY <1>1, <1>6, <2>1, <2>2, <2>3, <4>1, Zenon DEF Resume, CpuFields
      <4>2. CASE cpu.ctx = "ebreak"
        BY <1>1, <1>6, <2>1, <2>2, <2>3, <4>2, Zenon DEF Resume, CpuFields
      <4> QED
        BY <2>3, <4>1, <4>2, Zenon
    <3>3. /\ cpu'.pc \in {"step", "single"}
          /\ {cpu'.step, cpu'.resume} \subseteq {0, cpu.at}
          /\ cpu'.step # 0 => cpu'.pc = "step"
          /\ cpu'.resume # 0 => cpu'.pc = "single" /\ cpu.ctx = "ebreak"
      BY <2>3, <3>2
    <3>4. StepInv'
      BY <2>2, <3>1, <3>2, <3>3 DEF StepInv, Addr
    <3> QED
      BY <1>4, <3>1, <3>2, <3>3, <3>4, Zenon
  <2>4. CASE UNCHANGED <<mem, saved, nbp, flush>> /\ (pending = 2 \/ cpu.ctx \in {"entry", "single"})
    <3>1. /\ CpuFields' /\ cpu'.pc \in {"exited", "loop", "end"} /\ cpu'.single = FALSE
          /\ cpu'.ctx = cpu.ctx /\ cpu'.done = cpu.done /\ cpu'.step = 0 /\ cpu'.resume = 0
      BY <1>1, <1>6, <2>1, <2>2, <2>4, Zenon DEF Resume, CpuFields
    <3>2. Clean' /\ StepInv'
      BY <1>1, <2>2, <2>4, <3>1 DEF Clean, StepInv, Addr
    <3> QED
      BY <1>1, <1>4, <2>4, <3>1, <3>2, Zenon
  <2> QED
    BY <1>6, <2>1, <2>3, <2>4, Zenon DEF Resume, Reasons
<1>7. CASE RepatchSet
  <2>1. cpu.pc = "patchset" /\ (cpu.step \in Addr => saved[cpu.step] = << >>) /\ cpu.resume = 0
    BY <1>1, <1>7 DEF RepatchSet, StepInv
  <2>2. /\ Clean' /\ DOMAIN mem' = Addr /\ DOMAIN saved' = Addr
        /\ \A a \in Addr : a # cpu.step => saved'[a] = saved[a]
    BY <1>1, <1>7, <2>1, SetKeeps DEF RepatchSet
  <2>3. /\ CpuFields' /\ cpu'.pc = "post" /\ cpu'.single = cpu.single /\ cpu'.step = 0
        /\ cpu'.resume = 0 /\ cpu'.ctx = cpu.ctx /\ cpu'.done = cpu.done
    BY <1>1, <1>7, <2>1 DEF RepatchSet, CpuFields
  <2>4. StepInv'
    BY <1>1, <2>3 DEF StepInv, Addr
  <2> QED
    BY <1>1, <1>4, <2>1, <2>2, <2>3, <2>4, Zenon
<1>8. CASE Step
  <2> DEFINE e == IF cpu.step # 0 THEN cpu.at ELSE StepEnd(cpu.at)
             w == IF cpu.step # 0 THEN mem ELSE Translate(cpu.at, e)
             r == Ran(cpu.at, e, w)
  <2>1. /\ r.hit \in BOOLEAN
        /\ cpu' = [cpu EXCEPT !.pc = IF cpu.step # 0 THEN "patch" ELSE "post",
                              !.at = IF r.hit THEN r.at ELSE IF r.at = N THEN 1 ELSE r.at + 1,
                              !.ctx = IF r.hit THEN "ebreak" ELSE "ran",
                              !.done = ~r.hit /\ r.at = N]
    <3>1. r.hit \in BOOLEAN
      BY DEF Ran
    <3> QED
      BY <1>8, <3>1, Zenon DEF Step
  <2> HIDE DEF e, w, r
  <2>2. UNCHANGED <<mem, saved>> /\ cpu.pc = "step"
    BY <1>8 DEF Step
  <2>3. /\ CpuFields' /\ cpu'.pc \in {"patch", "post"} /\ (cpu.step # 0 => cpu'.pc = "patch")
        /\ cpu'.step = cpu.step /\ cpu'.resume = cpu.resume /\ cpu'.single = cpu.single
    BY <1>1, <2>1 DEF CpuFields
  <2>4. cpu'.ctx = "ebreak" => cpu'.done = FALSE
    BY <1>1, <2>1, Zenon DEF CpuFields
  <2>5. Clean' /\ StepInv'
    BY <1>1, <2>2, <2>3, <2>4 DEF Clean, StepInv
  <2> QED
    BY <1>1, <1>4, <2>2, <2>3, <2>5, Zenon
<1> QED
  BY <1>5, <1>6, <1>7, <1>8

\* The reader lets the CPU go: nobody is left who counts on it.
LEMMA ReaderDropKept ==
  ASSUME KeptInv, ReaderDrop
  PROVE  KeptInv'
<1> USE DEF list, flags, peer, code
<1>1. reader.pc \in {"Ddrop", "Bdrop"}
  BY Zenon DEF ReaderDrop
<1>2. /\ UNCHANGED <<mem, saved, breaks, nbreaks, running, cpu, packet, client, want, stops>>
      /\ DOMAIN reader' = {"pc", "addr", "i"} /\ reader'.pc \in {"recv", "accept", "done"}
      /\ reader.pc = "Bdrop" => reader'.pc # "recv"
      /\ sock' \in {sock, "none"} /\ hasClient' = FALSE /\ halted' = FALSE /\ pending' = 0
  BY Zenon DEF ReaderDrop, DropClient, Release, ReaderAt, Idle
<1>3. Shapes' /\ Clean' /\ StepInv'
  BY <1>2 DEF KeptInv, Shapes, CpuFields, Clean, StepInv
<1>4. (Gone' <=> Gone) /\ (Dead' <=> Dead) /\ (Left' <=> Left) /\ (Dead /\ Parked => Parked')
  BY <1>2 DEF Gone, Dead, Left, Parked
<1>5. (Gone /\ packet = NoPacket) \/ Dead
  BY <1>1, Zenon DEF KeptInv, PresentInv, Gone
<1>6. TalkInv'
  BY <1>1, <1>2, <1>4, Greeted DEF KeptInv, TalkInv, Serving, Listing
<1>7. PresentInv'
  <2>1. Awaiting' => Awaiting
    BY <1>1, <1>2 DEF Awaiting, Listing
  <2>2. Gone /\ packet = NoPacket => ~Awaiting
    BY <1>1 DEF Awaiting, Gone, NoPacket, Listing
  <2>3. Awaiting' => Parked'
    BY <1>4, <1>5, <2>1, <2>2 DEF KeptInv, PresentInv
  <2>4. Gone => client \notin {"asking", "running", "stopped"}
    BY Zenon DEF Gone
  <2> QED
    BY <1>1, <1>2, <1>4, <1>5, <2>3, <2>4, Zenon DEF KeptInv, PresentInv, Serving, Listing
<1>8. (\A a : Known(a)' <=> Known(a)) /\ \A a : ~Clearing(a) /\ ~Clearing(a)'
  BY <1>1, <1>2, <1>4, Zenon DEF Known, Clearing
<1>9. ListInv' /\ SavedInv'
  BY <1>1, <1>2, <1>4, <1>8, Zenon DEF KeptInv, ListInv, SavedInv
<1> QED
  BY <1>3, <1>6, <1>7, <1>9 DEF KeptInv

\* The cart is unloaded: whatever the client still has on its way is dropped.
LEMMA ShutdownKept ==
  ASSUME KeptInv, Shutdown
  PROVE  KeptInv'
<1> USE DEF CpuAt, CpuGoto, list, flags, peer, code
<1>1. /\ CpuFields /\ cpu.pc \in {"frame", "exited"} /\ ~Before /\ cpu.step = 0 /\ cpu.resume = 0
  BY DEF Shutdown, KeptInv, Shapes, StepInv, Before
<1>2. /\ UNCHANGED <<mem, saved, breaks, nbreaks, hasClient, halted, pending, fd, reader, sock, packet, client, want, stops>>
      /\ running' = FALSE
  BY DEF Shutdown
<1>3. /\ CpuFields' /\ cpu'.pc = "join" /\ cpu'.single = cpu.single /\ cpu'.step = 0
      /\ cpu'.resume = 0 /\ cpu'.ctx = cpu.ctx /\ cpu'.done = cpu.done
  BY <1>1, Zenon DEF Shutdown, CpuFields
<1>4. Shapes' /\ Clean'
  BY <1>2, <1>3, Zenon DEF KeptInv, Shapes, Clean
<1>5. StepInv'
  BY <1>1, <1>2, <1>3, Zenon DEF KeptInv, StepInv
<1>6. Parked' /\ Dead' /\ Left' /\ \A a : Known(a)'
  BY <1>2, <1>3 DEF Parked, Dead, Left, Known
<1>7. (Gone' <=> Gone) /\ (\A a : Listed(a)' <=> Listed(a))
  BY <1>2, Zenon DEF Gone, Listed, check_break
<1>8. TalkInv'
  BY <1>1, <1>2, <1>6, <1>7, Zenon DEF KeptInv, TalkInv
<1>9. PresentInv'
  BY <1>1, <1>2, <1>3, <1>6, <1>7, Zenon DEF KeptInv, PresentInv
<1>10. ListInv' /\ SavedInv'
  BY <1>1, <1>2, <1>3, <1>6, <1>7, Zenon DEF KeptInv, ListInv, SavedInv
<1> QED
  BY <1>4, <1>5, <1>8, <1>9, <1>10 DEF KeptInv

\* The connection is over: what was on its way is dropped with it.
LEMMA HangupKept ==
  ASSUME KeptInv, Hangup
  PROVE  KeptInv'
<1> USE DEF ReaderAt, list, flags, peer, code
<1>1. DOMAIN reader = {"pc", "addr", "i"} /\ reader.pc = "recv"
  BY DEF Hangup, KeptInv, Shapes
<1>2. /\ UNCHANGED <<mem, saved, breaks, nbreaks, hasClient, halted, pending, running, cpu, sock, client, want, stops>>
      /\ DOMAIN reader' = {"pc", "addr", "i"} /\ reader'.pc = "Bclear"
      /\ packet' = NoPacket /\ packet'.op = "none" /\ DOMAIN packet' = {"op", "addr"}
  BY <1>1, Zenon DEF Hangup, NoPacket
<1>3. Shapes' /\ Clean' /\ StepInv'
  BY <1>2 DEF KeptInv, Shapes, CpuFields, Clean, StepInv
<1>4. (client = "off" \/ Dead) /\ Left
  BY Zenon DEF Hangup, KeptInv, TalkInv, PresentInv, Left, Gone
<1>5. (Gone' <=> Gone) /\ (Dead' <=> Dead) /\ (Parked' <=> Parked) /\ Left' /\ (\A a : Known(a)')
  BY <1>2, <1>4, Zenon DEF Gone, Dead, Parked, Left, Known
<1>6. TalkInv'
  BY <1>1, <1>2, <1>5, Greeted, Zenon DEF KeptInv, TalkInv
<1>7. PresentInv'
  <2>1. Awaiting' => Awaiting
    BY <1>2, Zenon DEF Awaiting, Listing
  <2> QED
    BY <1>1, <1>2, <1>4, <1>5, <2>1, Greeted, Zenon DEF KeptInv, PresentInv, Serving, Listing
<1>8. ListInv' /\ SavedInv'
  BY <1>2, <1>5, Zenon DEF ListInv, SavedInv, Serving, Listing
<1> QED
  BY <1>3, <1>6, <1>7, <1>8 DEF KeptInv

\* The reader forgets the client: its breakpoints one by one, then the list.
LEMMA ReaderClearsKept ==
  ASSUME KeptInv, ReaderClear \/ ReaderEmpty
  PROVE  KeptInv'
<1> USE DEF ReaderAt, Goto, list, flags, peer, code
<1>1. /\ DOMAIN reader = {"pc", "addr", "i"} /\ reader.pc \in {"Dclear", "Bclear"}
      /\ Clean /\ DOMAIN mem = Addr /\ DOMAIN saved = Addr
  BY DEF ReaderClear, ReaderEmpty, KeptInv, Shapes
<1>2. /\ UNCHANGED <<breaks, hasClient, halted, pending, running, cpu, sock, packet, client, want, stops>>
      /\ DOMAIN reader' = {"pc", "addr", "i"}
      /\ reader.pc = "Dclear" => reader'.pc \in {"Dclear", "Ddrop"}
      /\ reader.pc = "Bclear" => reader'.pc \in {"Bclear", "Bdrop"}
      /\ nbreaks' \in {0, nbreaks}
  BY <1>1 DEF ReaderClear, ReaderEmpty
<1>3. /\ Clean' /\ DOMAIN mem' = Addr /\ DOMAIN saved' = Addr
      /\ \A a \in Addr : saved'[a] # << >> => saved[a] # << >>
  <2>1. CASE ReaderClear
    BY <1>1, <2>1, ClearKeeps DEF ReaderClear
  <2>2. CASE ReaderEmpty
    BY <1>1, <2>2 DEF ReaderEmpty, Clean
  <2> QED
    BY <2>1, <2>2
<1>4. Shapes' /\ StepInv'
  <2>1. Shapes'
    BY <1>2, <1>3, GdbAssumption DEF KeptInv, Shapes, CpuFields
  <2>2. StepInv'
    BY <1>2, <1>3 DEF KeptInv, StepInv
  <2> QED
    BY <2>1, <2>2, Zenon
<1>5. (Gone' <=> Gone) /\ (Dead' <=> Dead) /\ (Parked' <=> Parked) /\ (Left' <=> Left)
  BY <1>2, Zenon DEF Gone, Dead, Parked, Left
<1>6. TalkInv'
  BY <1>1, <1>2, <1>5, Greeted, Zenon DEF KeptInv, TalkInv, Serving, Listing
<1>7. PresentInv'
  <2>1. Awaiting' => Awaiting
    BY <1>1, <1>2, Zenon DEF Awaiting, Listing
  <2> QED
    BY <1>1, <1>2, <1>5, <2>1, Greeted, Zenon DEF KeptInv, PresentInv, Serving, Listing
<1>8. (\A a : Known(a)' <=> Known(a)) /\ \A a : ~Clearing(a) /\ ~Clearing(a)'
  BY <1>1, <1>2, <1>5, Zenon DEF Known, Clearing
<1>9. ListInv' /\ SavedInv'
  <2>1. \A i \in 1..nbreaks' : i \in 1..nbreaks
    BY <1>2 DEF KeptInv, Shapes
  <2>2. ListInv'
    BY <1>1, <1>2, <1>5, <1>8, <2>1, Zenon DEF KeptInv, ListInv, Serving, Listing
  <2>3. SavedInv'
    BY <1>1, <1>2, <1>3, <1>8, Zenon DEF KeptInv, SavedInv
  <2> QED
    BY <2>2, <2>3
<1> QED
  BY <1>3, <1>4, <1>6, <1>7, <1>9 DEF KeptInv

\* However insertions, removals, step-overs, a kill, a detach and a disconnection
\* interleave, the instruction under an ebreak is still among the words gdb_set_bp
\* saved for that address: for any code, any tables and any client that does not
\* step, interrupt or reconnect.
THEOREM OriginalAlwaysKept == Spec => []OriginalKept
<1>1. ASSUME StopInv, KeptWhenCalm, [Next]_vars PROVE KeptWhenCalm'
  <2>1. UNCHANGED scene
    BY <1>1, Zenon DEF Next, ReaderNext, Accept, Hello, Receive, Z0Set, Z0Add, z0Compact, z0Clear, z0Commit,
         Hangup, ReaderClear, ReaderEmpty, ReaderDrop, AcceptFails, CpuNext, WaitAttached, WaitContinue,
         GateTimeout, Frame, OnStop, CpuClear, CpuEmpty, CpuDrop, Poll, Resume, Loop, Check, Step,
         Repatch, RepatchSet, Post, SinglePause, Notify, End, Join, shared, Shutdown, ClientNext,
         Connect, Send, Insert, Remove, Continue, SingleStep, Interrupt, Detach, Kill, HearStop, Close,
         engine, vars
  <2> SUFFICES ASSUME Calm, KeptInv PROVE KeptInv'
    BY <1>1, <2>1 DEF KeptWhenCalm, Calm
  <2>2. CASE ReaderNext
    BY <2>2, AcceptKept, HelloKept, ReceiveKept, InsertKept, CompactKept, RemoveKept, HangupKept,
       ReaderClearsKept, ReaderDropKept DEF ReaderNext
  <2>3. CASE CpuNext
    <3>1. ~WaitContinue /\ ~GateTimeout
      BY DEF WaitContinue, GateTimeout, CpuAt, KeptInv, Shapes
    <3> QED
      BY <1>1, <2>3, <3>1, CpuPlainKept, CpuWordsKept, CpuForgetsKept, NotifyKept DEF CpuNext
  <2>4. CASE Shutdown
    BY <2>4, ShutdownKept
  <2>5. CASE ClientNext
    BY <2>5, ClientTurnKept, ClientSpeaksKept DEF ClientNext
  <2>6. CASE UNCHANGED vars
    <3>1. /\ UNCHANGED <<mem, saved, breaks, nbreaks, halted, pending, hasClient, running, reader, cpu>>
          /\ UNCHANGED <<sock, packet, client, want, stops>>
      BY <2>6, Zenon DEF vars, code, list, flags, peer
    <3>2. Shapes' /\ Clean' /\ StepInv'
      BY <3>1, Zenon DEF KeptInv, Shapes, CpuFields, Clean, StepInv
    <3>3. /\ (Gone' <=> Gone) /\ (Dead' <=> Dead) /\ (Parked' <=> Parked) /\ (Before' <=> Before)
          /\ (Left' <=> Left) /\ (Awaiting' <=> Awaiting)
      BY <3>1, Zenon DEF Gone, Left, Dead, Before, Parked, Awaiting
    <3>4. TalkInv' /\ PresentInv'
      <4>1. TalkInv'
        BY <3>1, <3>3, Zenon DEF KeptInv, TalkInv
      <4>2. PresentInv'
        BY <3>1, <3>3, Zenon DEF KeptInv, PresentInv
      <4> QED
        BY <4>1, <4>2, Zenon
    <3>5. /\ (\A a : Known(a)' <=> Known(a)) /\ (\A a : Clearing(a)' <=> Clearing(a))
          /\ (\A a : Listed(a)' <=> Listed(a)) /\ (\A a : check_break(a)' <=> check_break(a))
      BY <3>1, <3>3, Zenon DEF Known, Clearing, Listed, check_break
    <3>6. ListInv' /\ SavedInv'
      BY <3>1, <3>3, <3>5, Zenon DEF KeptInv, ListInv, SavedInv
    <3> QED
      BY <3>2, <3>4, <3>6, Zenon DEF KeptInv
  <2> QED
    BY <1>1, <2>2, <2>3, <2>4, <2>5, <2>6, Zenon DEF Next
<1>2. KeptWhenCalm => OriginalKept
  <2>1. Clean => \A a \in Addr : mem[a] = "ebreak" => \E i \in 1..Len(saved[a]) : saved[a][i] = "orig"
    BY DEF Clean
  <2> QED
    BY <2>1 DEF KeptWhenCalm, KeptInv, Calm, OriginalKept
<1> QED
  BY <1>1, <1>2, InitKept, InitCoherent, StopPreserved, PTL DEF Spec

=============================================================================
