--------------------------- MODULE BridgeThreadsProofs ---------------------------
(***************************************************************************)
(* Proofs about the exchange threads of the Lua bridge, for any depth of   *)
(* nesting, number of calls, stack and budget, with and without a          *)
(* debugger: every call has its thread back when it ends, and a protected  *)
(* call leaves what lies below its function as it was.                     *)
(*                                                                         *)
(* PoolInv is the invariant both need.  While a callback runs, the thread  *)
(* of the call that waits for it holds what was below the function called  *)
(* and nobody else touches it; the threads above the level in use are      *)
(* empty; and a handoff that nobody took belongs to a thread that died.    *)
(***************************************************************************)
EXTENDS LuaBridgeProofs

\* What a thread's stack holds.
Cells == {"arg", "val", "err", "res", "nil", "junk"}
PoolShape ==
    /\ DOMAIN pool = Threads
    /\ \A t \in Threads : DOMAIN pool[t] = {"stack", "dead"} /\ pool[t].stack \in Seq(Cells)

\* rc asks for a callback of call c, made in mode m ...
Away(c, rc, m) ==
    /\ c.kind = "bridged" /\ rc.how = m /\ rc.exch = c.t
    /\ rc.nargs \in 0 .. 1 /\ rc.nres \in {MULTRET, 0, 1} /\ rc.base \in Nat
    /\ DOMAIN rc.frame.regs = RegFields /\ ~rc.frame.error /\ ~rc.frame.fnDone
\* ... whose thread is left as it was below the function called.
OnThread(c, rc, p) == ~p[c.t].dead /\ rc.base = Len(p[c.t].stack)

Rests ==
    /\ \A i \in 1 .. Len(calls) - 1 : calls[i].at = "lua" /\ calls[i].rc.how # "meta"
    /\ \A i \in 1 .. Len(calls) : calls[i].at \in {"lua", "paused"} =>
           /\ calls[i].kind = "bridged"
           /\ calls[i].rc.how # "meta" =>
                  Away(calls[i], calls[i].rc, mode) /\ OnThread(calls[i], calls[i].rc, pool)
    /\ calls # << >> /\ Cur.at \in {"lua", "paused"} /\ Cur.rc.how = "meta" => ~ses.trapped

AtPark(s, c) == c.at = "guest" /\ s.halt /\ ~s.fnDone /\ ~s.error /\ ~s.trapped
Fresh ==
    /\ calls # << >> /\ AtPark(ses, Cur) /\ Away(Cur, ses.handoff, mode)
    /\ ses.handoff.base <= Len(pool[Cur.t].stack)
HandoffInv == ses.pending =>
    /\ ses.handoff.nargs \in 0 .. 1 /\ ses.handoff.nres \in {MULTRET, 0, 1}
    /\ ses.handoff.base \in Nat /\ ses.handoff.exch \in Threads
    /\ pool[ses.handoff.exch].dead \/ Fresh
    /\ calls # << >> /\ AtPark(ses, Cur) => Fresh

ErrorInv ==
    /\ Sound /\ ses.error => calls # << >> /\ Cur.at = "guest" /\ ~ses.fnDone
    /\ calls # << >> /\ Cur.at = "enter" /\ ses.error /\ ~ses.trapped =>
           /\ Cur.kind = "bridged" /\ pool[Cur.t].dead
           /\ Cur.rc.nargs \in 0 .. 1 /\ Cur.rc.nres \in {MULTRET, 0, 1}

Above == Sound => \A t \in Threads : t > host.depth => pool[t].stack = << >>

\* Without a debugger no call parks and no thread dies.
Synced == mode = "sync" => Sound /\ ~ses.pending

PoolInv == PoolShape /\ Rests /\ HandoffInv /\ ErrorInv /\ Above /\ Synced

\* Changing the stack of one thread.
LEMMA PoolEdit ==
    ASSUME PoolShape, NEW x \in Threads, NEW s \in Seq(Cells),
           pool' = [pool EXCEPT ![x].stack = s]
    PROVE  /\ PoolShape' /\ pool'[x].stack = s
           /\ \A t \in Threads : pool'[t].dead = pool[t].dead
           /\ \A t \in Threads \ {x} : pool'[t] = pool[t]
<1>1. DOMAIN pool' = Threads /\ (\A t \in Threads \ {x} : pool'[t] = pool[t])
  BY DEF PoolShape
<1>2. pool'[x] = [pool[x] EXCEPT !.stack = s]
  BY DEF PoolShape
<1>3. DOMAIN pool'[x] = {"stack", "dead"} /\ pool'[x].stack = s /\ pool'[x].dead = pool[x].dead
  BY <1>2 DEF PoolShape
<1> QED
  BY <1>1, <1>3 DEF PoolShape

\* A bridged call's thread is the one of its level, and no waiting call's.
LEMMA OwnThread ==
    ASSUME Shape, Nested, calls # << >>, Cur.kind = "bridged"
    PROVE  /\ Cur.t = host.depth /\ Cur.t \in Threads /\ ses.exch = Cur.t
           /\ Cur.t = Cur.base + 1 /\ Cur.base \in Nat
<1>1. Len(calls) \in Nat \ {0} /\ Cur = calls[Len(calls)]
  BY CallsLen
<1>2. Linked(Cur) /\ host.depth = Up(Cur) /\ host.depth <= Depth /\ ses.exch = Cur.t
  BY <1>1 DEF Nested, Chain, Levels
<1>3. Cur.t = Cur.base + 1 /\ Cur.base \in Nat /\ Depth \in Nat
  BY <1>2, BridgeAssumption, Zenon DEF Linked
<1> QED
  BY <1>2, <1>3 DEF Up, Threads

\* The calls that wait are bridged, each on a thread below the current level.
LEMMA WaitThread ==
    ASSUME Shape, Nested, Rests, NEW i \in 1 .. Len(calls) - 1
    PROVE  /\ i \in 1 .. Len(calls) /\ calls[i].kind = "bridged"
           /\ calls[i].t \in Threads /\ calls[i].t <= host.depth /\ calls[i].t # host.depth + 1
           /\ Cur.kind = "bridged" => calls[i].t # Cur.t
<1>1. Len(calls) \in Nat \ {0} /\ Cur = calls[Len(calls)] /\ i \in 1 .. Len(calls) /\ i < Len(calls)
  BY CallsLen
<1>2. calls[i].kind = "bridged"
  BY <1>1 DEF Rests
<1>3. Linked(calls[i]) /\ Linked(Cur) /\ Up(calls[i]) <= Cur.base
  BY <1>1 DEF Nested, Chain
<1>4. host.depth = Up(Cur) /\ host.depth <= Depth
  BY <1>1 DEF Nested, Levels
<1>5. /\ calls[i].t = calls[i].base + 1 /\ calls[i].base \in Nat /\ calls[i].t = Up(calls[i])
      /\ Cur.base \in Nat /\ Up(Cur) \in Nat /\ Cur.base <= Up(Cur)
      /\ Cur.kind = "bridged" => Cur.t = Cur.base + 1
  BY <1>2, <1>3 DEF Linked, Up
<1>6. Depth \in Nat
  BY BridgeAssumption
<1> QED
  BY <1>1, <1>2, <1>3, <1>4, <1>5, <1>6 DEF Threads

\* A step that changes at most the stack of the current bridged call's thread.
EditsOwn ==
    \/ pool' = pool
    \/ Cur.kind = "bridged" /\ \E s \in Seq(Cells) : pool' = [pool EXCEPT ![Cur.t].stack = s]

LEMMA ThreadEdit ==
    ASSUME Shape, Nested, PoolInv, calls # << >>, host' = host, EditsOwn
    PROVE  /\ PoolShape' /\ Above' /\ (Sound' <=> Sound)
           /\ \A t \in Threads : pool'[t].dead = pool[t].dead
           /\ \A i \in 1 .. Len(calls) - 1 : pool'[calls[i].t] = pool[calls[i].t]
<1>1. CASE pool' = pool
  BY <1>1 DEF PoolInv, PoolShape, Above, Sound
<1>2. CASE Cur.kind = "bridged" /\ \E s \in Seq(Cells) : pool' = [pool EXCEPT ![Cur.t].stack = s]
  <2>1. PICK s \in Seq(Cells) : pool' = [pool EXCEPT ![Cur.t].stack = s]
    BY <1>2, Zenon
  <2>2. Cur.t = host.depth /\ Cur.t \in Threads
    BY <1>2, OwnThread
  <2>3. /\ PoolShape' /\ (\A t \in Threads : pool'[t].dead = pool[t].dead)
        /\ \A t \in Threads \ {Cur.t} : pool'[t] = pool[t]
    BY <2>1, <2>2, PoolEdit, Zenon DEF PoolInv
  <2>4. Sound' <=> Sound
    BY <2>3 DEF Sound
  <2>5. Above'
    <3>1. \A t \in Threads : t > host.depth => t \in Threads \ {Cur.t}
      BY <2>2 DEF Threads
    <3> QED
      BY <2>3, <2>4, <3>1 DEF PoolInv, Above
  <2>6. ASSUME NEW i \in 1 .. Len(calls) - 1 PROVE pool'[calls[i].t] = pool[calls[i].t]
    BY <1>2, <2>3, WaitThread DEF PoolInv
  <2> QED
    BY <2>3, <2>4, <2>5, <2>6
<1> QED
  BY <1>1, <1>2, Zenon DEF EditsOwn

\* The stack of calls after a step of the current one.
LEMMA SetCurFacts ==
    ASSUME Shape, calls # << >>, NEW c, SetCur(c)
    PROVE  /\ Len(calls) \in Nat \ {0} /\ Len(calls') = Len(calls) /\ calls'[Len(calls)] = c
           /\ \A i \in 1 .. Len(calls) - 1 : calls'[i] = calls[i] /\ i \in 1 .. Len(calls)
           /\ Cur' = c /\ calls' # << >>
<1>1. IsSeq(calls) /\ calls' = [calls EXCEPT ![Len(calls)] = c]
  BY DEF Shape, SetCur
<1>2. /\ Len(calls) \in Nat \ {0} /\ Len(calls') = Len(calls) /\ calls' # << >>
      /\ calls'[Len(calls)] = c
  BY <1>1, Replaced, Zenon
<1>3. \A i \in 1 .. Len(calls) - 1 : calls'[i] = calls[i] /\ i \in 1 .. Len(calls)
  BY <1>1, <1>2, Replaced
<1>4. Cur' = c
  BY <1>2 DEF Cur
<1> QED
  BY <1>2, <1>3, <1>4

\* The waiting calls go on waiting through a step of the current one.
LEMMA RestCur ==
    ASSUME Shape, Nested, Rests, calls # << >>, NEW c, SetCur(c), SameCall(c), mode' = mode,
           \A i \in 1 .. Len(calls) - 1 : pool'[calls[i].t] = pool[calls[i].t],
           c.at \in {"lua", "paused"} =>
               /\ c.kind = "bridged"
               /\ c.rc.how # "meta" => Away(c, c.rc, mode) /\ OnThread(c, c.rc, pool'),
           c.at \in {"lua", "paused"} /\ c.rc.how = "meta" => ~ses'.trapped
    PROVE  Rests' /\ Cur' = c /\ calls' # << >>
<1>2. Len(calls) \in Nat \ {0} /\ Len(calls') = Len(calls) /\ calls'[Len(calls)] = c
  BY SetCurFacts, Zenon
<1>3. \A i \in 1 .. Len(calls) - 1 : calls'[i] = calls[i] /\ i \in 1 .. Len(calls)
  BY SetCurFacts, Zenon
<1>4. Cur' = c /\ calls' # << >>
  BY SetCurFacts, Zenon
<1>5. ASSUME NEW i \in 1 .. Len(calls), calls'[i].at \in {"lua", "paused"}
      PROVE  /\ calls'[i].kind = "bridged"
             /\ calls'[i].rc.how # "meta" =>
                    Away(calls'[i], calls'[i].rc, mode) /\ OnThread(calls'[i], calls'[i].rc, pool')
  <2>1. CASE i = Len(calls)
    BY <1>2, <1>5, <2>1, Zenon
  <2>2. CASE i # Len(calls)
    <3>1. i \in 1 .. Len(calls) - 1
      BY <1>2, <2>2
    <3>2. calls'[i] = calls[i] /\ pool'[calls[i].t] = pool[calls[i].t]
      BY <1>3, <3>1
    <3> QED
      BY <1>5, <3>2 DEF Rests, OnThread
  <2> QED
    BY <2>1, <2>2
<1> QED
  BY <1>2, <1>3, <1>4, <1>5 DEF Rests

\* A handoff nobody took stays as it is through a step that does not park.
LEMMA HandKept ==
    ASSUME HandoffInv, ses'.pending = ses.pending, ses'.handoff = ses.handoff,
           \A t \in Threads : pool[t].dead => pool'[t].dead,
           ses.pending => ~Fresh,
           ses'.pending => ~(calls' # << >> /\ AtPark(ses', Cur'))
    PROVE  HandoffInv'
BY DEF HandoffInv

\* Leaving the record of the current call as it is.
LEMMA SetSame ==
    ASSUME Shape, calls # << >>, calls' = calls
    PROVE  SetCur(Cur) /\ SameCall(Cur)
<1>1. Len(calls) \in Nat \ {0} /\ Cur = calls[Len(calls)] /\ DOMAIN Cur = CallFields
  BY CallsLen
<1>2. PICK S : calls \in Seq(S)
  BY DEF Shape, IsSeq
<1>3. [calls EXCEPT ![Len(calls)] = Cur] = calls
  BY <1>1, <1>2
<1> QED
  BY <1>1, <1>3 DEF SetCur, SameCall

\* Through an operation that neither parks nor calls Lua.
LEMMA OpPool ==
    ASSUME BridgeInv, Nested, PoolInv, GuestRuns, mode' = mode, host' = host, EditsOwn,
           NEW c, SetCur(c), SameCall(c), c.at = "guest",
           ses'.pending = ses.pending, ses'.handoff = ses.handoff,
           ~ses'.halt \/ ses'.fnDone \/ ses'.error \/ ses'.trapped,
           ses'.error => ~ses'.fnDone
    PROVE  PoolInv'
<1>1. Shape /\ calls # << >> /\ Cur.at = "guest" /\ ~ses.halt
  BY Executing DEF BridgeInv
<1>2. /\ PoolShape' /\ Above' /\ (Sound' <=> Sound)
      /\ \A t \in Threads : pool'[t].dead = pool[t].dead
      /\ \A i \in 1 .. Len(calls) - 1 : pool'[calls[i].t] = pool[calls[i].t]
  BY <1>1, ThreadEdit, Zenon
<1>3. Rests' /\ Cur' = c /\ calls' # << >>
  BY <1>1, <1>2, RestCur DEF PoolInv, InMeta
<1>4. HandoffInv'
  BY <1>1, <1>2, <1>3, HandKept DEF PoolInv, Fresh, AtPark
<1>5. ErrorInv'
  BY <1>3 DEF ErrorInv
<1>6. Synced'
  BY <1>2 DEF PoolInv, Synced
<1> QED
  BY <1>2, <1>3, <1>4, <1>5, <1>6, Zenon DEF PoolInv

\* An operation through an open bridge is a bridged call's, on its own thread.
LEMMA OpenBridge ==
    ASSUME BridgeInv, Nested, PoolShape, GuestRuns, BridgeOpen
    PROVE  /\ Cur.kind = "bridged" /\ ses.exch = Cur.t /\ Cur.t \in Threads
           /\ Stack = pool[Cur.t].stack /\ Stack \in Seq(Cells)
           /\ \A s : WithStack(s) = [pool EXCEPT ![Cur.t].stack = s]
<1>1. Shape /\ calls # << >> /\ Keeps(Cur, ReverseCall(0, 0, TRUE), mode)
  BY Executing, SavedOwn, Zenon DEF BridgeInv
<1>2. Cur.kind = "bridged"
  BY <1>1 DEF Keeps
<1>3. ses.exch = Cur.t /\ Cur.t \in Threads
  BY <1>1, <1>2, OwnThread
<1> QED
  BY <1>2, <1>3 DEF PoolShape, Stack, WithStack

\* The stacks that operations leave.
LEMMA StackForms ==
    ASSUME NEW s \in Seq(Cells)
    PROVE  /\ Append(s, "val") \in Seq(Cells) /\ Append(s, "err") \in Seq(Cells)
           /\ Len(s) \in Nat
           /\ \A n \in 0 .. Len(s) : Cut(s, n) \in Seq(Cells) /\ Len(Cut(s, n)) = n
<1>1. "val" \in Cells /\ "err" \in Cells
  BY DEF Cells
<1>2. ASSUME NEW n \in 0 .. Len(s) PROVE Cut(s, n) \in Seq(Cells) /\ Len(Cut(s, n)) = n
  <2>1. \A i \in 1 .. n : s[i] \in Cells
    BY ElementOfSeq
  <2>2. /\ SubSeq(s, 1, n) \in Seq(Cells)
        /\ Len(SubSeq(s, 1, n)) = IF 1 <= n THEN n - 1 + 1 ELSE 0
    BY <2>1, SubSeqProperties
  <2> QED
    BY <2>2 DEF Cut
<1> QED
  BY <1>1, <1>2

\* An operation that fails leaves an error value on its own thread.
LEMMA FailPool ==
    ASSUME BridgeInv, Nested, PoolInv, GuestRuns, BridgeOpen, bridge_fail(Stack),
           mode' = mode, host' = host
    PROVE  PoolInv'
<1>1. /\ Cur.kind = "bridged" /\ Stack \in Seq(Cells)
      /\ \A s : WithStack(s) = [pool EXCEPT ![Cur.t].stack = s]
  BY OpenBridge DEF PoolInv
<1>2. calls' = calls /\ ses' = [ses EXCEPT !.error = TRUE, !.halt = TRUE]
      /\ pool' = WithStack(Append(Stack, "err"))
  BY DEF bridge_fail
<1>3. EditsOwn
  BY <1>1, <1>2, StackForms, Zenon DEF EditsOwn
<1>4. Shape /\ calls # << >> /\ Cur.at = "guest" /\ DOMAIN ses = SesFields /\ ~ses.fnDone
  BY Executing DEF BridgeInv
<1>5. SetCur(Cur) /\ SameCall(Cur)
  BY <1>2, <1>4, SetSame
<1>6. /\ ses'.pending = ses.pending /\ ses'.handoff = ses.handoff /\ ses'.error = TRUE
      /\ ses'.fnDone = ses.fnDone
  BY <1>2, <1>4 DEF SesFields
<1> QED
  BY <1>3, <1>4, <1>5, <1>6, OpPool

\* Reads, pushes and pops work on the thread of the call that executes.
LEMMA LuaOpPool ==
    ASSUME BridgeInv, Nested, PoolInv, NEW op \in {"read", "push", "pop", "next"}, bridge_lua_op(op)
    PROVE  PoolInv'
<1>1. GuestRuns /\ BridgeOpen /\ mode' = mode /\ host' = host
  BY DEF bridge_lua_op, Step
<1>2. CASE bridge_fail(Stack)
  BY <1>1, <1>2, FailPool
<1>3. CASE \E s \in OpStacks(op) : pool' = WithStack(s) /\ OpTail
  <2>1. PICK s \in OpStacks(op) : pool' = WithStack(s) /\ OpTail
    BY <1>3
  <2>2. /\ Cur.kind = "bridged" /\ Stack \in Seq(Cells)
        /\ WithStack(s) = [pool EXCEPT ![Cur.t].stack = s]
    BY <1>1, OpenBridge DEF PoolInv
  <2>3. s \in Seq(Cells)
    <3>1. Reads \subseteq Seq(Cells) /\ Pushes \subseteq Seq(Cells)
      BY <2>2, StackForms, Zenon DEF Reads, Pushes
    <3>2. Pops \subseteq Seq(Cells)
      <4>1. Len(Stack) >= 1 => Len(Stack) - 1 \in 0 .. Len(Stack)
        BY <2>2, StackForms
      <4> QED
        BY <2>2, <4>1, StackForms, Zenon DEF Pops, Top
    <3>3. Nexts \subseteq Seq(Cells)
      BY <3>1, <3>2 DEF Nexts
    <3> QED
      BY <3>1, <3>2, <3>3 DEF OpStacks
  <2>4. EditsOwn
    BY <2>1, <2>2, <2>3, Zenon DEF EditsOwn
  <2> DEFINE c == [Cur EXCEPT !.done = @ + 1]
  <2>5. SetCur(c) /\ ses' = ses
    BY <2>1 DEF OpTail
  <2>6. /\ calls # << >> /\ Cur.at = "guest" /\ DOMAIN Cur = CallFields
        /\ ~ses.halt /\ ~ses.error
    BY <1>1, Executing
  <2>7. SameCall(c) /\ c.at = "guest"
    BY <2>6, DoneFields, Zenon
  <2> HIDE DEF c
  <2> QED
    BY <1>1, <2>4, <2>5, <2>6, <2>7, OpPool
<1> QED
  BY <1>2, <1>3 DEF bridge_lua_op

\* PCALL: the thread keeps what is below the function while its callback runs, or
\* the machine parks with a handoff of its own.
LEMMA PcallPool ==
    ASSUME BridgeInv, Nested, PoolInv, NEW nargs \in 0 .. 1, NEW nres \in {MULTRET, 0, 1},
           NEW prot, OpPcall(nargs, nres, prot)
    PROVE  PoolInv'
<1> DEFINE rc == ReverseCall(nargs, nres, prot)
<1>1. GuestRuns /\ BridgeOpen /\ mode' = mode /\ host' = host
  BY DEF OpPcall, Step
<1>2. /\ Cur.kind = "bridged" /\ ses.exch = Cur.t /\ Cur.t \in Threads
      /\ Stack = pool[Cur.t].stack /\ Stack \in Seq(Cells)
      /\ \A s : WithStack(s) = [pool EXCEPT ![Cur.t].stack = s]
  BY <1>1, OpenBridge DEF PoolInv
<1>3. /\ Shape /\ calls # << >> /\ Cur.at = "guest" /\ DOMAIN Cur = CallFields
      /\ DOMAIN ses = SesFields /\ DOMAIN cpu = RegFields
      /\ ~ses.halt /\ ~ses.trapped /\ ~ses.error /\ ~ses.fnDone
      /\ mode \in {"sync", "hl", "web"}
  BY <1>1, Executing DEF BridgeInv, Owns
<1>4. CASE bridge_fail(Stack)
  BY <1>1, <1>4, FailPool
<1>5. ASSUME nargs <= Top(Stack) - 1
      PROVE  Away(Cur, rc, mode) /\ rc.base \in 0 .. Len(Stack) /\ rc.exch = Cur.t
  <2>1. Len(Stack) \in Nat
    BY <1>2
  <2>2. /\ rc.how = mode /\ rc.exch = Cur.t /\ rc.nargs = nargs /\ rc.nres = nres
        /\ rc.base = Len(Stack) - nargs - 1 /\ rc.frame.regs = cpu
        /\ rc.frame.error = ses.error /\ rc.frame.fnDone = ses.fnDone
    BY <1>2 DEF ReverseCall, save_call_frame, Top
  <2>3. rc.base \in 0 .. Len(Stack)
    BY <1>5, <2>1, <2>2 DEF Top
  <2> QED
    BY <1>2, <1>3, <2>2, <2>3 DEF Away
<1> HIDE DEF rc
<1>6. CASE nargs <= Top(Stack) - 1 /\ PcallStarts(rc) /\ mode = "sync"
  <2> DEFINE c == [Cur EXCEPT !.at = "lua", !.rc = rc]
             s == Cut(Stack, rc.base)
  <2>1. SetCur(c) /\ pool' = [pool EXCEPT ![Cur.t].stack = s] /\ ses' = ses
    BY <1>2, <1>6 DEF PcallStarts
  <2>2. SameCall(c) /\ c.at = "lua" /\ c.rc = rc /\ c.kind = Cur.kind /\ c.t = Cur.t
    <3>1. Moves(c, "lua", rc)
      BY Zenon DEF Moves
    <3> HIDE DEF c
    <3> QED
      BY <1>3, <3>1, FormFields
  <2>3. s \in Seq(Cells) /\ Len(s) = rc.base
    BY <1>2, <1>5, <1>6, StackForms
  <2> HIDE DEF c, s
  <2>4. EditsOwn
    BY <1>2, <2>1, <2>3, Zenon DEF EditsOwn
  <2>5. /\ PoolShape' /\ Above' /\ (Sound' <=> Sound)
        /\ \A t \in Threads : pool'[t].dead = pool[t].dead
        /\ \A i \in 1 .. Len(calls) - 1 : pool'[calls[i].t] = pool[calls[i].t]
    BY <1>1, <1>3, <2>4, ThreadEdit
  <2>6. Away(c, c.rc, mode)
    BY <1>5, <1>6, <2>2 DEF Away
  <2>7. Sound /\ ~ses.pending
    BY <1>6 DEF PoolInv, Synced
  <2>8. OnThread(c, c.rc, pool')
    <3>1. pool'[Cur.t].stack = s
      BY <1>2, <2>1, <2>3, PoolEdit, Zenon DEF PoolInv
    <3>2. ~pool'[Cur.t].dead
      BY <1>2, <2>5, <2>7 DEF Sound
    <3> QED
      BY <2>2, <2>3, <3>1, <3>2 DEF OnThread
  <2>9. Rests' /\ Cur' = c /\ calls' # << >>
    BY <1>1, <1>2, <1>3, <2>1, <2>2, <2>5, <2>6, <2>8, RestCur, Zenon DEF PoolInv
  <2>10. HandoffInv' /\ ErrorInv' /\ Synced'
    BY <1>1, <1>3, <2>1, <2>5, <2>7 DEF HandoffInv, ErrorInv, Synced
  <2> QED
    BY <2>5, <2>9, <2>10 DEF PoolInv
<1>7. CASE nargs <= Top(Stack) - 1 /\ PcallStarts(rc) /\ mode # "sync"
  <2>1. ses' = Parked(ses, rc) /\ calls' = calls /\ pool' = pool
    BY <1>7 DEF PcallStarts
  <2>2. /\ ses'.handoff = rc /\ ses'.halt = TRUE /\ ses'.fnDone = ses.fnDone
        /\ ses'.error = ses.error /\ ses'.trapped = ses.trapped
    BY <1>3, <2>1 DEF Parked, SesFields
  <2>3. Cur' = Cur
    BY <2>1 DEF Cur
  <2>4. Fresh'
    BY <1>1, <1>2, <1>3, <1>5, <1>7, <2>1, <2>2, <2>3 DEF Fresh, AtPark
  <2>5. HandoffInv'
    BY <1>2, <1>5, <1>7, <2>2, <2>4 DEF HandoffInv, Away
  <2>6. Rests'
    BY <1>1, <2>1, <2>2, <2>3 DEF PoolInv, Rests
  <2>7. PoolShape' /\ Above' /\ ErrorInv' /\ Synced'
    BY <1>1, <1>3, <1>7, <2>1, <2>2 DEF PoolInv, PoolShape, Above, Sound, ErrorInv, Synced
  <2> QED
    BY <2>5, <2>6, <2>7 DEF PoolInv
<1> QED
  BY <1>4, <1>6, <1>7 DEF OpPcall, rc

\* The native half works on its call's own thread only.
LEMMA GuestPool ==
    ASSUME BridgeInv, Nested, PoolInv, GuestSteps
    PROVE  PoolInv'
<1>1. ASSUME NEW op \in {"read", "push", "pop", "next"}, bridge_lua_op(op) PROVE PoolInv'
  BY <1>1, LuaOpPool
<1>2. ASSUME NEW nargs \in 0 .. 1, NEW nres \in {MULTRET, 0, 1}, NEW prot \in BOOLEAN,
             OpPcall(nargs, nres, prot)
      PROVE  PoolInv'
  BY <1>2, PcallPool
<1>3. CASE OpError
  BY <1>3, FailPool DEF OpError, Step
<1>4. CASE OpTraps \/ FnReturn
  <2>1. /\ GuestRuns /\ mode' = mode /\ host' = host /\ calls' = calls /\ pool' = pool
        /\ \/ ses' = [ses EXCEPT !.trapped = TRUE, !.halt = TRUE]
           \/ ses' = [ses EXCEPT !.fnDone = TRUE, !.halt = TRUE]
    BY <1>4 DEF OpTraps, FnReturn, Step
  <2>2. Shape /\ calls # << >> /\ Cur.at = "guest" /\ DOMAIN ses = SesFields /\ ~ses.error
    BY <2>1, Executing DEF BridgeInv
  <2>3. SetCur(Cur) /\ SameCall(Cur)
    BY <2>1, <2>2, SetSame
  <2>4. /\ ses'.pending = ses.pending /\ ses'.handoff = ses.handoff /\ ses'.error = ses.error
        /\ ses'.trapped \/ ses'.fnDone
    BY <2>1, <2>2, Zenon DEF SesFields
  <2>5. EditsOwn
    BY <2>1 DEF EditsOwn
  <2> QED
    BY <2>1, <2>2, <2>3, <2>4, <2>5, OpPool
<1>5. CASE NatHeap
  <2> DEFINE c == [Cur EXCEPT !.done = @ + 1]
  <2>1. GuestRuns /\ mode' = mode /\ host' = host /\ SetCur(c) /\ pool' = pool /\ ses' = ses
    BY <1>5 DEF NatHeap, Step
  <2>2. /\ calls # << >> /\ Cur.at = "guest" /\ DOMAIN Cur = CallFields
        /\ ~ses.halt /\ ~ses.error
    BY <2>1, Executing
  <2>3. SameCall(c) /\ c.at = "guest"
    BY <2>2, DoneFields, Zenon
  <2>4. EditsOwn
    BY <2>1 DEF EditsOwn
  <2> HIDE DEF c
  <2> QED
    BY <2>1, <2>2, <2>3, <2>4, OpPool
<1>6. CASE OpMeta
  <2> DEFINE c == [Cur EXCEPT !.at = "lua", !.rc = [how |-> "meta"]]
  <2>1. /\ GuestRuns /\ BridgeOpen /\ mode' = mode /\ host' = host /\ SetCur(c)
        /\ pool' = pool /\ ses' = ses
    BY <1>6 DEF OpMeta, Step
  <2>2. /\ Shape /\ calls # << >> /\ Cur.at = "guest" /\ DOMAIN Cur = CallFields
        /\ ~ses.halt /\ ~ses.error /\ ~ses.trapped
    BY <2>1, Executing DEF BridgeInv
  <2>3. SameCall(c) /\ c.at = "lua" /\ c.rc = [how |-> "meta"] /\ c.kind = Cur.kind
    <3>1. Moves(c, "lua", [how |-> "meta"])
      BY Zenon DEF Moves
    <3> HIDE DEF c
    <3> QED
      BY <2>2, <3>1, FormFields
  <2>4. Cur.kind = "bridged"
    BY <2>1, OpenBridge DEF PoolInv
  <2> HIDE DEF c
  <2>5. Rests' /\ Cur' = c /\ calls' # << >>
    BY <2>1, <2>2, <2>3, <2>4, RestCur DEF PoolInv
  <2>6. HandoffInv'
    BY <2>1, <2>2, <2>3, <2>5, HandKept DEF PoolInv, Fresh, AtPark
  <2>7. PoolShape' /\ Above' /\ ErrorInv' /\ Synced'
    BY <2>1, <2>2 DEF PoolInv, PoolShape, Above, Sound, ErrorInv, Synced
  <2> QED
    BY <2>5, <2>6, <2>7 DEF PoolInv
<1> QED
  BY <1>1, <1>2, <1>3, <1>4, <1>5, <1>6 DEF GuestSteps

\* The stacks that callbacks leave.
LEMMA EndStacks ==
    ASSUME NEW s \in Seq(Cells), NEW k \in 0 .. 1
    PROVE  /\ Values(k) \in Seq(Cells) /\ Len(Values(k)) = k
           /\ \A n \in Nat : settop(s, n) \in Seq(Cells) /\ Len(settop(s, n)) = n
           /\ \A n \in Nat, i \in 1 .. Len(s) : i <= n => settop(s, n)[i] = s[i]
<1>1. Values(k) \in [1 .. k -> Cells] /\ k \in Nat
  BY DEF Values, Cells
<1>2. Values(k) \in Seq(Cells) /\ Len(Values(k)) = k
  BY <1>1
<1>3. ASSUME NEW n \in Nat
      PROVE  /\ settop(s, n) \in Seq(Cells) /\ Len(settop(s, n)) = n
             /\ \A i \in 1 .. Len(s) : i <= n => settop(s, n)[i] = s[i]
  <2>1. \A i \in 1 .. n : (IF i <= Len(s) THEN s[i] ELSE "nil") \in Cells
    <3>1. "nil" \in Cells
      BY DEF Cells
    <3>2. \A i \in 1 .. n : i <= Len(s) => s[i] \in Cells
      BY ElementOfSeq
    <3> QED
      BY <3>1, <3>2
  <2>2. settop(s, n) \in [1 .. n -> Cells]
    BY <2>1 DEF settop
  <2>3. settop(s, n) \in Seq(Cells) /\ Len(settop(s, n)) = n
    BY <2>2
  <2>4. \A i \in 1 .. Len(s) : i <= n => settop(s, n)[i] = s[i]
    BY DEF settop
  <2> QED
    BY <2>3, <2>4
<1> QED
  BY <1>2, <1>3

\* Finishing a parked call: on its own thread or, after a trap, for the dead
\* thread of a handoff nobody took.
LEMMA FinishPool ==
    ASSUME BridgeInv, Nested, PoolInv, calls # << >>, mode' = mode, host' = host, mode # "sync",
           NEW s, DOMAIN s = SesFields, s.trapped = ses.trapped,
           s.pending => s = ses /\ ~Fresh,
           NEW rc, NEW status \in {"ok", "err"}, NEW stack \in Seq(Cells),
           finish_reverse_call(s, rc, status, stack),
           rc.exch \in Threads, rc.nargs \in 0 .. 1, rc.nres \in {MULTRET, 0, 1}, rc.base \in Nat,
           \/ Away(Cur, rc, mode)
           \/ ses.trapped /\ pool[rc.exch].dead /\ status = "err"
    PROVE  PoolInv'
<1> DEFINE c == IF status = "err" /\ ~rc.prot
                THEN [Cur EXCEPT !.at = "enter", !.rc = rc]
                ELSE [Cur EXCEPT !.at = "enter", !.rc = NoRc, !.done = @ + 1]
           fails == status = "err" /\ ~rc.prot
           left == IF fails THEN stack ELSE Trimmed(rc, stack)
           dies == IF fails THEN TRUE ELSE pool[rc.exch].dead \/ status = "err"
<1>1. Shape /\ DOMAIN Cur = CallFields /\ DOMAIN ses = SesFields
  BY CurFields DEF BridgeInv
<1>2. SetCur(c) /\ pool' = [pool EXCEPT ![rc.exch] = [stack |-> left, dead |-> dies]]
  BY Zenon DEF finish_reverse_call
<1>3. /\ ses'.trapped = s.trapped /\ ses'.pending = s.pending /\ ses'.handoff = s.handoff
      /\ ~fails => ses'.error = rc.frame.error
  <2>1. CASE fails
    <3>1. ses' = [restore_call_frame(s, rc.frame) EXCEPT !.error = TRUE, !.halt = TRUE]
      BY <2>1 DEF finish_reverse_call
    <3>2. /\ ses'.trapped = s.trapped /\ ses'.pending = s.pending /\ ses'.handoff = s.handoff
          /\ ses'.error = TRUE
      BY <3>1 DEF restore_call_frame, SesFields
    <3> QED
      BY <2>1, <3>2
  <2>2. CASE ~fails
    <3>1. ses' = restore_call_frame(s, rc.frame)
      BY <2>2 DEF finish_reverse_call
    <3>2. /\ ses'.trapped = s.trapped /\ ses'.pending = s.pending /\ ses'.handoff = s.handoff
          /\ ses'.error = rc.frame.error
      BY <3>1 DEF restore_call_frame, SesFields
    <3> QED
      BY <2>2, <3>2
  <2> QED
    BY <2>1, <2>2
<1>4. SameCall(c) /\ c.at = "enter" /\ c.t = Cur.t /\ c.kind = Cur.kind /\ (fails => c.rc = rc)
  <2>1. Moves(c, "enter", IF fails THEN rc ELSE NoRc)
    BY Zenon DEF Moves
  <2> HIDE DEF c
  <2>2. /\ SameCall(c) /\ c.at = "enter" /\ c.rc = IF fails THEN rc ELSE NoRc
        /\ c.kind = Cur.kind /\ c.t = Cur.t
    BY <1>1, <2>1, FormFields
  <2> QED
    BY <2>2, Zenon
<1>5. left \in Seq(Cells)
  <2>1. rc.nres # MULTRET => rc.base + rc.nres \in Nat
    OBVIOUS
  <2> QED
    BY <2>1, EndStacks, Zenon DEF Trimmed
<1> HIDE DEF c, left
<1>6. /\ PoolShape'
      /\ \A t \in Threads \ {rc.exch} : pool'[t] = pool[t]
      /\ pool'[rc.exch].dead = dies
  BY <1>2, <1>5, Zenon DEF PoolInv, PoolShape
<1>7. /\ \A t \in Threads : pool[t].dead => pool'[t].dead
      /\ pool[rc.exch].dead \/ status = "err" => ~Sound'
  BY <1>6, Zenon DEF Sound
<1>8. ASSUME NEW i \in 1 .. Len(calls) - 1 PROVE pool'[calls[i].t] = pool[calls[i].t]
  <2>1. /\ i \in 1 .. Len(calls) /\ calls[i].kind = "bridged" /\ calls[i].t \in Threads
        /\ Cur.kind = "bridged" => calls[i].t # Cur.t
    BY <1>1, WaitThread DEF PoolInv
  <2>2. ~pool[calls[i].t].dead
    BY <2>1 DEF PoolInv, Rests, OnThread
  <2>3. calls[i].t # rc.exch
    BY <2>1, <2>2 DEF Away
  <2> QED
    BY <1>6, <2>1, <2>3
<1>9. Rests' /\ Cur' = c /\ calls' # << >>
  BY <1>1, <1>2, <1>4, <1>8, RestCur, Zenon DEF PoolInv, InMeta
<1>10. Above'
  <2> SUFFICES ASSUME Sound', NEW t \in Threads, t > host.depth PROVE pool'[t].stack = << >>
    BY DEF Above
  <2>1. Sound
    BY <1>7 DEF Sound
  <2>2. Away(Cur, rc, mode)
    BY <1>7
  <2>3. rc.exch = host.depth
    BY <1>1, <2>2, OwnThread DEF Away
  <2>4. t \in Threads \ {rc.exch}
    BY <2>3 DEF Threads
  <2> QED
    BY <1>6, <2>1, <2>4 DEF PoolInv, Above
<1>11. HandoffInv'
  <2>1. CASE s.pending
    BY <1>3, <1>4, <1>7, <1>9, <2>1, HandKept, Zenon DEF PoolInv, AtPark
  <2>2. CASE ~s.pending
    BY <1>3, <2>2 DEF HandoffInv
  <2> QED
    BY <2>1, <2>2
<1>12. ErrorInv'
  <2>1. ses'.error => ~Sound'
    BY <1>3, <1>7, Zenon DEF Away
  <2>2. ASSUME ses'.error, ~ses'.trapped
        PROVE  /\ Cur'.kind = "bridged" /\ pool'[Cur'.t].dead
               /\ Cur'.rc.nargs \in 0 .. 1 /\ Cur'.rc.nres \in {MULTRET, 0, 1}
    <3>1. Away(Cur, rc, mode)
      BY <1>3, <2>2
    <3>2. fails /\ rc.exch = Cur.t /\ Cur.kind = "bridged"
      BY <1>3, <2>2, <3>1, Zenon DEF Away
    <3> QED
      BY <1>4, <1>6, <1>9, <3>2, Zenon
  <2> QED
    BY <2>1, <2>2 DEF ErrorInv
<1>13. Synced'
  BY DEF Synced
<1> QED
  BY <1>6, <1>9, <1>10, <1>11, <1>12, <1>13 DEF PoolInv

\* A callback's end leaves the threads of the calls below alone.
LEMMA EndsPool ==
    ASSUME BridgeInv, Nested, PoolInv, NEW status \in {"ok", "err"}, NEW k \in 0 .. 1,
           CallbackEnds(status, k)
    PROVE  PoolInv'
<1> DEFINE rc == Cur.rc
<1>1. calls # << >> /\ host' = host /\ mode' = mode /\ Cur.at = "lua"
  BY DEF CallbackEnds, InCallback
<1>2. Shape /\ DOMAIN Cur = CallFields /\ DOMAIN ses = SesFields
  BY <1>1, CurFields DEF BridgeInv
<1>3. /\ Cur.kind = "bridged"
      /\ rc.how # "meta" => Away(Cur, rc, mode) /\ OnThread(Cur, rc, pool)
      /\ rc.how = "meta" => ~ses.trapped
  <2>1. Len(calls) \in 1 .. Len(calls) /\ Cur = calls[Len(calls)]
    BY <1>1, <1>2, CallsLen
  <2> QED
    BY <1>1, <2>1 DEF PoolInv, Rests, InMeta
<1>4. Cur.t \in Threads /\ pool[Cur.t].stack \in Seq(Cells)
  BY <1>1, <1>2, <1>3, OwnThread DEF PoolInv, PoolShape
<1>5. ~Fresh
  BY <1>1 DEF Fresh, AtPark
<1> HIDE DEF rc
<1>6. ASSUME NEW c, SetCur(c), SameCall(c), c.at = "guest",
             NEW s \in Seq(Cells), pool' = [pool EXCEPT ![Cur.t].stack = s],
             ses'.pending = ses.pending, ses'.handoff = ses.handoff,
             ses'.pending => ~ses'.halt \/ ses'.error, ses'.error => ~ses'.fnDone
      PROVE  PoolInv'
  <2>1. EditsOwn
    BY <1>3, <1>6, Zenon DEF EditsOwn
  <2>2. /\ PoolShape' /\ Above' /\ (Sound' <=> Sound)
        /\ \A t \in Threads : pool'[t].dead = pool[t].dead
        /\ \A i \in 1 .. Len(calls) - 1 : pool'[calls[i].t] = pool[calls[i].t]
    BY <1>1, <1>2, <2>1, ThreadEdit
  <2>3. Rests' /\ Cur' = c /\ calls' # << >>
    BY <1>1, <1>2, <1>6, <2>2, RestCur DEF PoolInv, InMeta
  <2>4. HandoffInv'
    BY <1>5, <1>6, <2>2, <2>3, HandKept DEF PoolInv, AtPark
  <2>5. ErrorInv' /\ Synced'
    BY <1>1, <1>6, <2>2, <2>3 DEF PoolInv, ErrorInv, Synced
  <2> QED
    BY <2>2, <2>3, <2>4, <2>5 DEF PoolInv
<1>7. CASE rc.how = "sync"
  <2> DEFINE below == pool[Cur.t].stack
             res == IF rc.nres = MULTRET THEN Values(k) ELSE settop(Values(k), rc.nres)
             s == IF status = "ok" THEN below \o res ELSE Append(below, "err")
             c == IF status = "err" /\ ~rc.prot
                  THEN [Cur EXCEPT !.at = "guest", !.rc = NoRc]
                  ELSE [Cur EXCEPT !.at = "guest", !.rc = NoRc, !.done = @ + 1]
             r == restore_call_frame(ses, rc.frame)
  <2>1. rc.exch = Cur.t /\ mode = "sync" /\ ~rc.frame.error /\ ~rc.frame.fnDone
        /\ rc.nres \in {MULTRET, 0, 1}
    BY <1>3, <1>7 DEF Away
  <2>2. SyncReturns(status, k)
    BY <1>7 DEF CallbackEnds, rc
  <2>3. SetCur(c) /\ pool' = [pool EXCEPT ![Cur.t].stack = s]
    BY <2>1, <2>2 DEF SyncReturns, rc
  <2>4. ses' = r \/ ses' = [r EXCEPT !.error = TRUE, !.halt = TRUE]
    BY <2>2 DEF SyncReturns, rc
  <2>5. ses'.pending = ses.pending /\ ses'.handoff = ses.handoff /\ ses'.fnDone = rc.frame.fnDone
    BY <1>2, <2>4, Zenon DEF restore_call_frame, SesFields
  <2>6. SameCall(c) /\ c.at = "guest"
    <3>1. Moves(c, "guest", NoRc)
      BY Zenon DEF Moves
    <3> HIDE DEF c
    <3> QED
      BY <1>2, <3>1, FormFields
  <2>7. s \in Seq(Cells)
    <3>1. res \in Seq(Cells)
      <4>1. Values(k) \in Seq(Cells)
        BY <1>4, EndStacks
      <4>2. rc.nres # MULTRET => rc.nres \in Nat
        BY <2>1
      <4> QED
        BY <4>1, <4>2, EndStacks, Zenon
    <3>2. Append(below, "err") \in Seq(Cells)
      BY <1>4, StackForms
    <3> HIDE DEF res
    <3> QED
      BY <1>4, <3>1, <3>2
  <2>8. ~ses'.pending
    BY <2>1, <2>5 DEF PoolInv, Synced
  <2> HIDE DEF c, s
  <2> QED
    BY <1>6, <2>1, <2>3, <2>5, <2>6, <2>7, <2>8, Zenon
<1>8. CASE rc.how = "meta"
  <2> DEFINE ex == pool[Cur.t].stack
             s == IF status = "ok" THEN IF Top(ex) < MaxStack THEN Append(ex, "val") ELSE ex
                  ELSE Append(ex, "err")
             c == IF status = "ok" THEN [Cur EXCEPT !.at = "guest", !.rc = NoRc, !.done = @ + 1]
                  ELSE [Cur EXCEPT !.at = "guest", !.rc = NoRc]
  <2>1. MetaReturns(status)
    BY <1>8 DEF CallbackEnds, rc
  <2>2. SetCur(c) /\ pool' = [pool EXCEPT ![Cur.t].stack = s]
    BY <2>1, Zenon DEF MetaReturns
  <2>3. ses' = ses \/ ses' = [ses EXCEPT !.error = TRUE, !.halt = TRUE]
    BY <2>1 DEF MetaReturns
  <2>4. ~ses.halt /\ ~ses.fnDone
    BY <1>1, <1>3, <1>8 DEF BridgeInv, Current, CurrentOf, InMeta, rc
  <2>5. /\ ses'.pending = ses.pending /\ ses'.handoff = ses.handoff /\ ~ses'.fnDone
        /\ ~ses'.halt \/ ses'.error
    BY <1>2, <2>3, <2>4, Zenon DEF SesFields
  <2>6. SameCall(c) /\ c.at = "guest"
    <3>1. Moves(c, "guest", NoRc)
      BY Zenon DEF Moves
    <3> HIDE DEF c
    <3> QED
      BY <1>2, <3>1, FormFields
  <2>7. s \in Seq(Cells)
    BY <1>4, StackForms
  <2> HIDE DEF c, s
  <2> QED
    BY <1>6, <2>2, <2>5, <2>6, <2>7, Zenon
<1>9. CASE rc.how \notin {"sync", "meta"}
  <2>1. /\ Away(Cur, rc, mode) /\ mode # "sync" /\ rc.exch = Cur.t /\ rc.nargs \in 0 .. 1
        /\ rc.nres \in {MULTRET, 0, 1} /\ rc.base \in Nat
    BY <1>3, <1>9 DEF Away
  <2>2. \E stack \in Seq(Cells) : finish_reverse_call(ses, rc, status, stack)
    <3>1. ParkedReturns(status, k)
      BY <1>9 DEF CallbackEnds, rc
    <3>2. Values(k) \in Seq(Cells)
      BY <1>4, EndStacks
    <3>3. pool[rc.exch].stack \o Values(k) \in Seq(Cells)
      BY <1>4, <2>1, <3>2
    <3>4. <<"err">> \in Seq(Cells) /\ <<"junk", "err">> \in Seq(Cells)
      BY DEF Cells
    <3> QED
      BY <3>1, <3>3, <3>4, Zenon DEF ParkedReturns, rc
  <2> QED
    BY <1>1, <1>2, <1>4, <1>5, <2>1, <2>2, FinishPool
<1> QED
  BY <1>7, <1>8, <1>9

\* A call is made: its caller waits in Lua, and only the next thread is written.
LEMMA PushPool ==
    ASSUME BridgeInv, Nested, PoolInv, MayCall, ~MetaCallsNative, mode' = mode,
           NEW c, calls' = Append(calls, c), c.at = "enter",
           \/ pool' = pool /\ host'.depth = host.depth
           \/ /\ host.depth + 1 \in Threads /\ host'.depth = host.depth + 1
              /\ \E s \in Seq(Cells) : pool' = [pool EXCEPT ![host.depth + 1].stack = s],
           ses'.pending = ses.pending, ses'.handoff = ses.handoff,
           ses'.trapped = ses.trapped, ses'.error => ses.error
    PROVE  PoolInv'
<1> DEFINE n == Len(calls)
<1>1. Shape /\ IsSeq(calls)
  BY DEF BridgeInv, Shape
<1>2. n \in Nat /\ Cur = calls[n] /\ (calls = << >> <=> n = 0)
  BY <1>1, CallsLen
<1>3. Len(calls') = n + 1 /\ calls'[n + 1] = c /\ (\A i \in 1 .. n : calls'[i] = calls[i])
  BY <1>1, Pushed
<1>4. Cur' = c /\ calls' # << >>
  <2>1. calls' # << >>
    BY <1>1, Pushed, Zenon
  <2> QED
    BY <1>3, <2>1 DEF Cur
<1>5. calls # << >> => Cur.at = "lua" /\ Cur.rc.how # "meta"
  BY DEF MayCall, InLua
<1>6. \A i \in 1 .. n : calls[i].at = "lua" /\ calls[i].rc.how # "meta"
  <2> SUFFICES ASSUME NEW i \in 1 .. n PROVE calls[i].at = "lua" /\ calls[i].rc.how # "meta"
    OBVIOUS
  <2>1. CASE i = n
    BY <1>2, <1>5, <2>1
  <2>2. CASE i # n
    BY <1>2, <2>2 DEF PoolInv, Rests
  <2> QED
    BY <2>1, <2>2
<1>7. /\ PoolShape' /\ (\A t \in Threads : pool'[t].dead = pool[t].dead)
      /\ \A t \in Threads : t # host.depth + 1 \/ host'.depth = host.depth => pool'[t] = pool[t]
  <2>1. CASE pool' = pool /\ host'.depth = host.depth
    BY <2>1 DEF PoolInv, PoolShape
  <2>2. CASE /\ host.depth + 1 \in Threads /\ host'.depth = host.depth + 1
             /\ \E s \in Seq(Cells) : pool' = [pool EXCEPT ![host.depth + 1].stack = s]
    <3>1. host.depth # host'.depth
      BY <2>2 DEF Threads
    <3>2. PICK s \in Seq(Cells) : pool' = [pool EXCEPT ![host.depth + 1].stack = s]
      BY <2>2, Zenon
    <3> QED
      BY <2>2, <3>1, <3>2, PoolEdit, Zenon DEF PoolInv
  <2> QED
    BY <2>1, <2>2, Zenon
<1>8. ASSUME NEW i \in 1 .. n PROVE pool'[calls[i].t] = pool[calls[i].t]
  <2>1. calls[i].t \in Threads /\ calls[i].t # host.depth + 1
    <3>1. CASE i = n
      <4>1. calls # << >> /\ Cur.kind = "bridged"
        BY <1>2, <1>6, <3>1 DEF PoolInv, Rests
      <4>2. Cur.t = host.depth /\ Cur.t \in Threads
        BY <1>1, <4>1, OwnThread
      <4> QED
        BY <1>2, <3>1, <4>2 DEF Threads
    <3>2. CASE i # n
      <4>1. i \in 1 .. Len(calls) - 1
        BY <1>2, <3>2
      <4> QED
        BY <1>1, <4>1, WaitThread DEF PoolInv
    <3> QED
      BY <3>1, <3>2
  <2> QED
    BY <1>7, <2>1
<1>9. Rests'
  <2>1. ASSUME NEW i \in 1 .. n + 1, calls'[i].at \in {"lua", "paused"}
        PROVE  /\ calls'[i].kind = "bridged"
               /\ calls'[i].rc.how # "meta" =>
                    Away(calls'[i], calls'[i].rc, mode) /\ OnThread(calls'[i], calls'[i].rc, pool')
    <3>1. i \in 1 .. n
      BY <1>2, <1>3, <2>1
    <3>2. calls'[i] = calls[i] /\ pool'[calls[i].t] = pool[calls[i].t]
      BY <1>3, <1>8, <3>1
    <3> QED
      BY <2>1, <3>1, <3>2 DEF PoolInv, Rests, OnThread
  <2>2. \A i \in 1 .. n : calls'[i].at = "lua" /\ calls'[i].rc.how # "meta"
    BY <1>3, <1>6
  <2>3. \A i \in 1 .. Len(calls') - 1 : calls'[i].at = "lua" /\ calls'[i].rc.how # "meta"
    BY <1>2, <1>3, <2>2
  <2>4. \A i \in 1 .. Len(calls') : i \in 1 .. n + 1
    BY <1>3
  <2>5. \A i \in 1 .. Len(calls') : calls'[i].at \in {"lua", "paused"} =>
            /\ calls'[i].kind = "bridged"
            /\ calls'[i].rc.how # "meta" =>
                   Away(calls'[i], calls'[i].rc, mode') /\ OnThread(calls'[i], calls'[i].rc, pool')
    BY <2>1, <2>4
  <2> QED
    BY <1>4, <2>3, <2>5 DEF Rests
<1>10. HandoffInv'
  <2>1. ~Fresh
    BY <1>5 DEF Fresh, AtPark
  <2> QED
    BY <1>4, <1>7, <2>1, HandKept DEF PoolInv, AtPark
<1>11. Sound' <=> Sound
  BY <1>7 DEF Sound
<1>12. ErrorInv'
  <2>1. ses.error => ~Sound
    BY <1>5 DEF PoolInv, ErrorInv
  <2>2. ses.error => ses.trapped
    BY <1>5 DEF BridgeInv, Current, CurrentOf
  <2> QED
    BY <1>11, <2>1, <2>2 DEF ErrorInv
<1>13. Above'
  <2> SUFFICES ASSUME Sound', NEW t \in Threads, t > host'.depth PROVE pool'[t].stack = << >>
    BY DEF Above
  <2>1. pool'[t] = pool[t] /\ t > host.depth
    <3>1. CASE host'.depth = host.depth
      BY <1>7, <3>1
    <3>2. CASE host.depth + 1 \in Threads /\ host'.depth = host.depth + 1
      <4>1. host.depth \in Nat
        BY <1>1, CallsLen DEF Nested, Levels, Chain, Linked, Up
      <4> QED
        BY <1>7, <3>2, <4>1 DEF Threads
    <3> QED
      BY <3>1, <3>2
  <2> QED
    BY <1>11, <2>1 DEF PoolInv, Above
<1>14. Synced'
  BY <1>11 DEF PoolInv, Synced
<1> QED
  BY <1>7, <1>9, <1>10, <1>12, <1>13, <1>14 DEF PoolInv

\* A call ends and empties its thread; the one below goes on in Lua.
LEMMA PopPool ==
    ASSUME BridgeInv, Nested, PoolInv, calls # << >>, calls' = Callers, host' = PopNesting,
           pool' = Emptied, mode' = mode, ses'.pending = ses.pending, ses'.handoff = ses.handoff,
           ses.pending => ~Fresh, Sound => ~ses'.error
    PROVE  PoolInv'
<1>1. Shape /\ IsSeq(calls) /\ calls' = Cut(calls, Len(calls) - 1) /\ DOMAIN host = HostFields
  BY DEF BridgeInv, Shape, Callers
<1>2. /\ Len(calls) \in Nat \ {0} /\ Len(calls') = Len(calls) - 1
      /\ \A i \in 1 .. Len(calls') : calls'[i] = calls[i]
  <2>1. Len(calls) \in Nat \ {0} /\ Len(calls') = Len(calls) - 1
    BY <1>1, Popped, Zenon
  <2>2. \A i \in 1 .. Len(calls') : calls'[i] = calls[i]
    BY <1>1, Popped
  <2> QED
    BY <2>1, <2>2
<1>3. calls' # << >> => Len(calls') # 0
  BY <1>1, Popped, Zenon
<1>4. calls' # << >> => Cur'.at = "lua" /\ Cur'.rc.how # "meta"
  <2> SUFFICES ASSUME calls' # << >> PROVE Cur'.at = "lua" /\ Cur'.rc.how # "meta"
    OBVIOUS
  <2>1. Len(calls') \in 1 .. Len(calls')
    BY <1>2, <1>3
  <2>2. Cur' = calls[Len(calls')] /\ Len(calls') \in 1 .. Len(calls) - 1
    BY <1>2, <2>1 DEF Cur
  <2> QED
    BY <2>2 DEF PoolInv, Rests
<1>5. EditsOwn
  <2>1. << >> \in Seq(Cells)
    OBVIOUS
  <2> QED
    BY <2>1, Zenon DEF Emptied, EditsOwn
<1>6. /\ PoolShape' /\ (\A t \in Threads : pool'[t].dead = pool[t].dead)
      /\ \A t \in Threads : (Cur.kind = "bridged" /\ t = Cur.t) \/ pool'[t] = pool[t]
      /\ Cur.kind = "bridged" => Cur.t = host.depth /\ Cur.t \in Threads
                                 /\ pool'[Cur.t].stack = << >>
  <2>1. CASE Cur.kind # "bridged"
    BY <2>1 DEF Emptied, PoolInv, PoolShape
  <2>2. CASE Cur.kind = "bridged"
    <3>1. Cur.t = host.depth /\ Cur.t \in Threads
      BY <1>1, <2>2, OwnThread
    <3>2. << >> \in Seq(Cells) /\ pool' = [pool EXCEPT ![Cur.t].stack = << >>]
      BY <2>2 DEF Emptied
    <3>3. /\ PoolShape' /\ pool'[Cur.t].stack = << >>
          /\ \A t \in Threads : pool'[t].dead = pool[t].dead
          /\ \A t \in Threads \ {Cur.t} : pool'[t] = pool[t]
      BY <3>1, <3>2, PoolEdit, Zenon DEF PoolInv
    <3> QED
      BY <2>2, <3>1, <3>3
  <2> QED
    BY <2>1, <2>2
<1>7. Sound' <=> Sound
  BY <1>6 DEF Sound
<1>8. Rests'
  <2>1. ASSUME NEW i \in 1 .. Len(calls')
        PROVE  /\ calls'[i].at = "lua" /\ calls'[i].rc.how # "meta" /\ calls'[i].kind = "bridged"
               /\ Away(calls'[i], calls'[i].rc, mode) /\ OnThread(calls'[i], calls'[i].rc, pool')
    <3>1. i \in 1 .. Len(calls) - 1 /\ i \in 1 .. Len(calls) /\ calls'[i] = calls[i]
      BY <1>2
    <3>2. calls[i].t \in Threads /\ (Cur.kind = "bridged" => calls[i].t # Cur.t)
      BY <1>1, <3>1, WaitThread DEF PoolInv
    <3>3. pool'[calls[i].t] = pool[calls[i].t]
      BY <1>6, <3>2
    <3> QED
      BY <3>1, <3>3 DEF PoolInv, Rests, OnThread
  <2>2. \A i \in 1 .. Len(calls') - 1 : i \in 1 .. Len(calls')
    BY <1>2
  <2> QED
    BY <1>4, <2>1, <2>2 DEF Rests
<1>9. HandoffInv'
  BY <1>4, <1>6, HandKept DEF PoolInv, AtPark
<1>10. ErrorInv'
  BY <1>4, <1>7 DEF ErrorInv
<1>11. Above'
  <2> SUFFICES ASSUME Sound', NEW t \in Threads, t > host'.depth PROVE pool'[t].stack = << >>
    BY DEF Above
  <2>1. host'.depth = IF Cur.kind = "bridged" THEN host.depth - 1 ELSE host.depth
    BY <1>1 DEF PopNesting, HostFields
  <2>2. CASE Cur.kind = "bridged" /\ t = Cur.t
    BY <1>6, <2>2
  <2>3. CASE ~(Cur.kind = "bridged" /\ t = Cur.t)
    <3>1. t > host.depth
      BY <1>6, <2>1, <2>3 DEF Threads
    <3> QED
      BY <1>6, <1>7, <2>3, <3>1 DEF PoolInv, Above
  <2> QED
    BY <2>2, <2>3
<1>12. Synced'
  BY <1>7 DEF PoolInv, Synced
<1> QED
  BY <1>6, <1>8, <1>9, <1>10, <1>11, <1>12 DEF PoolInv

\* A move of the current call that leaves every thread alone.
LEMMA MovePool ==
    ASSUME BridgeInv, Nested, PoolInv, calls # << >>, mode' = mode, host' = host, pool' = pool,
           NEW a, SetCur([Cur EXCEPT !.at = a]), a \in {"enter", "guest", "lua", "paused"},
           ses'.pending = ses.pending, ses'.handoff = ses.handoff, ses'.trapped = ses.trapped,
           ses.pending => ~Fresh, a = "guest" => ~ses'.halt,
           a \in {"lua", "paused"} => Cur.at \in {"lua", "paused"},
           Sound => ~ses'.error, a = "enter" => ~ses'.error \/ ses'.trapped
    PROVE  PoolInv'
<1> DEFINE c == [Cur EXCEPT !.at = a]
<1>1. Shape /\ DOMAIN Cur = CallFields
  BY CurFields DEF BridgeInv
<1>2. SameCall(c) /\ c.at = a /\ c.rc = Cur.rc /\ c.kind = Cur.kind /\ c.t = Cur.t
  BY <1>1, PlaceFields, Zenon
<1>3. SetCur(c)
  OBVIOUS
<1> HIDE DEF c
<1>4. EditsOwn
  BY DEF EditsOwn
<1>5. /\ PoolShape' /\ Above' /\ (Sound' <=> Sound)
      /\ \A t \in Threads : pool'[t].dead = pool[t].dead
      /\ \A i \in 1 .. Len(calls) - 1 : pool'[calls[i].t] = pool[calls[i].t]
  BY <1>1, <1>4, ThreadEdit
<1>6. Cur.at \in {"lua", "paused"} =>
          /\ Cur.kind = "bridged"
          /\ Cur.rc.how # "meta" => Away(Cur, Cur.rc, mode) /\ OnThread(Cur, Cur.rc, pool)
          /\ Cur.rc.how = "meta" => ~ses.trapped
  <2>1. Len(calls) \in 1 .. Len(calls) /\ Cur = calls[Len(calls)]
    BY <1>1, CallsLen
  <2> QED
    BY <2>1 DEF PoolInv, Rests
<1>7. Rests' /\ Cur' = c /\ calls' # << >>
  <2>1. c.at \in {"lua", "paused"} =>
            /\ c.kind = "bridged"
            /\ c.rc.how # "meta" => Away(c, c.rc, mode) /\ OnThread(c, c.rc, pool')
            /\ c.rc.how = "meta" => ~ses'.trapped
    BY <1>2, <1>6 DEF Away, OnThread
  <2> QED
    BY <1>1, <1>2, <1>3, <1>5, <2>1, RestCur, Zenon DEF PoolInv
<1>8. HandoffInv'
  BY <1>2, <1>5, <1>7, HandKept DEF PoolInv, AtPark
<1>9. ErrorInv' /\ Synced'
  BY <1>2, <1>5, <1>7 DEF PoolInv, ErrorInv, Synced
<1> QED
  BY <1>5, <1>7, <1>8, <1>9 DEF PoolInv

\* What run_frame's results say of the machine.
LEMMA OutcomeSays ==
    ASSUME RunFrameReturns
    PROVE  /\ calls # << >> /\ Cur.at \in {"guest", "enter"} /\ (Cur.at = "enter" => ses.trapped)
           /\ Cur.at = "guest" /\ ~ses.trapped => ses.halt
           /\ Outcome = "FN_DONE" => Cur.at = "guest" /\ ses.fnDone
           /\ Outcome = "FN_ERROR" => ses.error
           /\ Outcome = "REVERSE_CALL_PENDING" =>
                  ses.pending /\ (Cur.at = "guest" => ~ses.fnDone /\ ~ses.error)
           /\ Outcome = "OK" =>
                  Cur.at = "guest" /\ ~ses.trapped /\ ~ses.error /\ ~ses.fnDone /\ ~ses.pending
           /\ Outcome = "ERR_ECALL_TRAP" => ses.trapped /\ (Cur.at = "guest" => ~ses.error)
<1>1. calls # << >> /\ Cur.at \in {"guest", "enter"} /\ (Cur.at = "enter" => ses.trapped)
      /\ (Cur.at = "guest" /\ ~ses.trapped => ses.halt)
  BY DEF RunFrameReturns
<1>2. CASE Cur.at = "guest" /\ ses.fnDone
  <2>1. Outcome = "FN_DONE"
    BY <1>2 DEF Outcome
  <2> QED
    BY <1>1, <1>2, <2>1
<1>3. CASE Cur.at = "guest" /\ ~ses.fnDone /\ ses.error
  <2>1. Outcome = "FN_ERROR"
    BY <1>3 DEF Outcome
  <2> QED
    BY <1>1, <1>3, <2>1
<1>4. CASE ~(Cur.at = "guest" /\ (ses.fnDone \/ ses.error)) /\ ses.pending
  <2>1. Outcome = "REVERSE_CALL_PENDING"
    BY <1>4 DEF Outcome
  <2> QED
    BY <1>1, <1>4, <2>1
<1>5. CASE Cur.at # "guest" /\ ~ses.pending /\ ses.error
  <2>1. Outcome = "FN_ERROR"
    BY <1>5 DEF Outcome
  <2> QED
    BY <1>1, <1>5, <2>1
<1>6. CASE /\ ~(Cur.at = "guest" /\ (ses.fnDone \/ ses.error)) /\ ~ses.pending
           /\ ~(Cur.at # "guest" /\ ses.error)
  <2>1. Outcome = IF ses.trapped THEN "ERR_ECALL_TRAP" ELSE "OK"
    BY <1>6 DEF Outcome
  <2> QED
    BY <1>1, <1>6, <2>1
<1> QED
  BY <1>2, <1>3, <1>4, <1>5, <1>6

\* A handoff is taken: the callback starts on its call's thread, or fails at once
\* on a dead one.
LEMMA TakePool ==
    ASSUME BridgeInv, Nested, PoolInv, TakeReverseCall
    PROVE  PoolInv'
<1> DEFINE rc == ses.handoff
           ex == pool[rc.exch].stack
           take == reverse_call_take
<1>1. /\ RunFrameReturns /\ Outcome = "REVERSE_CALL_PENDING" /\ Cur.kind = "bridged"
      /\ mode' = mode /\ host' = host
  BY DEF TakeReverseCall
<1>2. /\ calls # << >> /\ ses.pending /\ Cur.at \in {"guest", "enter"}
      /\ Cur.at = "enter" => ses.trapped
      /\ Cur.at = "guest" => ~ses.fnDone /\ ~ses.error
      /\ Cur.at = "guest" /\ ~ses.trapped => ses.halt
  BY <1>1, OutcomeSays
<1>3. Shape /\ DOMAIN Cur = CallFields /\ DOMAIN ses = SesFields
  BY <1>2, CurFields DEF BridgeInv
<1>4. /\ rc.nargs \in 0 .. 1 /\ rc.nres \in {MULTRET, 0, 1} /\ rc.base \in Nat /\ rc.exch \in Threads
      /\ pool[rc.exch].dead \/ Fresh
      /\ AtPark(ses, Cur) => Fresh
  BY <1>2 DEF PoolInv, HandoffInv
<1>5. ~ses.trapped => Fresh
  BY <1>2, <1>4 DEF AtPark
<1>6. mode # "sync"
  BY <1>2 DEF PoolInv, Synced
<1>7. /\ DOMAIN take = SesFields /\ take.trapped = ses.trapped /\ take.error = ses.error
      /\ ~take.pending
  BY <1>3 DEF reverse_call_take, SesFields
<1>8. ex \in Seq(Cells)
  BY <1>4, Zenon DEF PoolInv, PoolShape
<1> HIDE DEF rc, ex, take
<1>9. CASE pool[rc.exch].dead
  <2> DEFINE stack == Append(Cut(ex, Top(ex) - rc.nargs), "err")
  <2>1. finish_reverse_call(take, rc, "err", stack)
    BY <1>9 DEF TakeReverseCall, rc, ex, take
  <2>2. stack \in Seq(Cells)
    <3> DEFINE n == Len(ex) - rc.nargs
    <3>1. n \in Int /\ n <= Len(ex)
      BY <1>4, <1>8
    <3>2. \A i \in 1 .. n : ex[i] \in Cells
      <4>1. \A i \in 1 .. n : i \in 1 .. Len(ex)
        BY <1>8, <3>1
      <4> QED
        BY <1>8, <4>1, ElementOfSeq
    <3> HIDE DEF n
    <3>3. SubSeq(ex, 1, n) \in Seq(Cells)
      BY <3>1, <3>2, SubSeqProperties
    <3>4. stack = Append(SubSeq(ex, 1, n), "err")
      BY DEF n, Cut, Top
    <3> QED
      BY <3>3, <3>4, StackForms, Zenon
  <2> HIDE DEF stack
  <2>3. Away(Cur, rc, mode) \/ (ses.trapped /\ pool[rc.exch].dead)
    BY <1>5, <1>9 DEF Fresh, rc
  <2> QED
    BY <1>1, <1>2, <1>4, <1>6, <1>7, <2>1, <2>2, <2>3, FinishPool
<1>10. CASE ~pool[rc.exch].dead
  <2> DEFINE c == [Cur EXCEPT !.at = "lua", !.rc = rc]
             s == Cut(ex, rc.base)
  <2>1. /\ ses' = take /\ SetCur(c)
        /\ pool' = [pool EXCEPT ![rc.exch].stack = Cut(@, rc.base)]
    BY <1>10 DEF TakeReverseCall, rc, take
  <2>2. Away(Cur, rc, mode) /\ rc.base <= Len(pool[Cur.t].stack) /\ AtPark(ses, Cur)
    BY <1>4, <1>10 DEF Fresh, rc
  <2>3. rc.exch = Cur.t /\ ex = pool[Cur.t].stack /\ rc.how # "meta" /\ ~ses.trapped /\ ~ses.error
    BY <1>3, <2>2 DEF Away, AtPark, ex, Shape
  <2>4. pool' = [pool EXCEPT ![Cur.t].stack = s]
    BY <1>4, <2>1, <2>3 DEF PoolInv, PoolShape
  <2>5. s \in Seq(Cells) /\ Len(s) = rc.base
    <3>1. rc.base \in 0 .. Len(ex)
      BY <1>4, <1>8, <2>2, <2>3
    <3> QED
      BY <1>8, <3>1, StackForms
  <2>6. SameCall(c) /\ c.at = "lua" /\ c.rc = rc /\ c.kind = Cur.kind /\ c.t = Cur.t
    <3>1. Moves(c, "lua", rc)
      BY Zenon DEF Moves
    <3> HIDE DEF c
    <3> QED
      BY <1>3, <3>1, FormFields
  <2> HIDE DEF c, s
  <2>7. EditsOwn
    BY <1>1, <2>4, <2>5, Zenon DEF EditsOwn
  <2>8. /\ PoolShape' /\ Above' /\ (Sound' <=> Sound)
        /\ \A t \in Threads : pool'[t].dead = pool[t].dead
        /\ \A i \in 1 .. Len(calls) - 1 : pool'[calls[i].t] = pool[calls[i].t]
    BY <1>1, <1>2, <1>3, <2>7, ThreadEdit
  <2>9. Away(c, c.rc, mode) /\ OnThread(c, c.rc, pool')
    <3>1. pool'[Cur.t].stack = s
      BY <1>4, <2>3, <2>4, <2>5, PoolEdit, Zenon DEF PoolInv
    <3>2. ~pool'[Cur.t].dead
      BY <1>4, <1>10, <2>3, <2>8
    <3> QED
      BY <2>2, <2>5, <2>6, <3>1, <3>2 DEF Away, OnThread
  <2>10. Rests' /\ Cur' = c /\ calls' # << >>
    BY <1>1, <1>2, <1>3, <2>1, <2>3, <2>6, <2>8, <2>9, RestCur, Zenon DEF PoolInv
  <2>11. HandoffInv' /\ ErrorInv' /\ Synced'
    BY <1>1, <1>6, <1>7, <2>1, <2>3 DEF HandoffInv, ErrorInv, Synced
  <2> QED
    BY <2>8, <2>10, <2>11 DEF PoolInv
<1> QED
  BY <1>9, <1>10

\* An op that runs a second time works on a thread that is dead already.
LEMMA ReexecutePool ==
    ASSUME BridgeInv, Nested, PoolInv, Reexecute
    PROVE  PoolInv'
<1> DEFINE rc == Cur.rc
           c == [Cur EXCEPT !.at = "guest"]
           new == ReverseCall(rc.nargs, rc.nres, rc.prot)
<1>1. /\ calls # << >> /\ Cur.at = "enter" /\ ses.error /\ ~ses.trapped /\ SetCur(c)
      /\ mode' = mode /\ host' = host
  BY DEF Reexecute
<1>2. Shape /\ DOMAIN Cur = CallFields /\ DOMAIN ses = SesFields
  BY <1>1, CurFields DEF BridgeInv
<1>3. /\ Cur.kind = "bridged" /\ pool[Cur.t].dead
      /\ rc.nargs \in 0 .. 1 /\ rc.nres \in {MULTRET, 0, 1}
  BY <1>1 DEF PoolInv, ErrorInv
<1>4. Cur.t \in Threads /\ ses.exch = Cur.t
  BY <1>1, <1>2, <1>3, OwnThread
<1>5. Stack = pool[Cur.t].stack /\ Stack \in Seq(Cells) /\ Len(Stack) \in Nat
  BY <1>4 DEF Stack, PoolInv, PoolShape
<1>6. SameCall(c) /\ c.at = "guest"
  BY <1>2, PlaceFields, Zenon
<1>7. ~Sound /\ mode # "sync"
  BY <1>3, <1>4, Zenon DEF Sound, PoolInv, Synced
<1>8. /\ new.nargs = rc.nargs /\ new.nres = rc.nres /\ new.exch = Cur.t
      /\ rc.nargs <= Top(Stack) - 1 => new.base \in Nat
  BY <1>3, <1>4, <1>5 DEF ReverseCall, Top
<1> HIDE DEF c, rc, new
<1>9. \/ ses' = [Parked(ses, new) EXCEPT !.fnDone = FALSE] /\ pool' = pool
         /\ rc.nargs <= Top(Stack) - 1
      \/ /\ ses' = [ses EXCEPT !.halt = TRUE, !.fnDone = FALSE]
         /\ pool' = WithStack(Append(Stack, "err"))
  BY DEF Reexecute, rc, new
<1>10. EditsOwn
  BY <1>3, <1>4, <1>5, <1>9, StackForms, Zenon DEF EditsOwn, WithStack
<1>11. /\ PoolShape' /\ Above' /\ (Sound' <=> Sound)
       /\ \A t \in Threads : pool'[t].dead = pool[t].dead
       /\ \A i \in 1 .. Len(calls) - 1 : pool'[calls[i].t] = pool[calls[i].t]
  BY <1>1, <1>2, <1>10, ThreadEdit
<1>12. Rests' /\ Cur' = c /\ calls' # << >>
  BY <1>1, <1>2, <1>6, <1>11, RestCur DEF PoolInv
<1>13. ses'.error
  BY <1>1, <1>2, <1>9, Zenon DEF Parked, SesFields
<1>14. HandoffInv'
  <2>1. CASE ses' = [Parked(ses, new) EXCEPT !.fnDone = FALSE] /\ rc.nargs <= Top(Stack) - 1
    <3>1. ses'.handoff = new
      BY <1>2, <2>1 DEF Parked, SesFields
    <3>2. pool'[Cur.t].dead
      BY <1>3, <1>4, <1>11
    <3> QED
      BY <1>3, <1>4, <1>8, <1>13, <2>1, <3>1, <3>2 DEF HandoffInv, AtPark
  <2>2. CASE ses' = [ses EXCEPT !.halt = TRUE, !.fnDone = FALSE]
    <3>1. ses'.pending = ses.pending /\ ses'.handoff = ses.handoff
      BY <1>2, <2>2 DEF SesFields
    <3>2. ~Fresh
      BY <1>1 DEF Fresh, AtPark
    <3> QED
      BY <1>11, <1>13, <3>1, <3>2, HandKept DEF PoolInv, AtPark
  <2> QED
    BY <1>9, <2>1, <2>2
<1>15. ErrorInv' /\ Synced'
  BY <1>1, <1>6, <1>7, <1>11, <1>12 DEF ErrorInv, Synced
<1> QED
  BY <1>11, <1>12, <1>14, <1>15 DEF PoolInv

\* The drive loops keep what is known of the threads.
LEMMA DrivesPool ==
    ASSUME BridgeInv, Nested, PoolInv, Drives
    PROVE  PoolInv'
<1>0. DOMAIN ses = SesFields
  BY DEF BridgeInv, Shape
<1>1. CASE Enter
  <2>1. /\ calls # << >> /\ Cur.at = "enter" /\ ~ses.trapped /\ ~ses.error
        /\ ses' = [ses EXCEPT !.fnDone = FALSE, !.halt = FALSE]
        /\ SetCur([Cur EXCEPT !.at = "guest"]) /\ mode' = mode /\ host' = host /\ pool' = pool
    BY <1>1 DEF Enter
  <2>2. /\ ses'.pending = ses.pending /\ ses'.handoff = ses.handoff /\ ses'.trapped = ses.trapped
        /\ ses'.error = ses.error /\ ~ses'.halt
    BY <1>0, <2>1 DEF SesFields
  <2>3. ~Fresh
    BY <2>1 DEF Fresh, AtPark
  <2> QED
    BY <2>1, <2>2, <2>3, MovePool
<1>2. CASE CallContinues
  <2>1. /\ RunFrameReturns
        /\ Outcome = "OK" \/ (Outcome = "REVERSE_CALL_PENDING" /\ Cur.kind = "typed")
        /\ SetCur([Cur EXCEPT !.at = "enter"]) /\ mode' = mode /\ host' = host /\ pool' = pool
        /\ ses' = ses
    BY <1>2 DEF CallContinues
  <2>2. /\ calls # << >> /\ Cur.at \in {"guest", "enter"} /\ (Cur.at = "enter" => ses.trapped)
        /\ Outcome = "OK" => Cur.at = "guest" /\ ~ses.error /\ ~ses.pending
        /\ Outcome = "REVERSE_CALL_PENDING" => (Cur.at = "guest" => ~ses.error)
    BY <2>1, OutcomeSays
  <2>3. ses.pending => ~Fresh
    BY <2>1, <2>2 DEF Fresh, Away
  <2>4. Sound => ~ses.error
    BY <2>1, <2>2 DEF PoolInv, ErrorInv
  <2> QED
    BY <2>1, <2>2, <2>3, <2>4, MovePool
<1>3. CASE Reexecute
  BY <1>3, ReexecutePool
<1>4. CASE TakeReverseCall
  BY <1>4, TakePool
<1>5. CASE CallDone \/ CallFails \/ CallTraps
  <2>1. /\ RunFrameReturns /\ calls' = Callers /\ host' = PopNesting /\ pool' = Emptied
        /\ mode' = mode
        /\ Outcome \in {"FN_DONE", "FN_ERROR", "ERR_ECALL_TRAP"}
        /\ \/ Outcome = "FN_DONE" /\ ses' = Attach([ses EXCEPT !.active = FALSE])
           \/ ses' = Attach(bridge_error_unwind(ses)) /\ Outcome = "FN_ERROR"
           \/ ses' = Attach(ses) /\ Outcome = "ERR_ECALL_TRAP"
    BY <1>5 DEF CallDone, CallFails, CallTraps
  <2>2. /\ ses'.pending = ses.pending /\ ses'.handoff = ses.handoff
        /\ Outcome = "FN_ERROR" => ses'.error = FALSE
        /\ Outcome # "FN_ERROR" => ses'.error = ses.error
    BY <1>0, <2>1, Zenon DEF Attach, bridge_error_unwind, SesFields
  <2>3. /\ calls # << >> /\ Cur.at \in {"guest", "enter"}
        /\ Outcome = "FN_DONE" => Cur.at = "guest" /\ ses.fnDone
        /\ Outcome = "FN_ERROR" => ses.error
        /\ Outcome = "ERR_ECALL_TRAP" => ses.trapped /\ (Cur.at = "guest" => ~ses.error)
    BY <2>1, OutcomeSays
  <2>4. ~Fresh
    BY <2>1, <2>3 DEF Fresh, AtPark
  <2>5. Sound => ~ses'.error
    BY <2>1, <2>2, <2>3 DEF PoolInv, ErrorInv
  <2> QED
    BY <2>1, <2>2, <2>3, <2>4, <2>5, PopPool
<1> QED
  BY <1>1, <1>2, <1>3, <1>4, <1>5 DEF Drives

\* Every step keeps what is known of the exchange threads.
LEMMA PoolStep ==
    ASSUME BridgeInv, Nested, PoolInv, ~MetaCallsNative, [Next]_vars
    PROVE  PoolInv'
<1>0. Shape /\ DOMAIN ses = SesFields /\ DOMAIN host = HostFields
  BY DEF BridgeInv, Shape
<1>1. ASSUME UNCHANGED <<calls, ses, host, mode, pool>> PROVE PoolInv'
  BY <1>1 DEF PoolInv, PoolShape, Rests, HandoffInv, Fresh, ErrorInv, Above, Sound, Synced, Cur
<1>2. CASE typed_trampoline
  <2> DEFINE c == NewCall("typed", host.exch)
  <2>1. /\ MayCall /\ calls' = Append(calls, c) /\ c.at = "enter" /\ mode' = mode /\ pool' = pool
        /\ ses' = begin_fn_call(ses) /\ host' = [host EXCEPT !.count = @ + 1]
    BY <1>2 DEF typed_trampoline, NewCall
  <2>2. /\ ses'.pending = ses.pending /\ ses'.handoff = ses.handoff /\ ses'.trapped = ses.trapped
        /\ ses'.error = ses.error /\ host'.depth = host.depth
    BY <1>0, <2>1 DEF begin_fn_call, SesFields, HostFields
  <2> HIDE DEF c
  <2> QED
    BY <2>1, <2>2, PushPool
<1>3. ASSUME NEW n \in 0 .. 1, bridged_trampoline(n) PROVE PoolInv'
  <2> DEFINE t == host.depth + 1
             c == NewCall("bridged", t)
             s == [i \in 1 .. n |-> "arg"]
  <2>1. CASE UNCHANGED <<calls, ses, host, mode, pool>>
    BY <1>1, <2>1
  <2>2. CASE /\ MayCall /\ host.depth < Depth /\ calls' = Append(calls, c) /\ mode' = mode
             /\ pool' = [pool EXCEPT ![t].stack = s]
             /\ ses' = [begin_bridged_call(ses) EXCEPT !.exch = t]
             /\ host' = [depth |-> t, exch |-> t, base |-> host.base + 1, count |-> host.count + 1]
    <3>1. /\ ses'.pending = ses.pending /\ ses'.handoff = ses.handoff
          /\ ses'.trapped = ses.trapped /\ ses'.error = FALSE /\ host'.depth = t
      BY <1>0, <2>2 DEF begin_bridged_call, begin_fn_call, SesFields
    <3>2. s \in Seq(Cells)
      <4>1. s \in [1 .. n -> Cells] /\ n \in Nat
        BY DEF Cells
      <4> QED
        BY <4>1
    <3>3. t \in Threads
      <4>1. host.depth \in Nat /\ Depth \in Nat
        BY <1>0, CallsLen, BridgeAssumption DEF Nested, Levels, Chain, Linked, Up
      <4> QED
        BY <2>2, <4>1 DEF Threads
    <3>4. c.at = "enter"
      BY DEF NewCall
    <3> HIDE DEF c, s
    <3> QED
      BY <2>2, <3>1, <3>2, <3>3, <3>4, PushPool, Zenon
  <2> QED
    BY <1>3, <2>1, <2>2 DEF bridged_trampoline
<1>4. CASE LuaSteps
  BY <1>1, <1>2, <1>3, <1>4 DEF LuaSteps, LuaHeap, LuaCatches
<1>5. CASE Ends
  BY <1>5, EndsPool DEF Ends
<1>6. CASE GuestSteps
  BY <1>6, GuestPool
<1>7. CASE Drives
  BY <1>7, DrivesPool
<1>8. CASE Pause \/ Resume
  <2>1. /\ calls # << >> /\ Cur.at \in {"lua", "paused"} /\ mode' = mode /\ host' = host
        /\ pool' = pool /\ ses' = ses
        /\ \E a \in {"lua", "paused"} : SetCur([Cur EXCEPT !.at = a])
    BY <1>8 DEF Pause, Resume, InCallback
  <2>2. ~Fresh
    BY <2>1 DEF Fresh, AtPark
  <2>3. Sound => ~ses.error
    BY <2>1 DEF PoolInv, ErrorInv
  <2> QED
    BY <2>1, <2>2, <2>3, MovePool
<1>9. CASE UNCHANGED vars
  BY <1>1, <1>9 DEF vars
<1> QED
  BY <1>4, <1>5, <1>6, <1>7, <1>8, <1>9 DEF Next

\* Before the first call every thread is empty and alive.
LEMMA PoolInit == Init => PoolInv
<1> SUFFICES ASSUME Init PROVE PoolInv
  OBVIOUS
<1>1. /\ Len(calls) = 0 /\ calls = << >> /\ ~ses.error /\ ~ses.pending
      /\ DOMAIN pool = Threads
      /\ \A t \in Threads : pool[t] = [stack |-> << >>, dead |-> FALSE]
  BY DEF Init
<1>2. << >> \in Seq(Cells)
  OBVIOUS
<1>3. ASSUME NEW t \in Threads
      PROVE  /\ DOMAIN pool[t] = {"stack", "dead"} /\ pool[t].stack \in Seq(Cells)
             /\ ~pool[t].dead /\ pool[t].stack = << >>
  <2>1. pool[t] = [stack |-> << >>, dead |-> FALSE]
    BY <1>1
  <2>2. DOMAIN pool[t] = {"stack", "dead"} /\ pool[t].stack = << >> /\ pool[t].dead = FALSE
    BY <2>1
  <2> QED
    BY <1>2, <2>2
<1>4. PoolShape
  BY <1>1, <1>3 DEF PoolShape
<1> QED
  BY <1>1, <1>3, <1>4 DEF PoolInv, Rests, HandoffInv, ErrorInv, Above, Sound, Synced

\* The bookkeeping of nested calls balances on every way out of a native call,
\* with and without a debugger, however deep Lua and native code call each other
\* (hl_bridged_trampoline, wasm_bridged_drive).
THEOREM NestingAlwaysBalanced ==
    ASSUME ~MetaCallsNative
    PROVE  Spec => []NestingBalanced
<1>1. Init => BridgeInv /\ Nested /\ PoolInv
  BY InitBridge, NestInit, PoolInit
<1>2. BridgeInv /\ Nested /\ PoolInv /\ [Next]_vars => (BridgeInv /\ Nested /\ PoolInv)'
  BY BridgeStep, NestStep, PoolStep
<1>3. BridgeInv /\ Nested /\ PoolInv => NestingBalanced
  <2> SUFFICES ASSUME BridgeInv, Nested, PoolInv PROVE NestingBalanced
    OBVIOUS
  <2> DEFINE n == Len(calls)
  <2>1. n \in Nat /\ Cur = calls[n]
    BY CallsLen DEF BridgeInv
  <2>2. /\ host.depth = Cardinality(Bridged) /\ host.base = host.depth /\ ses.exch = host.exch
        /\ n = 0 => host.exch = 1
        /\ n # 0 => host.exch = calls[n].t /\ ThreadAt(calls, n)
    BY <2>1 DEF Nested, Counted, Levels, Innermost
  <2>3. Bridged = {} => host.exch = 1
    BY <2>1, <2>2 DEF Bridged, ThreadAt
  <2>4. ASSUME NEW i \in Bridged, \A j \in Bridged : j <= i PROVE host.exch = calls[i].t
    <3>1. i \in 1 .. n /\ calls[i].kind = "bridged"
      BY DEF Bridged
    <3>2. \A j \in i + 1 .. n : calls[j].kind # "bridged"
      BY <2>1, <2>4, <3>1 DEF Bridged
    <3> QED
      BY <2>1, <2>2, <3>1, <3>2 DEF ThreadAt
  <2> QED
    BY <2>2, <2>3, <2>4 DEF NestingBalanced, Bridged, PoolInv, Above
<1> QED
  BY <1>1, <1>2, <1>3, PTL DEF Spec

\* What is on top of a stack leaves what is below it.
LEMMA CutBelow ==
    ASSUME NEW below \in Seq(Cells), NEW now \in Seq(Cells), Len(below) <= Len(now),
           \A i \in 1 .. Len(below) : now[i] = below[i]
    PROVE  Cut(now, Len(below)) = below
<1> DEFINE n == Len(below)
<1>1. n \in Nat /\ (\A i \in 1 .. n : now[i] \in Cells)
  BY ElementOfSeq
<1>2. /\ SubSeq(now, 1, n) \in Seq(Cells)
      /\ Len(SubSeq(now, 1, n)) = IF 1 <= n THEN n - 1 + 1 ELSE 0
      /\ \A i \in 1 .. n - 1 + 1 : SubSeq(now, 1, n)[i] = now[1 + i - 1]
  <2> HIDE DEF n
  <2> QED
    BY <1>1, SubSeqProperties
<1>3. Len(SubSeq(now, 1, n)) = n /\ (\A i \in 1 .. n : SubSeq(now, 1, n)[i] = below[i])
  BY <1>1, <1>2
<1>4. SubSeq(now, 1, n) = below
  BY <1>2, <1>3, SeqEqual
<1> QED
  BY <1>4 DEF Cut

\* One callback's end keeps the promise of lua_pcall.
LEMMA PcallStep ==
    ASSUME BridgeInv, Nested, PoolInv, NEW status \in {"ok", "err"}, NEW k \in 0 .. 1,
           CallbackEnds(status, k), Cur.rc.how # "meta", ~ses'.error,
           mode = "sync" \/ cpu'.st = "ok"
    PROVE  PcallReturns(Cur.rc)
<1> DEFINE rc == Cur.rc
           below == pool[Cur.t].stack
           now == pool'[Cur.t].stack
<1>1. calls # << >> /\ Cur.at = "lua"
  BY DEF CallbackEnds, InCallback
<1>2. Shape /\ DOMAIN Cur = CallFields /\ DOMAIN ses = SesFields
  BY <1>1, CurFields, Zenon DEF BridgeInv
<1>3. Away(Cur, rc, mode) /\ OnThread(Cur, rc, pool) /\ Cur.kind = "bridged"
  <2>1. Len(calls) \in 1 .. Len(calls) /\ Cur = calls[Len(calls)]
    BY <1>1, <1>2, CallsLen
  <2> QED
    BY <1>1, <2>1 DEF PoolInv, Rests
<1>4. /\ rc.how = mode /\ rc.exch = Cur.t /\ rc.nres \in {MULTRET, 0, 1} /\ rc.base = Len(below)
      /\ DOMAIN rc.frame.regs = RegFields /\ rc.base \in Nat
  BY <1>3 DEF Away, OnThread
<1>5. Cur.t \in Threads /\ below \in Seq(Cells)
  BY <1>1, <1>2, <1>3, OwnThread DEF PoolInv, PoolShape
<1>6. Values(k) \in Seq(Cells) /\ Len(Values(k)) = k
  BY <1>5, EndStacks, Zenon
<1>7. rc.nres # MULTRET => rc.nres \in Nat /\ rc.nres # -1
  BY <1>4 DEF MULTRET
<1>8. DOMAIN pool = Threads /\ DOMAIN pool[Cur.t] = {"stack", "dead"}
  BY <1>5 DEF PoolInv, PoolShape
<1> HIDE DEF rc
<1>9. CASE rc.how = "sync"
  <2> DEFINE res == IF rc.nres = MULTRET THEN Values(k) ELSE settop(Values(k), rc.nres)
  <2>1. SyncReturns(status, k)
    BY <1>9 DEF CallbackEnds, rc
  <2>2. ~(status = "err" /\ ~rc.prot)
    <3>1. DOMAIN restore_call_frame(ses, rc.frame) = SesFields
      BY <1>2 DEF restore_call_frame
    <3> QED
      BY <2>1, <3>1, Zenon DEF SyncReturns, rc, SesFields
  <2>3. cpu' = [rc.frame.regs EXCEPT !.pc = @ + 1, !.st = status]
    BY <2>1, <2>2 DEF SyncReturns, rc
  <2>4. cpu'.st = status
    BY <1>4, <2>3 DEF RegFields
  <2>5. pool' = [pool EXCEPT ![Cur.t].stack = IF status = "ok" THEN below \o res ELSE Append(below, "err")]
    BY <1>4, <2>1 DEF SyncReturns, rc
  <2>6. res \in Seq(Cells) /\ (rc.nres # MULTRET => Len(res) = rc.nres)
    BY <1>6, <1>7, EndStacks, Zenon
  <2> HIDE DEF res
  <2>7. now = IF status = "ok" THEN below \o res ELSE Append(below, "err")
    BY <1>5, <1>8, <2>5
  <2>8. CASE status = "ok"
    <3>1. /\ below \o res \in Seq(Cells) /\ Len(below \o res) = Len(below) + Len(res)
          /\ \A i \in 1 .. Len(below) : (below \o res)[i] = below[i]
      BY <1>5, <2>6
    <3>2. Cut(below \o res, Len(below)) = below
      <4>1. Len(below) <= Len(below \o res)
        BY <1>5, <2>6, <3>1
      <4> QED
        BY <1>5, <3>1, <4>1, CutBelow, Zenon
    <3> QED
      BY <1>4, <2>4, <2>6, <2>7, <2>8, <3>1, <3>2 DEF PcallReturns, rc
  <2>9. CASE status = "err"
    <3> DEFINE s == Append(below, "err")
    <3>1. s \in Seq(Cells)
      BY <1>5, StackForms
    <3>2. Len(below) <= Len(s) /\ (\A i \in 1 .. Len(below) : s[i] = below[i])
      BY <1>5
    <3>3. Cut(s, Len(below)) = below
      BY <1>5, <3>1, <3>2, CutBelow, Zenon
    <3> QED
      BY <1>4, <2>4, <2>7, <2>9, <3>3 DEF PcallReturns, rc
  <2> QED
    BY <2>8, <2>9
<1>10. CASE rc.how # "sync"
  <2> DEFINE stack == below \o Values(k)
             s == Trimmed(rc, stack)
  <2>1. ParkedReturns(status, k) /\ cpu'.st = "ok"
    BY <1>4, <1>10 DEF CallbackEnds, rc
  <2>2. ASSUME NEW end, NEW st, finish_reverse_call(ses, rc, end, st)
        PROVE  end = "ok" /\ pool' = [pool EXCEPT ![rc.exch] =
                   [stack |-> Trimmed(rc, st), dead |-> @.dead \/ end = "err"]]
    <3>1. ~(end = "err" /\ ~rc.prot)
      <4>1. DOMAIN restore_call_frame(ses, rc.frame) = SesFields
        BY <1>2 DEF restore_call_frame
      <4> QED
        BY <2>2, <4>1, Zenon DEF finish_reverse_call, SesFields
    <3>2. cpu' = [rc.frame.regs EXCEPT !.pc = @ + 1, !.st = end]
      BY <2>2, <3>1 DEF finish_reverse_call
    <3>3. cpu'.st = end
      BY <1>4, <3>2 DEF RegFields
    <3> QED
      BY <2>1, <2>2, <3>1, <3>3 DEF finish_reverse_call
  <2>3. status = "ok" /\ finish_reverse_call(ses, rc, "ok", stack)
    <3>1. CASE status = "ok"
      BY <1>4, <2>1, <3>1 DEF ParkedReturns, rc
    <3>2. CASE status # "ok"
      BY <2>1, <2>2, <3>2, Zenon DEF ParkedReturns, rc
    <3> QED
      BY <3>1, <3>2
  <2>4. now = s
    <3> HIDE DEF stack
    <3>1. pool' = [pool EXCEPT ![Cur.t] =
                       [stack |-> s, dead |-> pool[Cur.t].dead \/ "ok" = "err"]]
      BY <1>4, <2>2, <2>3
    <3> HIDE DEF s
    <3> QED
      BY <1>5, <1>8, <3>1
  <2>5. /\ stack \in Seq(Cells) /\ Len(stack) = Len(below) + k
        /\ \A i \in 1 .. Len(below) : stack[i] = below[i]
    BY <1>5, <1>6
  <2> HIDE DEF stack
  <2>6. /\ s \in Seq(Cells) /\ Len(below) <= Len(s)
        /\ \A i \in 1 .. Len(below) : s[i] = below[i]
        /\ rc.nres # MULTRET => Len(s) = Len(below) + rc.nres
    <3>1. CASE rc.nres = MULTRET
      BY <1>4, <2>5, <3>1 DEF Trimmed
    <3>2. CASE rc.nres # MULTRET
      <4> DEFINE m == rc.base + rc.nres
      <4>1. m \in Nat /\ Len(below) <= m /\ s = settop(stack, m)
        BY <1>4, <1>7, <3>2 DEF Trimmed
      <4> HIDE DEF m, s
      <4>2. s \in Seq(Cells) /\ Len(s) = m
        BY <2>5, <4>1, EndStacks
      <4>3. \A i \in 1 .. Len(below) : i \in 1 .. Len(stack) /\ i <= m
        BY <1>4, <2>5, <4>1
      <4>4. \A i \in 1 .. Len(below) : s[i] = below[i]
        BY <2>5, <4>1, <4>3, EndStacks, Zenon
      <4> QED
        BY <1>4, <4>1, <4>2, <4>4, Zenon DEF m
    <3> QED
      BY <3>1, <3>2
  <2> HIDE DEF s
  <2>7. Cut(s, Len(below)) = below
    BY <1>5, <2>6, CutBelow
  <2> QED
    BY <1>4, <2>1, <2>4, <2>6, <2>7 DEF PcallReturns, rc
<1> QED
  BY <1>9, <1>10

\* When a callback returns, the native half finds its stack below untouched and
\* exactly the results it asked for; without a debugger also the error value of
\* one that raised (BLYT_LUA_OP_PCALL, blyt_session_finish_reverse_call).
THEOREM PcallAlwaysHolds ==
    ASSUME ~MetaCallsNative
    PROVE  Spec => PcallContract
<1>1. Init => BridgeInv /\ Nested /\ PoolInv
  BY InitBridge, NestInit, PoolInit
<1>2. BridgeInv /\ Nested /\ PoolInv /\ [Next]_vars => (BridgeInv /\ Nested /\ PoolInv)'
  BY BridgeStep, NestStep, PoolStep
<1>3. BridgeInv /\ Nested /\ PoolInv /\ [Next]_vars =>
          [ReturnsToGuest /\ (mode = "sync" \/ cpu'.st = "ok") => PcallReturns(Cur.rc)]_vars
  BY PcallStep DEF ReturnsToGuest, Ends
<1> QED
  BY <1>1, <1>2, <1>3, PTL DEF Spec, PcallContract
=============================================================================
