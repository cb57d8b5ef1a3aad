---------------------------- MODULE LuaBridgeProofs -----------------------------
(***************************************************************************)
(* Proofs about the Lua bridge, for any depth of nesting, number of calls, *)
(* stack and budget, with and without a debugger: the frame of each call,  *)
(* the shared budget and the nesting of the calls.                         *)
(*                                                                         *)
(* OwnFrame speaks of the call that executes.  To carry it through a       *)
(* nested call the invariant says of every call that waits for a callback  *)
(* that the frame saved for it is its own, and of the threads that each    *)
(* call remembers the thread of the one below it.                          *)
(***************************************************************************)
EXTENDS LuaBridge, SequenceTheorems, FiniteSetTheorems, TLAPS

RegFields == {"fn", "pc", "tok", "st"}
CallFields == {"id", "kind", "t", "prev", "base", "at", "done", "rc", "entry"}
SesFields == {"token", "next", "active", "error", "fnDone", "trapped", "halt", "exch", "saved",
              "pending", "handoff"}
HostFields == {"depth", "exch", "base", "count"}

\* A sequence, of whatever elements.
IsSeq(s) == \E S : s \in Seq(S)

\* The registers and the bridge's window are those of call c.
Owns(c, regs, token, active) ==
    /\ DOMAIN regs = RegFields
    /\ regs.fn = c.id /\ regs.pc = c.done
    /\ IF c.kind = "bridged" THEN active /\ regs.tok = token ELSE regs.tok = 0

\* The frame in rc is what call c needs to go on.
Keeps(c, rc, m) ==
    /\ rc.how = m /\ c.kind = "bridged" /\ rc.frame.active /\ rc.frame.token # 0
    /\ ~rc.frame.fnDone /\ ~rc.frame.error
    /\ Owns(c, rc.frame.regs, rc.frame.token, rc.frame.active)

Shape ==
    /\ IsSeq(calls)
    /\ \A i \in 1 .. Len(calls) : DOMAIN calls[i] = CallFields
    /\ DOMAIN ses = SesFields /\ DOMAIN host = HostFields
    /\ mode \in {"sync", "hl", "web"}

\* The calls below the current one wait in Lua, each with its own frame, and
\* the one above remembers the thread to attach again.
Waiting ==
    /\ \A i \in 1 .. Len(calls) :
         calls[i].kind \in {"typed", "bridged"} /\ (calls[i].kind = "typed" => calls[i].t = calls[i].prev)
    /\ \A i \in 1 .. Len(calls) - 1 :
         /\ calls[i].at = "lua" /\ Keeps(calls[i], calls[i].rc, mode)
         /\ calls[i + 1].prev = calls[i].t

InMeta(c) == c.at = "lua" /\ c.rc.how = "meta"

\* What the machine holds for the current call, by where that call is.
CurrentOf(c, regs, s, h, m) ==
    /\ h.exch = c.t
    /\ c.at \in {"lua", "paused"} /\ ~InMeta(c) => Keeps(c, c.rc, m)
    /\ c.at = "enter" \/ InMeta(c) => ~s.fnDone /\ Owns(c, regs, s.token, s.active)
    /\ InMeta(c) => ~s.halt
    /\ c.at = "guest" => IF s.fnDone THEN s.halt ELSE Owns(c, regs, s.token, s.active)
    /\ c.at = "guest" /\ s.pending /\ s.halt /\ ~s.fnDone /\ ~s.error => Keeps(c, s.handoff, m)
    /\ s.error => (c.at = "enter" /\ m # "sync") \/ (c.at = "guest" /\ s.halt /\ ~s.fnDone)

Current == IF calls = << >> THEN ~ses.error ELSE CurrentOf(Cur, cpu, ses, host, mode)

WindowOf(s, h, m) ==
    /\ s.next \in Nat /\ (s.active => s.token # 0)
    /\ m = "sync" => ~s.pending
    /\ s.exch = h.exch

Window == WindowOf(ses, host, mode)

\* A machine that trapped never runs again.
BridgeInv == Shape /\ (~ses.trapped => Waiting /\ Current /\ Window)

-----------------------------------------------------------------------------
\* Replacing the last element of the stack of calls.
LEMMA Replaced ==
    ASSUME NEW s, NEW c, NEW r, IsSeq(s), s # << >>, r = [s EXCEPT ![Len(s)] = c]
    PROVE  /\ IsSeq(r) /\ Len(s) \in Nat \ {0} /\ Len(r) = Len(s) /\ r # << >>
           /\ r[Len(s)] = c
           /\ \A i \in 1 .. Len(s) - 1 : r[i] = s[i]
<1>1. PICK S : s \in Seq(S)
  BY DEF IsSeq
<1>2. Len(s) \in Nat \ {0}
  BY <1>1, EmptySeq
<1>3. s \in Seq(S \cup {c}) /\ c \in S \cup {c}
  BY <1>1, SeqMonotonic
<1>4. r \in Seq(S \cup {c}) /\ Len(r) = Len(s)
  BY <1>2, <1>3
<1>5. r[Len(s)] = c /\ (\A i \in 1 .. Len(s) - 1 : r[i] = s[i])
  BY <1>2, <1>3
<1> QED
  BY <1>2, <1>4, <1>5, Zenon DEF IsSeq

\* Taking the last element off the stack of calls.
LEMMA Popped ==
    ASSUME NEW s, NEW r, IsSeq(s), s # << >>, r = Cut(s, Len(s) - 1)
    PROVE  /\ IsSeq(r) /\ Len(s) \in Nat \ {0} /\ Len(r) = Len(s) - 1
           /\ \A i \in 1 .. Len(r) : r[i] = s[i]
           /\ r # << >> => Len(r) # 0
<1>1. PICK S : s \in Seq(S)
  BY DEF IsSeq
<1>2. Len(s) \in Nat \ {0}
  BY <1>1, EmptySeq
<1>3. r \in Seq(S) /\ Len(r) = Len(s) - 1 /\ (\A i \in 1 .. Len(r) : r[i] = s[i])
  <2> DEFINE n == Len(s) - 1
  <2>1. n \in Nat /\ (\A i \in 1 .. n : s[i] \in S)
    BY <1>1, <1>2, ElementOfSeq
  <2> HIDE DEF n
  <2>2. /\ SubSeq(s, 1, n) \in Seq(S)
        /\ Len(SubSeq(s, 1, n)) = IF 1 <= n THEN n - 1 + 1 ELSE 0
        /\ \A i \in 1 .. n - 1 + 1 : SubSeq(s, 1, n)[i] = s[1 + i - 1]
    BY <2>1, SubSeqProperties
  <2>3. (IF 1 <= n THEN n - 1 + 1 ELSE 0) = n /\ n - 1 + 1 = n
    BY <2>1
  <2>4. \A i \in 1 .. n : SubSeq(s, 1, n)[i] = s[i]
    BY <2>1, <2>2
  <2>5. r = SubSeq(s, 1, n)
    BY DEF Cut, n
  <2>6. r \in Seq(S) /\ Len(r) = n /\ (\A i \in 1 .. n : r[i] = s[i])
    BY <2>2, <2>3, <2>4, <2>5, Zenon
  <2> QED
    BY <2>6 DEF n
<1>4. r # << >> => Len(r) # 0
  BY <1>3, EmptySeq
<1> QED
  BY <1>2, <1>3, <1>4 DEF IsSeq

\* Pushing a call.
LEMMA Pushed ==
    ASSUME NEW s, NEW c, NEW r, IsSeq(s), r = Append(s, c)
    PROVE  /\ IsSeq(r) /\ Len(s) \in Nat /\ Len(r) = Len(s) + 1 /\ r # << >>
           /\ r[Len(s) + 1] = c
           /\ \A i \in 1 .. Len(s) : r[i] = s[i]
           /\ Len(s) # 0 => s # << >>
<1>1. PICK S : s \in Seq(S)
  BY DEF IsSeq
<1>2. s \in Seq(S \cup {c}) /\ c \in S \cup {c} /\ Len(s) \in Nat
  BY <1>1
<1>3. r \in Seq(S \cup {c}) /\ Len(r) = Len(s) + 1 /\ r # << >>
  BY <1>2
<1>4. r[Len(s) + 1] = c /\ (\A i \in 1 .. Len(s) : r[i] = s[i])
  BY <1>2
<1>5. Len(s) # 0 => s # << >>
  OBVIOUS
<1> QED
  BY <1>2, <1>3, <1>4, <1>5 DEF IsSeq

\* A step of the current call leaves the ones below it waiting.
LEMMA CurStep ==
    ASSUME Shape, calls # << >>, NEW c, SetCur(c), mode' = mode,
           DOMAIN c = CallFields, c.kind = Cur.kind, c.t = Cur.t, c.prev = Cur.prev
    PROVE  /\ IsSeq(calls') /\ (\A i \in 1 .. Len(calls') : DOMAIN calls'[i] = CallFields)
           /\ Cur' = c /\ calls' # << >>
           /\ Waiting => Waiting'
<1>1. /\ IsSeq(calls') /\ Len(calls) \in Nat \ {0} /\ Len(calls') = Len(calls) /\ calls' # << >>
      /\ calls'[Len(calls)] = c
      /\ \A i \in 1 .. Len(calls) - 1 : calls'[i] = calls[i]
  <2>1. IsSeq(calls) /\ calls' = [calls EXCEPT ![Len(calls)] = c]
    BY DEF Shape, SetCur
  <2>2. /\ IsSeq(calls') /\ Len(calls) \in Nat \ {0}
        /\ Len(calls') = Len(calls) /\ calls' # << >>
        /\ calls'[Len(calls)] = c
    BY <2>1, Replaced, Zenon
  <2>3. \A i \in 1 .. Len(calls) - 1 : calls'[i] = calls[i]
    BY <2>1, Replaced
  <2> QED
    BY <2>2, <2>3
<1>2. Cur' = c
  BY <1>1 DEF Cur
<1>3. \A i \in 1 .. Len(calls') : DOMAIN calls'[i] = CallFields
  BY <1>1 DEF Shape
<1>4. ASSUME Waiting PROVE Waiting'
  <2>1. Cur = calls[Len(calls)]
    BY DEF Cur
  <2>2. ASSUME NEW i \in 1 .. Len(calls)
        PROVE  /\ calls'[i].kind = calls[i].kind /\ calls'[i].t = calls[i].t
               /\ calls'[i].prev = calls[i].prev
    BY <1>1, <2>1
  <2>3. \A i \in 1 .. Len(calls') :
            /\ calls'[i].kind \in {"typed", "bridged"}
            /\ (calls'[i].kind = "typed" => calls'[i].t = calls'[i].prev)
    BY <1>1, <1>4, <2>2 DEF Waiting
  <2>4. ASSUME NEW i \in 1 .. Len(calls') - 1
        PROVE  /\ calls'[i].at = "lua" /\ Keeps(calls'[i], calls'[i].rc, mode')
               /\ calls'[i + 1].prev = calls'[i].t
    <3>1. calls'[i] = calls[i] /\ i \in 1 .. Len(calls) /\ i + 1 \in 1 .. Len(calls)
      BY <1>1
    <3>2. calls'[i + 1].prev = calls[i + 1].prev
      BY <2>2, <3>1
    <3> QED
      BY <1>4, <3>1, <3>2 DEF Waiting
  <2> QED
    BY <2>3, <2>4 DEF Waiting
<1> QED
  BY <1>1, <1>2, <1>3, <1>4

\* The invariant after a step of the current call.
LEMMA CurInv ==
    ASSUME BridgeInv, calls # << >>, NEW c, SetCur(c), mode' = mode, host' = host,
           DOMAIN c = CallFields, c.kind = Cur.kind, c.t = Cur.t, c.prev = Cur.prev,
           DOMAIN ses' = SesFields,
           ~ses'.trapped => ~ses.trapped,
           ~ses'.trapped => CurrentOf(c, cpu', ses', host, mode) /\ WindowOf(ses', host, mode)
    PROVE  BridgeInv'
<1>1. /\ IsSeq(calls') /\ (\A i \in 1 .. Len(calls') : DOMAIN calls'[i] = CallFields)
      /\ Cur' = c /\ calls' # << >> /\ (Waiting => Waiting')
  BY CurStep DEF BridgeInv
<1>2. Shape'
  BY <1>1 DEF Shape, BridgeInv
<1>3. ASSUME ~ses'.trapped PROVE Waiting' /\ Current' /\ Window'
  BY <1>1, <1>3 DEF BridgeInv, Current, Window
<1> QED
  BY <1>2, <1>3 DEF BridgeInv

\* The invariant after a step that leaves the calls alone.
LEMMA SameInv ==
    ASSUME BridgeInv, calls' = calls, mode' = mode, host' = host, DOMAIN ses' = SesFields,
           ~ses'.trapped => ~ses.trapped,
           ~ses'.trapped => WindowOf(ses', host, mode)
                            /\ (calls # << >> => CurrentOf(Cur, cpu', ses', host, mode))
                            /\ (calls = << >> => ~ses'.error)
    PROVE  BridgeInv'
<1>1. Shape' /\ (Waiting => Waiting') /\ Cur' = Cur
  BY DEF BridgeInv, Shape, Waiting, Cur
<1> QED
  BY <1>1 DEF BridgeInv, Current, Window

\* The invariant after a call has ended: the one below goes on waiting.
LEMMA PopInv ==
    ASSUME BridgeInv, calls # << >>, calls' = Callers, mode' = mode, host' = PopNesting,
           DOMAIN ses' = SesFields, ses'.exch = Attach(ses).exch,
           ses'.next = ses.next, ses'.pending = ses.pending, ses'.active => ses.active,
           ses'.token = ses.token, ses'.trapped = ses.trapped, ~ses.trapped => ~ses'.error
    PROVE  BridgeInv'
<1> USE DEF BridgeInv
<1>1. IsSeq(calls) /\ calls' = Cut(calls, Len(calls) - 1)
  BY DEF Shape, Callers
<1>2. IsSeq(calls') /\ Len(calls) \in Nat \ {0} /\ Len(calls') = Len(calls) - 1
  BY <1>1, Popped, Zenon
<1>3. \A i \in 1 .. Len(calls') : calls'[i] = calls[i]
  BY <1>1, Popped
<1>4. calls' # << >> => Len(calls') # 0
  BY <1>1, Popped, Zenon
<1>5. Cur = calls[Len(calls)] /\ Cur' = calls'[Len(calls')]
  BY DEF Cur
<1>6. Shape'
  BY <1>2, <1>3 DEF Shape, PopNesting, HostFields
<1>7. ASSUME ~ses'.trapped PROVE Waiting'
  <2>1. Waiting
    BY <1>7
  <2>2. \A i \in 1 .. Len(calls') - 1 :
            i \in 1 .. Len(calls) - 1 /\ calls'[i] = calls[i] /\ calls'[i + 1] = calls[i + 1]
    BY <1>2, <1>3
  <2>3. \A i \in 1 .. Len(calls') : i \in 1 .. Len(calls) /\ calls'[i] = calls[i]
    BY <1>2, <1>3
  <2> QED
    BY <2>1, <2>2, <2>3 DEF Waiting
<1>8. ASSUME ~ses'.trapped PROVE host'.exch = Cur.prev /\ ses'.exch = Cur.prev
  <2>1. calls # << >> => host.exch = Cur.t
    BY <1>8 DEF Current, CurrentOf
  <2>2. Cur.kind \in {"typed", "bridged"} /\ (Cur.kind = "typed" => Cur.t = Cur.prev)
    BY <1>2, <1>5, <1>8 DEF Waiting
  <2>3. ses.exch = host.exch
    BY <1>8 DEF Window, WindowOf
  <2>4. host'.exch = IF Cur.kind = "bridged" THEN Cur.prev ELSE host.exch
    BY DEF PopNesting, Shape, HostFields
  <2>5. ses'.exch = IF Cur.kind = "bridged" THEN Cur.prev ELSE ses.exch
    BY DEF Attach, Shape, SesFields
  <2> QED
    BY <2>1, <2>2, <2>3, <2>4, <2>5
<1>9. ASSUME ~ses'.trapped, calls' # << >> PROVE CurrentOf(Cur, cpu, ses, host, mode)'
  <2>1. Len(calls') \in 1 .. Len(calls) - 1 /\ Len(calls') + 1 = Len(calls)
    BY <1>2, <1>4, <1>9
  <2>2. Cur' = calls[Len(calls')]
    BY <1>2, <1>3, <1>5, <2>1
  <2>3. Cur'.at = "lua" /\ Keeps(Cur', Cur'.rc, mode) /\ Cur.prev = Cur'.t
    BY <1>5, <1>9, <2>1, <2>2 DEF Waiting
  <2>4. Cur'.rc.how # "meta"
    BY <2>3 DEF Keeps, Shape
  <2> QED
    BY <1>8, <1>9, <2>3, <2>4 DEF CurrentOf, InMeta
<1>10. ASSUME ~ses'.trapped PROVE Window'
  BY <1>8, <1>10 DEF Window, WindowOf
<1> QED
  BY <1>6, <1>7, <1>9, <1>10 DEF Current

\* The invariant after a call has begun: the caller, in Lua, waits with its frame.
LEMMA PushInv ==
    ASSUME BridgeInv, MayCall, ~MetaCallsNative, NEW c, calls' = Append(calls, c), mode' = mode,
           DOMAIN c = CallFields, c.kind \in {"typed", "bridged"}, c.prev = host.exch,
           c.kind = "typed" => c.t = c.prev,
           DOMAIN ses' = SesFields, DOMAIN host' = HostFields, ses'.trapped = ses.trapped,
           ~ses.trapped => CurrentOf(c, cpu', ses', host', mode) /\ WindowOf(ses', host', mode)
    PROVE  BridgeInv'
<1> USE DEF BridgeInv
<1>1. IsSeq(calls)
  BY DEF Shape
<1>2. /\ IsSeq(calls') /\ Len(calls) \in Nat /\ Len(calls') = Len(calls) + 1 /\ calls' # << >>
      /\ calls'[Len(calls) + 1] = c /\ (Len(calls) # 0 => calls # << >>)
  <2>1. IsSeq(calls') /\ calls' # << >> /\ (Len(calls) # 0 => calls # << >>)
    BY <1>1, Pushed, Zenon
  <2>2. Len(calls) \in Nat /\ Len(calls') = Len(calls) + 1
    BY <1>1, Pushed
  <2>3. calls'[Len(calls) + 1] = c
    BY <1>1, Pushed
  <2> QED
    BY <2>1, <2>2, <2>3
<1>3. \A i \in 1 .. Len(calls) : calls'[i] = calls[i]
  BY <1>1, Pushed
<1>4. Shape'
  BY <1>2, <1>3 DEF Shape
<1>5. ASSUME ~ses'.trapped, calls # << >>
      PROVE  Cur.at = "lua" /\ Keeps(Cur, Cur.rc, mode) /\ c.prev = Cur.t
  BY <1>5 DEF MayCall, InLua, Current, CurrentOf, InMeta
<1>6. ASSUME ~ses'.trapped PROVE Waiting'
  <2>1. \A i \in 1 .. Len(calls') :
            /\ calls'[i].kind \in {"typed", "bridged"}
            /\ (calls'[i].kind = "typed" => calls'[i].t = calls'[i].prev)
    BY <1>2, <1>3, <1>6 DEF Waiting
  <2>2. ASSUME NEW i \in 1 .. Len(calls') - 1
        PROVE  /\ calls'[i].at = "lua" /\ Keeps(calls'[i], calls'[i].rc, mode')
               /\ calls'[i + 1].prev = calls'[i].t
    <3>1. i \in 1 .. Len(calls) /\ calls'[i] = calls[i] /\ calls # << >>
      BY <1>2, <1>3
    <3>2. CASE i = Len(calls)
      <4>1. Cur = calls[i]
        BY <3>2 DEF Cur
      <4> QED
        BY <1>2, <1>5, <1>6, <3>1, <3>2, <4>1
    <3>3. CASE i # Len(calls)
      <4>1. i \in 1 .. Len(calls) - 1 /\ i + 1 \in 1 .. Len(calls)
        BY <1>2, <3>1, <3>3
      <4> QED
        BY <1>3, <1>6, <3>1, <4>1 DEF Waiting
    <3> QED
      BY <3>2, <3>3
  <2> QED
    BY <2>1, <2>2, Zenon DEF Waiting
<1>7. ASSUME ~ses'.trapped PROVE Current' /\ Window'
  BY <1>2, <1>7 DEF Current, Window, Cur
<1> QED
  BY <1>4, <1>6, <1>7

-----------------------------------------------------------------------------
\* The invariant holds before the first call (blyt_session_begin_bridged_call has
\* handed out no token).
LEMMA InitBridge == Init => BridgeInv
<1> SUFFICES ASSUME Init PROVE BridgeInv
  OBVIOUS
<1>1. calls \in Seq({}) /\ Len(calls) = 0
  BY DEF Init
<1>2. Shape
  BY <1>1, BridgeAssumption DEF Init, Shape, IsSeq, SesFields, HostFields
<1>3. Waiting /\ Current
  BY <1>1 DEF Init, Waiting, Current
<1>4. Window
  BY DEF Init, Window, WindowOf
<1> QED
  BY <1>2, <1>3, <1>4 DEF BridgeInv

\* Beginning a typed or bridged call from Lua or from a callback.
LEMMA LuaInv == BridgeInv /\ ~MetaCallsNative /\ LuaSteps => BridgeInv'
<1> SUFFICES ASSUME BridgeInv, ~MetaCallsNative, LuaSteps PROVE BridgeInv'
  OBVIOUS
<1>0. DOMAIN ses = SesFields /\ DOMAIN host = HostFields
  BY DEF BridgeInv, Shape
<1>1. CASE LuaHeap \/ LuaCatches
  BY <1>1, SameInv DEF LuaHeap, LuaCatches, BridgeInv, Shape, Current, Window
<1>2. CASE typed_trampoline
  <2> DEFINE c == NewCall("typed", host.exch)
  <2>1. /\ MayCall /\ calls' = Append(calls, c) /\ mode' = mode
        /\ DOMAIN c = CallFields /\ c.kind = "typed" /\ c.prev = host.exch /\ c.t = c.prev
    BY <1>2 DEF typed_trampoline, NewCall, CallFields
  <2>2. /\ DOMAIN ses' = SesFields /\ DOMAIN host' = HostFields
        /\ host'.exch = host.exch /\ ses'.exch = ses.exch /\ ses'.token = ses.token
        /\ ses'.active = ses.active /\ ses'.next = ses.next /\ ses'.pending = ses.pending
        /\ ses'.trapped = ses.trapped /\ ~ses'.fnDone
        /\ ses'.error = ses.error
    BY <1>0, <1>2 DEF typed_trampoline, begin_fn_call, SesFields, HostFields
  <2>3. ~ses.trapped => ~ses.error
    BY <2>1 DEF BridgeInv, Current, CurrentOf, MayCall, InLua
  <2>4. ~ses.trapped => CurrentOf(c, cpu', ses', host', mode)
    BY <1>2, <2>2, <2>3 DEF typed_trampoline, NewCall, CurrentOf, InMeta, Owns, RegFields
  <2>5. ~ses.trapped => WindowOf(ses', host', mode)
    BY <2>2 DEF BridgeInv, Window, WindowOf
  <2> HIDE DEF c
  <2> QED
    BY <2>1, <2>2, <2>4, <2>5, PushInv
<1>3. ASSUME NEW n \in 0 .. 1, bridged_trampoline(n) PROVE BridgeInv'
  <2>1. CASE host.depth >= Depth /\ UNCHANGED <<mode, calls, cpu, ses, host, pool, heap>>
    BY <2>1, SameInv DEF BridgeInv, Shape, Current, Window
  <2>2. CASE ~(host.depth >= Depth /\ UNCHANGED <<mode, calls, cpu, ses, host, pool, heap>>)
    <3> DEFINE c == NewCall("bridged", host.depth + 1)
    <3>1. /\ MayCall /\ calls' = Append(calls, c) /\ mode' = mode
          /\ DOMAIN c = CallFields /\ c.kind = "bridged" /\ c.prev = host.exch
      BY <1>3, <2>2 DEF bridged_trampoline, NewCall, CallFields
    <3>2. /\ ses' = [begin_bridged_call(ses) EXCEPT !.exch = host.depth + 1]
          /\ cpu' = [fn |-> host.count + 1, pc |-> 0, tok |-> ses.next + 1, st |-> "ok"]
          /\ host' = [depth |-> host.depth + 1, exch |-> host.depth + 1, base |-> host.base + 1,
                      count |-> host.count + 1]
      BY <1>3, <2>2 DEF bridged_trampoline
    <3>3. /\ DOMAIN ses' = SesFields /\ ses'.exch = host.depth + 1 /\ ses'.token = ses.next + 1
          /\ ses'.active = TRUE /\ ses'.next = ses.next + 1 /\ ses'.pending = ses.pending
          /\ ses'.trapped = ses.trapped /\ ses'.fnDone = FALSE /\ ses'.error = FALSE
      BY <1>0, <3>2 DEF begin_bridged_call, begin_fn_call, SesFields
    <3>4. DOMAIN host' = HostFields /\ host'.exch = host.depth + 1
      BY <3>2 DEF HostFields
    <3>5. CurrentOf(c, cpu', ses', host', mode)
      BY <3>2, <3>3, <3>4 DEF NewCall, CurrentOf, InMeta, Owns, RegFields
    <3>6. ~ses.trapped => WindowOf(ses', host', mode)
      BY <3>3, <3>4 DEF BridgeInv, Window, WindowOf
    <3> HIDE DEF c
    <3> QED
      BY <3>1, <3>3, <3>4, <3>5, <3>6, PushInv
  <2> QED
    BY <2>1, <2>2
<1> QED
  BY <1>1, <1>2, <1>3 DEF LuaSteps

\* What the invariant says while native code executes.
LEMMA Executing ==
    ASSUME BridgeInv, GuestRuns
    PROVE  /\ calls # << >> /\ Cur.at = "guest" /\ ~ses.halt /\ ~ses.trapped /\ ~ses.fnDone /\ ~ses.error
           /\ Owns(Cur, cpu, ses.token, ses.active) /\ host.exch = Cur.t
           /\ WindowOf(ses, host, mode) /\ DOMAIN Cur = CallFields /\ DOMAIN ses = SesFields
           /\ mode \in {"sync", "hl", "web"}
<1>1. calls # << >> /\ Cur.at = "guest" /\ ~ses.halt /\ ~ses.trapped
  BY DEF GuestRuns
<1>2. /\ WindowOf(ses, host, mode) /\ CurrentOf(Cur, cpu, ses, host, mode)
      /\ DOMAIN ses = SesFields /\ IsSeq(calls) /\ mode \in {"sync", "hl", "web"}
  BY <1>1 DEF BridgeInv, Current, Window, Shape
<1>3. Len(calls) \in Nat \ {0}
  BY <1>1, <1>2, Popped, Zenon
<1>4. DOMAIN Cur = CallFields
  BY <1>3 DEF BridgeInv, Shape, Cur
<1> QED
  BY <1>1, <1>2, <1>4 DEF CurrentOf

\* The current call and its record, wherever it is.
LEMMA CurFields ==
    ASSUME BridgeInv, calls # << >>
    PROVE  /\ DOMAIN Cur = CallFields /\ DOMAIN ses = SesFields
           /\ mode \in {"sync", "hl", "web"}
           /\ ~ses.trapped => CurrentOf(Cur, cpu, ses, host, mode) /\ WindowOf(ses, host, mode)
<1>1. IsSeq(calls) /\ DOMAIN ses = SesFields /\ mode \in {"sync", "hl", "web"}
  BY DEF BridgeInv, Shape
<1>2. Len(calls) \in Nat \ {0}
  BY <1>1, Popped, Zenon
<1>3. DOMAIN Cur = CallFields
  BY <1>2 DEF BridgeInv, Shape, Cur
<1> QED
  BY <1>1, <1>3 DEF BridgeInv, Current, Window

\* An operation that completes moves the registers and the call by one.
LEMMA AdvanceInv ==
    ASSUME BridgeInv, GuestRuns, mode' = mode, host' = host, ses' = ses,
           SetCur([Cur EXCEPT !.done = @ + 1]),
           cpu' = [cpu EXCEPT !.pc = @ + 1, !.st = "ok"] \/ cpu' = [cpu EXCEPT !.pc = @ + 1]
    PROVE  BridgeInv'
<1> DEFINE c == [Cur EXCEPT !.done = @ + 1]
<1>1. /\ DOMAIN c = CallFields /\ c.kind = Cur.kind /\ c.t = Cur.t /\ c.prev = Cur.prev
      /\ c.at = "guest" /\ c.id = Cur.id /\ c.done = Cur.done + 1
  BY Executing DEF CallFields
<1>2. Owns(c, cpu', ses.token, ses.active)
  BY <1>1, Executing, Zenon DEF Owns, RegFields
<1>3. CurrentOf(c, cpu', ses', host, mode)
  BY <1>1, <1>2, Executing DEF CurrentOf, InMeta
<1>4. SetCur(c)
  OBVIOUS
<1> HIDE DEF c
<1> QED
  BY <1>1, <1>3, <1>4, Executing, CurInv

\* The frame saved at a PCALL is the executing call's own.
LEMMA SavedOwn ==
    ASSUME BridgeInv, GuestRuns, BridgeOpen, NEW nargs, NEW nres, NEW prot
    PROVE  Keeps(Cur, ReverseCall(nargs, nres, prot), mode)
<1> DEFINE rc == ReverseCall(nargs, nres, prot)
<1>1. /\ rc.how = mode /\ rc.frame.regs = cpu /\ rc.frame.token = ses.token
      /\ rc.frame.active = ses.active /\ rc.frame.fnDone = ses.fnDone
      /\ rc.frame.error = ses.error
  BY DEF ReverseCall, save_call_frame
<1>2. Cur.kind \in {"typed", "bridged"}
  <2>1. IsSeq(calls) /\ calls # << >> /\ Waiting
    BY Executing DEF BridgeInv, Shape
  <2>2. Len(calls) \in Nat \ {0}
    BY <2>1, Popped, Zenon
  <2> QED
    BY <2>1, <2>2 DEF Waiting, Cur
<1>3. ses.token # 0 /\ ses.active /\ cpu.tok = ses.token
  BY Executing DEF BridgeOpen, WindowOf
<1>4. Cur.kind = "bridged"
  BY <1>2, <1>3, Executing DEF Owns
<1> QED
  BY <1>1, <1>3, <1>4, Executing, Zenon DEF Keeps

\* A step that halts the executing call with an error or a trap.
LEMMA HaltInv ==
    ASSUME BridgeInv, GuestRuns, mode' = mode, host' = host, calls' = calls, cpu' = cpu,
           \/ ses' = [ses EXCEPT !.error = TRUE, !.halt = TRUE]
           \/ ses' = [ses EXCEPT !.trapped = TRUE, !.halt = TRUE]
    PROVE  BridgeInv'
<1>1. /\ DOMAIN ses' = SesFields /\ (ses'.error \/ ses'.trapped) /\ ses'.fnDone = ses.fnDone
      /\ ses'.halt
      /\ ses'.token = ses.token /\ ses'.active = ses.active /\ ses'.next = ses.next
      /\ ses'.pending = ses.pending /\ ses'.exch = ses.exch
  BY Executing, Zenon DEF SesFields
<1>2. ~ses'.trapped => CurrentOf(Cur, cpu', ses', host, mode)
  BY <1>1, Executing DEF CurrentOf, InMeta
<1>3. WindowOf(ses', host, mode)
  BY <1>1, Executing DEF WindowOf
<1> QED
  BY <1>1, <1>2, <1>3, Executing, SameInv

\* PCALL: the callback runs inside the op, or the machine parks at it.
LEMMA PcallInv ==
    ASSUME BridgeInv, NEW nargs, NEW nres, NEW prot, OpPcall(nargs, nres, prot)
    PROVE  BridgeInv'
<1> DEFINE rc == ReverseCall(nargs, nres, prot)
<1>0. GuestRuns /\ BridgeOpen /\ mode' = mode /\ host' = host
  BY DEF OpPcall, Step
<1>1. Keeps(Cur, rc, mode)
  BY <1>0, SavedOwn
<1> HIDE DEF rc
<1>2. CASE bridge_fail(Stack)
  BY <1>0, <1>2, HaltInv DEF bridge_fail
<1>3. CASE PcallStarts(rc) /\ mode = "sync"
  <2> DEFINE c == [Cur EXCEPT !.at = "lua", !.rc = rc]
  <2>1. SetCur(c) /\ ses' = ses /\ cpu' = cpu
    BY <1>3 DEF PcallStarts
  <2>2. /\ DOMAIN c = CallFields /\ c.kind = Cur.kind /\ c.t = Cur.t /\ c.prev = Cur.prev
        /\ c.at = "lua" /\ c.id = Cur.id /\ c.done = Cur.done /\ c.rc = rc
    BY <1>0, Executing DEF CallFields
  <2>3. Keeps(c, c.rc, mode)
    BY <1>1, <2>2 DEF Keeps, Owns
  <2>4. ~InMeta(c)
    BY <1>3, <2>3 DEF Keeps, InMeta
  <2>5. CurrentOf(c, cpu', ses', host, mode)
    BY <1>0, <2>1, <2>2, <2>3, <2>4, Executing DEF CurrentOf
  <2> HIDE DEF c
  <2> QED
    BY <1>0, <2>1, <2>2, <2>5, Executing, CurInv
<1>4. CASE PcallStarts(rc) /\ mode # "sync"
  <2>1. ses' = Parked(ses, rc) /\ calls' = calls /\ cpu' = cpu
    BY <1>4 DEF PcallStarts
  <2>2. /\ DOMAIN ses' = SesFields /\ ses'.handoff = rc /\ ses'.fnDone = ses.fnDone
        /\ ses'.error = ses.error
        /\ ses'.token = ses.token /\ ses'.active = ses.active /\ ses'.next = ses.next
        /\ ses'.exch = ses.exch /\ ses'.trapped = ses.trapped
    BY <1>0, <2>1, Executing DEF Parked, SesFields
  <2>3. CurrentOf(Cur, cpu', ses', host, mode)
    BY <1>0, <1>1, <2>1, <2>2, Executing DEF CurrentOf, InMeta
  <2>4. WindowOf(ses', host, mode)
    BY <1>0, <1>4, <2>2, Executing DEF WindowOf
  <2> QED
    BY <1>0, <2>1, <2>2, <2>3, <2>4, Executing, SameInv
<1> QED
  BY <1>2, <1>3, <1>4 DEF OpPcall, rc

\* The executing call keeps its registers through every operation and return.
LEMMA GuestInv == BridgeInv /\ GuestSteps => BridgeInv'
<1> SUFFICES ASSUME BridgeInv, GuestSteps PROVE BridgeInv'
  OBVIOUS
<1>1. ASSUME NEW op \in {"read", "push", "pop", "next"}, bridge_lua_op(op) PROVE BridgeInv'
  BY <1>1, AdvanceInv, HaltInv DEF bridge_lua_op, Step, OpTail, bridge_fail
<1>2. ASSUME NEW nargs \in 0 .. 1, NEW nres \in {MULTRET, 0, 1}, NEW prot \in BOOLEAN,
             OpPcall(nargs, nres, prot)
      PROVE  BridgeInv'
  BY <1>2, PcallInv
<1>3. CASE OpError \/ OpTraps
  BY <1>3, HaltInv DEF OpError, OpTraps, Step, bridge_fail
<1>4. CASE NatHeap
  BY <1>4, AdvanceInv DEF NatHeap, Step
<1>5. CASE OpMeta
  <2> DEFINE c == [Cur EXCEPT !.at = "lua", !.rc = [how |-> "meta"]]
  <2>1. GuestRuns /\ SetCur(c) /\ ses' = ses /\ cpu' = cpu /\ mode' = mode /\ host' = host
    BY <1>5 DEF OpMeta, Step
  <2>2. /\ DOMAIN c = CallFields /\ c.kind = Cur.kind /\ c.t = Cur.t /\ c.prev = Cur.prev
        /\ c.at = "lua" /\ c.id = Cur.id /\ c.done = Cur.done /\ c.rc.how = "meta"
    BY <2>1, Executing DEF CallFields
  <2>3. CurrentOf(c, cpu', ses', host, mode)
    BY <2>1, <2>2, Executing DEF CurrentOf, InMeta, Owns
  <2> HIDE DEF c
  <2> QED
    BY <2>1, <2>2, <2>3, Executing, CurInv
<1>6. CASE FnReturn
  <2>1. /\ GuestRuns /\ calls' = calls /\ mode' = mode /\ host' = host
        /\ ses' = [ses EXCEPT !.fnDone = TRUE, !.halt = TRUE]
    BY <1>6 DEF FnReturn
  <2>2. /\ DOMAIN ses' = SesFields /\ ses'.fnDone /\ ses'.halt /\ ses'.error = ses.error
        /\ ses'.token = ses.token /\ ses'.active = ses.active /\ ses'.next = ses.next
        /\ ses'.exch = ses.exch /\ ses'.trapped = ses.trapped /\ ses'.pending = ses.pending
    BY <2>1, Executing DEF SesFields
  <2>3. CurrentOf(Cur, cpu', ses', host, mode) /\ WindowOf(ses', host, mode)
    BY <2>1, <2>2, Executing DEF CurrentOf, WindowOf, InMeta
  <2> QED
    BY <2>1, <2>2, <2>3, Executing, SameInv
<1> QED
  BY <1>1, <1>2, <1>3, <1>4, <1>5, <1>6 DEF GuestSteps

\* The current call comes back from its callback with the frame that was saved for
\* it, on the op (an unprotected error) or past it.
LEMMA ReturnInv ==
    ASSUME NEW s, NEW rc, NEW at, NEW after, NEW st,
           BridgeInv, calls # << >>, mode' = mode, host' = host,
           DOMAIN s = SesFields, s.next = ses.next, s.exch = ses.exch, s.trapped = ses.trapped,
           ~ses.trapped /\ mode = "sync" => ~s.pending,
           ~ses.trapped => Keeps(Cur, rc, mode),
           \/ ses' = restore_call_frame(s, rc.frame)
           \/ ses' = [restore_call_frame(s, rc.frame) EXCEPT !.error = TRUE, !.halt = TRUE],
           \/ at = "enter" /\ (~ses.trapped => mode # "sync")
           \/ at = "guest" /\ (~ses.trapped => ~s.pending),
           \/ /\ cpu' = rc.frame.regs
              /\ SetCur([Cur EXCEPT !.at = at, !.rc = after])
           \/ /\ cpu' = [rc.frame.regs EXCEPT !.pc = @ + 1, !.st = st]
              /\ SetCur([Cur EXCEPT !.at = at, !.rc = after, !.done = @ + 1])
    PROVE  BridgeInv'
<1>1. /\ DOMAIN ses' = SesFields /\ ses'.token = rc.frame.token /\ ses'.active = rc.frame.active
      /\ ses'.fnDone = rc.frame.fnDone /\ ses'.next = ses.next /\ ses'.exch = ses.exch
      /\ ses'.trapped = ses.trapped /\ ses'.pending = s.pending
      /\ ses'.error = rc.frame.error \/ ses'.halt
  <2>1. CASE ses' = restore_call_frame(s, rc.frame)
    BY <2>1 DEF restore_call_frame, SesFields
  <2>2. CASE ses' = [restore_call_frame(s, rc.frame) EXCEPT !.error = TRUE, !.halt = TRUE]
    BY <2>2 DEF restore_call_frame, SesFields
  <2> QED
    BY <2>1, <2>2
<1>2. ~ses.trapped => WindowOf(ses', host, mode)
  BY <1>1, CurFields DEF WindowOf, Keeps
<1>3. CASE /\ cpu' = rc.frame.regs
           /\ SetCur([Cur EXCEPT !.at = at, !.rc = after])
  <2> DEFINE c == [Cur EXCEPT !.at = at, !.rc = after]
  <2>1. /\ DOMAIN c = CallFields /\ c.kind = Cur.kind /\ c.t = Cur.t /\ c.prev = Cur.prev
        /\ c.at = at /\ c.id = Cur.id /\ c.done = Cur.done
    BY CurFields DEF CallFields
  <2>2. ~ses.trapped => Owns(c, cpu', ses'.token, ses'.active)
    BY <1>1, <1>3, <2>1 DEF Owns, Keeps
  <2>3. ~ses.trapped => CurrentOf(c, cpu', ses', host, mode)
    BY <1>1, <2>1, <2>2, CurFields DEF CurrentOf, InMeta, Keeps
  <2>4. SetCur(c)
    BY <1>3
  <2> HIDE DEF c
  <2> QED
    BY <1>1, <1>2, <2>1, <2>3, <2>4, CurInv
<1>4. CASE /\ cpu' = [rc.frame.regs EXCEPT !.pc = @ + 1, !.st = st]
           /\ SetCur([Cur EXCEPT !.at = at, !.rc = after, !.done = @ + 1])
  <2> DEFINE c == [Cur EXCEPT !.at = at, !.rc = after, !.done = @ + 1]
  <2>1. /\ DOMAIN c = CallFields /\ c.kind = Cur.kind /\ c.t = Cur.t /\ c.prev = Cur.prev
        /\ c.at = at /\ c.id = Cur.id /\ c.done = Cur.done + 1
    BY CurFields DEF CallFields
  <2>2. ~ses.trapped => Owns(c, cpu', ses'.token, ses'.active)
    BY <1>1, <1>4, <2>1 DEF Owns, Keeps, RegFields
  <2>3. ~ses.trapped => CurrentOf(c, cpu', ses', host, mode)
    BY <1>1, <2>1, <2>2, CurFields DEF CurrentOf, InMeta, Keeps
  <2>4. SetCur(c)
    BY <1>4
  <2> HIDE DEF c
  <2> QED
    BY <1>1, <1>2, <2>1, <2>3, <2>4, CurInv
<1> QED
  BY <1>3, <1>4

\* A parked callback is finished (blyt_session_finish_reverse_call).
LEMMA FinishInv ==
    ASSUME NEW s, NEW rc, NEW status, NEW stack,
           BridgeInv, calls # << >>, mode' = mode, host' = host,
           DOMAIN s = SesFields, s.next = ses.next, s.exch = ses.exch, s.trapped = ses.trapped,
           ~ses.trapped => mode # "sync",
           ~ses.trapped => Keeps(Cur, rc, mode),
           finish_reverse_call(s, rc, status, stack)
    PROVE  BridgeInv'
<1>1. CASE status = "err" /\ ~rc.prot
  <2>1. /\ ses' = [restore_call_frame(s, rc.frame) EXCEPT !.error = TRUE, !.halt = TRUE]
        /\ cpu' = rc.frame.regs
        /\ SetCur([Cur EXCEPT !.at = "enter", !.rc = rc])
    BY <1>1 DEF finish_reverse_call
  <2> QED
    BY <2>1, ReturnInv, Zenon
<1>2. CASE ~(status = "err" /\ ~rc.prot)
  <2>1. /\ ses' = restore_call_frame(s, rc.frame)
        /\ cpu' = [rc.frame.regs EXCEPT !.pc = @ + 1, !.st = status]
        /\ SetCur([Cur EXCEPT !.at = "enter", !.rc = NoRc, !.done = @ + 1])
    BY <1>2 DEF finish_reverse_call
  <2> QED
    BY <2>1, ReturnInv, Zenon
<1> QED
  BY <1>1, <1>2

\* A callback, or a metamethod, ends.
LEMMA EndsInv == BridgeInv /\ Ends => BridgeInv'
<1> SUFFICES ASSUME BridgeInv, NEW status \in {"ok", "err"}, NEW k \in 0 .. 1,
                    CallbackEnds(status, k)
             PROVE  BridgeInv'
  BY DEF Ends
<1>1. /\ calls # << >> /\ Cur.at = "lua" /\ mode' = mode /\ host' = host
      /\ DOMAIN Cur = CallFields /\ DOMAIN ses = SesFields
      /\ ~ses.trapped => CurrentOf(Cur, cpu, ses, host, mode) /\ WindowOf(ses, host, mode)
  BY CurFields DEF CallbackEnds, InCallback
<1>2. Cur.rc.how # "meta" /\ ~ses.trapped => Keeps(Cur, Cur.rc, mode)
  BY <1>1 DEF CurrentOf, InMeta
<1>3. ~ses.trapped /\ mode = "sync" => ~ses.pending
  BY <1>1 DEF WindowOf
<1>4. CASE Cur.rc.how = "sync"
  <2>1. SyncReturns(status, k) /\ (~ses.trapped => mode = "sync")
    BY <1>2, <1>4 DEF CallbackEnds, Keeps
  <2>2. (~ses.trapped => ~ses.pending) /\ (~ses.trapped => Keeps(Cur, Cur.rc, mode))
    BY <1>2, <1>3, <1>4, <2>1
  <2> QED
    <3> DEFINE rc == Cur.rc
    <3>1. CASE status = "err" /\ ~rc.prot
      <4>1. /\ ses' = [restore_call_frame(ses, rc.frame) EXCEPT !.error = TRUE, !.halt = TRUE]
            /\ cpu' = rc.frame.regs
            /\ SetCur([Cur EXCEPT !.at = "guest", !.rc = NoRc])
        BY <2>1, <3>1 DEF SyncReturns
      <4> QED
        BY <1>1, <2>2, <4>1, ReturnInv, Zenon
    <3>2. CASE ~(status = "err" /\ ~rc.prot)
      <4>1. /\ ses' = restore_call_frame(ses, rc.frame)
            /\ cpu' = [rc.frame.regs EXCEPT !.pc = @ + 1, !.st = status]
            /\ SetCur([Cur EXCEPT !.at = "guest", !.rc = NoRc, !.done = @ + 1])
        BY <2>1, <3>2 DEF SyncReturns
      <4> QED
        BY <1>1, <2>2, <4>1, ReturnInv, Zenon
    <3> QED
      BY <3>1, <3>2
<1>5. CASE Cur.rc.how = "meta"
  <2>1. MetaReturns(status)
    BY <1>5 DEF CallbackEnds
  <2>2. ~ses.trapped => ~ses.fnDone /\ Owns(Cur, cpu, ses.token, ses.active)
    BY <1>1, <1>5 DEF CurrentOf, InMeta
  <2>3. CASE status = "ok"
    <3> DEFINE c == [Cur EXCEPT !.at = "guest", !.rc = NoRc, !.done = @ + 1]
    <3>1. SetCur(c) /\ ses' = ses /\ cpu' = [cpu EXCEPT !.pc = @ + 1, !.st = "ok"]
      BY <2>1, <2>3 DEF MetaReturns
    <3>2. /\ DOMAIN c = CallFields /\ c.kind = Cur.kind /\ c.t = Cur.t /\ c.prev = Cur.prev
          /\ c.at = "guest" /\ c.id = Cur.id /\ c.done = Cur.done + 1
      BY <1>1 DEF CallFields
    <3>3. ~ses.trapped => CurrentOf(c, cpu', ses', host, mode)
      BY <1>1, <1>5, <2>2, <3>1, <3>2 DEF CurrentOf, InMeta, Owns, RegFields
    <3> HIDE DEF c
    <3> QED
      BY <1>1, <1>5, <3>1, <3>2, <3>3, CurInv
  <2>4. CASE status # "ok"
    <3> DEFINE c == [Cur EXCEPT !.at = "guest", !.rc = NoRc]
    <3>1. SetCur(c) /\ cpu' = cpu /\ ses' = [ses EXCEPT !.error = TRUE, !.halt = TRUE]
      BY <2>1, <2>4 DEF MetaReturns
    <3>2. /\ DOMAIN c = CallFields /\ c.kind = Cur.kind /\ c.t = Cur.t /\ c.prev = Cur.prev
          /\ c.at = "guest" /\ c.id = Cur.id /\ c.done = Cur.done
      BY <1>1 DEF CallFields
    <3>3. /\ DOMAIN ses' = SesFields /\ ses'.error /\ ses'.halt /\ ses'.fnDone = ses.fnDone
          /\ ses'.token = ses.token /\ ses'.active = ses.active /\ ses'.next = ses.next
          /\ ses'.exch = ses.exch /\ ses'.trapped = ses.trapped /\ ses'.pending = ses.pending
      BY <1>1, <3>1 DEF SesFields
    <3>4. ~ses.trapped => CurrentOf(c, cpu', ses', host, mode) /\ WindowOf(ses', host, mode)
      BY <1>1, <1>5, <2>2, <3>1, <3>2, <3>3 DEF CurrentOf, WindowOf, InMeta, Owns
    <3> HIDE DEF c
    <3> QED
      BY <1>1, <1>5, <3>1, <3>2, <3>3, <3>4, CurInv
  <2> QED
    BY <2>3, <2>4
<1>6. CASE Cur.rc.how \notin {"sync", "meta"}
  <2>1. ParkedReturns(status, k)
    BY <1>6 DEF CallbackEnds
  <2>2. \E stack, end : finish_reverse_call(ses, Cur.rc, end, stack)
    BY <2>1, Zenon DEF ParkedReturns
  <2>3. PICK stack, end : finish_reverse_call(ses, Cur.rc, end, stack)
    BY <2>2, Zenon
  <2>4. ~ses.trapped => Keeps(Cur, Cur.rc, mode) /\ mode # "sync"
    BY <1>2, <1>6 DEF Keeps
  <2> QED
    BY <1>1, <2>3, <2>4, FinishInv, Zenon
<1> QED
  BY <1>4, <1>5, <1>6

\* A step of a drive loop that only moves the current call, and may clear or set
\* the machine's halt.
LEMMA MoveInv ==
    ASSUME NEW at, BridgeInv, calls # << >>, mode' = mode, host' = host, cpu' = cpu,
           SetCur([Cur EXCEPT !.at = at]),
           DOMAIN ses' = SesFields, ses'.trapped = ses.trapped, ses'.token = ses.token,
           ses'.active = ses.active, ses'.next = ses.next, ses'.exch = ses.exch,
           ~ses.trapped => /\ Cur.at \in {"enter", "guest"} /\ at \in {"enter", "guest"}
                           /\ Cur.at = "guest" => ~ses.fnDone
                           /\ ~ses'.fnDone
                           /\ mode = "sync" => ~ses'.pending
                           /\ at = "guest" => ~ses'.halt \/ ses'.error
                           /\ ses'.error => at = "guest" /\ ses'.halt
    PROVE  BridgeInv'
<1> DEFINE c == [Cur EXCEPT !.at = at]
<1>1. /\ DOMAIN c = CallFields /\ c.kind = Cur.kind /\ c.t = Cur.t /\ c.prev = Cur.prev
      /\ c.at = at /\ c.id = Cur.id /\ c.done = Cur.done
  BY CurFields DEF CallFields
<1>2. ~ses.trapped => Owns(Cur, cpu, ses.token, ses.active) /\ host.exch = Cur.t
  BY CurFields DEF CurrentOf
<1>3. ~ses.trapped => CurrentOf(c, cpu', ses', host, mode)
  BY <1>1, <1>2 DEF CurrentOf, InMeta, Owns
<1>4. ~ses.trapped => WindowOf(ses', host, mode)
  BY CurFields DEF WindowOf
<1>5. SetCur(c)
  OBVIOUS
<1> HIDE DEF c
<1> QED
  BY <1>1, <1>3, <1>4, <1>5, CurInv

\* The loops of hl_bridged_trampoline and wasm_bridged_drive around run_frame.
LEMMA DrivesInv == BridgeInv /\ Drives => BridgeInv'
<1> SUFFICES ASSUME BridgeInv, Drives PROVE BridgeInv'
  OBVIOUS
<1>0. calls # << >>
  BY DEF Drives, Enter, Reexecute, TakeReverseCall, CallDone, CallFails, CallTraps,
         CallContinues, RunFrameReturns
<1>1. /\ DOMAIN Cur = CallFields /\ DOMAIN ses = SesFields /\ mode \in {"sync", "hl", "web"}
      /\ ~ses.trapped => CurrentOf(Cur, cpu, ses, host, mode) /\ WindowOf(ses, host, mode)
  BY <1>0, CurFields
<1>2. CASE Enter
  <2>1. /\ Cur.at = "enter" /\ ~ses.error /\ ses' = [ses EXCEPT !.fnDone = FALSE, !.halt = FALSE]
        /\ SetCur([Cur EXCEPT !.at = "guest"]) /\ mode' = mode /\ cpu' = cpu /\ host' = host
    BY <1>2 DEF Enter
  <2>2. /\ DOMAIN ses' = SesFields /\ ses'.trapped = ses.trapped /\ ses'.token = ses.token
        /\ ses'.active = ses.active /\ ses'.next = ses.next /\ ses'.exch = ses.exch
        /\ ~ses'.fnDone /\ ~ses'.halt /\ ses'.pending = ses.pending /\ ~ses'.error
    BY <1>1, <2>1 DEF SesFields
  <2>3. ~ses.trapped /\ mode = "sync" => ~ses.pending
    BY <1>1 DEF WindowOf
  <2> QED
    BY <1>0, <2>1, <2>2, <2>3, MoveInv
<1>3. CASE Reexecute
  <2>1. /\ Cur.at = "enter" /\ ses.error /\ ~ses.trapped
        /\ SetCur([Cur EXCEPT !.at = "guest"]) /\ mode' = mode /\ cpu' = cpu /\ host' = host
    BY <1>3 DEF Reexecute
  <2>2. CASE ses' = [ses EXCEPT !.halt = TRUE, !.fnDone = FALSE]
    <3>1. /\ DOMAIN ses' = SesFields /\ ses'.trapped = ses.trapped /\ ses'.token = ses.token
          /\ ses'.active = ses.active /\ ses'.next = ses.next /\ ses'.exch = ses.exch
          /\ ~ses'.fnDone /\ ses'.pending = ses.pending /\ ses'.error = ses.error /\ ses'.halt
      BY <1>1, <2>2 DEF SesFields
    <3>2. mode = "sync" => ~ses.pending
      BY <1>1, <2>1 DEF WindowOf
    <3> QED
      BY <1>0, <2>1, <3>1, <3>2, MoveInv
  <2>3. CASE ses' = [Parked(ses, ReverseCall(Cur.rc.nargs, Cur.rc.nres, Cur.rc.prot))
                        EXCEPT !.fnDone = FALSE]
    <3>1. /\ DOMAIN ses' = SesFields /\ ses'.trapped = ses.trapped /\ ses'.token = ses.token
          /\ ses'.active = ses.active /\ ses'.next = ses.next /\ ses'.exch = ses.exch
          /\ ~ses'.fnDone /\ ses'.error = ses.error /\ ses'.halt
      BY <1>1, <2>3 DEF SesFields, Parked
    <3>2. mode # "sync"
      BY <1>1, <2>1 DEF CurrentOf
    <3> QED
      BY <1>0, <2>1, <3>1, <3>2, MoveInv
  <2> QED
    BY <1>3, <2>2, <2>3 DEF Reexecute
<1>4. CASE CallContinues
  BY <1>0, <1>1, <1>4, MoveInv, Zenon
    DEF CallContinues, RunFrameReturns, Outcome, WindowOf, CurrentOf
<1>5. CASE CallDone
  <2>1. Cur.at = "guest" /\ ses.fnDone
    BY <1>5 DEF CallDone, RunFrameReturns, Outcome
  <2>2. ~ses.trapped => ~ses.error
    BY <1>1, <2>1 DEF CurrentOf
  <2> QED
    BY <1>0, <1>1, <1>5, <2>2, PopInv DEF CallDone, Attach, SesFields
<1>6. CASE CallFails
  BY <1>0, <1>1, <1>6, PopInv DEF CallFails, Attach, bridge_error_unwind, SesFields
<1>7. CASE CallTraps
  <2>1. ses.trapped
    BY <1>7 DEF CallTraps, RunFrameReturns, Outcome
  <2> QED
    BY <1>0, <1>1, <1>7, <2>1, PopInv, Zenon DEF CallTraps, Attach, SesFields
<1>8. CASE TakeReverseCall
  <2> DEFINE rc == ses.handoff
             c == [Cur EXCEPT !.at = "lua", !.rc = rc]
  <2>1. /\ RunFrameReturns /\ Outcome = "REVERSE_CALL_PENDING"
        /\ mode' = mode /\ host' = host
    BY <1>8 DEF TakeReverseCall
  <2>2. ~ses.trapped => Keeps(Cur, rc, mode) /\ mode # "sync" /\ ~ses.error
    BY <1>1, <2>1 DEF RunFrameReturns, Outcome, CurrentOf, WindowOf
  <2>3. /\ DOMAIN reverse_call_take = SesFields /\ reverse_call_take.next = ses.next
        /\ reverse_call_take.exch = ses.exch /\ reverse_call_take.trapped = ses.trapped
        /\ ~reverse_call_take.pending /\ reverse_call_take.active = ses.active
        /\ reverse_call_take.token = ses.token /\ reverse_call_take.fnDone = ses.fnDone
        /\ reverse_call_take.error = ses.error
    BY <1>1 DEF reverse_call_take, SesFields
  <2>4. CASE pool[rc.exch].dead
    <3>1. \E status, stack : finish_reverse_call(reverse_call_take, rc, status, stack)
      BY <1>8, <2>4, Zenon DEF TakeReverseCall
    <3>2. PICK status, stack : finish_reverse_call(reverse_call_take, rc, status, stack)
      BY <3>1, Zenon
    <3> HIDE DEF rc
    <3> QED
      BY <1>0, <2>1, <2>2, <2>3, <3>2, FinishInv, Zenon
  <2>5. CASE ~pool[rc.exch].dead
    <3>1. ses' = reverse_call_take /\ SetCur(c) /\ cpu' = cpu
      BY <1>8, <2>5 DEF TakeReverseCall
    <3>2. /\ DOMAIN c = CallFields /\ c.kind = Cur.kind /\ c.t = Cur.t /\ c.prev = Cur.prev
          /\ c.at = "lua" /\ c.id = Cur.id /\ c.done = Cur.done /\ c.rc = rc
      BY <1>1 DEF CallFields
    <3>3. ~ses.trapped => Keeps(c, c.rc, mode) /\ ~InMeta(c)
      BY <1>1, <2>2, <3>2 DEF Keeps, Owns, InMeta
    <3>4. ~ses.trapped => CurrentOf(c, cpu', ses', host, mode) /\ WindowOf(ses', host, mode)
      BY <1>1, <2>2, <2>3, <3>1, <3>2, <3>3 DEF CurrentOf, WindowOf
    <3> HIDE DEF c
    <3> QED
      BY <1>0, <2>1, <2>3, <3>1, <3>2, <3>4, CurInv
  <2> QED
    BY <2>4, <2>5
<1> QED
  BY <1>2, <1>3, <1>4, <1>5, <1>6, <1>7, <1>8 DEF Drives

\* A debugger stops a callback and lets it go on (lua_yieldk, wasm_bridged_resume_k).
LEMMA PauseInv == BridgeInv /\ (Pause \/ Resume) => BridgeInv'
<1> SUFFICES ASSUME BridgeInv, NEW at \in {"lua", "paused"},
                    SetCur([Cur EXCEPT !.at = at]), calls # << >>,
                    (Cur.at = "lua" /\ Cur.rc.how = "web") \/ Cur.at = "paused",
                    UNCHANGED <<mode, cpu, ses, host>>
             PROVE  BridgeInv'
  BY DEF Pause, Resume, InCallback
<1> DEFINE c == [Cur EXCEPT !.at = at]
<1>1. /\ DOMAIN Cur = CallFields /\ DOMAIN ses = SesFields /\ mode \in {"sync", "hl", "web"}
      /\ ~ses.trapped => CurrentOf(Cur, cpu, ses, host, mode) /\ WindowOf(ses, host, mode)
  BY CurFields
<1>2. /\ DOMAIN c = CallFields /\ c.kind = Cur.kind /\ c.t = Cur.t /\ c.prev = Cur.prev
      /\ c.at = at /\ c.id = Cur.id /\ c.done = Cur.done /\ c.rc = Cur.rc
  BY <1>1 DEF CallFields
<1>3. ~ses.trapped => Keeps(Cur, Cur.rc, mode)
  BY <1>1 DEF CurrentOf, InMeta
<1>4. ~ses.trapped => Keeps(c, c.rc, mode) /\ ~InMeta(c)
  BY <1>1, <1>2, <1>3 DEF Keeps, Owns, InMeta
<1>5. ~ses.trapped => CurrentOf(c, cpu', ses', host, mode)
  BY <1>1, <1>2, <1>4 DEF CurrentOf
<1>6. SetCur(c)
  OBVIOUS
<1> HIDE DEF c
<1> QED
  BY <1>1, <1>2, <1>5, <1>6, CurInv

\* The invariant holds after every step.
LEMMA BridgeStep ==
    ASSUME BridgeInv, ~MetaCallsNative, [Next]_vars
    PROVE  BridgeInv'
<1>1. CASE Next
  BY <1>1, LuaInv, EndsInv, GuestInv, DrivesInv, PauseInv DEF Next
<1>2. CASE UNCHANGED vars
  BY <1>2, SameInv DEF vars, BridgeInv, Shape, Current, Window
<1> QED
  BY <1>1, <1>2

\* The registers, the token and the exchange thread native code runs with are
\* those of the innermost call, however deep native code and Lua call each other
\* and however the nested calls end, as long as no metamethod calls native code
\* (blyt_session_save_call_frame, blyt_session_restore_call_frame).
THEOREM CallsKeepTheirFrame ==
    ASSUME ~MetaCallsNative
    PROVE  Spec => []OwnFrame
<1>1. Init => BridgeInv
  BY InitBridge
<1>2. BridgeInv /\ [Next]_vars => BridgeInv'
  BY BridgeStep
<1>3. BridgeInv => OwnFrame
  <2> SUFFICES ASSUME BridgeInv, GuestRuns
               PROVE  /\ cpu.fn = Cur.id /\ cpu.pc = Cur.done
                      /\ Cur.kind = "bridged" =>
                             ses.active /\ cpu.tok = ses.token /\ ses.exch = Cur.t
    BY DEF OwnFrame
  <2> QED
    BY Executing DEF Owns, WindowOf
<1> QED
  BY <1>1, <1>2, <1>3, PTL DEF Spec

-----------------------------------------------------------------------------
\* Outside native code Lua has folded the whole native heap; inside it the native
\* half has been told of all of Lua's.
Heaps(h) ==
    /\ DOMAIN h = {"lua", "nat", "peer", "fold", "clean"}
    /\ h.lua \in Nat /\ h.nat \in Nat /\ h.peer \in Nat /\ h.fold \in Nat

HeapInv ==
    /\ IsSeq(calls)
    /\ Heaps(heap)
    /\ heap.clean => /\ heap.lua + heap.nat <= Budget
                     /\ IF calls = << >> THEN heap.fold = heap.nat ELSE heap.lua <= heap.peer

\* A step that moves the current call and leaves the heaps alone.
LEMMA HeapKept ==
    ASSUME HeapInv, heap' = heap, calls # << >>, NEW c, SetCur(c)
    PROVE  HeapInv'
<1>1. IsSeq(calls') /\ calls' # << >>
  BY Replaced, Zenon DEF HeapInv, SetCur
<1> QED
  BY <1>1 DEF HeapInv

\* Both halves stay within the one budget as long as no call failed and no
\* callback allocated, however often they call each other
\* (hl_budget_enter_native, hl_budget_leave_native).
THEOREM BudgetAlwaysShared == Spec => []BudgetShared
<1>1. Init => HeapInv
  <2> SUFFICES ASSUME Init PROVE HeapInv
    OBVIOUS
  <2>1. calls \in Seq({})
    BY DEF Init
  <2> QED
    BY <2>1, BridgeAssumption DEF Init, HeapInv, Heaps, IsSeq
<1>2. HeapInv /\ [Next]_vars => HeapInv'
  <2> SUFFICES ASSUME HeapInv, [Next]_vars PROVE HeapInv'
    OBVIOUS
  <2>0. /\ Heaps(heap) /\ heap.lua \in Nat /\ heap.nat \in Nat /\ heap.peer \in Nat
        /\ heap.fold \in Nat /\ Budget \in Nat /\ IsSeq(calls)
    BY BridgeAssumption DEF HeapInv, Heaps
  <2>1. CASE LuaHeap
    <3>0. calls' = calls
      BY <2>1 DEF LuaHeap
    <3>1. CASE /\ heap.lua + heap.fold < Budget
               /\ heap' = [heap EXCEPT !.lua = @ + 1, !.clean = @ /\ calls = << >>]
      <4>1. /\ heap'.lua = heap.lua + 1 /\ heap'.nat = heap.nat /\ heap'.fold = heap.fold
            /\ heap'.peer = heap.peer /\ heap'.clean = (heap.clean /\ calls = << >>)
        BY <2>0, <3>1 DEF Heaps
      <4>2. Heaps(heap')
        BY <2>0, <3>1 DEF Heaps
      <4>3. ASSUME heap'.clean PROVE heap.clean /\ calls = << >> /\ heap.fold = heap.nat
        BY <4>1, <4>3, Zenon DEF HeapInv
      <4> QED
        BY <2>0, <3>0, <3>1, <4>1, <4>2, <4>3 DEF HeapInv
    <3>2. CASE heap.lua > 0 /\ heap' = [heap EXCEPT !.lua = @ - 1]
      <4>1. /\ heap'.lua = heap.lua - 1 /\ heap'.nat = heap.nat /\ heap'.fold = heap.fold
            /\ heap'.peer = heap.peer /\ heap'.clean = heap.clean
        BY <2>0, <3>2 DEF Heaps
      <4>2. Heaps(heap')
        BY <2>0, <3>2 DEF Heaps
      <4> QED
        BY <2>0, <3>0, <3>2, <4>1, <4>2 DEF HeapInv
    <3> QED
      BY <2>1, <3>1, <3>2 DEF LuaHeap
  <2>2. ASSUME NEW c, calls' = Append(calls, c), heap' = budget_enter_native PROVE HeapInv'
    <3>1. IsSeq(calls') /\ calls' # << >>
      BY <2>2, Pushed, Zenon DEF HeapInv
    <3> QED
      <4>1. /\ heap'.lua = heap.lua /\ heap'.nat = heap.nat /\ heap'.peer = heap.lua
            /\ heap'.clean = heap.clean /\ Heaps(heap')
        BY <2>0, <2>2 DEF budget_enter_native, Heaps
      <4> QED
        BY <2>0, <3>1, <4>1 DEF HeapInv
  <2>3. CASE calls' = calls /\ heap' = heap
    BY <2>3 DEF HeapInv
  <2>4. CASE NatHeap
    <3>0. calls # << >> /\ (\E c : SetCur(c))
      BY <2>4 DEF NatHeap, Step, GuestRuns
    <3>1. IsSeq(calls') /\ calls' # << >> /\ calls # << >>
      BY <2>0, <3>0, Replaced, Zenon DEF SetCur
    <3>2. CASE heap.nat + heap.peer < Budget /\ heap' = [heap EXCEPT !.nat = @ + 1]
      <4>1. /\ heap'.lua = heap.lua /\ heap'.nat = heap.nat + 1 /\ heap'.peer = heap.peer
            /\ heap'.clean = heap.clean /\ Heaps(heap')
        BY <2>0, <3>2 DEF Heaps
      <4> QED
        BY <2>0, <3>1, <3>2, <4>1 DEF HeapInv
    <3>3. CASE heap.nat > 0 /\ heap' = [heap EXCEPT !.nat = @ - 1]
      <4>1. /\ heap'.lua = heap.lua /\ heap'.nat = heap.nat - 1 /\ heap'.peer = heap.peer
            /\ heap'.clean = heap.clean /\ Heaps(heap')
        BY <2>0, <3>3 DEF Heaps
      <4> QED
        BY <2>0, <3>1, <3>3, <4>1 DEF HeapInv
    <3> QED
      BY <2>4, <3>2, <3>3 DEF NatHeap
  <2>5. ASSUME calls # << >>, calls' = Callers, heap' \in {budget_leave_native, Unsettled}
        PROVE  HeapInv'
    <3>1. IsSeq(calls')
      BY <2>0, <2>5, Popped, Zenon DEF Callers
    <3> QED
      BY <2>0, <2>5, <3>1 DEF HeapInv, Heaps, budget_leave_native, Unsettled
  <2>6. CASE LuaSteps
    BY <2>1, <2>2, <2>3, <2>6 DEF LuaSteps, LuaCatches, typed_trampoline, bridged_trampoline
  <2>7. CASE Ends
    <3>1. calls # << >> /\ heap' = heap
      BY <2>7, Zenon DEF Ends, CallbackEnds, InCallback
    <3>2. \E c : SetCur(c)
      BY <2>7 DEF Ends, CallbackEnds, SyncReturns, MetaReturns, ParkedReturns,
                  finish_reverse_call
    <3> QED
      BY <3>1, <3>2, HeapKept
  <2>8. CASE GuestSteps
    <3>1. CASE NatHeap
      BY <2>4, <3>1
    <3>2. CASE ~NatHeap
      <4>1. heap' = heap /\ calls # << >>
        BY <2>8, <3>2, Zenon DEF GuestSteps, bridge_lua_op, OpPcall, OpError, OpTraps, OpMeta,
                          FnReturn, Step, GuestRuns
      <4>2. calls' = calls \/ (\E c : SetCur(c))
        BY <2>8, <3>2, Zenon DEF GuestSteps, bridge_lua_op, OpTail, bridge_fail, OpPcall, PcallStarts,
                          OpError, OpTraps, OpMeta, FnReturn
      <4> QED
        BY <2>3, <4>1, <4>2, HeapKept
    <3> QED
      BY <3>1, <3>2
  <2>9. CASE Drives
    <3>1. CASE CallDone \/ CallFails \/ CallTraps
      BY <2>5, <3>1 DEF CallDone, CallFails, CallTraps, RunFrameReturns
    <3>2. CASE ~(CallDone \/ CallFails \/ CallTraps)
      <4>1. heap' = heap /\ calls # << >>
        BY <2>9, <3>2 DEF Drives, Enter, Reexecute, TakeReverseCall, CallContinues,
                          RunFrameReturns
      <4>2. \E c : SetCur(c)
        BY <2>9, <3>2 DEF Drives, Enter, Reexecute, TakeReverseCall, CallContinues,
                          finish_reverse_call
      <4> QED
        BY <4>1, <4>2, HeapKept
    <3> QED
      BY <3>1, <3>2
  <2>10. CASE Pause \/ Resume
    <3>1. heap' = heap /\ calls # << >> /\ (\E c : SetCur(c))
      BY <2>10 DEF Pause, Resume, InCallback
    <3> QED
      BY <3>1, HeapKept
  <2>11. CASE UNCHANGED vars
    BY <2>3, <2>11 DEF vars
  <2> QED
    BY <2>6, <2>7, <2>8, <2>9, <2>10, <2>11 DEF Next
<1>3. HeapInv => BudgetShared
  BY DEF HeapInv, BudgetShared
<1> QED
  BY <1>1, <1>2, <1>3, PTL DEF Spec
-----------------------------------------------------------------------------
\* The nesting, kept whatever happens to the machine: every call remembers the
\* level and the thread it was made from, so that its end restores them.
Up(c) == IF c.kind = "bridged" THEN c.base + 1 ELSE c.base
Linked(c) ==
    /\ c.kind \in {"typed", "bridged"} /\ c.base \in Nat
    /\ c.t = IF c.kind = "bridged" THEN c.base + 1 ELSE c.prev

Chain ==
    /\ \A i \in 1 .. Len(calls) : Linked(calls[i])
    /\ \A i \in 1 .. Len(calls), j \in 1 .. Len(calls) : i < j => Up(calls[i]) <= calls[j].base
    /\ \A i \in 1 .. Len(calls) - 1 :
           calls[i + 1].base = Up(calls[i]) /\ calls[i + 1].prev = calls[i].t
    /\ Len(calls) # 0 => calls[1].base = 0 /\ calls[1].prev = 1

\* At each level the thread is the one of the innermost bridged call so far.
ThreadAt(cs, k) ==
    /\ (\A j \in 1 .. k : cs[j].kind # "bridged") => cs[k].t = 1
    /\ \A i \in 1 .. k :
           cs[i].kind = "bridged" /\ (\A j \in i + 1 .. k : cs[j].kind # "bridged")
               => cs[k].t = cs[i].t
Innermost == \A k \in 1 .. Len(calls) : ThreadAt(calls, k)

Bridged == {i \in 1 .. Len(calls) : calls[i].kind = "bridged"}
Counted == IsFiniteSet(Bridged) /\ Cardinality(Bridged) = host.depth

Levels ==
    /\ host.depth = IF Len(calls) = 0 THEN 0 ELSE Up(Cur)
    /\ host.depth <= Depth /\ host.base = host.depth
    /\ host.exch = IF Len(calls) = 0 THEN 1 ELSE Cur.t
    /\ ses.exch = host.exch

Nested == Chain /\ Innermost /\ Counted /\ Levels

\* A new record of the current call, at the same level.
SameCall(c) ==
    /\ DOMAIN c = CallFields /\ c.kind = Cur.kind /\ c.t = Cur.t
    /\ c.prev = Cur.prev /\ c.base = Cur.base

\* The stack of calls has a length, and the current call is on its top.
LEMMA CallsLen ==
    ASSUME Shape
    PROVE  /\ Len(calls) \in Nat /\ (calls = << >> <=> Len(calls) = 0)
           /\ Cur = calls[Len(calls)] /\ (Len(calls) # 0 => DOMAIN Cur = CallFields)
<1>1. PICK S : calls \in Seq(S)
  BY DEF Shape, IsSeq
<1>2. Len(calls) \in Nat /\ (calls = << >> <=> Len(calls) = 0)
  BY <1>1, EmptySeq
<1> QED
  BY <1>2 DEF Cur, Shape

\* A level's thread depends on the calls up to it.
LEMMA ThreadSame ==
    ASSUME NEW a, NEW b, NEW k \in Nat \ {0}, ThreadAt(a, k),
           \A j \in 1 .. k : b[j].kind = a[j].kind /\ b[j].t = a[j].t
    PROVE  ThreadAt(b, k)
<1>1. k \in 1 .. k /\ b[k].t = a[k].t
  OBVIOUS
<1>2. (\A j \in 1 .. k : b[j].kind # "bridged") => b[k].t = 1
  BY <1>1 DEF ThreadAt
<1>3. ASSUME NEW i \in 1 .. k, b[i].kind = "bridged", \A j \in i + 1 .. k : b[j].kind # "bridged"
      PROVE  b[k].t = b[i].t
  <2>1. \A j \in i + 1 .. k : j \in 1 .. k
    OBVIOUS
  <2>2. \A j \in i + 1 .. k : a[j].kind # "bridged"
    BY <1>3, <2>1
  <2>3. a[i].kind = "bridged" /\ b[i].t = a[i].t
    BY <1>3
  <2>4. a[k].t = a[i].t
    BY <2>2, <2>3 DEF ThreadAt
  <2> QED
    BY <1>1, <2>3, <2>4
<1> QED
  BY <1>2, <1>3 DEF ThreadAt

\* The nesting depends on the calls' levels and threads only.
LEMMA NestSame ==
    ASSUME Shape, Shape', Nested, Len(calls') = Len(calls),
           \A i \in 1 .. Len(calls) :
               /\ calls'[i].kind = calls[i].kind /\ calls'[i].t = calls[i].t
               /\ calls'[i].prev = calls[i].prev /\ calls'[i].base = calls[i].base,
           host' = host, ses'.exch = ses.exch
    PROVE  Nested'
<1> DEFINE n == Len(calls)
<1>1. n \in Nat /\ Len(calls') = n /\ Cur = calls[n] /\ Cur' = calls'[n]
  BY CallsLen DEF Cur
<1>2. \A i \in 1 .. n : Up(calls'[i]) = Up(calls[i]) /\ Linked(calls'[i])
  BY DEF Nested, Chain, Up, Linked
<1>3. Chain'
  <2>1. \A i \in 1 .. n, j \in 1 .. n : i < j => Up(calls'[i]) <= calls'[j].base
    BY <1>1, <1>2 DEF Nested, Chain
  <2>2. ASSUME NEW i \in 1 .. n - 1
        PROVE  calls'[i + 1].base = Up(calls'[i]) /\ calls'[i + 1].prev = calls'[i].t
    <3>1. i \in 1 .. n /\ i + 1 \in 1 .. n
      BY <1>1
    <3> QED
      BY <1>2, <3>1 DEF Nested, Chain
  <2>3. n # 0 => calls'[1].base = 0 /\ calls'[1].prev = 1
    BY <1>1 DEF Nested, Chain
  <2> QED
    BY <1>1, <1>2, <2>1, <2>2, <2>3 DEF Chain
<1>4. Innermost'
  <2>1. ASSUME NEW k \in 1 .. n PROVE ThreadAt(calls', k)
    <3>1. k \in Nat \ {0} /\ (\A j \in 1 .. k : j \in 1 .. n) /\ ThreadAt(calls, k)
      BY <1>1 DEF Nested, Innermost
    <3>2. \A j \in 1 .. k : calls'[j].kind = calls[j].kind /\ calls'[j].t = calls[j].t
      BY <3>1
    <3> QED
      BY <3>1, <3>2, ThreadSame
  <2> QED
    BY <1>1, <2>1 DEF Innermost
<1>5. Bridged' = Bridged
  BY <1>1 DEF Bridged
<1>6. n # 0 => Up(Cur') = Up(Cur) /\ Cur'.t = Cur.t
  BY <1>1, <1>2
<1> QED
  BY <1>1, <1>3, <1>4, <1>5, <1>6 DEF Nested, Counted, Levels

\* A step of the current call keeps the nesting.
LEMMA NestSet ==
    ASSUME Shape, Shape', Nested, calls # << >>, NEW c, SetCur(c), SameCall(c),
           host' = host, ses'.exch = ses.exch
    PROVE  Nested'
<1>1. IsSeq(calls) /\ calls' = [calls EXCEPT ![Len(calls)] = c]
  BY DEF Shape, SetCur
<1>2. Len(calls) \in Nat \ {0} /\ Len(calls') = Len(calls) /\ calls'[Len(calls)] = c
  BY <1>1, Replaced, Zenon
<1>3. \A i \in 1 .. Len(calls) - 1 : calls'[i] = calls[i]
  BY <1>1, Replaced
<1>4. Cur = calls[Len(calls)]
  BY DEF Cur
<1>5. ASSUME NEW i \in 1 .. Len(calls)
      PROVE  /\ calls'[i].kind = calls[i].kind /\ calls'[i].t = calls[i].t
             /\ calls'[i].prev = calls[i].prev /\ calls'[i].base = calls[i].base
  <2>1. CASE i = Len(calls)
    BY <1>2, <1>4, <2>1 DEF SameCall
  <2>2. CASE i # Len(calls)
    BY <1>2, <1>3, <2>2
  <2> QED
    BY <2>1, <2>2
<1> QED
  BY <1>2, <1>5, NestSame

\* A call is made: it goes one level up from the one that made it.
LEMMA NestPush ==
    ASSUME Shape, Shape', Nested, NEW c, calls' = Append(calls, c), Linked(c),
           c.base = host.base, c.prev = host.exch, Up(c) <= Depth,
           host'.depth = Up(c), host'.base = Up(c), host'.exch = c.t, ses'.exch = c.t
    PROVE  Nested'
<1> DEFINE n == Len(calls)
<1>0. IsSeq(calls)
  BY DEF Shape
<1>1. n \in Nat /\ Len(calls') = n + 1 /\ Cur = calls[n] /\ Cur' = calls'[n + 1]
  BY <1>0, Pushed, CallsLen DEF Cur
<1>2. calls'[n + 1] = c
  BY <1>0, Pushed
<1>3. \A i \in 1 .. n : calls'[i] = calls[i]
  BY <1>0, Pushed
<1>4. \A i \in 1 .. n + 1 : Linked(calls'[i])
  BY <1>1, <1>2, <1>3 DEF Nested, Chain
<1>5. /\ n = 0 => c.base = 0 /\ c.prev = 1
      /\ n # 0 => c.base = Up(calls[n]) /\ c.prev = calls[n].t
  BY <1>1 DEF Nested, Levels
<1>6. \A i \in 1 .. n : Up(calls[i]) \in Nat /\ calls[i].base \in Nat /\ calls[i].base <= Up(calls[i])
  BY DEF Nested, Chain, Linked, Up
<1>7. \A i \in 1 .. n : Up(calls[i]) <= c.base
  <2> SUFFICES ASSUME NEW i \in 1 .. n PROVE Up(calls[i]) <= c.base
    OBVIOUS
  <2>1. CASE i = n
    BY <1>1, <1>5, <1>6, <2>1
  <2>2. CASE i # n
    <3>1. i < n /\ n \in 1 .. n
      BY <1>1, <2>2
    <3>2. Up(calls[i]) <= calls[n].base
      BY <3>1 DEF Nested, Chain
    <3> QED
      BY <1>5, <1>6, <3>1, <3>2
  <2> QED
    BY <2>1, <2>2
<1>8. Chain'
  <2>1. ASSUME NEW i \in 1 .. n + 1, NEW j \in 1 .. n + 1, i < j
        PROVE  Up(calls'[i]) <= calls'[j].base
    <3>1. i \in 1 .. n /\ calls'[i] = calls[i]
      BY <1>1, <1>3, <2>1
    <3>2. CASE j = n + 1
      BY <1>2, <1>7, <3>1, <3>2
    <3>3. CASE j # n + 1
      <4>1. j \in 1 .. n /\ calls'[j] = calls[j]
        BY <1>1, <1>3, <3>3
      <4>2. Up(calls[i]) <= calls[j].base
        BY <2>1, <3>1, <4>1 DEF Nested, Chain
      <4> QED
        BY <3>1, <4>1, <4>2
    <3> QED
      BY <3>2, <3>3
  <2>2. ASSUME NEW i \in 1 .. n
        PROVE  calls'[i + 1].base = Up(calls'[i]) /\ calls'[i + 1].prev = calls'[i].t
    <3>1. CASE i = n
      BY <1>1, <1>2, <1>3, <1>5, <3>1
    <3>2. CASE i # n
      <4>1. i \in 1 .. n - 1 /\ i + 1 \in 1 .. n
        BY <1>1, <3>2
      <4> QED
        BY <1>3, <4>1 DEF Nested, Chain
    <3> QED
      BY <3>1, <3>2
  <2>3. calls'[1].base = 0 /\ calls'[1].prev = 1
    <3>1. CASE n = 0
      BY <1>2, <1>5, <3>1
    <3>2. CASE n # 0
      BY <1>1, <1>3, <3>2 DEF Nested, Chain
    <3> QED
      BY <3>1, <3>2
  <2> QED
    BY <1>1, <1>4, <2>1, <2>2, <2>3 DEF Chain
<1>9. Innermost'
  <2> SUFFICES ASSUME NEW k \in 1 .. n + 1 PROVE ThreadAt(calls', k)
    BY <1>1 DEF Innermost
  <2>1. CASE k \in 1 .. n
    <3>1. k \in Nat \ {0} /\ (\A j \in 1 .. k : j \in 1 .. n) /\ ThreadAt(calls, k)
      BY <1>1, <2>1 DEF Nested, Innermost
    <3>2. \A j \in 1 .. k : calls'[j].kind = calls[j].kind /\ calls'[j].t = calls[j].t
      BY <1>3, <3>1
    <3> QED
      BY <3>1, <3>2, ThreadSame, Zenon
  <2>2. CASE k = n + 1 /\ c.kind = "bridged"
    <3>1. calls'[k] = c /\ k \in 1 .. k
      BY <1>1, <1>2, <2>2
    <3>2. ASSUME NEW i \in 1 .. k, \A j \in i + 1 .. k : calls'[j].kind # "bridged" PROVE i = k
      <4>1. i # k => k \in i + 1 .. k
        BY <1>1, <2>2
      <4> QED
        BY <2>2, <3>1, <3>2, <4>1
    <3> QED
      BY <2>2, <3>1, <3>2 DEF ThreadAt
  <2>3. CASE k = n + 1 /\ c.kind # "bridged"
    <3>1. calls'[k] = c /\ c.t = c.prev
      BY <1>2, <2>3 DEF Linked
    <3>2. CASE n = 0
      <4>1. \A i \in 1 .. k : i = k
        BY <2>3, <3>2
      <4> QED
        BY <1>5, <2>3, <3>1, <3>2, <4>1 DEF ThreadAt
    <3>3. CASE n # 0
      <4>1. n \in 1 .. n /\ c.t = calls[n].t
        BY <1>1, <1>5, <3>1, <3>3
      <4>2. ASSUME \A j \in 1 .. k : calls'[j].kind # "bridged" PROVE c.t = 1
        <5>1. \A j \in 1 .. n : calls[j].kind # "bridged"
          BY <1>1, <1>3, <2>3, <4>2
        <5> QED
          BY <4>1, <5>1 DEF Nested, Innermost, ThreadAt
      <4>3. ASSUME NEW i \in 1 .. k, calls'[i].kind = "bridged",
                   \A j \in i + 1 .. k : calls'[j].kind # "bridged"
            PROVE  c.t = calls'[i].t
        <5>1. i \in 1 .. n
          BY <1>1, <2>3, <3>1, <4>3
        <5>2. \A j \in i + 1 .. n : j \in 1 .. n /\ j \in i + 1 .. k
          BY <1>1, <2>3, <5>1
        <5>3. calls[i].kind = "bridged" /\ (\A j \in i + 1 .. n : calls[j].kind # "bridged")
          BY <1>3, <4>3, <5>1, <5>2
        <5>4. calls[n].t = calls[i].t
          BY <4>1, <5>1, <5>3 DEF Nested, Innermost, ThreadAt
        <5> QED
          BY <1>3, <4>1, <5>1, <5>4
      <4> QED
        BY <3>1, <4>2, <4>3 DEF ThreadAt
    <3> QED
      BY <3>2, <3>3
  <2> QED
    BY <1>1, <2>1, <2>2, <2>3
<1>10. Counted'
  <2>1. IsFiniteSet(Bridged) /\ Cardinality(Bridged) = c.base /\ n + 1 \notin Bridged
    BY <1>1 DEF Nested, Counted, Levels, Bridged
  <2>2. CASE c.kind = "bridged"
    <3>1. Bridged' = Bridged \cup {n + 1}
      BY <1>1, <1>2, <1>3, <2>2 DEF Bridged
    <3>2. /\ IsFiniteSet(Bridged \cup {n + 1})
          /\ Cardinality(Bridged \cup {n + 1}) = Cardinality(Bridged) + 1
      BY <2>1, FS_AddElement
    <3> QED
      BY <2>1, <2>2, <3>1, <3>2 DEF Counted, Up
  <2>3. CASE c.kind # "bridged"
    <3>1. Bridged' = Bridged
      BY <1>1, <1>2, <1>3, <2>3 DEF Bridged
    <3> QED
      BY <2>1, <2>3, <3>1 DEF Counted, Up
  <2> QED
    BY <2>2, <2>3
<1>11. Levels'
  BY <1>1, <1>2 DEF Levels
<1> QED
  BY <1>8, <1>9, <1>10, <1>11 DEF Nested

\* A call ends: the level and the thread are the caller's again.
LEMMA NestPop ==
    ASSUME Shape, Shape', Nested, calls # << >>, calls' = Callers, host' = PopNesting,
           ses'.exch = Attach(ses).exch
    PROVE  Nested'
<1> DEFINE n == Len(calls) - 1
<1>0. IsSeq(calls) /\ calls' = Cut(calls, n)
  BY DEF Shape, Callers
<1>1. n \in Nat /\ Len(calls) = n + 1 /\ Len(calls') = n /\ Cur = calls[n + 1] /\ Cur' = calls'[n]
  <2>1. Len(calls) \in Nat \ {0} /\ Len(calls') = Len(calls) - 1
    BY <1>0, Popped, Zenon
  <2> QED
    BY <2>1 DEF Cur
<1>2. \A i \in 1 .. n : calls'[i] = calls[i] /\ i \in 1 .. n + 1
  BY <1>0, <1>1, Popped
<1>3. Linked(Cur) /\ n + 1 \in 1 .. n + 1
  BY <1>1 DEF Nested, Chain
<1>4. /\ n = 0 => Cur.base = 0 /\ Cur.prev = 1
      /\ n # 0 => Cur.base = Up(Cur') /\ Cur.prev = Cur'.t
  <2>1. n # 0 => n \in 1 .. n /\ n \in 1 .. Len(calls) - 1
    BY <1>1
  <2> QED
    BY <1>1, <1>2, <2>1 DEF Nested, Chain
<1>5. Chain'
  <2>1. \A i \in 1 .. n : Linked(calls'[i])
    BY <1>1, <1>2 DEF Nested, Chain
  <2>2. \A i \in 1 .. n, j \in 1 .. n : i < j => Up(calls'[i]) <= calls'[j].base
    BY <1>1, <1>2 DEF Nested, Chain
  <2>3. ASSUME NEW i \in 1 .. n - 1
        PROVE  calls'[i + 1].base = Up(calls'[i]) /\ calls'[i + 1].prev = calls'[i].t
    <3>1. i \in 1 .. n /\ i + 1 \in 1 .. n /\ i \in 1 .. Len(calls) - 1
      BY <1>1
    <3> QED
      BY <1>2, <3>1 DEF Nested, Chain
  <2>4. n # 0 => calls'[1].base = 0 /\ calls'[1].prev = 1
    BY <1>1, <1>2 DEF Nested, Chain
  <2> QED
    BY <1>1, <2>1, <2>2, <2>3, <2>4 DEF Chain
<1>6. Innermost'
  <2>1. ASSUME NEW k \in 1 .. n PROVE ThreadAt(calls', k)
    <3>1. k \in Nat \ {0} /\ (\A j \in 1 .. k : j \in 1 .. n) /\ ThreadAt(calls, k)
      BY <1>1, <1>2 DEF Nested, Innermost
    <3>2. \A j \in 1 .. k : calls'[j].kind = calls[j].kind /\ calls'[j].t = calls[j].t
      BY <1>2, <3>1, Zenon
    <3> QED
      BY <3>1, <3>2, ThreadSame
  <2> QED
    BY <1>1, <2>1 DEF Innermost
<1>7. /\ host'.base = Cur.base
      /\ host'.depth = IF Cur.kind = "bridged" THEN host.depth - 1 ELSE host.depth
      /\ host'.exch = IF Cur.kind = "bridged" THEN Cur.prev ELSE host.exch
      /\ ses'.exch = IF Cur.kind = "bridged" THEN Cur.prev ELSE ses.exch
  BY DEF PopNesting, Attach, Shape, HostFields, SesFields
<1>8. host.depth = Up(Cur) /\ host.exch = Cur.t /\ ses.exch = Cur.t /\ host.depth <= Depth
  BY <1>1 DEF Nested, Levels
<1>9. Depth \in Nat /\ Cur.base \in Nat
  BY <1>3, BridgeAssumption DEF Linked
<1>10. host'.depth = Cur.base /\ Cur.base <= Depth /\ host'.exch = Cur.prev /\ ses'.exch = Cur.prev
  BY <1>3, <1>7, <1>8, <1>9 DEF Up, Linked
<1>11. Levels'
  BY <1>1, <1>4, <1>7, <1>10 DEF Levels
<1>12. Counted'
  <2>1. IsFiniteSet(Bridged) /\ Cardinality(Bridged) = Up(Cur)
    BY <1>8 DEF Nested, Counted
  <2>2. CASE Cur.kind = "bridged"
    <3>1. Bridged' = Bridged \ {n + 1} /\ n + 1 \in Bridged
      BY <1>1, <1>2, <1>3, <2>2 DEF Bridged
    <3>2. /\ IsFiniteSet(Bridged \ {n + 1})
          /\ Cardinality(Bridged \ {n + 1}) = Cardinality(Bridged) - 1
      BY <2>1, <3>1, FS_RemoveElement
    <3> QED
      BY <1>9, <1>10, <2>1, <2>2, <3>1, <3>2 DEF Counted, Up
  <2>3. CASE Cur.kind # "bridged"
    <3>1. Bridged' = Bridged
      BY <1>1, <1>2, <1>3, <2>3 DEF Bridged
    <3> QED
      BY <1>10, <2>1, <2>3, <3>1 DEF Counted, Up
  <2> QED
    BY <2>2, <2>3
<1> QED
  BY <1>5, <1>6, <1>11, <1>12 DEF Nested

\* The records a step leaves of the current call are at its level.
LEMMA SameForms ==
    ASSUME DOMAIN Cur = CallFields, NEW a, NEW r
    PROVE  /\ SameCall([Cur EXCEPT !.done = @ + 1])
           /\ SameCall([Cur EXCEPT !.at = a])
           /\ SameCall([Cur EXCEPT !.at = a, !.rc = r])
           /\ SameCall([Cur EXCEPT !.at = a, !.rc = r, !.done = @ + 1])
BY DEF SameCall, CallFields

\* ... and so is one with a new place and callback.
Moves(c, a, r) ==
    \/ c = [Cur EXCEPT !.at = a, !.rc = r]
    \/ c = [Cur EXCEPT !.at = a, !.rc = r, !.done = @ + 1]

LEMMA FormFields ==
    ASSUME DOMAIN Cur = CallFields, NEW a, NEW r, NEW c, Moves(c, a, r)
    PROVE  SameCall(c) /\ c.at = a /\ c.rc = r /\ c.kind = Cur.kind /\ c.t = Cur.t
BY Zenon DEF Moves, SameCall, CallFields

\* ... or the place alone.
LEMMA PlaceFields ==
    ASSUME DOMAIN Cur = CallFields, NEW a, NEW c, c = [Cur EXCEPT !.at = a]
    PROVE  SameCall(c) /\ c.at = a /\ c.rc = Cur.rc /\ c.kind = Cur.kind /\ c.t = Cur.t
BY DEF SameCall, CallFields

\* ... or the count of operations.
LEMMA DoneFields ==
    ASSUME DOMAIN Cur = CallFields, NEW c, c = [Cur EXCEPT !.done = @ + 1]
    PROVE  SameCall(c) /\ c.at = Cur.at
BY DEF SameCall, CallFields

\* A parked callback is finished at the same level.
LEMMA FinishSame ==
    ASSUME DOMAIN Cur = CallFields, NEW s, DOMAIN s = SesFields,
           NEW rc, NEW status, NEW stack, finish_reverse_call(s, rc, status, stack)
    PROVE  ses'.exch = s.exch /\ (\E c : SetCur(c) /\ SameCall(c))
<1>1. \/ /\ ses' = [restore_call_frame(s, rc.frame) EXCEPT !.error = TRUE, !.halt = TRUE]
         /\ SetCur([Cur EXCEPT !.at = "enter", !.rc = rc])
      \/ /\ ses' = restore_call_frame(s, rc.frame)
         /\ SetCur([Cur EXCEPT !.at = "enter", !.rc = NoRc, !.done = @ + 1])
  BY DEF finish_reverse_call
<1>2. ses'.exch = s.exch
  BY <1>1, Zenon DEF restore_call_frame, SesFields
<1>3. \E c : SetCur(c) /\ SameCall(c)
  BY <1>1, SameForms, Zenon
<1> QED
  BY <1>2, <1>3

\* A callback ends at the level it was made from.
LEMMA EndsSame ==
    ASSUME BridgeInv, NEW status, NEW k, CallbackEnds(status, k)
    PROVE  /\ calls # << >> /\ host' = host /\ ses'.exch = ses.exch
           /\ \E c : SetCur(c) /\ SameCall(c)
<1>1. calls # << >> /\ host' = host /\ Cur.at = "lua"
  BY DEF CallbackEnds, InCallback
<1>2. DOMAIN Cur = CallFields /\ DOMAIN ses = SesFields
  BY <1>1, CurFields
<1>3. CASE Cur.rc.how = "sync"
  <2>1. SyncReturns(status, k)
    BY <1>3 DEF CallbackEnds
  <2>2. /\ \/ ses' = [restore_call_frame(ses, Cur.rc.frame) EXCEPT !.error = TRUE, !.halt = TRUE]
           \/ ses' = restore_call_frame(ses, Cur.rc.frame)
        /\ \/ SetCur([Cur EXCEPT !.at = "guest", !.rc = NoRc])
           \/ SetCur([Cur EXCEPT !.at = "guest", !.rc = NoRc, !.done = @ + 1])
    BY <2>1, Zenon DEF SyncReturns
  <2>3. ses'.exch = ses.exch
    BY <1>2, <2>2, Zenon DEF restore_call_frame, SesFields
  <2>4. \E c : SetCur(c) /\ SameCall(c)
    BY <1>2, <2>2, SameForms, Zenon
  <2> QED
    BY <1>1, <2>3, <2>4
<1>4. CASE Cur.rc.how = "meta"
  <2>1. MetaReturns(status)
    BY <1>4 DEF CallbackEnds
  <2>2. /\ ses' = ses \/ ses' = [ses EXCEPT !.error = TRUE, !.halt = TRUE]
        /\ \/ SetCur([Cur EXCEPT !.at = "guest", !.rc = NoRc])
           \/ SetCur([Cur EXCEPT !.at = "guest", !.rc = NoRc, !.done = @ + 1])
    BY <2>1, Zenon DEF MetaReturns
  <2>3. ses'.exch = ses.exch
    BY <1>2, <2>2, Zenon DEF SesFields
  <2>4. \E c : SetCur(c) /\ SameCall(c)
    BY <1>2, <2>2, SameForms, Zenon
  <2> QED
    BY <1>1, <2>3, <2>4
<1>5. CASE Cur.rc.how \notin {"sync", "meta"}
  <2>1. ParkedReturns(status, k)
    BY <1>5 DEF CallbackEnds
  <2>2. \E stack, end : finish_reverse_call(ses, Cur.rc, end, stack)
    BY <2>1, Zenon DEF ParkedReturns
  <2> QED
    BY <1>1, <1>2, <2>2, FinishSame, Zenon
<1> QED
  BY <1>3, <1>4, <1>5

\* The operations of the native half stay at their call's level.
LEMMA GuestSame ==
    ASSUME BridgeInv, GuestSteps
    PROVE  /\ calls # << >> /\ host' = host /\ ses'.exch = ses.exch
           /\ calls' = calls \/ (\E c : SetCur(c) /\ SameCall(c))
<1>1. GuestRuns /\ host' = host
  BY DEF GuestSteps, bridge_lua_op, OpPcall, OpError, OpTraps, OpMeta, NatHeap, FnReturn, Step
<1>2. calls # << >> /\ DOMAIN Cur = CallFields /\ DOMAIN ses = SesFields
  BY <1>1, Executing
<1>3. /\ \/ calls' = calls
         \/ SetCur([Cur EXCEPT !.done = @ + 1])
         \/ \E rc : SetCur([Cur EXCEPT !.at = "lua", !.rc = rc])
      /\ \/ ses' = ses
         \/ ses' = [ses EXCEPT !.error = TRUE, !.halt = TRUE]
         \/ ses' = [ses EXCEPT !.trapped = TRUE, !.halt = TRUE]
         \/ ses' = [ses EXCEPT !.fnDone = TRUE, !.halt = TRUE]
         \/ \E rc : ses' = Parked(ses, rc)
  <2>1. ASSUME NEW op, bridge_lua_op(op)
        PROVE  (calls' = calls \/ SetCur([Cur EXCEPT !.done = @ + 1]))
               /\ (ses' = ses \/ ses' = [ses EXCEPT !.error = TRUE, !.halt = TRUE])
    BY <2>1, Zenon DEF bridge_lua_op, OpTail, bridge_fail
  <2>2. ASSUME NEW nargs, NEW nres, NEW prot, OpPcall(nargs, nres, prot)
        PROVE  /\ calls' = calls \/ \E rc : SetCur([Cur EXCEPT !.at = "lua", !.rc = rc])
               /\ \/ ses' = ses \/ ses' = [ses EXCEPT !.error = TRUE, !.halt = TRUE]
                  \/ \E rc : ses' = Parked(ses, rc)
    BY <2>2, Zenon DEF OpPcall, PcallStarts, bridge_fail
  <2>3. CASE OpError \/ OpTraps \/ NatHeap \/ FnReturn
    BY <2>3, Zenon DEF OpError, OpTraps, NatHeap, FnReturn, bridge_fail
  <2>4. CASE OpMeta
    BY <2>4, Zenon DEF OpMeta
  <2> QED
    BY <2>1, <2>2, <2>3, <2>4, Zenon DEF GuestSteps
<1>4. ses'.exch = ses.exch
  BY <1>2, <1>3, Zenon DEF Parked, SesFields
<1>5. calls' = calls \/ (\E c : SetCur(c) /\ SameCall(c))
  BY <1>2, <1>3, SameForms, Zenon
<1> QED
  BY <1>1, <1>2, <1>4, <1>5

\* The drive loops move a call at its level, until it ends.
LEMMA DrivesSame ==
    ASSUME BridgeInv, Drives, ~CallDone, ~CallFails, ~CallTraps
    PROVE  /\ calls # << >> /\ host' = host /\ ses'.exch = ses.exch
           /\ \E c : SetCur(c) /\ SameCall(c)
<1>1. calls # << >> /\ host' = host
  BY DEF Drives, Enter, Reexecute, TakeReverseCall, CallContinues, RunFrameReturns
<1>2. DOMAIN Cur = CallFields /\ DOMAIN ses = SesFields
  BY <1>1, CurFields
<1>3. CASE Enter \/ CallContinues
  <2>1. /\ ses' = ses \/ ses' = [ses EXCEPT !.fnDone = FALSE, !.halt = FALSE]
        /\ \E a : SetCur([Cur EXCEPT !.at = a])
    BY <1>3, Zenon DEF Enter, CallContinues
  <2>2. ses'.exch = ses.exch
    BY <1>2, <2>1, Zenon DEF SesFields
  <2> QED
    BY <1>1, <1>2, <2>1, <2>2, SameForms, Zenon
<1>4. CASE Reexecute
  <2>1. /\ \/ ses' = [ses EXCEPT !.halt = TRUE, !.fnDone = FALSE]
           \/ \E rc : ses' = [Parked(ses, rc) EXCEPT !.fnDone = FALSE]
        /\ \E a : SetCur([Cur EXCEPT !.at = a])
    BY <1>4, Zenon DEF Reexecute
  <2>2. ses'.exch = ses.exch
    BY <1>2, <2>1, Zenon DEF Parked, SesFields
  <2> QED
    BY <1>1, <1>2, <2>1, <2>2, SameForms, Zenon
<1>5. CASE TakeReverseCall
  <2>1. DOMAIN reverse_call_take = SesFields /\ reverse_call_take.exch = ses.exch
    BY <1>2 DEF reverse_call_take, SesFields
  <2>2. \/ \E rc, status, stack : finish_reverse_call(reverse_call_take, rc, status, stack)
        \/ ses' = reverse_call_take /\ \E rc : SetCur([Cur EXCEPT !.at = "lua", !.rc = rc])
    BY <1>5, Zenon DEF TakeReverseCall
  <2>3. CASE \E rc, status, stack : finish_reverse_call(reverse_call_take, rc, status, stack)
    BY <1>1, <1>2, <2>1, <2>3, FinishSame, Zenon
  <2>4. CASE ses' = reverse_call_take /\ \E rc : SetCur([Cur EXCEPT !.at = "lua", !.rc = rc])
    BY <1>1, <1>2, <2>1, <2>4, SameForms, Zenon
  <2> QED
    BY <2>2, <2>3, <2>4, Zenon
<1> QED
  BY <1>3, <1>4, <1>5, Zenon DEF Drives

\* Before the first call nothing is nested.
LEMMA NestInit == Init => Nested
<1> SUFFICES ASSUME Init PROVE Nested
  OBVIOUS
<1>1. Len(calls) = 0 /\ Depth \in Nat
  BY BridgeAssumption DEF Init
<1>2. Bridged = {}
  BY <1>1 DEF Bridged
<1>3. Counted
  BY <1>2, FS_EmptySet DEF Counted, Init
<1>4. Chain /\ Innermost
  BY <1>1 DEF Chain, Innermost
<1>5. Levels
  BY <1>1 DEF Levels, Init
<1> QED
  BY <1>3, <1>4, <1>5 DEF Nested

\* Every step keeps the nesting.
LEMMA NestStep ==
    ASSUME BridgeInv, BridgeInv', Nested, [Next]_vars
    PROVE  Nested'
<1>0. Shape /\ Shape' /\ DOMAIN ses = SesFields /\ DOMAIN host = HostFields
  BY DEF BridgeInv, Shape
<1>1. ASSUME calls # << >>, host' = host, ses'.exch = ses.exch, \E c : SetCur(c) /\ SameCall(c)
      PROVE  Nested'
  BY <1>0, <1>1, NestSet
<1>2. ASSUME calls' = calls, host' = host, ses'.exch = ses.exch PROVE Nested'
  BY <1>0, <1>2, NestSame
<1>3. CASE typed_trampoline
  <2> DEFINE c == NewCall("typed", host.exch)
  <2>1. /\ calls' = Append(calls, c) /\ c.kind = "typed" /\ c.t = c.prev
        /\ c.base = host.base /\ c.prev = host.exch
    BY <1>3 DEF typed_trampoline, NewCall
  <2>2. /\ host'.depth = host.depth /\ host'.base = host.base /\ host'.exch = host.exch
        /\ ses'.exch = ses.exch
    BY <1>0, <1>3 DEF typed_trampoline, begin_fn_call, HostFields, SesFields
  <2>3. host.base = host.depth /\ host.depth <= Depth /\ ses.exch = host.exch
    BY DEF Nested, Levels
  <2>4. host.base \in Nat
    BY <1>0, CallsLen DEF Nested, Levels, Chain, Linked, Up
  <2> HIDE DEF c
  <2> QED
    BY <1>0, <2>1, <2>2, <2>3, <2>4, NestPush DEF Linked, Up
<1>4. ASSUME NEW n, bridged_trampoline(n) PROVE Nested'
  <2>1. CASE calls' = calls
    <3>1. host' = host /\ ses' = ses
      <4>1. IsSeq(calls)
        BY <1>0 DEF Shape
      <4>2. \A c : calls' # Append(calls, c)
        BY <2>1, <4>1, Pushed
      <4> QED
        BY <1>4, <4>2 DEF bridged_trampoline
    <3> QED
      BY <1>2, <2>1, <3>1
  <2>2. CASE calls' # calls
    <3> DEFINE c == NewCall("bridged", host.depth + 1)
    <3>1. /\ calls' = Append(calls, c) /\ c.kind = "bridged" /\ c.t = host.depth + 1
          /\ c.base = host.base /\ c.prev = host.exch /\ host.depth < Depth
      BY <1>4, <2>2 DEF bridged_trampoline, NewCall
    <3>2. /\ host' = [depth |-> host.depth + 1, exch |-> host.depth + 1, base |-> host.base + 1,
                      count |-> host.count + 1]
          /\ ses' = [begin_bridged_call(ses) EXCEPT !.exch = host.depth + 1]
      BY <1>4, <2>2 DEF bridged_trampoline
    <3>3. ses'.exch = host.depth + 1
      BY <1>0, <3>2 DEF begin_bridged_call, begin_fn_call, SesFields
    <3>4. host.base = host.depth
      BY DEF Nested, Levels
    <3>5. host.base \in Nat /\ Depth \in Nat
      BY <1>0, CallsLen, BridgeAssumption DEF Nested, Levels, Chain, Linked, Up
    <3> HIDE DEF c
    <3> QED
      BY <1>0, <3>1, <3>2, <3>3, <3>4, <3>5, NestPush DEF Linked, Up
  <2> QED
    BY <2>1, <2>2
<1>5. CASE LuaSteps
  BY <1>2, <1>3, <1>4, <1>5 DEF LuaSteps, LuaHeap, LuaCatches
<1>6. CASE Ends
  BY <1>1, <1>6, EndsSame DEF Ends
<1>7. CASE GuestSteps
  BY <1>1, <1>2, <1>7, GuestSame
<1>8. CASE CallDone \/ CallFails \/ CallTraps
  <2>1. calls # << >> /\ calls' = Callers /\ host' = PopNesting
    BY <1>8 DEF CallDone, CallFails, CallTraps, RunFrameReturns
  <2>2. ses'.exch = Attach(ses).exch
    BY <1>0, <1>8, Zenon DEF CallDone, CallFails, CallTraps, Attach, bridge_error_unwind, SesFields
  <2> QED
    BY <1>0, <2>1, <2>2, NestPop
<1>9. CASE Drives
  BY <1>1, <1>8, <1>9, DrivesSame
<1>10. CASE Pause \/ Resume
  <2>1. calls # << >> /\ host' = host /\ ses' = ses /\ \E a : SetCur([Cur EXCEPT !.at = a])
    BY <1>10, Zenon DEF Pause, Resume, InCallback
  <2>2. DOMAIN Cur = CallFields
    BY <2>1, CurFields
  <2> QED
    BY <1>1, <2>1, <2>2, SameForms, Zenon
<1>11. CASE UNCHANGED vars
  BY <1>2, <1>11 DEF vars
<1> QED
  BY <1>5, <1>6, <1>7, <1>9, <1>10, <1>11 DEF Next

================================================================================
