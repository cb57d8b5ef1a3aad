------------------------------- MODULE LuaBridge -------------------------------
(* The hybrid cart's bridge between Lua (a VM of the host) and the cart's      *)
(* native half (code on the one emulated rv32).  Lua calls a native export     *)
(* through a trampoline; the native half works on the Lua values of an         *)
(* exchange thread with LUA_OP ecalls, and its PCALL op calls Lua back, which  *)
(* may call native code again.  A callback runs inside the op (mode "sync"),   *)
(* or, with a debugger attached, the machine parks and the trampoline drives   *)
(* the callback: modes "hl" (native host) and "web" (browser, where a pause in *)
(* the callback unwinds the whole C stack and is resumed later).               *)
EXTENDS Integers, Sequences, FiniteSets

CONSTANTS
    Modes,            \* the modes to start in, a subset of {"sync", "hl", "web"}
    Depth,            \* BLYT_HOSTLUA_EXCH_POOL_DEPTH
    MaxCalls,         \* bound: native calls in a behaviour, by mode
    MaxOps,           \* bound: operations of one native call
    MaxStack,         \* slots of an exchange thread's stack (lua_checkstack)
    Budget,           \* the 16 MB pool both halves share, in units
    MetaCallsNative   \* do metamethods call native exports?

ASSUME BridgeAssumption ==
    /\ Modes \subseteq {"sync", "hl", "web"}
    /\ {Depth, MaxOps, MaxStack} \subseteq Nat \ {0} /\ MaxCalls \in [Modes -> Nat]
    /\ Budget \in Nat
    /\ MetaCallsNative \in BOOLEAN

VARIABLES
    mode,     \* how PCALL is driven
    calls,    \* the native calls in flight, outermost first
    cpu,      \* rv32 registers: [fn, pc, tok, st]
    ses,      \* blyt_session_t / blyt_run_ctx_t
    host,     \* the runner: exch_depth, lua_exch, dap_frame_base
    raised,   \* a Lua error is propagating in the running Lua code
    pool,     \* the exchange threads
    heap      \* both halves' heaps and what each knows of the other

vars == <<mode, calls, cpu, ses, host, raised, pool, heap>>

MULTRET == -1
Threads == 1 .. Depth
Top(s) == Len(s)
Cut(s, n) == SubSeq(s, 1, n)
Idle == [fn |-> 0, pc |-> 0, tok |-> 0, st |-> "ok"]
NoRc == [how |-> "none"]

Cur == calls[Len(calls)]
SetCur(c) == calls' = [calls EXCEPT ![Len(calls)] = c]
Callers == Cut(calls, Len(calls) - 1)
InLua == calls # <<>> => Cur.at = "lua"
Stack == pool[ses.exch].stack
WithStack(s) == [pool EXCEPT ![ses.exch].stack = s]

Init ==
    /\ mode \in Modes
    /\ calls = <<>> /\ cpu = Idle /\ raised = FALSE
    /\ ses = [token |-> 0, next |-> 0, active |-> FALSE, error |-> FALSE, fnDone |-> FALSE,
              trapped |-> FALSE, halt |-> FALSE, exch |-> 1, saved |-> Idle,
              pending |-> FALSE, handoff |-> NoRc]
    /\ host = [depth |-> 0, exch |-> 1, base |-> 0, count |-> 0]
    /\ pool = [t \in Threads |-> [stack |-> <<>>, dead |-> FALSE]]
    /\ heap = [lua |-> 0, nat |-> 0, peer |-> 0, fold |-> 0, clean |-> TRUE]

(******************************* the budget *******************************)
\* Lua's half publishes its heap to the native half before a call ...
budget_enter_native == [heap EXCEPT !.peer = heap.lua]

\* ... and folds the native heap into its own predicate after one.
LeaveForgets == heap
budget_leave_native == [heap EXCEPT !.fold = heap.nat]

\* A call that ends without leave_native leaves Lua with an old view.
Unsettled == [heap EXCEPT !.clean = FALSE]

LuaHeap ==
    /\ InLua
    /\ \/ /\ heap.lua + heap.fold < Budget
          /\ heap' = [heap EXCEPT !.lua = @ + 1, !.clean = @ /\ calls = <<>>]
       \/ heap.lua > 0 /\ heap' = [heap EXCEPT !.lua = @ - 1]
    /\ UNCHANGED <<mode, calls, cpu, ses, host, raised, pool>>

(************************* beginning a native call ************************)
begin_fn_call(s) == [s EXCEPT !.halt = FALSE, !.fnDone = FALSE]

begin_bridged_call(s) ==
    [begin_fn_call(s) EXCEPT !.saved = cpu, !.next = @ + 1, !.token = s.next + 1,
                             !.active = TRUE, !.error = FALSE]

\* The call's record: the trampoline's locals, or g_bridged_state[d] in the
\* browser; `done` and `entry` (registers at entry) only serve the properties.
NewCall(kind, t) ==
    [id |-> host.count + 1, kind |-> kind, t |-> t, prev |-> host.exch, base |-> host.base,
     at |-> "enter", done |-> 0, rc |-> NoRc, entry |-> cpu]

MayCall ==
    /\ InLua /\ ~raised /\ host.count < MaxCalls[mode]
    /\ calls # <<>> /\ Cur.rc.how = "meta" => MetaCallsNative

\* A Lua function calls a typed export: scalars in registers, no Lua values.
typed_trampoline ==
    /\ MayCall
    /\ calls' = Append(calls, NewCall("typed", host.exch))
    /\ cpu' = [fn |-> host.count + 1, pc |-> 0, tok |-> 0, st |-> "ok"]
    /\ ses' = begin_fn_call(ses)
    /\ host' = [host EXCEPT !.count = @ + 1]
    /\ heap' = budget_enter_native
    /\ UNCHANGED <<mode, raised, pool>>

\* A Lua function calls a bridged export with n arguments, moved to the next
\* exchange thread of the pool.
bridged_trampoline(n) ==
    \/ LET t == host.depth + 1 IN
       /\ MayCall /\ host.depth < Depth
       /\ calls' = Append(calls, NewCall("bridged", t))
       /\ pool' = [pool EXCEPT ![t].stack = [i \in 1 .. n |-> "arg"]]
       /\ ses' = [begin_bridged_call(ses) EXCEPT !.exch = t]
       /\ cpu' = [fn |-> host.count + 1, pc |-> 0, tok |-> ses.next + 1, st |-> "ok"]
       /\ host' = [depth |-> t, exch |-> t, base |-> host.base + 1, count |-> host.count + 1]
       /\ heap' = budget_enter_native
       /\ UNCHANGED <<mode, raised>>
    \/ /\ MayCall /\ host.depth >= Depth
       /\ raised' = TRUE
       /\ UNCHANGED <<mode, calls, cpu, ses, host, pool, heap>>

(************************** the call frame (#262) *************************)
save_call_frame ==
    [regs |-> cpu, saved |-> ses.saved, token |-> ses.token, active |-> ses.active,
     error |-> ses.error, fnDone |-> ses.fnDone]

RestoreKeepsToken(s, f) == [s EXCEPT !.saved = f.saved, !.active = f.active,
                                     !.error = f.error, !.fnDone = f.fnDone]
restore_call_frame(s, f) ==
    [s EXCEPT !.saved = f.saved, !.token = f.token, !.active = f.active,
              !.error = f.error, !.fnDone = f.fnDone]

(**************************** guest operations ****************************)
\* run_frame's loop executes guest code while nothing has halted it.
GuestRuns == calls # <<>> /\ Cur.at = "guest" /\ ~ses.halt /\ ~ses.trapped
Step == cpu.pc < MaxOps /\ GuestRuns

\* The protocol check every LUA_OP starts with.
BridgeOpen == ses.active /\ ses.exch # 0 /\ cpu.tok = ses.token

\* Outcomes of an op: the registers advance, or the error value on top of the
\* exchange stack is left pending and the machine halts at the op.
OpTail == /\ cpu' = [cpu EXCEPT !.pc = @ + 1, !.st = "ok"]
          /\ SetCur([Cur EXCEPT !.done = @ + 1])
          /\ UNCHANGED ses
bridge_fail(s) ==
    /\ pool' = WithStack(Append(s, "err"))
    /\ ses' = [ses EXCEPT !.error = TRUE, !.halt = TRUE]
    /\ UNCHANGED <<calls, cpu>>

\* A LUA_OP outside its window, with another call's token, or of an unknown
\* number traps for good.
OpTraps ==
    /\ Step
    /\ ses' = [ses EXCEPT !.trapped = TRUE, !.halt = TRUE]
    /\ UNCHANGED <<mode, calls, cpu, host, raised, pool, heap>>

\* The stacks an op can leave; none when it refuses the indices.  The reads and
\* conversions leave the stack alone (TOLSTRING drops its copy).
Reads == IF Top(Stack) >= 1 THEN {Stack} ELSE {}
\* PUSH*, PUSHVALUE, CREATETABLE and the getters push one value.
Pushes == IF Top(Stack) < MaxStack THEN {Append(Stack, "val")} ELSE {}
\* The setters and a shrinking SETTOP take the value on top.
Pops == IF Top(Stack) >= 1 THEN {Cut(Stack, Top(Stack) - 1)} ELSE {}
\* NEXT takes the key on top and leaves the next key and its value, or nothing.
Nexts == IF Top(Stack) < 2 THEN {} ELSE Pops \cup Pushes
OpStacks(op) ==
    CASE op = "read" -> Reads [] op = "push" -> Pushes [] op = "pop" -> Pops [] op = "next" -> Nexts

\* An op that succeeds, one refused for its index or for want of room, and one
\* whose protected part raised.
bridge_lua_op(op) ==
    /\ Step /\ BridgeOpen
    /\ \/ \E s \in OpStacks(op) : pool' = WithStack(s) /\ OpTail
       \/ (OpStacks(op) = {} \/ op # "read") /\ bridge_fail(Stack)
    /\ UNCHANGED <<mode, host, raised, heap>>

\* ERROR and ERRMSG: the native half raises a Lua error.
OpError ==
    /\ Step /\ BridgeOpen
    /\ bridge_fail(Stack)
    /\ UNCHANGED <<mode, host, raised, heap>>

\* A getter or setter runs a metamethod, Lua code, inside its protected call;
\* the machine's registers are not saved around it.
OpMeta ==
    /\ Step /\ BridgeOpen /\ Top(Stack) >= 1
    /\ SetCur([Cur EXCEPT !.at = "lua", !.rc = [how |-> "meta"]])
    /\ UNCHANGED <<mode, cpu, ses, host, raised, pool, heap>>

\* PCALL: the value below nargs arguments is called.  Without a debugger the
\* callback runs inside the op, the call's frame saved around it; with one the
\* machine parks at the op.
ReverseCall(nargs, nres, prot) ==
    [how |-> mode, frame |-> save_call_frame, exch |-> ses.exch, nargs |-> nargs,
     nres |-> nres, base |-> Top(Stack) - nargs - 1, prot |-> prot]
Parked(s, rc) == [s EXCEPT !.handoff = rc, !.pending = TRUE, !.halt = TRUE]
PcallStarts(rc) ==
    IF mode = "sync"
    THEN /\ SetCur([Cur EXCEPT !.at = "lua", !.rc = rc])
         /\ pool' = WithStack(Cut(Stack, rc.base)) /\ UNCHANGED <<ses, cpu>>
    ELSE ses' = Parked(ses, rc) /\ UNCHANGED <<calls, cpu, pool>>
OpPcall(nargs, nres, prot) ==
    /\ Step /\ BridgeOpen
    /\ \/ nargs <= Top(Stack) - 1 /\ PcallStarts(ReverseCall(nargs, nres, prot))
       \/ nargs > Top(Stack) - 1 /\ bridge_fail(Stack)
    /\ UNCHANGED <<mode, host, raised, heap>>

\* The native half allocates or frees.
NatHeap ==
    /\ Step
    /\ \/ heap.nat + heap.peer < Budget /\ heap' = [heap EXCEPT !.nat = @ + 1]
       \/ heap.nat > 0 /\ heap' = [heap EXCEPT !.nat = @ - 1]
    /\ cpu' = [cpu EXCEPT !.pc = @ + 1]
    /\ SetCur([Cur EXCEPT !.done = @ + 1])
    /\ UNCHANGED <<mode, ses, host, raised, pool>>

\* The function returns to the FN_RETURN stub.
FnReturn ==
    /\ GuestRuns
    /\ ses' = [ses EXCEPT !.fnDone = TRUE, !.halt = TRUE]
    /\ cpu' = [Idle EXCEPT !.fn = cpu.fn]
    /\ UNCHANGED <<mode, calls, host, raised, pool, heap>>

(************************ run_frame and the drive loops *******************)
\* run_frame's entry: a machine that has not trapped executes from its PC.
Enter ==
    /\ calls # <<>> /\ Cur.at = "enter" /\ ~ses.trapped /\ ~ses.error
    /\ ses' = [ses EXCEPT !.fnDone = FALSE, !.halt = FALSE]
    /\ SetCur([Cur EXCEPT !.at = "guest"])
    /\ UNCHANGED <<mode, cpu, host, raised, pool, heap>>

\* What run_frame returns: after a step the return and error flags are looked
\* at first; a machine that trapped earlier makes no step.
Outcome ==
    LET stepped == Cur.at = "guest" IN
    CASE stepped /\ ses.fnDone -> "FN_DONE"
      [] stepped /\ ~ses.fnDone /\ ses.error -> "FN_ERROR"
      [] ~(stepped /\ (ses.fnDone \/ ses.error)) /\ ses.pending -> "REVERSE_CALL_PENDING"
      [] ~stepped /\ ~ses.pending /\ ses.error -> "FN_ERROR"
      [] OTHER -> IF ses.trapped THEN "ERR_ECALL_TRAP" ELSE "OK"
RunFrameReturns ==
    /\ calls # <<>>
    /\ \/ Cur.at = "guest" /\ (ses.halt \/ ses.trapped)
       \/ Cur.at = "enter" /\ ses.trapped

\* The end of a call: its nesting level is popped before anything can raise.
PopKeepsDepth == host
PopNesting == [host EXCEPT !.depth = IF Cur.kind = "bridged" THEN @ - 1 ELSE @,
                           !.exch = IF Cur.kind = "bridged" THEN Cur.prev ELSE @,
                           !.base = Cur.base]
Attach(s) == [s EXCEPT !.exch = IF Cur.kind = "bridged" THEN Cur.prev ELSE @]
Emptied == IF Cur.kind = "bridged" THEN [pool EXCEPT ![Cur.t].stack = <<>>] ELSE pool

CallDone ==
    /\ RunFrameReturns /\ Outcome = "FN_DONE"
    /\ calls' = Callers /\ host' = PopNesting /\ pool' = Emptied
    /\ ses' = Attach([ses EXCEPT !.active = FALSE])
    /\ heap' = budget_leave_native
    /\ UNCHANGED <<mode, cpu, raised>>

bridge_error_unwind(s) == [s EXCEPT !.active = FALSE, !.error = FALSE]
UnwoundRegs == ses.saved
CallFails ==
    /\ RunFrameReturns /\ Outcome = "FN_ERROR"
    /\ calls' = Callers /\ host' = PopNesting /\ pool' = Emptied
    /\ ses' = Attach(bridge_error_unwind(ses)) /\ cpu' = UnwoundRegs
    /\ raised' = TRUE /\ heap' = Unsettled
    /\ UNCHANGED mode

CallTraps ==
    /\ RunFrameReturns /\ Outcome = "ERR_ECALL_TRAP"
    /\ calls' = Callers /\ host' = PopNesting /\ pool' = Emptied
    /\ ses' = Attach(ses) /\ raised' = TRUE /\ heap' = Unsettled
    /\ UNCHANGED <<mode, cpu>>

\* Any other result: the drive loop calls run_frame again.
ContinuesPendingOnly ==
    /\ RunFrameReturns /\ Outcome = "REVERSE_CALL_PENDING" /\ Cur.kind = "typed"
    /\ SetCur([Cur EXCEPT !.at = "enter"])
    /\ UNCHANGED <<mode, cpu, ses, host, raised, pool, heap>>
CallContinues ==
    /\ RunFrameReturns
    /\ Outcome = "OK" \/ (Outcome = "REVERSE_CALL_PENDING" /\ Cur.kind = "typed")
    /\ SetCur([Cur EXCEPT !.at = "enter"])
    /\ UNCHANGED <<mode, cpu, ses, host, raised, pool, heap>>

\* The parked machine's callback: take the handoff and resume the exchange
\* thread.  A thread whose callback raised before cannot be resumed again
\* (lua_resume), which is an error at once.
settop(s, n) == [i \in 1 .. n |-> IF i <= Len(s) THEN s[i] ELSE "nil"]
Values(k) == [i \in 1 .. k |-> "res"]

reverse_call_take == [ses EXCEPT !.pending = FALSE, !.handoff = NoRc]

Untrimmed(rc, stack) == stack
Trimmed(rc, stack) ==
    IF rc.nres = MULTRET THEN stack ELSE settop(stack, rc.base + rc.nres)

\* The parked call continues: its frame comes back; an error of an unprotected
\* call is left pending, otherwise the results are trimmed and the registers
\* advance past the op.
finish_reverse_call(s, rc, status, stack) ==
    IF status = "err" /\ ~rc.prot
    THEN /\ ses' = [restore_call_frame(s, rc.frame) EXCEPT !.error = TRUE, !.halt = TRUE]
         /\ cpu' = rc.frame.regs
         /\ pool' = [pool EXCEPT ![rc.exch] = [stack |-> stack, dead |-> TRUE]]
         /\ SetCur([Cur EXCEPT !.at = "enter", !.rc = rc])
    ELSE /\ ses' = restore_call_frame(s, rc.frame)
         /\ cpu' = [rc.frame.regs EXCEPT !.pc = @ + 1, !.st = status]
         /\ pool' = [pool EXCEPT ![rc.exch] =
                [stack |-> Trimmed(rc, stack), dead |-> @.dead \/ status = "err"]]
         /\ SetCur([Cur EXCEPT !.at = "enter", !.rc = NoRc, !.done = @ + 1])

TakeReverseCall ==
    LET rc == ses.handoff
        ex == pool[rc.exch].stack
    IN /\ RunFrameReturns /\ Outcome = "REVERSE_CALL_PENDING" /\ Cur.kind = "bridged"
       /\ IF pool[rc.exch].dead
          THEN finish_reverse_call(reverse_call_take, rc, "err",
                   Append(Cut(ex, Top(ex) - rc.nargs), "err"))
          ELSE /\ ses' = reverse_call_take
               /\ SetCur([Cur EXCEPT !.at = "lua", !.rc = rc])
               /\ pool' = [pool EXCEPT ![rc.exch].stack = Cut(@, rc.base)]
               /\ UNCHANGED cpu
       /\ UNCHANGED <<mode, host, raised, heap>>

\* After an unprotected callback error run_frame clears the halt and executes
\* from the PC, which is still at the parked op: the op runs a second time.
Reexecute ==
    LET rc == Cur.rc IN
    /\ calls # <<>> /\ Cur.at = "enter" /\ ses.error /\ ~ses.trapped
    /\ IF rc.nargs <= Top(Stack) - 1
       THEN /\ ses' = [Parked(ses, ReverseCall(rc.nargs, rc.nres, rc.prot)) EXCEPT !.fnDone = FALSE]
            /\ UNCHANGED pool
       ELSE /\ ses' = [ses EXCEPT !.halt = TRUE, !.fnDone = FALSE]
            /\ pool' = WithStack(Append(Stack, "err"))
    /\ SetCur([Cur EXCEPT !.at = "guest"])
    /\ UNCHANGED <<mode, cpu, host, raised, heap>>

(******************************* Lua callbacks ****************************)
InCallback == calls # <<>> /\ Cur.at = "lua"

\* lua_pcall inside the op returns: the frame comes back, then the op's tail.
SyncReturns(status, k) ==
    LET rc == Cur.rc
        below == pool[rc.exch].stack
        res == IF rc.nres = MULTRET THEN Values(k) ELSE settop(Values(k), rc.nres)
        s == restore_call_frame(ses, rc.frame)
    IN /\ pool' = [pool EXCEPT ![rc.exch].stack =
                       IF status = "ok" THEN below \o res ELSE Append(below, "err")]
       /\ IF status = "err" /\ ~rc.prot
          THEN /\ ses' = [s EXCEPT !.error = TRUE, !.halt = TRUE] /\ cpu' = rc.frame.regs
               /\ SetCur([Cur EXCEPT !.at = "guest", !.rc = NoRc])
          ELSE /\ ses' = s /\ cpu' = [rc.frame.regs EXCEPT !.pc = @ + 1, !.st = status]
               /\ SetCur([Cur EXCEPT !.at = "guest", !.rc = NoRc, !.done = @ + 1])

\* A raised error leaves the thread in the frame that raised: the values seen
\* from outside are that frame's, the error on top.
ParkedReturns(status, k) ==
    LET rc == Cur.rc IN
    IF status = "ok" THEN finish_reverse_call(ses, rc, "ok", pool[rc.exch].stack \o Values(k))
    ELSE \E frame \in {<<"err">>, <<"junk", "err">>} : finish_reverse_call(ses, rc, "err", frame)

\* A metamethod returns to its op's protected call.
MetaReturns(status) ==
    LET ex == pool[Cur.t].stack IN
    IF status = "ok"
    THEN /\ pool' = [pool EXCEPT ![Cur.t].stack = IF Top(ex) < MaxStack THEN Append(ex, "val") ELSE ex]
         /\ cpu' = [cpu EXCEPT !.pc = @ + 1, !.st = "ok"]
         /\ SetCur([Cur EXCEPT !.at = "guest", !.rc = NoRc, !.done = @ + 1]) /\ UNCHANGED ses
    ELSE /\ pool' = [pool EXCEPT ![Cur.t].stack = Append(ex, "err")]
         /\ ses' = [ses EXCEPT !.error = TRUE, !.halt = TRUE]
         /\ SetCur([Cur EXCEPT !.at = "guest", !.rc = NoRc]) /\ UNCHANGED cpu

CallbackEnds(status, k) ==
    /\ InCallback /\ raised => status = "err"
    /\ InCallback
    /\ CASE Cur.rc.how = "sync" -> SyncReturns(status, k)
         [] Cur.rc.how = "meta" -> MetaReturns(status)
         [] OTHER -> ParkedReturns(status, k)
    /\ raised' = FALSE
    /\ UNCHANGED <<mode, host, heap>>

\* A script-level pcall, or the driver's around the frame, takes the error.
LuaCatches ==
    /\ InLua /\ raised /\ raised' = FALSE
    /\ UNCHANGED <<mode, calls, cpu, ses, host, pool, heap>>

\* A debugger stop in a callback: the browser unwinds by lua_yieldk and comes
\* back through wasm_bridged_resume_k.
Pause ==
    /\ mode = "web" /\ InCallback /\ Cur.rc.how = "web"
    /\ SetCur([Cur EXCEPT !.at = "paused"])
    /\ UNCHANGED <<mode, cpu, ses, host, raised, pool, heap>>
Resume ==
    /\ calls # <<>> /\ Cur.at = "paused"
    /\ SetCur([Cur EXCEPT !.at = "lua"])
    /\ UNCHANGED <<mode, cpu, ses, host, raised, pool, heap>>

LuaSteps == LuaHeap \/ LuaCatches \/ typed_trampoline
            \/ (\E n \in 0 .. 1 : bridged_trampoline(n))
Ends == \E status \in {"ok", "err"}, k \in 0 .. 1 : CallbackEnds(status, k)
GuestSteps == \/ \E op \in {"read", "push", "pop", "next"} : bridge_lua_op(op)
              \/ \E nargs \in 0 .. 1, nres \in {MULTRET, 0, 1}, prot \in BOOLEAN :
                     OpPcall(nargs, nres, prot)
              \/ OpError \/ OpTraps \/ OpMeta \/ NatHeap \/ FnReturn
Drives == \/ Enter \/ Reexecute \/ TakeReverseCall
          \/ CallDone \/ CallFails \/ CallTraps \/ CallContinues
Next == LuaSteps \/ Ends \/ GuestSteps \/ Drives \/ Pause \/ Resume

\* The drive loops run by themselves; a cart's native functions and its
\* callbacks return; whoever is debugging lets a stopped callback go on.
Fairness == WF_vars(Drives) /\ WF_vars(FnReturn) /\ WF_vars(Resume) /\ SF_vars(Ends)

Spec == Init /\ [][Next]_vars /\ Fairness

-----------------------------------------------------------------------------
Regs == [fn : 0 .. MaxCalls[mode], pc : 0 .. MaxOps, tok : 0 .. MaxCalls[mode], st : {"ok", "err"}]

\* No callback has raised with a debugger attached: lua_resume leaves such a
\* thread dead for good.
Sound == \A t \in Threads : ~pool[t].dead

\* The pool of exchange threads is never exceeded, however deep native code and
\* Lua call each other, and both heaps stay counted (hl_bridged_trampoline).
TypeOK ==
    /\ mode \in Modes /\ cpu \in Regs /\ raised \in BOOLEAN
    /\ \A i \in 1 .. Len(calls) :
           /\ calls[i].at \in {"enter", "guest", "lua", "paused"} /\ calls[i].t \in Threads
           /\ calls[i].done \in 0 .. MaxOps
    /\ ses.saved \in Regs /\ ses.token \in 0 .. MaxCalls[mode] /\ ses.exch \in Threads
    /\ host.depth \in 0 .. Depth /\ host.exch \in Threads
    /\ \A t \in Threads : Len(pool[t].stack) <= MaxStack + 3
    /\ heap.lua \in 0 .. 2 * Budget /\ heap.nat \in 0 .. 2 * Budget

\* Whenever native code executes, the registers are those of the innermost call,
\* at the operation it has reached, and the bridge is open for its token and its
\* exchange thread: "the nested call does not clobber the suspended outer one"
\* (blyt_session_call_frame_t).
OwnFrame ==
    GuestRuns => /\ cpu.fn = Cur.id /\ cpu.pc = Cur.done
                 /\ Cur.kind = "bridged" =>
                        ses.active /\ cpu.tok = ses.token /\ ses.exch = Cur.t

\* The bookkeeping of nested calls balances on every way out, success, Lua error
\* or trap: the pool depth and the debugger's frame base count the bridged calls
\* in flight, the attached thread is the innermost one's and, as long as no
\* debugged callback raised, the threads no call uses are empty.
NestingBalanced ==
    LET bridged == {i \in 1 .. Len(calls) : calls[i].kind = "bridged"} IN
    /\ host.depth = Cardinality(bridged) /\ host.base = host.depth
    /\ bridged = {} => host.exch = 1
    /\ \A i \in bridged : (\A j \in bridged : j <= i) => host.exch = calls[i].t
    /\ ses.exch = host.exch
    /\ Sound => \A t \in Threads : t > host.depth => pool[t].stack = <<>>

\* What lua_pcall promises the native half when a callback returns: the stack
\* below is untouched, with exactly the asked for results, or the error value,
\* on top.
PcallReturns(rc) ==
    LET below == pool[rc.exch].stack
        now == pool'[rc.exch].stack
    IN /\ Cut(now, Len(below)) = below
       /\ IF cpu'.st = "err" THEN now = Append(below, "err")
          ELSE rc.nres # MULTRET => Len(now) = Len(below) + rc.nres
ReturnsToGuest == Ends /\ Cur.rc.how # "meta" /\ ~ses'.error

\* The promise of lua_pcall, in every mode for callbacks that return and without
\* a debugger also for those that raise (BLYT_LUA_OP_PCALL).
PcallContract ==
    [][ReturnsToGuest /\ (mode = "sync" \/ cpu'.st = "ok") => PcallReturns(Cur.rc)]_vars

\* The promise of lua_pcall in every case, with a debugger too: "so the stack
\* matches what a synchronous lua_pcall(EX, nargs, nresults) would have produced"
\* (blyt_session_finish_reverse_call).
ParkedMatchesSync == [][ReturnsToGuest => PcallReturns(Cur.rc)]_vars

\* Both halves together stay within the one budget as long as no call failed and
\* no callback allocated (hl_budget_enter_native, hl_budget_leave_native).
BudgetShared == heap.clean => heap.lua + heap.nat <= Budget

\* Every native call comes back to Lua, unless a debugged callback raised
\* (the drive loops of hl_bridged_trampoline and wasm_bridged_drive).
CallsReturn == calls # <<>> ~> (calls = <<>> \/ ~Sound)
=============================================================================
