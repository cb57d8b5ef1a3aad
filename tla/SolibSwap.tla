----------------------------- MODULE SolibSwap ------------------------------
(***************************************************************************)
(* The library list a session shows its native debugger, and the two-phase *)
(* swap that replaces the cart's entry during a reload: add the new build  *)
(* beside the old one, let the client re-read the list and continue, then  *)
(* drop the old entry and let the client do it once more.  `d` holds       *)
(*   on      a GDB session is open and the cart has an entry               *)
(*   libs    gdb_libs: one <<code, base>> per entry (the runtime libraries *)
(*           never change and are the prefix <<0, "native">>)              *)
(*   idx     gdb_cart_lib_idx;  old: reload_notify_old_idx                 *)
(*   phase   reload_notify_phase;  ticks: how long it has waited           *)
(*   moved   continue_gen has moved since the phase was published          *)
(*   told    a library stop the client has not consumed yet                *)
(*   view    the entries the client has loaded                             *)
(*   late    some phase of the last swap timed out                         *)
(***************************************************************************)
EXTENDS CartLife

Entry(c) == <<c.code, c.base>>

Debuggers == [on : BOOLEAN, libs : Seq((Codes \cup {0}) \X Bases), idx : 0 .. MaxLibs,
              old : 0 .. MaxLibs, phase : 0 .. 2, ticks : 0 .. MaxTicks, moved : BOOLEAN,
              told : BOOLEAN, view : SUBSET ((Codes \cup {0}) \X Bases), late : BOOLEAN]

Runtime(n) == [i \in 1 .. n |-> <<0, "native">>]

NoDebugger == [on |-> FALSE, libs |-> <<>>, idx |-> 0, old |-> 0, phase |-> 0, ticks |-> 0,
               moved |-> FALSE, told |-> FALSE, view |-> {}, late |-> FALSE]

(* n runtime libraries are listed, the cart after them if there is room. *)
register_cart_gdb_library(c, n) ==
    IF n >= MaxLibs THEN NoDebugger
    ELSE [NoDebugger EXCEPT !.on = TRUE, !.libs = Append(Runtime(n), Entry(c)),
                            !.idx = n + 1, !.view = {Entry(c)}]

is_debugging(d) == d.on

publish_libs_nowait(d) == [d EXCEPT !.told = TRUE, !.moved = FALSE, !.ticks = 0]

reload_notify_begin(d, c) ==
    LET e == [d EXCEPT !.old = d.idx, !.late = FALSE]
    IN IF Len(d.libs) >= MaxLibs
       THEN publish_libs_nowait([e EXCEPT !.libs[d.idx] = Entry(c), !.phase = 2])
       ELSE publish_libs_nowait([e EXCEPT !.libs = Append(@, Entry(c)), !.phase = 1])

DropLast(d) == SubSeq(d.libs, 1, Len(d.libs) - 1)

DropKeepsIndex(d) == [d EXCEPT !.libs = DropLast(d)]

reload_notify_drop_old(d) ==
    [d EXCEPT !.libs = [DropLast(d) EXCEPT ![d.old] = d.libs[Len(d.libs)]], !.idx = d.old]

(* One tick of the browser's pump: wait, give up, or go to the next phase. *)
reload_notify_pump(d) ==
    CASE d.phase = 0 -> d
      [] d.phase # 0 /\ ~d.moved /\ d.ticks + 1 < MaxTicks -> [d EXCEPT !.ticks = @ + 1]
      [] d.phase # 0 /\ ~d.moved /\ d.ticks + 1 >= MaxTicks ->
           LET e == IF d.phase = 1 THEN publish_libs_nowait(reload_notify_drop_old(d)) ELSE d
           IN [e EXCEPT !.phase = 0, !.late = TRUE]
      [] d.phase = 1 /\ d.moved -> [publish_libs_nowait(reload_notify_drop_old(d))
                                      EXCEPT !.phase = 2]
      [] d.phase = 2 /\ d.moved -> [d EXCEPT !.phase = 0]

WaitsForNobody(d) == [d EXCEPT !.phase = 0]

(* The player's main thread waits up to three seconds for each phase; a    *)
(* time-out is not fatal and the next phase is published all the same.     *)
publish_libs_and_wait(d) ==
    CASE ~d.moved /\ d.ticks + 1 < MaxTicks -> [d EXCEPT !.ticks = @ + 1]
      [] d.phase = 1 /\ (d.moved \/ d.ticks + 1 >= MaxTicks) ->
           [publish_libs_nowait(reload_notify_drop_old(d))
              EXCEPT !.phase = 2, !.late = @ \/ ~d.moved]
      [] d.phase = 2 /\ (d.moved \/ d.ticks + 1 >= MaxTicks) ->
           [d EXCEPT !.phase = 0, !.late = @ \/ ~d.moved]

notify_cart_reloaded(d, c) == IF is_debugging(d) THEN reload_notify_begin(d, c) ELSE d

(* The client re-reads the list, rebinds its breakpoints and continues. *)
Rebind(d) == [d EXCEPT !.told = FALSE, !.moved = TRUE, !.view = {d.libs[i] : i \in DOMAIN d.libs} \ {<<0, "native">>}]
=============================================================================
