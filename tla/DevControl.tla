----------------------------- MODULE DevControl -----------------------------
(***************************************************************************)
(* What every frontend shares: the development tool that rebuilds the cart *)
(* on disk and sends lifecycle commands, the answers it gets, the machine  *)
(* the commands act on and the native debugger that may watch it.          *)
(***************************************************************************)
EXTENDS SolibSwap

CONSTANTS MaxCmds,      \* bound on the commands of one session
          Cmds,         \* the commands the tool may send
          Plays0,       \* what the cart may do in a frame
          Overlap,      \* commands reach the browser while a debug reload is in flight
          Early         \* the tool sends before the cart has booted

ASSUME ToolBounds == MaxCmds \in Nat /\ Plays0 \subseteq Plays

VARIABLES leg,       \* which frontend, and which kind of cart it runs
          disk,      \* the build on disk: code, and whether it is sane
          vm,        \* the machine (CartLife)
          dbg,       \* the native debugger (SolibSwap)
          done,      \* g_cart_done; the browser's main loop is cancelled
          pc,        \* where the player's main loop stands
          inbox,     \* commands on their way, ids in sending order
          cmd,       \* the commands sent, by id
          answer,    \* id -> answer
          saved,     \* save slot: the buffers of a save, or NoSave
          pend,      \* a reload in flight: id and snapshot, or NoPend
          web,       \* the browser's own state
          progress   \* what the cart's progress must be once settled

vars == <<leg, disk, vm, dbg, done, pc, inbox, cmd, answer, saved, pend, web, progress>>

PlayerLegs == {"emulated", "hostlua", "hosthybrid"}
WebLegs == {"webnative", "weblua", "webhybrid"}
Sessions == {"emulated", "hosthybrid", "webnative", "webhybrid"}
LuaLegs == {"hostlua", "hosthybrid", "weblua", "webhybrid"}

Flaws == {"none", "unopenable", "unswappable", "nolua"}
NoSave == MaxLive + 1
NoPend == [id |-> 0, snap |-> 0]
Ids == 1 .. MaxCmds
Answers == {"none", "ok", "error"}

PlaysOf(l) == IF l \in LuaLegs THEN Plays0 \ {"exit"} ELSE Plays0

Answered(i, a) == answer' = [answer EXCEPT ![i] = a]

(* The tool rebuilds the cart; a build may be unusable. *)
Build ==
    /\ disk.code < Cardinality(Codes)
    /\ disk' \in [code : {disk.code + 1}, flaw : Flaws]
    /\ UNCHANGED <<leg, vm, dbg, done, pc, inbox, cmd, answer, saved, pend, web, progress>>

Settled == inbox = <<>> /\ pend = NoPend /\ dbg.phase = 0 /\ web.fetch = 0 /\ web.assets = 0

Send(c) ==
    /\ Len(cmd) < MaxCmds /\ ~done
    /\ Overlap \/ Settled \/ leg \in PlayerLegs \/ ~dbg.on
    /\ Early \/ vm.life # "fresh"
    /\ cmd' = Append(cmd, c)
    /\ inbox' = Append(inbox, Len(cmd) + 1)
    /\ UNCHANGED <<leg, disk, vm, dbg, done, pc, answer, saved, pend, web, progress>>

(* The native debugger's client consumes a library stop. *)
Rebinds ==
    /\ dbg.on /\ dbg.told
    /\ dbg' = Rebind(dbg)
    /\ UNCHANGED <<leg, disk, vm, done, pc, inbox, cmd, answer, saved, pend, web, progress>>

Capped(n) == IF n < MaxLive THEN n ELSE MaxLive

(* The progress a frame adds: a boot starts it, cleanup ends it. *)
FrameProgress(c) == CASE c.life = "fresh" -> Capped(2)
                      [] c.life # "fresh" /\ (c.quit \/ c.halt # "no") -> progress
                      [] OTHER -> Capped(progress + 1)

(* A machine that trapped runs no hooks: what it reached cannot be saved,  *)
(* and p is what is expected of the others.                                *)
Trapped(c) == c.halt \in {"trap", "stuck"}
Expected(p) == IF Trapped(vm) \/ Trapped(vm') THEN vm'.live ELSE p
=============================================================================
