------------------------------- MODULE DevLoop -------------------------------
(***************************************************************************)
(* The edit-build-reload loop of `blyt run <project>': the file watcher    *)
(* rebuilds on change (BuildEngine), diffs the dev ELF and the resource    *)
(* index against what it last signalled, and broadcasts update_assets and  *)
(* reload on the dev-control hub; players that dialled the hub apply them  *)
(* and answer, and the hub hands every answer to the other clients.        *)
(* The devtool may be killed and started again at any point.               *)
(***************************************************************************)
EXTENDS BuildEngine

CONSTANTS
  Players,     \* the native runtimes that dial the hub
  Debug,       \* a debug session: reloads carry the path of a staged copy
  MaxCrashes,  \* the bound on kills of the devtool
  KillsInTask  \* a kill may fall between a task's output and its record

VARIABLES
  event,    \* the watch channel holds an event
  pc,       \* where the watcher thread is
  mem,      \* what it remembers between rebuilds
  copies,   \* the staged debug ELFs on disk, named by their content
  crashes,
  pl        \* the players; behind: a round ended with signals of an earlier one
            \* unhandled, missed: a signal went out before the player dialled in

\* The devtool's own broadcasts come from no client.
ASSUME PlayersAreClients == "hub" \notin Players

wvars == <<event, pc, mem, copies>>
vars == <<src, edits, disk, rec, job, event, pc, mem, copies, crashes, pl>>

Msg(cmd, path, ack) == [cmd |-> cmd, path |-> path, ack |-> ack]

\* The hub: every registered client but the sender gets the message.
BroadcastEchoes(p, from, m) ==
  [c \in Players |-> IF p[c].st = "on" THEN [p[c] EXCEPT !.inbox = Append(@, m)] ELSE p[c]]
broadcast(p, from, m) ==
  [c \in Players |->
     IF p[c].st = "on" /\ c # from THEN [p[c] EXCEPT !.inbox = Append(@, m)] ELSE p[c]]

\* A player that loaded the cart and has not dialled yet hears nothing.
Unheard(p) ==
  [c \in Players |-> IF p[c].st = "loaded" THEN [p[c] EXCEPT !.missed = TRUE] ELSE p[c]]

----------------------------------------------------------------------------
(* The watcher thread *)

\* notify delivers while the watcher is armed: not before "[watch] ready".
Armed == pc \notin {"down", "boot"}

\* The developer edits a file.  While the devtool starts they wait for its
\* "[watch] ready".
Edit ==
  /\ pc # "boot"
  /\ \/ \E v \in Versions, ok \in BOOLEAN : EditCode(v, ok)
     \/ \E a \in Names, v \in Versions, ok \in BOOLEAN : EditAsset(a, v, ok)
  /\ event' = Armed
  /\ UNCHANGED <<disk, rec, job, pc, mem, copies, crashes, pl>>

\* recv, then drain until the settle window stays quiet, then build.
Wake ==
  /\ pc = "idle" /\ event
  /\ event' = FALSE
  /\ pc' = "build"
  /\ BeginBuild
  /\ UNCHANGED <<src, edits, disk, rec, mem, copies, crashes, pl>>

Build ==
  /\ RunTask \/ RecordTask
  /\ UNCHANGED <<event, pc, mem, copies, crashes, pl>>

\* The build fails: nothing is signalled and nothing forgotten.
BuildFails ==
  /\ pc = "build" /\ job.st = "failed"
  /\ pc' = "idle" /\ job' = NoJob
  /\ UNCHANGED <<src, edits, disk, rec, event, mem, copies, crashes, pl>>

\* dispatch_signals: does the rebuild need a reload, and which assets moved.
dispatch_signals(old, new, code_changed) ==
  [reload |-> code_changed \/ DOMAIN old # DOMAIN new,
   assets |-> IF DOMAIN old # DOMAIN new THEN {} ELSE {a \in DOMAIN new : old[a] # new[a]}]

Signals == dispatch_signals(mem.index, disk.index, disk.elf # mem.hash)

\* The build is done: diff, and broadcast update_assets before any reload.
SignalAssets ==
  /\ pc = "build" /\ job.st = "built"
  /\ pc' = IF Signals.reload THEN "reload" ELSE "gc"
  /\ mem' = [mem EXCEPT !.hash = disk.elf]
  /\ LET aged == [c \in Players |-> [pl[c] EXCEPT !.behind = @ \/ pl[c].inbox # << >>]]
         heard == IF Signals.assets # {} \/ Signals.reload THEN Unheard(aged) ELSE aged
     IN pl' = IF Signals.assets = {} THEN heard
              ELSE broadcast(heard, "hub", Msg("update_assets", NoImage, FALSE))
  /\ job' = NoJob
  /\ UNCHANGED <<src, edits, disk, rec, event, copies, crashes>>

\* In a debug session copy the ELF to a name made of its hash, drop the copy
\* made before, and send the path; else send a reload in place.
SignalReload ==
  /\ pc = "reload"
  /\ pc' = "gc"
  /\ IF Debug
     THEN /\ copies' = (copies \cup {disk.elf}) \ {mem.copy}
          /\ mem' = [mem EXCEPT !.copy = disk.elf]
          /\ pl' = broadcast(pl, "hub", Msg("reload", disk.elf, FALSE))
     ELSE /\ pl' = broadcast(pl, "hub", Msg("reload", NoImage, FALSE))
          /\ UNCHANGED <<copies, mem>>
  /\ UNCHANGED <<src, edits, disk, rec, job, event, crashes>>

\* The files of the last index that the new one does not name.
SupersedesAll(old, new) == {[name |-> a, fp |-> old[a]] : a \in DOMAIN old}
superseded(old, new) ==
  {[name |-> a, fp |-> old[a]] : a \in {b \in DOMAIN old : b \in DOMAIN new => new[b] # old[b]}}

\* Last round's superseded files go, this round's wait for the next.
CollectsAtOnce ==
  [drop |-> superseded(mem.index, disk.index), wait |-> {}]
Collect == [drop |-> mem.gc, wait |-> superseded(mem.index, disk.index)]

Gc ==
  /\ pc = "gc"
  /\ pc' = "idle"
  /\ disk' = [disk EXCEPT !.staged = {f \in @ : [name |-> f.name, fp |-> f.fp] \notin Collect.drop}]
  /\ mem' = [mem EXCEPT !.gc = Collect.wait, !.index = disk.index]
  /\ UNCHANGED <<src, edits, rec, job, event, copies, crashes, pl>>

----------------------------------------------------------------------------
(* The devtool's life *)

Off == [st |-> "off", code |-> NoImage, tab |-> << >>,
        inbox |-> << >>, missed |-> FALSE, behind |-> FALSE]
NoMem == [hash |-> NoImage, index |-> << >>, gc |-> {}, copy |-> NoImage]

\* Killed.  The players' connections drop; they play on with what they have.
Crash ==
  /\ pc # "down" /\ crashes < MaxCrashes /\ (~KillsInTask => job.st # "record")
  /\ crashes' = crashes + 1
  /\ pc' = "down" /\ event' = FALSE /\ job' = NoJob /\ mem' = NoMem
  /\ pl' = [c \in Players |-> Off]
  /\ UNCHANGED <<src, edits, disk, rec, copies>>

\* serve_cart_from_project_dir: a first build, before anything is served.
Start ==
  /\ pc = "down"
  /\ pc' = "boot"
  /\ BeginBuild
  /\ UNCHANGED <<src, edits, disk, rec, event, mem, copies, crashes, pl>>

\* The first build fails and the devtool exits, or the watcher is armed with
\* what the build left on disk.
Boots ==
  /\ pc = "boot" /\ job.st \in {"failed", "built"}
  /\ job' = NoJob
  /\ IF job.st = "failed" THEN pc' = "down" /\ UNCHANGED mem
     ELSE pc' = "idle" /\ mem' = [NoMem EXCEPT !.hash = disk.elf, !.index = disk.index]
  /\ UNCHANGED <<src, edits, disk, rec, event, copies, crashes, pl>>

----------------------------------------------------------------------------
(* The players *)

\* blyt_resource_table_load_from_index: a staging file that is gone is skipped.
load_from_index ==
  [a \in {b \in DOMAIN disk.index : Staged(b, disk.index[b])} |->
     CHOOSE f \in disk.staged : f.name = a /\ f.fp = disk.index[a]]

\* retro_load_game, which main calls before it dials the hub.
Load(c) ==
  /\ pl[c].st = "off" /\ Armed
  /\ pl' = [pl EXCEPT ![c] = [Off EXCEPT !.st = "loaded", !.code = disk.elf, !.tab = load_from_index]]
  /\ UNCHANGED <<bvars, wvars, crashes>>

\* dev_ctrl_connect, and the hub's register.
Connect(c) ==
  /\ pl[c].st = "loaded" /\ Armed
  /\ pl' = [pl EXCEPT ![c].st = "on"]
  /\ UNCHANGED <<bvars, wvars, crashes>>

\* The player quits: its reader sees the end of the stream and unregisters.
Quit(c) ==
  /\ pl[c].st = "on" /\ edits < MaxEdits
  /\ pl' = [pl EXCEPT ![c] = Off]
  /\ UNCHANGED <<bvars, wvars, crashes>>

\* dev_ctrl_dispatch of the next line.  A reload opens the path it names, else
\* the cart's own; a file that is gone fails the reload.
HalfReload(c) ==
  LET m == Head(pl[c].inbox)
      taken == [pl[c] EXCEPT !.inbox = Tail(@)]
  IN IF m.cmd = "update_assets" THEN [taken EXCEPT !.tab = load_from_index, !.behind = FALSE]
     ELSE [taken EXCEPT !.missed = FALSE, !.code = IF m.path = NoImage THEN disk.elf ELSE m.path]
dev_ctrl_dispatch(c) ==
  LET m == Head(pl[c].inbox)
      taken == [pl[c] EXCEPT !.inbox = Tail(@)]
  IN IF m.cmd = "update_assets" THEN [taken EXCEPT !.tab = load_from_index, !.behind = FALSE]
     ELSE IF m.path \notin copies \cup {NoImage} THEN taken
     ELSE [taken EXCEPT !.tab = load_from_index, !.missed = FALSE, !.behind = FALSE,
                        !.code = IF m.path = NoImage THEN disk.elf ELSE m.path]

\* The answer carries the command's name, and the hub hands it to the other
\* clients: a player takes another player's answer for a command.
Handle(c) ==
  /\ pl[c].st = "on" /\ pl[c].inbox # << >>
  /\ pl' = broadcast([pl EXCEPT ![c] = dev_ctrl_dispatch(c)], c, Msg(Head(pl[c].inbox).cmd, NoImage, TRUE))
  /\ UNCHANGED <<bvars, wvars, crashes>>

----------------------------------------------------------------------------

Init ==
  /\ BuildInit
  /\ event = FALSE /\ pc = "idle" /\ copies = {} /\ crashes = 0
  /\ mem = [NoMem EXCEPT !.hash = disk.elf, !.index = disk.index]
  /\ pl = [c \in Players |-> Off]

Watcher == Wake \/ Build \/ BuildFails \/ SignalAssets \/ SignalReload \/ Gc \/ Start \/ Boots

Next ==
  \/ Edit \/ Crash
  \/ Wake \/ Build \/ BuildFails \/ SignalAssets \/ SignalReload \/ Gc \/ Start \/ Boots
  \/ \E c \in Players : Load(c) \/ Connect(c) \/ Quit(c) \/ Handle(c)

\* The watcher is one thread that always runs on; a player polls its socket
\* every frame.  Nothing makes the developer edit or a player start.
Fairness == WF_vars(Watcher) /\ \A c \in Players : WF_vars(Handle(c))

Spec == Init /\ [][Next]_vars /\ Fairness

----------------------------------------------------------------------------
(* Properties *)

\* The records stay in range, and a player's inbox holds at most what the
\* rebuilds of the bounded edits can send.
TypeOK ==
  /\ BuildTypeOK
  /\ pc \in {"down", "boot", "idle", "build", "reload", "gc"}
  /\ {mem.hash, mem.copy} \cup copies \subseteq Images
  /\ \A c \in Players : pl[c].st \in {"off", "loaded", "on"} /\ Len(pl[c].inbox) <= 2 * MaxEdits

\* Once the watcher waits and the channel is empty, the build directory is what
\* the sources build to: no edit is lost to the settle window, to a skipped
\* task, to a failed build or to a kill between two tasks.
QuietMeansBuilt == pc = "idle" /\ ~event /\ Buildable => Built

\* While no task is being run, the index names only staging files that exist:
\* start_watcher never collects a file the index it just read still names.
IndexResolves ==
  pc \in {"idle", "gc", "reload"} => \A a \in DOMAIN disk.index : Staged(a, disk.index[a])

\* A player at most one round of signals late still finds the staging files its
\* table was loaded from: a superseded file outlives the round that superseded
\* it, so bytes evicted meanwhile can be read again.
OneRoundGrace ==
  \A c \in Players :
    pl[c].st = "on" /\ ~pl[c].missed /\ ~pl[c].behind =>
      \A a \in DOMAIN pl[c].tab : Staged(a, pl[c].tab[a].fp)

\* What a player runs is what the sources say.
Current(c) ==
  /\ pl[c].code = Image(src.code.v, Present(src.asset))
  /\ DOMAIN pl[c].tab = Present(src.asset)
  /\ \A a \in DOMAIN pl[c].tab : pl[c].tab[a].v = src.asset[a].v

\* When the edits end in sources that build, every player on the hub that heard
\* all signals since it loaded ends up running them, whatever builds failed,
\* signals crossed and kills happened on the way.
Converges ==
  <>[](Buildable /\ Armed =>
         \A c \in Players : pl[c].st = "on" /\ ~pl[c].missed => Current(c))

\* Once the edits are over the hub falls silent: no player has a line to handle.
HubQuiets == <>[](\A c \in Players : pl[c].inbox = << >>)
=============================================================================
