----------------------------- MODULE Frontends ------------------------------
(***************************************************************************)
(* The player and the browser under the development tool: one cart, loaded *)
(* on one of six legs, with or without a native debugger, while the tool   *)
(* rebuilds it on disk and sends lifecycle commands.                       *)
(***************************************************************************)
EXTENDS PlayerLoop, WebLoop

Init ==
    /\ leg \in PlayerLegs \cup WebLegs
    /\ disk = [code |-> 1, flaw |-> "none"]
    /\ \E debug \in BOOLEAN, start \in BOOLEAN, n \in 1 .. MaxLibs - 1 :
         /\ start => leg \in WebLegs \cap LuaLegs
         /\ vm = IF leg \in PlayerLegs THEN retro_load_game(leg, debug)
                 ELSE Fresh([code |-> 1])
         /\ dbg = IF debug /\ leg \in Sessions THEN register_cart_gdb_library(vm, n)
                  ELSE NoDebugger
         /\ pc = IF debug /\ leg \in PlayerLegs THEN "gate" ELSE "poll"
         /\ web = IF leg \in WebLegs \cap LuaLegs THEN run_lua_cart(start) ELSE NoWeb
    /\ progress = vm.live
    /\ done = FALSE /\ saved = NoSave /\ pend = NoPend
    /\ inbox = <<>> /\ cmd = <<>>
    /\ answer = [i \in Ids |-> "none"]

Tool == Build \/ \E c \in Cmds : Send(c)

Next == Tool \/ Rebinds \/ PlayerStep \/ WebStep

(* The player's loop runs on; the browser keeps ticking, hands commands    *)
(* over and settles every fetch.  Nothing obliges the cart to end, a       *)
(* debugger to configure, or its client to answer.                         *)
Loops == leg \in PlayerLegs /\ ((PlayerStep /\ (inbox # <<>> \/ pc # "poll"))
            \/ retro_run("play", FALSE))
Ticks == leg \in WebLegs /\ (rearm_tick \/ lua_cleanup \/ init_tick("play")
            \/ wasm_lua_loop("play", FALSE) \/ wasm_loop("play", FALSE))
Delivers == leg \in WebLegs /\ (refused_command \/ reset_command \/ load_command
            \/ fetch_command \/ \E io \in BOOLEAN : save_command(io))
Fetches == leg \in WebLegs /\ ((\E ok \in BOOLEAN : reload_refused(ok)) \/ reload_fatal
            \/ reload_after_end \/ (\E p \in PlaysOf(leg) : reload_fetched(p))
            \/ wasm_session_reload)
FetchesAssets == leg \in WebLegs /\ \E ok \in BOOLEAN : assets_fetched(ok)

Fairness == /\ WF_vars(Loops) /\ WF_vars(Ticks) /\ WF_vars(Delivers)
            /\ WF_vars(Fetches) /\ WF_vars(FetchesAssets)

Spec == Init /\ [][Next]_vars /\ Fairness

-----------------------------------------------------------------------------
TypeOK ==
    /\ leg \in PlayerLegs \cup WebLegs
    /\ disk \in [code : Codes, flaw : Flaws]
    /\ vm \in Vms
    /\ DOMAIN dbg = DOMAIN NoDebugger
    /\ Len(dbg.libs) <= MaxLibs /\ dbg.idx \in 0 .. Len(dbg.libs)
    /\ done \in BOOLEAN /\ pc \in {"gate", "poll", "solib"}
    /\ inbox \in Seq(Ids) /\ answer \in [Ids -> Answers]
    /\ saved \in 0 .. NoSave /\ progress \in 0 .. MaxLive
    /\ pend \in [id : 0 .. MaxCmds, snap : 0 .. MaxLive]
    /\ web \in Webs

(* No callback of the cart ever runs out of its order: init() first and    *)
(* once per machine, the state and asset hooks and update() only between   *)
(* init() and cleanup(), nothing after cleanup(), whatever commands,       *)
(* reloads and stress cycles come in between.                              *)
LifecycleOrder == vm.sound

(* A cart's progress survives everything but a reset and a load: after     *)
(* reloads, failed reloads, stress cycles and asset updates, in the frame  *)
(* where no command is in flight, the cart stands where it would have      *)
(* stood had only its frames been run.                                     *)
Running == ~done /\ vm.life = "inited" /\ vm.halt = "no" /\ web.rphase = "none"
                 /\ pend = NoPend
ProgressKept == Running => vm.live = progress

(* The library list the debugger reads shows, outside a swap, exactly one  *)
(* image of the cart: the one in the machine, at its present base (but for *)
(* the last tick of a browser cart that a broken build is about to end).   *)
LibsMatchCart ==
    dbg.on /\ dbg.phase = 0 /\ ~web.fatal =>
        LET carts == {i \in DOMAIN dbg.libs : dbg.libs[i][1] # 0}
        IN carts = {dbg.idx} /\ dbg.libs[dbg.idx] = Entry(vm)

(* No callback of a freshly loaded build runs before the debugger's client *)
(* has had that build's image announced and has rebound its breakpoints,   *)
(* unless the client let the wait time out.                                *)
ArmedBeforeInit ==
    dbg.on /\ vm.life = "inited" /\ ~dbg.late /\ ~web.fatal => Entry(vm) \in dbg.view

(* Every command is answered, unless the cart ends first: no queue, no     *)
(* outstanding fetch and no silent debugger holds one back for ever.       *)
CommandsAnswered ==
    \A i \in Ids : i <= Len(cmd) ~> (answer[i] # "none" \/ done \/ web.wild)

=============================================================================
