---------------------------- MODULE FrontendsProofs -------------------------
(***************************************************************************)
(* The four safety properties of Frontends, for every number of builds,    *)
(* commands, frames, library slots and ticks.  First what each callback    *)
(* and each composite of callbacks does to a machine, then what the        *)
(* announcement of a swap does to the debugger's library list, then an     *)
(* inductive invariant and one lemma per step of the player, the browser,  *)
(* the tool and the debugger's client.                                     *)
(***************************************************************************)
EXTENDS Frontends, TLAPS

(* A machine as the proofs see it: its fields, and the range of each. *)
VmFields == {"code", "assets", "base", "life", "live", "bufs", "quit", "halt", "exited", "sound"}
IsVm(c) == /\ DOMAIN c = VmFields
           /\ c.code \in Codes /\ c.base \in Bases /\ c.life \in Lives /\ c.halt \in Halts
           /\ c.live \in 0 .. MaxLive /\ c.bufs \in 0 .. MaxLive

(* d is c with the same image and, as told, a new life, progress, buffer   *)
(* copy and halt.                                                          *)
Becomes(c, d, life, live, bufs, halt) ==
    /\ IsVm(d) /\ d.code = c.code /\ d.base = c.base
    /\ d.life = life /\ d.live = live /\ d.bufs = bufs /\ d.halt = halt

Latches(c, d) == d.quit = c.quit /\ d.exited = c.exited

(* A callback that may run in the life `when`: what it makes of the cart,  *)
(* and that the order holds afterwards if it held before.                  *)
Callback(c, d, when, life, live, bufs) ==
    /\ Becomes(c, d, life, live, bufs, c.halt) /\ Latches(c, d)
    /\ c.sound /\ c.life = when => d.sound

Advanced(n) == IF n < MaxLive THEN n + 1 ELSE n

(* init() starts a cart in a fresh machine. *)
LEMMA initFacts ==
    ASSUME NEW c, IsVm(c)
    PROVE Callback(c, init(c), "fresh", "inited", 0, c.bufs)
<1>1. IsVm(init(c))
  BY LifeBounds DEF init, IsVm, VmFields, Lives
<1>2. c.sound /\ c.life = "fresh" => init(c).sound
  BY Zenon DEF init, IsVm, VmFields, Ordered
<1>3. init(c).code = c.code /\ init(c).base = c.base /\ Latches(c, init(c))
  BY DEF init, IsVm, VmFields, Latches
<1>4. init(c).life = "inited" /\ init(c).live = 0 /\ init(c).bufs = c.bufs /\ init(c).halt = c.halt
  BY DEF init, IsVm, VmFields
<1> QED BY <1>1, <1>2, <1>3, <1>4 DEF Callback, Becomes

(* on_new_state() starts the cart's progress. *)
LEMMA newStateFacts ==
    ASSUME NEW c, IsVm(c)
    PROVE Callback(c, on_new_state(c), "inited", c.life, 1, c.bufs)
<1>1. IsVm(on_new_state(c))
  BY LifeBounds DEF on_new_state, IsVm, VmFields
<1>2. c.sound /\ c.life = "inited" => on_new_state(c).sound
  BY Zenon DEF on_new_state, IsVm, VmFields, Ordered
<1>3. on_new_state(c).code = c.code /\ on_new_state(c).base = c.base /\ Latches(c, on_new_state(c))
  BY DEF on_new_state, IsVm, VmFields, Latches
<1>4. on_new_state(c).life = c.life /\ on_new_state(c).live = 1 /\ on_new_state(c).bufs = c.bufs /\ on_new_state(c).halt = c.halt
  BY DEF on_new_state, IsVm, VmFields
<1> QED BY <1>1, <1>2, <1>3, <1>4 DEF Callback, Becomes

(* update() adds one step of progress, up to the bound. *)
LEMMA updateFacts ==
    ASSUME NEW c, IsVm(c)
    PROVE Callback(c, update(c), "inited", c.life, Advanced(c.live), c.bufs)
<1>1. IsVm(update(c))
  BY LifeBounds DEF update, IsVm, VmFields
<1>2. c.sound /\ c.life = "inited" => update(c).sound
  BY Zenon DEF update, IsVm, VmFields, Ordered
<1>3. update(c).code = c.code /\ update(c).base = c.base /\ Latches(c, update(c))
  BY DEF update, IsVm, VmFields, Latches
<1>4. update(c).life = c.life /\ update(c).live = Advanced(c.live) /\ update(c).bufs = c.bufs /\ update(c).halt = c.halt
  BY DEF update, IsVm, VmFields, Advanced
<1> QED BY <1>1, <1>2, <1>3, <1>4 DEF Callback, Becomes

(* on_save_state() copies the progress into the state buffers. *)
LEMMA saveFacts ==
    ASSUME NEW c, IsVm(c)
    PROVE Callback(c, on_save_state(c), "inited", c.life, c.live, c.live)
<1>1. IsVm(on_save_state(c))
  BY LifeBounds DEF on_save_state, IsVm, VmFields
<1>2. c.sound /\ c.life = "inited" => on_save_state(c).sound
  BY Zenon DEF on_save_state, IsVm, VmFields, Ordered
<1>3. on_save_state(c).code = c.code /\ on_save_state(c).base = c.base /\ Latches(c, on_save_state(c))
  BY DEF on_save_state, IsVm, VmFields, Latches
<1>4. on_save_state(c).life = c.life /\ on_save_state(c).live = c.live /\ on_save_state(c).bufs = c.live /\ on_save_state(c).halt = c.halt
  BY DEF on_save_state, IsVm, VmFields
<1> QED BY <1>1, <1>2, <1>3, <1>4 DEF Callback, Becomes

(* on_load_state() takes the progress back from the buffers. *)
LEMMA loadFacts ==
    ASSUME NEW c, IsVm(c)
    PROVE Callback(c, on_load_state(c), "inited", c.life, c.bufs, c.bufs)
<1>1. IsVm(on_load_state(c))
  BY LifeBounds DEF on_load_state, IsVm, VmFields
<1>2. c.sound /\ c.life = "inited" => on_load_state(c).sound
  BY Zenon DEF on_load_state, IsVm, VmFields, Ordered
<1>3. on_load_state(c).code = c.code /\ on_load_state(c).base = c.base /\ Latches(c, on_load_state(c))
  BY DEF on_load_state, IsVm, VmFields, Latches
<1>4. on_load_state(c).life = c.life /\ on_load_state(c).live = c.bufs /\ on_load_state(c).bufs = c.bufs /\ on_load_state(c).halt = c.halt
  BY DEF on_load_state, IsVm, VmFields
<1> QED BY <1>1, <1>2, <1>3, <1>4 DEF Callback, Becomes

(* on_assets_reloaded() leaves the cart's state alone. *)
LEMMA assetsFacts ==
    ASSUME NEW c, IsVm(c)
    PROVE Callback(c, on_assets_reloaded(c), "inited", c.life, c.live, c.bufs)
<1>1. IsVm(on_assets_reloaded(c))
  BY LifeBounds DEF on_assets_reloaded, IsVm, VmFields
<1>2. c.sound /\ c.life = "inited" => on_assets_reloaded(c).sound
  BY Zenon DEF on_assets_reloaded, IsVm, VmFields, Ordered
<1>3. on_assets_reloaded(c).code = c.code /\ on_assets_reloaded(c).base = c.base /\ Latches(c, on_assets_reloaded(c))
  BY DEF on_assets_reloaded, IsVm, VmFields, Latches
<1>4. on_assets_reloaded(c).life = c.life /\ on_assets_reloaded(c).live = c.live /\ on_assets_reloaded(c).bufs = c.bufs /\ on_assets_reloaded(c).halt = c.halt
  BY DEF on_assets_reloaded, IsVm, VmFields
<1> QED BY <1>1, <1>2, <1>3, <1>4 DEF Callback, Becomes

(* cleanup() ends the cart. *)
LEMMA cleanupFacts ==
    ASSUME NEW c, IsVm(c)
    PROVE Callback(c, cleanup(c), "inited", "ended", c.live, c.bufs)
<1>1. IsVm(cleanup(c))
  BY LifeBounds DEF cleanup, IsVm, VmFields, Lives
<1>2. c.sound /\ c.life = "inited" => cleanup(c).sound
  BY Zenon DEF cleanup, IsVm, VmFields, Ordered
<1>3. cleanup(c).code = c.code /\ cleanup(c).base = c.base /\ Latches(c, cleanup(c))
  BY DEF cleanup, IsVm, VmFields, Latches
<1>4. cleanup(c).life = "ended" /\ cleanup(c).live = c.live /\ cleanup(c).bufs = c.bufs /\ cleanup(c).halt = c.halt
  BY DEF cleanup, IsVm, VmFields
<1> QED BY <1>1, <1>2, <1>3, <1>4 DEF Callback, Becomes

(* Writing the buffers, the quit latch or the halt disturbs nothing else. *)
LEMMA bufsEdit ==
    ASSUME NEW c, IsVm(c), NEW n \in 0 .. MaxLive
    PROVE LET d == [c EXCEPT !.bufs = n]
          IN /\ Becomes(c, d, c.life, c.live, n, c.halt) /\ Latches(c, d)
             /\ c.sound => d.sound
<1> DEFINE d == [c EXCEPT !.bufs = n]
<1>1. Becomes(c, d, c.life, c.live, n, c.halt)
  BY DEF IsVm, VmFields, Becomes
<1>2. Latches(c, d)
  BY DEF IsVm, VmFields, Latches
<1>3. c.sound => d.sound
  BY DEF IsVm, VmFields
<1> QED BY <1>1, <1>2, <1>3

(* The quit latch alone changes. *)
LEMMA quitEdit ==
    ASSUME NEW c, IsVm(c), NEW q
    PROVE LET d == [c EXCEPT !.quit = q]
          IN /\ Becomes(c, d, c.life, c.live, c.bufs, c.halt)
             /\ d.quit = q
             /\ c.sound => d.sound
<1> DEFINE d == [c EXCEPT !.quit = q]
<1>1. Becomes(c, d, c.life, c.live, c.bufs, c.halt)
  BY DEF IsVm, VmFields, Becomes
<1>2. d.quit = q
  BY DEF IsVm, VmFields
<1>3. c.sound => d.sound
  BY DEF IsVm, VmFields
<1> QED BY <1>1, <1>2, <1>3

(* The halt alone changes. *)
LEMMA haltEdit ==
    ASSUME NEW c, IsVm(c), NEW h \in Halts
    PROVE LET d == [c EXCEPT !.halt = h]
          IN /\ Becomes(c, d, c.life, c.live, c.bufs, h) /\ Latches(c, d)
             /\ c.sound => d.sound
<1> DEFINE d == [c EXCEPT !.halt = h]
<1>1. Becomes(c, d, c.life, c.live, c.bufs, h)
  BY DEF IsVm, VmFields, Becomes
<1>2. Latches(c, d)
  BY DEF IsVm, VmFields, Latches
<1>3. c.sound => d.sound
  BY DEF IsVm, VmFields
<1> QED BY <1>1, <1>2, <1>3

(* A guest exit stops the machine and nothing else. *)
LEMMA exitEdit ==
    ASSUME NEW c, IsVm(c)
    PROVE LET d == [c EXCEPT !.halt = "exit", !.exited = TRUE]
          IN /\ Becomes(c, d, c.life, c.live, c.bufs, "exit")
             /\ c.sound => d.sound
<1> DEFINE d == [c EXCEPT !.halt = "exit", !.exited = TRUE]
<1>1. Becomes(c, d, c.life, c.live, c.bufs, "exit")
  BY DEF IsVm, VmFields, Becomes, Halts
<1>2. c.sound => d.sound
  BY DEF IsVm, VmFields
<1> QED BY <1>1, <1>2

(* The first frame of a session runs init() and on_new_state(). *)
LEMMA mainFacts ==
    ASSUME NEW c, IsVm(c), c.sound, c.life \in {"fresh", "inited"}
    PROVE LET d == blyt_main(c)
          IN /\ Becomes(c, d, "inited", IF c.life = "fresh" THEN 1 ELSE c.live, c.bufs, c.halt)
             /\ d.sound
             /\ c.life = "fresh" => ~d.quit
             /\ c.life = "inited" => d = c
<1>1. CASE c.life = "fresh"
  <2> DEFINE a == [c EXCEPT !.quit = FALSE]
             b == init(a)
             d == on_new_state(b)
  <2>1. /\ Becomes(c, a, c.life, c.live, c.bufs, c.halt)
        /\ a.quit = FALSE /\ a.sound
    BY quitEdit
  <2>2. Callback(a, b, "fresh", "inited", 0, a.bufs)
    BY <2>1, initFacts, Zenon DEF Becomes
  <2>3. Callback(b, d, "inited", b.life, 1, b.bufs)
    BY <2>2, newStateFacts DEF Becomes, Callback
  <2>4. blyt_main(c) = d
    BY <1>1 DEF blyt_main
  <2> HIDE DEF a, b, d
  <2>5. Becomes(c, d, "inited", 1, c.bufs, c.halt)
    BY <2>1, <2>2, <2>3 DEF Becomes, Callback
  <2>6. d.sound
    BY <1>1, <2>1, <2>2, <2>3 DEF Becomes, Callback
  <2>7. ~d.quit
    BY <2>1, <2>2, <2>3 DEF Callback, Latches
  <2> QED BY <1>1, <2>4, <2>5, <2>6, <2>7
<1>2. CASE c.life = "inited"
  BY <1>2 DEF blyt_main, Becomes
<1> QED BY <1>1, <1>2

(* One run of the guest: cleanup() after a quit, else one update(). *)
LEMMA stepFacts ==
    ASSUME NEW b, NEW play \in Plays, IsVm(b), b.sound, b.life = "inited", b.halt = "no"
    PROVE LET d == Step(b, play)
          IN /\ IF b.quit THEN Becomes(b, d, "ended", b.live, b.bufs, "exit")
                ELSE /\ Becomes(b, d, "inited", Advanced(b.live), b.bufs, d.halt)
                     /\ d.halt \in {"no", "exit", "trap"}
             /\ d.sound
<1>1. CASE b.quit
  <2> DEFINE e == cleanup(b)
  <2>1. Callback(b, e, "inited", "ended", b.live, b.bufs)
    BY cleanupFacts
  <2>2. IsVm(e) /\ e.sound
    BY <2>1 DEF Callback, Becomes
  <2>3. Step(b, play) = [e EXCEPT !.halt = "exit", !.exited = TRUE]
    BY <1>1 DEF Step, Plays
  <2> HIDE DEF e
  <2>4. /\ Becomes(e, Step(b, play), e.life, e.live, e.bufs, "exit")
        /\ Step(b, play).sound
    BY <2>2, <2>3, exitEdit, Zenon
  <2>5. /\ e.code = b.code /\ e.base = b.base /\ e.life = "ended"
        /\ e.live = b.live /\ e.bufs = b.bufs
    BY <2>1, Zenon DEF Callback, Becomes
  <2>6. Becomes(b, Step(b, play), "ended", b.live, b.bufs, "exit")
    BY <2>4, <2>5, Zenon DEF Becomes
  <2> QED BY <1>1, <2>4, <2>6, Zenon
<1>2. CASE ~b.quit
  <2> DEFINE e == update(b)
  <2>1. Callback(b, e, "inited", b.life, Advanced(b.live), b.bufs)
    BY updateFacts
  <2>2. IsVm(e) /\ e.sound
    BY <2>1 DEF Callback, Becomes
  <2>3. \/ Step(b, play) = e
        \/ Step(b, play) = [e EXCEPT !.quit = TRUE]
        \/ Step(b, play) = [e EXCEPT !.halt = "exit", !.exited = TRUE]
        \/ Step(b, play) = [e EXCEPT !.halt = "trap"]
    BY <1>2 DEF Step, Plays
  <2>4. "trap" \in Halts
    BY DEF Halts
  <2>5. LET f == [e EXCEPT !.quit = TRUE]
        IN Becomes(e, f, e.life, e.live, e.bufs, e.halt) /\ f.sound
    BY <2>2, quitEdit
  <2>6. LET f == [e EXCEPT !.halt = "exit", !.exited = TRUE]
        IN Becomes(e, f, e.life, e.live, e.bufs, "exit") /\ f.sound
    BY <2>2, exitEdit, Zenon
  <2>7. LET f == [e EXCEPT !.halt = "trap"]
        IN Becomes(e, f, e.life, e.live, e.bufs, "trap") /\ f.sound
    BY <2>2, <2>4, haltEdit
  <2> HIDE DEF e
  <2> DEFINE d == Step(b, play)
  <2>8. IsVm(e) /\ e.sound /\ e.halt = "no" /\ Becomes(e, e, e.life, e.live, e.bufs, e.halt)
    BY <2>1, <2>2 DEF Callback, Becomes
  <2> HIDE DEF d
  <2>9. /\ d.sound /\ d.halt \in {"no", "exit", "trap"}
        /\ Becomes(e, d, e.life, e.live, e.bufs, d.halt)
    <3>1. CASE d = e
      BY <3>1, <2>8
    <3>2. CASE d = [e EXCEPT !.quit = TRUE]
      BY <3>2, <2>8, <2>5 DEF Becomes
    <3>3. CASE d = [e EXCEPT !.halt = "exit", !.exited = TRUE]
      BY <3>3, <2>6 DEF Becomes
    <3>4. CASE d = [e EXCEPT !.halt = "trap"]
      BY <3>4, <2>7 DEF Becomes
    <3> QED BY <2>3, <3>1, <3>2, <3>3, <3>4 DEF d
  <2> QED BY <1>2, <2>1, <2>9 DEF Callback, Becomes, d
<1> QED BY <1>1, <1>2

(* One frame of a session. *)
FrameLive(c) == IF c.life = "fresh" THEN Advanced(1)
                ELSE IF c.quit \/ c.halt # "no" THEN c.live ELSE Advanced(c.live)

(* A frame of a session: the boot if it is the first, then one step. *)
LEMMA frameFacts ==
    ASSUME NEW c, NEW play \in Plays, IsVm(c), c.sound, c.life # "ended",
           c.life = "fresh" => c.halt = "no"
    PROVE LET d == run_frame_impl(c, play)
          IN /\ Becomes(c, d, d.life, FrameLive(c), c.bufs, d.halt) /\ d.sound
             /\ d.life = "inited" \/ (d.life = "ended" /\ d.halt = "exit")
             /\ c.life = "fresh" => d.life = "inited"
             /\ d.halt = "no" => c.halt = "no" /\ d.life = "inited" /\ (c.life = "fresh" \/ ~c.quit)
<1> c.life \in {"fresh", "inited"} /\ c.halt \in Halts
  BY DEF IsVm, Lives
<1>1. CASE c.halt = "no"
  <2> DEFINE b == blyt_main(c)
             d == Step(b, play)
  <2>1. /\ Becomes(c, b, "inited", IF c.life = "fresh" THEN 1 ELSE c.live, c.bufs, c.halt)
        /\ b.sound
        /\ c.life = "fresh" => ~b.quit
        /\ c.life = "inited" => b = c
    BY mainFacts
  <2>2. run_frame_impl(c, play) = d
    BY <1>1 DEF run_frame_impl
  <2> HIDE DEF b
  <2>3. /\ IF b.quit THEN Becomes(b, d, "ended", b.live, b.bufs, "exit")
           ELSE /\ Becomes(b, d, "inited", Advanced(b.live), b.bufs, d.halt)
                /\ d.halt \in {"no", "exit", "trap"}
        /\ d.sound
    BY <1>1, <2>1, stepFacts DEF Becomes
  <2> HIDE DEF d
  <2>4. Becomes(c, d, d.life, FrameLive(c), c.bufs, d.halt)
    BY <1>1, <2>1, <2>3 DEF Becomes, FrameLive
  <2> QED BY <1>1, <2>1, <2>2, <2>3, <2>4 DEF Becomes
<1>2. CASE c.halt = "stuck"
  <2>1. run_frame_impl(c, play) = [c EXCEPT !.halt = "trap"]
    BY <1>2 DEF run_frame_impl
  <2>2. "trap" \in Halts
    BY DEF Halts
  <2> QED BY <1>2, <2>1, <2>2, haltEdit DEF Becomes, FrameLive
<1>3. CASE c.halt \in {"exit", "trap"}
  <2>1. run_frame_impl(c, play) = c
    BY <1>3 DEF run_frame_impl
  <2> QED BY <1>3, <2>1 DEF Becomes, FrameLive
<1> QED BY <1>1, <1>2, <1>3 DEF Halts

(* The hooks of a session: a machine that trapped runs none of them. *)
Hooked(h) == IF h = "trap" THEN "stuck" ELSE h

(* A snapshot holds the cart's progress unless its machine trapped. *)
LEMMA snapshotFacts ==
    ASSUME NEW c, IsVm(c), c.sound, c.life = "inited"
    PROVE LET d == session_snapshot(c)
          IN /\ Becomes(c, d, "inited", c.live, IF c.halt = "trap" THEN c.bufs ELSE c.live,
                        Hooked(c.halt))
             /\ d.sound
<1>1. Callback(c, on_save_state(c), "inited", c.life, c.live, c.live)
  BY saveFacts
<1>2. "stuck" \in Halts
  BY DEF Halts
<1> QED BY <1>1, <1>2, haltEdit DEF session_snapshot, call_guest_hook, Hooked, Callback, Becomes

(* on_load_state() in a session takes the progress from the buffers. *)
LEMMA guestLoadFacts ==
    ASSUME NEW c, IsVm(c), c.sound, c.life = "inited"
    PROVE LET d == call_guest_on_load_state(c)
          IN /\ Becomes(c, d, "inited", IF c.halt = "trap" THEN c.live ELSE c.bufs, c.bufs,
                        Hooked(c.halt))
             /\ d.sound
<1>1. Callback(c, on_load_state(c), "inited", c.life, c.bufs, c.bufs)
  BY loadFacts
<1>2. "stuck" \in Halts
  BY DEF Halts
<1> QED BY <1>1, <1>2, haltEdit
        DEF call_guest_on_load_state, call_guest_hook, Hooked, Callback, Becomes

(* A restore brings the progress of the snapshot back. *)
LEMMA restoreFacts ==
    ASSUME NEW c, IsVm(c), c.sound, c.life = "inited", NEW n \in 0 .. MaxLive
    PROVE LET d == session_restore(c, n)
          IN /\ Becomes(c, d, "inited", IF c.halt = "trap" THEN c.live ELSE n, n,
                        Hooked(c.halt))
             /\ d.sound
<1> DEFINE e == [c EXCEPT !.bufs = n]
<1>1. Becomes(c, e, c.life, c.live, n, c.halt) /\ e.sound
  BY bufsEdit
<1>2. session_restore(c, n) = call_guest_on_load_state(e)
  BY DEF session_restore
<1> HIDE DEF e
<1> QED BY <1>1, <1>2, guestLoadFacts DEF Becomes

(* The asset hook of a session leaves the progress alone. *)
LEMMA notifyFacts ==
    ASSUME NEW c, IsVm(c), c.sound, c.life = "inited"
    PROVE LET d == notify_assets_reloaded(c)
          IN Becomes(c, d, "inited", c.live, c.bufs, Hooked(c.halt)) /\ d.sound
<1>1. Callback(c, on_assets_reloaded(c), "inited", c.life, c.live, c.bufs)
  BY assetsFacts
<1>2. "stuck" \in Halts
  BY DEF Halts
<1> QED BY <1>1, <1>2, haltEdit
        DEF notify_assets_reloaded, call_guest_hook, Hooked, Callback, Becomes

(* The swap of a session's image leaves a blank machine. *)
LEMMA swapFacts ==
    ASSUME NEW c, c.sound, NEW b, b.code \in Codes, NEW base \in Bases
    PROVE LET d == swap_cart(c, b, base)
          IN /\ IsVm(d) /\ d.sound /\ d.code = b.code /\ d.base = base
             /\ d.life = "fresh" /\ d.live = 0 /\ d.bufs = 0 /\ d.halt = "no"
<1> DEFINE d == swap_cart(c, b, base)
<1>1. IsVm(d)
  BY LifeBounds DEF swap_cart, Fresh, IsVm, VmFields, Lives, Halts
<1>2. d.sound
  BY DEF swap_cart, Fresh
<1>3. d.code = b.code /\ d.base = base /\ d.life = "fresh" /\ d.live = 0 /\ d.bufs = 0 /\ d.halt = "no"
  BY DEF swap_cart, Fresh
<1> QED BY <1>1, <1>2, <1>3

(* A reload alternates between the two bases. *)
LEMMA nextBase ==
    ASSUME NEW c PROVE next_reload_base(c) \in Bases
BY DEF next_reload_base, Bases

(* The stress cycle of a session: a second init() between a save and a     *)
(* load leaves the cart where it was.                                      *)
LEMMA resetCycleFacts ==
    ASSUME NEW c, IsVm(c), c.sound, c.life = "inited"
    PROVE LET d == reset_every_frame_cycle(c)
          IN Becomes(c, d, "inited", c.live, d.bufs, c.halt) /\ d.sound
<1>1. CASE c.exited \/ c.halt = "trap"
  BY <1>1 DEF reset_every_frame_cycle, Becomes
<1>2. CASE ~(c.exited \/ c.halt = "trap")
  <2> DEFINE s == on_save_state(c)
             y == [s EXCEPT !.bufs = 0, !.live = 0, !.life = "fresh"]
             z == init(y)
             w == [z EXCEPT !.bufs = s.bufs]
             d == on_load_state(w)
  <2>1. Callback(c, s, "inited", c.life, c.live, c.live) /\ s.sound
    BY saveFacts DEF Callback
  <2>2. reset_every_frame_cycle(c) = d
    BY <1>2 DEF reset_every_frame_cycle
  <2> HIDE DEF s
  <2>3. Becomes(s, y, "fresh", 0, 0, s.halt)
    BY <2>1, LifeBounds DEF Callback, Becomes, IsVm, VmFields, Lives
  <2>4. y.sound
    BY <2>1 DEF Callback, Becomes, IsVm, VmFields
  <2> HIDE DEF y
  <2>5. Callback(y, z, "fresh", "inited", 0, y.bufs) /\ z.sound
    BY <2>3, <2>4, initFacts DEF Becomes, Callback
  <2> HIDE DEF z
  <2>6. Becomes(z, w, z.life, z.live, s.bufs, z.halt) /\ w.sound
    BY <2>1, <2>5, bufsEdit DEF Becomes, Callback, IsVm
  <2> HIDE DEF w
  <2>7. Callback(w, d, "inited", w.life, w.bufs, w.bufs) /\ d.sound
    BY <2>5, <2>6, loadFacts DEF Becomes, Callback
  <2> HIDE DEF d
  <2>8. Becomes(c, d, "inited", c.live, d.bufs, c.halt)
    BY <2>1, <2>3, <2>5, <2>6, <2>7 DEF Becomes, Callback
  <2> QED BY <2>2, <2>7, <2>8
<1> QED BY <1>1, <1>2

(* The boot chunks of the host-Lua runner. *)
LEMMA bootFacts ==
    ASSUME NEW c, IsVm(c), c.sound, c.life = "fresh"
    PROVE /\ Becomes(c, CO_BODY_INIT(c), "inited", 1, c.bufs, c.halt) /\ CO_BODY_INIT(c).sound
          /\ Becomes(c, CO_BODY_RELOAD_INIT(c), "inited", 0, c.bufs, c.halt)
          /\ CO_BODY_RELOAD_INIT(c).sound
<1> DEFINE i == init(c)
<1>1. Callback(c, i, "fresh", "inited", 0, c.bufs) /\ i.sound
  BY initFacts DEF Callback
<1>2. CO_BODY_INIT(c) = on_new_state(i) /\ CO_BODY_RELOAD_INIT(c) = i
  BY DEF CO_BODY_INIT, CO_BODY_RELOAD_INIT
<1> HIDE DEF i
<1>3. Callback(i, on_new_state(i), "inited", i.life, 1, i.bufs)
  BY <1>1, newStateFacts DEF Callback, Becomes
<1>4. on_new_state(i).sound
  BY <1>1, <1>3 DEF Callback, Becomes
<1>5. Becomes(c, on_new_state(i), "inited", 1, c.bufs, c.halt)
  BY <1>1, <1>3 DEF Callback, Becomes
<1> QED BY <1>1, <1>2, <1>4, <1>5 DEF Callback

(* One frame of the host-Lua runner. *)
LEMMA runningFacts ==
    ASSUME NEW c, NEW play \in Plays, IsVm(c), c.sound, c.life = "inited"
    PROVE LET d == CO_BODY_RUNNING(c, play)
          IN /\ IF c.quit THEN Becomes(c, d, "ended", c.live, c.bufs, "exit")
                ELSE Becomes(c, d, "inited", Advanced(c.live), c.bufs, c.halt)
             /\ d.sound
<1>1. CASE c.quit
  <2> DEFINE e == cleanup(c)
  <2>1. Callback(c, e, "inited", "ended", c.live, c.bufs) /\ e.sound
    BY cleanupFacts DEF Callback
  <2>2. CO_BODY_RUNNING(c, play) = [e EXCEPT !.halt = "exit"]
    BY <1>1 DEF CO_BODY_RUNNING
  <2>3. "exit" \in Halts
    BY DEF Halts
  <2> HIDE DEF e
  <2> QED BY <1>1, <2>1, <2>2, <2>3, haltEdit DEF Callback, Becomes
<1>2. CASE ~c.quit
  <2> DEFINE e == update(c)
  <2>1. Callback(c, e, "inited", c.life, Advanced(c.live), c.bufs) /\ e.sound
    BY updateFacts DEF Callback
  <2>2. \/ CO_BODY_RUNNING(c, play) = e
        \/ CO_BODY_RUNNING(c, play) = [e EXCEPT !.quit = TRUE]
    BY <1>2 DEF CO_BODY_RUNNING, Plays
  <2> HIDE DEF e
  <2>3. LET f == [e EXCEPT !.quit = TRUE]
        IN Becomes(e, f, e.life, e.live, e.bufs, e.halt) /\ f.sound
    BY <2>1, quitEdit DEF Callback, Becomes
  <2>4. /\ Becomes(e, CO_BODY_RUNNING(c, play), e.life, e.live, e.bufs, e.halt)
        /\ CO_BODY_RUNNING(c, play).sound
    BY <2>1, <2>2, <2>3, Zenon DEF Callback, Becomes
  <2> QED BY <1>2, <2>1, <2>4 DEF Callback, Becomes
<1> QED BY <1>1, <1>2

(* Tearing the Lua machine down and building it again blanks its globals. *)
LEMMA buildFacts ==
    ASSUME NEW c, IsVm(c), c.sound
    PROVE /\ Becomes(c, build_vm(c), "fresh", 0, c.bufs, c.halt)
          /\ build_vm(c).sound /\ Latches(c, build_vm(c))
          /\ Rebuilt(c) = build_vm(c)
<1>1. Becomes(c, build_vm(c), "fresh", 0, c.bufs, c.halt)
  BY LifeBounds DEF build_vm, Becomes, IsVm, VmFields, Lives
<1>2. build_vm(c).sound
  BY DEF build_vm, IsVm, VmFields
<1>3. Latches(c, build_vm(c))
  BY DEF build_vm, IsVm, VmFields, Latches
<1> QED BY <1>1, <1>2, <1>3 DEF Rebuilt, build_vm

(* A machine just created, blank or booted. *)
LEMMA freshFacts ==
    ASSUME NEW b, b.code \in Codes
    PROVE LET d == Fresh(b)
          IN /\ IsVm(d) /\ d.sound /\ d.code = b.code /\ d.base = "native" /\ d.life = "fresh"
             /\ d.live = 0 /\ d.bufs = 0 /\ d.halt = "no" /\ ~d.quit
<1>1. IsVm(Fresh(b))
  BY LifeBounds DEF Fresh, IsVm, VmFields, Lives, Halts, Bases
<1>2. Fresh(b).sound /\ ~Fresh(b).quit
  BY DEF Fresh
<1> QED BY <1>1, <1>2 DEF Fresh

(* A host Lua machine is blank when built and initialised when created. *)
LEMMA createFacts ==
    ASSUME NEW b, b.code \in Codes
    PROVE /\ LET d == hl_new(b)
             IN /\ IsVm(d) /\ d.sound /\ d.code = b.code /\ d.base = "native"
                /\ d.life = "fresh" /\ d.live = 0 /\ d.halt = "no"
          /\ LET d == hostlua_create(b)
             IN /\ IsVm(d) /\ d.sound /\ d.code = b.code /\ d.base = "native"
                /\ d.life = "inited" /\ d.live = 1 /\ d.halt = "no"
<1> DEFINE f == Fresh(b)
           n == hl_new(b)
<1>1. IsVm(f) /\ f.sound /\ f.code = b.code /\ f.base = "native" /\ f.halt = "no"
  BY freshFacts
<1>2. n = build_vm(f)
  BY DEF hl_new
<1> HIDE DEF f
<1>3. Becomes(f, n, "fresh", 0, f.bufs, f.halt) /\ n.sound
  BY <1>1, <1>2, buildFacts
<1>4. hostlua_create(b) = CO_BODY_INIT(n)
  BY DEF hostlua_create, hl_boot
<1> HIDE DEF n
<1>5. Becomes(n, CO_BODY_INIT(n), "inited", 1, n.bufs, n.halt) /\ CO_BODY_INIT(n).sound
  BY <1>3, bootFacts DEF Becomes
<1> QED BY <1>1, <1>3, <1>4, <1>5 DEF Becomes, n

(* The readiness gate boots the blank machine behind it. *)
LEMMA waitReadyFacts ==
    ASSUME NEW c, IsVm(c), c.sound, c.life = "fresh"
    PROVE /\ Becomes(c, hostlua_wait_ready(c), "inited", 1, c.bufs, c.halt)
          /\ hostlua_wait_ready(c).sound
BY bootFacts DEF hostlua_wait_ready, hl_boot

(* A rebuild that keeps the state: blank, init(), buffers, on_load_state().*)
LEMMA rebuildFacts ==
    ASSUME NEW c, IsVm(c), c.sound, NEW n \in 0 .. MaxLive
    PROVE LET d == rebuild_and_restore(c, n)
          IN /\ Becomes(c, d, "inited", n, n, c.halt) /\ d.sound
             /\ Rebuild(c, n, TRUE) = d
<1> DEFINE b == build_vm(c)
           i == CO_BODY_RELOAD_INIT(b)
           w == [i EXCEPT !.bufs = n]
           d == on_load_state(w)
<1>1. Becomes(c, b, "fresh", 0, c.bufs, c.halt) /\ b.sound /\ Rebuilt(c) = b
  BY buildFacts
<1>2. rebuild_and_restore(c, n) = d /\ Rebuild(c, n, TRUE) = d
  BY <1>1 DEF rebuild_and_restore, hl_boot, Rebuild
<1> HIDE DEF b
<1>3. Becomes(b, i, "inited", 0, b.bufs, b.halt) /\ i.sound
  BY <1>1, bootFacts DEF Becomes
<1> HIDE DEF i
<1>4. Becomes(i, w, i.life, i.live, n, i.halt) /\ w.sound
  BY <1>3, bufsEdit DEF Becomes
<1> HIDE DEF w
<1>5. Callback(w, d, "inited", w.life, w.bufs, w.bufs)
  BY <1>4, loadFacts DEF Becomes
<1> HIDE DEF d
<1>6. Becomes(c, d, "inited", n, n, c.halt)
  BY <1>1, <1>3, <1>4, <1>5 DEF Becomes, Callback
<1>7. d.sound
  BY <1>3, <1>4, <1>5 DEF Becomes, Callback
<1> QED BY <1>2, <1>6, <1>7, Zenon

(* A rebuild that keeps nothing: blank, init(), on_new_state(). *)
LEMMA blankRebuildFacts ==
    ASSUME NEW c, IsVm(c), c.sound
    PROVE /\ Becomes(c, Rebuild(c, 0, FALSE), "inited", 1, 0, c.halt)
          /\ Rebuild(c, 0, FALSE).sound
<1> DEFINE b == Rebuilt(c)
           w == [b EXCEPT !.bufs = 0]
<1>1. Becomes(c, b, "fresh", 0, c.bufs, c.halt) /\ b.sound
  BY buildFacts
<1>2. Rebuild(c, 0, FALSE) = CO_BODY_INIT(w)
  BY DEF Rebuild
<1> HIDE DEF b
<1>3. Becomes(b, w, b.life, b.live, 0, b.halt) /\ w.sound
  BY <1>1, bufsEdit, LifeBounds DEF Becomes
<1> HIDE DEF w
<1>4. Becomes(w, CO_BODY_INIT(w), "inited", 1, w.bufs, w.halt) /\ CO_BODY_INIT(w).sound
  BY <1>1, <1>3, bootFacts DEF Becomes
<1> QED BY <1>1, <1>2, <1>3, <1>4, Zenon DEF Becomes

(* The stress cycles of the two Lua runners leave the cart where it was. *)
LEMMA luaCycleFacts ==
    ASSUME NEW c, IsVm(c), c.sound, c.life = "inited"
    PROVE /\ LET d == hostlua_reset_cycle(c)
             IN Becomes(c, d, "inited", c.live, d.bufs, c.halt) /\ d.sound
          /\ LET d == wasm_lua_reset_cycle(c)
             IN Becomes(c, d, "inited", c.live, d.bufs, c.halt) /\ d.sound
<1> DEFINE s == on_save_state(c)
           z == [s EXCEPT !.bufs = 0]
           d == rebuild_and_restore(z, s.bufs)
<1>1. Callback(c, s, "inited", c.life, c.live, c.live) /\ s.sound
  BY saveFacts DEF Callback
<1>2. /\ hostlua_reset_cycle(c) = IF c.halt # "no" THEN c ELSE d
      /\ wasm_lua_reset_cycle(c) = Rebuild(z, s.bufs, TRUE)
  BY DEF hostlua_reset_cycle, wasm_lua_reset_cycle
<1> HIDE DEF s
<1>3. Becomes(s, z, s.life, s.live, 0, s.halt) /\ z.sound
  BY <1>1, bufsEdit, LifeBounds DEF Becomes, Callback
<1> HIDE DEF z
<1>4. s.bufs \in 0 .. MaxLive
  BY <1>1 DEF Callback, Becomes, IsVm
<1>5. Becomes(z, d, "inited", s.bufs, s.bufs, z.halt) /\ d.sound /\ Rebuild(z, s.bufs, TRUE) = d
  BY <1>3, <1>4, rebuildFacts, Zenon DEF Becomes
<1> HIDE DEF d
<1>6. Becomes(c, d, "inited", c.live, d.bufs, c.halt)
  BY <1>1, <1>3, <1>5 DEF Becomes, Callback
<1>7. Becomes(c, c, "inited", c.live, c.bufs, c.halt)
  BY DEF Becomes
<1> QED BY <1>2, <1>5, <1>6, <1>7, Zenon

(* A new image in the machine of a Lua cart, its buffers blank. *)
Imaged(c, k, base) == [c EXCEPT !.code = k, !.assets = k, !.bufs = 0, !.base = base]

(* It keeps the order and the life of the machine. *)
LEMMA imageFacts ==
    ASSUME NEW c, IsVm(c), c.sound, NEW k \in Codes, NEW base \in Bases
    PROVE LET d == Imaged(c, k, base)
          IN /\ IsVm(d) /\ d.sound /\ d.code = k /\ d.base = base
             /\ d.life = c.life /\ d.live = c.live /\ d.bufs = 0 /\ d.halt = c.halt
<1> DEFINE d == Imaged(c, k, base)
<1>1. /\ IsVm(d) /\ d.code = k /\ d.base = base
      /\ d.life = c.life /\ d.live = c.live /\ d.bufs = 0 /\ d.halt = c.halt
  BY LifeBounds DEF IsVm, VmFields, Imaged
<1>2. d.sound
  BY DEF IsVm, VmFields, Imaged
<1> QED BY <1>1, <1>2

(* The image of a Lua cart changes, its base does not. *)
LEMMA codeEdit ==
    ASSUME NEW c, IsVm(c), c.sound, NEW k \in Codes
    PROVE LET d == [c EXCEPT !.code = k, !.assets = k, !.bufs = 0]
          IN IsVm(d) /\ d.sound /\ d.code = k /\ d.life = c.life /\ d.halt = c.halt
<1> DEFINE d == [c EXCEPT !.code = k, !.assets = k, !.bufs = 0]
<1>1. IsVm(d) /\ d.code = k /\ d.life = c.life /\ d.halt = c.halt
  BY LifeBounds DEF IsVm, VmFields
<1>2. d.sound
  BY DEF IsVm, VmFields
<1> QED BY <1>1, <1>2

(* The base alone changes. *)
LEMMA baseEdit ==
    ASSUME NEW c, IsVm(c), c.sound, NEW base \in Bases
    PROVE LET d == [c EXCEPT !.base = base]
          IN IsVm(d) /\ d.sound /\ d.code = c.code /\ d.life = c.life /\ d.halt = c.halt
<1> DEFINE d == [c EXCEPT !.base = base]
<1>1. IsVm(d) /\ d.code = c.code /\ d.life = c.life /\ d.halt = c.halt
  BY DEF IsVm, VmFields
<1>2. d.sound
  BY DEF IsVm, VmFields
<1> QED BY <1>1, <1>2

(* ------------------------- the debugger's list ------------------------- *)

Entries == (Codes \cup {0}) \X Bases
DbgFields == {"on", "libs", "idx", "old", "phase", "ticks", "moved", "told", "view", "late"}

(* The list holds one image of the cart outside a swap, the old one and,   *)
(* last, the new one in its first phase.                                   *)
Listed(d) ==
    /\ DOMAIN d = DbgFields
    /\ d.libs \in Seq(Entries) /\ Len(d.libs) <= MaxLibs /\ d.idx \in 1 .. Len(d.libs)
    /\ d.phase \in 0 .. 2 /\ d.ticks \in Nat
    /\ d.phase = 1 => d.idx < Len(d.libs) /\ d.old = d.idx
    /\ \A i \in 1 .. Len(d.libs) :
           d.libs[i][1] # 0 <=> (i = d.idx \/ (d.phase = 1 /\ i = Len(d.libs)))

(* The newest image listed is e, and a client that has answered since the  *)
(* phase was published, or is asked nothing, has loaded it.                *)
Newest(d) == d.libs[IF d.phase = 1 THEN Len(d.libs) ELSE d.idx]
Armed(d, e) == ~d.late /\ (d.moved \/ d.phase = 0) => e \in d.view
Shows(d, e) == Newest(d) = e /\ Armed(d, e)

(* Builds are numbered from one; zero marks a library not the cart's. *)
LEMMA codesFacts == Codes \subseteq Nat /\ 0 \notin Codes /\ 1 \in Codes
BY CodesAreNumbered

(* A machine's image is a cart entry of the library list. *)
LEMMA entryFacts ==
    ASSUME NEW c, IsVm(c)
    PROVE Entry(c) \in Entries /\ Entry(c)[1] # 0
BY codesFacts DEF Entry, Entries, IsVm

(* Publishing the list asks the client and changes no entry. *)
LEMMA publishFacts ==
    ASSUME NEW d, Listed(d)
    PROVE LET f == publish_libs_nowait(d)
          IN /\ Listed(f) /\ f.libs = d.libs /\ f.idx = d.idx /\ f.phase = d.phase
             /\ f.view = d.view /\ f.old = d.old /\ f.on = d.on /\ f.late = d.late /\ ~f.moved
<1> DEFINE f == publish_libs_nowait(d)
<1>1. DOMAIN f = DbgFields
  BY DEF publish_libs_nowait, Listed, DbgFields
<1>2. f.libs = d.libs /\ f.idx = d.idx /\ f.phase = d.phase /\ f.view = d.view /\ f.old = d.old
  BY DEF publish_libs_nowait, Listed, DbgFields
<1>3. f.on = d.on /\ f.late = d.late /\ ~f.moved
  BY DEF publish_libs_nowait, Listed, DbgFields
<1>4. f.ticks \in Nat
  BY DEF publish_libs_nowait, Listed, DbgFields
<1>5. Listed(f)
  BY <1>1, <1>2, <1>4 DEF Listed
<1> QED BY <1>2, <1>3, <1>5

(* A swap begins: the new image is appended, or replaces the old one when  *)
(* the list is full.                                                       *)
LEMMA beginFacts ==
    ASSUME NEW d, Listed(d), d.phase = 0, NEW c, IsVm(c)
    PROVE LET f == reload_notify_begin(d, c)
          IN Listed(f) /\ f.on = d.on /\ f.phase \in {1, 2} /\ Shows(f, Entry(c))
<1> DEFINE e == [d EXCEPT !.old = d.idx, !.late = FALSE]
<1>1. Entry(c) \in Entries /\ Entry(c)[1] # 0
  BY entryFacts
<1>2. /\ DOMAIN e = DbgFields /\ e.libs = d.libs /\ e.idx = d.idx /\ e.old = d.idx
      /\ e.phase = d.phase /\ e.ticks = d.ticks
  BY DEF Listed, DbgFields
<1>3. e.on = d.on
  BY DEF Listed, DbgFields
<1>4. CASE Len(d.libs) >= MaxLibs
  <2> DEFINE g == [e EXCEPT !.libs[d.idx] = Entry(c), !.phase = 2]
  <2>1. reload_notify_begin(d, c) = publish_libs_nowait(g)
    BY <1>4 DEF reload_notify_begin
  <2>2. DOMAIN g = DbgFields /\ g.phase = 2 /\ g.idx = d.idx /\ g.on = d.on /\ g.ticks = d.ticks
    BY <1>2, <1>3 DEF DbgFields
  <2>3. g.libs = [d.libs EXCEPT ![d.idx] = Entry(c)]
    BY <1>2 DEF DbgFields
  <2> HIDE DEF g, e
  <2>4. g.libs \in Seq(Entries) /\ Len(g.libs) = Len(d.libs)
    BY <1>1, <2>3 DEF Listed
  <2>5. \A i \in 1 .. Len(g.libs) : g.libs[i] = IF i = d.idx THEN Entry(c) ELSE d.libs[i]
    BY <2>3, <2>4 DEF Listed
  <2>6. Listed(g) /\ Newest(g) = Entry(c)
    BY <1>1, <2>2, <2>4, <2>5 DEF Listed, Newest
  <2> QED BY <2>1, <2>2, <2>6, publishFacts DEF Shows, Armed, Newest
<1>5. CASE ~(Len(d.libs) >= MaxLibs)
  <2> DEFINE g == [e EXCEPT !.libs = Append(@, Entry(c)), !.phase = 1]
  <2>1. reload_notify_begin(d, c) = publish_libs_nowait(g)
    BY <1>5 DEF reload_notify_begin
  <2>2. /\ DOMAIN g = DbgFields /\ g.phase = 1 /\ g.idx = d.idx /\ g.old = d.idx
        /\ g.on = d.on /\ g.ticks = d.ticks
    BY <1>2, <1>3 DEF DbgFields
  <2>3. g.libs = Append(d.libs, Entry(c))
    BY <1>2 DEF DbgFields
  <2> HIDE DEF g, e
  <2>4. g.libs \in Seq(Entries) /\ Len(g.libs) = Len(d.libs) + 1
    BY <1>1, <2>3 DEF Listed
  <2>5. \A i \in 1 .. Len(g.libs) :
            g.libs[i] = IF i = Len(d.libs) + 1 THEN Entry(c) ELSE d.libs[i]
    BY <2>3, <2>4 DEF Listed
  <2>6. Listed(g) /\ Newest(g) = Entry(c)
    BY <1>1, <1>5, <2>2, <2>4, <2>5, LifeBounds DEF Listed, Newest
  <2> QED BY <2>1, <2>2, <2>6, publishFacts DEF Shows, Armed, Newest
<1> QED BY <1>4, <1>5

(* The old image dropped: the new one takes its place in the list. *)
LEMMA dropFacts ==
    ASSUME NEW d, Listed(d), d.phase = 1,
           NEW g, DOMAIN g = DbgFields, g.libs = reload_notify_drop_old(d).libs,
           g.idx = d.idx, g.phase \in {0, 2}, g.ticks \in Nat
    PROVE Listed(g) /\ Newest(g) = Newest(d)
<1> DEFINE n == Len(d.libs)
           t == SubSeq(d.libs, 1, n - 1)
<1>1. n \in Nat /\ d.idx \in 1 .. n - 1 /\ n <= MaxLibs
  BY DEF Listed
<1>2. g.libs = [t EXCEPT ![d.idx] = d.libs[n]]
  BY Zenon DEF reload_notify_drop_old, DropLast, Listed, DbgFields
<1>3. t \in Seq(Entries) /\ Len(t) = n - 1 /\ \A i \in 1 .. n - 1 : t[i] = d.libs[i]
  BY DEF Listed
<1> HIDE DEF t
<1>4. g.libs \in Seq(Entries) /\ Len(g.libs) = n - 1
  BY <1>2, <1>3 DEF Listed
<1>5. \A i \in 1 .. n - 1 : g.libs[i] = IF i = d.idx THEN d.libs[n] ELSE d.libs[i]
  BY <1>2, <1>3 DEF Listed
<1>6. \A i \in 1 .. n - 1 : g.libs[i][1] # 0 <=> i = d.idx
  <2>1. \A i \in 1 .. n : d.libs[i][1] # 0 <=> (i = d.idx \/ i = n)
    BY DEF Listed
  <2> QED BY <1>1, <1>5, <2>1
<1>7. Listed(g)
  BY <1>1, <1>4, <1>6, LifeBounds DEF Listed
<1>8. Newest(g) = Newest(d)
  BY <1>1, <1>5 DEF Newest
<1> QED BY <1>7, <1>8

(* Outside the first phase, moving between the others keeps the list. *)
LEMMA sameList ==
    ASSUME NEW d, Listed(d), d.phase # 1,
           NEW g, DOMAIN g = DbgFields, g.libs = d.libs, g.idx = d.idx, g.phase \in {0, 2},
           g.ticks \in Nat
    PROVE Listed(g) /\ Newest(g) = Newest(d)
BY DEF Listed, Newest

(* Waiting one tick more. *)
LEMMA tickFacts ==
    ASSUME NEW d, Listed(d)
    PROVE LET f == [d EXCEPT !.ticks = @ + 1]
          IN /\ Listed(f) /\ f.on = d.on /\ f.phase = d.phase
             /\ \A e : Shows(d, e) => Shows(f, e)
<1> DEFINE f == [d EXCEPT !.ticks = @ + 1]
<1>1. /\ DOMAIN f = DbgFields /\ f.libs = d.libs /\ f.idx = d.idx /\ f.phase = d.phase
      /\ f.view = d.view /\ f.old = d.old /\ f.ticks \in Nat
  BY DEF Listed, DbgFields
<1>2. f.on = d.on /\ f.late = d.late /\ f.moved = d.moved
  BY DEF Listed, DbgFields
<1> HIDE DEF f
<1>3. Listed(f)
  BY <1>1 DEF Listed
<1>4. \A e : Shows(d, e) => Shows(f, e)
  BY <1>1, <1>2 DEF Shows, Newest, Armed
<1> QED BY <1>1, <1>2, <1>3, <1>4 DEF f

(* The first phase ends: the old image is dropped and the list published;  *)
(* the client has to answer again unless it is given up.                   *)
LEMMA phaseOneEnds ==
    ASSUME NEW d, Listed(d), d.phase = 1,
           NEW f, DOMAIN f = DbgFields, f.libs = reload_notify_drop_old(d).libs,
           f.idx = d.idx, f.phase \in {0, 2}, f.ticks = 0, ~f.moved, f.phase = 0 => f.late
    PROVE Listed(f) /\ \A e : Shows(d, e) => Shows(f, e)
<1>1. Listed(f) /\ Newest(f) = Newest(d)
  BY dropFacts
<1> QED BY <1>1 DEF Shows, Armed

(* The second phase ends. *)
LEMMA phaseTwoEnds ==
    ASSUME NEW d, Listed(d), d.phase = 2,
           NEW f, DOMAIN f = DbgFields, f.libs = d.libs, f.idx = d.idx, f.phase = 0,
           f.ticks = d.ticks, f.view = d.view, f.late \/ (d.moved /\ ~d.late)
    PROVE Listed(f) /\ \A e : Shows(d, e) => Shows(f, e)
<1>1. d.ticks \in Nat
  BY DEF Listed
<1>2. Listed(f) /\ Newest(f) = Newest(d)
  BY <1>1, sameList
<1> QED BY <1>2 DEF Shows, Armed

(* Dropping and publishing, field by field. *)
LEMMA dropPublish ==
    ASSUME NEW d, Listed(d)
    PROVE LET r == reload_notify_drop_old(d)
              q == publish_libs_nowait(r)
          IN /\ DOMAIN q = DbgFields /\ q.libs = r.libs /\ q.idx = d.old /\ q.ticks = 0
             /\ ~q.moved /\ q.on = d.on /\ q.late = d.late
<1> DEFINE r == reload_notify_drop_old(d)
           q == publish_libs_nowait(r)
<1>1. DOMAIN r = DbgFields /\ r.idx = d.old
  BY DEF reload_notify_drop_old, Listed, DbgFields
<1>2. r.on = d.on /\ r.late = d.late
  BY DEF reload_notify_drop_old, Listed, DbgFields
<1> HIDE DEF r
<1>3. DOMAIN q = DbgFields /\ q.libs = r.libs /\ q.idx = d.old /\ q.ticks = 0
  BY <1>1 DEF publish_libs_nowait, DbgFields
<1>4. ~q.moved /\ q.on = d.on /\ q.late = d.late
  BY <1>1, <1>2 DEF publish_libs_nowait, DbgFields
<1> QED BY <1>3, <1>4 DEF r

(* A tick of the browser's pump. *)
LEMMA pumpFacts ==
    ASSUME NEW d, Listed(d)
    PROVE LET f == reload_notify_pump(d)
          IN /\ Listed(f) /\ f.on = d.on /\ (d.phase = 0 => f = d)
             /\ \A e : Shows(d, e) => Shows(f, e)
<1> DEFINE q == publish_libs_nowait(reload_notify_drop_old(d))
           f == reload_notify_pump(d)
<1>0. /\ d.phase \in 0 .. 2 /\ d.ticks \in Nat /\ MaxTicks \in Nat /\ DOMAIN d = DbgFields
      /\ d.phase = 1 => d.old = d.idx
  BY LifeBounds DEF Listed
<1>q. /\ DOMAIN q = DbgFields /\ q.libs = reload_notify_drop_old(d).libs /\ q.idx = d.old
      /\ q.ticks = 0 /\ ~q.moved /\ q.on = d.on /\ q.late = d.late
  BY dropPublish
<1>1. CASE d.phase = 0
  BY <1>1 DEF reload_notify_pump
<1>2. CASE d.phase # 0 /\ ~d.moved /\ d.ticks + 1 < MaxTicks
  <2>1. f = [d EXCEPT !.ticks = @ + 1]
    BY <1>0, <1>2 DEF reload_notify_pump
  <2> QED BY <1>2, <2>1, tickFacts
<1>3. CASE d.phase = 1 /\ ~d.moved /\ ~(d.ticks + 1 < MaxTicks)
  <2>1. f = [q EXCEPT !.phase = 0, !.late = TRUE]
    BY <1>0, <1>3 DEF reload_notify_pump
  <2> HIDE DEF q, f
  <2>2. /\ DOMAIN f = DbgFields /\ f.libs = q.libs /\ f.idx = d.idx /\ f.phase = 0
        /\ f.ticks = 0
    BY <1>0, <1>3, <1>q, <2>1 DEF DbgFields
  <2>3. ~f.moved /\ f.late /\ f.on = d.on
    BY <1>q, <2>1 DEF DbgFields
  <2>4. Listed(f) /\ \A e : Shows(d, e) => Shows(f, e)
    BY <1>3, <1>q, <2>2, <2>3, phaseOneEnds
  <2> QED BY <1>3, <2>3, <2>4 DEF f
<1>4. CASE d.phase = 2 /\ ~d.moved /\ ~(d.ticks + 1 < MaxTicks)
  <2>1. f = [d EXCEPT !.phase = 0, !.late = TRUE]
    BY <1>0, <1>4 DEF reload_notify_pump
  <2> HIDE DEF f
  <2>2. /\ DOMAIN f = DbgFields /\ f.libs = d.libs /\ f.idx = d.idx /\ f.phase = 0
        /\ f.ticks = d.ticks /\ f.view = d.view
    BY <1>0, <2>1 DEF DbgFields
  <2>3. f.late /\ f.on = d.on
    BY <1>0, <2>1 DEF DbgFields
  <2>4. Listed(f) /\ \A e : Shows(d, e) => Shows(f, e)
    BY <1>4, <2>2, <2>3, phaseTwoEnds
  <2> QED BY <1>4, <2>3, <2>4 DEF f
<1>5. CASE d.phase = 1 /\ d.moved
  <2>1. f = [q EXCEPT !.phase = 2]
    BY <1>5 DEF reload_notify_pump
  <2> HIDE DEF q, f
  <2>2. /\ DOMAIN f = DbgFields /\ f.libs = q.libs /\ f.idx = d.idx /\ f.phase = 2
        /\ f.ticks = 0
    BY <1>0, <1>5, <1>q, <2>1 DEF DbgFields
  <2>3. ~f.moved /\ f.on = d.on
    BY <1>q, <2>1 DEF DbgFields
  <2>4. Listed(f) /\ \A e : Shows(d, e) => Shows(f, e)
    BY <1>5, <1>q, <2>2, <2>3, phaseOneEnds
  <2> QED BY <1>5, <2>3, <2>4 DEF f
<1>6. CASE d.phase = 2 /\ d.moved
  <2>1. f = [d EXCEPT !.phase = 0]
    BY <1>6 DEF reload_notify_pump
  <2> HIDE DEF f
  <2>2. /\ DOMAIN f = DbgFields /\ f.libs = d.libs /\ f.idx = d.idx /\ f.phase = 0
        /\ f.ticks = d.ticks /\ f.view = d.view
    BY <1>0, <2>1 DEF DbgFields
  <2>3. f.late = d.late /\ f.on = d.on
    BY <1>0, <2>1 DEF DbgFields
  <2>4. Listed(f) /\ \A e : Shows(d, e) => Shows(f, e)
    BY <1>6, <2>2, <2>3, phaseTwoEnds
  <2> QED BY <1>6, <2>3, <2>4 DEF f
<1> QED BY <1>0, <1>1, <1>2, <1>3, <1>4, <1>5, <1>6

(* A wake-up of the player's wait. *)
LEMMA waitFacts ==
    ASSUME NEW d, Listed(d), d.phase # 0
    PROVE LET f == publish_libs_and_wait(d)
          IN /\ Listed(f) /\ f.on = d.on
             /\ \A e : Shows(d, e) => Shows(f, e)
<1> DEFINE q == publish_libs_nowait(reload_notify_drop_old(d))
           f == publish_libs_and_wait(d)
<1>0. /\ d.phase \in 0 .. 2 /\ d.ticks \in Nat /\ MaxTicks \in Nat /\ DOMAIN d = DbgFields
      /\ d.phase = 1 => d.old = d.idx
  BY LifeBounds DEF Listed
<1>q. /\ DOMAIN q = DbgFields /\ q.libs = reload_notify_drop_old(d).libs /\ q.idx = d.old
      /\ q.ticks = 0 /\ ~q.moved /\ q.on = d.on
  BY dropPublish
<1>1. CASE ~d.moved /\ d.ticks + 1 < MaxTicks
  <2>1. f = [d EXCEPT !.ticks = @ + 1]
    BY <1>0, <1>1 DEF publish_libs_and_wait
  <2> QED BY <2>1, tickFacts
<1>2. CASE d.phase = 1 /\ ~(~d.moved /\ d.ticks + 1 < MaxTicks)
  <2>1. f = [q EXCEPT !.phase = 2, !.late = @ \/ ~d.moved]
    BY <1>0, <1>2 DEF publish_libs_and_wait
  <2> HIDE DEF q, f
  <2>2. /\ DOMAIN f = DbgFields /\ f.libs = q.libs /\ f.idx = d.idx /\ f.phase = 2
        /\ f.ticks = 0
    BY <1>0, <1>2, <1>q, <2>1 DEF DbgFields
  <2>3. ~f.moved /\ f.on = d.on
    BY <1>q, <2>1 DEF DbgFields
  <2>4. Listed(f) /\ \A e : Shows(d, e) => Shows(f, e)
    BY <1>2, <1>q, <2>2, <2>3, phaseOneEnds
  <2> QED BY <2>3, <2>4 DEF f
<1>3. CASE d.phase = 2 /\ ~(~d.moved /\ d.ticks + 1 < MaxTicks)
  <2>1. f = [d EXCEPT !.phase = 0, !.late = @ \/ ~d.moved]
    BY <1>0, <1>3 DEF publish_libs_and_wait
  <2> HIDE DEF f
  <2>2. /\ DOMAIN f = DbgFields /\ f.libs = d.libs /\ f.idx = d.idx /\ f.phase = 0
        /\ f.ticks = d.ticks /\ f.view = d.view
    BY <1>0, <2>1 DEF DbgFields
  <2>3. (f.late \/ (d.moved /\ ~d.late)) /\ f.on = d.on
    BY <1>0, <2>1, Zenon DEF DbgFields
  <2>4. Listed(f) /\ \A e : Shows(d, e) => Shows(f, e)
    BY <1>3, <2>2, <2>3, phaseTwoEnds
  <2> QED BY <2>3, <2>4 DEF f
<1> QED BY <1>0, <1>1, <1>2, <1>3

(* The client re-reads the list. *)
LEMMA rebindFacts ==
    ASSUME NEW d, Listed(d)
    PROVE LET f == Rebind(d)
          IN /\ Listed(f) /\ f.on = d.on /\ f.phase = d.phase
             /\ \A e : Shows(d, e) => Shows(f, e)
<1> DEFINE f == Rebind(d)
<1>1. /\ DOMAIN f = DbgFields /\ f.libs = d.libs /\ f.idx = d.idx /\ f.phase = d.phase
      /\ f.old = d.old /\ f.ticks = d.ticks
      /\ f.view = {d.libs[i] : i \in DOMAIN d.libs} \ {<<0, "native">>}
  BY DEF Rebind, Listed, DbgFields
<1>2. f.on = d.on
  BY DEF Rebind, Listed, DbgFields
<1> HIDE DEF f
<1>3. Listed(f)
  BY <1>1 DEF Listed
<1>4. Newest(f) = Newest(d)
  BY <1>1 DEF Newest
<1>5. Newest(d) \in f.view
  <2> DEFINE k == IF d.phase = 1 THEN Len(d.libs) ELSE d.idx
  <2>1. k \in 1 .. Len(d.libs) /\ d.libs[k][1] # 0 /\ DOMAIN d.libs = 1 .. Len(d.libs)
    BY DEF Listed
  <2>2. d.libs[k] # <<0, "native">>
    BY <2>1
  <2> QED BY <1>1, <2>1, <2>2 DEF Newest
<1>6. \A e : Shows(d, e) => Shows(f, e)
  BY <1>4, <1>5 DEF Shows, Armed
<1> QED BY <1>1, <1>2, <1>3, <1>6 DEF f

(* The list as the session opens it. *)
LEMMA registerFacts ==
    ASSUME NEW c, IsVm(c), NEW n \in 1 .. MaxLibs - 1
    PROVE LET d == register_cart_gdb_library(c, n)
          IN Listed(d) /\ d.on /\ d.phase = 0 /\ Shows(d, Entry(c))
<1> DEFINE d == register_cart_gdb_library(c, n)
<1>1. Entry(c) \in Entries /\ Entry(c)[1] # 0
  BY entryFacts
<1>2. d = [NoDebugger EXCEPT !.on = TRUE, !.libs = Append(Runtime(n), Entry(c)),
                             !.idx = n + 1, !.view = {Entry(c)}]
  BY LifeBounds DEF register_cart_gdb_library
<1> HIDE DEF d
<1>3. /\ DOMAIN d = DbgFields /\ d.libs = Append(Runtime(n), Entry(c)) /\ d.idx = n + 1
      /\ d.view = {Entry(c)} /\ d.phase = 0 /\ d.ticks = 0
  BY <1>2 DEF NoDebugger, DbgFields
<1>4. d.on
  BY <1>2 DEF NoDebugger
<1>5. Runtime(n) \in Seq(Entries) /\ Len(Runtime(n)) = n /\ \A i \in 1 .. n : Runtime(n)[i][1] = 0
  BY LifeBounds DEF Runtime, Entries, Bases
<1>6. /\ d.libs \in Seq(Entries) /\ Len(d.libs) = n + 1 /\ d.libs[n + 1] = Entry(c)
      /\ \A i \in 1 .. n : d.libs[i] = Runtime(n)[i]
  BY <1>1, <1>3, <1>5, LifeBounds
<1>7. Listed(d)
  BY <1>1, <1>3, <1>5, <1>6, LifeBounds DEF Listed
<1>8. Shows(d, Entry(c))
  BY <1>3, <1>6 DEF Shows, Newest, Armed
<1> QED BY <1>3, <1>4, <1>7, <1>8 DEF d

(* ------------------------ the inductive invariant ---------------------- *)

WebFields == {"lphase", "co", "start", "fatal", "fetch", "assets", "rphase", "wild"}

Types ==
    /\ leg \in PlayerLegs \cup WebLegs
    /\ disk.code \in Codes
    /\ IsVm(vm)
    /\ inbox \in Seq(Ids) /\ Len(cmd) \in Nat
    /\ saved \in 0 .. NoSave /\ progress \in 0 .. MaxLive /\ pend.snap \in 0 .. MaxLive
    /\ DOMAIN web = WebFields

(* The callbacks have run in order so far; a cart that has ended, or a Lua *)
(* cart that has halted, is done, and a blank machine has not halted.      *)
LifeInv ==
    /\ vm.sound
    /\ vm.life = "ended" => done
    /\ vm.life = "fresh" => vm.halt = "no"
    /\ leg \in LuaLegs /\ ~done => vm.halt = "no"

(* Where the player's loop stands tells whether the machine is blank: it   *)
(* is behind the readiness gate and while a debugger rebinds, and is not   *)
(* when a command is polled.                                               *)
PlayerInv == leg \in PlayerLegs =>
    /\ web = NoWeb
    /\ pc \in {"gate", "poll", "solib"}
    /\ pc = "gate" => vm.life = "fresh"
    /\ pc # "solib" /\ inbox # <<>> => vm.life # "fresh"
    /\ pc = "poll" /\ leg \in LuaLegs => vm.life # "fresh"
    /\ pc = "solib" => vm.life = "fresh" /\ dbg.on /\ pend # NoPend /\ ~done
    /\ pc # "solib" => dbg.phase = 0 /\ pend = NoPend

(* In the browser the driver coroutine and the reload phase tell it; under *)
(* a debugger one command at a time is under way.                          *)
Waiting == inbox # <<>> \/ web.fetch # 0 \/ web.assets # 0
WebInv == leg \in WebLegs =>
    /\ leg \in LuaLegs =>
         /\ web.co \in {"boot", "reload", "running"}
         /\ vm.life = "fresh" <=> web.co # "running"
         /\ web.lphase = "init" <=> web.co # "running"
         /\ web.co = "reload" <=> web.rphase # "none"
    /\ web.rphase \in {"none", "rearm", "init"}
    /\ web.rphase # "none" <=> pend # NoPend
    /\ dbg.phase # 0 <=> web.rphase = "rearm"
    /\ web.rphase # "none" => dbg.on /\ (done \/ vm.life = "fresh")
    /\ web.rphase = "rearm" => vm.life = "fresh"
    /\ Waiting => vm.life # "fresh"
    /\ dbg.on /\ ~done => vm.halt = "no"
    /\ dbg.on => /\ Waiting => web.rphase = "none"
                 /\ inbox # <<>> => Tail(inbox) = <<>> /\ web.fetch = 0 /\ web.assets = 0
                 /\ web.fetch # 0 => web.assets = 0

(* The debugger's list and its client's view follow the machine's image. *)
DbgInv ==
    /\ dbg.on => Listed(dbg) /\ leg \in Sessions
    /\ dbg.on /\ ~web.fatal => Shows(dbg, Entry(vm))
    /\ ~dbg.on => dbg.phase = 0

(* The progress is in the machine or, during a reload, in its snapshot. *)
ProgInv ==
    /\ ~done /\ vm.life = "inited" /\ pend = NoPend => vm.live = progress
    /\ ~done /\ pend # NoPend => pend.snap = progress

FrontInv == Types /\ LifeInv /\ PlayerInv /\ WebInv /\ DbgInv /\ ProgInv

(* The invariant yields the four properties. *)
LEMMA FrontInvImplies ==
    ASSUME FrontInv
    PROVE LifecycleOrder /\ ProgressKept /\ LibsMatchCart /\ ArmedBeforeInit
<1> USE DEF FrontInv
<1>1. LifecycleOrder
  BY DEF LifeInv, LifecycleOrder
<1>2. ProgressKept
  BY DEF ProgInv, ProgressKept, Running
<1>3. LibsMatchCart
  <2> SUFFICES ASSUME dbg.on, dbg.phase = 0, ~web.fatal
               PROVE LET carts == {i \in DOMAIN dbg.libs : dbg.libs[i][1] # 0}
                     IN carts = {dbg.idx} /\ dbg.libs[dbg.idx] = Entry(vm)
    BY DEF LibsMatchCart
  <2>1. Listed(dbg) /\ Shows(dbg, Entry(vm))
    BY DEF DbgInv
  <2>2. dbg.libs[dbg.idx] = Entry(vm)
    BY <2>1 DEF Shows, Newest
  <2>3. DOMAIN dbg.libs = 1 .. Len(dbg.libs) /\ dbg.idx \in 1 .. Len(dbg.libs)
    BY <2>1 DEF Listed
  <2>4. \A i \in 1 .. Len(dbg.libs) : dbg.libs[i][1] # 0 <=> i = dbg.idx
    BY <2>1 DEF Listed
  <2> QED BY <2>2, <2>3, <2>4
<1>4. ArmedBeforeInit
  <2> SUFFICES ASSUME dbg.on, vm.life = "inited", ~dbg.late, ~web.fatal
               PROVE Entry(vm) \in dbg.view
    BY DEF ArmedBeforeInit
  <2>1. Shows(dbg, Entry(vm))
    BY DEF DbgInv
  <2>2. dbg.phase = 0
    BY DEF Types, PlayerInv, WebInv
  <2> QED BY <2>1, <2>2 DEF Shows, Armed
<1> QED BY <1>1, <1>2, <1>3, <1>4

(* A loaded cart satisfies the invariant. *)
LEMMA FrontInit == Init => FrontInv
<1> SUFFICES ASSUME Init PROVE FrontInv
  OBVIOUS
<1> PICK debug \in BOOLEAN, start \in BOOLEAN, n \in 1 .. MaxLibs - 1 :
         /\ start => leg \in WebLegs \cap LuaLegs
         /\ vm = IF leg \in PlayerLegs THEN retro_load_game(leg, debug)
                 ELSE Fresh([code |-> 1])
         /\ dbg = IF debug /\ leg \in Sessions THEN register_cart_gdb_library(vm, n)
                  ELSE NoDebugger
         /\ pc = IF debug /\ leg \in PlayerLegs THEN "gate" ELSE "poll"
         /\ web = IF leg \in WebLegs \cap LuaLegs THEN run_lua_cart(start) ELSE NoWeb
  BY DEF Init
<1> DEFINE b == [code |-> 1]
<1>1. b.code \in Codes
  BY codesFacts
<1>2. /\ IsVm(vm) /\ vm.sound /\ vm.halt = "no"
      /\ vm.life = "fresh" \/ (vm.life = "inited" /\ leg \in PlayerLegs \cap LuaLegs /\ ~debug)
      /\ vm.life = "fresh" \/ leg \in PlayerLegs
      /\ leg \in PlayerLegs \cap LuaLegs /\ ~debug => vm.life # "fresh"
  <2>1. vm \in {Fresh(b), hl_new(b), hostlua_create(b)}
    BY DEF retro_load_game
  <2>2. leg \in PlayerLegs \cap LuaLegs /\ ~debug <=> vm = hostlua_create(b)
    <3>1. hostlua_create(b).life = "inited" /\ hl_new(b).life = "fresh" /\ Fresh(b).life = "fresh"
      BY <1>1, createFacts, freshFacts
    <3> QED BY <3>1 DEF retro_load_game
  <2> HIDE DEF b
  <2> QED BY <1>1, <2>1, <2>2, createFacts, freshFacts
<1>3. vm.live \in 0 .. MaxLive
  BY <1>2 DEF IsVm
<1>4. dbg.phase = 0 /\ (dbg.on => Listed(dbg) /\ Shows(dbg, Entry(vm)))
  BY <1>2, registerFacts DEF NoDebugger
<1>5. DOMAIN web = WebFields /\ web.fetch = 0 /\ web.assets = 0 /\ web.rphase = "none"
  BY DEF run_lua_cart, NoWeb, WebFields
<1>6. leg \in WebLegs /\ leg \in LuaLegs => web.co = "boot" /\ web.lphase = "init"
  BY DEF run_lua_cart, NoWeb
<1>7. Types
  BY <1>1, <1>2, <1>3, <1>5, LifeBounds DEF Init, Types, NoSave, NoPend
<1>8. LifeInv
  BY <1>2 DEF Init, LifeInv
<1>9. PlayerInv
  <2>1. leg \in PlayerLegs => leg \notin WebLegs
    BY DEF PlayerLegs, WebLegs
  <2> QED BY <1>2, <1>4, <2>1 DEF Init, PlayerInv
<1>10. WebInv
  BY <1>2, <1>4, <1>5, <1>6 DEF Init, WebInv, Waiting, WebLegs, PlayerLegs
<1>11. DbgInv
  BY <1>4 DEF DbgInv, NoDebugger
<1>12. ProgInv
  BY DEF Init, ProgInv
<1> QED BY <1>7, <1>8, <1>9, <1>10, <1>11, <1>12 DEF FrontInv

(* The legs are of one frontend or the other. *)
LEMMA legFacts ==
    /\ PlayerLegs \cap WebLegs = {}
    /\ \A l \in WebLegs : l \in LuaLegs <=> l # "webnative"
    /\ \A l \in PlayerLegs : l \in LuaLegs <=> l # "emulated"
BY DEF PlayerLegs, WebLegs, LuaLegs

(* The tool's builds and commands, and the debugger's client. *)
LEMMA ToolKeeps ==
    ASSUME FrontInv, ~Overlap, ~Early, Tool \/ Rebinds \/ UNCHANGED vars
    PROVE FrontInv'
<1> USE DEF FrontInv
<1>1. CASE Build
  <2> USE <1>1 DEF Build
  <2>1. disk'.code = disk.code + 1 /\ disk.code < Cardinality(Codes)
    OBVIOUS
  <2>2. disk'.code \in Codes
    BY <2>1, CodesAreNumbered DEF Types
  <2>3. Types'
    BY <2>2 DEF Types
  <2>4. LifeInv' /\ ProgInv' /\ DbgInv'
    BY DEF LifeInv, ProgInv, DbgInv
  <2>5. PlayerInv'
    BY DEF PlayerInv
  <2>6. WebInv'
    BY DEF WebInv, Waiting
  <2> QED BY <2>3, <2>4, <2>5, <2>6
<1>2. CASE \E c \in Cmds : Send(c)
  <2> PICK c \in Cmds : Send(c)
    BY <1>2
  <2>1. Len(cmd') \in Nat
    BY DEF Types, Send
  <2>2. inbox' \in Seq(Ids) /\ vm.life # "fresh"
    BY ToolBounds DEF Types, Send, Ids
  <2>3. Types'
    BY <2>1, <2>2 DEF Types, Send
  <2>4. LifeInv' /\ ProgInv' /\ DbgInv'
    BY DEF LifeInv, ProgInv, DbgInv, Send
  <2>5. PlayerInv'
    BY <2>2 DEF PlayerInv, Send
  <2>6. WebInv'
    <3>1. leg \in WebLegs /\ dbg.on => Settled
      BY legFacts DEF Send
    <3>2. Settled => Tail(inbox') = <<>>
      BY DEF Send, Settled, Types
    <3> QED BY <2>2, <3>1, <3>2 DEF WebInv, Waiting, Send, Settled
  <2> QED BY <2>3, <2>4, <2>5, <2>6
<1>3. CASE Rebinds
  <2> USE <1>3 DEF Rebinds
  <2>1. Types' /\ LifeInv' /\ ProgInv'
    BY DEF Types, LifeInv, ProgInv
  <2>2. Listed(dbg)
    BY DEF DbgInv
  <2>3. /\ Listed(dbg') /\ dbg'.on = dbg.on /\ dbg'.phase = dbg.phase
        /\ \A e : Shows(dbg, e) => Shows(dbg', e)
    BY <2>2, rebindFacts, Zenon
  <2>4. DbgInv'
    BY <2>3 DEF DbgInv
  <2>5. PlayerInv'
    BY <2>3 DEF PlayerInv
  <2>6. WebInv'
    BY <2>3 DEF WebInv, Waiting
  <2> QED BY <2>1, <2>4, <2>5, <2>6
<1>4. CASE UNCHANGED vars
  <2> USE <1>4 DEF vars
  <2>1. Types' /\ LifeInv' /\ ProgInv' /\ DbgInv'
    BY DEF Types, LifeInv, ProgInv, DbgInv
  <2>2. PlayerInv' /\ WebInv'
    BY DEF PlayerInv, WebInv, Waiting
  <2> QED BY <2>1, <2>2
<1> QED BY <1>1, <1>2, <1>3, <1>4 DEF Tool

(* A command of the player that leaves a running cart with the progress    *)
(* expected of it keeps the invariant.                                     *)
LEMMA CommandKeeps ==
    ASSUME FrontInv, leg \in PlayerLegs, pc = "poll", inbox # <<>>, ~done,
           UNCHANGED <<leg, disk, cmd, web, pc, pend, done>>, inbox' = Tail(inbox),
           IsVm(vm'), vm'.sound, vm'.life = "inited", vm'.live = progress',
           leg \in LuaLegs => vm'.halt = "no",
           \/ dbg' = dbg /\ (dbg.on => Entry(vm') = Entry(vm))
           \/ dbg' = NoDebugger,
           saved' \in 0 .. NoSave
    PROVE FrontInv'
<1> USE DEF FrontInv
<1>1. inbox' \in Seq(Ids)
  BY DEF Types
<1>2. progress' \in 0 .. MaxLive
  BY DEF IsVm
<1>3. Types'
  BY <1>1, <1>2 DEF Types
<1>4. LifeInv' /\ ProgInv'
  BY DEF LifeInv, ProgInv, PlayerInv
<1>5. dbg'.phase = 0 /\ (dbg'.on => dbg' = dbg)
  BY DEF PlayerInv, NoDebugger
<1>6. PlayerInv'
  BY <1>5 DEF PlayerInv
<1>7. WebInv'
  BY legFacts DEF WebInv
<1>8. DbgInv'
  <2>1. CASE dbg' = dbg /\ (dbg.on => Entry(vm') = Entry(vm))
    BY <2>1 DEF DbgInv
  <2>2. CASE dbg' = NoDebugger
    BY <2>2 DEF DbgInv, NoDebugger
  <2> QED BY <2>1, <2>2
<1> QED BY <1>3, <1>4, <1>6, <1>7, <1>8

(* What a command finds: a cart between init() and cleanup(). *)
LEMMA CommandFinds ==
    ASSUME FrontInv, leg \in PlayerLegs, pc = "poll", inbox # <<>>, ~done
    PROVE /\ IsVm(vm) /\ vm.sound /\ vm.life = "inited" /\ vm.live = progress
          /\ leg \in LuaLegs => vm.halt = "no"
          /\ disk.code \in Codes /\ saved \in 0 .. NoSave /\ pend = NoPend /\ dbg.phase = 0
          /\ vm.live \in 0 .. MaxLive /\ vm.bufs \in 0 .. MaxLive
<1> USE DEF FrontInv
<1>1. /\ IsVm(vm) /\ vm.sound /\ vm.life = "inited" /\ pend = NoPend /\ dbg.phase = 0
      /\ leg \in LuaLegs => vm.halt = "no"
      /\ disk.code \in Codes /\ saved \in 0 .. NoSave
  BY DEF Types, LifeInv, PlayerInv, IsVm, Lives
<1>2. vm.live = progress
  BY <1>1, Zenon DEF ProgInv
<1> QED BY <1>1, <1>2 DEF IsVm

(* The save hook on either kind of cart. *)
LEMMA savingFacts ==
    ASSUME NEW c, IsVm(c), c.sound, c.life = "inited", leg \in LuaLegs => c.halt = "no"
    PROVE LET d == Saving(c)
          IN /\ Becomes(c, d, "inited", c.live, IF c.halt = "trap" THEN c.bufs ELSE c.live,
                        Hooked(c.halt))
             /\ d.sound
<1>1. CASE leg \in LuaLegs
  <2>1. Saving(c) = on_save_state(c)
    BY <1>1 DEF Saving, IsLua, hostlua_save_state
  <2>2. Callback(c, on_save_state(c), "inited", c.life, c.live, c.live)
    BY saveFacts
  <2> QED BY <1>1, <2>1, <2>2 DEF Callback, Hooked
<1>2. CASE leg \notin LuaLegs
  <2>1. Saving(c) = session_snapshot(c)
    BY <1>2 DEF Saving, IsLua
  <2> QED BY <2>1, snapshotFacts
<1> QED BY <1>1, <1>2

(* load_state on any leg of the player brings the saved progress back. *)
LEMMA loadingFacts ==
    ASSUME NEW c, IsVm(c), c.sound, c.life = "inited", leg \in LuaLegs => c.halt = "no",
           NEW n \in 0 .. MaxLive
    PROVE LET d == Loading(c, n)
          IN /\ Becomes(c, d, "inited", IF c.halt = "trap" THEN c.live ELSE n, n, Hooked(c.halt))
             /\ d.sound
<1> DEFINE e == [c EXCEPT !.bufs = n]
<1>0. Becomes(c, e, c.life, c.live, n, c.halt) /\ e.sound
  BY bufsEdit
<1>1. CASE leg \in LuaLegs
  <2>1. Loading(c, n) = on_load_state(e)
    BY <1>1 DEF Loading, IsLua, hostlua_load_state
  <2> HIDE DEF e
  <2>2. Callback(e, on_load_state(e), "inited", e.life, e.bufs, e.bufs)
    BY <1>0, loadFacts DEF Becomes
  <2>3. on_load_state(e).sound
    BY <1>0, <2>2 DEF Callback, Becomes
  <2>4. Becomes(c, on_load_state(e), "inited", n, n, c.halt)
    BY <1>0, <2>2 DEF Callback, Becomes
  <2> QED BY <1>1, <2>1, <2>3, <2>4 DEF Hooked
<1>2. CASE leg \notin LuaLegs
  <2>1. Loading(c, n) = call_guest_on_load_state(e)
    BY <1>2 DEF Loading, IsLua
  <2> HIDE DEF e
  <2> QED BY <1>0, <2>1, guestLoadFacts DEF Becomes
<1> QED BY <1>1, <1>2

(* New assets leave the rest of the machine alone. *)
LEMMA assetsEdit ==
    ASSUME NEW c, IsVm(c), NEW k
    PROVE LET d == [c EXCEPT !.assets = k]
          IN /\ Becomes(c, d, c.life, c.live, c.bufs, c.halt)
             /\ c.sound => d.sound
<1> DEFINE d == [c EXCEPT !.assets = k]
<1>1. Becomes(c, d, c.life, c.live, c.bufs, c.halt)
  BY DEF IsVm, VmFields, Becomes
<1>2. c.sound => d.sound
  BY DEF IsVm, VmFields
<1> QED BY <1>1, <1>2

(* The bound on the progress counter is the one update() keeps. *)
LEMMA capFacts ==
    /\ Capped(2) = Advanced(1)
    /\ \A n \in 0 .. MaxLive : Capped(n + 1) = Advanced(n) /\ Advanced(n) \in 0 .. MaxLive
    /\ Advanced(1) \in 0 .. MaxLive /\ 1 \in 0 .. MaxLive
BY LifeBounds DEF Capped, Advanced

(* The commands of the player that keep the image. *)
LEMMA PlayerCommands ==
    ASSUME FrontInv, leg \in PlayerLegs,
           \/ \E io \in BOOLEAN : libretro_save_state(io)
           \/ libretro_load_state
           \/ libretro_update_assets
           \/ unknown_command
           \/ reload_fails
    PROVE FrontInv'
<1> DEFINE Frame == /\ pc = "poll" /\ inbox # <<>> /\ ~done /\ inbox' = Tail(inbox)
                    /\ UNCHANGED <<leg, disk, cmd, web, dbg, pc, pend, done>>
<1>0. Frame => /\ IsVm(vm) /\ vm.sound /\ vm.life = "inited" /\ vm.live = progress
               /\ leg \in LuaLegs => vm.halt = "no"
               /\ saved \in 0 .. NoSave
               /\ vm.live \in 0 .. MaxLive /\ vm.bufs \in 0 .. MaxLive
  BY CommandFinds
<1>1. ASSUME NEW io \in BOOLEAN, libretro_save_state(io) PROVE FrontInv'
  <2>1. Frame /\ vm' = Saving(vm) /\ progress' = progress /\ saved' \in {vm'.bufs, saved}
    BY <1>1 DEF libretro_save_state, Taken, Next1, Quiet
  <2>2. /\ Becomes(vm, vm', "inited", vm.live, IF vm.halt = "trap" THEN vm.bufs ELSE vm.live,
                   Hooked(vm.halt))
        /\ vm'.sound
    BY <1>0, <2>1, savingFacts
  <2>3. saved' \in 0 .. NoSave
    BY <1>0, <2>1, <2>2, LifeBounds DEF Becomes, NoSave
  <2> QED BY <1>0, <2>1, <2>2, <2>3, CommandKeeps DEF Becomes, Hooked, Entry
<1>2. CASE libretro_load_state
  <2>1. /\ Frame /\ saved' = saved
        /\ vm' = IF saved # NoSave THEN Loading(vm, saved) ELSE vm
        /\ progress' = Expected(IF saved # NoSave THEN saved ELSE progress)
    BY <1>2 DEF libretro_load_state, Taken, Next1, Quiet
  <2>2. CASE saved # NoSave
    <3>1. saved \in 0 .. MaxLive
      BY <1>0, <2>1, <2>2, LifeBounds DEF NoSave
    <3>2. /\ Becomes(vm, vm', "inited", IF vm.halt = "trap" THEN vm.live ELSE saved, saved,
                     Hooked(vm.halt))
          /\ vm'.sound
      BY <1>0, <2>1, <2>2, <3>1, loadingFacts
    <3>3. vm'.live = progress'
      BY <2>1, <2>2, <3>2 DEF Expected, Trapped, Becomes
    <3> QED BY <1>0, <2>1, <3>2, <3>3, CommandKeeps DEF Becomes, Hooked, Entry
  <2>3. CASE saved = NoSave
    <3>1. vm' = vm /\ progress' = progress
      BY <1>0, <2>1, <2>3 DEF Expected
    <3> QED BY <1>0, <2>1, <3>1, CommandKeeps
  <2> QED BY <2>2, <2>3
<1>3. CASE libretro_update_assets
  <2> DEFINE e == [vm EXCEPT !.assets = disk.code]
  <2>1. /\ Frame /\ saved' = saved /\ progress' = progress
        /\ vm' = IF leg \in LuaLegs THEN on_assets_reloaded(e) ELSE notify_assets_reloaded(e)
    BY <1>3 DEF libretro_update_assets, Taken, Next1, Quiet, IsLua, hostlua_update_assets
  <2>2. Becomes(vm, e, vm.life, vm.live, vm.bufs, vm.halt) /\ e.sound
    BY <1>0, <2>1, assetsEdit, Zenon
  <2> HIDE DEF e
  <2>3. Becomes(e, vm', "inited", e.live, e.bufs, IF leg \in LuaLegs THEN e.halt ELSE Hooked(e.halt)) /\ vm'.sound
    <3>1. e.life = "inited" /\ IsVm(e)
      BY <1>0, <2>1, <2>2 DEF Becomes
    <3>2. Callback(e, on_assets_reloaded(e), "inited", e.life, e.live, e.bufs)
      BY <3>1, assetsFacts
    <3>3. Becomes(e, notify_assets_reloaded(e), "inited", e.live, e.bufs, Hooked(e.halt))
          /\ notify_assets_reloaded(e).sound
      BY <3>1, <2>2, notifyFacts
    <3> QED BY <2>1, <2>2, <3>1, <3>2, <3>3 DEF Callback
  <2> QED BY <1>0, <2>1, <2>2, <2>3, CommandKeeps DEF Becomes, Entry
<1>4. CASE unknown_command
  <2>1. Frame /\ vm' = vm /\ saved' = saved /\ progress' = progress
    BY <1>4 DEF unknown_command, Taken, Next1, Quiet
  <2> QED BY <1>0, <2>1, CommandKeeps
<1>5. CASE reload_fails
  <2>1. Frame /\ vm' \in {vm, Saving(vm)} /\ saved' = saved /\ progress' = progress
    BY <1>5 DEF reload_fails, Taken, Next1, Quiet
  <2>2. CASE vm' = vm
    BY <1>0, <2>1, <2>2, CommandKeeps
  <2>3. CASE vm' = Saving(vm)
    <3>1. /\ Becomes(vm, vm', "inited", vm.live, IF vm.halt = "trap" THEN vm.bufs ELSE vm.live,
                     Hooked(vm.halt))
          /\ vm'.sound
      BY <1>0, <2>1, <2>3, savingFacts
    <3> QED BY <1>0, <2>1, <3>1, CommandKeeps DEF Becomes, Hooked, Entry
  <2> QED BY <2>1, <2>2, <2>3
<1> QED BY <1>1, <1>2, <1>3, <1>4, <1>5

(* A reset creates a new cart, booted before the answer. *)
LEMMA PlayerReset ==
    ASSUME FrontInv, leg \in PlayerLegs, NEW p \in Plays, libretro_reset(p)
    PROVE FrontInv'
<1> DEFINE b == [code |-> vm.code]
<1>1. /\ pc = "poll" /\ inbox # <<>> /\ ~done /\ inbox' = Tail(inbox)
      /\ UNCHANGED <<leg, disk, cmd, web, pc, pend, done, saved>> /\ dbg' = NoDebugger
      /\ vm' = IF leg \in LuaLegs THEN hostlua_create(b) ELSE run_frame_impl(Fresh(b), p)
      /\ progress' = IF leg \in LuaLegs THEN 1 ELSE Capped(2)
  BY DEF libretro_reset, Taken, Next1, Quiet, IsLua
<1>2. b.code \in Codes /\ saved \in 0 .. NoSave
  BY <1>1, CommandFinds DEF IsVm
<1> HIDE DEF b
<1>3. CASE leg \in LuaLegs
  <2>1. IsVm(vm') /\ vm'.sound /\ vm'.life = "inited" /\ vm'.live = 1 /\ vm'.halt = "no"
    BY <1>1, <1>2, <1>3, createFacts, Zenon
  <2> QED BY <1>1, <1>2, <1>3, <2>1, CommandKeeps, Zenon
<1>4. CASE leg \notin LuaLegs
  <2> DEFINE f == Fresh(b)
  <2>1. IsVm(f) /\ f.sound /\ f.life = "fresh" /\ f.halt = "no"
    BY <1>2, freshFacts
  <2>2. vm' = run_frame_impl(f, p)
    BY <1>1, <1>4
  <2> HIDE DEF f
  <2>3. Becomes(f, vm', vm'.life, FrameLive(f), f.bufs, vm'.halt) /\ vm'.sound /\ vm'.life = "inited"
    BY <2>1, <2>2, frameFacts
  <2>4. vm'.live = progress'
    BY <1>1, <1>4, <2>1, <2>3, capFacts, Zenon DEF Becomes, FrameLive
  <2> QED BY <1>1, <1>2, <1>4, <2>3, <2>4, CommandKeeps DEF Becomes
<1> QED BY <1>3, <1>4

(* The progress a frame is expected to reach is what the cart reaches. *)
LEMMA frameProgress ==
    ASSUME IsVm(vm), progress \in 0 .. MaxLive
    PROVE /\ FrameProgress(vm) \in 0 .. MaxLive
          /\ vm.life = "fresh" => FrameProgress(vm) = FrameLive(vm)
          /\ vm.life # "fresh" /\ vm.halt = "no" /\ ~vm.quit /\ vm.live = progress
               => FrameProgress(vm) = FrameLive(vm)
<1>1. /\ Capped(2) = Advanced(1) /\ Advanced(1) \in 0 .. MaxLive
      /\ Capped(progress + 1) = Advanced(progress) /\ Advanced(progress) \in 0 .. MaxLive
  BY capFacts
<1>2. CASE vm.life = "fresh"
  <2>1. FrameProgress(vm) = Capped(2)
    BY <1>2 DEF FrameProgress
  <2> QED BY <1>1, <1>2, <2>1 DEF FrameLive
<1>3. CASE vm.life # "fresh" /\ (vm.quit \/ vm.halt # "no")
  <2>1. FrameProgress(vm) = progress
    BY <1>3 DEF FrameProgress
  <2> QED BY <1>3, <2>1
<1>4. CASE vm.life # "fresh" /\ ~(vm.quit \/ vm.halt # "no")
  <2>1. FrameProgress(vm) = Capped(progress + 1)
    BY <1>4 DEF FrameProgress
  <2> QED BY <1>1, <1>4, <2>1 DEF FrameLive
<1> QED BY <1>2, <1>3, <1>4

(* One frame of the player. *)
LEMMA PlayerFrame ==
    ASSUME FrontInv, leg \in PlayerLegs, NEW p \in Plays, NEW s \in BOOLEAN, retro_run(p, s)
    PROVE FrontInv'
<1> USE DEF FrontInv
<1> DEFINE c == run_frame(vm, p)
<1>1. /\ pc = "poll" /\ inbox = <<>> /\ ~done
      /\ UNCHANGED <<leg, disk, cmd, web, dbg, pc, pend, inbox, saved>>
      /\ vm' = IF s /\ c.halt = "no" THEN StressCycle(c) ELSE c
      /\ done' = ~(c.halt = "no")
      /\ progress' = FrameProgress(vm)
  BY Zenon DEF retro_run, Quiet, FrameDone
<1>2. /\ IsVm(vm) /\ vm.sound /\ vm.life # "ended" /\ (vm.life = "fresh" => vm.halt = "no")
      /\ leg \in LuaLegs => vm.life = "inited" /\ vm.halt = "no"
      /\ progress \in 0 .. MaxLive /\ pend = NoPend /\ dbg.phase = 0
      /\ vm.life = "inited" => vm.live = progress
  BY <1>1, Zenon DEF Types, LifeInv, PlayerInv, ProgInv, IsVm, Lives
<1>3. /\ IsVm(c) /\ c.sound /\ c.code = vm.code /\ c.base = vm.base /\ c.life # "fresh"
      /\ c.life = "ended" => c.halt # "no"
      /\ c.halt = "no" => /\ c.life = "inited" /\ c.live = FrameLive(vm) /\ vm.halt = "no"
                          /\ vm.life = "fresh" \/ ~vm.quit
  <2>1. CASE leg \in LuaLegs
    <3>1. c = CO_BODY_RUNNING(vm, p)
      BY <2>1 DEF run_frame, IsLua
    <3> HIDE DEF c
    <3>2. /\ IF vm.quit THEN Becomes(vm, c, "ended", vm.live, vm.bufs, "exit")
             ELSE Becomes(vm, c, "inited", Advanced(vm.live), vm.bufs, vm.halt)
          /\ c.sound
      BY <1>2, <2>1, <3>1, runningFacts
    <3> QED BY <1>2, <2>1, <3>2 DEF Becomes, FrameLive
  <2>2. CASE leg \notin LuaLegs
    <3>1. c = run_frame_impl(vm, p)
      BY <2>2 DEF run_frame, IsLua
    <3> HIDE DEF c
    <3>2. /\ Becomes(vm, c, c.life, FrameLive(vm), vm.bufs, c.halt) /\ c.sound
          /\ c.life = "inited" \/ (c.life = "ended" /\ c.halt = "exit")
          /\ c.halt = "no" => vm.halt = "no" /\ c.life = "inited" /\ (vm.life = "fresh" \/ ~vm.quit)
      BY <1>2, <3>1, frameFacts
    <3> QED BY <3>2 DEF Becomes
  <2> QED BY <2>1, <2>2
<1> HIDE DEF c
<1>4. /\ IsVm(vm') /\ vm'.sound /\ Entry(vm') = Entry(vm) /\ vm'.life # "fresh"
      /\ vm'.life = "ended" => done'
      /\ ~done' => vm'.life = "inited" /\ vm'.halt = "no" /\ vm'.live = FrameLive(vm)
  <2>1. CASE s /\ c.halt = "no"
    <3>1. StressCycle(c) \in {hostlua_reset_cycle(c), reset_every_frame_cycle(c)}
      BY DEF StressCycle
    <3>2. Becomes(c, StressCycle(c), "inited", c.live, StressCycle(c).bufs, c.halt)
          /\ StressCycle(c).sound
      BY <1>3, <2>1, <3>1, luaCycleFacts, resetCycleFacts
    <3> QED BY <1>1, <1>3, <2>1, <3>2 DEF Becomes, Entry
  <2>2. CASE ~(s /\ c.halt = "no")
    BY <1>1, <1>3, <2>2, Zenon DEF Entry
  <2> QED BY <2>1, <2>2
<1>5. progress' \in 0 .. MaxLive /\ (~done' => vm'.live = progress')
  <2>1. ~done' => c.halt = "no"
    BY <1>1, Zenon
  <2>2. vm.life # "fresh" => vm.life = "inited"
    BY <1>2 DEF IsVm, Lives
  <2> QED BY <1>1, <1>2, <1>3, <1>4, <2>1, <2>2, frameProgress
<1>6. Types'
  BY <1>1, <1>4, <1>5 DEF Types
<1>7. LifeInv' /\ ProgInv'
  BY <1>1, <1>2, <1>4, <1>5 DEF LifeInv, ProgInv
<1>8. PlayerInv'
  BY <1>1, <1>2, <1>4 DEF PlayerInv
<1>9. WebInv'
  BY <1>1, legFacts DEF WebInv
<1>10. DbgInv'
  BY <1>1, <1>4 DEF DbgInv
<1> QED BY <1>6, <1>7, <1>8, <1>9, <1>10

(* The readiness gate. *)
LEMMA PlayerBoot ==
    ASSUME FrontInv, leg \in PlayerLegs, debug_boot
    PROVE FrontInv'
<1> USE DEF FrontInv
<1>1. /\ pc = "gate" /\ pc' = "poll"
      /\ UNCHANGED <<leg, disk, cmd, web, dbg, done, inbox, saved, pend>>
      /\ vm' = IF leg \in LuaLegs THEN hostlua_wait_ready(vm) ELSE vm
      /\ progress' = IF leg \in LuaLegs THEN 1 ELSE progress
  BY DEF debug_boot, Quiet, IsLua
<1>2. IsVm(vm) /\ vm.sound /\ vm.life = "fresh" /\ vm.halt = "no" /\ inbox = <<>>
      /\ pend = NoPend /\ dbg.phase = 0
  BY <1>1 DEF Types, LifeInv, PlayerInv
<1>3. /\ IsVm(vm') /\ vm'.sound /\ Entry(vm') = Entry(vm) /\ vm'.halt = "no"
      /\ leg \in LuaLegs => vm'.life = "inited" /\ vm'.live = 1
      /\ leg \notin LuaLegs => vm'.life = "fresh"
  BY <1>1, <1>2, waitReadyFacts DEF Becomes, Entry
<1>4. Types'
  BY <1>1, <1>3, capFacts DEF Types
<1>5. LifeInv' /\ ProgInv'
  BY <1>1, <1>2, <1>3 DEF LifeInv, ProgInv
<1>6. PlayerInv'
  BY <1>1, <1>2, <1>3 DEF PlayerInv
<1>7. WebInv'
  BY <1>1, legFacts DEF WebInv
<1>8. DbgInv'
  BY <1>1, <1>3 DEF DbgInv
<1> QED BY <1>4, <1>5, <1>6, <1>7, <1>8

(* The new image in place of the old one: a blank machine. *)
LEMMA swappedFacts ==
    ASSUME NEW s, IsVm(s), s.sound, leg \in PlayerLegs, leg \in LuaLegs => s.halt = "no",
           disk.code \in Codes
    PROVE LET d == Swapped(s)
          IN /\ IsVm(d) /\ d.sound /\ d.life = "fresh" /\ d.halt = "no" /\ d.code = disk.code
<1> DEFINE base == IF dbg.on THEN next_reload_base(s) ELSE "native"
           v == build_vm(s)
           z == [v EXCEPT !.code = disk.code, !.assets = disk.code, !.bufs = 0]
<1>1. base \in Bases
  BY nextBase DEF Bases
<1>2. Becomes(s, v, "fresh", 0, s.bufs, s.halt) /\ v.sound
  BY buildFacts
<1>3. Swapped(s) = CASE leg = "emulated" -> swap_cart(s, disk, base)
                     [] leg = "hosthybrid" -> [z EXCEPT !.base = base]
                     [] leg = "hostlua" -> z
  BY DEF Swapped
<1> HIDE DEF base, v
<1>4. /\ IsVm(z) /\ z.sound /\ z.code = disk.code /\ z.life = v.life /\ z.halt = v.halt
      /\ LET y == [z EXCEPT !.base = base]
         IN IsVm(y) /\ y.sound /\ y.code = disk.code /\ y.life = v.life /\ y.halt = v.halt
  <2>1. IsVm(v) /\ v.sound
    BY <1>2 DEF Becomes
  <2>2. IsVm(z) /\ z.sound /\ z.code = disk.code /\ z.life = v.life /\ z.halt = v.halt
    BY <2>1, codeEdit, Zenon
  <2> HIDE DEF z
  <2>3. LET y == [z EXCEPT !.base = base]
        IN IsVm(y) /\ y.sound /\ y.code = z.code /\ y.life = z.life /\ y.halt = z.halt
    BY <1>1, <2>2, baseEdit
  <2> QED BY <2>2, <2>3
<1> HIDE DEF z
<1>5. CASE leg = "emulated"
  BY <1>1, <1>3, <1>5, swapFacts
<1>6. CASE leg = "hosthybrid"
  BY <1>2, <1>3, <1>4, <1>6, Zenon DEF Becomes, LuaLegs
<1>7. CASE leg = "hostlua"
  BY <1>2, <1>3, <1>4, <1>7 DEF Becomes, LuaLegs
<1> QED BY <1>5, <1>6, <1>7 DEF PlayerLegs

(* The tail of a reload: the cart boots and takes its progress back, or    *)
(* has trapped.                                                            *)
LEMMA restoredFacts ==
    ASSUME NEW c, IsVm(c), c.sound, c.life = "fresh", c.halt = "no",
           NEW n \in 0 .. MaxLive, NEW p \in Plays
    PROVE LET d == Restored(c, n, p)
          IN /\ IsVm(d) /\ d.sound /\ d.life = "inited" /\ d.code = c.code /\ d.base = c.base
             /\ leg \in LuaLegs => d.halt = "no"
             /\ d.live = n \/ Trapped(d)
<1>1. CASE leg \in LuaLegs
  <2>1. Restored(c, n, p) = rebuild_and_restore(c, n)
    BY <1>1 DEF Restored, IsLua
  <2>2. Becomes(c, Restored(c, n, p), "inited", n, n, c.halt) /\ Restored(c, n, p).sound
    BY <2>1, rebuildFacts, Zenon
  <2> QED BY <2>2 DEF Becomes
<1>2. CASE leg \notin LuaLegs
  <2> DEFINE f == run_frame_impl(c, p)
  <2>1. Restored(c, n, p) = session_restore(f, n)
    BY <1>2 DEF Restored, IsLua
  <2>2. Becomes(c, f, f.life, FrameLive(c), c.bufs, f.halt) /\ f.sound /\ f.life = "inited"
    BY frameFacts
  <2> HIDE DEF f
  <2>3. LET d == session_restore(f, n)
        IN /\ Becomes(f, d, "inited", IF f.halt = "trap" THEN f.live ELSE n, n, Hooked(f.halt))
           /\ d.sound
    BY <2>2, restoreFacts DEF Becomes
  <2> QED BY <1>2, <2>1, <2>2, <2>3 DEF Becomes, Trapped, Hooked
<1> QED BY <1>1, <1>2

(* The reload of the player, on the emulated and the two Lua legs. *)
LEMMA PlayerReload ==
    ASSUME FrontInv, leg \in PlayerLegs, NEW p \in Plays, reload_impl(p)
    PROVE FrontInv'
<1> DEFINE s == Saving(vm)
           c == Swapped(s)
<1>1. /\ pc = "poll" /\ inbox # <<>> /\ ~done /\ inbox' = Tail(inbox)
      /\ UNCHANGED <<leg, disk, cmd, web, done, saved>>
  BY Zenon DEF reload_impl, Taken, Next1, Quiet
<1>2. IF dbg.on
      THEN /\ vm' = c /\ dbg' = notify_cart_reloaded(dbg, c) /\ pc' = "solib"
           /\ pend' = [id |-> Head(inbox), snap |-> s.bufs]
           /\ progress' = IF Trapped(vm) THEN s.bufs ELSE progress
      ELSE /\ vm' = Restored(c, s.bufs, p) /\ UNCHANGED <<dbg, pc, pend>>
           /\ progress' = Expected(progress)
  BY Zenon DEF reload_impl
<1>3. /\ IsVm(vm) /\ vm.sound /\ vm.life = "inited" /\ vm.live = progress
      /\ leg \in LuaLegs => vm.halt = "no"
      /\ disk.code \in Codes /\ saved \in 0 .. NoSave /\ pend = NoPend /\ dbg.phase = 0
  BY <1>1, CommandFinds
<1>4. /\ Becomes(vm, s, "inited", vm.live, IF vm.halt = "trap" THEN vm.bufs ELSE vm.live,
                 Hooked(vm.halt))
      /\ s.sound
  BY <1>3, savingFacts
<1> HIDE DEF s
<1>5. IsVm(c) /\ c.sound /\ c.life = "fresh" /\ c.halt = "no" /\ c.code = disk.code
  BY <1>3, <1>4, swappedFacts DEF Becomes, Hooked
<1> HIDE DEF c
<1>6. s.bufs \in 0 .. MaxLive /\ (~Trapped(vm) => s.bufs = progress)
  BY <1>3, <1>4 DEF Becomes, IsVm, Trapped
<1>7. CASE dbg.on
  <2> USE DEF FrontInv
  <2>1. Listed(dbg)
    BY <1>7 DEF DbgInv
  <2>2. dbg' = reload_notify_begin(dbg, c)
    BY <1>2, <1>7 DEF notify_cart_reloaded, is_debugging
  <2>3. Listed(dbg') /\ dbg'.on = dbg.on /\ dbg'.phase \in {1, 2} /\ Shows(dbg', Entry(c))
    BY <1>3, <1>5, <2>1, <2>2, beginFacts, Zenon
  <2>4. pend'.snap = s.bufs /\ pend'.snap = progress' /\ pend' # NoPend
    <3>1. Head(inbox) \in Ids
      BY <1>1 DEF Types
    <3> QED BY <1>2, <1>6, <1>7, <3>1, ToolBounds DEF Ids, NoPend
  <2>5. inbox' \in Seq(Ids)
    BY <1>1 DEF Types
  <2>6. Types'
    BY <1>1, <1>2, <1>5, <1>6, <1>7, <2>4, <2>5, Zenon DEF Types
  <2>7. LifeInv' /\ ProgInv'
    BY <1>1, <1>2, <1>5, <1>7, <2>4, Zenon DEF LifeInv, ProgInv
  <2>8. PlayerInv'
    BY <1>1, <1>2, <1>5, <1>7, <2>3, <2>4 DEF PlayerInv
  <2>9. WebInv'
    BY <1>1, legFacts DEF WebInv
  <2>10. DbgInv'
    BY <1>1, <1>2, <1>7, <2>3 DEF DbgInv
  <2> QED BY <2>6, <2>7, <2>8, <2>9, <2>10
<1>8. CASE ~dbg.on
  <2>1. vm' = Restored(c, s.bufs, p) /\ UNCHANGED <<dbg, pc, pend>> /\ progress' = Expected(progress)
    BY <1>2, <1>8
  <2>2. /\ IsVm(vm') /\ vm'.sound /\ vm'.life = "inited"
        /\ leg \in LuaLegs => vm'.halt = "no"
        /\ vm'.live = s.bufs \/ Trapped(vm')
    BY <1>5, <1>6, <2>1, restoredFacts
  <2>3. vm'.live = progress'
    BY <1>6, <2>1, <2>2 DEF Expected
  <2> QED BY <1>1, <1>3, <1>8, <2>1, <2>2, <2>3, CommandKeeps
<1> QED BY <1>7, <1>8

(* While the debugger rebinds, and the rest of the reload after it. *)
LEMMA PlayerRearm ==
    ASSUME FrontInv, leg \in PlayerLegs, NEW p \in Plays, solib_wait \/ reload_tail(p)
    PROVE FrontInv'
<1> USE DEF FrontInv
<1>1. CASE solib_wait
  <2>1. /\ pc = "solib" /\ dbg.phase # 0 /\ dbg' = publish_libs_and_wait(dbg)
        /\ UNCHANGED <<leg, disk, cmd, web, vm, done, pc, inbox, saved, pend, progress>>
    BY <1>1 DEF solib_wait, Quiet
  <2>2. Listed(dbg) /\ dbg.on
    BY <2>1 DEF PlayerInv, DbgInv
  <2>3. Listed(dbg') /\ dbg'.on = dbg.on /\ \A e : Shows(dbg, e) => Shows(dbg', e)
    BY <2>1, <2>2, waitFacts, Zenon
  <2>4. Types' /\ LifeInv' /\ ProgInv'
    BY <2>1 DEF Types, LifeInv, ProgInv
  <2>5. PlayerInv'
    BY <2>1, <2>3 DEF PlayerInv
  <2>6. WebInv'
    BY <2>1, legFacts DEF WebInv
  <2>7. DbgInv'
    BY <2>1, <2>2, <2>3 DEF DbgInv
  <2> QED BY <2>4, <2>5, <2>6, <2>7
<1>2. CASE reload_tail(p)
  <2>1. /\ pc = "solib" /\ dbg.phase = 0 /\ vm' = Restored(vm, pend.snap, p)
        /\ pend' = NoPend /\ pc' = "poll" /\ progress' = Expected(progress)
        /\ UNCHANGED <<leg, disk, cmd, web, dbg, done, inbox, saved>>
    BY <1>2 DEF reload_tail, Quiet
  <2>2. /\ IsVm(vm) /\ vm.sound /\ vm.life = "fresh" /\ vm.halt = "no" /\ ~done
        /\ pend # NoPend /\ pend.snap \in 0 .. MaxLive /\ pend.snap = progress
    BY <2>1 DEF Types, LifeInv, PlayerInv, ProgInv
  <2>3. /\ IsVm(vm') /\ vm'.sound /\ vm'.life = "inited" /\ Entry(vm') = Entry(vm)
        /\ leg \in LuaLegs => vm'.halt = "no"
        /\ vm'.live = pend.snap \/ Trapped(vm')
    BY <2>1, <2>2, restoredFacts DEF Entry
  <2>4. progress' = vm'.live /\ progress' \in 0 .. MaxLive
    BY <2>1, <2>2, <2>3 DEF Expected, IsVm
  <2>5. Types'
    BY <2>1, <2>3, <2>4, LifeBounds DEF Types, NoPend
  <2>6. LifeInv' /\ ProgInv'
    BY <2>1, <2>2, <2>3, <2>4, Zenon DEF LifeInv, ProgInv
  <2>7. PlayerInv'
    BY <2>1, <2>3 DEF PlayerInv
  <2>8. WebInv'
    BY <2>1, legFacts, Zenon DEF WebInv
  <2>9. DbgInv'
    BY <2>1, <2>3 DEF DbgInv
  <2> QED BY <2>5, <2>6, <2>7, <2>8, <2>9
<1> QED BY <1>1, <1>2

(* What a frame may do is one of the plays of CartLife. *)
LEMMA playsFacts == PlaysOf(leg) \subseteq Plays
BY ToolBounds DEF PlaysOf

(* Every step of the player keeps the invariant. *)
LEMMA PlayerKeeps ==
    ASSUME FrontInv, PlayerStep
    PROVE FrontInv'
<1> leg \in PlayerLegs /\ PlaysOf(leg) \subseteq Plays
  BY playsFacts DEF PlayerStep
<1>1. CASE debug_boot
  BY <1>1, PlayerBoot
<1>2. CASE \E p \in PlaysOf(leg), s \in BOOLEAN : retro_run(p, s)
  BY <1>2, PlayerFrame
<1>3. CASE \E p \in PlaysOf(leg) : libretro_reset(p)
  BY <1>3, PlayerReset
<1>4. CASE \/ \E io \in BOOLEAN : libretro_save_state(io)
           \/ libretro_load_state
           \/ libretro_update_assets
           \/ unknown_command
           \/ reload_fails
  BY <1>4, PlayerCommands
<1>5. CASE \E p \in PlaysOf(leg) : reload_impl(p)
  BY <1>5, PlayerReload
<1>6. CASE solib_wait
  <2>1. "play" \in Plays
    BY DEF Plays
  <2> QED BY <1>6, <2>1, PlayerRearm
<1>7. CASE \E p \in PlaysOf(leg) : reload_tail(p)
  BY <1>7, PlayerRearm
<1> QED BY <1>1, <1>2, <1>3, <1>4, <1>5, <1>6, <1>7 DEF PlayerStep

(* ------------------------------ the browser ---------------------------- *)

(* What a command or a fetched file finds. *)
LEMMA WebFinds ==
    ASSUME FrontInv, leg \in WebLegs, Waiting
    PROVE /\ IsVm(vm) /\ vm.sound /\ vm.life # "fresh"
          /\ ~done => vm.life = "inited" /\ vm.live = progress
          /\ ~done /\ (leg \in LuaLegs \/ dbg.on) => vm.halt = "no"
          /\ web.rphase = "none" /\ pend = NoPend /\ dbg.phase = 0
          /\ leg \in LuaLegs => web.co = "running" /\ web.lphase # "init"
          /\ disk.code \in Codes /\ saved \in 0 .. NoSave /\ progress \in 0 .. MaxLive
          /\ vm.live \in 0 .. MaxLive /\ DOMAIN web = WebFields
<1> USE DEF FrontInv
<1>1. /\ IsVm(vm) /\ vm.sound /\ vm.life # "fresh" /\ (~done => vm.life = "inited")
      /\ disk.code \in Codes /\ saved \in 0 .. NoSave /\ progress \in 0 .. MaxLive
      /\ vm.live \in 0 .. MaxLive /\ DOMAIN web = WebFields
  BY DEF Types, LifeInv, WebInv, IsVm, Lives
<1>2. ~done /\ (leg \in LuaLegs \/ dbg.on) => vm.halt = "no"
  BY DEF LifeInv, WebInv
<1>3. web.rphase = "none" /\ pend = NoPend /\ dbg.phase = 0
  BY DEF WebInv
<1>4. leg \in LuaLegs => web.co = "running" /\ web.lphase # "init"
  BY <1>1 DEF WebInv
<1> QED BY <1>1, <1>2, <1>3, <1>4, Zenon DEF ProgInv

(* A command or a fetched file that leaves the cart where it was in its    *)
(* life, with the progress expected of it, keeps the invariant.            *)
LEMMA WebCommandKeeps ==
    ASSUME FrontInv, leg \in WebLegs, Waiting,
           UNCHANGED <<leg, disk, cmd, dbg, done, pend, pc>>,
           IsVm(vm'), vm'.sound, vm'.life = vm.life, ~done => vm'.live = progress',
           ~done /\ (leg \in LuaLegs \/ dbg.on) => vm'.halt = "no",
           dbg.on /\ ~web'.fatal => ~web.fatal /\ Entry(vm') = Entry(vm),
           DOMAIN web' = WebFields, web'.co = web.co, web'.lphase = web.lphase,
           web'.rphase = web.rphase,
           inbox' \in Seq(Ids), 
           dbg.on => /\ inbox' # <<>> => Tail(inbox') = <<>> /\ web'.fetch = 0 /\ web'.assets = 0
                     /\ web'.fetch # 0 => web'.assets = 0,
           progress' \in 0 .. MaxLive, saved' \in 0 .. NoSave
    PROVE FrontInv'
<1> USE DEF FrontInv
<1>1. /\ vm.life # "fresh" /\ web.rphase = "none" /\ pend = NoPend /\ dbg.phase = 0
      /\ leg \in LuaLegs => web.co = "running" /\ web.lphase # "init"
  BY WebFinds
<1>2. Types'
  BY DEF Types
<1>3. LifeInv'
  BY <1>1 DEF LifeInv
<1>4. PlayerInv'
  BY legFacts, Zenon DEF PlayerInv
<1>5. WebInv'
  BY <1>1, Zenon DEF WebInv, Waiting
<1>6. DbgInv'
  BY DEF DbgInv
<1>7. ProgInv'
  BY <1>1 DEF ProgInv
<1> QED BY <1>2, <1>3, <1>4, <1>5, <1>6, <1>7, Zenon

(* Taking a command off the page's queue. *)
LEMMA commandFacts ==
    ASSUME FrontInv, leg \in WebLegs, NEW op, Command(op)
    PROVE /\ Waiting /\ inbox' \in Seq(Ids) /\ Head(inbox) \in Ids /\ Head(inbox) # 0
          /\ dbg.on => inbox' = <<>> /\ web.fetch = 0 /\ web.assets = 0
<1> USE DEF FrontInv
<1>1. inbox # <<>> /\ inbox' = Tail(inbox) /\ inbox \in Seq(Ids)
  BY DEF Command, Types
<1>2. inbox' \in Seq(Ids) /\ Head(inbox) \in Ids /\ Head(inbox) # 0
  BY <1>1, ToolBounds DEF Ids
<1>3. Waiting
  BY <1>1 DEF Waiting
<1>4. dbg.on => inbox' = <<>> /\ web.fetch = 0 /\ web.assets = 0
  BY <1>1 DEF WebInv
<1> QED BY <1>2, <1>3, <1>4

(* The fields of the browser's state, after the writes made to it. *)
LEMMA fetchEdit ==
    ASSUME DOMAIN web = WebFields, NEW n
    PROVE /\ LET w == [web EXCEPT !.fetch = n]
             IN /\ DOMAIN w = WebFields /\ w.co = web.co /\ w.lphase = web.lphase
                /\ w.rphase = web.rphase /\ w.fatal = web.fatal
                /\ w.fetch = n /\ w.assets = web.assets
          /\ LET w == [web EXCEPT !.assets = n]
             IN /\ DOMAIN w = WebFields /\ w.co = web.co /\ w.lphase = web.lphase
                /\ w.rphase = web.rphase /\ w.fatal = web.fatal
                /\ w.fetch = web.fetch /\ w.assets = n
BY DEF WebFields

(* The commands the page hands over. *)
LEMMA WebCommands ==
    ASSUME FrontInv, leg \in WebLegs,
           \/ refused_command \/ reset_command \/ load_command \/ fetch_command
           \/ \E io \in BOOLEAN : save_command(io)
    PROVE FrontInv'
<1> DEFINE Found ==
             /\ IsVm(vm) /\ vm.sound /\ vm.life # "fresh"
             /\ ~done => vm.life = "inited" /\ vm.live = progress
             /\ ~done /\ (leg \in LuaLegs \/ dbg.on) => vm.halt = "no"
             /\ leg \in LuaLegs => web.co = "running"
             /\ saved \in 0 .. NoSave /\ progress \in 0 .. MaxLive
             /\ vm.live \in 0 .. MaxLive /\ DOMAIN web = WebFields
           Handed ==
             /\ Waiting /\ inbox' \in Seq(Ids) /\ Head(inbox) # 0
             /\ dbg.on => inbox' = <<>> /\ web.fetch = 0 /\ web.assets = 0
<1>0. \A op : Command(op) => Found /\ Handed
  BY commandFacts, WebFinds
<1>1. CASE refused_command
  <2>1. PICK op \in {"reset", "save_state", "load_state", "unknown"} : Command(op)
    BY <1>1 DEF refused_command
  <2>2. UNCHANGED <<leg, disk, cmd, pc, vm, dbg, done, saved, pend, web, progress>>
    BY <1>1 DEF refused_command, Still
  <2>3. Found /\ Handed
    BY <1>0, <2>1
  <2> QED BY <2>2, <2>3, WebCommandKeeps
<1>2. CASE reset_command
  <2>1. /\ Command("reset") /\ leg = "weblua" /\ ~done
        /\ vm' = Rebuild(vm, 0, FALSE) /\ web' = [web EXCEPT !.co = "running"] /\ progress' = 1
        /\ UNCHANGED <<leg, disk, cmd, pc, dbg, done, saved, pend>>
    BY <1>2 DEF reset_command, Still, dev_ctrl_lua_path
  <2>2. Found /\ Handed /\ leg \in LuaLegs
    BY <1>0, <2>1 DEF LuaLegs
  <2>3. Becomes(vm, vm', "inited", 1, 0, vm.halt) /\ vm'.sound
    BY <2>1, <2>2, blankRebuildFacts, Zenon
  <2>4. /\ DOMAIN web' = WebFields /\ web'.co = web.co /\ web'.lphase = web.lphase
        /\ web'.rphase = web.rphase /\ web'.fetch = web.fetch /\ web'.assets = web.assets
    BY <2>1, <2>2 DEF WebFields
  <2>5. web'.fatal = web.fatal
    BY <2>1, <2>2 DEF WebFields
  <2>6. progress' \in 0 .. MaxLive /\ Entry(vm') = Entry(vm)
    BY <2>1, <2>3, capFacts, Zenon DEF Becomes, Entry
  <2>7. IsVm(vm') /\ vm'.life = vm.life /\ vm'.live = progress' /\ vm'.halt = "no"
    BY <2>1, <2>2, <2>3, Zenon DEF Becomes
  <2> QED BY <2>1, <2>2, <2>3, <2>4, <2>5, <2>6, <2>7, WebCommandKeeps, Zenon
<1>3. CASE load_command
  <2>1. /\ Command("load_state") /\ leg = "weblua" /\ ~done
        /\ vm' = IF saved # NoSave THEN on_load_state([vm EXCEPT !.bufs = saved]) ELSE vm
        /\ progress' = IF saved # NoSave THEN saved ELSE progress
        /\ UNCHANGED <<leg, disk, cmd, pc, dbg, done, saved, pend, web>>
    BY <1>3 DEF load_command, Still, dev_ctrl_lua_path
  <2>2. Found /\ Handed /\ leg \in LuaLegs
    BY <1>0, <2>1 DEF LuaLegs
  <2>3. CASE saved = NoSave
    BY <2>1, <2>2, <2>3, WebCommandKeeps
  <2>4. CASE saved # NoSave
    <3> DEFINE e == [vm EXCEPT !.bufs = saved]
    <3>1. saved \in 0 .. MaxLive
      BY <2>2, <2>4, LifeBounds DEF NoSave
    <3>2. Becomes(vm, e, vm.life, vm.live, saved, vm.halt) /\ e.sound
      BY <2>2, <3>1, bufsEdit
    <3>3. vm' = on_load_state(e) /\ progress' = saved
      BY <2>1, <2>4
    <3> HIDE DEF e
    <3>4. Callback(e, vm', "inited", e.life, e.bufs, e.bufs)
      BY <3>2, <3>3, loadFacts DEF Becomes
    <3>5. vm'.sound
      BY <2>1, <2>2, <3>2, <3>4 DEF Becomes, Callback
    <3>6. /\ IsVm(vm') /\ vm'.life = vm.life /\ vm'.live = progress' /\ vm'.halt = vm.halt
          /\ Entry(vm') = Entry(vm)
      BY <3>2, <3>3, <3>4, Zenon DEF Becomes, Callback, Entry
    <3> QED BY <2>1, <2>2, <3>1, <3>3, <3>5, <3>6, WebCommandKeeps
  <2> QED BY <2>3, <2>4
<1>4. CASE fetch_command
  <2>1. PICK op \in {"reload", "update_assets"} :
          /\ Command(op)
          /\ \/ web' = web
             \/ web.fetch = 0 /\ web' = [web EXCEPT !.fetch = Head(inbox)]
             \/ web.assets = 0 /\ web' = [web EXCEPT !.assets = Head(inbox)]
    BY <1>4 DEF fetch_command
  <2>2. UNCHANGED <<leg, disk, cmd, pc, vm, dbg, done, saved, pend, progress>>
    BY <1>4 DEF fetch_command, Still
  <2>3. Found /\ Handed
    BY <1>0, <2>1
  <2>4. /\ DOMAIN web' = WebFields /\ web'.co = web.co /\ web'.lphase = web.lphase
        /\ web'.rphase = web.rphase /\ web'.fatal = web.fatal
        /\ web.fetch = 0 /\ web.assets = 0 => web'.fetch = 0 \/ web'.assets = 0
    <3> DEFINE n == Head(inbox)
    <3> HIDE DEF n
    <3>1. CASE web' = web
      BY <2>3, <3>1
    <3>2. CASE web' = [web EXCEPT !.fetch = n]
      BY <2>3, <3>2, fetchEdit
    <3>3. CASE web' = [web EXCEPT !.assets = n]
      BY <2>3, <3>3, fetchEdit
    <3> QED BY <2>1, <3>1, <3>2, <3>3 DEF n
  <2> QED BY <2>2, <2>3, <2>4, WebCommandKeeps
<1>5. CASE \E io \in BOOLEAN : save_command(io)
  <2>1. /\ Command("save_state") /\ leg = "weblua" /\ ~done
        /\ vm' = on_save_state(vm) /\ saved' \in {vm'.bufs, saved}
        /\ UNCHANGED <<leg, disk, cmd, pc, dbg, done, pend, web, progress>>
    BY <1>5 DEF save_command, Still, dev_ctrl_lua_path
  <2>2. Found /\ Handed /\ leg \in LuaLegs
    BY <1>0, <2>1 DEF LuaLegs
  <2>3. Callback(vm, vm', "inited", vm.life, vm.live, vm.live)
    BY <2>1, <2>2, saveFacts
  <2>4. vm'.sound
    BY <2>1, <2>2, <2>3 DEF Callback
  <2>5. /\ IsVm(vm') /\ vm'.life = vm.life /\ vm'.live = vm.live /\ vm'.halt = vm.halt
        /\ Entry(vm') = Entry(vm) /\ saved' \in 0 .. NoSave
    BY <2>1, <2>2, <2>3, LifeBounds DEF Becomes, Callback, Entry, NoSave
  <2> QED BY <2>1, <2>2, <2>4, <2>5, WebCommandKeeps
<1> QED BY <1>1, <1>2, <1>3, <1>4, <1>5

(* The page's fetches, answered, refused or fatal. *)
LEMMA WebFetches ==
    ASSUME FrontInv, leg \in WebLegs,
           \/ \E ok \in BOOLEAN : assets_fetched(ok)
           \/ \E ok \in BOOLEAN : reload_refused(ok)
           \/ reload_fatal
           \/ reload_after_end
    PROVE FrontInv'
<1> USE DEF FrontInv
<1> SUFFICES ASSUME Waiting PROVE FrontInv'
  <2>1. web.fetch # 0 \/ web.assets # 0
    BY DEF assets_fetched, reload_refused, reload_fatal, reload_after_end, Fetched
  <2> QED BY <2>1 DEF Waiting
<1>0. /\ IsVm(vm) /\ vm.sound /\ vm.life # "fresh"
      /\ ~done => vm.life = "inited" /\ vm.live = progress
      /\ ~done /\ (leg \in LuaLegs \/ dbg.on) => vm.halt = "no"
      /\ disk.code \in Codes /\ saved \in 0 .. NoSave /\ progress \in 0 .. MaxLive
      /\ DOMAIN web = WebFields
  BY WebFinds
<1>k. /\ inbox \in Seq(Ids)
      /\ dbg.on => /\ inbox # <<>> => Tail(inbox) = <<>> /\ web.fetch = 0 /\ web.assets = 0
                   /\ web.fetch # 0 => web.assets = 0
  BY DEF Types, WebInv
<1> DEFINE Keeps == /\ IsVm(vm') /\ vm'.sound /\ vm'.life = vm.life /\ vm'.live = vm.live
                    /\ vm.halt = "no" => vm'.halt = "no"
           Same == Keeps /\ Entry(vm') = Entry(vm)
           Frame == UNCHANGED <<leg, disk, cmd, pc, dbg, done, inbox, saved, pend, progress>>
<1>s. ~done /\ vm' = on_save_state(vm) => Same
  <2> SUFFICES ASSUME ~done, vm' = on_save_state(vm) PROVE Same
    OBVIOUS
  <2>1. Callback(vm, vm', "inited", vm.life, vm.live, vm.live)
    BY <1>0, saveFacts
  <2>2. vm'.sound
    BY <1>0, <2>1 DEF Callback
  <2> QED BY <2>1, <2>2 DEF Callback, Becomes, Entry
<1>1. ASSUME NEW ok \in BOOLEAN, assets_fetched(ok) PROVE FrontInv'
  <2> DEFINE e == [vm EXCEPT !.assets = disk.code]
  <2>1. /\ Frame /\ web' = [web EXCEPT !.assets = 0]
        /\ \/ vm' = vm
           \/ ~done /\ vm' \in {notify_assets_reloaded(e), on_assets_reloaded(e)}
    BY <1>1, legFacts DEF assets_fetched, Still, HasSession, HasLua, WebLegs
  <2>2. Becomes(vm, e, vm.life, vm.live, vm.bufs, vm.halt) /\ e.sound
    BY <1>0, assetsEdit
  <2> HIDE DEF e
  <2>3. Same
    <3>1. CASE vm' = vm
      BY <1>0, <3>1
    <3>2. CASE ~done /\ vm' = notify_assets_reloaded(e)
      <4>1. Becomes(e, vm', "inited", e.live, e.bufs, Hooked(e.halt)) /\ vm'.sound
        BY <1>0, <2>2, <3>2, notifyFacts DEF Becomes
      <4> QED BY <1>0, <2>2, <3>2, <4>1 DEF Becomes, Hooked, Entry
    <3>3. CASE ~done /\ vm' = on_assets_reloaded(e)
      <4>1. Callback(e, vm', "inited", e.life, e.live, e.bufs)
        BY <2>2, <3>3, assetsFacts DEF Becomes
      <4>2. vm'.sound
        BY <1>0, <2>2, <3>3, <4>1 DEF Callback, Becomes
      <4> QED BY <1>0, <2>2, <3>3, <4>1, <4>2, Zenon DEF Callback, Becomes, Entry
    <3> QED BY <2>1, <3>1, <3>2, <3>3
  <2>4. /\ DOMAIN web' = WebFields /\ web'.co = web.co /\ web'.lphase = web.lphase
        /\ web'.rphase = web.rphase /\ web'.fatal = web.fatal
        /\ web'.fetch = web.fetch /\ web'.assets = 0
    BY <1>0, <2>1, fetchEdit
  <2> QED BY <1>0, <1>k, <2>1, <2>3, <2>4, WebCommandKeeps
<1>2. ASSUME NEW ok \in BOOLEAN, reload_refused(ok) PROVE FrontInv'
  <2>1. /\ Frame /\ web' = [web EXCEPT !.fetch = 0]
        /\ \/ vm' = vm
           \/ ~done /\ vm' \in {on_save_state(vm), session_snapshot(vm)}
    BY <1>2 DEF reload_refused, Still, HasSession
  <2>2. Same
    <3>1. CASE vm' = vm
      BY <1>0, <3>1
    <3>2. CASE ~done /\ vm' = session_snapshot(vm)
      <4>1. /\ Becomes(vm, vm', "inited", vm.live,
                       IF vm.halt = "trap" THEN vm.bufs ELSE vm.live, Hooked(vm.halt))
            /\ vm'.sound
        BY <1>0, <3>2, snapshotFacts
      <4> QED BY <1>0, <3>2, <4>1 DEF Becomes, Hooked, Entry
    <3> QED BY <1>s, <2>1, <3>1, <3>2
  <2>3. /\ DOMAIN web' = WebFields /\ web'.co = web.co /\ web'.lphase = web.lphase
        /\ web'.rphase = web.rphase /\ web'.fatal = web.fatal
        /\ web'.fetch = 0 /\ web'.assets = web.assets
    BY <1>0, <2>1, fetchEdit
  <2> QED BY <1>0, <1>k, <2>1, <2>2, <2>3, WebCommandKeeps
<1>3. CASE reload_fatal
  <2> DEFINE s == on_save_state(vm)
             base == IF dbg.on THEN next_reload_base(vm) ELSE "native"
  <2>1. /\ Frame /\ web' = [web EXCEPT !.fetch = 0, !.fatal = TRUE]
        /\ \/ vm' = vm
           \/ ~done /\ vm' = s
           \/ /\ ~done
              /\ vm' = [s EXCEPT !.code = disk.code, !.assets = disk.code, !.bufs = 0, !.base = base]
    BY <1>3 DEF reload_fatal, Still
  <2>2. /\ DOMAIN web' = WebFields /\ web'.co = web.co /\ web'.lphase = web.lphase
        /\ web'.rphase = web.rphase /\ web'.fetch = 0 /\ web'.assets = web.assets
    BY <1>0, <2>1 DEF WebFields
  <2>3. web'.fatal
    BY <1>0, <2>1 DEF WebFields
  <2>4. Keeps
    <3>1. CASE vm' = vm
      BY <1>0, <3>1
    <3>2. CASE ~done /\ vm' = s
      BY <1>s, <3>2
    <3>3. CASE /\ ~done
               /\ vm' = [s EXCEPT !.code = disk.code, !.assets = disk.code, !.bufs = 0, !.base = base]
      <4>1. Callback(vm, s, "inited", vm.life, vm.live, vm.live) /\ s.sound
        BY <1>0, <3>3, saveFacts DEF Callback
      <4>2. base \in Bases
        BY nextBase DEF Bases
      <4> HIDE DEF s, base
      <4>3. IsVm(s)
        BY <4>1 DEF Callback, Becomes
      <4>4. /\ IsVm(vm') /\ vm'.sound
            /\ vm'.life = s.life /\ vm'.live = s.live /\ vm'.halt = s.halt
        <5>1. vm' = Imaged(s, disk.code, base)
          BY <3>3 DEF Imaged
        <5> QED BY <1>0, <4>1, <4>2, <4>3, <5>1, imageFacts
      <4> QED BY <4>1, <4>4 DEF Callback, Becomes
    <3> QED BY <2>1, <3>1, <3>2, <3>3
  <2> QED BY <1>0, <1>k, <2>1, <2>2, <2>3, <2>4, WebCommandKeeps
<1>4. CASE reload_after_end
  <2>1. Frame /\ vm' = vm /\ web' = [web EXCEPT !.fetch = 0, !.wild = TRUE]
    BY <1>4 DEF reload_after_end, Still
  <2>2. /\ DOMAIN web' = WebFields /\ web'.co = web.co /\ web'.lphase = web.lphase
        /\ web'.rphase = web.rphase /\ web'.fetch = 0 /\ web'.assets = web.assets
    BY <1>0, <2>1 DEF WebFields
  <2>3. web'.fatal = web.fatal
    BY <1>0, <2>1 DEF WebFields
  <2> QED BY <1>0, <1>k, <2>1, <2>2, <2>3, WebCommandKeeps
<1> QED BY <1>1, <1>2, <1>3, <1>4

(* A fetched build goes into the machine at once when no debugger watches. *)
LEMMA WebReload ==
    ASSUME FrontInv, leg \in WebLegs, NEW p \in Plays, reload_fetched(p)
    PROVE FrontInv'
<1> USE DEF FrontInv
<1>1. /\ web.fetch # 0 /\ ~done /\ ~(HasSession /\ dbg.on)
      /\ web' = [web EXCEPT !.fetch = 0, !.co = IF HasLua THEN "running" ELSE @]
      /\ progress' = Expected(progress)
      /\ UNCHANGED <<leg, disk, cmd, pc, dbg, done, inbox, saved, pend>>
  BY DEF reload_fetched, Usable, Fetched, Still
<1>2. Waiting /\ (HasLua <=> leg \in LuaLegs)
  BY <1>1, legFacts DEF Waiting, HasLua, WebLegs
<1>3. /\ IsVm(vm) /\ vm.sound /\ vm.life = "inited" /\ vm.live = progress
      /\ leg \in LuaLegs \/ dbg.on => vm.halt = "no"
      /\ leg \in LuaLegs => web.co = "running"
      /\ disk.code \in Codes /\ saved \in 0 .. NoSave /\ progress \in 0 .. MaxLive
      /\ DOMAIN web = WebFields
  BY <1>1, <1>2, WebFinds
<1>4. /\ DOMAIN web' = WebFields /\ web'.co = web.co /\ web'.lphase = web.lphase
      /\ web'.rphase = web.rphase /\ web'.fetch = 0 /\ web'.assets = web.assets
  BY <1>1, <1>2, <1>3 DEF WebFields
<1>5. web'.fatal = web.fatal
  BY <1>1, <1>3 DEF WebFields
<1>6. /\ inbox \in Seq(Ids)
      /\ dbg.on => /\ inbox # <<>> => Tail(inbox) = <<>> /\ web.fetch = 0 /\ web.assets = 0
                   /\ web.fetch # 0 => web.assets = 0
  BY DEF Types, WebInv
<1>7. CASE leg \in LuaLegs
  <2> DEFINE s == on_save_state(vm)
             b == Rebuilt(s)
             n == NewImage(s, vm.base)
  <2>1. vm' = Rebuild(n, s.bufs, TRUE)
    BY <1>2, <1>7, Zenon DEF reload_fetched
  <2>2. Callback(vm, s, "inited", vm.life, vm.live, vm.live) /\ s.sound
    BY <1>3, saveFacts DEF Callback
  <2>3. n = [b EXCEPT !.code = disk.code, !.assets = disk.code, !.bufs = 0, !.base = vm.base]
    BY DEF NewImage
  <2> HIDE DEF s
  <2>4. Becomes(s, b, "fresh", 0, s.bufs, s.halt) /\ b.sound
    BY <2>2, buildFacts DEF Callback, Becomes
  <2> HIDE DEF b, n
  <2>5. IsVm(b) /\ vm.base \in Bases
    BY <1>3, <2>4, Zenon DEF Becomes, IsVm
  <2>6. IsVm(n) /\ n.sound /\ n.halt = b.halt /\ n.base = vm.base /\ n.code = disk.code
    <3>1. n = Imaged(b, disk.code, vm.base)
      BY <2>3 DEF Imaged
    <3> QED BY <1>3, <2>4, <2>5, <3>1, imageFacts
  <2>7. s.bufs \in 0 .. MaxLive /\ s.bufs = progress
    BY <1>3, <2>2 DEF Callback, Becomes
  <2>8. Becomes(n, vm', "inited", s.bufs, s.bufs, n.halt) /\ vm'.sound
    BY <2>1, <2>6, <2>7, rebuildFacts, Zenon
  <2>9. IsVm(vm') /\ vm'.life = "inited" /\ vm'.live = progress /\ vm'.halt = "no"
    BY <1>3, <1>7, <2>2, <2>4, <2>6, <2>7, <2>8 DEF Becomes, Callback
  <2>10. progress' = progress
    BY <1>1, <2>9 DEF Expected
  <2>11. ~dbg.on
    <3>1. leg # "weblua" => HasSession
      BY <1>1, <1>7 DEF HasSession, WebLegs, LuaLegs
    <3>2. dbg.on => leg # "weblua"
      BY DEF DbgInv, Sessions
    <3> QED BY <1>1, <3>1, <3>2
  <2> QED BY <1>1, <1>2, <1>3, <1>4, <1>5, <1>6, <2>8, <2>9, <2>10, <2>11, WebCommandKeeps
<1>8. CASE leg \notin LuaLegs
  <2> DEFINE s == session_snapshot(vm)
             c == swap_cart(s, disk, "native")
             f == run_frame_impl(c, p)
  <2>1. vm' = session_restore(f, s.bufs) /\ ~dbg.on
    BY <1>1, <1>2, <1>8, legFacts, Zenon DEF reload_fetched, HasSession
  <2>2. /\ Becomes(vm, s, "inited", vm.live, IF vm.halt = "trap" THEN vm.bufs ELSE vm.live,
                   Hooked(vm.halt))
        /\ s.sound
    BY <1>3, snapshotFacts, Zenon
  <2> HIDE DEF s
  <2>3. IsVm(c) /\ c.sound /\ c.life = "fresh" /\ c.halt = "no"
    BY <1>3, <2>2, swapFacts, Zenon DEF Bases
  <2> HIDE DEF c
  <2>4. Becomes(c, f, f.life, FrameLive(c), c.bufs, f.halt) /\ f.sound /\ f.life = "inited"
    BY <2>3, frameFacts
  <2> HIDE DEF f
  <2>5. s.bufs \in 0 .. MaxLive
    BY <2>2 DEF Becomes, IsVm
  <2>6. /\ Becomes(f, vm', "inited", IF f.halt = "trap" THEN f.live ELSE s.bufs, s.bufs,
                   Hooked(f.halt))
        /\ vm'.sound
    <3>1. IsVm(f) /\ f.sound /\ f.life = "inited"
      BY <2>4, Zenon DEF Becomes
    <3> QED BY <2>1, <2>5, <3>1, restoreFacts, Zenon
  <2>7. vm'.live = progress'
    BY <1>1, <1>3, <2>2, <2>6 DEF Expected, Becomes, Trapped, Hooked
  <2>8. IsVm(vm') /\ vm'.life = "inited" /\ progress' \in 0 .. MaxLive
    BY <2>6, <2>7, Zenon DEF Becomes, IsVm
  <2> QED BY <1>1, <1>2, <1>3, <1>4, <1>5, <1>6, <1>8, <2>1, <2>6, <2>7, <2>8, WebCommandKeeps
<1> QED BY <1>7, <1>8

(* Under a debugger a fetched build is swapped in and left blank. *)
LEMMA WebSwap ==
    ASSUME FrontInv, leg \in WebLegs, wasm_session_reload
    PROVE FrontInv'
<1> USE DEF FrontInv
<1> DEFINE s == IF leg \in LuaLegs THEN on_save_state(vm) ELSE session_snapshot(vm)
           base == next_reload_base(vm)
           c == IF leg \in LuaLegs THEN NewImage(s, base) ELSE swap_cart(s, disk, base)
<1>1. /\ web.fetch # 0 /\ ~done /\ dbg.on
      /\ vm' = c /\ dbg' = reload_notify_begin(dbg, c)
      /\ pend' = [id |-> web.fetch, snap |-> s.bufs]
      /\ UNCHANGED <<leg, disk, cmd, pc, done, inbox, saved, progress>>
  BY legFacts DEF wasm_session_reload, Usable, Fetched, Still, HasLua, WebLegs
<1>2. web' = [web EXCEPT !.fetch = 0, !.rphase = "rearm",
                         !.co = IF leg \in LuaLegs THEN "reload" ELSE @,
                         !.lphase = IF leg \in LuaLegs THEN "init" ELSE @]
  BY <1>1, legFacts, Zenon DEF wasm_session_reload, HasLua, WebLegs
<1>3. Waiting
  BY <1>1 DEF Waiting
<1>4. /\ IsVm(vm) /\ vm.sound /\ vm.life = "inited" /\ vm.live = progress /\ vm.halt = "no"
      /\ dbg.phase = 0 /\ disk.code \in Codes /\ vm.live \in 0 .. MaxLive
      /\ DOMAIN web = WebFields
  BY <1>1, <1>3, WebFinds
<1>5. IsVm(s) /\ s.sound /\ s.bufs = progress /\ s.halt = "no"
  <2>1. CASE leg \in LuaLegs
    <3>1. Callback(vm, s, "inited", vm.life, vm.live, vm.live)
      BY <1>4, <2>1, saveFacts
    <3>2. s.sound
      BY <1>4, <3>1 DEF Callback
    <3> QED BY <1>4, <3>1, <3>2 DEF Callback, Becomes
  <2>2. CASE leg \notin LuaLegs
    <3>1. /\ Becomes(vm, s, "inited", vm.live, IF vm.halt = "trap" THEN vm.bufs ELSE vm.live,
                     Hooked(vm.halt))
          /\ s.sound
      BY <1>4, <2>2, snapshotFacts
    <3> QED BY <1>4, <3>1 DEF Becomes, Hooked
  <2> QED BY <2>1, <2>2
<1>6. base \in Bases
  BY nextBase
<1> HIDE DEF s, base
<1>7. IsVm(c) /\ c.sound /\ c.life = "fresh" /\ c.halt = "no"
  <2>1. CASE leg \in LuaLegs
    <3> DEFINE b == Rebuilt(s)
    <3>1. c = Imaged(b, disk.code, base)
      BY <2>1 DEF NewImage, Imaged
    <3>2. Becomes(s, b, "fresh", 0, s.bufs, s.halt) /\ b.sound
      BY <1>5, buildFacts
    <3> HIDE DEF b
    <3>3. IsVm(b) /\ b.life = "fresh" /\ b.halt = "no"
      BY <1>5, <3>2, Zenon DEF Becomes
    <3>4. LET d == Imaged(b, disk.code, base)
          IN IsVm(d) /\ d.sound /\ d.life = b.life /\ d.halt = b.halt
      BY <1>4, <1>6, <3>2, <3>3, imageFacts
    <3> HIDE DEF c
    <3> QED BY <3>1, <3>3, <3>4, Zenon
  <2>2. CASE leg \notin LuaLegs
    BY <1>4, <1>5, <1>6, <2>2, swapFacts
  <2> QED BY <2>1, <2>2
<1> HIDE DEF c
<1>8. Listed(dbg) /\ leg \in Sessions
  BY <1>1 DEF DbgInv
<1>9. Listed(dbg') /\ dbg'.on = dbg.on /\ dbg'.phase \in {1, 2} /\ Shows(dbg', Entry(c))
  BY <1>1, <1>4, <1>7, <1>8, beginFacts, Zenon
<1>10. /\ DOMAIN web' = WebFields /\ web'.rphase = "rearm" /\ web'.fetch = 0
       /\ web'.assets = web.assets
       /\ leg \in LuaLegs => web'.co = "reload" /\ web'.lphase = "init"
  BY <1>2, <1>4 DEF WebFields
<1>11. inbox = <<>> /\ web.assets = 0
  BY <1>1 DEF WebInv
<1>12. pend' # NoPend /\ pend'.snap = progress /\ progress \in 0 .. MaxLive
  BY <1>1, <1>4, <1>5, Zenon DEF NoPend
<1>13. Types'
  BY <1>1, <1>7, <1>10, <1>12 DEF Types
<1>14. LifeInv' /\ ProgInv'
  BY <1>1, <1>7, <1>12 DEF LifeInv, ProgInv
<1>15. PlayerInv'
  BY <1>1, legFacts, Zenon DEF PlayerInv
<1>16. WebInv'
  <2>1. /\ vm'.life = "fresh" /\ vm'.halt = "no"
        /\ leg' = leg /\ done' = done /\ inbox' = <<>> /\ dbg'.on /\ dbg'.phase # 0
    BY <1>1, <1>7, <1>9, <1>11
  <2>2. /\ web'.rphase = "rearm" /\ web'.fetch = 0 /\ web'.assets = 0
        /\ leg \in LuaLegs => web'.co = "reload" /\ web'.lphase = "init"
    BY <1>10, <1>11
  <2>3. ~Waiting'
    BY <2>1, <2>2 DEF Waiting
  <2> QED BY <1>12, <2>1, <2>2, <2>3, Zenon DEF WebInv
<1>17. DbgInv'
  BY <1>1, <1>8, <1>9 DEF DbgInv
<1> QED BY <1>13, <1>14, <1>15, <1>16, <1>17

(* The ticks that run no cart code. *)
LEMMA WebIdleTicks ==
    ASSUME FrontInv, leg \in WebLegs, configurationDone \/ rearm_tick \/ lua_cleanup
    PROVE FrontInv'
<1> USE DEF FrontInv
<1>0. DOMAIN web = WebFields
  BY DEF Types
<1>1. CASE configurationDone
  <2>1. /\ web' = [web EXCEPT !.start = FALSE]
        /\ UNCHANGED <<leg, disk, cmd, pc, vm, dbg, done, inbox, saved, pend, progress>>
    BY <1>1 DEF configurationDone, Still
  <2>2. /\ DOMAIN web' = WebFields /\ web'.co = web.co /\ web'.lphase = web.lphase
        /\ web'.rphase = web.rphase /\ web'.fetch = web.fetch /\ web'.assets = web.assets
    BY <1>0, <2>1 DEF WebFields
  <2>3. web'.fatal = web.fatal
    BY <1>0, <2>1 DEF WebFields
  <2>4. Types' /\ LifeInv' /\ ProgInv'
    BY <2>1, <2>2 DEF Types, LifeInv, ProgInv
  <2>5. DbgInv'
    BY <2>1, <2>3 DEF DbgInv
  <2>6. PlayerInv'
    BY <2>1, legFacts DEF PlayerInv
  <2>7. WebInv'
    BY <2>1, <2>2 DEF WebInv, Waiting
  <2> QED BY <2>4, <2>5, <2>6, <2>7
<1>2. CASE rearm_tick
  <2>1. /\ ~done /\ web.rphase = "rearm" /\ dbg' = reload_notify_pump(dbg)
        /\ web' = [web EXCEPT !.rphase = IF dbg'.phase = 0 THEN "init" ELSE @]
        /\ UNCHANGED <<leg, disk, cmd, pc, vm, done, inbox, saved, pend, progress>>
    BY <1>2 DEF rearm_tick, Ticking, Still
  <2>2. dbg.on /\ Listed(dbg)
    BY <2>1 DEF WebInv, DbgInv
  <2>3. Listed(dbg') /\ dbg'.on = dbg.on /\ \A e : Shows(dbg, e) => Shows(dbg', e)
    BY <2>1, <2>2, pumpFacts, Zenon
  <2>4. /\ DOMAIN web' = WebFields /\ web'.co = web.co /\ web'.lphase = web.lphase
        /\ web'.rphase = (IF dbg'.phase = 0 THEN "init" ELSE "rearm")
        /\ web'.fetch = web.fetch /\ web'.assets = web.assets
    BY <1>0, <2>1 DEF WebFields
  <2>5. web'.fatal = web.fatal
    BY <1>0, <2>1 DEF WebFields
  <2>6. Types' /\ LifeInv' /\ ProgInv'
    BY <2>1, <2>4 DEF Types, LifeInv, ProgInv
  <2>7. DbgInv'
    BY <2>1, <2>2, <2>3, <2>5 DEF DbgInv
  <2>8. PlayerInv'
    BY <2>1, legFacts DEF PlayerInv
  <2>9. WebInv'
    BY <2>1, <2>2, <2>3, <2>4 DEF WebInv, Waiting
  <2> QED BY <2>6, <2>7, <2>8, <2>9
<1>3. CASE lua_cleanup
  <2>1. /\ done' = TRUE
        /\ UNCHANGED <<leg, disk, cmd, pc, vm, dbg, inbox, saved, pend, web, progress>>
    BY <1>3 DEF lua_cleanup, Still
  <2>2. Types' /\ LifeInv' /\ ProgInv'
    BY <2>1 DEF Types, LifeInv, ProgInv
  <2>3. DbgInv'
    BY <2>1 DEF DbgInv
  <2>4. PlayerInv'
    BY <2>1, legFacts, Zenon DEF PlayerInv
  <2>5. WebInv'
    BY <2>1 DEF WebInv, Waiting
  <2> QED BY <2>2, <2>3, <2>4, <2>5
<1> QED BY <1>1, <1>2, <1>3

(* A tick that runs cart code: the machine holds an initialised cart       *)
(* afterwards, with the expected progress if the tick did not end it.      *)
LEMMA WebTickKeeps ==
    ASSUME FrontInv, leg \in WebLegs, ~done, web.rphase # "rearm",
           UNCHANGED <<leg, disk, cmd, pc, dbg, inbox, saved>>,
           IsVm(vm'), vm'.sound, Entry(vm') = Entry(vm), vm'.life # "fresh",
           ~done' => vm'.life = "inited" /\ vm'.halt = "no" /\ vm'.live = progress',
           progress' \in 0 .. MaxLive,
           DOMAIN web' = WebFields, web'.fatal = web.fatal, web'.fetch = web.fetch,
           web'.assets = web.assets,
           leg \in LuaLegs => web'.co = "running" /\ web'.lphase = "running",
           \/ web'.rphase = "none" /\ pend' = NoPend
           \/ done' /\ leg \notin LuaLegs /\ web'.rphase = web.rphase /\ pend' = pend
    PROVE FrontInv'
<1> USE DEF FrontInv
<1>1. pend'.snap \in 0 .. MaxLive
  BY LifeBounds DEF Types, NoPend
<1>2. Types'
  BY <1>1, Zenon DEF Types
<1>3. LifeInv' /\ ProgInv'
  BY DEF LifeInv, ProgInv, IsVm, Lives
<1>4. PlayerInv'
  BY legFacts, Zenon DEF PlayerInv
<1>5. DbgInv'
  BY Zenon DEF DbgInv
<1>6. dbg.phase = 0 /\ web.rphase \in {"none", "init"}
  BY Zenon DEF WebInv
<1>7. (web.rphase # "none" <=> pend # NoPend) /\ (web.rphase # "none" => dbg.on)
  BY Zenon DEF WebInv
<1>8. CASE web'.rphase = "none" /\ pend' = NoPend
  <2>1. (dbg.on => /\ Waiting => web.rphase = "none"
                   /\ inbox # <<>> => Tail(inbox) = <<>> /\ web.fetch = 0 /\ web.assets = 0
                   /\ web.fetch # 0 => web.assets = 0)'
    BY <1>8, Zenon DEF WebInv, Waiting
  <2> QED BY <1>2, <1>3, <1>4, <1>5, <1>6, <1>8, <2>1, Zenon DEF WebInv
<1>9. CASE done' /\ leg \notin LuaLegs /\ web'.rphase = web.rphase /\ pend' = pend
  <2>1. (dbg.on => /\ Waiting => web.rphase = "none"
                   /\ inbox # <<>> => Tail(inbox) = <<>> /\ web.fetch = 0 /\ web.assets = 0
                   /\ web.fetch # 0 => web.assets = 0)'
    BY <1>9, Zenon DEF WebInv, Waiting
  <2> QED BY <1>2, <1>3, <1>4, <1>5, <1>6, <1>7, <1>9, <2>1 DEF WebInv
<1> QED BY <1>8, <1>9, Zenon

(* The boot and reload chunks of a Lua cart, and the restore after them. *)
LEMMA WebInitTick ==
    ASSUME FrontInv, leg \in WebLegs, NEW p \in Plays, init_tick(p)
    PROVE FrontInv'
<1> USE DEF FrontInv
<1> DEFINE c == Resume(p)
           tail == web.rphase = "init"
           w == [c EXCEPT !.bufs = pend.snap]
           r == IF tail THEN on_load_state(w) ELSE c
<1>1. /\ ~done /\ leg \in LuaLegs /\ web.rphase # "rearm" /\ web.lphase = "init"
      /\ progress' = ResumeProgress
      /\ UNCHANGED <<leg, disk, cmd, pc, dbg, done, inbox, saved>>
  BY legFacts, Zenon DEF init_tick, LuaTicks, Ticking, Still, WebLegs
<1>2. /\ web.co \in {"boot", "reload"} /\ web.co # "running" /\ vm.life = "fresh"
      /\ web.co = "reload" <=> web.rphase # "none"
      /\ web.rphase \in {"none", "init"}
      /\ web.rphase # "none" <=> pend # NoPend
  BY <1>1 DEF WebInv
<1>3. /\ IsVm(vm) /\ vm.sound /\ vm.halt = "no" /\ pend.snap \in 0 .. MaxLive
      /\ progress \in 0 .. MaxLive /\ DOMAIN web = WebFields
      /\ pend # NoPend => pend.snap = progress
  BY <1>1, <1>2 DEF Types, LifeInv, ProgInv
<1>4. /\ vm' = [r EXCEPT !.halt = "no"]
      /\ web' = [web EXCEPT !.co = "running", !.lphase = "running", !.rphase = "none"]
      /\ pend' = IF tail THEN NoPend ELSE pend
  BY <1>2 DEF init_tick, Ends, reload_restore_tail
<1>5. /\ c = IF tail THEN CO_BODY_RELOAD_INIT(vm) ELSE CO_BODY_INIT(vm)
      /\ progress' = IF tail THEN progress ELSE 1
  BY <1>1, <1>2 DEF Resume, ResumeProgress
<1> HIDE DEF c
<1>6. Becomes(vm, c, "inited", IF tail THEN 0 ELSE 1, vm.bufs, vm.halt) /\ c.sound
  BY <1>2, <1>3, <1>5, bootFacts
<1>7. Becomes(c, w, c.life, c.live, pend.snap, c.halt) /\ w.sound
  BY <1>3, <1>6, bufsEdit, Zenon DEF Becomes
<1> HIDE DEF w
<1>8. Callback(w, on_load_state(w), "inited", w.life, w.bufs, w.bufs)
  BY <1>7, loadFacts, Zenon DEF Becomes
<1>9. on_load_state(w).sound
  BY <1>6, <1>7, <1>8, Zenon DEF Callback, Becomes
<1>10. IsVm(r) /\ r.sound /\ Entry(r) = Entry(vm) /\ r.life = "inited" /\ r.live = progress'
  <2>1. CASE tail
    <3>1. r = on_load_state(w)
      BY <2>1
    <3> HIDE DEF r
    <3>2. r.sound
      BY <1>9, <3>1, Zenon
    <3>3. IsVm(r) /\ r.code = vm.code /\ r.base = vm.base /\ r.life = "inited" /\ r.live = pend.snap
      BY <1>6, <1>7, <1>8, <3>1, Zenon DEF Callback, Becomes
    <3> QED BY <1>2, <1>3, <1>5, <2>1, <3>2, <3>3 DEF Entry
  <2>2. CASE ~tail
    BY <1>5, <1>6, <2>2 DEF Becomes, Entry
  <2> QED BY <2>1, <2>2
<1> HIDE DEF r
<1>11. Becomes(r, vm', r.life, r.live, r.bufs, "no") /\ vm'.sound
  BY <1>4, <1>10, haltEdit, Zenon DEF Halts
<1>12. IsVm(vm') /\ Entry(vm') = Entry(vm) /\ vm'.life = "inited" /\ vm'.halt = "no"
       /\ vm'.live = progress'
  BY <1>10, <1>11 DEF Becomes, Entry
<1>13. progress' \in 0 .. MaxLive
  BY <1>3, <1>5, LifeBounds
<1>14. /\ DOMAIN web' = WebFields /\ web'.fetch = web.fetch /\ web'.assets = web.assets
       /\ web'.co = "running" /\ web'.lphase = "running" /\ web'.rphase = "none"
  BY <1>3, <1>4 DEF WebFields
<1>15. web'.fatal = web.fatal
  BY <1>3, <1>4 DEF WebFields
<1>16. pend' = NoPend
  BY <1>2, <1>4, Zenon
<1> QED BY <1>1, <1>11, <1>12, <1>13, <1>14, <1>15, <1>16, WebTickKeeps, Zenon

(* A frame of a Lua cart in the browser, and the stress cycle after it. *)
LEMMA WebLuaFrame ==
    ASSUME FrontInv, leg \in WebLegs, NEW p \in Plays, NEW s \in BOOLEAN, wasm_lua_loop(p, s)
    PROVE FrontInv'
<1> USE DEF FrontInv
<1> DEFINE c == CO_BODY_RUNNING(vm, p)
<1>1. /\ ~done /\ leg \in LuaLegs /\ web.rphase # "rearm" /\ web.lphase = "running"
      /\ UNCHANGED <<leg, disk, cmd, pc, dbg, inbox, saved, pend, web>>
  BY legFacts DEF wasm_lua_loop, LuaTicks, Ticking, Still, WebLegs
<1>2. web.co = "running" /\ vm.life # "fresh" /\ web.rphase = "none" /\ pend = NoPend
  BY <1>1, Zenon DEF WebInv
<1>3. /\ IsVm(vm) /\ vm.sound /\ vm.halt = "no" /\ vm.life = "inited" /\ vm.live = progress
      /\ progress \in 0 .. MaxLive /\ DOMAIN web = WebFields
  BY <1>1, <1>2 DEF Types, LifeInv, ProgInv, IsVm, Lives
<1>4. Resume(p) = c /\ ResumeProgress = FrameProgress(vm)
  BY <1>2 DEF Resume, ResumeProgress
<1>5. /\ vm' = IF s /\ c.halt # "exit" THEN wasm_lua_reset_cycle(c) ELSE c
      /\ done' = (c.halt = "exit")
      /\ progress' = FrameProgress(vm)
  BY <1>2, <1>4 DEF wasm_lua_loop, Ends
<1> HIDE DEF c
<1>6. /\ IF vm.quit THEN Becomes(vm, c, "ended", vm.live, vm.bufs, "exit")
         ELSE Becomes(vm, c, "inited", Advanced(vm.live), vm.bufs, vm.halt)
      /\ c.sound
  BY <1>3, runningFacts DEF c
<1>7. /\ IsVm(c) /\ c.code = vm.code /\ c.base = vm.base /\ c.life # "fresh"
      /\ c.halt # "exit" => c.life = "inited" /\ c.halt = "no" /\ c.live = FrameLive(vm) /\ ~vm.quit
  BY <1>3, <1>6 DEF Becomes, FrameLive
<1>8. /\ IsVm(vm') /\ vm'.sound /\ Entry(vm') = Entry(vm) /\ vm'.life # "fresh"
      /\ ~done' => vm'.life = "inited" /\ vm'.halt = "no" /\ vm'.live = FrameLive(vm) /\ ~vm.quit
  <2>1. CASE s /\ c.halt # "exit"
    <3>1. vm' = wasm_lua_reset_cycle(c)
      BY <1>5, <2>1
    <3>2. Becomes(c, vm', "inited", c.live, vm'.bufs, c.halt) /\ vm'.sound
      BY <1>6, <1>7, <2>1, <3>1, luaCycleFacts
    <3> QED BY <1>5, <1>7, <2>1, <3>2 DEF Becomes, Entry
  <2>2. CASE ~(s /\ c.halt # "exit")
    BY <1>5, <1>6, <1>7, <2>2, Zenon DEF Entry
  <2> QED BY <2>1, <2>2
<1>9. progress' \in 0 .. MaxLive /\ (~done' => vm'.live = progress')
  BY <1>3, <1>5, <1>8, frameProgress
<1>10. web'.fatal = web.fatal
  BY <1>1
<1> QED BY <1>1, <1>2, <1>3, <1>8, <1>9, <1>10, WebTickKeeps

(* A frame of a native cart in the browser, the restore that ends a debug  *)
(* reload, and the stress cycle.                                           *)
LEMMA WebFrame ==
    ASSUME FrontInv, leg \in WebLegs, NEW p \in Plays, NEW s \in BOOLEAN, wasm_loop(p, s)
    PROVE FrontInv'
<1> USE DEF FrontInv
<1> DEFINE c == run_frame_impl(vm, p)
           tail == web.rphase = "init" /\ c.halt = "no"
           r == IF tail THEN session_restore(c, pend.snap) ELSE c
<1>1. /\ ~done /\ leg \notin LuaLegs /\ web.rphase # "rearm"
      /\ UNCHANGED <<leg, disk, cmd, pc, dbg, inbox, saved>>
      /\ vm' = IF s /\ c.halt = "no" THEN reset_every_frame_cycle(r) ELSE r
      /\ done' = ~(c.halt = "no")
      /\ web' = IF tail THEN [web EXCEPT !.rphase = "none"] ELSE web
      /\ pend' = IF tail THEN NoPend ELSE pend
      /\ progress' = IF tail THEN progress ELSE FrameProgress(vm)
  BY legFacts DEF wasm_loop, Ticking, Still, FrameDone, LuaLegs
<1>2. /\ IsVm(vm) /\ vm.sound /\ vm.life # "ended" /\ (vm.life = "fresh" => vm.halt = "no")
      /\ progress \in 0 .. MaxLive /\ pend.snap \in 0 .. MaxLive /\ DOMAIN web = WebFields
      /\ vm.life = "inited" /\ pend = NoPend => vm.live = progress
      /\ pend # NoPend => pend.snap = progress
      /\ vm.life # "fresh" => vm.life = "inited"
  BY <1>1 DEF Types, LifeInv, ProgInv, IsVm, Lives
<1>3. /\ web.rphase \in {"none", "init"} /\ (web.rphase # "none" <=> pend # NoPend)
  BY <1>1, Zenon DEF WebInv
<1> HIDE DEF c
<1>4. /\ Becomes(vm, c, c.life, FrameLive(vm), vm.bufs, c.halt) /\ c.sound
      /\ c.life = "inited" \/ (c.life = "ended" /\ c.halt = "exit")
      /\ c.halt = "no" => vm.halt = "no" /\ c.life = "inited" /\ (vm.life = "fresh" \/ ~vm.quit)
  BY <1>2, frameFacts DEF c
<1>5. /\ IsVm(r) /\ r.sound /\ r.code = vm.code /\ r.base = vm.base /\ r.life # "fresh"
      /\ c.halt = "no" => r.life = "inited" /\ r.halt = "no"
      /\ c.halt = "no" => r.live = IF tail THEN pend.snap ELSE FrameLive(vm)
  <2>1. CASE tail
    <3>1. r = session_restore(c, pend.snap)
      BY <2>1, Zenon
    <3> HIDE DEF r
    <3>2. Becomes(c, r, "inited", pend.snap, pend.snap, Hooked("no")) /\ r.sound
      BY <1>2, <1>4, <2>1, <3>1, restoreFacts DEF Becomes
    <3> QED BY <1>4, <2>1, <3>2 DEF Becomes, Hooked
  <2>2. CASE ~tail
    <3>1. r = c
      BY <2>2, Zenon
    <3> HIDE DEF r
    <3> QED BY <1>4, <2>2, <3>1 DEF Becomes
  <2> QED BY <2>1, <2>2, Zenon
<1> HIDE DEF r
<1>6. /\ IsVm(vm') /\ vm'.sound /\ Entry(vm') = Entry(vm) /\ vm'.life # "fresh"
      /\ ~done' => /\ vm'.life = "inited" /\ vm'.halt = "no"
                   /\ vm'.live = IF tail THEN pend.snap ELSE FrameLive(vm)
  <2>1. CASE s /\ c.halt = "no"
    <3>1. vm' = reset_every_frame_cycle(r)
      BY <1>1, <2>1, Zenon
    <3>2. Becomes(r, vm', "inited", r.live, vm'.bufs, r.halt) /\ vm'.sound
      BY <1>5, <2>1, <3>1, resetCycleFacts
    <3> QED BY <1>5, <2>1, <3>2 DEF Becomes, Entry
  <2>2. CASE ~(s /\ c.halt = "no")
    BY <1>1, <1>5, <2>2, Zenon DEF Entry
  <2> QED BY <2>1, <2>2, Zenon
<1>7. progress' \in 0 .. MaxLive /\ (~done' => vm'.live = progress')
  <2>1. CASE tail
    BY <1>1, <1>2, <1>3, <1>6, <2>1
  <2>2. CASE ~tail
    <3>1. ~done' => c.halt = "no" /\ pend = NoPend
      BY <1>1, <1>3, <2>2, Zenon
    <3> QED BY <1>1, <1>2, <1>4, <1>6, <2>2, <3>1, frameProgress
  <2> QED BY <2>1, <2>2
<1>8. /\ DOMAIN web' = WebFields /\ web'.fetch = web.fetch /\ web'.assets = web.assets
      /\ web'.rphase = IF tail THEN "none" ELSE web.rphase
  BY <1>1, <1>2 DEF WebFields
<1>9. web'.fatal = web.fatal
  BY <1>1, <1>2 DEF WebFields
<1>10. \/ web'.rphase = "none" /\ pend' = NoPend
       \/ done' /\ leg \notin LuaLegs /\ web'.rphase = web.rphase /\ pend' = pend
  BY <1>1, <1>3, <1>8, Zenon
<1> QED BY <1>1, <1>6, <1>7, <1>8, <1>9, <1>10, WebTickKeeps

(* Every step of the browser frontend keeps the invariant. *)
LEMMA WebKeeps ==
    ASSUME FrontInv, WebStep
    PROVE FrontInv'
<1>1. leg \in WebLegs /\ PlaysOf(leg) \subseteq Plays
  BY playsFacts DEF WebStep
<1>2. CASE configurationDone \/ rearm_tick \/ lua_cleanup
  BY <1>1, <1>2, WebIdleTicks
<1>3. CASE \E p \in PlaysOf(leg) : init_tick(p)
  BY <1>1, <1>3, WebInitTick
<1>4. CASE \E p \in PlaysOf(leg), s \in BOOLEAN : wasm_lua_loop(p, s)
  BY <1>1, <1>4, WebLuaFrame
<1>5. CASE \E p \in PlaysOf(leg), s \in BOOLEAN : wasm_loop(p, s)
  BY <1>1, <1>5, WebFrame
<1>6. CASE \/ refused_command \/ reset_command \/ load_command \/ fetch_command
           \/ \E io \in BOOLEAN : save_command(io)
  BY <1>1, <1>6, WebCommands
<1>7. CASE \/ \E ok \in BOOLEAN : assets_fetched(ok)
           \/ \E ok \in BOOLEAN : reload_refused(ok)
           \/ reload_fatal \/ reload_after_end
  BY <1>1, <1>7, WebFetches
<1>8. CASE \E p \in PlaysOf(leg) : reload_fetched(p)
  BY <1>1, <1>8, WebReload
<1>9. CASE wasm_session_reload
  BY <1>1, <1>9, WebSwap
<1> QED BY <1>2, <1>3, <1>4, <1>5, <1>6, <1>7, <1>8, <1>9 DEF WebStep

(* Every step keeps the invariant. *)
LEMMA FrontNext ==
    ASSUME FrontInv, ~Overlap, ~Early, [Next]_vars
    PROVE FrontInv'
BY ToolKeeps, PlayerKeeps, WebKeeps DEF Next

(* The invariant holds for ever when the tool sends one command at a time  *)
(* to a debugged browser cart, and none before the cart has booted.        *)
LEMMA FrontAlways ==
    ASSUME ~Overlap, ~Early
    PROVE Spec => []FrontInv
<1>1. Init => FrontInv
  BY FrontInit
<1>2. FrontInv /\ [Next]_vars => FrontInv'
  BY FrontNext
<1> QED BY <1>1, <1>2, PTL DEF Spec

(* No callback of the cart runs out of its order on any of the six legs,   *)
(* for any number of builds, commands, frames and library slots: the call  *)
(* sites of cart_run.c, cart_run_hostlua.c and wasm_main.c keep init(),    *)
(* the hooks, update() and cleanup() in sequence through every reload.     *)
THEOREM CallbacksStayInOrder ==
    ASSUME ~Overlap, ~Early
    PROVE Spec => []LifecycleOrder
<1>1. FrontInv => LifecycleOrder
  BY FrontInvImplies
<1> QED BY <1>1, FrontAlways, PTL

(* The snapshot, swap and restore of every reload path bring a cart back   *)
(* to the progress its frames had made.                                    *)
THEOREM ReloadsKeepProgress ==
    ASSUME ~Overlap, ~Early
    PROVE Spec => []ProgressKept
<1>1. FrontInv => ProgressKept
  BY FrontInvImplies
<1> QED BY <1>1, FrontAlways, PTL

(* The library list a native debugger reads shows the image in the         *)
(* machine, and no older one, whenever no swap is under way.               *)
THEOREM LibrariesFollowTheCart ==
    ASSUME ~Overlap, ~Early
    PROVE Spec => []LibsMatchCart
<1>1. FrontInv => LibsMatchCart
  BY FrontInvImplies
<1> QED BY <1>1, FrontAlways, PTL

(* A reloaded build's init() runs after the debugger's client has rebound  *)
(* its breakpoints in the new image, or has let the wait time out.         *)
THEOREM BreakpointsBeforeInit ==
    ASSUME ~Overlap, ~Early
    PROVE Spec => []ArmedBeforeInit
<1>1. FrontInv => ArmedBeforeInit
  BY FrontInvImplies
<1> QED BY <1>1, FrontAlways, PTL
=============================================================================
