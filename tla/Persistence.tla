------------------------------ MODULE Persistence ------------------------------
(***************************************************************************)
(* A cart that keeps its world in state buffers, saves and loads it on     *)
(* every leg of the runtime, is rebuilt and reloaded while it runs, and    *)
(* may lose power in the middle of a save.                                 *)
(*                                                                         *)
(* The cart is the usual one: buffer 1 is the player, whose fields are a   *)
(* packed ref to its target and the target's identity; buffer 2 holds the  *)
(* entities, each with its identity.  The live copy of the target is in    *)
(* the cart's memory ("held"): on_save_state stores it, on_load_state      *)
(* takes it back.                                                          *)
(***************************************************************************)
EXTENDS StateBuffers

CONSTANTS
    SaveSlots,      \* save slots the cart uses
    MaxBorn,        \* bound on the entities ever spawned
    MaxImages,      \* bound on the cart images opened
    FlushFails      \* TRUE: the disk may fill up when a save is flushed

VARIABLES
    leg,            \* "emulated", "hostlua", "native", or "off"
    ctx,            \* the state context
    names,          \* cart image the context's names point into
    image,          \* number of the cart image opened last
    held,           \* the cart's live target [ref, id]
    files,          \* save slot -> [file, mixed]
    born,           \* entities spawned so far: their identities
    mixed,          \* buffers of two different moments were put together
    last            \* the operation just completed, and its result

vars == <<leg, ctx, names, image, held, files, born, mixed, last>>

Legs == {"emulated", "hostlua", "native"}
Player == 1
Mobs == 2
NoTarget == [ref |-> NoRef, id |-> 0]

(* The cart's layouts: within the limits of both runtimes, under distinct  *)
(* names, with fields wide enough for a ref and for an identity.           *)
Decl == [name : STRING, types : Seq(STRING), count : 1 .. MaxSlots]
ASSUME LayoutsFit ==
    /\ {MaxFields, MaxBuffers, NativeMaxBuf, MaxBorn} \subseteq Nat
    /\ \A schema \in DOMAIN Layouts :
          LET decls == Layouts[schema] IN
          /\ decls \in Seq(Decl) /\ Len(decls) >= 2
          /\ Len(decls) <= MaxBuffers /\ Len(decls) <= NativeMaxBuf
          /\ \A b \in DOMAIN decls : Len(decls[b].types) \in 1 .. MaxFields
          /\ \A a, b \in DOMAIN decls : decls[a].name = decls[b].name => a = b
          /\ Len(decls[Player].types) >= 2
          /\ field_sizeof(decls[Player].types[1]) \in {4, 8}
          /\ MaxBorn < Span(field_sizeof(decls[Player].types[2]))
          /\ MaxBorn < Span(field_sizeof(decls[Mobs].types[1]))
Off == [schema |-> 0, bufs |-> <<>>]
Did(op, rc) == [op |-> op, rc |-> rc]

(* The buffer operations of a leg.  A cart uses the accessor of a field's  *)
(* declared type.                                                          *)
buf_op_get(c, b, s, f) == IF c.bufs[b].types[f] = "f64" THEN state_get64(c, b, s, f)
                          ELSE state_get(c, b, s, f)
buf_op_set(c, b, s, f, v) == IF c.bufs[b].types[f] = "f64" THEN state_set64(c, b, s, f, v)
                             ELSE state_set(c, b, s, f, v)
l_buf_get(c, b, s, f) == IF c.bufs[b].types[f] = "f64" THEN state_get64(c, b, s, f)
                         ELSE state_get(c, b, s, f)
l_buf_set(c, b, s, f, v) == IF c.bufs[b].types[f] = "f64" THEN state_set64(c, b, s, f, v)
                            ELSE state_set(c, b, s, f, v)
Get(l, c, b, s, f) == CASE l = "native" -> native_get(c, b, s, f)
                        [] l = "hostlua" -> l_buf_get(c, b, s, f)
                        [] OTHER -> buf_op_get(c, b, s, f)
Set(l, c, b, s, f, v) == CASE l = "native" -> native_set(c, b, s, f, v)
                           [] l = "hostlua" -> l_buf_set(c, b, s, f, v)
                           [] OTHER -> buf_op_set(c, b, s, f, v)
Alloc(l, c, b) == IF l = "native" THEN native_alloc_slot(c, b) ELSE state_alloc_slot(c, b)
Free(l, c, b, s) == IF l = "native" THEN native_free_slot(c, b, s) ELSE state_free_slot(c, b, s)
Ref(l, c, b, s) == IF l = "native" THEN native_ref(c, b, s) ELSE state_ref(c, b, s)
RefValid(l, c, b, r) == IF l = "native" THEN native_ref_valid(c, b, r)
                        ELSE state_ref_valid(c, b, r)

(* The cart.                                                               *)
cart_init(l, c) == Alloc(l, c, Player).ctx
on_save_state(c) == Set(leg, Set(leg, c, Player, 0, 1, held.ref), Player, 0, 2, held.id)
on_load_state(c) == [ref |-> Get(leg, c, Player, 0, 1), id |-> Get(leg, c, Player, 0, 2)]
SpawnIn(c, id) == LET a == Alloc(leg, c, Mobs) IN Set(leg, a.ctx, Mobs, a.slot, 1, id)

Init ==
    /\ leg = "off" /\ ctx = Off /\ held = NoTarget /\ names = 0 /\ image = 0
    /\ files = [n \in SaveSlots |-> [file |-> NoFile, mixed |-> FALSE]]
    /\ born = 0 /\ mixed = FALSE /\ last = Did("off", "ok")

(* A process starts on some leg with some build of the cart.               *)
Boot(l, schema) ==
    /\ leg = "off" /\ image < MaxImages
    /\ leg' = l
    /\ ctx' = cart_init(l, IF l = "native" THEN native_init(schema) ELSE state_ctx_init(schema))
    /\ image' = image + 1 /\ names' = image'
    /\ held' = NoTarget /\ mixed' = FALSE /\ last' = Did("run", "ok")
    /\ UNCHANGED <<files, born>>

(* update(): spawn an entity, kill one (by any slot number), pick a target. *)
Spawn ==
    /\ leg # "off" /\ born < MaxBorn /\ Alloc(leg, ctx, Mobs).slot # -1
    /\ born' = born + 1
    /\ ctx' = SpawnIn(ctx, born')
    /\ last' = Did("run", "ok")
    /\ UNCHANGED <<leg, names, image, held, files, mixed>>
Kill(s) ==
    /\ leg # "off"
    /\ ctx' = Free(leg, ctx, Mobs, s).ctx
    /\ last' = Did("run", "ok")
    /\ UNCHANGED <<leg, names, image, held, files, born, mixed>>
Target(s) ==
    /\ leg # "off" /\ Ref(leg, ctx, Mobs, s) # NoRef
    /\ held' = [ref |-> Ref(leg, ctx, Mobs, s), id |-> Get(leg, ctx, Mobs, s, 1)]
    /\ last' = Did("run", "ok")
    /\ UNCHANGED <<leg, names, image, ctx, files, born, mixed>>

-----------------------------------------------------------------------------
(* Saving: on_save_state, then the file is truncated and written from the  *)
(* start.  `wrote` is what reaches the disk.  The host writes through a    *)
(* stdio buffer and looks at the results of the writes, not at those of    *)
(* fflush, fsync and fclose; the native runtime writes straight through.   *)
(* (Bound: a slot is written once.  Opening truncates, so nothing of an    *)
(* older file would be left in it.)                                        *)
Unwritten(n) == files[n].file = NoFile
SaveAlwaysOk(full, wrote, atFlush) == "ok"
host_save_result(full, wrote, atFlush) == IF wrote = full \/ atFlush THEN "ok" ELSE "io"
native_save_result(full, wrote) == IF wrote = full THEN "ok" ELSE "io"
SaveTo(n, mayHideFailure) ==
    /\ ctx' = on_save_state(ctx)
    /\ LET full == blys_write(ctx') IN
       \/ /\ last' = Did("save", "io")       \* no directory, or the file cannot be opened
          /\ UNCHANGED files
       \/ \E wrote \in Prefixes(full), atFlush \in BOOLEAN :
             /\ Unwritten(n) /\ (atFlush => FlushFails /\ mayHideFailure)
             /\ files' = [files EXCEPT ![n] = [file |-> wrote, mixed |-> mixed]]
             /\ last' = Did("save", IF mayHideFailure THEN host_save_result(full, wrote, atFlush)
                                    ELSE native_save_result(full, wrote))
    /\ UNCHANGED <<leg, names, image, held, born, mixed>>
guest_save_write(n) == leg = "emulated" /\ SaveTo(n, TRUE)
l_save_write(n) == leg = "hostlua" /\ SaveTo(n, TRUE)
native_save_write(n) == leg = "native" /\ SaveTo(n, FALSE)

(* The process dies, between operations or while it writes a save.         *)
Crash ==
    /\ leg # "off"
    /\ leg' = "off" /\ ctx' = Off /\ held' = NoTarget /\ mixed' = FALSE
    /\ names' = 0 /\ UNCHANGED image
    /\ last' = Did("off", "ok")
    /\ \/ UNCHANGED files
       \/ \E n \in {m \in SaveSlots : Unwritten(m)} :
             \E wrote \in Prefixes(blys_write(on_save_state(ctx))) :
             files' = [files EXCEPT ![n] = [file |-> wrote, mixed |-> mixed]]
    /\ UNCHANGED born

(* Loading: the sections are stored as they are read; on_load_state is     *)
(* called when all went well.                                              *)
Whole(c, f) == f.tear = "none" /\ \A b \in DOMAIN c.bufs :
                   \E k \in DOMAIN f.sects : f.sects[k].name = NameOf(c, b)
save_read(c, f) == IF f.header = "none" THEN [rc |-> "io", ctx |-> c]
                   ELSE blys_read(c, f, "host")
native_read(c, f) == IF f.header = "none" THEN [rc |-> "not_found", ctx |-> c]
                     ELSE blys_read(c, f, "native")
LoadFrom(n, r) ==
    /\ ctx' = r.ctx
    /\ held' = IF r.rc = "ok" THEN on_load_state(r.ctx) ELSE held
    /\ mixed' = IF r.rc = "ok" /\ Whole(ctx, files[n].file) THEN files[n].mixed
                ELSE mixed \/ r.ctx # ctx \/ r.rc = "ok"
    /\ last' = Did("load", r.rc)
    /\ UNCHANGED <<leg, names, image, files, born>>
guest_save_read(n) == leg = "emulated" /\ LoadFrom(n, save_read(ctx, files[n].file))
l_save_read(n) == leg = "hostlua" /\ LoadFrom(n, save_read(ctx, files[n].file))
native_save_read(n) == leg = "native" /\ LoadFrom(n, native_read(ctx, files[n].file))

-----------------------------------------------------------------------------
(* The development tools: the state goes through a snapshot while the cart *)
(* is started again.                                                       *)
session_restore(c, snap) ==
    /\ ctx' = state_ctx_restore_snapshot(c, snap)
    /\ held' = on_load_state(ctx')
    /\ mixed' = (mixed \/ ctx'.bufs # snap)

(* --reset-every-frame: on_save_state, snapshot, zero everything, init,    *)
(* restore, on_load_state.                                                 *)
reset_every_frame_cycle ==
    /\ leg \in {"emulated", "hostlua"}
    /\ LET saved == on_save_state(ctx) IN
       session_restore(cart_init(leg, state_ctx_zero_data(saved)), state_ctx_snapshot(saved))
    /\ last' = Did("reset", "ok")
    /\ UNCHANGED <<leg, names, image, files, born>>

(* Hot reload.  A session gets a new context from the new image, whose     *)
(* first frame has run before the snapshot is put back (on_new_state and   *)
(* update are free to spawn).  The Lua runners keep their context, zeroed, *)
(* and run init() only.                                                    *)
session_reload(schema) ==
    /\ leg = "emulated" /\ image < MaxImages
    /\ LET saved == on_save_state(ctx)
           booted == cart_init(leg, state_ctx_init(schema))
       IN  \/ /\ UNCHANGED born
              /\ session_restore(booted, state_ctx_snapshot(saved))
           \/ /\ born < MaxBorn /\ born' = born + 1
              /\ session_restore(SpawnIn(booted, born'), state_ctx_snapshot(saved))
    /\ image' = image + 1 /\ names' = image'
    /\ last' = Did("reload", "ok")
    /\ UNCHANGED <<leg, files>>
hostlua_reload ==
    /\ leg = "hostlua" /\ image < MaxImages
    /\ LET saved == on_save_state(ctx) IN
       session_restore(cart_init(leg, state_ctx_zero_data(saved)), state_ctx_snapshot(saved))
    /\ image' = image + 1
    /\ last' = Did("reload", "ok")
    /\ UNCHANGED <<leg, names, files, born>>

Next ==
    \/ \E l \in Legs, schema \in DOMAIN Layouts : Boot(l, schema)
    \/ Spawn
    \/ \E s \in -1 .. MaxSlots : Kill(s)
    \/ \E s \in Slots : Target(s)
    \/ \E n \in SaveSlots : guest_save_write(n) \/ l_save_write(n) \/ native_save_write(n)
    \/ \E n \in SaveSlots : guest_save_read(n) \/ l_save_read(n) \/ native_save_read(n)
    \/ Crash
    \/ reset_every_frame_cycle
    \/ \E schema \in DOMAIN Layouts : session_reload(schema)
    \/ hostlua_reload

Spec == Init /\ [][Next]_vars

-----------------------------------------------------------------------------
BufferOK(bc) ==
    /\ bc.bits \subseteq {s \in Slots : s < bc.count}
    /\ \A s \in Slots : bc.gens[s] \in 1 .. GenMax
    /\ \A s \in DOMAIN bc.data : \A f \in DOMAIN bc.types :
          bc.data[s][f] \in 0 .. Span(field_sizeof(bc.types[f])) - 1
(* Generations never leave 1..65535 (so a packed ref is never NONE), a      *)
(* field holds no more than its width, and only declared slots are used.    *)
TypeOK ==
    /\ leg \in Legs \cup {"off"}
    /\ \A b \in DOMAIN ctx.bufs : BufferOK(ctx.bufs[b])
    /\ held.ref \in 0 .. Pack(GenMax, MaxSlots - 1) /\ born \in 0 .. MaxBorn
    /\ \A n \in SaveSlots : files[n].file.header \in {"none", "short", "full"}

(* A ref that blyt_buffer_ref_valid accepts still names the entity it was   *)
(* taken for, through kills and respawns, saves, loads on any leg, resets   *)
(* and reloads, as long as the slot was not reused GenMax times and no      *)
(* partial load or restore put two moments together.                       *)
RefsSound ==
    (leg # "off" /\ ~mixed /\ RefValid(leg, ctx, Mobs, held.ref)) =>
        LET id == Get(leg, ctx, Mobs, ref_slot(held.ref), 1) IN
        id = held.id \/ id - held.id >= GenMax

(* alloc_slot hands out a zeroed record although it clears nothing: free,   *)
(* load, restore and reset must all leave unused slots zeroed.              *)
FreshSlotsZero ==
    ~mixed => \A b \in DOMAIN ctx.bufs : \A s \in DOMAIN ctx.bufs[b].data \ ctx.bufs[b].bits :
                 \A f \in DOMAIN ctx.bufs[b].types : ctx.bufs[b].data[s][f] = 0

(* The native runtime answers every buffer call as the host does on the     *)
(* same storage, for slots in and out of range and for fresh and stale      *)
(* refs.                                                                    *)
LegsAgree ==
    \A b \in DOMAIN ctx.bufs :
       /\ native_alloc_slot(ctx, b) = state_alloc_slot(ctx, b)
       /\ \A r \in 0 .. Pack(GenMax, MaxSlots) :
             native_ref_valid(ctx, b, r) = state_ref_valid(ctx, b, r)
       /\ \A s \in -1 .. MaxSlots :
             /\ native_free_slot(ctx, b, s) = state_free_slot(ctx, b, s)
             /\ native_ref(ctx, b, s) = state_ref(ctx, b, s)
             /\ \A f \in DOMAIN ctx.bufs[b].types :
                   /\ Get("native", ctx, b, s, f) = Get("emulated", ctx, b, s, f)
                   /\ Set("native", ctx, b, s, f, SlotSpan) = Set("emulated", ctx, b, s, f, SlotSpan)

(* A save that reported success left a file that holds all of the state.    *)
SaveHonest ==
    [][last'.op = "save" /\ last'.rc = "ok" =>
          \E n \in SaveSlots : files'[n].file = blys_write(ctx')]_vars

(* A load that succeeds on a whole file, written on any leg by any process, *)
(* leaves a state that saves to the same bytes; a refused one (another      *)
(* schema, no file, no header) changes nothing.                             *)
LoadFaithful ==
    [][last'.op = "load" =>
       \A n \in SaveSlots : (guest_save_read(n) \/ l_save_read(n) \/ native_save_read(n)) =>
          /\ last'.rc = "ok" /\ Whole(ctx, files[n].file) =>
                blys_write(ctx') = files[n].file
          /\ last'.rc \in {"schema", "not_found"} => UNCHANGED <<ctx, held>>]_vars

(* Violated: the context's names stay readable, because they point into the *)
(* cart that is open.  The Lua runners keep the context of the first image. *)
NamesMapped == leg # "off" => names = image

(* Violated: both sides give the same answer for the same file.             *)
LegsReadAlike ==
    \A n \in SaveSlots : (leg # "off" /\ ~Unwritten(n)) =>
        native_read(ctx, files[n].file) = save_read(ctx, files[n].file)
===============================================================================
