----------------------------- MODULE StateBuffers -----------------------------
(***************************************************************************)
(* A cart's state buffers: typed records in numbered slots, with an        *)
(* allocation bit and a generation per slot, and the BLYS file they are    *)
(* saved in.  The host (state_buffer.c, save.c) and the native runtime     *)
(* (blytcommon.c) hold the same structure and are written apart.           *)
(*                                                                         *)
(* A context is [schema, bufs]; a buffer is [types, count, data, bits,     *)
(* gens].  ByteSpan scales the machine: a byte holds ByteSpan values, a    *)
(* generation and a slot two bytes each (65536 in the code).               *)
(***************************************************************************)
EXTENDS Integers, Sequences, FiniteSets

CONSTANTS
    Layouts,        \* schema hash -> sequence of [name, types, count]
    MaxSlots,       \* BLYT_MAX_SLOTS = BLYS_MAX_SLOTS = NATIVE_MAX_SLOTS
    MaxFields,      \* BLYT_MAX_FIELDS
    MaxBuffers,     \* BLYT_MAX_BUFFERS
    NativeMaxBuf,   \* NATIVE_MAX_BUF
    ByteSpan        \* values of one byte

ASSUME SlotsFitRef == /\ ByteSpan \in Nat \ {0, 1}
                      /\ MaxSlots \in 1 .. ByteSpan * ByteSpan

SlotSpan == ByteSpan * ByteSpan
GenMax == SlotSpan - 1
Slots == 0 .. MaxSlots - 1
NoRef == 0

field_sizeof(type) == CASE type \in {"i8", "u8", "bool"} -> 1
                        [] type \in {"i16", "u16"} -> 2
                        [] type = "f64" -> 8
                        [] OTHER -> 4
native_field_width(type) == CASE type \in {"i8", "u8", "bool"} -> 1
                              [] type \in {"i16", "u16"} -> 2
                              [] type = "f64" -> 8
                              [] OTHER -> 4
(* A stored value keeps the low bytes its field has room for.              *)
Span(size) == CASE size = 1 -> ByteSpan
                [] size = 2 -> SlotSpan
                [] size = 4 -> SlotSpan * SlotSpan
                [] OTHER -> SlotSpan * SlotSpan * SlotSpan * SlotSpan
Fit(type, v) == v % Span(field_sizeof(type))

blyt_gen_next(g) == IF g = GenMax THEN 1 ELSE g + 1

(* Fresh storage: no slot in use, generations at 1, data zeroed.           *)
Blank(decl) == [types |-> decl.types, count |-> decl.count,
                data |-> [s \in 0 .. decl.count - 1 |-> [f \in DOMAIN decl.types |-> 0]],
                bits |-> {}, gens |-> [s \in Slots |-> 1]]

(* Declarations past the limits are dropped, or refuse the whole section.  *)
state_ctx_init(schema) ==
    LET decls == Layouts[schema] IN
    IF \E b \in DOMAIN decls : Len(decls[b].types) \notin 1 .. MaxFields
    THEN [schema |-> 0, bufs |-> <<>>]
    ELSE [schema |-> schema,
          bufs |-> [b \in 1 .. (IF Len(decls) < MaxBuffers THEN Len(decls) ELSE MaxBuffers) |->
                       Blank(decls[b])]]
native_init(schema) ==
    LET decls == Layouts[schema] IN
    [schema |-> schema,
     bufs |-> [b \in 1 .. (IF Len(decls) < NativeMaxBuf THEN Len(decls) ELSE NativeMaxBuf) |->
                  Blank([decls[b] EXCEPT !.count = IF @ < MaxSlots THEN @ ELSE MaxSlots])]]
NameOf(ctx, b) == Layouts[ctx.schema][b].name

-----------------------------------------------------------------------------
(* state_buffer.c: every operation checks its handle, slot and field.       *)
find_buffer(ctx, b) == b \in DOMAIN ctx.bufs
slot_is_allocated(bc, s) == s \in 0 .. bc.count - 1 /\ s < MaxSlots /\ s \in bc.bits
CellOk(ctx, b, s, f) ==
    find_buffer(ctx, b) /\ slot_is_allocated(ctx.bufs[b], s) /\ f \in DOMAIN ctx.bufs[b].types

state_get(ctx, b, s, f) ==
    IF CellOk(ctx, b, s, f) /\ ctx.bufs[b].types[f] # "f64" THEN ctx.bufs[b].data[s][f] ELSE 0
state_set(ctx, b, s, f, v) ==
    IF CellOk(ctx, b, s, f) /\ ctx.bufs[b].types[f] # "f64"
    THEN [ctx EXCEPT !.bufs[b].data[s][f] = Fit(ctx.bufs[b].types[f], v)] ELSE ctx
state_get64(ctx, b, s, f) ==
    IF CellOk(ctx, b, s, f) /\ ctx.bufs[b].types[f] = "f64" THEN ctx.bufs[b].data[s][f] ELSE 0
state_set64(ctx, b, s, f, v) ==
    IF CellOk(ctx, b, s, f) /\ ctx.bufs[b].types[f] = "f64"
    THEN [ctx EXCEPT !.bufs[b].data[s][f] = Fit("f64", v)] ELSE ctx

Least(S) == CHOOSE s \in S : \A t \in S : s <= t
FreeSlots(bc) == {s \in Slots : s < bc.count /\ s \notin bc.bits}
(* The first free slot, -1 when there is none.                             *)
state_alloc_slot(ctx, b) ==
    IF find_buffer(ctx, b) /\ FreeSlots(ctx.bufs[b]) # {}
    THEN LET s == Least(FreeSlots(ctx.bufs[b])) IN
         [slot |-> s, ctx |-> [ctx EXCEPT !.bufs[b].bits = @ \cup {s}]]
    ELSE [slot |-> -1, ctx |-> ctx]

Freed(bc, s) == [bc EXCEPT !.bits = @ \ {s}, !.data[s] = [f \in DOMAIN bc.types |-> 0],
                           !.gens[s] = blyt_gen_next(@)]
FreeKeepsData(ctx, b, s) ==
    IF find_buffer(ctx, b) /\ slot_is_allocated(ctx.bufs[b], s)
    THEN [ok |-> TRUE, ctx |-> [ctx EXCEPT !.bufs[b].bits = @ \ {s},
                                           !.bufs[b].gens[s] = blyt_gen_next(@)]]
    ELSE [ok |-> FALSE, ctx |-> ctx]
state_free_slot(ctx, b, s) ==
    IF find_buffer(ctx, b) /\ slot_is_allocated(ctx.bufs[b], s)
    THEN [ok |-> TRUE, ctx |-> [ctx EXCEPT !.bufs[b] = Freed(@, s)]]
    ELSE [ok |-> FALSE, ctx |-> ctx]

Pack(gen, s) == gen * SlotSpan + s
ref_slot(ref) == ref % SlotSpan
ref_gen(ref) == ref \div SlotSpan
state_ref(ctx, b, s) ==
    IF find_buffer(ctx, b) /\ slot_is_allocated(ctx.bufs[b], s)
    THEN Pack(ctx.bufs[b].gens[s], s) ELSE NoRef
RefIgnoresGen(ctx, b, ref) ==
    ref # NoRef /\ find_buffer(ctx, b) /\ slot_is_allocated(ctx.bufs[b], ref_slot(ref))
state_ref_valid(ctx, b, ref) ==
    /\ ref # NoRef
    /\ find_buffer(ctx, b)
    /\ slot_is_allocated(ctx.bufs[b], ref_slot(ref))
    /\ ctx.bufs[b].gens[ref_slot(ref)] = ref_gen(ref)

-----------------------------------------------------------------------------
(* The native runtime's own versions, on storage of fixed dimensions.      *)
slot_allocated(bc, s) == s \in bc.bits
ref_ok(ctx, b, s, f) ==
    /\ find_buffer(ctx, b) /\ s >= 0 /\ s < ctx.bufs[b].count
    /\ f \in 1 .. MaxFields
    /\ slot_allocated(ctx.bufs[b], s)
(* An accessor uses the width of its own type: the cart's.                 *)
native_get(ctx, b, s, f) == IF ref_ok(ctx, b, s, f) THEN ctx.bufs[b].data[s][f] ELSE 0
native_set(ctx, b, s, f, v) ==
    IF ref_ok(ctx, b, s, f)
    THEN [ctx EXCEPT !.bufs[b].data[s][f] =
             v % Span(native_field_width(ctx.bufs[b].types[f]))] ELSE ctx
native_alloc_slot(ctx, b) ==
    LET free == {s \in 0 .. ctx.bufs[b].count - 1 : s \notin ctx.bufs[b].bits} IN
    IF find_buffer(ctx, b) /\ free # {}
    THEN [slot |-> Least(free), ctx |-> [ctx EXCEPT !.bufs[b].bits = @ \cup {Least(free)}]]
    ELSE [slot |-> -1, ctx |-> ctx]
NativeFreeBumpsAlways(ctx, b, s) ==
    IF find_buffer(ctx, b) /\ s >= 0 /\ s < ctx.bufs[b].count
    THEN [ok |-> TRUE, ctx |-> [ctx EXCEPT !.bufs[b] = Freed(@, s)]]
    ELSE [ok |-> FALSE, ctx |-> ctx]
native_free_slot(ctx, b, s) ==
    IF /\ find_buffer(ctx, b) /\ s >= 0 /\ s < ctx.bufs[b].count
       /\ slot_allocated(ctx.bufs[b], s)
    THEN [ok |-> TRUE, ctx |-> [ctx EXCEPT !.bufs[b] = Freed(@, s)]]
    ELSE [ok |-> FALSE, ctx |-> ctx]
native_ref(ctx, b, s) ==
    IF find_buffer(ctx, b) /\ s >= 0 /\ s < ctx.bufs[b].count /\ slot_allocated(ctx.bufs[b], s)
    THEN Pack(ctx.bufs[b].gens[s], s) ELSE NoRef
native_ref_valid(ctx, b, ref) ==
    /\ ref # NoRef
    /\ find_buffer(ctx, b)
    /\ ref_slot(ref) < ctx.bufs[b].count
    /\ slot_allocated(ctx.bufs[b], ref_slot(ref))
    /\ ctx.bufs[b].gens[ref_slot(ref)] = ref_gen(ref)

-----------------------------------------------------------------------------
(* Snapshots of a running session: whole buffers in, whole buffers out.     *)
state_ctx_snapshot(ctx) == ctx.bufs
SameShape(a, b) == Len(a.types) = Len(b.types) /\ a.count = b.count
state_ctx_restore_snapshot(ctx, snap) ==
    IF Len(snap) # Len(ctx.bufs) THEN ctx
    ELSE [ctx EXCEPT !.bufs = [b \in DOMAIN ctx.bufs |->
             IF SameShape(snap[b], ctx.bufs[b])
             THEN [ctx.bufs[b] EXCEPT !.data = snap[b].data, !.bits = snap[b].bits,
                                      !.gens = snap[b].gens]
             ELSE ctx.bufs[b]]]
state_ctx_zero_data(ctx) ==
    [ctx EXCEPT !.bufs = [b \in DOMAIN ctx.bufs |->
        [ctx.bufs[b] EXCEPT !.bits = {}, !.gens = [s \in Slots |-> 1],
                            !.data = [s \in DOMAIN @ |-> [f \in DOMAIN @[s] |-> 0]]]]]

-----------------------------------------------------------------------------
(* The BLYS file: a header, then one section per buffer in order.  Written *)
(* front to back, it can end anywhere.  A torn last section is cut in its  *)
(* eight-byte header ("sect"), before its fields ("name"), before its      *)
(* allocation bits ("data") or before its generations ("bits").            *)
NoFile == [header |-> "none"]
Tears == {"none", "sect", "name", "data", "bits"}
blys_section(ctx, b) == [name |-> NameOf(ctx, b), data |-> ctx.bufs[b].data,
                         bits |-> ctx.bufs[b].bits, gens |-> ctx.bufs[b].gens]
blys_write(ctx) == [header |-> "full", schema |-> ctx.schema, tear |-> "none",
                    sects |-> [b \in DOMAIN ctx.bufs |-> blys_section(ctx, b)]]
(* What is on disk when the writer stopped early.                          *)
Cut(file, k, t) == [file EXCEPT !.sects = SubSeq(@, 1, k), !.tear = t]
Prefixes(file) ==
    {[header |-> "short"], [file EXCEPT !.sects = <<>>]}
    \cup {Cut(file, k, t) : k \in 1 .. Len(file.sects), t \in Tears}

(* The source of each side at the torn end of a file: 1 is a clean end of  *)
(* file, -1 an error.  The host's counts the bytes it got; the native one  *)
(* reports the end of the file even after some of them.                    *)
file_source(got) == IF got = 0 THEN 1 ELSE -1
read_all(got) == 1

name_eq(ctx, name) == {b \in DOMAIN ctx.bufs : NameOf(ctx, b) = name}
(* A section is read into the first buffer of its name, as far as it goes: *)
(* its fields, its allocation bits, its generations.  These are the        *)
(* sections that reach a part of buffer b, which the last one does unless  *)
(* the file is torn before it.                                             *)
ReadInto(ctx, file, b, tears) ==
    {k \in DOMAIN file.sects : /\ b \in name_eq(ctx, file.sects[k].name)
                               /\ \A o \in name_eq(ctx, file.sects[k].name) : b <= o
                               /\ k = Len(file.sects) => file.tear \notin tears}

(* A section of no buffer is skipped, and of several of one name the last  *)
(* one stays.                                                              *)
Latest(S) == CHOOSE k \in S : \A j \in S : j <= k
ApplySections(ctx, file) ==
    [ctx EXCEPT !.bufs = [b \in DOMAIN ctx.bufs |->
        LET data == ReadInto(ctx, file, b, {"sect", "name"})
            bits == ReadInto(ctx, file, b, {"sect", "name", "data"})
            gens == ReadInto(ctx, file, b, {"sect", "name", "data", "bits"})
        IN  [ctx.bufs[b] EXCEPT
                !.data = IF data = {} THEN @ ELSE file.sects[Latest(data)].data,
                !.bits = IF bits = {} THEN @ ELSE file.sects[Latest(bits)].bits,
                !.gens = IF gens = {} THEN @ ELSE file.sects[Latest(gens)].gens]]]
(* The file ends between two sections, in a section header (where the      *)
(* source decides whether that is an end), or in a section's payload.      *)
ReadResult(file, side) ==
    LET source(got) == IF side = "native" THEN read_all(got) ELSE file_source(got) IN
    CASE file.tear = "none" -> IF source(0) = 1 THEN "ok" ELSE "io"
      [] file.tear = "sect" -> IF source(1) = 1 THEN "ok" ELSE "io"
      [] OTHER -> "io"
ReadSchemaLate(ctx, file, side) ==
    IF file.header # "full" THEN [rc |-> "io", ctx |-> ctx]
    ELSE [rc |-> IF file.schema # ctx.schema THEN "schema" ELSE ReadResult(file, side),
          ctx |-> ApplySections(ctx, file)]
blys_read(ctx, file, side) ==
    IF file.header # "full" THEN [rc |-> "io", ctx |-> ctx]
    ELSE IF file.schema # ctx.schema THEN [rc |-> "schema", ctx |-> ctx]
    ELSE [rc |-> ReadResult(file, side), ctx |-> ApplySections(ctx, file)]
===============================================================================
