--------------------------- MODULE PersistenceProofs ----------------------------
(***************************************************************************)
(* Proofs about saved state, for any number of save slots, buffers, slots, *)
(* fields and layouts.                                                     *)
(*                                                                         *)
(* Most of them rest on one inductive invariant, WorldInv: the buffers of  *)
(* the running cart, and of every file on disk, have the shape their build *)
(* declares, free slots are zero, and a kept ref can be told apart from    *)
(* the refs its slot hands out later.  The files are part of it because a  *)
(* load makes a file's state the running one.                              *)
(***************************************************************************)
EXTENDS Persistence, SequenceTheorems, WellFoundedInduction, TLAPS

\* A save that reported success left a file that holds all of the state, on every
\* leg and wherever the write stopped, as long as the disk does not fill up at the
\* flush (blyt_save_write_path, native_save_write).
THEOREM SavesAreHonest ==
    ASSUME FlushFails = FALSE
    PROVE  Spec => SaveHonest
<1> DEFINE FilesOk == DOMAIN files = SaveSlots
<1>1. Init => FilesOk
  BY DEF Init
<1>2. FilesOk /\ [Next]_vars => FilesOk'
  BY DEF Next, vars, Boot, Spawn, Kill, Target, guest_save_write, l_save_write,
         native_save_write, SaveTo, guest_save_read, l_save_read, native_save_read, LoadFrom,
         Crash, reset_every_frame_cycle, session_reload, hostlua_reload
<1>3. ASSUME NEW n \in SaveSlots, NEW host, FilesOk, SaveTo(n, host), last'.rc = "ok"
      PROVE  files'[n].file = blys_write(ctx')
  <2> DEFINE full == blys_write(ctx')
  <2>1. last' # Did("save", "io")
    BY <1>3 DEF Did
  <2>2. PICK wrote \in Prefixes(full), atFlush \in BOOLEAN :
            /\ atFlush => FlushFails /\ host
            /\ files' = [files EXCEPT ![n] = [file |-> wrote, mixed |-> mixed]]
            /\ last' = Did("save", IF host THEN host_save_result(full, wrote, atFlush)
                                   ELSE native_save_result(full, wrote))
    BY <1>3, <2>1 DEF SaveTo
  <2>3. ~atFlush /\ wrote = full
    BY <1>3, <2>2 DEF Did, host_save_result, native_save_result
  <2> QED
    BY <1>3, <2>2, <2>3
<1>4. FilesOk /\ [Next]_vars =>
        [last'.op = "save" /\ last'.rc = "ok" =>
            \E n \in SaveSlots : files'[n].file = blys_write(ctx')]_vars
  <2> SUFFICES ASSUME FilesOk, Next, last'.op = "save", last'.rc = "ok"
               PROVE  \E n \in SaveSlots : files'[n].file = blys_write(ctx')
    OBVIOUS
  <2>1. \E n \in SaveSlots : guest_save_write(n) \/ l_save_write(n) \/ native_save_write(n)
    BY DEF Next, Did, Boot, Spawn, Kill, Target, guest_save_read, l_save_read,
           native_save_read, LoadFrom, Crash, reset_every_frame_cycle, session_reload,
           hostlua_reload
  <2> QED
    BY <1>3, <2>1, Zenon DEF guest_save_write, l_save_write, native_save_write
<1> QED
  BY <1>1, <1>2, <1>4, PTL DEF Spec, SaveHonest

-----------------------------------------------------------------------------
\* Storage within the limits both runtimes declare (BLYT_MAX_SLOTS,
\* BLYT_MAX_FIELDS), whatever it holds.
StorageOK(bc) ==
    /\ bc.count \in 0 .. MaxSlots /\ bc.bits \subseteq 0 .. bc.count - 1
    /\ DOMAIN bc.types \subseteq 1 .. MaxFields

\* The two allocators look at the same slots.
LEMMA SameFreeSlots ==
    ASSUME NEW bc, StorageOK(bc)
    PROVE  {s \in 0 .. bc.count - 1 : s \notin bc.bits} = FreeSlots(bc)
  BY SlotsFitRef DEF StorageOK, FreeSlots, Slots

\* The two sides agree on which slots are in use.
LEMMA SameAllocated ==
    ASSUME NEW bc, StorageOK(bc), NEW s \in Int
    PROVE  slot_is_allocated(bc, s) <=> s >= 0 /\ s < bc.count /\ slot_allocated(bc, s)
  BY SlotsFitRef DEF StorageOK, slot_is_allocated, slot_allocated

\* The native runtime (blytcommon.c) answers every buffer call as the host does
\* (state_buffer.c) on any storage within the limits: allocation, release, refs
\* and their validity, reads and writes, in and out of range.
THEOREM NativeAnswersAsHost ==
    ASSUME \A b \in DOMAIN ctx.bufs : StorageOK(ctx.bufs[b])
    PROVE  LegsAgree
<1> SUFFICES ASSUME NEW b \in DOMAIN ctx.bufs
             PROVE  /\ native_alloc_slot(ctx, b) = state_alloc_slot(ctx, b)
                    /\ \A r \in 0 .. Pack(GenMax, MaxSlots) :
                          native_ref_valid(ctx, b, r) = state_ref_valid(ctx, b, r)
                    /\ \A s \in -1 .. MaxSlots :
                          /\ native_free_slot(ctx, b, s) = state_free_slot(ctx, b, s)
                          /\ native_ref(ctx, b, s) = state_ref(ctx, b, s)
                          /\ \A f \in DOMAIN ctx.bufs[b].types :
                                /\ Get("native", ctx, b, s, f) = Get("emulated", ctx, b, s, f)
                                /\ Set("native", ctx, b, s, f, SlotSpan)
                                     = Set("emulated", ctx, b, s, f, SlotSpan)
  BY DEF LegsAgree
<1> DEFINE bc == ctx.bufs[b]
<1>0. StorageOK(bc) /\ find_buffer(ctx, b)
  BY DEF find_buffer
<1>1. native_alloc_slot(ctx, b) = state_alloc_slot(ctx, b)
  <2>1. {s \in 0 .. bc.count - 1 : s \notin bc.bits} = FreeSlots(bc)
    BY <1>0, SameFreeSlots
  <2> QED
    BY <2>1, Zenon DEF native_alloc_slot, state_alloc_slot
<1>2. ASSUME NEW r \in 0 .. Pack(GenMax, MaxSlots)
      PROVE  native_ref_valid(ctx, b, r) = state_ref_valid(ctx, b, r)
  <2>1. SlotSpan \in Nat \ {0} /\ r \in Int
    BY SlotsFitRef DEF SlotSpan, Pack, GenMax
  <2>2. ref_slot(r) \in Nat
    BY <2>1 DEF ref_slot
  <2>3. slot_is_allocated(bc, ref_slot(r)) <=>
            ref_slot(r) < bc.count /\ slot_allocated(bc, ref_slot(r))
    BY <1>0, <2>2, SameAllocated
  <2> QED
    BY <2>3 DEF native_ref_valid, state_ref_valid
<1>3. ASSUME NEW s \in -1 .. MaxSlots
      PROVE  /\ native_free_slot(ctx, b, s) = state_free_slot(ctx, b, s)
             /\ native_ref(ctx, b, s) = state_ref(ctx, b, s)
  <2>1. slot_is_allocated(bc, s) <=> s >= 0 /\ s < bc.count /\ slot_allocated(bc, s)
    BY <1>0, SameAllocated
  <2> QED
    BY <2>1 DEF native_free_slot, state_free_slot, native_ref, state_ref
<1>4. ASSUME NEW s \in -1 .. MaxSlots, NEW f \in DOMAIN bc.types
      PROVE  /\ Get("native", ctx, b, s, f) = Get("emulated", ctx, b, s, f)
             /\ Set("native", ctx, b, s, f, SlotSpan) = Set("emulated", ctx, b, s, f, SlotSpan)
  <2>1. slot_is_allocated(bc, s) <=> s >= 0 /\ s < bc.count /\ slot_allocated(bc, s)
    BY <1>0, SameAllocated
  <2>2. ref_ok(ctx, b, s, f) <=> CellOk(ctx, b, s, f)
    BY <1>0, <2>1 DEF ref_ok, CellOk, StorageOK
  <2>3. \A type : native_field_width(type) = field_sizeof(type)
    BY DEF native_field_width, field_sizeof
  <2>4. Get("native", ctx, b, s, f) = Get("emulated", ctx, b, s, f)
    BY <2>2 DEF Get, native_get, buf_op_get, state_get, state_get64
  <2>5. Set("native", ctx, b, s, f, SlotSpan) = Set("emulated", ctx, b, s, f, SlotSpan)
    BY <2>2, <2>3 DEF Set, native_set, buf_op_set, state_set, state_set64, Fit
  <2> QED
    BY <2>4, <2>5
<1> QED
  BY <1>1, <1>2, <1>3, <1>4
-----------------------------------------------------------------------------
\* Storage of a declared buffer, in a context or in a section of a file.
Cells(decl) == [0 .. decl.count - 1 -> [DOMAIN decl.types -> Nat]]
Storage(decl) ==
    [types : {decl.types}, count : {decl.count}, data : Cells(decl),
     bits : SUBSET (0 .. decl.count - 1), gens : [Slots -> 1 .. GenMax]]
Section(decl) ==
    [name : {decl.name}, data : Cells(decl),
     bits : SUBSET (0 .. decl.count - 1), gens : [Slots -> 1 .. GenMax]]

\* A context of some build of the cart.
CtxFits(c) ==
    /\ c = [schema |-> c.schema, bufs |-> c.bufs] /\ c.schema \in DOMAIN Layouts
    /\ c.bufs = [b \in 1 .. Len(Layouts[c.schema]) |-> c.bufs[b]]
    /\ \A b \in 1 .. Len(Layouts[c.schema]) : c.bufs[b] \in Storage(Layouts[c.schema][b])

\* A file some build of the cart has written, or the front part of one.
FileFits(f) ==
    \/ f \in {NoFile, [header |-> "short"]}
    \/ /\ f = [header |-> "full", schema |-> f.schema, tear |-> f.tear, sects |-> f.sects]
       /\ f.schema \in DOMAIN Layouts /\ f.tear \in Tears
       /\ \E n \in 0 .. Len(Layouts[f.schema]) :
             /\ f.sects = [k \in 1 .. n |-> f.sects[k]] /\ Len(f.sects) = n
             /\ \A k \in 1 .. n : f.sects[k] \in Section(Layouts[f.schema][k])

\* The records of unused slots are zeroed.
ZeroFree(decl, x) ==
    \A s \in (0 .. decl.count - 1) \ x.bits : \A f \in DOMAIN decl.types : x.data[s][f] = 0

\* How often a slot was freed since the generation g0, at least.
Gap(g, g0) == IF g > g0 THEN g - g0 ELSE g - g0 + GenMax

\* What a ref says of its slot: it still holds the entity the ref was taken for,
\* or one of at least as many births later as the slot was freed.
Tracks(decl, mobs, h, n) ==
    LET s == ref_slot(h.ref)
        gap == Gap(mobs.gens[s], ref_gen(h.ref))
    IN  /\ s \in 0 .. decl.count - 1 /\ ref_gen(h.ref) \in 1 .. GenMax
        /\ IF s \in mobs.bits
           THEN \/ mobs.gens[s] = ref_gen(h.ref) /\ mobs.data[s][1] = h.id
                \/ mobs.data[s][1] >= h.id + gap
           ELSE n + 1 >= h.id + gap

\* The buffers of one moment (x: those of a context, or the sections of a whole
\* file) with the target that belongs to them, when n entities have been born.
Coherent(schema, x, h, n) ==
    /\ 0 \in x[Player].bits
    /\ \A b \in DOMAIN Layouts[schema] : ZeroFree(Layouts[schema][b], x[b])
    /\ \A s \in x[Mobs].bits : x[Mobs].data[s][1] <= n
    /\ h.ref \in 0 .. Pack(GenMax, MaxSlots - 1) /\ h.id \in 0 .. n
    /\ h.ref # NoRef => Tracks(Layouts[schema][Mobs], x[Mobs], h, n)

SavedTarget(sects) == [ref |-> sects[Player].data[0][1], id |-> sects[Player].data[0][2]]
SavedCoherent(f, n) ==
    Len(f.sects) = Len(Layouts[f.schema]) => Coherent(f.schema, f.sects, SavedTarget(f.sects), n)

\* The inductive invariant: the process on leg l with context c, target h and n
\* births, and every file, are coherent unless two moments were put together (m).
World(l, c, h, n, m) ==
    /\ l \in Legs \cup {"off"} /\ n \in 0 .. MaxBorn /\ m \in BOOLEAN
    /\ h \in [ref : Nat, id : Nat]
    /\ IF l = "off" THEN c = Off ELSE CtxFits(c)
    /\ l # "off" /\ ~m => Coherent(c.schema, c.bufs, h, n)
Stored(e, n) ==
    /\ FileFits(e.file) /\ e.mixed \in BOOLEAN
    /\ e.file.header = "full" /\ ~e.mixed => SavedCoherent(e.file, n)
WorldInv ==
    /\ World(leg, ctx, held, born, mixed)
    /\ DOMAIN files = SaveSlots /\ \A n \in SaveSlots : Stored(files[n], born)

\* What a write that stopped somewhere has left.
LEMMA PrefixIs ==
    ASSUME NEW f, NEW w \in Prefixes(f)
    PROVE  \/ w = [header |-> "short"]
           \/ w = [f EXCEPT !.sects = <<>>]
           \/ \E k \in 1 .. Len(f.sects), t \in Tears : w = Cut(f, k, t)
  BY DEF Prefixes

\* The machine's sizes.
LEMMA Sizes ==
    /\ SlotSpan \in Nat /\ SlotSpan >= 4 /\ GenMax \in Nat /\ GenMax >= 3 /\ GenMax = SlotSpan - 1
    /\ MaxSlots \in Nat /\ MaxSlots >= 1 /\ MaxSlots <= SlotSpan
    /\ \A size : Span(size) \in Nat /\ Span(size) >= 1
    /\ \A size \in {4, 8} : Span(size) >= SlotSpan * SlotSpan
<1> DEFINE S == SlotSpan
<1>1. S \in Nat /\ S >= 4 /\ MaxSlots <= S
  BY SlotsFitRef DEF SlotSpan
<1>2. S * S \in Nat /\ S * S >= 16
  BY <1>1
<1> HIDE DEF S
<1>3. (S * S) * (S * S) \in Nat /\ (S * S) * (S * S) >= S * S
  BY <1>2
<1>4. S * S * S * S = (S * S) * (S * S)
  BY <1>1
<1>5. \A size : Span(size) \in Nat /\ Span(size) >= 1
  BY <1>1, <1>2, <1>3, <1>4, SlotsFitRef DEF Span, S
<1>6. \A size \in {4, 8} : Span(size) >= SlotSpan * SlotSpan
  BY <1>1, <1>2, <1>3, <1>4 DEF Span, S
<1> QED
  BY <1>1, <1>5, <1>6, SlotsFitRef DEF GenMax, S

\* A buffer's slots are slots of the generation and allocation arrays.
LEMMA SlotRange ==
    ASSUME NEW count \in 1 .. MaxSlots
    PROVE  count \in Nat /\ \A s \in 0 .. count - 1 : s \in Slots
  BY Sizes DEF Slots

\* An identity within the births so far is within one more.
LEMMA OneMore ==
    ASSUME NEW n \in Nat
    PROVE  n + 1 <= n + 1 /\ \A id \in Nat : id <= n => id <= n + 1
  OBVIOUS

\* A value within a field's width is stored as it is.
LEMMA Remainders ==
    ASSUME NEW m \in Nat, m >= 1
    PROVE  /\ \A v \in Nat : v % m \in Nat
           /\ \A v \in 0 .. m - 1 : v % m = v
  OBVIOUS

\* A number taken apart as it was put together.
LEMMA Division ==
    ASSUME NEW g \in Nat, NEW s \in Nat, NEW m \in Nat, m >= 4, s < m
    PROVE  (g * m + s) \div m = g /\ (g * m + s) % m = s
<1>1. (g * m + s) \div m = g
  OBVIOUS
<1>2. (g * m + s) % m = s
  OBVIOUS
<1> QED
  BY <1>1, <1>2

\* A packed ref gives back its generation and its slot, and is never NONE.
LEMMA PackUnpack ==
    ASSUME NEW g \in 1 .. GenMax, NEW s \in Slots
    PROVE  /\ ref_slot(Pack(g, s)) = s /\ ref_gen(Pack(g, s)) = g
           /\ Pack(g, s) # NoRef /\ Pack(g, s) \in 0 .. Pack(GenMax, MaxSlots - 1)
<1> DEFINE S == SlotSpan
           r == g * S + s
<1>1. S \in Nat /\ S >= 4 /\ s \in 0 .. S - 1 /\ g \in 1 .. S - 1 /\ s <= MaxSlots - 1 /\ MaxSlots \in Nat
  BY Sizes DEF Slots
<1> HIDE DEF S
<1>2. g * S \in Nat /\ g * S >= S
  BY <1>1
<1>3. r \in Nat
  BY <1>1, <1>2
<1>4. r \div S = g /\ r % S = s
  BY <1>1, Division
<1>5. g * S <= (S - 1) * S
  BY <1>1
<1>6. (S - 1) * S + (MaxSlots - 1) \in Nat /\ r <= (S - 1) * S + (MaxSlots - 1)
  BY <1>1, <1>2, <1>5
<1> QED
  BY <1>1, <1>2, <1>3, <1>4, <1>6, Sizes DEF Pack, ref_slot, ref_gen, NoRef, S

\* What the layouts say, buffer by buffer.
LEMMA LayoutFacts ==
    ASSUME NEW schema \in DOMAIN Layouts
    PROVE  /\ Layouts[schema] \in Seq(Decl) /\ Len(Layouts[schema]) \in Nat /\ Len(Layouts[schema]) >= 2
           /\ DOMAIN Layouts[schema] = 1 .. Len(Layouts[schema])
           /\ \A b \in 1 .. Len(Layouts[schema]) :
                 /\ Layouts[schema][b] \in Decl
                 /\ DOMAIN Layouts[schema][b].types = 1 .. Len(Layouts[schema][b].types)
                 /\ Len(Layouts[schema][b].types) \in 1 .. MaxFields
                 /\ Layouts[schema][b].count \in 1 .. MaxSlots
                 /\ Layouts[schema][b].count \in Nat
<1>1. Layouts[schema] \in Seq(Decl) /\ Len(Layouts[schema]) >= 2
  BY LayoutsFit
<1>2. Len(Layouts[schema]) \in Nat /\ DOMAIN Layouts[schema] = 1 .. Len(Layouts[schema])
  BY <1>1, LenProperties
<1>3. ASSUME NEW b \in 1 .. Len(Layouts[schema])
      PROVE  /\ Layouts[schema][b] \in Decl
             /\ DOMAIN Layouts[schema][b].types = 1 .. Len(Layouts[schema][b].types)
             /\ Len(Layouts[schema][b].types) \in 1 .. MaxFields
             /\ Layouts[schema][b].count \in 1 .. MaxSlots
             /\ Layouts[schema][b].count \in Nat
  <2>1. Layouts[schema][b] \in Decl
    BY <1>1, <1>2, ElementOfSeq
  <2>2. Layouts[schema][b].types \in Seq(STRING) /\ Layouts[schema][b].count \in 1 .. MaxSlots
    BY <2>1 DEF Decl
  <2>3. DOMAIN Layouts[schema][b].types = 1 .. Len(Layouts[schema][b].types)
    BY <2>2, LenProperties
  <2>4. Len(Layouts[schema][b].types) \in 1 .. MaxFields
    BY <1>2, LayoutsFit
  <2> QED
    BY <2>1, <2>2, <2>3, <2>4, Sizes
<1> QED
  BY <1>1, <1>2, <1>3

\* The context with one buffer replaced.
Put(c, b, bc) == [schema |-> c.schema, bufs |-> [c.bufs EXCEPT ![b] = bc]]

\* Replacing a buffer by one of its declaration leaves a context of the same build.
LEMMA PutFits ==
    ASSUME NEW c, CtxFits(c), NEW b \in 1 .. Len(Layouts[c.schema]),
           NEW bc \in Storage(Layouts[c.schema][b])
    PROVE  /\ CtxFits(Put(c, b, bc)) /\ Put(c, b, bc).schema = c.schema
           /\ Put(c, b, bc).bufs[b] = bc
           /\ \A o \in 1 .. Len(Layouts[c.schema]) : o # b => Put(c, b, bc).bufs[o] = c.bufs[o]
  BY DEF CtxFits, Put

\* What a fitting context holds of a buffer.
LEMMA BufferFacts ==
    ASSUME NEW c, CtxFits(c), NEW b \in 1 .. Len(Layouts[c.schema])
    PROVE  /\ c.schema \in DOMAIN Layouts /\ DOMAIN c.bufs = 1 .. Len(Layouts[c.schema])
           /\ c.bufs[b] \in Storage(Layouts[c.schema][b])
           /\ c.bufs[b].types = Layouts[c.schema][b].types /\ c.bufs[b].count = Layouts[c.schema][b].count
           /\ c.bufs[b].data \in Cells(Layouts[c.schema][b])
           /\ c.bufs[b].bits \subseteq 0 .. c.bufs[b].count - 1
           /\ c.bufs[b].gens \in [Slots -> 1 .. GenMax]
           /\ c.bufs[b].count \in 1 .. MaxSlots
           /\ DOMAIN c.bufs[b].types = 1 .. Len(c.bufs[b].types) /\ Len(c.bufs[b].types) \in 1 .. MaxFields
           /\ StorageOK(c.bufs[b]) /\ find_buffer(c, b)
<1>1. /\ c.schema \in DOMAIN Layouts /\ DOMAIN c.bufs = 1 .. Len(Layouts[c.schema])
      /\ c.bufs[b] \in Storage(Layouts[c.schema][b])
  BY DEF CtxFits
<1>2. /\ DOMAIN Layouts[c.schema][b].types = 1 .. Len(Layouts[c.schema][b].types)
      /\ Len(Layouts[c.schema][b].types) \in 1 .. MaxFields
      /\ Layouts[c.schema][b].count \in 1 .. MaxSlots
  BY <1>1, LayoutFacts, Zenon
<1>3. /\ c.bufs[b].types = Layouts[c.schema][b].types /\ c.bufs[b].count = Layouts[c.schema][b].count
      /\ c.bufs[b].data \in Cells(Layouts[c.schema][b])
      /\ c.bufs[b].bits \subseteq 0 .. c.bufs[b].count - 1
      /\ c.bufs[b].gens \in [Slots -> 1 .. GenMax]
  BY <1>1 DEF Storage
<1>4. MaxSlots \in Nat /\ MaxFields \in Nat
  BY Sizes, LayoutsFit
<1>5. StorageOK(c.bufs[b])
  BY <1>2, <1>3, <1>4 DEF StorageOK
<1> QED
  BY <1>1, <1>2, <1>3, <1>5 DEF find_buffer

\* A buffer has the shape its build declares.
LEMMA ShapeIs ==
    ASSUME NEW c, CtxFits(c), NEW b \in 1 .. Len(Layouts[c.schema])
    PROVE  c.bufs[b].types = Layouts[c.schema][b].types /\ c.bufs[b].count = Layouts[c.schema][b].count
  BY BufferFacts, Zenon

\* The three ways the code asks whether a slot is in use.
LEMMA InUse ==
    ASSUME NEW c, CtxFits(c), NEW b \in 1 .. Len(Layouts[c.schema]), NEW s \in Int
    PROVE  /\ slot_is_allocated(c.bufs[b], s) <=> s \in c.bufs[b].bits
           /\ (s >= 0 /\ s < c.bufs[b].count /\ slot_allocated(c.bufs[b], s)) <=> s \in c.bufs[b].bits
           /\ \A f \in DOMAIN c.bufs[b].types :
                 /\ CellOk(c, b, s, f) <=> s \in c.bufs[b].bits
                 /\ ref_ok(c, b, s, f) <=> s \in c.bufs[b].bits
<1>1. StorageOK(c.bufs[b]) /\ find_buffer(c, b)
  BY BufferFacts
<1>2. slot_is_allocated(c.bufs[b], s) <=> s >= 0 /\ s < c.bufs[b].count /\ slot_allocated(c.bufs[b], s)
  BY <1>1, SameAllocated
<1>3. s \in c.bufs[b].bits => s >= 0 /\ s < c.bufs[b].count
  BY <1>1, SlotsFitRef DEF StorageOK
<1>4. slot_is_allocated(c.bufs[b], s) <=> s \in c.bufs[b].bits
  BY <1>2, <1>3 DEF slot_allocated
<1>5. ASSUME NEW f \in DOMAIN c.bufs[b].types
      PROVE  /\ CellOk(c, b, s, f) <=> s \in c.bufs[b].bits
             /\ ref_ok(c, b, s, f) <=> s \in c.bufs[b].bits
  <2>1. f \in 1 .. MaxFields
    BY <1>1 DEF StorageOK
  <2> QED
    BY <1>1, <1>2, <1>4, <2>1 DEF CellOk, ref_ok
<1> QED
  BY <1>2, <1>4, <1>5

\* Reading a field, on any leg.
LEMMA GetIs ==
    ASSUME NEW l, NEW c, CtxFits(c), NEW b \in 1 .. Len(Layouts[c.schema]),
           NEW s \in Int, NEW f \in DOMAIN c.bufs[b].types
    PROVE  Get(l, c, b, s, f) = IF s \in c.bufs[b].bits THEN c.bufs[b].data[s][f] ELSE 0
<1>1. /\ CellOk(c, b, s, f) <=> s \in c.bufs[b].bits
      /\ ref_ok(c, b, s, f) <=> s \in c.bufs[b].bits
  BY InUse
<1> QED
  BY <1>1 DEF Get, native_get, buf_op_get, l_buf_get, state_get, state_get64

\* A buffer with one field written, cut to the field's width.
Written(bc, s, f, v) ==
    [bc EXCEPT !.data[s][f] = v % Span(field_sizeof(bc.types[f]))]

\* Writing a field, on any leg: a slot that is not allocated takes nothing.
LEMMA SetIs ==
    ASSUME NEW l, NEW c, CtxFits(c), NEW b \in 1 .. Len(Layouts[c.schema]),
           NEW s \in Int, NEW f \in DOMAIN c.bufs[b].types, NEW v
    PROVE  Set(l, c, b, s, f, v) =
               IF s \in c.bufs[b].bits THEN Put(c, b, Written(c.bufs[b], s, f, v)) ELSE c
<1>1. /\ CellOk(c, b, s, f) <=> s \in c.bufs[b].bits
      /\ ref_ok(c, b, s, f) <=> s \in c.bufs[b].bits
  BY InUse
<1>2. native_field_width(c.bufs[b].types[f]) = field_sizeof(c.bufs[b].types[f])
  BY DEF native_field_width, field_sizeof
<1>3. c = [schema |-> c.schema, bufs |-> c.bufs]
  BY DEF CtxFits
<1> DEFINE w == v % Span(field_sizeof(c.bufs[b].types[f]))
           cw == [c EXCEPT !.bufs[b].data[s][f] = w]
<1>4. native_set(c, b, s, f, v) = IF s \in c.bufs[b].bits THEN cw ELSE c
  BY <1>1, <1>2 DEF native_set
<1>5. c.bufs[b].types[f] # "f64" => state_set(c, b, s, f, v) = IF s \in c.bufs[b].bits THEN cw ELSE c
  BY <1>1 DEF state_set, Fit
<1>6. c.bufs[b].types[f] = "f64" => state_set64(c, b, s, f, v) = IF s \in c.bufs[b].bits THEN cw ELSE c
  BY <1>1 DEF state_set64, Fit
<1>7. cw = Put(c, b, Written(c.bufs[b], s, f, v))
  <2> DEFINE bc == c.bufs[b]
             wc == Written(bc, s, f, v)
  <2>1. wc = [bc EXCEPT !.data[s][f] = w]
    BY DEF Written
  <2>2. cw = [c EXCEPT !.bufs = [c.bufs EXCEPT ![b] = wc]]
    BY <2>1
  <2> HIDE DEF wc, cw
  <2> QED
    BY <1>3, <2>2 DEF Put, wc
<1> HIDE DEF cw, w
<1> QED
  BY <1>4, <1>5, <1>6, <1>7 DEF Set, buf_op_set, l_buf_set

\* A buffer with one field written is still a buffer of its declaration, and only the
\* written field changes (state_set, native_set).
LEMMA WrittenFits ==
    ASSUME NEW c, CtxFits(c), NEW b \in 1 .. Len(Layouts[c.schema]),
           NEW s \in c.bufs[b].bits, NEW f \in DOMAIN c.bufs[b].types, NEW v \in Nat
    PROVE  /\ Written(c.bufs[b], s, f, v) \in Storage(Layouts[c.schema][b])
           /\ Written(c.bufs[b], s, f, v).bits = c.bufs[b].bits
           /\ Written(c.bufs[b], s, f, v).gens = c.bufs[b].gens
           /\ Written(c.bufs[b], s, f, v).data[s][f] = v % Span(field_sizeof(c.bufs[b].types[f]))
           /\ \A t \in 0 .. c.bufs[b].count - 1 : \A g \in DOMAIN c.bufs[b].types :
                 t # s \/ g # f => Written(c.bufs[b], s, f, v).data[t][g] = c.bufs[b].data[t][g]
<1> DEFINE bc == c.bufs[b]
           decl == Layouts[c.schema][b]
           w == v % Span(field_sizeof(bc.types[f]))
           d == [bc.data EXCEPT ![s][f] = w]
           wc == Written(bc, s, f, v)
<1>1. w \in Nat
  BY Sizes, Remainders, Zenon
<1>2. bc \in Storage(decl) /\ bc.types = decl.types /\ bc.count = decl.count /\ bc.data \in Cells(decl)
      /\ bc.bits \subseteq 0 .. bc.count - 1
  BY BufferFacts, Zenon
<1>3. wc = [bc EXCEPT !.data = d]
  BY DEF Written
<1> HIDE DEF wc, bc, decl, w
<1>4. d \in Cells(decl) /\ d[s][f] = w
      /\ \A t \in 0 .. bc.count - 1 : \A g \in DOMAIN bc.types : t # s \/ g # f => d[t][g] = bc.data[t][g]
  BY <1>1, <1>2, Zenon DEF Cells, bc
<1> HIDE DEF d
<1>5. wc \in Storage(decl) /\ wc.bits = bc.bits /\ wc.gens = bc.gens /\ wc.data = d
  BY <1>2, <1>3, <1>4 DEF Storage
<1> QED
  BY <1>4, <1>5 DEF wc, bc, decl, w

\* Births only make room.
LEMMA CoherentLater ==
    ASSUME NEW schema \in DOMAIN Layouts, NEW x, NEW h, NEW n \in Nat, NEW m \in Nat, n <= m,
           \A s \in x[Mobs].bits : x[Mobs].data[s][1] \in Nat,
           h.ref # NoRef => x[Mobs].gens[ref_slot(h.ref)] \in Nat,
           Coherent(schema, x, h, n)
    PROVE  Coherent(schema, x, h, m)
<1>1. h.id \in Nat /\ h.id <= m /\ \A s \in x[Mobs].bits : x[Mobs].data[s][1] <= m
  BY DEF Coherent
<1>2. h.ref # NoRef => Tracks(Layouts[schema][Mobs], x[Mobs], h, m)
  <2> SUFFICES ASSUME h.ref # NoRef PROVE Tracks(Layouts[schema][Mobs], x[Mobs], h, m)
    OBVIOUS
  <2>1. Tracks(Layouts[schema][Mobs], x[Mobs], h, n)
    BY DEF Coherent
  <2>2. Gap(x[Mobs].gens[ref_slot(h.ref)], ref_gen(h.ref)) \in Int
    BY <2>1, Sizes DEF Tracks, Gap
  <2> QED
    BY <1>1, <2>1, <2>2 DEF Tracks
<1> QED
  BY <1>1, <1>2 DEF Coherent

\* The least element of a set of slots.
LEMMA LeastIs ==
    ASSUME NEW T, T \subseteq Nat, T # {}
    PROVE  Least(T) \in T /\ \A t \in T : Least(T) <= t
<1>1. PICK x \in T : \A y \in T : ~(<<y, x>> \in OpToRel(<, Nat))
  BY NatLessThanWellFounded, WFMin, Zenon
<1>2. ASSUME NEW y \in T PROVE x <= y
  <2>1. y < x => <<y, x>> \in OpToRel(<, Nat)
    BY DEF OpToRel
  <2>2. ~(y < x)
    BY <1>1, <2>1, Zenon
  <2>3. x \in Nat /\ y \in Nat
    OBVIOUS
  <2> QED
    BY <2>2, <2>3
<1> QED
  BY <1>2, Zenon DEF Least

\* A buffer with one more slot in use.
Taken(bc, s) == [bc EXCEPT !.bits = bc.bits \cup {s}]

\* Taking the first free slot, on any leg.
LEMMA AllocIs ==
    ASSUME NEW l, NEW c, CtxFits(c), NEW b \in 1 .. Len(Layouts[c.schema])
    PROVE  LET a == Alloc(l, c, b) IN
           \/ a.slot = -1 /\ a.ctx = c /\ c.bufs[b].bits = 0 .. c.bufs[b].count - 1
           \/ /\ a.slot \in (0 .. c.bufs[b].count - 1) \ c.bufs[b].bits
              /\ \A s \in (0 .. c.bufs[b].count - 1) \ c.bufs[b].bits : a.slot <= s
              /\ a.ctx = Put(c, b, Taken(c.bufs[b], a.slot))
<1> DEFINE bc == c.bufs[b]
           free == FreeSlots(bc)
           s == Least(free)
           ct == [c EXCEPT !.bufs[b].bits = @ \cup {s}]
<1>1. StorageOK(bc) /\ find_buffer(c, b)
  BY BufferFacts
<1>2. free = (0 .. bc.count - 1) \ bc.bits /\ free = {t \in 0 .. bc.count - 1 : t \notin bc.bits}
  BY <1>1, SameFreeSlots
<1>3. bc.bits \subseteq 0 .. bc.count - 1
  BY <1>1 DEF StorageOK
<1>4. free # {} => s \in free /\ \A t \in free : s <= t
  <2>1. free \subseteq Nat
    BY Sizes DEF FreeSlots, Slots
  <2> HIDE DEF free
  <2> QED
    BY <2>1, LeastIs, Zenon
<1>5. ct = Put(c, b, Taken(bc, s))
  <2>1. c = [schema |-> c.schema, bufs |-> c.bufs]
    BY DEF CtxFits
  <2> HIDE DEF s
  <2>2. ct = [c EXCEPT !.bufs = [c.bufs EXCEPT ![b] = Taken(bc, s)]]
    BY DEF Taken
  <2> HIDE DEF ct
  <2> QED
    BY <2>1, <2>2 DEF Put
<1>6. Alloc(l, c, b) = IF free = {} THEN [slot |-> -1, ctx |-> c] ELSE [slot |-> s, ctx |-> ct]
  BY <1>1, <1>2, Zenon DEF Alloc, state_alloc_slot, native_alloc_slot
<1> HIDE DEF free, s, ct
<1>7. CASE free = {}
  <2>1. Alloc(l, c, b).slot = -1 /\ Alloc(l, c, b).ctx = c
    BY <1>6, <1>7
  <2>2. bc.bits = 0 .. bc.count - 1
    BY <1>2, <1>3, <1>7, Zenon
  <2> QED
    BY <2>1, <2>2
<1>8. CASE free # {}
  <2>1. Alloc(l, c, b).slot = s /\ Alloc(l, c, b).ctx = ct
    BY <1>6, <1>8
  <2> QED
    BY <1>2, <1>4, <1>5, <1>8, <2>1
<1> QED
  BY <1>7, <1>8

\* Freeing a slot, on any leg: one that is not in use is left alone.
LEMMA FreeIs ==
    ASSUME NEW l, NEW c, CtxFits(c), NEW b \in 1 .. Len(Layouts[c.schema]), NEW s \in Int
    PROVE  Free(l, c, b, s).ctx = IF s \in c.bufs[b].bits THEN Put(c, b, Freed(c.bufs[b], s)) ELSE c
<1>1. /\ find_buffer(c, b)
      /\ slot_is_allocated(c.bufs[b], s) <=> s \in c.bufs[b].bits
      /\ (s >= 0 /\ s < c.bufs[b].count /\ slot_allocated(c.bufs[b], s)) <=> s \in c.bufs[b].bits
  BY InUse, BufferFacts
<1>2. c = [schema |-> c.schema, bufs |-> c.bufs]
  BY DEF CtxFits
<1>3. [c EXCEPT !.bufs[b] = Freed(@, s)] = Put(c, b, Freed(c.bufs[b], s))
  BY <1>2 DEF Put
<1> QED
  BY <1>1, <1>3, Zenon DEF Free, state_free_slot, native_free_slot

\* Taking and checking a ref, on any leg.
LEMMA RefIs ==
    ASSUME NEW l, NEW c, CtxFits(c), NEW b \in 1 .. Len(Layouts[c.schema]), NEW s \in Int
    PROVE  Ref(l, c, b, s) = IF s \in c.bufs[b].bits THEN Pack(c.bufs[b].gens[s], s) ELSE NoRef
  BY InUse, BufferFacts, Zenon DEF Ref, state_ref, native_ref

\* A ref is valid when its slot is in use at its generation (state_ref_valid,
\* native_ref_valid).
LEMMA RefValidIs ==
    ASSUME NEW l, NEW c, CtxFits(c), NEW b \in 1 .. Len(Layouts[c.schema]), NEW r \in Nat
    PROVE  RefValid(l, c, b, r) <=>
               /\ r # NoRef /\ ref_slot(r) \in c.bufs[b].bits
               /\ c.bufs[b].gens[ref_slot(r)] = ref_gen(r)
<1>1. ref_slot(r) \in Nat
  BY Sizes, Remainders DEF ref_slot
<1>2. /\ find_buffer(c, b)
      /\ slot_is_allocated(c.bufs[b], ref_slot(r)) <=> ref_slot(r) \in c.bufs[b].bits
      /\ (ref_slot(r) < c.bufs[b].count /\ slot_allocated(c.bufs[b], ref_slot(r)))
            <=> ref_slot(r) \in c.bufs[b].bits
  BY <1>1, InUse, BufferFacts
<1> QED
  BY <1>2 DEF RefValid, state_ref_valid, native_ref_valid
-----------------------------------------------------------------------------
\* Context d is c after field f of slot s of buffer b was given v: nothing happens
\* when the slot is not in use.
FieldSet(c, d, b, s, f, v) ==
    /\ CtxFits(d) /\ d.schema = c.schema
    /\ \A o \in 1 .. Len(Layouts[c.schema]) : o # b => d.bufs[o] = c.bufs[o]
    /\ d.bufs[b].bits = c.bufs[b].bits /\ d.bufs[b].gens = c.bufs[b].gens
    /\ d.bufs[b].types = c.bufs[b].types /\ d.bufs[b].count = c.bufs[b].count
    /\ \A t \in 0 .. c.bufs[b].count - 1 : \A g \in DOMAIN c.bufs[b].types :
          d.bufs[b].data[t][g] = IF t = s /\ g = f /\ s \in c.bufs[b].bits
                                 THEN v % Span(field_sizeof(c.bufs[b].types[f]))
                                 ELSE c.bufs[b].data[t][g]

\* Setting a field leaves a context of the same build (buf_op_set and its like).
LEMMA SetFacts ==
    ASSUME NEW l, NEW c, CtxFits(c), NEW b \in 1 .. Len(Layouts[c.schema]),
           NEW s \in Int, NEW f \in DOMAIN c.bufs[b].types, NEW v \in Nat
    PROVE  FieldSet(c, Set(l, c, b, s, f, v), b, s, f, v)
<1> DEFINE d == Set(l, c, b, s, f, v)
<1>1. CASE s \notin c.bufs[b].bits
  <2>1. d = c
    BY <1>1, SetIs
  <2> QED
    BY <1>1, <2>1 DEF FieldSet
<1>2. CASE s \in c.bufs[b].bits
  <2> DEFINE w == Written(c.bufs[b], s, f, v)
  <2>1. d = Put(c, b, w)
    BY <1>2, SetIs
  <2>2. /\ w \in Storage(Layouts[c.schema][b]) /\ w.bits = c.bufs[b].bits /\ w.gens = c.bufs[b].gens
        /\ w.data[s][f] = v % Span(field_sizeof(c.bufs[b].types[f]))
        /\ \A t \in 0 .. c.bufs[b].count - 1 : \A g \in DOMAIN c.bufs[b].types :
              t # s \/ g # f => w.data[t][g] = c.bufs[b].data[t][g]
    BY <1>2, WrittenFits
  <2> HIDE DEF w, d
  <2>3. /\ CtxFits(d) /\ d.schema = c.schema /\ d.bufs[b] = w
        /\ \A o \in 1 .. Len(Layouts[c.schema]) : o # b => d.bufs[o] = c.bufs[o]
    BY <2>1, <2>2, PutFits
  <2>4. d.bufs[b].types = c.bufs[b].types /\ d.bufs[b].count = c.bufs[b].count
    BY <2>3, ShapeIs
  <2>5. \A t \in 0 .. c.bufs[b].count - 1 : \A g \in DOMAIN c.bufs[b].types :
           d.bufs[b].data[t][g] = IF t = s /\ g = f /\ s \in c.bufs[b].bits
                                  THEN v % Span(field_sizeof(c.bufs[b].types[f]))
                                  ELSE c.bufs[b].data[t][g]
    BY <1>2, <2>2, <2>3, Zenon
  <2> QED
    BY <2>2, <2>3, <2>4, <2>5, Zenon DEF d, FieldSet
<1> QED
  BY <1>1, <1>2

\* The player and the entities are declared, with the fields the cart uses.
LEMMA CartFields ==
    ASSUME NEW schema \in DOMAIN Layouts
    PROVE  /\ Player \in 1 .. Len(Layouts[schema]) /\ Mobs \in 1 .. Len(Layouts[schema])
           /\ 1 \in DOMAIN Layouts[schema][Player].types /\ 2 \in DOMAIN Layouts[schema][Player].types
           /\ 1 \in DOMAIN Layouts[schema][Mobs].types
           /\ 0 \in 0 .. Layouts[schema][Player].count - 1
           /\ \A r \in 0 .. Pack(GenMax, MaxSlots - 1) :
                 r % Span(field_sizeof(Layouts[schema][Player].types[1])) = r
           /\ \A id \in 0 .. MaxBorn :
                 /\ id % Span(field_sizeof(Layouts[schema][Player].types[2])) = id
                 /\ id % Span(field_sizeof(Layouts[schema][Mobs].types[1])) = id
<1> DEFINE D == Layouts[schema]
<1>1. Len(D) \in Nat /\ Len(D) >= 2
  BY LayoutFacts
<1>2. Player \in 1 .. Len(D) /\ Mobs \in 1 .. Len(D)
  BY <1>1 DEF Player, Mobs
<1>3. /\ DOMAIN D[Player].types = 1 .. Len(D[Player].types) /\ Len(D[Player].types) \in Nat
      /\ DOMAIN D[Mobs].types = 1 .. Len(D[Mobs].types) /\ Len(D[Mobs].types) \in Nat
      /\ Len(D[Mobs].types) >= 1 /\ D[Player].count \in Nat /\ D[Player].count >= 1
  BY <1>2, LayoutFacts, LayoutsFit
<1>4. /\ Len(D[Player].types) >= 2 /\ field_sizeof(D[Player].types[1]) \in {4, 8}
      /\ MaxBorn < Span(field_sizeof(D[Player].types[2]))
      /\ MaxBorn < Span(field_sizeof(D[Mobs].types[1]))
  BY LayoutsFit
<1>5. ASSUME NEW r \in 0 .. Pack(GenMax, MaxSlots - 1)
      PROVE  r % Span(field_sizeof(D[Player].types[1])) = r
  <2> DEFINE S == SlotSpan
             m == Span(field_sizeof(D[Player].types[1]))
  <2>1. m \in Nat /\ m >= 1 /\ m >= S * S /\ S \in Nat /\ S >= 4 /\ MaxSlots \in Nat /\ MaxSlots <= S /\ GenMax = S - 1
    BY <1>4, Sizes, Zenon
  <2> HIDE DEF S, m
  <2>2. Pack(GenMax, MaxSlots - 1) < S * S
    <3>1. Pack(GenMax, MaxSlots - 1) = (S - 1) * S + (MaxSlots - 1)
      BY <2>1 DEF Pack, S
    <3>2. (S - 1) * S = S * S - S
      BY <2>1
    <3>3. S * S \in Nat
      BY <2>1
    <3> QED
      BY <2>1, <3>1, <3>2, <3>3
  <2>3. Pack(GenMax, MaxSlots - 1) \in Int /\ S * S \in Int
    BY <2>1, Sizes DEF Pack, S
  <2>4. r \in 0 .. m - 1
    BY <2>1, <2>2, <2>3
  <2>5. r % m = r
    BY <2>1, <2>4, Remainders
  <2> QED
    BY <2>5 DEF m
<1>6. ASSUME NEW id \in 0 .. MaxBorn
      PROVE  /\ id % Span(field_sizeof(D[Player].types[2])) = id
             /\ id % Span(field_sizeof(D[Mobs].types[1])) = id
  <2> DEFINE p == Span(field_sizeof(D[Player].types[2]))
             q == Span(field_sizeof(D[Mobs].types[1]))
  <2>1. p \in Nat /\ p >= 1 /\ q \in Nat /\ q >= 1 /\ MaxBorn \in Nat /\ MaxBorn < p /\ MaxBorn < q
    BY <1>4, Sizes, LayoutsFit
  <2> HIDE DEF p, q
  <2>2. id \in 0 .. p - 1 /\ id \in 0 .. q - 1
    BY <2>1
  <2>3. id % p = id /\ id % q = id
    BY <2>1, <2>2, Remainders, Zenon
  <2> QED
    BY <2>3, Zenon DEF p, q
<1> QED
  BY <1>2, <1>3, <1>4, <1>5, <1>6

\* The same fields in a context of the cart.
LEMMA CartBuffers ==
    ASSUME NEW c, CtxFits(c)
    PROVE  /\ c.schema \in DOMAIN Layouts
           /\ Player \in 1 .. Len(Layouts[c.schema]) /\ Mobs \in 1 .. Len(Layouts[c.schema])
           /\ 1 \in DOMAIN c.bufs[Player].types /\ 2 \in DOMAIN c.bufs[Player].types
           /\ 1 \in DOMAIN c.bufs[Mobs].types
           /\ 0 \in 0 .. c.bufs[Player].count - 1
           /\ \A r \in 0 .. Pack(GenMax, MaxSlots - 1) :
                 r % Span(field_sizeof(c.bufs[Player].types[1])) = r
           /\ \A id \in 0 .. MaxBorn :
                 /\ id % Span(field_sizeof(c.bufs[Player].types[2])) = id
                 /\ id % Span(field_sizeof(c.bufs[Mobs].types[1])) = id
<1>1. c.schema \in DOMAIN Layouts
  BY DEF CtxFits
<1>2. Player \in 1 .. Len(Layouts[c.schema]) /\ Mobs \in 1 .. Len(Layouts[c.schema])
  BY <1>1, CartFields, Zenon
<1>3. /\ c.bufs[Player].types = Layouts[c.schema][Player].types
      /\ c.bufs[Player].count = Layouts[c.schema][Player].count
      /\ c.bufs[Mobs].types = Layouts[c.schema][Mobs].types
  BY <1>2, BufferFacts, Zenon
<1> QED
  BY <1>1, <1>2, <1>3, CartFields

\* Context d is c with the target h stored in the player's record.
TargetStored(c, d, h) ==
    /\ CtxFits(d) /\ d.schema = c.schema
    /\ \A o \in 1 .. Len(Layouts[c.schema]) : o # Player => d.bufs[o] = c.bufs[o]
    /\ d.bufs[Player].bits = c.bufs[Player].bits
    /\ \A t \in 0 .. c.bufs[Player].count - 1 : \A g \in DOMAIN c.bufs[Player].types :
          t \notin c.bufs[Player].bits => d.bufs[Player].data[t][g] = c.bufs[Player].data[t][g]
    /\ 0 \in c.bufs[Player].bits =>
          /\ d.bufs[Player].data[0][1] = h.ref % Span(field_sizeof(c.bufs[Player].types[1]))
          /\ d.bufs[Player].data[0][2] = h.id % Span(field_sizeof(c.bufs[Player].types[2]))

\* on_save_state stores the target in the player's record and touches nothing else.
LEMMA SaveStores ==
    ASSUME NEW c, CtxFits(c), held \in [ref : Nat, id : Nat]
    PROVE  TargetStored(c, on_save_state(c), held)
<1> DEFINE e == Set(leg, c, Player, 0, 1, held.ref)
           d == Set(leg, e, Player, 0, 2, held.id)
<1>1. /\ Player \in 1 .. Len(Layouts[c.schema])
      /\ 1 \in DOMAIN c.bufs[Player].types /\ 2 \in DOMAIN c.bufs[Player].types
      /\ 0 \in 0 .. c.bufs[Player].count - 1
  BY CartBuffers
<1>2. 0 \in Int /\ held.ref \in Nat /\ held.id \in Nat
  OBVIOUS
<1>3. FieldSet(c, e, Player, 0, 1, held.ref)
  BY <1>1, <1>2, SetFacts
<1>4. d = on_save_state(c)
  BY DEF on_save_state
<1> HIDE DEF e
<1>5. CtxFits(e) /\ e.schema = c.schema /\ e.bufs[Player].types = c.bufs[Player].types
  BY <1>3 DEF FieldSet
<1>6. Player \in 1 .. Len(Layouts[e.schema]) /\ 2 \in DOMAIN e.bufs[Player].types
  BY <1>1, <1>5
<1>7. FieldSet(e, d, Player, 0, 2, held.id)
  BY <1>2, <1>5, <1>6, SetFacts, Zenon
<1> HIDE DEF d
<1>8. TargetStored(c, d, held)
  BY <1>1, <1>3, <1>7 DEF FieldSet, TargetStored
<1> QED
  BY <1>4, <1>8

\* What is saved is the state of the moment, and its target is the live one.
LEMMA StoredCoherent ==
    ASSUME NEW c, CtxFits(c), NEW d, NEW h \in [ref : Nat, id : Nat], TargetStored(c, d, h),
           NEW n \in 0 .. MaxBorn, Coherent(c.schema, c.bufs, h, n)
    PROVE  Coherent(c.schema, d.bufs, h, n) /\ SavedTarget(d.bufs) = h
<1> DEFINE L == Layouts[c.schema]
<1>1. /\ 0 \in c.bufs[Player].bits /\ h.ref \in 0 .. Pack(GenMax, MaxSlots - 1) /\ h.id \in 0 .. n
      /\ \A b \in DOMAIN L : ZeroFree(L[b], c.bufs[b])
  BY DEF Coherent
<1>2. h.id \in 0 .. MaxBorn
  BY <1>1, LayoutsFit
<1>3. d.bufs[Player].data[0][1] = h.ref /\ d.bufs[Player].data[0][2] = h.id
  <2>1. /\ h.ref % Span(field_sizeof(c.bufs[Player].types[1])) = h.ref
        /\ h.id % Span(field_sizeof(c.bufs[Player].types[2])) = h.id
    BY <1>1, <1>2, CartBuffers, Zenon
  <2> QED
    BY <1>1, <2>1, Zenon DEF TargetStored
<1>4. SavedTarget(d.bufs) = h
  BY <1>3, Zenon DEF SavedTarget
<1>5. Player \in 1 .. Len(L) /\ Mobs \in 1 .. Len(L) /\ DOMAIN L = 1 .. Len(L) /\ Mobs # Player
  BY CartBuffers, LayoutFacts DEF Player, Mobs
<1>6. d.bufs[Mobs] = c.bufs[Mobs] /\ d.bufs[Player].bits = c.bufs[Player].bits
  BY <1>5, Zenon DEF TargetStored
<1>7. ZeroFree(L[Player], d.bufs[Player])
  <2>1. c.bufs[Player].count = L[Player].count /\ c.bufs[Player].types = L[Player].types
    BY <1>5, BufferFacts, Zenon
  <2>2. ZeroFree(L[Player], c.bufs[Player])
    BY <1>1, <1>5, Zenon
  <2> QED
    BY <1>6, <2>1, <2>2 DEF ZeroFree, TargetStored
<1>8. \A b \in DOMAIN L : ZeroFree(L[b], d.bufs[b])
  BY <1>1, <1>5, <1>7, Zenon DEF TargetStored
<1> QED
  BY <1>1, <1>4, <1>6, <1>8, Zenon DEF Coherent

\* Context d is c after slot s of buffer b was taken: nothing happens for -1.
SlotTaken(c, d, b, s) ==
    /\ CtxFits(d) /\ d.schema = c.schema /\ s \in Int
    /\ \A o \in 1 .. Len(Layouts[c.schema]) : o # b => d.bufs[o] = c.bufs[o]
    /\ d.bufs[b].data = c.bufs[b].data /\ d.bufs[b].gens = c.bufs[b].gens
    /\ \/ s = -1 /\ d = c
       \/ /\ s \in (0 .. c.bufs[b].count - 1) \ c.bufs[b].bits
          /\ d.bufs[b].bits = c.bufs[b].bits \cup {s}

\* Taking a slot leaves the buffer's data and generations (blyt_buffer_alloc_slot).
LEMMA AllocFacts ==
    ASSUME NEW l, NEW c, CtxFits(c), NEW b \in 1 .. Len(Layouts[c.schema])
    PROVE  SlotTaken(c, Alloc(l, c, b).ctx, b, Alloc(l, c, b).slot)
<1> DEFINE a == Alloc(l, c, b)
           bc == c.bufs[b]
           decl == Layouts[c.schema][b]
<1>1. \/ a.slot = -1 /\ a.ctx = c
      \/ a.slot \in (0 .. bc.count - 1) \ bc.bits /\ a.ctx = Put(c, b, Taken(bc, a.slot))
  BY AllocIs, Zenon
<1> SUFFICES SlotTaken(c, a.ctx, b, a.slot)
  OBVIOUS
<1> HIDE DEF a
<1>2. CASE a.slot = -1 /\ a.ctx = c
  <2>1. a.slot \in Int
    BY <1>2
  <2> QED
    BY <1>2, <2>1, Zenon DEF SlotTaken
<1>3. CASE a.slot \in (0 .. bc.count - 1) \ bc.bits /\ a.ctx = Put(c, b, Taken(bc, a.slot))
  <2> DEFINE tc == Taken(bc, a.slot)
  <2>1. bc \in Storage(decl) /\ bc.count = decl.count /\ bc.bits \subseteq 0 .. bc.count - 1
    BY BufferFacts
  <2>2. tc \in Storage(decl) /\ tc.bits = bc.bits \cup {a.slot} /\ tc.data = bc.data /\ tc.gens = bc.gens
    BY <1>3, <2>1, Zenon DEF Taken, Storage
  <2>3. a.ctx = Put(c, b, tc)
    BY <1>3
  <2> HIDE DEF tc
  <2>4. /\ CtxFits(a.ctx) /\ a.ctx.schema = c.schema /\ a.ctx.bufs[b] = tc
        /\ \A o \in 1 .. Len(Layouts[c.schema]) : o # b => a.ctx.bufs[o] = c.bufs[o]
    BY <2>2, <2>3, PutFits
  <2>5. a.slot \in Int
    BY <1>3
  <2>6. /\ a.ctx.bufs[b].data = bc.data /\ a.ctx.bufs[b].gens = bc.gens
        /\ a.ctx.bufs[b].bits = bc.bits \cup {a.slot}
    BY <2>2, <2>4
  <2> QED
    BY <1>3, <2>4, <2>5, <2>6, Zenon DEF SlotTaken
<1> QED
  BY <1>1, <1>2, <1>3, Zenon

\* Context d is c after an entity of this identity was spawned, if there was room.
Spawned(c, d, id) ==
    /\ CtxFits(d) /\ d.schema = c.schema
    /\ \A o \in 1 .. Len(Layouts[c.schema]) : o # Mobs => d.bufs[o] = c.bufs[o]
    /\ d.bufs[Mobs].gens = c.bufs[Mobs].gens
    /\ \/ d.bufs[Mobs] = c.bufs[Mobs]
       \/ \E s \in (0 .. c.bufs[Mobs].count - 1) \ c.bufs[Mobs].bits :
             /\ d.bufs[Mobs].bits = c.bufs[Mobs].bits \cup {s}
             /\ d.bufs[Mobs].data[s][1] = id
             /\ \A t \in (0 .. c.bufs[Mobs].count - 1) \ {s} : \A g \in DOMAIN c.bufs[Mobs].types :
                   d.bufs[Mobs].data[t][g] = c.bufs[Mobs].data[t][g]

\* Spawning takes a free slot and writes the identity into it.
LEMMA SpawnFacts ==
    ASSUME NEW c, CtxFits(c), NEW id \in 0 .. MaxBorn
    PROVE  Spawned(c, SpawnIn(c, id), id)
<1> DEFINE a == Alloc(leg, c, Mobs)
           e == a.ctx
           s == a.slot
           d == Set(leg, e, Mobs, s, 1, id)
           bc == c.bufs[Mobs]
<1>1. Mobs \in 1 .. Len(Layouts[c.schema]) /\ 1 \in DOMAIN bc.types /\ id \in Nat
  BY CartBuffers, LayoutsFit
<1>2. SlotTaken(c, e, Mobs, s)
  BY <1>1, AllocFacts
<1> SUFFICES Spawned(c, d, id)
  BY DEF SpawnIn
<1> HIDE DEF a, e, s
<1>3. CtxFits(e) /\ e.schema = c.schema /\ s \in Int
  BY <1>2, Zenon DEF SlotTaken
<1>4. bc.types = e.bufs[Mobs].types /\ bc.count = e.bufs[Mobs].count
  BY <1>1, <1>3, ShapeIs
<1>5. FieldSet(e, d, Mobs, s, 1, id)
  <2>1. Mobs \in 1 .. Len(Layouts[e.schema]) /\ 1 \in DOMAIN e.bufs[Mobs].types
    BY <1>1, <1>3, <1>4
  <2> QED
    BY <1>1, <1>3, <2>1, SetFacts
<1> HIDE DEF d
<1>6. /\ CtxFits(d) /\ d.schema = c.schema /\ d.bufs[Mobs].gens = bc.gens
      /\ \A o \in 1 .. Len(Layouts[c.schema]) : o # Mobs => d.bufs[o] = c.bufs[o]
  BY <1>2, <1>5 DEF FieldSet, SlotTaken
<1>7. \A t \in 0 .. bc.count - 1 : \A g \in DOMAIN bc.types :
         d.bufs[Mobs].data[t][g] = IF t = s /\ g = 1 /\ s \in e.bufs[Mobs].bits
                                   THEN id % Span(field_sizeof(bc.types[1]))
                                   ELSE e.bufs[Mobs].data[t][g]
  BY <1>4, <1>5, Zenon DEF FieldSet
<1>8. d.bufs[Mobs].bits = e.bufs[Mobs].bits /\ e.bufs[Mobs].data = bc.data
  BY <1>2, <1>5, Zenon DEF FieldSet, SlotTaken
<1>9. CASE s = -1 /\ e = c
  <2>1. s \notin bc.bits
    <3>1. bc.bits \subseteq 0 .. bc.count - 1
      BY <1>1, BufferFacts, Zenon
    <3> QED
      BY <1>9, <3>1
  <2>2. d = e
    BY <1>3, <1>9, <2>1, SetIs, <1>1 DEF d
  <2> QED
    BY <1>6, <1>9, <2>2, Zenon DEF Spawned
<1>10. CASE s \in (0 .. bc.count - 1) \ bc.bits /\ e.bufs[Mobs].bits = bc.bits \cup {s}
  <2>1. id % Span(field_sizeof(bc.types[1])) = id
    BY CartBuffers
  <2>2. d.bufs[Mobs].data[s][1] = id
    BY <1>1, <1>7, <1>10, <2>1
  <2>3. \A t \in (0 .. bc.count - 1) \ {s} : \A g \in DOMAIN bc.types :
           d.bufs[Mobs].data[t][g] = bc.data[t][g]
    BY <1>7, <1>8
  <2>4. d.bufs[Mobs].bits = bc.bits \cup {s}
    BY <1>8, <1>10, Zenon
  <2> QED
    BY <1>6, <1>10, <2>2, <2>3, <2>4, Zenon DEF Spawned
<1> QED
  BY <1>2, <1>9, <1>10, Zenon DEF SlotTaken

\* The identities and generations of a fitting context are numbers.
LEMMA MobNumbers ==
    ASSUME NEW c, CtxFits(c)
    PROVE  /\ c.bufs[Mobs].bits \subseteq 0 .. c.bufs[Mobs].count - 1
           /\ c.bufs[Mobs].count = Layouts[c.schema][Mobs].count
           /\ c.bufs[Mobs].types = Layouts[c.schema][Mobs].types
           /\ c.bufs[Mobs].count \in 1 .. MaxSlots
           /\ \A t \in 0 .. c.bufs[Mobs].count - 1 :
                 c.bufs[Mobs].data[t][1] \in Nat /\ c.bufs[Mobs].gens[t] \in 1 .. GenMax
<1>1. Mobs \in 1 .. Len(Layouts[c.schema]) /\ 1 \in DOMAIN c.bufs[Mobs].types
  BY CartBuffers, Zenon
<1> DEFINE bc == c.bufs[Mobs]
           decl == Layouts[c.schema][Mobs]
<1>2. /\ bc.types = decl.types /\ bc.count = decl.count /\ bc.data \in Cells(decl)
      /\ bc.bits \subseteq 0 .. bc.count - 1 /\ bc.gens \in [Slots -> 1 .. GenMax]
      /\ bc.count \in 1 .. MaxSlots
  BY <1>1, BufferFacts, Zenon
<1> HIDE DEF bc, decl
<1>3. ASSUME NEW t \in 0 .. bc.count - 1
      PROVE  bc.data[t][1] \in Nat /\ bc.gens[t] \in 1 .. GenMax
  <2>1. t \in Slots
    BY <1>2, Sizes DEF Slots
  <2> QED
    BY <1>1, <1>2, <2>1, Zenon DEF Cells, bc
<1> QED
  BY <1>2, <1>3, Zenon DEF bc, decl

\* How far a generation is from an earlier one: freeing adds one, at most.
LEMMA GapNext ==
    ASSUME NEW g \in 1 .. GenMax, NEW g0 \in 1 .. GenMax
    PROVE  /\ blyt_gen_next(g) \in 1 .. GenMax
           /\ Gap(g, g0) \in 1 .. GenMax /\ Gap(g0, g0) = GenMax
           /\ Gap(blyt_gen_next(g0), g0) = 1
           /\ Gap(blyt_gen_next(g), g0) <= Gap(g, g0) + 1
           /\ Gap(blyt_gen_next(g), g0) \in 1 .. GenMax
  BY Sizes DEF Gap, blyt_gen_next

\* The same for the generation y of a slot just freed.
LEMMA GapFreed ==
    ASSUME NEW g \in 1 .. GenMax, NEW g0 \in 1 .. GenMax, NEW y, y = blyt_gen_next(g)
    PROVE  /\ Gap(y, g0) \in Nat /\ Gap(y, g0) <= Gap(g, g0) + 1
           /\ g = g0 => Gap(y, g0) = 1
<1>1. Gap(y, g0) \in 1 .. GenMax /\ Gap(y, g0) <= Gap(g, g0) + 1 /\ Gap(blyt_gen_next(g0), g0) = 1
  BY GapNext, Zenon
<1> QED
  BY <1>1, Sizes

\* What a target says of its slot, in a fitting context.
LEMMA TrackedSlot ==
    ASSUME NEW c, CtxFits(c), NEW h, NEW n \in Nat, Coherent(c.schema, c.bufs, h, n), h.ref # NoRef
    PROVE  LET s == ref_slot(h.ref) IN
           /\ s \in 0 .. c.bufs[Mobs].count - 1 /\ ref_gen(h.ref) \in 1 .. GenMax
           /\ c.bufs[Mobs].gens[s] \in 1 .. GenMax /\ c.bufs[Mobs].data[s][1] \in Nat
           /\ Gap(c.bufs[Mobs].gens[s], ref_gen(h.ref)) \in 1 .. GenMax
<1>1. Tracks(Layouts[c.schema][Mobs], c.bufs[Mobs], h, n)
  BY DEF Coherent
<1>2. c.bufs[Mobs].count = Layouts[c.schema][Mobs].count
  BY MobNumbers
<1>3. ref_slot(h.ref) \in 0 .. c.bufs[Mobs].count - 1 /\ ref_gen(h.ref) \in 1 .. GenMax
  BY <1>1, <1>2 DEF Tracks
<1>4. c.bufs[Mobs].gens[ref_slot(h.ref)] \in 1 .. GenMax /\ c.bufs[Mobs].data[ref_slot(h.ref)][1] \in Nat
  BY <1>3, MobNumbers, Zenon
<1> QED
  BY <1>3, <1>4, GapNext, Zenon

\* A spawn keeps the world coherent: the newcomer's identity is the newest.
LEMMA SpawnCoherent ==
    ASSUME NEW c, CtxFits(c), NEW d, NEW h, NEW n \in Nat, n + 1 <= MaxBorn,
           Coherent(c.schema, c.bufs, h, n), Spawned(c, d, n + 1)
    PROVE  Coherent(d.schema, d.bufs, h, n + 1)
<1> DEFINE L == Layouts[c.schema]
           bc == c.bufs[Mobs]
           bd == d.bufs[Mobs]
           r == ref_slot(h.ref)
           gap == Gap(bc.gens[r], ref_gen(h.ref))
<1>1. /\ 0 \in c.bufs[Player].bits /\ h.ref \in 0 .. Pack(GenMax, MaxSlots - 1) /\ h.id \in 0 .. n
      /\ \A b \in DOMAIN L : ZeroFree(L[b], c.bufs[b])
      /\ \A s \in bc.bits : bc.data[s][1] <= n
      /\ h.ref # NoRef => Tracks(L[Mobs], bc, h, n)
  BY Zenon DEF Coherent
<1>2. /\ Player \in 1 .. Len(L) /\ Mobs \in 1 .. Len(L) /\ Mobs # Player /\ DOMAIN L = 1 .. Len(L)
      /\ 1 \in DOMAIN bc.types
  BY CartBuffers, LayoutFacts DEF Mobs, Player
<1>3. /\ d.schema = c.schema /\ bd.gens = bc.gens
      /\ \A o \in 1 .. Len(L) : o # Mobs => d.bufs[o] = c.bufs[o]
  BY Zenon DEF Spawned
<1>4. /\ bc.bits \subseteq 0 .. bc.count - 1 /\ bc.count = L[Mobs].count /\ bc.types = L[Mobs].types
      /\ bc.count \in Nat
      /\ \A t \in 0 .. bc.count - 1 : bc.data[t][1] \in Nat
  BY MobNumbers, Sizes
<1>5. h.ref # NoRef => r \in 0 .. bc.count - 1 /\ gap \in Nat
  BY TrackedSlot, Sizes
<1>6. ZeroFree(L[Mobs], bc)
  BY <1>1, <1>2, Zenon
<1> HIDE DEF r, gap
<1>7. /\ ZeroFree(L[Mobs], bd) /\ \A t \in bd.bits : bd.data[t][1] <= n + 1
      /\ h.ref # NoRef => Tracks(L[Mobs], bd, h, n + 1)
  <2>1. CASE bd = bc
    <3>1. \A t \in bd.bits : bd.data[t][1] <= n + 1
      BY <1>1, <1>4, <2>1, OneMore, Zenon
    <3>2. h.ref # NoRef => Tracks(L[Mobs], bd, h, n + 1)
      BY <1>1, <1>5, <2>1 DEF Tracks, r, gap
    <3> QED
      BY <1>6, <2>1, <3>1, <3>2, Zenon
  <2>2. ASSUME NEW s \in (0 .. bc.count - 1) \ bc.bits,
               bd.bits = bc.bits \cup {s}, bd.data[s][1] = n + 1,
               \A t \in (0 .. bc.count - 1) \ {s} : \A g \in DOMAIN bc.types :
                  bd.data[t][g] = bc.data[t][g]
        PROVE  /\ ZeroFree(L[Mobs], bd) /\ \A t \in bd.bits : bd.data[t][1] <= n + 1
               /\ h.ref # NoRef => Tracks(L[Mobs], bd, h, n + 1)
    <3>1. ZeroFree(L[Mobs], bd)
      BY <1>4, <1>6, <2>2 DEF ZeroFree
    <3>2. \A t \in bc.bits : bd.data[t][1] = bc.data[t][1]
      BY <1>2, <1>4, <2>2, Zenon
    <3>3. \A t \in bd.bits : bd.data[t][1] <= n + 1
      <4>1. \A t \in bc.bits : bc.data[t][1] \in Nat /\ bc.data[t][1] <= n
        BY <1>1, <1>4, Zenon
      <4>2. \A t \in bc.bits : bd.data[t][1] <= n + 1
        BY <3>2, <4>1, OneMore, Zenon
      <4>3. bd.data[s][1] <= n + 1
        BY <2>2, OneMore, Zenon
      <4> QED
        BY <2>2, <4>2, <4>3, Zenon
    <3>4. ASSUME h.ref # NoRef PROVE Tracks(L[Mobs], bd, h, n + 1)
      <4>1. /\ r \in 0 .. L[Mobs].count - 1 /\ ref_gen(h.ref) \in 1 .. GenMax
            /\ IF r \in bc.bits
               THEN (bc.gens[r] = ref_gen(h.ref) /\ bc.data[r][1] = h.id) \/ bc.data[r][1] >= h.id + gap
               ELSE n + 1 >= h.id + gap
        BY <1>1, <3>4, Zenon DEF Tracks, r, gap
      <4>2. r # s => (r \in bd.bits <=> r \in bc.bits)
        BY <2>2, Zenon
      <4>3. bd.gens[r] = bc.gens[r] /\ gap = Gap(bd.gens[r], ref_gen(h.ref))
        BY <1>3, Zenon DEF gap
      <4>4. h.id \in Nat /\ gap \in Nat
        BY <1>1, <1>5, <3>4
      <4>5. /\ IF r \in bd.bits
               THEN (bd.gens[r] = ref_gen(h.ref) /\ bd.data[r][1] = h.id) \/ bd.data[r][1] >= h.id + gap
               ELSE n + 2 >= h.id + gap
        <5>1. CASE r = s
          BY <2>2, <4>1, <4>4, <5>1, Zenon
        <5>2. CASE r # s
          BY <3>2, <4>1, <4>2, <4>3, <4>4, <5>2
        <5> QED
          BY <5>1, <5>2, Zenon
      <4> QED
        BY <4>1, <4>3, <4>4, <4>5 DEF Tracks, r
    <3> QED
      BY <3>1, <3>3, <3>4, Zenon
  <2> QED
    BY <2>1, <2>2, Zenon DEF Spawned
<1>8. \A b \in DOMAIN L : ZeroFree(L[b], d.bufs[b])
  BY <1>1, <1>2, <1>3, <1>7, Zenon
<1>9. 0 \in d.bufs[Player].bits /\ h.id \in 0 .. n + 1
  BY <1>1, <1>2, <1>3
<1> HIDE DEF L, bd
<1> QED
  BY <1>1, <1>3, <1>7, <1>8, <1>9, Zenon DEF Coherent, L, bd

\* Context d is c after the entity in slot s was killed, if there was one.
Killed(c, d, s) ==
    /\ CtxFits(d) /\ d.schema = c.schema
    /\ \A o \in 1 .. Len(Layouts[c.schema]) : o # Mobs => d.bufs[o] = c.bufs[o]
    /\ IF s \in c.bufs[Mobs].bits
       THEN /\ d.bufs[Mobs].bits = c.bufs[Mobs].bits \ {s}
            /\ d.bufs[Mobs].gens[s] = blyt_gen_next(c.bufs[Mobs].gens[s])
            /\ \A g \in DOMAIN c.bufs[Mobs].types : d.bufs[Mobs].data[s][g] = 0
            /\ \A t \in (0 .. c.bufs[Mobs].count - 1) \ {s} :
                  /\ d.bufs[Mobs].gens[t] = c.bufs[Mobs].gens[t]
                  /\ d.bufs[Mobs].data[t] = c.bufs[Mobs].data[t]
       ELSE d = c

\* Freeing a slot clears its record and moves its generation on (free_slot).
LEMMA KillFacts ==
    ASSUME NEW c, CtxFits(c), NEW s \in Int
    PROVE  Killed(c, Free(leg, c, Mobs, s).ctx, s)
<1> DEFINE d == Free(leg, c, Mobs, s).ctx
           bc == c.bufs[Mobs]
           decl == Layouts[c.schema][Mobs]
           fc == Freed(bc, s)
<1>1. Mobs \in 1 .. Len(Layouts[c.schema])
  BY CartBuffers
<1>2. d = IF s \in bc.bits THEN Put(c, Mobs, fc) ELSE c
  BY <1>1, FreeIs
<1> SUFFICES Killed(c, d, s)
  OBVIOUS
<1> HIDE DEF d
<1>3. CASE s \notin bc.bits
  BY <1>2, <1>3, Zenon DEF Killed
<1>4. CASE s \in bc.bits
  <2>1. /\ bc \in Storage(decl) /\ bc.types = decl.types /\ bc.count = decl.count /\ bc.data \in Cells(decl)
        /\ bc.bits \subseteq 0 .. bc.count - 1 /\ bc.gens \in [Slots -> 1 .. GenMax]
        /\ bc.count \in 1 .. MaxSlots
    BY <1>1, BufferFacts, Zenon
  <2>2. s \in Slots /\ s \in 0 .. bc.count - 1
    BY <1>4, <2>1, SlotRange, Zenon
  <2> DEFINE zero == [f \in DOMAIN bc.types |-> 0]
             data == [bc.data EXCEPT ![s] = zero]
             gens == [bc.gens EXCEPT ![s] = blyt_gen_next(bc.gens[s])]
             bits == bc.bits \ {s}
  <2>3. data \in Cells(decl)
    <3>1. zero \in [DOMAIN decl.types -> Nat]
      BY <2>1, Zenon
    <3> HIDE DEF zero
    <3> QED
      BY <2>1, <2>2, <3>1, Zenon DEF Cells
  <2>4. gens \in [Slots -> 1 .. GenMax] /\ gens[s] = blyt_gen_next(bc.gens[s])
        /\ \A t \in (0 .. bc.count - 1) \ {s} : gens[t] = bc.gens[t]
    <3>1. blyt_gen_next(bc.gens[s]) \in 1 .. GenMax
      BY <2>1, <2>2, GapNext, Zenon
    <3>2. \A t \in 0 .. bc.count - 1 : t \in Slots
      BY <2>1, SlotRange, Zenon
    <3>3. bc.gens \in [Slots -> 1 .. GenMax] /\ s \in Slots
      BY <2>1, <2>2, Zenon
    <3> QED
      BY <3>1, <3>2, <3>3, Zenon
  <2>5. data[s] = zero /\ \A t \in (0 .. bc.count - 1) \ {s} : data[t] = bc.data[t]
    BY <2>1, <2>2 DEF Cells
  <2>6. fc = [bc EXCEPT !.bits = bits, !.data = data, !.gens = gens]
    BY DEF Freed
  <2>7. \A g \in DOMAIN bc.types : zero[g] = 0
    OBVIOUS
  <2> HIDE DEF zero, data, gens, bits, fc
  <2>8. bits \in SUBSET (0 .. decl.count - 1)
    BY <2>1, Zenon DEF bits
  <2>9. fc \in Storage(decl) /\ fc.bits = bits /\ fc.data = data /\ fc.gens = gens
    BY <2>1, <2>3, <2>4, <2>6, <2>8, Zenon DEF Storage
  <2>10. /\ CtxFits(d) /\ d.schema = c.schema /\ d.bufs[Mobs] = fc
         /\ \A o \in 1 .. Len(Layouts[c.schema]) : o # Mobs => d.bufs[o] = c.bufs[o]
    <3>1. d = Put(c, Mobs, fc)
      BY <1>2, <1>4, Zenon
    <3>2. fc \in Storage(Layouts[c.schema][Mobs])
      BY <2>9, Zenon
    <3> QED
      BY <1>1, <3>1, <3>2, PutFits
  <2>11. d.bufs[Mobs].bits = bits /\ d.bufs[Mobs].data = data /\ d.bufs[Mobs].gens = gens
    BY <2>9, <2>10, Zenon
  <2> QED
    BY <1>4, <2>4, <2>5, <2>7, <2>10, <2>11, Zenon DEF Killed, bits
<1> QED
  BY <1>3, <1>4, Zenon

\* A kill keeps the world coherent: a target of the slot falls one birth behind.
LEMMA KillCoherent ==
    ASSUME NEW c, CtxFits(c), NEW d, NEW h, NEW n \in Nat, NEW s \in Int,
           Coherent(c.schema, c.bufs, h, n), Killed(c, d, s)
    PROVE  Coherent(d.schema, d.bufs, h, n)
<1> DEFINE L == Layouts[c.schema]
           bc == c.bufs[Mobs]
           bd == d.bufs[Mobs]
           r == ref_slot(h.ref)
           g0 == ref_gen(h.ref)
<1>1. CASE s \notin bc.bits
  BY <1>1 DEF Killed
<1>2. CASE s \in bc.bits
  <2>1. /\ 0 \in c.bufs[Player].bits /\ h.ref \in 0 .. Pack(GenMax, MaxSlots - 1) /\ h.id \in 0 .. n
        /\ \A b \in DOMAIN L : ZeroFree(L[b], c.bufs[b])
        /\ \A t \in bc.bits : bc.data[t][1] <= n
        /\ h.ref # NoRef => Tracks(L[Mobs], bc, h, n)
    BY Zenon DEF Coherent
  <2>2. /\ Player \in 1 .. Len(L) /\ Mobs \in 1 .. Len(L) /\ Mobs # Player /\ DOMAIN L = 1 .. Len(L)
    BY CartBuffers, LayoutFacts DEF Mobs, Player
  <2>3. /\ d.schema = c.schema /\ bd.bits = bc.bits \ {s} /\ bd.gens[s] = blyt_gen_next(bc.gens[s])
        /\ \A g \in DOMAIN bc.types : bd.data[s][g] = 0
        /\ \A t \in (0 .. bc.count - 1) \ {s} : bd.gens[t] = bc.gens[t] /\ bd.data[t] = bc.data[t]
        /\ \A o \in 1 .. Len(L) : o # Mobs => d.bufs[o] = c.bufs[o]
    BY <1>2, Zenon DEF Killed
  <2>4. /\ bc.bits \subseteq 0 .. bc.count - 1 /\ bc.count = L[Mobs].count /\ bc.types = L[Mobs].types
        /\ bc.count \in Nat
        /\ \A t \in 0 .. bc.count - 1 : bc.data[t][1] \in Nat
    BY MobNumbers, Sizes
  <2>5. h.ref # NoRef => /\ r \in 0 .. bc.count - 1 /\ g0 \in 1 .. GenMax /\ bc.gens[r] \in 1 .. GenMax
                         /\ Gap(bc.gens[r], g0) \in Nat
    BY TrackedSlot, Sizes
  <2>6. ZeroFree(L[Mobs], bc)
    BY <2>1, <2>2, Zenon
  <2> HIDE DEF r, g0
  <2>7. ZeroFree(L[Mobs], bd)
    BY <2>3, <2>4, <2>6 DEF ZeroFree
  <2>8. \A t \in bd.bits : bd.data[t][1] <= n
    BY <2>1, <2>3, <2>4, Zenon
  <2>9. ASSUME h.ref # NoRef PROVE Tracks(L[Mobs], bd, h, n)
    <3>1. /\ r \in 0 .. L[Mobs].count - 1 /\ g0 \in 1 .. GenMax /\ h.id \in Nat /\ h.id <= n
          /\ IF r \in bc.bits
             THEN \/ bc.gens[r] = g0 /\ bc.data[r][1] = h.id
                  \/ bc.data[r][1] >= h.id + Gap(bc.gens[r], g0)
             ELSE n + 1 >= h.id + Gap(bc.gens[r], g0)
      BY <2>1, <2>9 DEF Tracks, r, g0
    <3>2. CASE r # s
      <4>1. /\ bd.gens[r] = bc.gens[r] /\ bd.data[r] = bc.data[r] /\ (r \in bd.bits <=> r \in bc.bits)
        BY <2>3, <2>5, <2>9, <3>2, Zenon
      <4> QED
        BY <3>1, <4>1, Zenon DEF Tracks, r, g0
    <3>3. CASE r = s
      <4>1. /\ Gap(bd.gens[r], g0) \in Nat /\ Gap(bd.gens[r], g0) <= Gap(bc.gens[r], g0) + 1
            /\ bc.gens[r] = g0 => Gap(bd.gens[r], g0) = 1
        <5>1. bc.gens[r] \in 1 .. GenMax /\ g0 \in 1 .. GenMax
          BY <2>5, <2>9, Zenon
        <5>2. bd.gens[r] = blyt_gen_next(bc.gens[r])
          BY <2>3, <3>3, Zenon
        <5> QED
          BY <5>1, <5>2, GapFreed, Zenon
      <4>2. bc.data[r][1] \in Nat /\ bc.data[r][1] <= n
        BY <1>2, <2>1, <2>4, <3>3, Zenon
      <4>3. r \in bc.bits /\ r \notin bd.bits /\ Gap(bc.gens[r], g0) \in Nat
        BY <1>2, <2>3, <2>5, <2>9, <3>3, Zenon
      <4>4. n + 1 >= h.id + Gap(bd.gens[r], g0)
        BY <3>1, <4>1, <4>2, <4>3
      <4> QED
        BY <3>1, <4>3, <4>4 DEF Tracks, r, g0
    <3> QED
      BY <3>2, <3>3, Zenon
  <2>10. \A b \in DOMAIN L : ZeroFree(L[b], d.bufs[b])
    BY <2>1, <2>2, <2>3, <2>7, Zenon
  <2>11. 0 \in d.bufs[Player].bits
    BY <2>1, <2>2, <2>3, Zenon
  <2> HIDE DEF L, bd
  <2> QED
    BY <2>1, <2>3, <2>8, <2>9, <2>10, <2>11, Zenon DEF Coherent, L, bd
<1> QED
  BY <1>1, <1>2

\* A target is a number and an identity.
LEMMA TargetNumbers ==
    ASSUME NEW c, CtxFits(c), NEW s \in Slots, Ref(leg, c, Mobs, s) # NoRef
    PROVE  Ref(leg, c, Mobs, s) \in Nat /\ Get(leg, c, Mobs, s, 1) \in Nat
<1> DEFINE bc == c.bufs[Mobs]
<1>1. Mobs \in 1 .. Len(Layouts[c.schema]) /\ 1 \in DOMAIN bc.types /\ s \in Int
  BY CartBuffers, Sizes DEF Slots
<1>2. s \in bc.bits /\ Ref(leg, c, Mobs, s) = Pack(bc.gens[s], s)
  BY <1>1, RefIs, Zenon
<1>3. Get(leg, c, Mobs, s, 1) = bc.data[s][1]
  BY <1>1, <1>2, GetIs, Zenon
<1>4. bc.gens[s] \in 1 .. GenMax /\ bc.data[s][1] \in Nat
  BY <1>2, MobNumbers, Zenon
<1>5. Pack(bc.gens[s], s) \in 0 .. Pack(GenMax, MaxSlots - 1)
  BY <1>4, PackUnpack
<1> QED
  BY <1>2, <1>3, <1>4, <1>5

\* A target just picked is tracked: the ref and the identity were read together.
LEMMA TargetCoherent ==
    ASSUME NEW c, CtxFits(c), NEW h, NEW n \in Nat, NEW s \in Slots,
           Coherent(c.schema, c.bufs, h, n), Ref(leg, c, Mobs, s) # NoRef
    PROVE  Coherent(c.schema, c.bufs,
                    [ref |-> Ref(leg, c, Mobs, s), id |-> Get(leg, c, Mobs, s, 1)], n)
<1> DEFINE bc == c.bufs[Mobs]
           k == [ref |-> Ref(leg, c, Mobs, s), id |-> Get(leg, c, Mobs, s, 1)]
<1>1. /\ Mobs \in 1 .. Len(Layouts[c.schema]) /\ 1 \in DOMAIN bc.types /\ s \in Int
  BY CartBuffers, Sizes DEF Slots
<1>2. s \in bc.bits /\ Ref(leg, c, Mobs, s) = Pack(bc.gens[s], s)
  BY <1>1, RefIs, Zenon
<1>3. Get(leg, c, Mobs, s, 1) = bc.data[s][1]
  BY <1>1, <1>2, GetIs, Zenon
<1>4. /\ s \in 0 .. bc.count - 1 /\ bc.gens[s] \in 1 .. GenMax /\ bc.data[s][1] \in Nat
      /\ bc.count = Layouts[c.schema][Mobs].count
  BY <1>2, MobNumbers, Zenon
<1>5. k.ref = Pack(bc.gens[s], s) /\ k.id = bc.data[s][1]
  BY <1>2, <1>3, Zenon
<1> HIDE DEF k
<1>6. /\ ref_slot(k.ref) = s /\ ref_gen(k.ref) = bc.gens[s]
      /\ k.ref # NoRef /\ k.ref \in 0 .. Pack(GenMax, MaxSlots - 1)
  BY <1>4, <1>5, PackUnpack, Zenon
<1>7. Tracks(Layouts[c.schema][Mobs], bc, k, n)
  BY <1>2, <1>4, <1>5, <1>6, Zenon DEF Tracks
<1>8. k.id \in 0 .. n
  BY <1>2, <1>4, <1>5 DEF Coherent
<1> SUFFICES Coherent(c.schema, c.bufs, k, n)
  BY DEF k
<1> QED
  BY <1>6, <1>7, <1>8, Zenon DEF Coherent

-----------------------------------------------------------------------------
\* The length of a sequence given as a function.
LEMMA LenIs ==
    ASSUME NEW n \in Nat, NEW S, NEW f \in [1 .. n -> S]
    PROVE  f \in Seq(S) /\ Len(f) = n
<1>1. f \in Seq(S)
  BY SeqDef
<1>2. Len(f) \in Nat /\ DOMAIN f = 1 .. Len(f)
  BY <1>1, LenProperties
<1>3. 1 .. Len(f) = 1 .. n
  BY <1>2
<1>4. Len(f) = n
  BY <1>2, <1>3
<1> QED
  BY <1>1, <1>4

\* The smaller of two numbers, as the code's clamps pick it.
LEMMA Lesser ==
    ASSUME NEW n \in Nat, NEW m \in Nat, n <= m
    PROVE  (IF n < m THEN n ELSE m) = n
  OBVIOUS

\* Nothing is in use and all records are zeroed.
Unused(c) ==
    \A b \in 1 .. Len(Layouts[c.schema]) :
       c.bufs[b].bits = {} /\ ZeroFree(Layouts[c.schema][b], c.bufs[b])

\* Fresh storage of a declared buffer.
LEMMA BlankFits ==
    ASSUME NEW decl, decl.count \in 1 .. MaxSlots
    PROVE  Blank(decl) \in Storage(decl) /\ Blank(decl).bits = {} /\ ZeroFree(decl, Blank(decl))
<1> DEFINE data == [s \in 0 .. decl.count - 1 |-> [f \in DOMAIN decl.types |-> 0]]
           gens == [s \in Slots |-> 1]
<1>1. data \in Cells(decl) /\ \A s \in 0 .. decl.count - 1 : \A f \in DOMAIN decl.types : data[s][f] = 0
  BY DEF Cells
<1>2. gens \in [Slots -> 1 .. GenMax]
  BY Sizes
<1>3. Blank(decl) = [types |-> decl.types, count |-> decl.count, data |-> data, bits |-> {}, gens |-> gens]
  BY DEF Blank
<1> HIDE DEF data, gens
<1> QED
  BY <1>1, <1>2, <1>3 DEF Storage, ZeroFree

\* Both runtimes set up the declared buffers, fresh (state_ctx_init, native_init).
LEMMA BootFits ==
    ASSUME NEW schema \in DOMAIN Layouts
    PROVE  /\ native_init(schema) = state_ctx_init(schema)
           /\ state_ctx_init(schema).schema = schema
           /\ CtxFits(state_ctx_init(schema)) /\ Unused(state_ctx_init(schema))
<1> DEFINE L == Layouts[schema]
           c == [schema |-> schema, bufs |-> [b \in 1 .. Len(L) |-> Blank(L[b])]]
<1>1. /\ Len(L) \in Nat /\ DOMAIN L = 1 .. Len(L) /\ Len(L) <= MaxBuffers /\ Len(L) <= NativeMaxBuf
      /\ MaxBuffers \in Nat /\ NativeMaxBuf \in Nat
  BY LayoutFacts, LayoutsFit, Zenon
<1>2. ~ \E b \in DOMAIN L : Len(L[b].types) \notin 1 .. MaxFields
  BY LayoutsFit
<1>3. /\ (IF Len(L) < MaxBuffers THEN Len(L) ELSE MaxBuffers) = Len(L)
      /\ (IF Len(L) < NativeMaxBuf THEN Len(L) ELSE NativeMaxBuf) = Len(L)
  BY <1>1, Lesser, Zenon
<1>4. state_ctx_init(schema) = c
  BY <1>2, <1>3 DEF state_ctx_init
<1>5. ASSUME NEW b \in 1 .. Len(L)
      PROVE  /\ L[b].count \in 1 .. MaxSlots
             /\ [L[b] EXCEPT !.count = IF @ < MaxSlots THEN @ ELSE MaxSlots] = L[b]
  <2>1. L[b] \in Decl /\ L[b].count \in 1 .. MaxSlots /\ MaxSlots \in Nat
    BY LayoutFacts, Sizes, Zenon
  <2>2. (IF L[b].count < MaxSlots THEN L[b].count ELSE MaxSlots) = L[b].count
    BY <2>1, Lesser
  <2>3. [L[b] EXCEPT !.count = L[b].count] = L[b]
    BY <2>1 DEF Decl
  <2> QED
    BY <2>1, <2>2, <2>3, Zenon
<1>6. native_init(schema) = c
  <2>1. [b \in 1 .. Len(L) |-> Blank([L[b] EXCEPT !.count = IF @ < MaxSlots THEN @ ELSE MaxSlots])]
          = [b \in 1 .. Len(L) |-> Blank(L[b])]
    BY <1>5
  <2> QED
    BY <1>3, <2>1, Zenon DEF native_init
<1>7. ASSUME NEW b \in 1 .. Len(L)
      PROVE  /\ c.bufs[b] \in Storage(L[b]) /\ c.bufs[b].bits = {} /\ ZeroFree(L[b], c.bufs[b])
  <2>1. c.bufs[b] = Blank(L[b])
    OBVIOUS
  <2> QED
    BY <1>5, <2>1, BlankFits, Zenon
<1>8. /\ c = [schema |-> c.schema, bufs |-> c.bufs] /\ c.schema = schema
      /\ c.bufs = [b \in 1 .. Len(L) |-> c.bufs[b]]
  OBVIOUS
<1> HIDE DEF c
<1>9. CtxFits(c) /\ Unused(c)
  BY <1>7, <1>8 DEF CtxFits, Unused
<1> QED
  BY <1>4, <1>6, <1>8, <1>9, Zenon

\* The cart's init() allocates the player: a coherent world without a target.
LEMMA InitCoherent ==
    ASSUME NEW l, NEW c, CtxFits(c), Unused(c)
    PROVE  LET d == cart_init(l, c) IN
           /\ CtxFits(d) /\ d.schema = c.schema
           /\ \A n \in Nat : Coherent(d.schema, d.bufs, NoTarget, n)
<1> DEFINE a == Alloc(l, c, Player)
           d == a.ctx
           L == Layouts[c.schema]
           bc == c.bufs[Player]
<1>1. /\ Player \in 1 .. Len(L) /\ Mobs \in 1 .. Len(L) /\ Mobs # Player /\ DOMAIN L = 1 .. Len(L)
      /\ 0 \in 0 .. bc.count - 1
  BY CartBuffers, LayoutFacts DEF Player, Mobs
<1>2. SlotTaken(c, d, Player, a.slot)
  BY <1>1, AllocFacts, Zenon
<1>3. bc.bits = {} /\ c.bufs[Mobs].bits = {} /\ \A b \in 1 .. Len(L) : ZeroFree(L[b], c.bufs[b])
  BY <1>1, Zenon DEF Unused
<1>4. bc.count = L[Player].count /\ bc.count \in 1 .. MaxSlots
  BY <1>1, BufferFacts, Zenon
<1>5. a.slot = 0
  <2>1. \/ bc.bits = 0 .. bc.count - 1
        \/ a.slot \in 0 .. bc.count - 1 /\ \A s \in (0 .. bc.count - 1) \ bc.bits : a.slot <= s
    BY <1>1, AllocIs, Zenon
  <2> HIDE DEF a
  <2> QED
    BY <1>1, <1>3, <1>4, <2>1
<1>6. cart_init(l, c) = d
  BY DEF cart_init
<1> SUFFICES /\ CtxFits(d) /\ d.schema = c.schema
             /\ \A n \in Nat : Coherent(d.schema, d.bufs, NoTarget, n)
  BY <1>6
<1> HIDE DEF a, d
<1>7. /\ CtxFits(d) /\ d.schema = c.schema /\ d.bufs[Player].data = bc.data
      /\ \A o \in 1 .. Len(L) : o # Player => d.bufs[o] = c.bufs[o]
  BY <1>2, Zenon DEF SlotTaken
<1>8. d.bufs[Player].bits = bc.bits \cup {0}
  BY <1>2, <1>5 DEF SlotTaken
<1>9. ZeroFree(L[Player], d.bufs[Player])
  BY <1>1, <1>3, <1>7, <1>8 DEF ZeroFree
<1>10. \A b \in DOMAIN L : ZeroFree(L[b], d.bufs[b])
  BY <1>1, <1>3, <1>7, <1>9, Zenon
<1>11. NoTarget.ref = NoRef /\ NoRef \in 0 .. Pack(GenMax, MaxSlots - 1) /\ NoTarget.id = 0
  <2>1. GenMax * SlotSpan \in Nat
    BY Sizes
  <2> QED
    BY <2>1, Sizes DEF NoTarget, NoRef, Pack
<1>12. 0 \in d.bufs[Player].bits /\ d.bufs[Mobs].bits = {}
  BY <1>1, <1>3, <1>7, <1>8, Zenon
<1> QED
  BY <1>7, <1>10, <1>11, <1>12 DEF Coherent

\* Zeroing the state leaves storage as fresh as a boot's (state_ctx_zero_data).
LEMMA ZeroFits ==
    ASSUME NEW c, CtxFits(c)
    PROVE  /\ CtxFits(state_ctx_zero_data(c)) /\ Unused(state_ctx_zero_data(c))
           /\ state_ctx_zero_data(c).schema = c.schema
<1> DEFINE L == Layouts[c.schema]
           Z(bc) == [bc EXCEPT !.bits = {}, !.gens = [s \in Slots |-> 1],
                               !.data = [s \in DOMAIN @ |-> [f \in DOMAIN @[s] |-> 0]]]
           d == state_ctx_zero_data(c)
<1>1. DOMAIN c.bufs = 1 .. Len(L) /\ c = [schema |-> c.schema, bufs |-> c.bufs] /\ c.schema \in DOMAIN Layouts
  BY DEF CtxFits
<1>2. d = [schema |-> c.schema, bufs |-> [b \in 1 .. Len(L) |-> Z(c.bufs[b])]]
  <2>1. d = [c EXCEPT !.bufs = [b \in 1 .. Len(L) |-> Z(c.bufs[b])]]
    BY <1>1 DEF state_ctx_zero_data
  <2> HIDE DEF Z, d
  <2> QED
    BY <1>1, <2>1, Zenon
<1>3. ASSUME NEW b \in 1 .. Len(L)
      PROVE  Z(c.bufs[b]) \in Storage(L[b]) /\ Z(c.bufs[b]).bits = {} /\ ZeroFree(L[b], Z(c.bufs[b]))
  <2> DEFINE bc == c.bufs[b]
             decl == L[b]
             data == [s \in DOMAIN bc.data |-> [f \in DOMAIN bc.data[s] |-> 0]]
             gens == [s \in Slots |-> 1]
  <2>1. bc \in Storage(decl) /\ bc.data \in Cells(decl)
    BY BufferFacts, Zenon
  <2> HIDE DEF bc, decl
  <2>2. /\ data \in Cells(decl)
        /\ \A s \in 0 .. decl.count - 1 : \A f \in DOMAIN decl.types : data[s][f] = 0
    BY <2>1, Zenon DEF Cells
  <2>3. gens \in [Slots -> 1 .. GenMax]
    BY Sizes
  <2>4. Z(bc) = [bc EXCEPT !.bits = {}, !.gens = gens, !.data = data]
    OBVIOUS
  <2> HIDE DEF data, gens, Z
  <2>5. Z(bc) \in Storage(decl) /\ Z(bc).bits = {} /\ Z(bc).data = data
    BY <2>1, <2>2, <2>3, <2>4, Zenon DEF Storage
  <2>6. ZeroFree(decl, Z(bc))
    BY <2>2, <2>5 DEF ZeroFree
  <2> QED
    BY <2>5, <2>6 DEF bc, decl
<1> HIDE DEF Z, d
<1>4. /\ d.schema = c.schema /\ d = [schema |-> d.schema, bufs |-> d.bufs]
      /\ d.bufs = [b \in 1 .. Len(L) |-> d.bufs[b]] /\ \A b \in 1 .. Len(L) : d.bufs[b] = Z(c.bufs[b])
  BY <1>2
<1>5. CtxFits(d) /\ Unused(d)
  BY <1>1, <1>3, <1>4, Zenon DEF CtxFits, Unused
<1> QED
  BY <1>4, <1>5 DEF d

\* Buffers of one shape hold the same kind of cells, as far as their types go.
LEMMA SameCells ==
    ASSUME NEW c, CtxFits(c), NEW d, CtxFits(d),
           NEW b \in 1 .. Len(Layouts[c.schema]), b \in 1 .. Len(Layouts[d.schema]),
           SameShape(d.bufs[b], c.bufs[b])
    PROVE  d.bufs[b].data \in Cells(Layouts[c.schema][b])
<1> DEFINE x == c.bufs[b]
           y == d.bufs[b]
<1>1. /\ x.types = Layouts[c.schema][b].types /\ x.count = Layouts[c.schema][b].count
      /\ DOMAIN x.types = 1 .. Len(x.types)
  BY BufferFacts
<1>2. /\ y.types = Layouts[d.schema][b].types /\ y.count = Layouts[d.schema][b].count
      /\ DOMAIN y.types = 1 .. Len(y.types) /\ y.data \in Cells(Layouts[d.schema][b])
  BY BufferFacts, Zenon
<1>3. Len(y.types) = Len(x.types) /\ y.count = x.count
  BY DEF SameShape
<1> HIDE DEF x, y
<1>4. Cells(Layouts[c.schema][b]) = Cells(Layouts[d.schema][b])
  BY <1>1, <1>2, <1>3 DEF Cells
<1> QED
  BY <1>2, <1>4 DEF y

\* Putting a snapshot back, of this build or of another one, leaves a context of
\* this build (state_ctx_restore_snapshot).
LEMMA RestoreFits ==
    ASSUME NEW c, CtxFits(c), NEW s, CtxFits(s)
    PROVE  /\ CtxFits(state_ctx_restore_snapshot(c, s.bufs))
           /\ state_ctx_restore_snapshot(c, s.bufs).schema = c.schema
<1> DEFINE L == Layouts[c.schema]
           R(b) == IF SameShape(s.bufs[b], c.bufs[b])
                   THEN [c.bufs[b] EXCEPT !.data = s.bufs[b].data, !.bits = s.bufs[b].bits,
                                          !.gens = s.bufs[b].gens]
                   ELSE c.bufs[b]
           d == state_ctx_restore_snapshot(c, s.bufs)
<1>1. /\ DOMAIN c.bufs = 1 .. Len(L) /\ c = [schema |-> c.schema, bufs |-> c.bufs]
      /\ c.schema \in DOMAIN Layouts /\ Len(L) \in Nat
  BY LayoutFacts DEF CtxFits
<1>2. /\ DOMAIN s.bufs = 1 .. Len(Layouts[s.schema]) /\ s.schema \in DOMAIN Layouts
      /\ Len(Layouts[s.schema]) \in Nat
  BY LayoutFacts DEF CtxFits
<1>3. CASE Len(s.bufs) # Len(c.bufs)
  <2>1. d = c
    BY <1>3, Zenon DEF state_ctx_restore_snapshot
  <2> QED
    BY <2>1
<1>4. CASE Len(s.bufs) = Len(c.bufs)
  <2>1. Len(s.bufs) = Len(Layouts[s.schema]) /\ Len(c.bufs) = Len(L)
    <3>1. c.bufs \in [1 .. Len(L) -> {c.bufs[b] : b \in 1 .. Len(L)}]
      BY DEF CtxFits
    <3>2. s.bufs \in [1 .. Len(Layouts[s.schema]) -> {s.bufs[b] : b \in 1 .. Len(Layouts[s.schema])}]
      BY DEF CtxFits
    <3> QED
      BY <1>1, <1>2, <3>1, <3>2, LenIs
  <2>2. d = [schema |-> c.schema, bufs |-> [b \in 1 .. Len(L) |-> R(b)]]
    <3>1. d = [c EXCEPT !.bufs = [b \in 1 .. Len(L) |-> R(b)]]
      BY <1>1, <1>4 DEF state_ctx_restore_snapshot
    <3> HIDE DEF R, d
    <3> QED
      BY <1>1, <3>1, Zenon
  <2>3. ASSUME NEW b \in 1 .. Len(L)
        PROVE  R(b) \in Storage(L[b])
    <3>1. b \in 1 .. Len(Layouts[s.schema])
      BY <1>4, <2>1, Zenon
    <3>2. c.bufs[b] \in Storage(L[b]) /\ s.bufs[b].bits \subseteq 0 .. s.bufs[b].count - 1
          /\ s.bufs[b].gens \in [Slots -> 1 .. GenMax] /\ c.bufs[b].count = L[b].count
      BY <3>1, BufferFacts, Zenon
    <3>3. CASE SameShape(s.bufs[b], c.bufs[b])
      <4>1. s.bufs[b].data \in Cells(L[b])
        BY <3>1, <3>3, SameCells
      <4>2. s.bufs[b].count = c.bufs[b].count
        BY <3>3 DEF SameShape
      <4>3. R(b) = [c.bufs[b] EXCEPT !.data = s.bufs[b].data, !.bits = s.bufs[b].bits,
                                     !.gens = s.bufs[b].gens]
        BY <3>3
      <4> HIDE DEF R, L
      <4> QED
        BY <3>2, <4>1, <4>2, <4>3, Zenon DEF Storage
    <3>4. CASE ~SameShape(s.bufs[b], c.bufs[b])
      BY <3>2, <3>4, Zenon
    <3> QED
      BY <3>3, <3>4
  <2> HIDE DEF R, d
  <2>4. /\ d.schema = c.schema /\ d = [schema |-> d.schema, bufs |-> d.bufs]
        /\ d.bufs = [b \in 1 .. Len(L) |-> d.bufs[b]] /\ \A b \in 1 .. Len(L) : d.bufs[b] = R(b)
    BY <2>2, Zenon
  <2>5. CtxFits(d)
    BY <1>1, <2>3, <2>4 DEF CtxFits
  <2> QED
    BY <2>4, <2>5, Zenon DEF d
<1> QED
  BY <1>3, <1>4

\* The same buffers under another build of the cart are as coherent: the shapes agree.
LEMMA RestoredCoherent ==
    ASSUME NEW d, CtxFits(d), NEW s, CtxFits(s), d.bufs = s.bufs, NEW h, NEW n,
           Coherent(s.schema, s.bufs, h, n)
    PROVE  Coherent(d.schema, d.bufs, h, n)
<1> DEFINE L == Layouts[d.schema]
           K == Layouts[s.schema]
<1>1. /\ DOMAIN d.bufs = 1 .. Len(L) /\ DOMAIN s.bufs = 1 .. Len(K)
      /\ d.schema \in DOMAIN Layouts /\ s.schema \in DOMAIN Layouts
  BY Zenon DEF CtxFits
<1>2. DOMAIN L = 1 .. Len(L) /\ DOMAIN K = 1 .. Len(K)
  BY <1>1, LayoutFacts, Zenon
<1>3. DOMAIN L = DOMAIN K
  BY <1>1, <1>2, Zenon
<1>4. ASSUME NEW b \in DOMAIN L PROVE L[b].types = K[b].types /\ L[b].count = K[b].count
  <2>1. d.bufs[b].types = L[b].types /\ d.bufs[b].count = L[b].count
    BY <1>2, BufferFacts, Zenon
  <2>2. s.bufs[b].types = K[b].types /\ s.bufs[b].count = K[b].count
    BY <1>2, <1>3, BufferFacts, Zenon
  <2> QED
    BY <2>1, <2>2, Zenon
<1>5. Mobs \in DOMAIN L
  BY <1>2, CartBuffers
<1>6. \A b \in DOMAIN L : ZeroFree(K[b], s.bufs[b]) => ZeroFree(L[b], d.bufs[b])
  BY <1>4, Zenon DEF ZeroFree
<1>7. Tracks(K[Mobs], s.bufs[Mobs], h, n) => Tracks(L[Mobs], d.bufs[Mobs], h, n)
  BY <1>4, <1>5, Zenon DEF Tracks
<1> HIDE DEF L, K
<1> QED
  BY <1>3, <1>6, <1>7, Zenon DEF Coherent, L, K

\* on_load_state takes the target back from the player's record.
LEMMA LoadTarget ==
    ASSUME NEW d, CtxFits(d)
    PROVE  /\ on_load_state(d) \in [ref : Nat, id : Nat]
           /\ 0 \in d.bufs[Player].bits => on_load_state(d) = SavedTarget(d.bufs)
<1> DEFINE bc == d.bufs[Player]
           decl == Layouts[d.schema][Player]
<1>1. /\ Player \in 1 .. Len(Layouts[d.schema]) /\ 1 \in DOMAIN bc.types /\ 2 \in DOMAIN bc.types
      /\ 0 \in 0 .. bc.count - 1 /\ 0 \in Int
  BY CartBuffers
<1>2. /\ Get(leg, d, Player, 0, 1) = IF 0 \in bc.bits THEN bc.data[0][1] ELSE 0
      /\ Get(leg, d, Player, 0, 2) = IF 0 \in bc.bits THEN bc.data[0][2] ELSE 0
  BY <1>1, GetIs, Zenon
<1>3. bc.types = decl.types /\ bc.count = decl.count /\ bc.data \in Cells(decl)
  BY <1>1, BufferFacts, Zenon
<1> HIDE DEF bc, decl
<1>4. bc.data[0][1] \in Nat /\ bc.data[0][2] \in Nat
  BY <1>1, <1>3, Zenon DEF Cells
<1> QED
  BY <1>2, <1>4 DEF on_load_state, SavedTarget, bc

-----------------------------------------------------------------------------
\* What is on disk after a write, whole or cut short, fits; whole, it is as
\* coherent as the state it was written from (blys_write).
LEMMA WrittenFile ==
    ASSUME NEW c, CtxFits(c)
    PROVE  LET f == blys_write(c) IN
           /\ Len(f.sects) = Len(Layouts[c.schema]) /\ f.schema = c.schema
           /\ f = [header |-> "full", schema |-> c.schema, tear |-> "none", sects |-> f.sects]
           /\ f.sects \in Seq({f.sects[b] : b \in 1 .. Len(Layouts[c.schema])})
           /\ f.sects = [b \in 1 .. Len(Layouts[c.schema]) |-> f.sects[b]]
           /\ \A b \in 1 .. Len(Layouts[c.schema]) :
                 /\ f.sects[b] \in Section(Layouts[c.schema][b])
                 /\ f.sects[b].data = c.bufs[b].data /\ f.sects[b].bits = c.bufs[b].bits
                 /\ f.sects[b].gens = c.bufs[b].gens
<1> DEFINE L == Layouts[c.schema]
           sects == [b \in 1 .. Len(L) |-> blys_section(c, b)]
           f == blys_write(c)
<1>1. DOMAIN c.bufs = 1 .. Len(L) /\ c.schema \in DOMAIN Layouts
  BY DEF CtxFits
<1>2. Len(L) \in Nat
  BY <1>1, LayoutFacts, Zenon
<1>3. f = [header |-> "full", schema |-> c.schema, tear |-> "none", sects |-> sects]
  BY <1>1 DEF blys_write
<1>4. f.sects = sects /\ f.schema = c.schema
  BY <1>3
<1>5. /\ sects \in Seq({sects[b] : b \in 1 .. Len(L)}) /\ Len(sects) = Len(L)
  <2>1. sects \in [1 .. Len(L) -> {sects[b] : b \in 1 .. Len(L)}]
    OBVIOUS
  <2> HIDE DEF sects
  <2> QED
    BY <1>2, <2>1, LenIs, Zenon
<1>6. ASSUME NEW b \in 1 .. Len(L)
      PROVE  /\ sects[b] \in Section(L[b])
             /\ sects[b].data = c.bufs[b].data /\ sects[b].bits = c.bufs[b].bits
             /\ sects[b].gens = c.bufs[b].gens
  <2>1. sects[b] = [name |-> L[b].name, data |-> c.bufs[b].data,
                    bits |-> c.bufs[b].bits, gens |-> c.bufs[b].gens]
    BY Zenon DEF blys_section, NameOf
  <2>2. /\ c.bufs[b].data \in Cells(L[b]) /\ c.bufs[b].gens \in [Slots -> 1 .. GenMax]
        /\ c.bufs[b].bits \subseteq 0 .. c.bufs[b].count - 1 /\ c.bufs[b].count = L[b].count
    BY BufferFacts
  <2> HIDE DEF sects, L
  <2> QED
    BY <2>1, <2>2 DEF Section
<1>7. sects = [b \in 1 .. Len(L) |-> sects[b]]
  OBVIOUS
<1> HIDE DEF sects, f
<1> SUFFICES /\ Len(f.sects) = Len(L) /\ f.schema = c.schema
             /\ f = [header |-> "full", schema |-> c.schema, tear |-> "none", sects |-> f.sects]
             /\ f.sects \in Seq({f.sects[b] : b \in 1 .. Len(L)})
             /\ f.sects = [b \in 1 .. Len(L) |-> f.sects[b]]
             /\ \A b \in 1 .. Len(L) :
                   /\ f.sects[b] \in Section(L[b])
                   /\ f.sects[b].data = c.bufs[b].data /\ f.sects[b].bits = c.bufs[b].bits
                   /\ f.sects[b].gens = c.bufs[b].gens
  BY Zenon DEF f
<1> QED
  BY <1>3, <1>4, <1>5, <1>6, <1>7, Zenon

\* A file of some sections of the cart's buffers, in order, fits.
LEMMA FullFits ==
    ASSUME NEW schema \in DOMAIN Layouts, NEW t \in Tears, NEW S, NEW q \in Seq(S),
           Len(q) <= Len(Layouts[schema]),
           \A k \in 1 .. Len(q) : q[k] \in Section(Layouts[schema][k])
    PROVE  FileFits([header |-> "full", schema |-> schema, tear |-> t, sects |-> q])
<1> DEFINE x == [header |-> "full", schema |-> schema, tear |-> t, sects |-> q]
           n == Len(q)
<1>1. n \in Nat /\ q \in [1 .. n -> S]
  BY LenProperties
<1>2. n \in 0 .. Len(Layouts[schema])
  BY <1>1, LayoutFacts
<1> HIDE DEF n
<1>3. q = [k \in 1 .. n |-> q[k]]
  BY <1>1
<1>4. x.schema = schema /\ x.tear = t /\ x.sects = q
  OBVIOUS
<1>5. x = [header |-> "full", schema |-> x.schema, tear |-> x.tear, sects |-> x.sects]
  OBVIOUS
<1> HIDE DEF x
<1>6. \E m \in 0 .. Len(Layouts[x.schema]) :
         /\ x.sects = [k \in 1 .. m |-> x.sects[k]] /\ Len(x.sects) = m
         /\ \A k \in 1 .. m : x.sects[k] \in Section(Layouts[x.schema][k])
  BY <1>2, <1>3, <1>4, Zenon DEF n
<1>7. FileFits(x)
  BY <1>4, <1>5, <1>6, Zenon DEF FileFits
<1> QED
  BY <1>7 DEF x

\* However far a write got, what it left fits, and all sections are there only when
\* they are those of the state (blys_write up to the point it stopped).
LEMMA PrefixFits ==
    ASSUME NEW c, CtxFits(c), NEW w \in Prefixes(blys_write(c))
    PROVE  /\ FileFits(w)
           /\ w.header = "full" =>
                 /\ w.schema = c.schema
                 /\ Len(w.sects) = Len(Layouts[c.schema]) => w.sects = blys_write(c).sects
<1> DEFINE L == Layouts[c.schema]
           f == blys_write(c)
           q == f.sects
           S == {q[b] : b \in 1 .. Len(L)}
<1>1. /\ f = [header |-> "full", schema |-> c.schema, tear |-> "none", sects |-> q]
      /\ q \in Seq(S) /\ Len(q) = Len(L)
      /\ \A b \in 1 .. Len(L) : q[b] \in Section(L[b])
  BY WrittenFile, Zenon
<1>2. c.schema \in DOMAIN Layouts /\ Len(L) \in Nat /\ Len(L) >= 2
  BY LayoutFacts DEF CtxFits
<1> HIDE DEF f, q, S, L
<1>3. CASE w = [header |-> "short"]
  <2>1. w.header = "short"
    BY <1>3
  <2>2. FileFits(w)
    BY <1>3, Zenon DEF FileFits
  <2> QED
    BY <2>1, <2>2
<1>4. CASE w = [f EXCEPT !.sects = <<>>]
  <2>1. w = [header |-> "full", schema |-> c.schema, tear |-> "none", sects |-> <<>>]
    BY <1>1, <1>4
  <2>2. Len(<<>>) = 0 /\ <<>> \in Seq(S) /\ "none" \in Tears
    BY DEF Tears
  <2>3. FileFits(w)
    <3>1. \A k \in 1 .. Len(<<>>) : <<>>[k] \in Section(L[k])
      BY <2>2
    <3>2. Len(<<>>) <= Len(L)
      BY <1>2, <2>2
    <3> QED
      BY <1>2, <2>1, <2>2, <3>1, <3>2, FullFits, Zenon DEF L
  <2>4. w.schema = c.schema /\ Len(w.sects) # Len(L)
    BY <1>2, <2>1, <2>2
  <2> QED
    BY <2>3, <2>4 DEF L
<1>5. ASSUME NEW k \in 1 .. Len(q), NEW t \in Tears, w = Cut(f, k, t)
      PROVE  /\ FileFits(w) /\ w.schema = c.schema
             /\ Len(w.sects) = Len(L) => w.sects = q
  <2> DEFINE p == SubSeq(q, 1, k)
  <2>1. w = [header |-> "full", schema |-> c.schema, tear |-> t, sects |-> p]
    <3>1. f.sects = q
      BY <1>1
    <3>2. w = [f EXCEPT !.sects = p, !.tear = t]
      BY <1>5, <3>1 DEF Cut
    <3> HIDE DEF p
    <3> QED
      BY <1>1, <3>2, Zenon
  <2>2. Len(q) \in Nat /\ 1 \in 1 .. Len(q) + 1 /\ k \in 1 - 1 .. Len(q) /\ k \in Nat
    BY <1>1, <1>2
  <2>3. p \in Seq(S) /\ Len(p) = k - 1 + 1 /\ \A i \in 1 .. k - 1 + 1 : p[i] = q[1 + i - 1]
    BY <1>1, <2>2, SubSeqProperties
  <2>4. k = Len(q) => p = q
    BY <1>1, SubSeqFull, Zenon
  <2> HIDE DEF p
  <2>5. Len(p) = k
    BY <2>2, <2>3
  <2>6. \A i \in 1 .. Len(p) : p[i] \in Section(L[i])
    <3> SUFFICES ASSUME NEW i \in 1 .. Len(p) PROVE p[i] \in Section(L[i])
      OBVIOUS
    <3>1. i \in 1 .. k - 1 + 1 /\ 1 + i - 1 = i /\ i \in 1 .. Len(L)
      BY <1>1, <2>2, <2>5
    <3>2. p[i] = q[i]
      BY <2>3, <3>1
    <3> QED
      BY <1>1, <3>1, <3>2, Zenon
  <2>7. Len(p) <= Len(L)
    BY <1>1, <2>2, <2>5
  <2>8. FileFits(w)
    BY <1>2, <2>1, <2>3, <2>6, <2>7, FullFits, Zenon DEF L
  <2>9. w.schema = c.schema /\ w.sects = p
    BY <2>1
  <2> QED
    BY <1>1, <2>4, <2>5, <2>8, <2>9, Zenon
<1>6. \/ w = [header |-> "short"]
      \/ w = [f EXCEPT !.sects = <<>>]
      \/ \E k \in 1 .. Len(q), t \in Tears : w = Cut(f, k, t)
  <2>1. w \in Prefixes(f)
    BY DEF f
  <2> QED
    BY <2>1, PrefixIs, Zenon DEF q
<1> QED
  BY <1>3, <1>4, <1>5, <1>6, Zenon DEF f, q, L

\* Coherence is about data, allocation bits and generations only.
LEMMA SameContents ==
    ASSUME NEW schema \in DOMAIN Layouts, NEW x, NEW y, NEW h, NEW n,
           \A b \in 1 .. Len(Layouts[schema]) :
              y[b].data = x[b].data /\ y[b].bits = x[b].bits /\ y[b].gens = x[b].gens
    PROVE  /\ SavedTarget(y) = SavedTarget(x)
           /\ Coherent(schema, x, h, n) => Coherent(schema, y, h, n)
<1> DEFINE L == Layouts[schema]
<1>1. Player \in 1 .. Len(L) /\ Mobs \in 1 .. Len(L) /\ DOMAIN L = 1 .. Len(L)
  BY CartFields, LayoutFacts
<1>2. \A b \in DOMAIN L : ZeroFree(L[b], x[b]) => ZeroFree(L[b], y[b])
  BY <1>1, Zenon DEF ZeroFree
<1>3. Tracks(L[Mobs], x[Mobs], h, n) => Tracks(L[Mobs], y[Mobs], h, n)
  BY <1>1, Zenon DEF Tracks
<1> HIDE DEF L
<1> QED
  BY <1>1, <1>2, <1>3, Zenon DEF Coherent, SavedTarget, L

\* A file written from a coherent state, or the front part of one, is coherent once
\* it has all the sections.
LEMMA PrefixCoherent ==
    ASSUME NEW c, CtxFits(c), NEW w \in Prefixes(blys_write(c)), w.header = "full",
           NEW n, Coherent(c.schema, c.bufs, SavedTarget(c.bufs), n)
    PROVE  SavedCoherent(w, n)
<1> SUFFICES ASSUME Len(w.sects) = Len(Layouts[w.schema])
             PROVE  Coherent(w.schema, w.sects, SavedTarget(w.sects), n)
  BY DEF SavedCoherent
<1>1. w.schema = c.schema
  BY PrefixFits, Zenon
<1>2. w.sects = blys_write(c).sects
  BY <1>1, PrefixFits, Zenon
<1>3. c.schema \in DOMAIN Layouts
  BY DEF CtxFits
<1>4. \A b \in 1 .. Len(Layouts[c.schema]) :
         /\ w.sects[b].data = c.bufs[b].data /\ w.sects[b].bits = c.bufs[b].bits
         /\ w.sects[b].gens = c.bufs[b].gens
  <2> DEFINE f == blys_write(c)
  <2>1. \A b \in 1 .. Len(Layouts[c.schema]) :
           /\ f.sects[b].data = c.bufs[b].data /\ f.sects[b].bits = c.bufs[b].bits
           /\ f.sects[b].gens = c.bufs[b].gens
    BY WrittenFile, Zenon
  <2> QED
    BY <1>2, <2>1, Zenon
<1> QED
  BY <1>1, <1>3, <1>4, SameContents, Zenon

-----------------------------------------------------------------------------
\* A full file of the context's build: its sections are those of the first buffers.
SectionsOf(c, f) ==
    /\ CtxFits(c) /\ FileFits(f) /\ f.header = "full" /\ f.schema = c.schema

\* What the sections of such a file hold.
LEMMA SectionFacts ==
    ASSUME NEW c, NEW f, SectionsOf(c, f)
    PROVE  /\ f = [header |-> "full", schema |-> c.schema, tear |-> f.tear, sects |-> f.sects]
           /\ f.tear \in Tears /\ Len(f.sects) \in 0 .. Len(Layouts[c.schema])
           /\ f.sects = [k \in 1 .. Len(f.sects) |-> f.sects[k]]
           /\ DOMAIN f.sects = 1 .. Len(f.sects)
           /\ \A k \in 1 .. Len(f.sects) :
                 f.sects[k] \in Section(Layouts[c.schema][k]) /\ k \in 1 .. Len(Layouts[c.schema])
<1> DEFINE L == Layouts[c.schema]
<1>1. f \notin {NoFile, [header |-> "short"]}
  BY DEF SectionsOf, NoFile
<1>2. /\ f = [header |-> "full", schema |-> c.schema, tear |-> f.tear, sects |-> f.sects]
      /\ f.tear \in Tears
      /\ \E n \in 0 .. Len(L) :
            /\ f.sects = [k \in 1 .. n |-> f.sects[k]] /\ Len(f.sects) = n
            /\ \A k \in 1 .. n : f.sects[k] \in Section(L[k])
  BY <1>1, Zenon DEF SectionsOf, FileFits
<1>3. /\ Len(f.sects) \in 0 .. Len(L) /\ f.sects = [k \in 1 .. Len(f.sects) |-> f.sects[k]]
      /\ \A k \in 1 .. Len(f.sects) : f.sects[k] \in Section(L[k])
  BY <1>2, Zenon
<1>4. Len(L) \in Nat
  BY LayoutFacts DEF SectionsOf, CtxFits
<1>5. DOMAIN f.sects = 1 .. Len(f.sects)
  BY <1>3, Zenon
<1>6. \A k \in 1 .. Len(f.sects) : k \in 1 .. Len(L)
  BY <1>3, <1>4
<1> QED
  BY <1>2, <1>3, <1>5, <1>6, Zenon

\* Names are distinct, so a section goes to the buffer it was written from.
LEMMA NameIs ==
    ASSUME NEW c, CtxFits(c), NEW k \in 1 .. Len(Layouts[c.schema])
    PROVE  name_eq(c, Layouts[c.schema][k].name) = {k}
<1> DEFINE L == Layouts[c.schema]
<1>1. c.schema \in DOMAIN Layouts /\ DOMAIN c.bufs = 1 .. Len(L)
  BY DEF CtxFits
<1>2. DOMAIN L = 1 .. Len(L)
  BY <1>1, LayoutFacts
<1>3. \A a, b \in DOMAIN L : L[a].name = L[b].name => a = b
  BY <1>1, LayoutsFit, Zenon
<1> QED
  BY <1>1, <1>2, <1>3, Zenon DEF name_eq, NameOf

\* The sections that reach a buffer: the one it was written to, unless it is torn.
LEMMA ApplySectionIs ==
    ASSUME NEW c, NEW f, SectionsOf(c, f), NEW b \in 1 .. Len(Layouts[c.schema]), NEW tears
    PROVE  ReadInto(c, f, b, tears) =
              IF b \in 1 .. Len(f.sects) /\ (b = Len(f.sects) => f.tear \notin tears) THEN {b} ELSE {}
<1> DEFINE A == ReadInto(c, f, b, tears)
<1>1. /\ DOMAIN f.sects = 1 .. Len(f.sects)
      /\ \A k \in 1 .. Len(f.sects) :
            f.sects[k] \in Section(Layouts[c.schema][k]) /\ k \in 1 .. Len(Layouts[c.schema])
  BY SectionFacts, Zenon
<1>2. CtxFits(c)
  BY DEF SectionsOf
<1>3. ASSUME NEW k \in 1 .. Len(f.sects)
      PROVE  name_eq(c, f.sects[k].name) = {k}
  <2>1. f.sects[k].name = Layouts[c.schema][k].name
    BY <1>1 DEF Section
  <2> QED
    BY <1>1, <1>2, <2>1, NameIs, Zenon
<1>4. \A k \in A : /\ k \in 1 .. Len(f.sects) /\ b \in name_eq(c, f.sects[k].name)
                   /\ k = Len(f.sects) => f.tear \notin tears
  BY <1>1, Zenon DEF ReadInto
<1>5. b <= b
  OBVIOUS
<1>6. b \in 1 .. Len(f.sects) /\ (b = Len(f.sects) => f.tear \notin tears) => b \in A
  <2> SUFFICES ASSUME b \in 1 .. Len(f.sects), b = Len(f.sects) => f.tear \notin tears PROVE b \in A
    OBVIOUS
  <2> DEFINE same == name_eq(c, f.sects[b].name)
  <2>1. same = {b}
    BY <1>3, Zenon
  <2> HIDE DEF same
  <2>2. b \in same /\ \A o \in same : b <= o
    BY <1>5, <2>1, Zenon
  <2> QED
    BY <1>1, <2>2, Zenon DEF ReadInto, same
<1> HIDE DEF A
<1>7. ASSUME NEW k \in A PROVE k = b
  <2>1. name_eq(c, f.sects[k].name) = {k} /\ b \in name_eq(c, f.sects[k].name)
    BY <1>3, <1>4, Zenon
  <2> QED
    BY <2>1
<1>8. A = IF b \in 1 .. Len(f.sects) /\ (b = Len(f.sects) => f.tear \notin tears) THEN {b} ELSE {}
  BY <1>4, <1>6, <1>7, Zenon
<1> QED
  BY <1>8 DEF A

\* Context d is one of the build of c, and if all the sections of the file are there,
\* it is exactly what the file holds.
Applied(c, f, d) ==
    /\ CtxFits(d) /\ d.schema = c.schema
    /\ f.tear = "none" /\ Len(f.sects) = Len(Layouts[c.schema]) =>
          \A b \in 1 .. Len(Layouts[c.schema]) :
             /\ d.bufs[b].data = f.sects[b].data /\ d.bufs[b].bits = f.sects[b].bits
             /\ d.bufs[b].gens = f.sects[b].gens

\* What a load leaves in a context (blys_read).
LEMMA ApplyFacts ==
    ASSUME NEW c, NEW f, SectionsOf(c, f)
    PROVE  Applied(c, f, ApplySections(c, f))
<1> DEFINE L == Layouts[c.schema]
           T(b, tears) == b \in 1 .. Len(f.sects) /\ (b = Len(f.sects) => f.tear \notin tears)
           data(b) == IF T(b, {"sect", "name"}) THEN f.sects[b].data ELSE c.bufs[b].data
           bits(b) == IF T(b, {"sect", "name", "data"}) THEN f.sects[b].bits ELSE c.bufs[b].bits
           gens(b) == IF T(b, {"sect", "name", "data", "bits"}) THEN f.sects[b].gens ELSE c.bufs[b].gens
           R(b) == [c.bufs[b] EXCEPT !.data = data(b), !.bits = bits(b), !.gens = gens(b)]
           d == ApplySections(c, f)
<1>1. /\ CtxFits(c) /\ DOMAIN c.bufs = 1 .. Len(L) /\ c = [schema |-> c.schema, bufs |-> c.bufs]
      /\ c.schema \in DOMAIN Layouts
  BY DEF SectionsOf, CtxFits
<1>2. ASSUME NEW b \in 1 .. Len(L), NEW tears
      PROVE  LET A == ReadInto(c, f, b, tears) IN
             /\ A = {} <=> ~T(b, tears)
             /\ T(b, tears) => Latest(A) = b
  <2> DEFINE A == ReadInto(c, f, b, tears)
  <2>1. A = IF T(b, tears) THEN {b} ELSE {}
    BY ApplySectionIs, Zenon
  <2>2. Latest({b}) = b
    <3>1. b <= b
      OBVIOUS
    <3> QED
      BY <3>1, Zenon DEF Latest
  <2> HIDE DEF A, T
  <2>3. (A = {} <=> ~T(b, tears)) /\ (T(b, tears) => Latest(A) = b)
    BY <2>1, <2>2, Zenon
  <2> QED
    BY <2>3 DEF A
<1>3. ASSUME NEW b \in 1 .. Len(L)
      PROVE  LET D == ReadInto(c, f, b, {"sect", "name"})
                 B == ReadInto(c, f, b, {"sect", "name", "data"})
                 G == ReadInto(c, f, b, {"sect", "name", "data", "bits"})
             IN  /\ (IF D = {} THEN c.bufs[b].data ELSE f.sects[Latest(D)].data) = data(b)
                 /\ (IF B = {} THEN c.bufs[b].bits ELSE f.sects[Latest(B)].bits) = bits(b)
                 /\ (IF G = {} THEN c.bufs[b].gens ELSE f.sects[Latest(G)].gens) = gens(b)
  <2> HIDE DEF T
  <2> QED
    BY <1>2, Zenon
<1>4. d = [c EXCEPT !.bufs = [b \in 1 .. Len(L) |-> R(b)]]
  <2> HIDE DEF data, bits, gens
  <2> QED
    BY <1>1, <1>3, Zenon DEF ApplySections
<1>5. ASSUME NEW b \in 1 .. Len(L)
      PROVE  /\ R(b) \in Storage(L[b])
             /\ R(b).data = data(b) /\ R(b).bits = bits(b) /\ R(b).gens = gens(b)
  <2>1. /\ c.bufs[b] \in Storage(L[b]) /\ c.bufs[b].data \in Cells(L[b])
        /\ c.bufs[b].bits \subseteq 0 .. c.bufs[b].count - 1 /\ c.bufs[b].count = L[b].count
        /\ c.bufs[b].gens \in [Slots -> 1 .. GenMax]
    BY <1>1, BufferFacts
  <2>2. b \in 1 .. Len(f.sects) =>
           /\ f.sects[b].data \in Cells(L[b]) /\ f.sects[b].bits \in SUBSET (0 .. L[b].count - 1)
           /\ f.sects[b].gens \in [Slots -> 1 .. GenMax]
    <3>1. b \in 1 .. Len(f.sects) => f.sects[b] \in Section(L[b])
      BY SectionFacts, Zenon
    <3> HIDE DEF L
    <3> QED
      BY <3>1 DEF Section
  <2>3. /\ data(b) \in Cells(L[b]) /\ bits(b) \in SUBSET (0 .. L[b].count - 1)
        /\ gens(b) \in [Slots -> 1 .. GenMax]
    <3> HIDE DEF L
    <3> QED
      BY <2>1, <2>2, Zenon
  <2> HIDE DEF data, bits, gens, L
  <2> QED
    BY <2>1, <2>3, Zenon DEF Storage
<1> HIDE DEF R, d, data, bits, gens, T
<1>6. d = [schema |-> c.schema, bufs |-> [b \in 1 .. Len(L) |-> R(b)]]
  BY <1>1, <1>4, Zenon
<1>7. /\ d.schema = c.schema /\ d = [schema |-> d.schema, bufs |-> d.bufs]
      /\ d.bufs = [b \in 1 .. Len(L) |-> d.bufs[b]] /\ \A b \in 1 .. Len(L) : d.bufs[b] = R(b)
  BY <1>6
<1>8. CtxFits(d)
  BY <1>1, <1>5, <1>7, Zenon DEF CtxFits
<1>9. ASSUME f.tear = "none", Len(f.sects) = Len(L), NEW b \in 1 .. Len(L)
      PROVE  /\ d.bufs[b].data = f.sects[b].data /\ d.bufs[b].bits = f.sects[b].bits
             /\ d.bufs[b].gens = f.sects[b].gens
  <2>1. T(b, {"sect", "name"}) /\ T(b, {"sect", "name", "data"}) /\ T(b, {"sect", "name", "data", "bits"})
    BY <1>9 DEF T
  <2>2. data(b) = f.sects[b].data /\ bits(b) = f.sects[b].bits /\ gens(b) = f.sects[b].gens
    BY <2>1, Zenon DEF data, bits, gens
  <2> QED
    BY <1>5, <1>7, <2>2, Zenon
<1>10. Applied(c, f, d)
  BY <1>7, <1>8, <1>9, Zenon DEF Applied
<1> QED
  BY <1>10 DEF d

\* A file that names every buffer has all the sections.
LEMMA WholeLen ==
    ASSUME NEW c, NEW f, SectionsOf(c, f), Whole(c, f)
    PROVE  f.tear = "none" /\ Len(f.sects) = Len(Layouts[c.schema])
<1> DEFINE L == Layouts[c.schema]
           b == Len(L)
<1>1. CtxFits(c) /\ DOMAIN c.bufs = 1 .. Len(L) /\ c.schema \in DOMAIN Layouts
  BY Zenon DEF SectionsOf, CtxFits
<1>2. Len(L) \in Nat /\ b \in 1 .. Len(L)
  BY <1>1, LayoutFacts
<1>3. /\ DOMAIN f.sects = 1 .. Len(f.sects) /\ Len(f.sects) \in 0 .. Len(L)
      /\ \A k \in 1 .. Len(f.sects) : f.sects[k] \in Section(L[k]) /\ k \in 1 .. Len(L)
  BY SectionFacts, Zenon
<1>4. PICK k \in DOMAIN f.sects : f.sects[k].name = NameOf(c, b)
  BY <1>1, <1>2, Zenon DEF Whole
<1>5. f.sects[k].name = L[k].name
  BY <1>3 DEF Section
<1>6. name_eq(c, L[b].name) = {b}
  BY <1>1, <1>2, NameIs, Zenon
<1>7. k \in name_eq(c, L[b].name)
  BY <1>1, <1>3, <1>4, <1>5, Zenon DEF name_eq, NameOf
<1>8. k = b
  BY <1>6, <1>7, Zenon
<1>9. Len(f.sects) = Len(L)
  BY <1>2, <1>3, <1>8
<1> QED
  BY <1>9, Zenon DEF Whole

\* A whole file read back is the state it was written from: coherent if the file is,
\* and it saves to the same file again.
LEMMA LoadedWhole ==
    ASSUME NEW c, NEW f, SectionsOf(c, f), Whole(c, f)
    PROVE  LET d == ApplySections(c, f) IN
           /\ blys_write(d) = f
           /\ \A n : SavedCoherent(f, n) => Coherent(d.schema, d.bufs, on_load_state(d), n)
<1> DEFINE L == Layouts[c.schema]
           d == ApplySections(c, f)
           g == blys_write(d)
<1>1. f.tear = "none" /\ Len(f.sects) = Len(L)
  BY WholeLen, Zenon
<1>2. /\ CtxFits(d) /\ d.schema = c.schema
      /\ \A b \in 1 .. Len(L) :
            /\ d.bufs[b].data = f.sects[b].data /\ d.bufs[b].bits = f.sects[b].bits
            /\ d.bufs[b].gens = f.sects[b].gens
  <2>1. Applied(c, f, d)
    BY ApplyFacts, Zenon
  <2> HIDE DEF d
  <2> QED
    BY <1>1, <2>1, Zenon DEF Applied
<1>3. /\ f = [header |-> "full", schema |-> c.schema, tear |-> f.tear, sects |-> f.sects]
      /\ f.sects = [k \in 1 .. Len(f.sects) |-> f.sects[k]]
      /\ \A k \in 1 .. Len(f.sects) : f.sects[k] \in Section(L[k])
  BY SectionFacts, Zenon
<1>4. f.schema = c.schema /\ c.schema \in DOMAIN Layouts
  BY DEF SectionsOf, CtxFits
<1> SUFFICES /\ g = f
             /\ \A n : SavedCoherent(f, n) => Coherent(d.schema, d.bufs, on_load_state(d), n)
  OBVIOUS
<1> HIDE DEF d, L
<1>5. /\ g = [header |-> "full", schema |-> d.schema, tear |-> "none", sects |-> g.sects]
      /\ g.sects = [b \in 1 .. Len(L) |-> g.sects[b]]
      /\ \A b \in 1 .. Len(L) :
            /\ g.sects[b] \in Section(L[b])
            /\ g.sects[b].data = d.bufs[b].data /\ g.sects[b].bits = d.bufs[b].bits
            /\ g.sects[b].gens = d.bufs[b].gens
  <2> DEFINE K == Layouts[d.schema]
  <2>1. /\ g = [header |-> "full", schema |-> d.schema, tear |-> "none", sects |-> g.sects]
        /\ g.sects = [b \in 1 .. Len(K) |-> g.sects[b]]
        /\ \A b \in 1 .. Len(K) :
              /\ g.sects[b] \in Section(K[b])
              /\ g.sects[b].data = d.bufs[b].data /\ g.sects[b].bits = d.bufs[b].bits
              /\ g.sects[b].gens = d.bufs[b].gens
    BY <1>2, WrittenFile, Zenon
  <2>2. K = L
    BY <1>2, Zenon DEF L
  <2> HIDE DEF K, g
  <2> QED
    BY <2>1, <2>2, Zenon
<1> HIDE DEF g
<1>6. ASSUME NEW b \in 1 .. Len(L) PROVE g.sects[b] = f.sects[b]
  <2>1. f.sects[b] \in Section(L[b]) /\ g.sects[b] \in Section(L[b])
    BY <1>1, <1>3, <1>5, Zenon
  <2>2. /\ g.sects[b].data = f.sects[b].data /\ g.sects[b].bits = f.sects[b].bits
        /\ g.sects[b].gens = f.sects[b].gens
    BY <1>2, <1>5, Zenon
  <2> QED
    BY <2>1, <2>2 DEF Section
<1>7. g.sects = f.sects
  <2>1. f.sects = [b \in 1 .. Len(L) |-> f.sects[b]]
    BY <1>1, <1>3
  <2>2. [b \in 1 .. Len(L) |-> g.sects[b]] = [b \in 1 .. Len(L) |-> f.sects[b]]
    BY <1>6, Zenon
  <2> QED
    BY <1>5, <2>1, <2>2, Zenon
<1>8. g = f
  <2>1. g = [header |-> "full", schema |-> c.schema, tear |-> "none", sects |-> f.sects]
    BY <1>2, <1>5, <1>7, Zenon
  <2>2. f = [header |-> "full", schema |-> c.schema, tear |-> "none", sects |-> f.sects]
    BY <1>1, <1>3, Zenon
  <2> QED
    BY <2>1, <2>2, Zenon
<1>9. ASSUME NEW n, SavedCoherent(f, n)
      PROVE  Coherent(d.schema, d.bufs, on_load_state(d), n)
  <2>1. Coherent(c.schema, f.sects, SavedTarget(f.sects), n)
    BY <1>1, <1>4, <1>9, Zenon DEF SavedCoherent, L
  <2>2. /\ SavedTarget(d.bufs) = SavedTarget(f.sects)
        /\ Coherent(c.schema, d.bufs, SavedTarget(f.sects), n)
    BY <1>2, <1>4, <2>1, SameContents, Zenon DEF L
  <2>3. on_load_state(d) = SavedTarget(d.bufs)
    BY <1>2, <2>2, LoadTarget, Zenon DEF Coherent
  <2> QED
    BY <1>2, <2>2, <2>3, Zenon
<1> QED
  BY <1>8, <1>9

\* The two readers: a refused file changes nothing, an accepted one is applied.
ReadAs(c, f, r) ==
    \/ r.ctx = c /\ r.rc \in {"io", "not_found", "schema"}
    \/ SectionsOf(c, f) /\ r.ctx = ApplySections(c, f) /\ r.rc \in {"ok", "io"}

\* Every read of a fitting file is of that form (blyt_blys_read, native_save_read).
LEMMA ReadIs ==
    ASSUME NEW c, CtxFits(c), NEW f, FileFits(f), NEW r \in {save_read(c, f), native_read(c, f)}
    PROVE  ReadAs(c, f, r)
<1>1. ASSUME NEW side
      PROVE  LET x == blys_read(c, f, side) IN
             \/ x.ctx = c /\ x.rc \in {"io", "schema"}
             \/ SectionsOf(c, f) /\ x.ctx = ApplySections(c, f) /\ x.rc \in {"ok", "io"}
  <2> DEFINE x == blys_read(c, f, side)
  <2>1. ReadResult(f, side) \in {"ok", "io"}
    BY Zenon DEF ReadResult
  <2>2. CASE f.header # "full"
    BY <2>2 DEF blys_read
  <2>3. CASE f.header = "full" /\ f.schema # c.schema
    BY <2>3 DEF blys_read
  <2>4. CASE f.header = "full" /\ f.schema = c.schema
    <3>1. x.ctx = ApplySections(c, f) /\ x.rc = ReadResult(f, side)
      BY <2>4 DEF blys_read
    <3>2. SectionsOf(c, f)
      BY <2>4, Zenon DEF SectionsOf
    <3> QED
      BY <2>1, <3>1, <3>2, Zenon
  <2> QED
    BY <2>2, <2>3, <2>4, Zenon
<1>2. CASE f.header = "none"
  BY <1>2 DEF save_read, native_read, ReadAs
<1>3. CASE f.header # "none"
  <2>1. r \in {blys_read(c, f, "host"), blys_read(c, f, "native")}
    BY <1>3 DEF save_read, native_read
  <2> QED
    BY <1>1, <2>1, Zenon DEF ReadAs
<1> QED
  BY <1>2, <1>3

\* Births only make room, in a context and in a file.
LEMMA CtxLater ==
    ASSUME NEW c, CtxFits(c), NEW h, NEW n \in Nat, NEW m \in Nat, n <= m,
           Coherent(c.schema, c.bufs, h, n)
    PROVE  Coherent(c.schema, c.bufs, h, m)
<1>1. c.schema \in DOMAIN Layouts
  BY DEF CtxFits
<1>2. \A s \in c.bufs[Mobs].bits : c.bufs[Mobs].data[s][1] \in Nat
  BY MobNumbers, Zenon
<1>3. h.ref # NoRef => c.bufs[Mobs].gens[ref_slot(h.ref)] \in Nat
  <2>1. h.ref # NoRef => c.bufs[Mobs].gens[ref_slot(h.ref)] \in 1 .. GenMax
    BY TrackedSlot, Zenon
  <2> QED
    BY <2>1
<1> QED
  BY <1>1, <1>2, <1>3, CoherentLater, Zenon

\* The same for what a save slot holds.
LEMMA FileLater ==
    ASSUME NEW e, NEW n \in Nat, NEW m \in Nat, n <= m, Stored(e, n)
    PROVE  Stored(e, m)
<1> DEFINE f == e.file
           L == Layouts[f.schema]
           x == f.sects[Mobs]
<1> SUFFICES ASSUME f.header = "full", ~e.mixed, Len(f.sects) = Len(L)
             PROVE  Coherent(f.schema, f.sects, SavedTarget(f.sects), m)
  BY Zenon DEF Stored, SavedCoherent
<1>1. Coherent(f.schema, f.sects, SavedTarget(f.sects), n)
  BY Zenon DEF Stored, SavedCoherent
<1>2. f.schema \in DOMAIN Layouts /\ \A k \in 1 .. Len(f.sects) : f.sects[k] \in Section(L[k])
  <2>1. f \notin {NoFile, [header |-> "short"]}
    BY DEF NoFile
  <2> QED
    BY <2>1, Zenon DEF Stored, FileFits
<1>3. Mobs \in 1 .. Len(L) /\ 1 \in DOMAIN L[Mobs].types
  BY <1>2, CartFields, Zenon
<1>4. /\ x.data \in Cells(L[Mobs]) /\ x.gens \in [Slots -> 1 .. GenMax]
      /\ x.bits \subseteq 0 .. L[Mobs].count - 1
  <2>1. x \in Section(L[Mobs])
    BY <1>2, <1>3, Zenon
  <2> HIDE DEF x, L
  <2> QED
    BY <2>1 DEF Section
<1>5. \A s \in x.bits : x.data[s][1] \in Nat
  <2> HIDE DEF x, L
  <2> QED
    BY <1>3, <1>4, Zenon DEF Cells
<1>6. SavedTarget(f.sects).ref # NoRef => x.gens[ref_slot(SavedTarget(f.sects).ref)] \in Nat
  <2> DEFINE s == ref_slot(SavedTarget(f.sects).ref)
  <2> SUFFICES ASSUME SavedTarget(f.sects).ref # NoRef PROVE x.gens[s] \in Nat
    OBVIOUS
  <2>1. s \in 0 .. L[Mobs].count - 1
    BY <1>1, Zenon DEF Coherent, Tracks
  <2>2. L[Mobs].count \in 1 .. MaxSlots
    BY <1>2, <1>3, LayoutFacts, Zenon
  <2> HIDE DEF x, L, s
  <2>3. s \in Slots
    BY <2>1, <2>2, Sizes DEF Slots
  <2> QED
    BY <1>4, <2>3
<1> QED
  BY <1>1, <1>2, <1>5, <1>6, CoherentLater, Zenon

-----------------------------------------------------------------------------
\* The files of a step that writes none.
LEMMA FilesKept ==
    ASSUME WorldInv, files' = files, born' \in 0 .. MaxBorn, born <= born'
    PROVE  (DOMAIN files = SaveSlots /\ \A n \in SaveSlots : Stored(files[n], born))'
<1>1. born \in Nat /\ born' \in Nat
  BY LayoutsFit DEF WorldInv, World
<1>2. DOMAIN files = SaveSlots /\ \A n \in SaveSlots : Stored(files[n], born)
  BY Zenon DEF WorldInv
<1>3. \A n \in SaveSlots : Stored(files[n], born')
  BY <1>1, <1>2, FileLater, Zenon
<1> QED
  BY <1>2, <1>3, Zenon

\* What the invariant says of a running process.
LEMMA Running ==
    ASSUME WorldInv, leg # "off"
    PROVE  /\ CtxFits(ctx) /\ held \in [ref : Nat, id : Nat] /\ born \in 0 .. MaxBorn /\ born \in Nat
           /\ mixed \in BOOLEAN /\ leg \in Legs \cup {"off"}
           /\ ~mixed => Coherent(ctx.schema, ctx.bufs, held, born)
<1>1. born \in 0 .. MaxBorn => born \in Nat
  BY LayoutsFit
<1> QED
  BY <1>1, Zenon DEF WorldInv, World

\* Before the first process there is no state and no file.
LEMMA WorldInit == Init => WorldInv
<1> SUFFICES ASSUME Init PROVE WorldInv
  OBVIOUS
<1>1. born \in 0 .. MaxBorn
  BY LayoutsFit DEF Init
<1>2. held \in [ref : Nat, id : Nat]
  BY DEF Init, NoTarget, NoRef
<1>3. World(leg, ctx, held, born, mixed)
  BY <1>1, <1>2, Zenon DEF Init, World
<1>4. ASSUME NEW n \in SaveSlots PROVE Stored(files[n], born)
  <2>1. files[n].file = NoFile /\ files[n].mixed = FALSE /\ NoFile.header # "full"
    BY DEF Init, NoFile
  <2> QED
    BY <2>1, Zenon DEF Stored, FileFits
<1> QED
  BY <1>3, <1>4, Zenon DEF Init, WorldInv

\* Boot on any leg.
LEMMA BootWorld ==
    ASSUME WorldInv, NEW l \in Legs, NEW schema \in DOMAIN Layouts, Boot(l, schema)
    PROVE  WorldInv'
<1> DEFINE c == IF l = "native" THEN native_init(schema) ELSE state_ctx_init(schema)
<1>1. /\ leg' = l /\ ctx' = cart_init(l, c) /\ held' = NoTarget /\ mixed' = FALSE
      /\ files' = files /\ born' = born
  BY Zenon DEF Boot
<1>2. CtxFits(c) /\ Unused(c)
  BY BootFits, Zenon
<1>3. CtxFits(ctx') /\ \A n \in Nat : Coherent(ctx'.schema, ctx'.bufs, NoTarget, n)
  BY <1>1, <1>2, InitCoherent, Zenon
<1>4. born \in 0 .. MaxBorn /\ born \in Nat /\ born <= born'
  BY <1>1, LayoutsFit DEF WorldInv, World
<1>5. NoTarget \in [ref : Nat, id : Nat] /\ l # "off"
  BY DEF NoTarget, NoRef, Legs
<1>6. World(leg', ctx', held', born', mixed')
  BY <1>1, <1>3, <1>4, <1>5, Zenon DEF World
<1> QED
  BY <1>1, <1>4, <1>6, FilesKept, Zenon DEF WorldInv

\* update() spawns.
LEMMA SpawnWorld ==
    ASSUME WorldInv, Spawn
    PROVE  WorldInv'
<1>1. /\ leg # "off" /\ born < MaxBorn /\ born' = born + 1 /\ ctx' = SpawnIn(ctx, born')
      /\ leg' = leg /\ held' = held /\ mixed' = mixed /\ files' = files
  BY Zenon DEF Spawn
<1>2. /\ CtxFits(ctx) /\ held \in [ref : Nat, id : Nat] /\ born \in Nat /\ mixed \in BOOLEAN
      /\ leg \in Legs \cup {"off"} /\ (~mixed => Coherent(ctx.schema, ctx.bufs, held, born))
  BY <1>1, Running, Zenon
<1>3. born' \in 0 .. MaxBorn /\ born + 1 <= MaxBorn /\ born <= born'
  BY <1>1, <1>2, LayoutsFit
<1>4. Spawned(ctx, ctx', born + 1)
  BY <1>1, <1>2, <1>3, SpawnFacts, Zenon
<1>5. ~mixed => Coherent(ctx'.schema, ctx'.bufs, held, born + 1)
  BY <1>2, <1>3, <1>4, SpawnCoherent, Zenon
<1>6. World(leg', ctx', held', born', mixed')
  BY <1>1, <1>2, <1>3, <1>4, <1>5, Zenon DEF World, Spawned
<1> QED
  BY <1>1, <1>3, <1>6, FilesKept, Zenon DEF WorldInv

\* update() kills.
LEMMA KillWorld ==
    ASSUME WorldInv, NEW s \in -1 .. MaxSlots, Kill(s)
    PROVE  WorldInv'
<1>1. /\ leg # "off" /\ ctx' = Free(leg, ctx, Mobs, s).ctx
      /\ leg' = leg /\ held' = held /\ mixed' = mixed /\ files' = files /\ born' = born
  BY Zenon DEF Kill
<1>2. /\ CtxFits(ctx) /\ held \in [ref : Nat, id : Nat] /\ born \in Nat /\ mixed \in BOOLEAN
      /\ born \in 0 .. MaxBorn
      /\ leg \in Legs \cup {"off"} /\ (~mixed => Coherent(ctx.schema, ctx.bufs, held, born))
  BY <1>1, Running, Zenon
<1>3. s \in Int /\ born <= born
  BY <1>2, Sizes
<1>4. Killed(ctx, ctx', s)
  BY <1>1, <1>2, <1>3, KillFacts, Zenon
<1>5. ~mixed => Coherent(ctx'.schema, ctx'.bufs, held, born)
  BY <1>2, <1>3, <1>4, KillCoherent, Zenon
<1>6. World(leg', ctx', held', born', mixed')
  BY <1>1, <1>2, <1>4, <1>5, Zenon DEF World, Killed
<1> QED
  BY <1>1, <1>2, <1>3, <1>6, FilesKept, Zenon DEF WorldInv

\* update() picks a target.
LEMMA TargetWorld ==
    ASSUME WorldInv, NEW s \in Slots, Target(s)
    PROVE  WorldInv'
<1>1. /\ leg # "off" /\ Ref(leg, ctx, Mobs, s) # NoRef
      /\ held' = [ref |-> Ref(leg, ctx, Mobs, s), id |-> Get(leg, ctx, Mobs, s, 1)]
      /\ leg' = leg /\ ctx' = ctx /\ mixed' = mixed /\ files' = files /\ born' = born
  BY Zenon DEF Target
<1>2. /\ CtxFits(ctx) /\ born \in Nat /\ mixed \in BOOLEAN /\ born \in 0 .. MaxBorn
      /\ leg \in Legs \cup {"off"} /\ (~mixed => Coherent(ctx.schema, ctx.bufs, held, born))
  BY <1>1, Running, Zenon
<1>3. ~mixed => Coherent(ctx.schema, ctx.bufs, held', born)
  BY <1>1, <1>2, TargetCoherent, Zenon
<1>4. Ref(leg, ctx, Mobs, s) \in Nat /\ Get(leg, ctx, Mobs, s, 1) \in Nat
  BY <1>1, <1>2, TargetNumbers, Zenon
<1>5. held' \in [ref : Nat, id : Nat]
  BY <1>1, <1>4
<1>6. World(leg', ctx', held', born', mixed')
  BY <1>1, <1>2, <1>3, <1>5, Zenon DEF World
<1>7. born <= born
  BY <1>2
<1> QED
  BY <1>1, <1>2, <1>6, <1>7, FilesKept, Zenon DEF WorldInv

\* The state on_save_state leaves.
LEMMA SavedState ==
    ASSUME WorldInv, leg # "off", NEW d, d = on_save_state(ctx)
    PROVE  /\ CtxFits(d) /\ d.schema = ctx.schema
           /\ ~mixed => Coherent(d.schema, d.bufs, held, born) /\ SavedTarget(d.bufs) = held
<1>1. /\ CtxFits(ctx) /\ held \in [ref : Nat, id : Nat] /\ born \in 0 .. MaxBorn
      /\ ~mixed => Coherent(ctx.schema, ctx.bufs, held, born)
  BY Running, Zenon
<1>2. TargetStored(ctx, d, held)
  BY <1>1, SaveStores, Zenon
<1>3. CtxFits(d) /\ d.schema = ctx.schema
  BY <1>2, Zenon DEF TargetStored
<1>4. ~mixed => Coherent(ctx.schema, d.bufs, held, born) /\ SavedTarget(d.bufs) = held
  BY <1>1, <1>2, StoredCoherent, Zenon
<1> QED
  BY <1>3, <1>4, Zenon

\* A save slot that is written holds what the state was, as far as the write got.
LEMMA SlotWritten ==
    ASSUME WorldInv, leg # "off", NEW d, d = on_save_state(ctx),
           NEW n \in SaveSlots, NEW w \in Prefixes(blys_write(d)), born' = born,
           files' = [files EXCEPT ![n] = [file |-> w, mixed |-> mixed]]
    PROVE  (DOMAIN files = SaveSlots /\ \A m \in SaveSlots : Stored(files[m], born))'
<1>1. /\ CtxFits(d) /\ mixed \in BOOLEAN
      /\ ~mixed => Coherent(d.schema, d.bufs, held, born) /\ SavedTarget(d.bufs) = held
  BY SavedState, Running, Zenon
<1>2. DOMAIN files = SaveSlots /\ \A m \in SaveSlots : Stored(files[m], born)
  BY Zenon DEF WorldInv
<1> DEFINE e == [file |-> w, mixed |-> mixed]
<1>3. e.file = w /\ e.mixed = mixed
  OBVIOUS
<1>4. FileFits(w)
  BY <1>1, PrefixFits, Zenon
<1>5. w.header = "full" /\ ~mixed => SavedCoherent(w, born)
  BY <1>1, PrefixCoherent, Zenon
<1> HIDE DEF e
<1>6. Stored(e, born)
  BY <1>1, <1>3, <1>4, <1>5, Zenon DEF Stored
<1>7. /\ DOMAIN files' = SaveSlots /\ files'[n] = e
      /\ \A m \in SaveSlots \ {n} : files'[m] = files[m]
  BY <1>2 DEF e
<1>8. \A m \in SaveSlots : Stored(files'[m], born')
  BY <1>2, <1>6, <1>7, Zenon
<1> QED
  BY <1>7, <1>8

\* A save, on any leg.
LEMMA SaveWorld ==
    ASSUME WorldInv, leg # "off", NEW n \in SaveSlots, NEW host, SaveTo(n, host)
    PROVE  WorldInv'
<1>1. /\ ctx' = on_save_state(ctx) /\ leg' = leg /\ held' = held /\ born' = born /\ mixed' = mixed
      /\ \/ files' = files
         \/ \E w \in Prefixes(blys_write(ctx')) :
               files' = [files EXCEPT ![n] = [file |-> w, mixed |-> mixed]]
  BY Zenon DEF SaveTo
<1>2. /\ CtxFits(ctx') /\ (~mixed => Coherent(ctx'.schema, ctx'.bufs, held, born))
  BY <1>1, SavedState, Zenon
<1>3. /\ held \in [ref : Nat, id : Nat] /\ born \in Nat /\ born \in 0 .. MaxBorn
      /\ mixed \in BOOLEAN /\ leg \in Legs \cup {"off"}
  BY Running, Zenon
<1>4. World(leg', ctx', held', born', mixed')
  BY <1>1, <1>2, <1>3, Zenon DEF World
<1>5. born <= born
  BY <1>3
<1>6. (DOMAIN files = SaveSlots /\ \A m \in SaveSlots : Stored(files[m], born))'
  <2>1. CASE files' = files
    BY <1>1, <1>3, <1>5, <2>1, FilesKept, Zenon
  <2>2. CASE \E w \in Prefixes(blys_write(ctx')) :
               files' = [files EXCEPT ![n] = [file |-> w, mixed |-> mixed]]
    BY <1>1, <2>2, SlotWritten, Zenon
  <2> QED
    BY <1>1, <2>1, <2>2, Zenon
<1> QED
  BY <1>4, <1>6, Zenon DEF WorldInv

\* A crash, between operations or within a save.
LEMMA CrashWorld ==
    ASSUME WorldInv, Crash
    PROVE  WorldInv'
<1>1. /\ leg # "off" /\ leg' = "off" /\ ctx' = Off /\ held' = NoTarget /\ mixed' = FALSE /\ born' = born
      /\ \/ files' = files
         \/ \E n \in SaveSlots : \E w \in Prefixes(blys_write(on_save_state(ctx))) :
               files' = [files EXCEPT ![n] = [file |-> w, mixed |-> mixed]]
  BY Zenon DEF Crash
<1>2. born \in 0 .. MaxBorn /\ born \in Nat
  BY <1>1, Running, Zenon
<1>3. NoTarget \in [ref : Nat, id : Nat] /\ born <= born
  BY <1>2 DEF NoTarget, NoRef
<1>4. World(leg', ctx', held', born', mixed')
  BY <1>1, <1>2, <1>3, Zenon DEF World
<1>5. (DOMAIN files = SaveSlots /\ \A m \in SaveSlots : Stored(files[m], born))'
  <2>1. CASE files' = files
    BY <1>1, <1>2, <1>3, <2>1, FilesKept, Zenon
  <2>2. CASE \E n \in SaveSlots : \E w \in Prefixes(blys_write(on_save_state(ctx))) :
               files' = [files EXCEPT ![n] = [file |-> w, mixed |-> mixed]]
    BY <1>1, <2>2, SlotWritten, Zenon
  <2> QED
    BY <1>1, <2>1, <2>2, Zenon
<1> QED
  BY <1>4, <1>5, Zenon DEF WorldInv

\* A load, on any leg, of any file.
LEMMA LoadWorld ==
    ASSUME WorldInv, leg # "off", NEW n \in SaveSlots,
           NEW r \in {save_read(ctx, files[n].file), native_read(ctx, files[n].file)}, LoadFrom(n, r)
    PROVE  WorldInv'
<1> DEFINE f == files[n].file
<1>1. /\ ctx' = r.ctx /\ leg' = leg /\ born' = born /\ files' = files
      /\ held' = IF r.rc = "ok" THEN on_load_state(r.ctx) ELSE held
      /\ mixed' = IF r.rc = "ok" /\ Whole(ctx, f) THEN files[n].mixed
                  ELSE mixed \/ r.ctx # ctx \/ r.rc = "ok"
  BY Zenon DEF LoadFrom
<1>2. /\ CtxFits(ctx) /\ held \in [ref : Nat, id : Nat] /\ born \in Nat /\ born \in 0 .. MaxBorn
      /\ mixed \in BOOLEAN /\ leg \in Legs \cup {"off"}
      /\ ~mixed => Coherent(ctx.schema, ctx.bufs, held, born)
  BY Running, Zenon
<1>3. Stored(files[n], born)
  BY Zenon DEF WorldInv
<1>4. FileFits(f) /\ files[n].mixed \in BOOLEAN
  BY <1>3, Zenon DEF Stored
<1>5. \/ r.ctx = ctx /\ r.rc \in {"io", "not_found", "schema"}
      \/ SectionsOf(ctx, f) /\ r.ctx = ApplySections(ctx, f) /\ r.rc \in {"ok", "io"}
  <2>1. ReadAs(ctx, f, r)
    BY <1>2, <1>4, ReadIs, Zenon
  <2> QED
    BY <2>1, Zenon DEF ReadAs
<1>6. CtxFits(r.ctx)
  <2>1. SectionsOf(ctx, f) => Applied(ctx, f, ApplySections(ctx, f))
    BY ApplyFacts, Zenon
  <2>2. SectionsOf(ctx, f) => CtxFits(ApplySections(ctx, f))
    BY <2>1, Zenon DEF Applied
  <2> QED
    BY <1>2, <1>5, <2>2, Zenon
<1>7. held' \in [ref : Nat, id : Nat] /\ mixed' \in BOOLEAN
  <2>1. on_load_state(r.ctx) \in [ref : Nat, id : Nat]
    BY <1>6, LoadTarget, Zenon
  <2>2. held' \in [ref : Nat, id : Nat]
    BY <1>1, <1>2, <2>1, Zenon
  <2>3. mixed' \in BOOLEAN
    BY <1>1, <1>4, Zenon
  <2> QED
    BY <2>2, <2>3
<1>8. ASSUME ~mixed' PROVE Coherent(ctx'.schema, ctx'.bufs, held', born)
  <2>1. CASE r.rc = "ok" /\ Whole(ctx, f)
    <3>1. SectionsOf(ctx, f) /\ r.ctx = ApplySections(ctx, f)
      BY <1>5, <2>1
    <3>2. SavedCoherent(f, born)
      BY <1>1, <1>3, <1>8, <2>1, <3>1, Zenon DEF Stored, SectionsOf
    <3> QED
      BY <1>1, <2>1, <3>1, <3>2, LoadedWhole, Zenon
  <2>2. CASE ~(r.rc = "ok" /\ Whole(ctx, f))
    <3>1. ~mixed /\ r.ctx = ctx /\ r.rc # "ok"
      BY <1>1, <1>8, <2>2, Zenon
    <3> QED
      BY <1>1, <1>2, <3>1, Zenon
  <2> QED
    BY <2>1, <2>2
<1>9. World(leg', ctx', held', born', mixed')
  BY <1>1, <1>2, <1>6, <1>7, <1>8, Zenon DEF World
<1>10. born <= born
  BY <1>2
<1> QED
  BY <1>1, <1>2, <1>9, <1>10, FilesKept, Zenon DEF WorldInv

\* A snapshot put back into a process that was started again.
LEMMA RestoreWorld ==
    ASSUME WorldInv, leg # "off", NEW s, s = on_save_state(ctx), NEW c, CtxFits(c),
           session_restore(c, state_ctx_snapshot(s)),
           leg' = leg, files' = files, born' \in 0 .. MaxBorn, born <= born'
    PROVE  WorldInv'
<1>1. /\ ctx' = state_ctx_restore_snapshot(c, s.bufs) /\ held' = on_load_state(ctx')
      /\ mixed' = (mixed \/ ctx'.bufs # s.bufs)
  BY Zenon DEF session_restore, state_ctx_snapshot
<1>2. /\ CtxFits(s)
      /\ ~mixed => Coherent(s.schema, s.bufs, held, born) /\ SavedTarget(s.bufs) = held
  BY SavedState, Zenon
<1>3. born \in Nat /\ born' \in Nat /\ mixed \in BOOLEAN /\ leg \in Legs \cup {"off"}
  <2>1. born' \in Nat
    BY LayoutsFit
  <2> QED
    BY <2>1, Running, Zenon
<1>4. CtxFits(ctx')
  BY <1>1, <1>2, RestoreFits, Zenon
<1>5. held' \in [ref : Nat, id : Nat] /\ (0 \in ctx'.bufs[Player].bits => held' = SavedTarget(ctx'.bufs))
  BY <1>1, <1>4, LoadTarget, Zenon
<1>6. mixed' \in BOOLEAN
  BY <1>1, Zenon
<1>7. ASSUME ~mixed' PROVE Coherent(ctx'.schema, ctx'.bufs, held', born')
  <2>1. ~mixed /\ ctx'.bufs = s.bufs
    BY <1>1, <1>7, Zenon
  <2>2. Coherent(s.schema, s.bufs, held, born')
    BY <1>2, <1>3, <2>1, CtxLater, Zenon
  <2>3. Coherent(ctx'.schema, ctx'.bufs, held, born')
    BY <1>2, <1>4, <2>1, <2>2, RestoredCoherent, Zenon
  <2>4. held' = held
    BY <1>2, <1>5, <2>1, <2>3, Zenon DEF Coherent
  <2> QED
    BY <2>3, <2>4, Zenon
<1>8. World(leg', ctx', held', born', mixed')
  BY <1>3, <1>4, <1>5, <1>6, <1>7, Zenon DEF World
<1> QED
  BY <1>8, FilesKept, Zenon DEF WorldInv

\* --reset-every-frame, and the hot reload of the Lua runners.
LEMMA ResetWorld ==
    ASSUME WorldInv, reset_every_frame_cycle \/ hostlua_reload
    PROVE  WorldInv'
<1> DEFINE s == on_save_state(ctx)
           c == cart_init(leg, state_ctx_zero_data(s))
<1>1. /\ leg \in {"emulated", "hostlua"} /\ session_restore(c, state_ctx_snapshot(s))
      /\ leg' = leg /\ files' = files /\ born' = born
  BY DEF reset_every_frame_cycle, hostlua_reload
<1>2. leg # "off"
  BY <1>1
<1>3. CtxFits(ctx) /\ born \in Nat /\ born \in 0 .. MaxBorn
  BY <1>2, Running, Zenon
<1>4. born <= born
  BY <1>3
<1>5. CtxFits(s)
  BY <1>2, SavedState, Zenon
<1>6. CtxFits(c)
  <2>1. CtxFits(state_ctx_zero_data(s)) /\ Unused(state_ctx_zero_data(s))
    BY <1>5, ZeroFits, Zenon
  <2> QED
    BY <2>1, InitCoherent, Zenon
<1> QED
  BY <1>1, <1>2, <1>3, <1>4, <1>6, RestoreWorld, Zenon

\* The hot reload of a session, whose first frame may spawn.
LEMMA ReloadWorld ==
    ASSUME WorldInv, NEW schema \in DOMAIN Layouts, session_reload(schema)
    PROVE  WorldInv'
<1> DEFINE s == on_save_state(ctx)
           c == cart_init(leg, state_ctx_init(schema))
<1>1. leg # "off" /\ leg' = leg /\ files' = files
  BY DEF session_reload
<1>2. born \in Nat /\ born \in 0 .. MaxBorn
  BY <1>1, Running, Zenon
<1>3. CtxFits(c)
  <2>1. CtxFits(state_ctx_init(schema)) /\ Unused(state_ctx_init(schema))
    BY BootFits, Zenon
  <2> QED
    BY <2>1, InitCoherent, Zenon
<1>4. \/ born' = born /\ session_restore(c, state_ctx_snapshot(s))
      \/ /\ born < MaxBorn /\ born' = born + 1
         /\ session_restore(SpawnIn(c, born'), state_ctx_snapshot(s))
  BY Zenon DEF session_reload
<1>5. CASE born' = born /\ session_restore(c, state_ctx_snapshot(s))
  <2>1. born <= born
    BY <1>2
  <2> QED
    BY <1>1, <1>2, <1>3, <1>5, <2>1, RestoreWorld, Zenon
<1>6. CASE /\ born < MaxBorn /\ born' = born + 1
           /\ session_restore(SpawnIn(c, born'), state_ctx_snapshot(s))
  <2>1. born' \in 0 .. MaxBorn /\ born <= born'
    BY <1>2, <1>6, LayoutsFit
  <2>2. CtxFits(SpawnIn(c, born'))
    BY <1>3, <2>1, SpawnFacts, Zenon DEF Spawned
  <2> QED
    BY <1>1, <1>6, <2>1, <2>2, RestoreWorld, Zenon
<1> QED
  BY <1>4, <1>5, <1>6

-----------------------------------------------------------------------------
\* Every step of the world keeps it coherent: the invariant is inductive.
LEMMA WorldNext == WorldInv /\ [Next]_vars => WorldInv'
<1> SUFFICES ASSUME WorldInv, [Next]_vars PROVE WorldInv'
  OBVIOUS
<1>1. ASSUME NEW l \in Legs, NEW schema \in DOMAIN Layouts, Boot(l, schema) PROVE WorldInv'
  BY <1>1, BootWorld, Zenon
<1>2. CASE Spawn
  BY <1>2, SpawnWorld, Zenon
<1>3. ASSUME NEW s \in -1 .. MaxSlots, Kill(s) PROVE WorldInv'
  BY <1>3, KillWorld, Zenon
<1>4. ASSUME NEW s \in Slots, Target(s) PROVE WorldInv'
  BY <1>4, TargetWorld, Zenon
<1>5. ASSUME NEW n \in SaveSlots, guest_save_write(n) \/ l_save_write(n) \/ native_save_write(n)
      PROVE  WorldInv'
  <2>1. leg # "off" /\ (SaveTo(n, TRUE) \/ SaveTo(n, FALSE))
    BY <1>5, Zenon DEF guest_save_write, l_save_write, native_save_write
  <2> QED
    BY <2>1, SaveWorld, Zenon
<1>6. ASSUME NEW n \in SaveSlots, guest_save_read(n) \/ l_save_read(n) \/ native_save_read(n)
      PROVE  WorldInv'
  <2>1. leg # "off" /\ \E r \in {save_read(ctx, files[n].file), native_read(ctx, files[n].file)} : LoadFrom(n, r)
    BY <1>6 DEF guest_save_read, l_save_read, native_save_read
  <2> QED
    BY <2>1, LoadWorld, Zenon
<1>7. CASE Crash
  BY <1>7, CrashWorld, Zenon
<1>8. CASE reset_every_frame_cycle \/ hostlua_reload
  BY <1>8, ResetWorld, Zenon
<1>9. ASSUME NEW schema \in DOMAIN Layouts, session_reload(schema) PROVE WorldInv'
  BY <1>9, ReloadWorld, Zenon
<1>10. CASE UNCHANGED vars
  BY <1>10, Zenon DEF vars, WorldInv
<1> QED
  BY <1>1, <1>2, <1>3, <1>4, <1>5, <1>6, <1>7, <1>8, <1>9, <1>10, Zenon DEF Next

\* The world stays coherent, with the invariant above.
LEMMA WorldAlways == Spec => []WorldInv
  BY WorldInit, WorldNext, PTL DEF Spec

\* alloc_slot hands out a zeroed record although it clears nothing: freeing, loading,
\* restoring and resetting all leave the unused slots zeroed, for any layouts.
THEOREM FreshSlotsAlwaysZero == Spec => []FreshSlotsZero
<1>1. WorldInv => FreshSlotsZero
  <2> SUFFICES ASSUME WorldInv, ~mixed, NEW b \in DOMAIN ctx.bufs,
                      NEW s \in DOMAIN ctx.bufs[b].data \ ctx.bufs[b].bits,
                      NEW f \in DOMAIN ctx.bufs[b].types
               PROVE  ctx.bufs[b].data[s][f] = 0
    BY Zenon DEF FreshSlotsZero
  <2>1. CASE leg = "off"
    BY <2>1 DEF WorldInv, World, Off
  <2>2. CASE leg # "off"
    <3> DEFINE L == Layouts[ctx.schema]
    <3>1. CtxFits(ctx) /\ Coherent(ctx.schema, ctx.bufs, held, born)
      BY <2>2, Running, Zenon
    <3>2. DOMAIN ctx.bufs = 1 .. Len(L) /\ ctx.schema \in DOMAIN Layouts
      BY <3>1, Zenon DEF CtxFits
    <3>3. DOMAIN L = 1 .. Len(L)
      BY <3>2, LayoutFacts, Zenon
    <3>4. ZeroFree(L[b], ctx.bufs[b])
      BY <3>1, <3>2, <3>3, Zenon DEF Coherent
    <3>5. ctx.bufs[b].types = L[b].types /\ ctx.bufs[b].data \in Cells(L[b])
      BY <3>1, <3>2, BufferFacts, Zenon
    <3>6. s \in 0 .. L[b].count - 1
      BY <3>5, Zenon DEF Cells
    <3> QED
      BY <3>4, <3>5, <3>6, Zenon DEF ZeroFree
  <2> QED
    BY <2>1, <2>2
<1> QED
  BY <1>1, WorldAlways, PTL

\* A ref that is accepted names the entity it was taken for, or the slot was reused at
\* least GenMax times since: through kills, saves, crashes, loads, resets and reloads.
THEOREM RefsAlwaysSound == Spec => []RefsSound
<1>1. WorldInv => RefsSound
  <2> DEFINE bc == ctx.bufs[Mobs]
             r == ref_slot(held.ref)
             g == ref_gen(held.ref)
             id == Get(leg, ctx, Mobs, r, 1)
  <2> SUFFICES ASSUME WorldInv, leg # "off", ~mixed, RefValid(leg, ctx, Mobs, held.ref)
               PROVE  id = held.id \/ id - held.id >= GenMax
    BY Zenon DEF RefsSound
  <2>1. CtxFits(ctx) /\ Coherent(ctx.schema, ctx.bufs, held, born) /\ held \in [ref : Nat, id : Nat]
    BY Running, Zenon
  <2>2. Mobs \in 1 .. Len(Layouts[ctx.schema]) /\ 1 \in DOMAIN bc.types /\ held.ref \in Nat /\ held.id \in Nat
    BY <2>1, CartBuffers, Zenon
  <2>3. held.ref # NoRef /\ r \in bc.bits /\ bc.gens[r] = g
    <3>1. RefValid(leg, ctx, Mobs, held.ref) <=>
             held.ref # NoRef /\ ref_slot(held.ref) \in bc.bits /\ bc.gens[ref_slot(held.ref)] = ref_gen(held.ref)
      BY <2>1, <2>2, RefValidIs
    <3> QED
      BY <3>1, Zenon
  <2>4. /\ g \in 1 .. GenMax /\ bc.data[r][1] \in Nat /\ r \in 0 .. bc.count - 1
        /\ (bc.gens[r] = g /\ bc.data[r][1] = held.id) \/ bc.data[r][1] >= held.id + Gap(bc.gens[r], g)
    <3>1. Tracks(Layouts[ctx.schema][Mobs], bc, held, born)
      BY <2>1, <2>3, Zenon DEF Coherent
    <3>2. bc.bits \subseteq 0 .. bc.count - 1 /\ \A t \in 0 .. bc.count - 1 : bc.data[t][1] \in Nat
      BY <2>1, MobNumbers, Zenon
    <3> QED
      BY <2>3, <3>1, <3>2, Zenon DEF Tracks
  <2>5. r \in Int
    BY <2>4
  <2>6. id = bc.data[r][1]
    BY <2>1, <2>2, <2>3, <2>5, GetIs, Zenon
  <2>7. Gap(g, g) = GenMax
    BY <2>4, GapNext, Zenon
  <2> HIDE DEF id, bc, r, g
  <2> QED
    BY <2>2, <2>3, <2>4, <2>6, <2>7, Sizes
<1> QED
  BY <1>1, WorldAlways, PTL

\* A load that succeeds on a whole file, of any process and any leg, leaves a state
\* that saves to the same file; a refused one changes neither state nor target.
THEOREM LoadsAreFaithful == Spec => LoadFaithful
<1> DEFINE Faithful(n) ==
              /\ last'.rc = "ok" /\ Whole(ctx, files[n].file) => blys_write(ctx') = files[n].file
              /\ last'.rc \in {"schema", "not_found"} => UNCHANGED <<ctx, held>>
           Reads(n) == guest_save_read(n) \/ l_save_read(n) \/ native_save_read(n)
<1>1. ASSUME WorldInv, NEW n \in SaveSlots, Reads(n) PROVE Faithful(n)
  <2> DEFINE f == files[n].file
  <2>1. leg # "off" /\ \E r \in {save_read(ctx, f), native_read(ctx, f)} : LoadFrom(n, r)
    BY <1>1 DEF guest_save_read, l_save_read, native_save_read
  <2>2. PICK r \in {save_read(ctx, f), native_read(ctx, f)} : LoadFrom(n, r)
    BY <2>1, Zenon
  <2>3. /\ ctx' = r.ctx /\ last' = Did("load", r.rc)
        /\ held' = IF r.rc = "ok" THEN on_load_state(r.ctx) ELSE held
    BY <2>2, Zenon DEF LoadFrom
  <2>4. last'.rc = r.rc
    BY <2>3 DEF Did
  <2>5. CtxFits(ctx) /\ FileFits(f)
    BY <1>1, <2>1, Running, Zenon DEF WorldInv, Stored
  <2>6. ReadAs(ctx, f, r)
    BY <2>5, ReadIs, Zenon
  <2>7. ASSUME r.rc = "ok", Whole(ctx, f) PROVE blys_write(ctx') = f
    <3>1. SectionsOf(ctx, f) /\ r.ctx = ApplySections(ctx, f)
      BY <2>6, <2>7 DEF ReadAs
    <3>2. blys_write(ApplySections(ctx, f)) = f
      BY <2>7, <3>1, LoadedWhole, Zenon
    <3> QED
      BY <2>3, <3>1, <3>2, Zenon
  <2>8. ASSUME r.rc \in {"schema", "not_found"} PROVE ctx' = ctx /\ held' = held
    BY <2>3, <2>6, <2>8, Zenon DEF ReadAs
  <2> QED
    BY <2>4, <2>7, <2>8, Zenon
<1>2. WorldInv => (last'.op = "load" => \A n \in SaveSlots : Reads(n) => Faithful(n))
  BY <1>1, Zenon
<1>3. WorldInv => [last'.op = "load" => \A n \in SaveSlots : Reads(n) => Faithful(n)]_vars
  BY <1>2
<1>4. Spec => [][last'.op = "load" => \A n \in SaveSlots : Reads(n) => Faithful(n)]_vars
  BY <1>3, WorldAlways, PTL
<1> QED
  BY <1>4 DEF LoadFaithful

\* The native runtime answers every buffer call as the host does, in every state the
\* system reaches (NativeAnswersAsHost, on the storage the invariant describes).
THEOREM LegsAlwaysAgree == Spec => []LegsAgree
<1>1. WorldInv => LegsAgree
  <2> SUFFICES ASSUME WorldInv PROVE \A b \in DOMAIN ctx.bufs : StorageOK(ctx.bufs[b])
    BY NativeAnswersAsHost, Zenon
  <2>1. CASE leg = "off"
    BY <2>1 DEF WorldInv, World, Off
  <2>2. CASE leg # "off"
    <3>1. CtxFits(ctx)
      BY <2>2, Running, Zenon
    <3>2. DOMAIN ctx.bufs = 1 .. Len(Layouts[ctx.schema])
      BY <3>1, Zenon DEF CtxFits
    <3> QED
      BY <3>1, <3>2, BufferFacts, Zenon
  <2> QED
    BY <2>1, <2>2
<1> QED
  BY <1>1, WorldAlways, PTL
==============================================================================
