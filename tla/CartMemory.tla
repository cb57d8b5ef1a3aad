------------------------------- MODULE CartMemory -------------------------------
(***************************************************************************)
(* The cart's one memory budget on the emulated leg: the guest heap, the   *)
(* pinned and persistent resources, the surfaces and a hybrid's Lua heap   *)
(* share 16 MiB.  The heap is charged by the guest's allocator and the     *)
(* rest by the host; each decides on a figure the other one wrote into the *)
(* accounting block, the host's being the published footprint (`acct`).    *)
(* Resources nobody references are a cache in what the budget leaves.      *)
(*                                                                         *)
(* A resource's bytes are told apart by whose they are.  Every cart has    *)
(* the accounting block (a cart linked without libblytc is unbudgeted), a  *)
(* resource that is there can be read, and none is empty.                  *)
(***************************************************************************)
EXTENDS Integers, Sequences, FiniteSets, FiniteSetsExt

CONSTANTS
    Count,       \* resources in the table, which is ordered by position
    Carts,       \* see CartType
    Budget,      \* BLYT_MEM_BUDGET_BYTES
    ScratchSize, \* BLYT_RESOURCE_SCRATCH_SIZE
    AllocSizes,  \* sizes of heap blocks and surfaces
    Peers,       \* sizes of a hybrid's Lua half's heap
    Nested,      \* a callback may call the native half again
    MaxPins, MaxFetch, MaxDepth \* bounds of the exploration

Res == 1..Count

(* A cart file: staged in a directory, or packed with some resources       *)
(* compressed; the sizes; the declared persistent resources and palettes.  *)
(* Of a hybrid the session is the native half, called by the host-Lua one. *)
CartType == [hybrid : BOOLEAN, staged : BOOLEAN, zstd : SUBSET Res,
             len : [Res -> 1..Budget], persistent : SUBSET Res, palettes : SUBSET Res]

(* The bytes of some resources, counted one by one.                        *)
Bytes(S, len) == Cardinality({b \in S \X (1..Budget) : b[2] <= len[b[1]]})

(* The packer rejects a persistent set that does not fit.                  *)
ASSUME CartMemoryAssumption ==
    /\ Count \in Nat /\ Budget \in Nat \ {0}
    /\ ScratchSize \in Nat /\ Budget <= ScratchSize
    /\ Carts \subseteq CartType
    /\ \A c \in Carts : Bytes(c.persistent, c.len) <= Budget
    /\ AllocSizes \subseteq Nat \ {0}
    /\ Peers \subseteq Nat /\ 0 \in Peers
    /\ Nested \in BOOLEAN
    /\ MaxPins \in Nat /\ MaxFetch \in Nat /\ MaxDepth \in Nat

VARIABLES
    cart,         \* what the table was loaded from
    persistent,   \* entries marked persistent
    owned,        \* entries with a host buffer of their own
    pins,         \* pin counts
    lru,          \* the table by last access, oldest first
    surfaceBytes, \* live off-screen surfaces
    peerHeap,     \* the Lua half's heap when the native half was last called
    heap,         \* guest_heap_used of the accounting block
    ready,        \* the guest's arena is initialised
    acct,         \* non_evictable_footprint of the accounting block
    scratchOff, scratch, \* the scratch region: whose bytes each cell holds
    view,         \* the offset of the last pointer a pin of the entry returned
    fetched,      \* bytes copied into the scratch region since its reset
    in,           \* who runs: "guest", or "host" between two run_frame calls
    parked        \* for each native call waiting in a callback, what it had pinned

table == <<cart, persistent, owned, pins, lru>>
region == <<scratchOff, scratch, view, fetched>>
vars == <<table, surfaceBytes, peerHeap, heap, ready, acct, region, in, parked>>

(***************************************************************************)
(* The table.                                                              *)
(***************************************************************************)
TableOrder == [i \in Res |-> i]

(* A compressed entry is decoded into a buffer, a staged one read into it; *)
(* the others alias the cart file.                                         *)
Owning(c) == IF c.staged THEN Res ELSE c.zstd

(* load_from_index reads every staged file, load_from_cart decodes nothing *)
Loaded(c) == IF c.staged THEN Res ELSE {}

(* blyt_resource_entry_data: the entry's bytes become resident.            *)
Materialised(own, S, c) == own \cup (S \cap Owning(c))

Pinned == {r \in Res : pins[r] > 0}
NotEvictable == persistent \cup Pinned
NoPins == [r \in Res |-> 0]

Footprint == Bytes(NotEvictable, cart.len) + surfaceBytes + peerHeap

AllocFits(heapUsed, footprint, incoming) == heapUsed + footprint + incoming <= Budget

CacheRoom(heapUsed, footprint) ==
    IF heapUsed + footprint >= Budget THEN 0 ELSE Budget - (heapUsed + footprint)

Cache(own, kept, order) == SelectSeq(order, LAMBDA r : r \in own \ kept)
Newest(cache, k) == {cache[i] : i \in (k + 1)..Len(cache)}

(* The number of oldest entries to free until the rest fits.               *)
Enough(cache, len, room) ==
    Min({k \in 0..Len(cache) : Bytes(Newest(cache, k), len) <= room})

(* evict_to_fit frees the oldest entries, and no more of them than needed. *)
EvictToFit(own, kept, order, len, room) ==
    LET cache == Cache(own, kept, order)
    IN (own \cap kept) \cup Newest(cache, Enough(cache, len, room))

(* mem_acct_publish_footprint, on a table whose resident entries are `own`.*)
Publish(own) ==
    /\ acct' = Footprint'
    /\ owned' = EvictToFit(own, NotEvictable', lru', cart'.len,
                           CacheRoom(heap', Footprint'))

(***************************************************************************)
(* The guest's allocator.  Only the total matters here: `n` is what the    *)
(* block takes with its header, and a block may also not be found in the   *)
(* fragmented arena.                                                       *)
(***************************************************************************)
HeapInUse == IF ready THEN heap ELSE 0

Malloc(n) ==
    /\ in = "guest"
    /\ heap' \in {HeapInUse} \cup {h \in {HeapInUse + n} : AllocFits(HeapInUse, acct, n)}
    /\ ready' = TRUE
    /\ UNCHANGED <<table, surfaceBytes, peerHeap, acct, region, in, parked>>

Free(n) ==
    /\ in = "guest" /\ ready /\ n <= heap
    /\ heap' = heap - n
    /\ UNCHANGED <<table, surfaceBytes, peerHeap, ready, acct, region, in, parked>>

(***************************************************************************)
(* Resources.                                                              *)
(***************************************************************************)
ReferenceFitsCached(r) ==
    AllocFits(heap, Footprint, IF pins[r] = 0 /\ r \notin owned THEN cart.len[r] ELSE 0)

(* mem_acct_reference_fits: an entry somebody has pinned adds nothing.  It *)
(* asks about pins only, so a persistent entry's first pin is charged      *)
(* twice.                                                                  *)
ReferenceFits(r) ==
    AllocFits(heap, Footprint, IF pins[r] = 0 THEN cart.len[r] ELSE 0)

(* Where the next copy goes: back to the start when it does not fit.       *)
ScratchRoom(need) == IF scratchOff + need > ScratchSize THEN 0 ELSE scratchOff

(* RESOURCE_PIN.  An entry larger than the scratch region is larger than   *)
(* the budget, and has been refused for that.                              *)
Pin(r) ==
    /\ in = "guest" /\ pins[r] < MaxPins
    /\ fetched + cart.len[r] <= MaxFetch
    /\ ReferenceFits(r)
    /\ LET off == ScratchRoom(cart.len[r])
       IN  /\ view' = [view EXCEPT ![r] = off]
           /\ scratch' = [a \in DOMAIN scratch |->
                            IF a \in off..(off + cart.len[r] - 1) THEN r ELSE scratch[a]]
           /\ scratchOff' = off + cart.len[r]
    /\ fetched' = fetched + cart.len[r]
    /\ pins' = [pins EXCEPT ![r] = @ + 1]
    /\ lru' = Append(SelectSeq(lru, LAMBDA q : q # r), r)
    /\ UNCHANGED <<cart, persistent, surfaceBytes, peerHeap, heap, ready, in, parked>>
    /\ Publish(Materialised(owned, {r}, cart))

UnpinUnpublished(r) ==
    /\ in = "guest" /\ pins[r] > 0
    /\ pins' = [pins EXCEPT ![r] = @ - 1]
    /\ UNCHANGED <<cart, persistent, owned, lru, surfaceBytes, peerHeap, heap, ready, acct,
                   region, in, parked>>

(* RESOURCE_UNPIN.                                                         *)
Unpin(r) ==
    /\ in = "guest" /\ pins[r] > 0
    /\ pins' = [pins EXCEPT ![r] = @ - 1]
    /\ UNCHANGED <<cart, persistent, lru, surfaceBytes, peerHeap, heap, ready,
                   region, in, parked>>
    /\ Publish(owned)

(* GFX_PALETTE_SET reads a cart palette without touching or publishing.    *)
PaletteSet(r) ==
    /\ in = "guest" /\ r \in cart.palettes
    /\ owned' = Materialised(owned, {r}, cart)
    /\ UNCHANGED <<cart, persistent, pins, lru, surfaceBytes, peerHeap, heap, ready, acct,
                   region, in, parked>>

(***************************************************************************)
(* Surfaces, by their bytes (Surfaces.tla has the rest).  The host-Lua half*)
(* creates and destroys them in the same registry.                         *)
(***************************************************************************)
SurfaceCreate(n) ==
    /\ in = "guest" \/ cart.hybrid
    /\ AllocFits(heap, Footprint, n)
    /\ surfaceBytes' = surfaceBytes + n
    /\ UNCHANGED <<cart, persistent, pins, lru, peerHeap, heap, ready, region, in, parked>>
    /\ Publish(owned)

SurfaceDestroy(n) ==
    /\ in = "guest" \/ cart.hybrid
    /\ n <= surfaceBytes
    /\ surfaceBytes' = surfaceBytes - n
    /\ UNCHANGED <<cart, persistent, pins, lru, peerHeap, heap, ready, region, in, parked>>
    /\ Publish(owned)

(* blyt_session_reap_surfaces: the Lua frame loop's frame boundary.        *)
ReapSurfaces ==
    /\ cart.hybrid /\ in = "host" /\ parked = <<>>
    /\ surfaceBytes' = 0
    /\ UNCHANGED <<cart, persistent, pins, lru, peerHeap, heap, ready, region, in, parked>>
    /\ Publish(owned)

(***************************************************************************)
(* Entering and leaving the guest.                                         *)
(***************************************************************************)
ReleasePins ==
    /\ pins' = NoPins
    /\ scratchOff' = 0 /\ fetched' = 0
    /\ UNCHANGED <<scratch, view>>

(* run_frame on a new frame; also its re-entry after a debugger stop.      *)
Frame ==
    /\ ~cart.hybrid /\ in = "host" /\ parked = <<>>
    /\ ReleasePins
    /\ surfaceBytes' = 0
    /\ in' = "guest"
    /\ UNCHANGED <<cart, persistent, lru, peerHeap, heap, ready, parked>>
    /\ Publish(owned)

(* run_frame on a call into the guest: a lifecycle hook, or an export the  *)
(* Lua half calls after set_peer_heap, which publishes as well.  Surfaces  *)
(* are kept.                                                               *)
Call(peer) ==
    /\ in = "host"
    /\ cart.hybrid \/ peer = peerHeap
    /\ Nested \/ parked = <<>>
    /\ ReleasePins
    /\ peerHeap' = peer
    /\ in' = "guest"
    /\ UNCHANGED <<cart, persistent, lru, surfaceBytes, heap, ready, parked>>
    /\ Publish(EvictToFit(owned, NotEvictable, lru, cart.len,
                          CacheRoom(heap, Footprint - peerHeap + peer)))

(* FRAME_DONE, HOST_FN_RETURN, or a debugger stop.                         *)
Yield ==
    /\ in = "guest"
    /\ in' = "host"
    /\ UNCHANGED <<table, surfaceBytes, peerHeap, heap, ready, acct, region, parked>>

(* The PCALL op of the Lua bridge: the native call waits for a callback.   *)
Callback ==
    /\ cart.hybrid /\ in = "guest" /\ Len(parked) < MaxDepth
    /\ parked' = Append(parked, Pinned)
    /\ in' = "host"
    /\ UNCHANGED <<table, surfaceBytes, peerHeap, heap, ready, acct, region>>

(* The callback is back: inside the op, or under the debug adapter through *)
(* run_frame, which keeps the pins then (rc_resuming).                     *)
Resume ==
    /\ in = "host" /\ parked # <<>>
    /\ parked' = SubSeq(parked, 1, Len(parked) - 1)
    /\ in' = "guest"
    /\ UNCHANGED <<cart, persistent, pins, lru, surfaceBytes, peerHeap, heap, ready, region>>
    /\ UNCHANGED <<acct, owned>> \/ Publish(owned)

(***************************************************************************)
(* The host between two frames.                                            *)
(***************************************************************************)
Between == in = "host" /\ parked = <<>>

Keep(own) ==
    /\ Between
    /\ UNCHANGED <<cart, persistent, pins, lru, surfaceBytes, peerHeap, heap, ready, region,
                   in, parked>>
    /\ Publish(own)
EvictAllUnpinned == ~cart.hybrid /\ Keep(owned \cap Pinned)

(* blyt_session_resource_evict_all (--evict-every-frame), which is never   *)
(* called on the native half of a hybrid.                                  *)
EvictAll == ~cart.hybrid /\ Keep(owned \cap NotEvictable)

(* The reset cycle (--reset-every-frame) makes the next allocation empty   *)
(* the arena; a hybrid's native half only has its BSS zeroed.              *)
ResetArena ==
    /\ Between /\ ~cart.hybrid
    /\ ready' = FALSE
    /\ UNCHANGED <<table, surfaceBytes, peerHeap, heap, acct, region, in, parked>>

AssetsOf(c) ==
    {d \in Carts : d = c \/ (c.staged /\ d = [c EXCEPT !.len = d.len])}

(* blyt_session_reload_resources (update_assets): a staged cart's files may*)
(* have changed.  Nothing is marked, pinned or published.                  *)
ReloadResources(c) ==
    /\ Between
    /\ c \in AssetsOf(cart)
    /\ cart' = c
    /\ persistent' = {} /\ pins' = NoPins /\ lru' = TableOrder
    /\ owned' = Loaded(c)
    /\ UNCHANGED <<surfaceBytes, peerHeap, heap, ready, acct, region, in, parked>>

(* blyt_session_swap_cart.  Surfaces and the peer's heap stay charged.     *)
SwapCart(c) ==
    /\ Between /\ c.hybrid = cart.hybrid
    /\ cart' = c
    /\ persistent' = c.persistent /\ pins' = NoPins /\ lru' = TableOrder
    /\ owned' = Materialised(Loaded(c), c.persistent, c)
    /\ heap' = 0 /\ ready' = FALSE /\ acct' = 0
    /\ scratchOff' = 0 /\ fetched' = 0
    /\ UNCHANGED <<surfaceBytes, peerHeap, scratch, view, in, parked>>

(***************************************************************************)
(* session_create_impl: the default palette may be the cart's own.         *)
(***************************************************************************)
Init ==
    /\ cart \in Carts
    /\ persistent = cart.persistent
    /\ pins = NoPins /\ lru = TableOrder
    /\ surfaceBytes = 0 /\ peerHeap = 0 /\ heap = 0 /\ ready = FALSE
    /\ acct = Footprint
    /\ \E default \in {{}, cart.palettes} :
         owned = EvictToFit(Materialised(Loaded(cart), persistent \cup default, cart),
                            NotEvictable, lru, cart.len, CacheRoom(heap, Footprint))
    /\ scratchOff = 0 /\ scratch = [a \in 0..(ScratchSize - 1) |-> 0]
    /\ view = [r \in Res |-> 0] /\ fetched = 0
    /\ in = "host" /\ parked = <<>>

GuestNext ==
    \/ \E n \in AllocSizes : Malloc(n) \/ Free(n)
    \/ \E r \in Res : Pin(r) \/ Unpin(r) \/ PaletteSet(r)
    \/ Yield \/ Callback

EitherNext == \E n \in AllocSizes : SurfaceCreate(n) \/ SurfaceDestroy(n)

HostNext ==
    \/ ReapSurfaces \/ Frame \/ Resume \/ EvictAll \/ ResetArena
    \/ \E peer \in Peers : Call(peer)
    \/ \E c \in Carts : ReloadResources(c) \/ SwapCart(c)

Next == GuestNext \/ EitherNext \/ HostNext

Spec == Init /\ [][Next]_vars

(***************************************************************************)
(* Properties.                                                             *)
(***************************************************************************)
(* The types of the state; the published footprint is a byte count.        *)
TypeOK ==
    /\ cart \in Carts
    /\ persistent \subseteq Res /\ owned \subseteq Owning(cart)
    /\ pins \in [Res -> 0..MaxPins]
    /\ lru \in [Res -> Res]
    /\ surfaceBytes \in Nat /\ peerHeap \in Nat /\ heap \in Nat /\ acct \in Nat
    /\ ready \in BOOLEAN
    /\ scratchOff \in 0..ScratchSize /\ fetched \in 0..MaxFetch
    /\ scratch \in [0..(ScratchSize - 1) -> 0..Count]
    /\ view \in [Res -> 0..ScratchSize]
    /\ in \in {"guest", "host"}
    /\ parked \in Seq(SUBSET Res)

(* The guest's allocator never decides on an old figure: whenever guest    *)
(* code runs, the footprint in the accounting block is the footprint,      *)
(* although reloads, swaps and evictions change the table behind its back. *)
PublishedFresh == in = "guest" => acct = Footprint

(* A pinned resource's buffer is never evicted, whatever is pinned,        *)
(* created or evicted after it; nor is a persistent one's.                 *)
ReferencedResident == NotEvictable \cap Owning(cart) \subseteq owned

(* Nothing the guest does takes heap, references and surfaces together     *)
(* above the budget: malloc, pin and surface_create decide separately, on  *)
(* figures kept in different places.  (The Lua half's heap is its own.)    *)
Total == HeapInUse + Footprint
GuestStaysInBudget == [][in = "guest" => (Total' <= Budget \/ Total' <= Total)]_vars

-------------------------------------------------------------------------------
(* What the code's comments say and the code does not keep: TLC finds a    *)
(* counterexample to each of the following.                                *)

(* The bytes of every pinned resource are where its pin said: "a per-frame *)
(* bump allocator; reset at each frame boundary so a pointer stays valid   *)
(* for the whole frame it was fetched in" (cart_run.c:98).                 *)
PinnedIntact == \A r \in Pinned : \A k \in 0..(cart.len[r] - 1) : scratch[view[r] + k] = r

(* The resources a cart declared persistent are resident whenever it runs: *)
(* "pre-loaded before init() and excluded from eviction regardless of      *)
(* refcounts" (resource.h:49).                                             *)
PersistentResident ==
    in = "guest" => cart.persistent \cap Owning(cart) \subseteq owned

(* A callback does not cost the native call that made it its pins: the     *)
(* reset "must be suppressed or it would release a resource pin the native *)
(* half took before the callback" (cart_run.c:276).                        *)
ParkedPinsKept == \A i \in DOMAIN parked : parked[i] \subseteq Pinned
================================================================================
