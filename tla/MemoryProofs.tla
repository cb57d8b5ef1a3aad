------------------------------ MODULE MemoryProofs ------------------------------
(***************************************************************************)
(* Proofs about who owns which memory: the cart's one budget, then the two *)
(* pools that hand out the buffer itself, the bare-metal one and the one   *)
(* of a pure-Lua cart.  They hold for any table, cart, budget and size,    *)
(* and any number of slots, colours and frames.                            *)
(*                                                                         *)
(* The guest never allocates on an old footprint, and nothing referenced   *)
(* is evicted: both rest on what publishing does, whatever it evicts.      *)
(*                                                                         *)
(* The bare-metal invariant is PoolInv.  Disjoint buffers are not enough   *)
(* for the refinement: a freed slot keeps its old base, so what a reader   *)
(* sees of it is empty only because destroy and reap zero its size.        *)
(***************************************************************************)
EXTENDS CartMemory, NativeSurfaces, LuaSurfaces, FiniteSetTheorems, TLAPS

(* Eviction spares what is kept (blyt_resource_entry_evict's refusals).    *)
LEMMA EvictionSparesKept ==
    ASSUME NEW own, NEW kept, NEW order, NEW len, NEW room
    PROVE  own \cap kept \subseteq EvictToFit(own, kept, order, len, room)
BY DEF EvictToFit

(* Publishing spares every resident entry that is referenced afterwards.   *)
LEMMA PublishSparesReferenced ==
    ASSUME NEW own, Publish(own)
    PROVE  own \cap NotEvictable' \subseteq owned'
BY EvictionSparesKept DEF Publish

(* What the actions keep.  The published figure is fresh while the guest   *)
(* runs and also while a native call waits in a callback, because the call *)
(* may resume without publishing.                                          *)
MemInv ==
    /\ pins \in [Res -> Nat]
    /\ in = "guest" \/ parked # <<>> => acct = Footprint
    /\ ReferencedResident

(* The initial table is published and holds its persistent set.            *)
LEMMA InitMemInv == Init => MemInv
<1> SUFFICES ASSUME Init PROVE MemInv
  OBVIOUS
<1>1. pins \in [Res -> Nat] /\ Pinned = {}
  BY DEF Init, NoPins, Pinned
<1>2. PICK default \in {{}, cart.palettes} :
        owned = EvictToFit(Materialised(Loaded(cart), persistent \cup default, cart),
                           NotEvictable, lru, cart.len, CacheRoom(heap, Footprint))
  BY Zenon DEF Init
<1>3. ReferencedResident
  BY <1>1, <1>2, EvictionSparesKept DEF ReferencedResident, NotEvictable, Materialised
<1> QED
  BY <1>1, <1>3 DEF MemInv, Init

(* The guest's own steps: allocation decides on the published figure and   *)
(* changes no reference; pins and unpins publish.                          *)
LEMMA GuestNextMemInv == MemInv /\ GuestNext => MemInv'
<1> SUFFICES ASSUME MemInv, GuestNext PROVE MemInv'
  OBVIOUS
<1> USE DEF MemInv
<1>1. ASSUME NEW n \in AllocSizes, Malloc(n) \/ Free(n) PROVE MemInv'
  BY <1>1, Zenon DEF Malloc, Free, table, Footprint, ReferencedResident, NotEvictable, Pinned
<1>2. ASSUME NEW r \in Res, Pin(r) PROVE MemInv'
  <2>1. pins' \in [Res -> Nat] /\ Pinned' \subseteq Pinned \cup {r}
    BY <1>2 DEF Pin, Pinned
  <2>2. acct' = Footprint'
    BY <1>2 DEF Pin, Publish
  <2>3. Materialised(owned, {r}, cart) \cap NotEvictable' \subseteq owned'
    BY <1>2, PublishSparesReferenced DEF Pin
  <2>4. ReferencedResident'
    BY <1>2, <2>1, <2>3 DEF Pin, ReferencedResident, NotEvictable, Materialised
  <2> QED
    BY <2>1, <2>2, <2>4
<1>3. ASSUME NEW r \in Res, Unpin(r) PROVE MemInv'
  <2>1. pins' \in [Res -> Nat] /\ Pinned' \subseteq Pinned
    BY <1>3 DEF Unpin, Pinned
  <2>2. acct' = Footprint'
    BY <1>3 DEF Unpin, Publish
  <2>3. owned \cap NotEvictable' \subseteq owned'
    BY <1>3, PublishSparesReferenced DEF Unpin
  <2>4. ReferencedResident'
    BY <1>3, <2>1, <2>3 DEF Unpin, ReferencedResident, NotEvictable
  <2> QED
    BY <2>1, <2>2, <2>4
<1>4. ASSUME NEW r \in Res, PaletteSet(r) PROVE MemInv'
  BY <1>4 DEF PaletteSet, Footprint, ReferencedResident, NotEvictable, Pinned, Materialised
<1>5. ASSUME Yield \/ Callback PROVE MemInv'
  BY <1>5, Zenon DEF Yield, Callback, table, Footprint, ReferencedResident, NotEvictable, Pinned
<1> QED
  BY <1>1, <1>2, <1>3, <1>4, <1>5 DEF GuestNext

(* Publishing with no pin added keeps the invariant, whoever does it.      *)
LEMMA PublishMemInv ==
    ASSUME MemInv, NEW own, Publish(own), owned \cap NotEvictable' \subseteq own,
           pins' \in [Res -> Nat], Pinned' \subseteq Pinned,
           UNCHANGED <<cart, persistent>>
    PROVE  MemInv'
<1>1. acct' = Footprint'
  BY DEF Publish
<1>2. own \cap NotEvictable' \subseteq owned'
  BY PublishSparesReferenced
<1>3. ReferencedResident'
  BY <1>2 DEF MemInv, ReferencedResident, NotEvictable
<1> QED
  BY <1>1, <1>3 DEF MemInv

(* Creating and destroying surfaces publishes.                             *)
LEMMA EitherNextMemInv == MemInv /\ EitherNext => MemInv'
<1> SUFFICES ASSUME MemInv, NEW n \in AllocSizes, SurfaceCreate(n) \/ SurfaceDestroy(n)
             PROVE  MemInv'
  BY DEF EitherNext
<1>1. Publish(owned) /\ UNCHANGED <<cart, persistent, pins>>
  BY DEF SurfaceCreate, SurfaceDestroy
<1> QED
  BY <1>1, PublishMemInv DEF MemInv, Pinned

(* The host enters the guest after publishing, and what it does to the     *)
(* table without publishing it does with no call waiting.                  *)
LEMMA HostNextMemInv == MemInv /\ HostNext => MemInv'
<1> SUFFICES ASSUME MemInv, HostNext PROVE MemInv'
  OBVIOUS
<1>0. NoPins \in [Res -> Nat] /\ (pins' = NoPins => Pinned' = {})
  BY DEF NoPins, Pinned
<1>1. CASE ReapSurfaces
  <2>1. Publish(owned) /\ UNCHANGED <<cart, persistent, pins>>
    BY <1>1 DEF ReapSurfaces
  <2> QED
    BY <2>1, PublishMemInv DEF MemInv, Pinned
<1>2. CASE Frame
  <2>1. Publish(owned) /\ UNCHANGED <<cart, persistent>> /\ pins' = NoPins
    BY <1>2 DEF Frame, ReleasePins
  <2> QED
    BY <1>0, <2>1, PublishMemInv
<1>3. CASE Resume
  <2>1. UNCHANGED <<cart, persistent, pins, surfaceBytes, peerHeap>>
    BY <1>3 DEF Resume
  <2>2. CASE UNCHANGED <<acct, owned>>
    <3>1. acct = Footprint
      BY <1>3 DEF Resume, MemInv
    <3>2. acct' = Footprint' /\ ReferencedResident'
      BY <2>1, <2>2, <3>1 DEF MemInv, Footprint, ReferencedResident, NotEvictable, Pinned
    <3> QED
      BY <2>1, <3>2 DEF MemInv
  <2>3. CASE Publish(owned)
    BY <2>1, <2>3, PublishMemInv DEF MemInv, Pinned
  <2> QED
    BY <1>3, <2>2, <2>3 DEF Resume
<1>4. CASE EvictAll
  <2>1. Publish(owned \cap NotEvictable) /\ UNCHANGED <<cart, persistent, pins>>
    BY <1>4 DEF EvictAll, Keep
  <2>2. NotEvictable' = NotEvictable
    BY <2>1 DEF NotEvictable, Pinned
  <2> QED
    BY <2>1, <2>2, PublishMemInv DEF MemInv, Pinned
<1>5. CASE ResetArena
  BY <1>5 DEF ResetArena, Between, MemInv, table, ReferencedResident, NotEvictable, Pinned
<1>6. ASSUME NEW peer \in Peers, Call(peer) PROVE MemInv'
  <2> DEFINE own == EvictToFit(owned, NotEvictable, lru, cart.len,
                               CacheRoom(heap, Footprint - peerHeap + peer))
  <2>1. Publish(own) /\ UNCHANGED <<cart, persistent>> /\ pins' = NoPins
    BY <1>6 DEF Call, ReleasePins
  <2>2. owned \cap NotEvictable \subseteq own
    BY EvictionSparesKept
  <2>3. NotEvictable' \subseteq NotEvictable
    BY <1>0, <2>1 DEF NotEvictable
  <2> HIDE DEF own
  <2> QED
    BY <1>0, <2>1, <2>2, <2>3, PublishMemInv
<1>7. ASSUME NEW c \in Carts, ReloadResources(c) PROVE MemInv'
  BY <1>0, <1>7 DEF ReloadResources, Between, MemInv, ReferencedResident, NotEvictable
<1>8. ASSUME NEW c \in Carts, SwapCart(c) PROVE MemInv'
  BY <1>0, <1>8 DEF SwapCart, Between, MemInv, ReferencedResident, NotEvictable, Materialised
<1> QED
  BY <1>1, <1>2, <1>3, <1>4, <1>5, <1>6, <1>7, <1>8 DEF HostNext

(* Steps that change nothing keep the invariant.                           *)
LEMMA StutterMemInv == MemInv /\ UNCHANGED vars => MemInv'
BY DEF vars, table, MemInv, Footprint, ReferencedResident, NotEvictable, Pinned

(* The invariant holds always.                                             *)
THEOREM MemoryInvariant == Spec => []MemInv
<1>1. MemInv /\ [Next]_vars => MemInv'
  BY GuestNextMemInv, EitherNextMemInv, HostNextMemInv, StutterMemInv DEF Next
<1> QED
  BY InitMemInv, <1>1, PTL DEF Spec

(* Whenever guest code runs, the footprint its allocator reads is the      *)
(* current one, for every cart, table and budget.                          *)
THEOREM FootprintAlwaysFresh == Spec => []PublishedFresh
<1>1. MemInv => PublishedFresh
  BY DEF MemInv, PublishedFresh
<1> QED
  BY MemoryInvariant, <1>1, PTL

(* A pinned or persistent resource's buffer is never evicted, whatever the *)
(* sizes and the order of accesses.                                        *)
THEOREM ReferencedNeverEvicted == Spec => []ReferencedResident
<1>1. MemInv => ReferencedResident
  BY DEF MemInv
<1> QED
  BY MemoryInvariant, <1>1, PTL


-----------------------------------------------------------------------------
\* The budget.  Bytes counts the bytes of a set of resources one by one, so what is
\* needed of it follows from what is known of finite sets.
Counted(S, len) == {b \in S \X (1..Budget) : b[2] <= len[b[1]]}

(* The bytes of some resources of a cart are finitely many.                *)
LEMMA CountedFinite ==
    ASSUME NEW S \in SUBSET Res, NEW len
    PROVE  IsFiniteSet(Counted(S, len)) /\ Bytes(S, len) = Cardinality(Counted(S, len))
           /\ Bytes(S, len) \in Nat
<1>1. IsFiniteSet(1..Count) /\ IsFiniteSet(1..Budget)
  <2>1. 1 \in Int /\ Count \in Int /\ Budget \in Int
    BY CartMemoryAssumption
  <2> QED
    BY <2>1, FS_Interval
<1>2. IsFiniteSet(S)
  BY <1>1, FS_Subset, Zenon DEF Res
<1>3. IsFiniteSet(S \X (1..Budget))
  BY <1>1, <1>2, FS_Product, Zenon
<1>4. IsFiniteSet(Counted(S, len))
  BY <1>3, FS_Subset DEF Counted
<1>5. Bytes(S, len) = Cardinality(Counted(S, len))
  BY DEF Bytes, Counted
<1> QED
  BY <1>4, <1>5, FS_CardinalityType

(* Fewer resources have no more bytes.                                     *)
LEMMA FewerBytes ==
    ASSUME NEW T \in SUBSET Res, NEW S \in SUBSET T, NEW len
    PROVE  Bytes(S, len) <= Bytes(T, len)
<1>1. Counted(S, len) \subseteq Counted(T, len)
  BY DEF Counted
<1>2. S \in SUBSET Res
  OBVIOUS
<1> QED
  BY <1>1, <1>2, CountedFinite, FS_Subset

(* One resource more adds at most its own bytes.                           *)
LEMMA MoreBytes ==
    ASSUME NEW S \in SUBSET Res, NEW r \in Res, NEW len \in [Res -> 1..Budget]
    PROVE  Bytes(S \cup {r}, len) <= Bytes(S, len) + len[r]
<1> DEFINE own == {r} \X (1..len[r])
           all == Counted(S \cup {r}, len)
           old == Counted(S, len)
<1>1. len[r] \in Nat
  BY CartMemoryAssumption
<1>2. IsFiniteSet(own) /\ Cardinality(own) = len[r]
  <2>1. IsFiniteSet({r}) /\ Cardinality({r}) = 1
    BY FS_Singleton, Zenon
  <2>2. IsFiniteSet(1..len[r]) /\ Cardinality(1..len[r]) = len[r]
    BY <1>1, FS_Interval
  <2>3. IsFiniteSet(own) /\ Cardinality(own) = Cardinality({r}) * Cardinality(1..len[r])
    BY <2>1, <2>2, FS_Product
  <2> QED
    BY <1>1, <2>1, <2>2, <2>3
<1>3. all \subseteq old \cup own
  BY <1>1, CartMemoryAssumption DEF Counted
<1>4. IsFiniteSet(old) /\ IsFiniteSet(all)
  BY CountedFinite
<1> HIDE DEF own, all, old
<1>5. /\ IsFiniteSet(old \cup own)
      /\ Cardinality(old \cup own) = Cardinality(old) + Cardinality(own) - Cardinality(old \cap own)
  BY <1>2, <1>4, FS_Union
<1>6. Cardinality(old) \in Nat /\ Cardinality(old \cap own) \in Nat /\ Cardinality(all) \in Nat
  BY <1>4, FS_Subset, FS_CardinalityType
<1>7. Cardinality(all) <= Cardinality(old \cup own)
  BY <1>3, <1>5, FS_Subset
<1>8. Cardinality(all) <= Cardinality(old) + len[r]
  BY <1>1, <1>2, <1>5, <1>6, <1>7
<1> QED
  BY <1>8, CountedFinite DEF all, old

(* What a step adds up is numbers.                                         *)
SizeInv ==
    /\ cart \in Carts /\ persistent \subseteq Res
    /\ surfaceBytes \in Nat /\ peerHeap \in Nat /\ heap \in Nat /\ ready \in BOOLEAN

(* A cart that is being built has sizes.                                   *)
LEMMA InitSizes == Init => SizeInv
BY CartMemoryAssumption DEF Init, SizeInv, CartType

(* Every step of the guest or the host leaves sizes.                       *)
LEMMA NextSizes == SizeInv /\ [Next]_vars => SizeInv'
<1> SUFFICES ASSUME SizeInv, [Next]_vars PROVE SizeInv'
  OBVIOUS
<1> USE CartMemoryAssumption DEF SizeInv, table
<1>1. ASSUME NEW n \in AllocSizes, Malloc(n) PROVE SizeInv'
  BY <1>1 DEF Malloc, HeapInUse
<1>2. ASSUME NEW n \in AllocSizes, Free(n) PROVE SizeInv'
  BY <1>2 DEF Free
<1>3. ASSUME NEW r \in Res, Pin(r) \/ Unpin(r) \/ PaletteSet(r) PROVE SizeInv'
  BY <1>3, Zenon DEF Pin, Unpin, PaletteSet
<1>4. CASE Yield \/ Callback
  BY <1>4, Zenon DEF Yield, Callback
<1>5. ASSUME NEW n \in AllocSizes, SurfaceCreate(n) PROVE SizeInv'
  BY <1>5 DEF SurfaceCreate
<1>6. ASSUME NEW n \in AllocSizes, SurfaceDestroy(n) PROVE SizeInv'
  BY <1>6 DEF SurfaceDestroy
<1>7. CASE ReapSurfaces \/ Frame
  BY <1>7 DEF ReapSurfaces, Frame
<1>8. CASE Resume \/ EvictAll \/ ResetArena
  BY <1>8, Zenon DEF Resume, EvictAll, Keep, ResetArena
<1>9. ASSUME NEW peer \in Peers, Call(peer) PROVE SizeInv'
  BY <1>9 DEF Call
<1>10. ASSUME NEW c \in Carts, ReloadResources(c) PROVE SizeInv'
  BY <1>10 DEF ReloadResources
<1>11. ASSUME NEW c \in Carts, SwapCart(c) PROVE SizeInv'
  <2>1. c.persistent \subseteq Res
    BY DEF CartType
  <2> QED
    BY <1>11, <2>1, Zenon DEF SwapCart
<1>12. CASE UNCHANGED vars
  BY <1>12, Zenon DEF vars
<1> QED
  BY <1>1, <1>2, <1>3, <1>4, <1>5, <1>6, <1>7, <1>8, <1>9, <1>10, <1>11, <1>12
     DEF Next, GuestNext, EitherNext, HostNext

(* The footprint is a number, and the heap in use no more than the figure  *)
(* the host reads.                                                         *)
LEMMA Figures ==
    ASSUME SizeInv
    PROVE  /\ NotEvictable \in SUBSET Res /\ cart.len \in [Res -> 1..Budget]
           /\ Bytes(NotEvictable, cart.len) \in Nat /\ Footprint \in Nat
           /\ HeapInUse \in Nat /\ HeapInUse <= heap
<1>1. NotEvictable \in SUBSET Res
  BY DEF NotEvictable, Pinned, SizeInv
<1>2. cart.len \in [Res -> 1..Budget]
  BY CartMemoryAssumption DEF SizeInv, CartType
<1>3. Bytes(NotEvictable, cart.len) \in Nat
  BY <1>1, CountedFinite
<1>4. Footprint \in Nat
  BY <1>3 DEF Footprint, SizeInv
<1>5. HeapInUse \in Nat /\ HeapInUse <= heap
  BY DEF HeapInUse, SizeInv
<1> QED
  BY <1>1, <1>2, <1>3, <1>4, <1>5

(* A step of the guest stays in the budget, or takes nothing.              *)
LEMMA GuestStepFits ==
    ASSUME MemInv, SizeInv, SizeInv', Next, in = "guest"
    PROVE  Total' <= Budget \/ Total' <= Total
<1> DEFINE B == Bytes(NotEvictable, cart.len)
<1>0. /\ acct = Footprint /\ Footprint = B + surfaceBytes + peerHeap
      /\ Total = HeapInUse + Footprint /\ Total' = HeapInUse' + Footprint'
  BY DEF MemInv, Footprint, Total
<1>1. /\ B \in Nat /\ Footprint \in Nat /\ HeapInUse \in Nat /\ HeapInUse <= heap
      /\ surfaceBytes \in Nat /\ peerHeap \in Nat /\ heap \in Nat /\ Budget \in Nat
  BY Figures, CartMemoryAssumption DEF SizeInv
<1>2. ASSUME NEW n \in AllocSizes, Malloc(n) PROVE Total' <= Budget \/ Total' <= Total
  <2>1. Footprint' = Footprint /\ HeapInUse' = heap'
    BY <1>2 DEF Malloc, table, Footprint, NotEvictable, Pinned, HeapInUse
  <2>2. heap' = HeapInUse \/ (heap' = HeapInUse + n /\ HeapInUse + acct + n <= Budget)
    BY <1>2 DEF Malloc, AllocFits
  <2>3. n \in Nat
    BY CartMemoryAssumption
  <2> HIDE DEF B
  <2> QED
    BY <1>0, <1>1, <2>1, <2>2, <2>3
<1>3. ASSUME NEW n \in AllocSizes, Free(n) PROVE Total' <= Total
  <2>1. Footprint' = Footprint /\ HeapInUse' = heap - n /\ HeapInUse = heap
    BY <1>3 DEF Free, table, Footprint, NotEvictable, Pinned, HeapInUse
  <2>2. n \in Nat
    BY CartMemoryAssumption
  <2> HIDE DEF B
  <2> QED
    BY <1>0, <1>1, <2>1, <2>2
<1>4. ASSUME NEW r \in Res, Pin(r) PROVE Total' <= Budget
  <2>1. /\ cart' = cart /\ persistent' = persistent /\ heap' = heap /\ ready' = ready
        /\ surfaceBytes' = surfaceBytes /\ peerHeap' = peerHeap
        /\ pins' = [pins EXCEPT ![r] = @ + 1]
        /\ heap + Footprint + (IF pins[r] = 0 THEN cart.len[r] ELSE 0) <= Budget
    BY <1>4 DEF Pin, ReferenceFits, AllocFits
  <2>2. NotEvictable' = NotEvictable \cup {r}
    BY <2>1 DEF NotEvictable, Pinned, MemInv
  <2>3. /\ Footprint' = Bytes(NotEvictable', cart.len) + surfaceBytes + peerHeap
        /\ HeapInUse' = HeapInUse
    BY <2>1 DEF Footprint, HeapInUse
  <2>4. cart.len[r] \in Nat /\ Bytes(NotEvictable', cart.len) <= B + cart.len[r]
    BY <2>2, Figures, MoreBytes, CartMemoryAssumption
  <2>5. pins[r] # 0 => NotEvictable' = NotEvictable
    BY <2>2 DEF NotEvictable, Pinned, MemInv
  <2>6. Bytes(NotEvictable', cart.len) \in Nat
    BY <2>1, <2>2, Figures, CountedFinite
  <2> HIDE DEF B
  <2> QED
    BY <1>0, <1>1, <2>1, <2>3, <2>4, <2>5, <2>6 DEF B
<1>5. ASSUME NEW r \in Res, Unpin(r) PROVE Total' <= Total
  <2>1. /\ cart' = cart /\ persistent' = persistent /\ heap' = heap /\ ready' = ready
        /\ surfaceBytes' = surfaceBytes /\ peerHeap' = peerHeap
        /\ pins' = [pins EXCEPT ![r] = @ - 1]
    BY <1>5 DEF Unpin
  <2>2. NotEvictable' \in SUBSET NotEvictable
    BY <2>1 DEF NotEvictable, Pinned, MemInv
  <2>3. /\ Footprint' = Bytes(NotEvictable', cart.len) + surfaceBytes + peerHeap
        /\ HeapInUse' = HeapInUse
    BY <2>1 DEF Footprint, HeapInUse
  <2>4. Bytes(NotEvictable', cart.len) <= B /\ Bytes(NotEvictable', cart.len) \in Nat
    BY <2>2, Figures, FewerBytes, CountedFinite
  <2> HIDE DEF B
  <2> QED
    BY <1>0, <1>1, <2>3, <2>4
<1>6. ASSUME Yield \/ Callback \/ \E r \in Res : PaletteSet(r) PROVE Total' <= Total
  <2>1. /\ cart' = cart /\ persistent' = persistent /\ pins' = pins /\ heap' = heap
        /\ ready' = ready /\ surfaceBytes' = surfaceBytes /\ peerHeap' = peerHeap
    BY <1>6, Zenon DEF PaletteSet, Yield, Callback, table
  <2>2. Footprint' = Footprint /\ HeapInUse' = HeapInUse
    BY <2>1 DEF Footprint, NotEvictable, Pinned, HeapInUse
  <2> HIDE DEF B
  <2> QED
    BY <1>0, <1>1, <2>2
<1>7. ASSUME NEW n \in AllocSizes, SurfaceCreate(n) \/ SurfaceDestroy(n)
      PROVE  Total' <= Budget \/ Total' <= Total
  <2>1. /\ HeapInUse' = HeapInUse /\ Footprint' = B + surfaceBytes' + peerHeap
        /\ surfaceBytes' \in Nat /\ n \in Nat
    <3>1. /\ cart' = cart /\ persistent' = persistent /\ pins' = pins /\ heap' = heap
          /\ ready' = ready /\ peerHeap' = peerHeap
      BY <1>7, Zenon DEF SurfaceCreate, SurfaceDestroy
    <3> QED
      BY <3>1, CartMemoryAssumption DEF Footprint, NotEvictable, Pinned, HeapInUse, SizeInv
  <2>2. \/ surfaceBytes' = surfaceBytes + n /\ heap + Footprint + n <= Budget
        \/ surfaceBytes' = surfaceBytes - n
    BY <1>7 DEF SurfaceCreate, SurfaceDestroy, AllocFits
  <2>3. CASE surfaceBytes' = surfaceBytes + n /\ heap + Footprint + n <= Budget
    <3>1. Footprint' = Footprint + n
      BY <1>0, <1>1, <2>1, <2>3
    <3> QED
      BY <1>0, <1>1, <2>1, <2>3, <3>1
  <2>4. CASE surfaceBytes' = surfaceBytes - n
    <3>1. Footprint' = Footprint - n
      BY <1>0, <1>1, <2>1, <2>4
    <3> QED
      BY <1>0, <1>1, <2>1, <3>1
  <2> QED
    BY <2>2, <2>3, <2>4
<1>8. ~HostNext
  <2>1. HostNext => in = "host"
    BY Zenon DEF HostNext, ReapSurfaces, Frame, Resume, EvictAll, Keep, ResetArena, Call,
         ReloadResources, SwapCart, Between
  <2> QED
    BY <2>1
<1> QED
  BY <1>2, <1>3, <1>4, <1>5, <1>6, <1>7, <1>8 DEF Next, GuestNext, EitherNext

(* Nothing the guest does takes heap, references and surfaces together     *)
(* above the budget, for every cart, table, budget and size: the guest     *)
(* decides on the published figure, which is fresh, and the host on its    *)
(* own, to which a pin adds no more than the entry's bytes.                *)
THEOREM GuestAlwaysInBudget == Spec => GuestStaysInBudget
<1>1. Spec => []SizeInv
  BY InitSizes, NextSizes, PTL DEF Spec
<1>2. MemInv /\ SizeInv /\ SizeInv' /\ [Next]_vars =>
        [in = "guest" => (Total' <= Budget \/ Total' <= Total)]_vars
  BY GuestStepFits
<1> QED
  BY <1>1, <1>2, MemoryInvariant, PTL DEF Spec, GuestStaysInBudget

-----------------------------------------------------------------------------
(* The pools of real buffers. *)

PoolInv ==
    /\ NTypeOK
    /\ BuffersDisjoint
    /\ \A i \in OffScreen : ~ninUse[i] => nsize[i] = 0
    /\ \A i \in Slots : locked[i] => ninUse[i]

\* The screen is a slot.
LEMMA ScreenSlot == Screen \in Slots /\ \A i \in Slots : i # Screen <=> i \in OffScreen
  BY NativeAssumption DEF Screen, Slots, OffScreen

\* A generation stays a generation when it is bumped (blyt_handle.h wraps it).
LEMMA NWrapType == \A g \in 0 .. GenMod - 1 : NWrap(g) \in 0 .. GenMod - 1
  BY NativeAssumption DEF NWrap

\* The empty pool satisfies the invariant.
LEMMA InitPool == NInit => PoolInv
<1> SUFFICES ASSUME NInit PROVE PoolInv
  OBVIOUS
<1>1. ninUse \in [Slots -> BOOLEAN] /\ locked \in [Slots -> BOOLEAN] /\ ninUse[Screen]
  BY ScreenSlot, Zenon DEF NInit
<1>2. /\ ngen \in [Slots -> 0 .. GenMod - 1] /\ nlockGen \in [Slots -> 0 .. GenMod - 1]
      /\ nsize \in [Slots -> Nat] /\ base \in [Slots -> Nat] /\ bump \in Nat
      /\ nsize[Screen] = ScreenSize
  BY ScreenSlot, NativeAssumption DEF NInit
<1>3. arena \in [Cells(NativeArena) -> Color] /\ fb \in [Cells(ScreenSize) -> Color]
  BY NativeAssumption DEF NInit, Filled
<1>4. \A i \in OffScreen : ~ninUse[i] /\ nsize[i] = 0
  BY ScreenSlot, Zenon DEF NInit, OffScreen
<1>5. \A i \in Slots : ~locked[i]
  BY DEF NInit
<1>6. NTypeOK
  BY <1>1, <1>2, <1>3 DEF NTypeOK, NInit
<1>7. BuffersDisjoint
  BY <1>4, NativeAssumption DEF BuffersDisjoint, NInit
<1> QED
  BY <1>4, <1>5, <1>6, <1>7 DEF PoolInv

\* A live buffer lies in the arena below the bump.
LEMMA BufferInArena ==
  ASSUME PoolInv, NEW i \in OffScreen, ninUse[i], NEW k \in Cells(nsize[i])
  PROVE  base[i] + k \in Cells(NativeArena) /\ base[i] + k <= bump
<1>1. i \in Slots /\ base[i] \in Nat /\ nsize[i] \in Nat /\ bump \in Nat
  BY DEF PoolInv, NTypeOK, OffScreen
<1>2. base[i] + nsize[i] <= bump /\ bump <= NativeArena
  BY DEF PoolInv, BuffersDisjoint
<1> QED
  BY <1>1, <1>2, NativeAssumption DEF Cells

\* What a reader sees of a surface is a strip of colours of its size.
LEMMA ContentType ==
  ASSUME PoolInv, NEW i \in Slots
  PROVE  NContent[i] \in [Cells(nsize[i]) -> Color]
<1>1. CASE i = Screen
  BY <1>1 DEF PoolInv, NTypeOK, NContent
<1>2. CASE i # Screen /\ ninUse[i]
  <2>1. \A k \in Cells(nsize[i]) : arena[base[i] + k] \in Color
    BY <1>2, BufferInArena, ScreenSlot DEF PoolInv, NTypeOK
  <2> QED
    BY <1>2, <2>1 DEF NContent
<1>3. CASE i # Screen /\ ~ninUse[i]
  <2>1. Cells(nsize[i]) = {}
    BY <1>3, ScreenSlot DEF PoolInv, Cells
  <2> QED
    BY <1>3, <2>1 DEF NContent
<1> QED
  BY <1>1, <1>2, <1>3

-----------------------------------------------------------------------------
(* Storing into one buffer *)

\* A store (native_put_pixel, memset, a write through lock.pixels) reaches the
\* surface it was meant for and no other one.
LEMMA StoreContent ==
  ASSUME PoolInv, NEW i \in Slots, ninUse[i], NEW p \in [Cells(nsize[i]) -> Color], Store(i, p),
         UNCHANGED <<nsize, base>>
  PROVE  NContent' = [NContent EXCEPT ![i] = p]
<1>1. NContent'[i] = p
  <2>1. CASE i = Screen
    BY <2>1 DEF Store, NContent
  <2>2. CASE i # Screen
    <3>0. i \in OffScreen /\ base[i] \in Nat /\ nsize[i] \in Nat
      BY <2>2, ScreenSlot DEF PoolInv, NTypeOK
    <3>1. \A k \in Cells(nsize[i]) : (base[i] + k) - base[i] = k /\ base[i] + k \in Cells(NativeArena)
      BY <3>0, BufferInArena DEF Cells
    <3>2. \A k \in Cells(nsize[i]) : arena'[base[i] + k] = p[k]
      BY <2>2, <3>1 DEF Store
    <3>3. p = [k \in Cells(nsize[i]) |-> p[k]]
      OBVIOUS
    <3> QED
      BY <2>2, <3>2, <3>3 DEF NContent
  <2> QED
    BY <2>1, <2>2
<1>2. ASSUME NEW j \in Slots, j # i PROVE NContent'[j] = NContent[j]
  <2>1. CASE j = Screen
    BY <1>2, <2>1 DEF Store, NContent
  <2>2. CASE i = Screen
    BY <1>2, <2>2 DEF Store, NContent
  <2>3. CASE j # Screen /\ i # Screen /\ ninUse[j]
    <3>0. /\ i \in OffScreen /\ j \in OffScreen
          /\ base[i] \in Nat /\ nsize[i] \in Nat /\ base[j] \in Nat /\ nsize[j] \in Nat
      BY <2>3, ScreenSlot DEF PoolInv, NTypeOK
    <3>1. base[i] + nsize[i] <= base[j] \/ base[j] + nsize[j] <= base[i]
      BY <1>2, <2>3, <3>0 DEF PoolInv, BuffersDisjoint
    <3>2. \A k \in Cells(nsize[j]) : (base[j] + k) - base[i] \notin Cells(nsize[i])
      BY <3>0, <3>1 DEF Cells
    <3>3. \A k \in Cells(nsize[j]) : base[j] + k \in Cells(NativeArena)
      BY <2>3, <3>0, BufferInArena
    <3>4. \A k \in Cells(nsize[j]) : arena'[base[j] + k] = arena[base[j] + k]
      BY <2>3, <3>2, <3>3 DEF Store
    <3> QED
      BY <2>3, <3>4 DEF NContent
  <2>4. CASE j # Screen /\ ~ninUse[j]
    <3>1. Cells(nsize[j]) = {}
      BY <2>4, ScreenSlot DEF PoolInv, Cells
    <3> QED
      BY <2>4, <3>1 DEF NContent
  <2> QED
    BY <2>1, <2>2, <2>3, <2>4
<1>3. DOMAIN NContent = Slots /\ DOMAIN NContent' = Slots
  BY DEF NContent
<1>4. NContent' = [j \in Slots |-> NContent'[j]] /\ NContent = [j \in Slots |-> NContent[j]]
  BY DEF NContent
<1> QED
  BY <1>1, <1>2, <1>3, <1>4, Zenon

\* A store disturbs no invariant.
LEMMA StoreInv ==
  ASSUME PoolInv, NEW i \in Slots, NEW p \in [Cells(nsize[i]) -> Color], Store(i, p),
         UNCHANGED <<nrun, nphase, ninUse, ngen, nsize, base, locked, nlockGen, bump>>
  PROVE  PoolInv'
<1>1. fb' \in [Cells(ScreenSize) -> Color]
  BY DEF Store, PoolInv, NTypeOK
<1>2. arena' \in [Cells(NativeArena) -> Color]
  BY DEF Store, PoolInv, NTypeOK
<1>3. NTypeOK'
  BY <1>1, <1>2 DEF PoolInv, NTypeOK
<1>4. BuffersDisjoint'
  BY DEF PoolInv, BuffersDisjoint
<1> QED
  BY <1>3, <1>4 DEF PoolInv

-----------------------------------------------------------------------------
(* One lemma per operation of the pool: the invariant is kept, and the step *)
(* is a step of the contract.                                               *)

Held == [i \in Slots |-> IF locked[i] THEN "lock" ELSE "none"]

\* The two modules name the same slots.
LEMMA SameSlots == NAbs!Slots = Slots /\ NAbs!Screen = Screen /\ NAbs!OffScreen = OffScreen
  BY DEF NAbs!Slots, Slots, NAbs!Screen, Screen, NAbs!OffScreen, OffScreen

\* The spans a draw may touch are cells of the surface.
LEMMA SpanCells == \A n \in Nat : \A cells \in Spans(n) : cells \subseteq Cells(n)
  BY DEF Spans, Cells

\* A new buffer starts at the bump, past every live one, and nothing else moves.
LEMMA CreateInv ==
  ASSUME PoolInv, NEW i \in Slots, NEW n \in Sizes, NCreate(i, n)
  PROVE  PoolInv'
<1>0. /\ i \in OffScreen /\ i # Screen /\ ~ninUse[i] /\ n \in Nat /\ bump \in Nat
      /\ bump + n <= NativeArena
  BY NativeAssumption DEF NCreate, OffScreen, PoolInv, NTypeOK
<1>1. NTypeOK'
  <2>1. ninUse' \in [Slots -> BOOLEAN] /\ ninUse'[Screen]
    BY <1>0, ScreenSlot DEF NCreate, PoolInv, NTypeOK
  <2>2. /\ nsize' \in [Slots -> Nat] /\ nsize'[Screen] = ScreenSize /\ base' \in [Slots -> Nat]
        /\ bump' \in Nat
    BY <1>0, ScreenSlot DEF NCreate, PoolInv, NTypeOK
  <2>3. arena' \in [Cells(NativeArena) -> Color]
    BY NativeAssumption DEF NCreate, PoolInv, NTypeOK
  <2> QED
    BY <2>1, <2>2, <2>3 DEF NCreate, PoolInv, NTypeOK
<1>2. \A j \in OffScreen : j # i => ninUse'[j] = ninUse[j] /\ nsize'[j] = nsize[j] /\ base'[j] = base[j]
  BY DEF NCreate, PoolInv, NTypeOK, OffScreen
<1>3. ninUse'[i] /\ nsize'[i] = n /\ base'[i] = bump /\ bump' = bump + n
  BY DEF NCreate, PoolInv, NTypeOK
<1>4. \A j \in OffScreen : base[j] \in Nat /\ nsize[j] \in Nat
  BY DEF PoolInv, NTypeOK, OffScreen
<1>5. \A j \in OffScreen : ninUse[j] => base[j] + nsize[j] <= bump
  BY DEF PoolInv, BuffersDisjoint
<1>6. BuffersDisjoint'
  <2>1. bump' <= NativeArena
    BY <1>0, <1>3
  <2>2. \A j \in OffScreen : ninUse'[j] => base'[j] + nsize'[j] <= bump'
    BY <1>0, <1>2, <1>3, <1>4, <1>5
  <2>3. ASSUME NEW j \in OffScreen, NEW k \in OffScreen, ninUse'[j], ninUse'[k], j # k
        PROVE  base'[j] + nsize'[j] <= base'[k] \/ base'[k] + nsize'[k] <= base'[j]
    <3>1. CASE j = i
      BY <1>2, <1>3, <1>5, <2>3, <3>1
    <3>2. CASE k = i
      BY <1>2, <1>3, <1>5, <2>3, <3>2
    <3>3. CASE j # i /\ k # i
      BY <1>2, <2>3, <3>3 DEF PoolInv, BuffersDisjoint
    <3> QED
      BY <3>1, <3>2, <3>3
  <2> QED
    BY <2>1, <2>2, <2>3 DEF BuffersDisjoint
<1>7. \A j \in OffScreen : ~ninUse'[j] => nsize'[j] = 0
  BY <1>2, <1>3 DEF PoolInv
<1>8. \A j \in Slots : locked'[j] => ninUse'[j]
  BY DEF NCreate, PoolInv, NTypeOK
<1> QED
  BY <1>1, <1>6, <1>7, <1>8 DEF PoolInv

\* The new surface is blank, whatever its cells held, and the others keep theirs.
LEMMA CreateRefines ==
  ASSUME PoolInv, NEW i \in Slots, NEW n \in Sizes, NCreate(i, n)
  PROVE  NAbs!CreateSurface(i, n)
<1>0. /\ i \in OffScreen /\ i # Screen /\ ~ninUse[i] /\ n \in Nat /\ bump \in Nat
      /\ bump + n <= NativeArena
  BY NativeAssumption DEF NCreate, OffScreen, PoolInv, NTypeOK
<1>1. NContent'[i] = NAbs!Filled(n, Blank)
  <2>1. \A k \in Cells(n) : bump + k \in Cells(NativeArena) /\ (bump + k) - bump = k
    BY <1>0, NativeAssumption DEF Cells
  <2>2. \A k \in Cells(n) : arena'[bump + k] = Blank
    BY <2>1 DEF NCreate
  <2>3. nsize'[i] = n /\ base'[i] = bump
    BY DEF NCreate, PoolInv, NTypeOK
  <2> QED
    BY <1>0, <2>2, <2>3 DEF NContent, NAbs!Filled, Cells
<1>2. ASSUME NEW j \in Slots, j # i PROVE NContent'[j] = NContent[j]
  <2>0. nsize'[j] = nsize[j] /\ base'[j] = base[j] /\ fb' = fb
    BY <1>2 DEF NCreate, PoolInv, NTypeOK
  <2>1. CASE j = Screen
    BY <2>0, <2>1 DEF NContent
  <2>2. CASE j # Screen /\ ninUse[j]
    <3>1. \A k \in Cells(nsize[j]) : base[j] + k \in Cells(NativeArena) /\ base[j] + k <= bump
      BY <2>2, BufferInArena, ScreenSlot
    <3>2. \A k \in Cells(nsize[j]) : (base[j] + k) - bump \notin Cells(n)
      BY <3>1, <1>0, NativeAssumption DEF Cells
    <3>3. \A k \in Cells(nsize[j]) : arena'[base[j] + k] = arena[base[j] + k]
      BY <3>1, <3>2 DEF NCreate
    <3> QED
      BY <2>0, <2>2, <3>3 DEF NContent
  <2>3. CASE j # Screen /\ ~ninUse[j]
    <3>1. Cells(nsize[j]) = {}
      BY <2>3, ScreenSlot DEF PoolInv, Cells
    <3> QED
      BY <2>0, <2>3, <3>1 DEF NContent
  <2> QED
    BY <2>1, <2>2, <2>3
<1>3. NContent' = [NContent EXCEPT ![i] = NAbs!Filled(n, Blank)]
  <2>1. NContent' = [j \in Slots |-> NContent'[j]] /\ NContent = [j \in Slots |-> NContent[j]]
    BY DEF NContent
  <2> QED
    BY <1>1, <1>2, <2>1, Zenon
<1>4. Held' = Held
  BY DEF Held, NCreate
<1> QED
  BY <1>0, <1>3, <1>4, SameSlots DEF NCreate, NAbs!CreateSurface, Held

\* A freed slot loses its size; the buffers of the others stay where they are.
LEMMA DestroyInv ==
  ASSUME PoolInv, NEW i \in Slots, NDestroy(i)
  PROVE  PoolInv'
<1>0. i \in OffScreen /\ i # Screen /\ ~locked[i]
  BY ScreenSlot DEF NDestroy, Drawable
<1>1. NTypeOK'
  <2>1. ninUse' \in [Slots -> BOOLEAN] /\ ninUse'[Screen]
    BY <1>0, ScreenSlot DEF NDestroy, PoolInv, NTypeOK
  <2>2. nsize' \in [Slots -> Nat] /\ nsize'[Screen] = ScreenSize
    BY <1>0, ScreenSlot DEF NDestroy, PoolInv, NTypeOK
  <2>3. ngen' \in [Slots -> 0 .. GenMod - 1]
    BY NWrapType DEF NDestroy, PoolInv, NTypeOK
  <2> QED
    BY <2>1, <2>2, <2>3 DEF NDestroy, PoolInv, NTypeOK
<1>2. \A j \in OffScreen : j # i => ninUse'[j] = ninUse[j] /\ nsize'[j] = nsize[j]
  BY DEF NDestroy, PoolInv, NTypeOK, OffScreen
<1>3. ~ninUse'[i] /\ nsize'[i] = 0 /\ base' = base /\ bump' = bump /\ locked' = locked
  BY Zenon DEF NDestroy, PoolInv, NTypeOK
<1>4. BuffersDisjoint'
  BY <1>2, <1>3 DEF PoolInv, BuffersDisjoint
<1>5. \A j \in OffScreen : ~ninUse'[j] => nsize'[j] = 0
  BY <1>2, <1>3 DEF PoolInv
<1>6. \A j \in Slots : locked'[j] => ninUse'[j]
  BY <1>0, <1>3 DEF NDestroy, PoolInv, NTypeOK
<1> QED
  BY <1>1, <1>4, <1>5, <1>6 DEF PoolInv

\* A destroy is a destroy of the contract.
LEMMA DestroyRefines ==
  ASSUME PoolInv, NEW i \in Slots, NDestroy(i)
  PROVE  NAbs!DestroySurface(i)
<1>0. i \in OffScreen /\ i # Screen /\ ~locked[i] /\ ninUse[i]
  BY ScreenSlot DEF NDestroy, Drawable
<1>1. NContent'[i] = NAbs!Filled(0, Blank)
  <2>1. nsize'[i] = 0
    BY DEF NDestroy, PoolInv, NTypeOK
  <2> QED
    BY <1>0, <2>1 DEF NContent, NAbs!Filled, Cells
<1>2. \A j \in Slots : j # i => NContent'[j] = NContent[j]
  BY DEF NDestroy, NContent, PoolInv, NTypeOK
<1>3. NContent' = [NContent EXCEPT ![i] = NAbs!Filled(0, Blank)]
  <2>1. NContent' = [j \in Slots |-> NContent'[j]] /\ NContent = [j \in Slots |-> NContent[j]]
    BY DEF NContent
  <2> QED
    BY <1>1, <1>2, <2>1, Zenon
<1>4. Held' = Held /\ Held[i] = "none"
  BY <1>0 DEF Held, NDestroy
<1> QED
  BY <1>0, <1>3, <1>4, SameSlots DEF NDestroy, NAbs!DestroySurface, Held, NWrap

\* A draw, a write through a lock and a blit all store a strip of colours that
\* the contract's Paint and Blit describe.
LEMMA PaintStored ==
  ASSUME PoolInv, NEW i \in Slots, NEW cells, NEW c \in Color
  PROVE  LET p == [k \in Cells(nsize[i]) |-> IF k \in cells THEN c ELSE NContent[i][k]]
         IN p \in [Cells(nsize[i]) -> Color] /\ p = NAbs!Paint(NContent[i], cells, c)
<1>1. NContent[i] \in [Cells(nsize[i]) -> Color]
  BY ContentType
<1> QED
  BY <1>1 DEF NAbs!Paint

\* The same for a blit, whose source is read before anything is stored.
LEMMA BlitStored ==
  ASSUME PoolInv, NEW d \in Slots, NEW s \in Slots, NEW x \in Int
  PROVE  LET p == [k \in Cells(nsize[d]) |->
                     IF k - x \in Cells(nsize[s]) THEN NContent[s][k - x] ELSE NContent[d][k]]
         IN p \in [Cells(nsize[d]) -> Color] /\ p = NAbs!Blit(NContent[d], NContent[s], x)
<1>1. NContent[d] \in [Cells(nsize[d]) -> Color] /\ NContent[s] \in [Cells(nsize[s]) -> Color]
  BY ContentType, Zenon
<1> QED
  BY <1>1 DEF NAbs!Blit

\* A tier-1 operation on an unlocked surface.
LEMMA DrawStep ==
  ASSUME PoolInv, NEW i \in Slots, NEW cells, NEW c \in Color, NDraw(i, cells, c)
  PROVE  PoolInv' /\ NAbs!DrawSurface(i, cells, c)
<1> DEFINE p == [k \in Cells(nsize[i]) |-> IF k \in cells THEN c ELSE NContent[i][k]]
<1>0. p \in [Cells(nsize[i]) -> Color] /\ p = NAbs!Paint(NContent[i], cells, c)
  BY PaintStored
<1>1. /\ Store(i, p) /\ ninUse[i] /\ ~locked[i]
      /\ UNCHANGED <<nrun, nphase, ninUse, ngen, nsize, base, locked, nlockGen, bump>>
  BY DEF NDraw, Drawable
<1> HIDE DEF p
<1>2. PoolInv'
  BY <1>0, <1>1, StoreInv
<1>3. NContent' = [NContent EXCEPT ![i] = p]
  BY <1>0, <1>1, StoreContent, Zenon
<1>4. Held' = Held /\ Held[i] = "none"
  BY <1>1 DEF Held
<1> QED
  BY <1>0, <1>1, <1>2, <1>3, <1>4, SameSlots DEF NAbs!DrawSurface, Held

\* A store through lock.pixels shows at once.
LEMMA LockWriteStep ==
  ASSUME PoolInv, NEW i \in Slots, NEW cells, NEW c \in Color, NLockWrite(i, cells, c)
  PROVE  PoolInv' /\ NAbs!WriteView(i, cells, c)
<1> DEFINE p == [k \in Cells(nsize[i]) |-> IF k \in cells THEN c ELSE NContent[i][k]]
<1>0. p \in [Cells(nsize[i]) -> Color] /\ p = NAbs!Paint(NContent[i], cells, c)
  BY PaintStored
<1>1. /\ Store(i, p) /\ ninUse[i] /\ locked[i]
      /\ UNCHANGED <<nrun, nphase, ninUse, ngen, nsize, base, locked, nlockGen, bump>>
  BY Zenon DEF NLockWrite, PoolInv
<1> HIDE DEF p
<1>2. PoolInv'
  BY <1>0, <1>1, StoreInv
<1>3. NContent' = [NContent EXCEPT ![i] = p]
  BY <1>0, <1>1, StoreContent, Zenon
<1>4. Held' = Held /\ Held[i] = "lock"
  BY <1>1, Zenon DEF Held
<1> QED
  BY <1>0, <1>1, <1>2, <1>3, <1>4, SameSlots, Zenon DEF NAbs!WriteView, Held

\* A blit between two unlocked surfaces, or inside one.
LEMMA BlitStep ==
  ASSUME PoolInv, NEW d \in Slots, NEW s \in Slots, NEW x \in Int, NBlit(d, s, x)
  PROVE  PoolInv' /\ NAbs!BlitSurface(d, s, x)
<1> DEFINE p == [k \in Cells(nsize[d]) |->
                   IF k - x \in Cells(nsize[s]) THEN NContent[s][k - x] ELSE NContent[d][k]]
<1>0. p \in [Cells(nsize[d]) -> Color] /\ p = NAbs!Blit(NContent[d], NContent[s], x)
  BY BlitStored, Zenon
<1>1. /\ Store(d, p) /\ ninUse[d] /\ ninUse[s] /\ ~locked[d] /\ ~locked[s]
      /\ UNCHANGED <<nrun, nphase, ninUse, ngen, nsize, base, locked, nlockGen, bump>>
  BY Zenon DEF NBlit, Drawable
<1> HIDE DEF p
<1>2. PoolInv'
  BY <1>0, <1>1, StoreInv
<1>3. NContent' = [NContent EXCEPT ![d] = p]
  BY <1>0, <1>1, StoreContent
<1>4. Held' = Held /\ Held[d] = "none" /\ Held[s] = "none"
  BY <1>1 DEF Held
<1> QED
  BY <1>0, <1>1, <1>2, <1>3, <1>4, SameSlots DEF NAbs!BlitSurface, Held

\* Taking a lock on bare metal changes no pixel: the lock is the buffer.
LEMMA AcquireStep ==
  ASSUME PoolInv, NEW i \in Slots, NAcquire(i)
  PROVE  PoolInv' /\ NAbs!AcquireSurface(i, "lock")
<1>1. locked' \in [Slots -> BOOLEAN] /\ \A j \in Slots : locked'[j] => ninUse'[j]
  BY Zenon DEF NAcquire, PoolInv, NTypeOK
<1>2. NTypeOK' /\ BuffersDisjoint'
  BY <1>1 DEF NAcquire, PoolInv, NTypeOK, BuffersDisjoint
<1>3. PoolInv'
  BY <1>1, <1>2, Zenon DEF NAcquire, PoolInv
<1>4. NContent' = NContent
  BY Zenon DEF NAcquire, NContent
<1>5. Held' = [Held EXCEPT ![i] = "lock"] /\ Held[i] = "none"
  BY Zenon DEF Held, NAcquire, PoolInv, NTypeOK
<1> QED
  BY <1>3, <1>4, <1>5 DEF NAcquire, NAbs!AcquireSurface, Held

\* Giving it back changes none either, and makes its token stale.
LEMMA ReleaseStep ==
  ASSUME PoolInv, NEW i \in Slots, NRelease(i)
  PROVE  PoolInv' /\ NAbs!ReleaseSurface(i)
<1>1. /\ locked' \in [Slots -> BOOLEAN] /\ \A j \in Slots : locked'[j] => ninUse'[j]
      /\ nlockGen' \in [Slots -> 0 .. GenMod - 1]
  BY NWrapType, Zenon DEF NRelease, PoolInv, NTypeOK
<1>2. NTypeOK' /\ BuffersDisjoint'
  BY <1>1 DEF NRelease, PoolInv, NTypeOK, BuffersDisjoint
<1>3. PoolInv'
  BY <1>1, <1>2, Zenon DEF NRelease, PoolInv
<1>4. NContent' = NContent
  BY Zenon DEF NRelease, NContent
<1>5. Held' = [Held EXCEPT ![i] = "none"] /\ Held[i] # "none"
  BY Zenon DEF Held, NRelease, PoolInv, NTypeOK
<1> QED
  BY <1>3, <1>4, <1>5 DEF NRelease, NAbs!ReleaseSurface, Held, NWrap

\* blyt_frame_done's reap empties the pool and keeps the screen.
LEMMA FrameDoneStep ==
  ASSUME PoolInv, NFrameDone
  PROVE  PoolInv' /\ NAbs!ReapSurfaces
<1>1. NTypeOK'
  <2>1. ninUse' \in [Slots -> BOOLEAN] /\ locked' \in [Slots -> BOOLEAN] /\ ninUse'[Screen]
    BY ScreenSlot, Zenon DEF NFrameDone
  <2>2. nsize' \in [Slots -> Nat] /\ nsize'[Screen] = ScreenSize /\ bump' \in Nat
    BY ScreenSlot DEF NFrameDone, PoolInv, NTypeOK
  <2>3. ngen' \in [Slots -> 0 .. GenMod - 1] /\ nlockGen' \in [Slots -> 0 .. GenMod - 1]
    BY NWrapType DEF NFrameDone, PoolInv, NTypeOK
  <2> QED
    BY <2>1, <2>2, <2>3 DEF NFrameDone, PoolInv, NTypeOK
<1>2. \A i \in OffScreen : ~ninUse'[i] /\ nsize'[i] = 0
  BY ScreenSlot, Zenon DEF NFrameDone, OffScreen
<1>3. PoolInv'
  <2>1. bump' <= NativeArena
    BY NativeAssumption DEF NFrameDone
  <2>2. BuffersDisjoint'
    BY <1>2, <2>1 DEF BuffersDisjoint
  <2>3. \A i \in Slots : ~locked'[i]
    BY DEF NFrameDone
  <2> QED
    BY <1>1, <1>2, <2>2, <2>3 DEF PoolInv
<1>4. NContent' = [i \in Slots |-> IF i = Screen THEN NContent[i] ELSE NAbs!Filled(0, Blank)]
  <2>1. \A i \in Slots : NContent'[i] = IF i = Screen THEN NContent[i] ELSE NAbs!Filled(0, Blank)
    BY DEF NFrameDone, NContent, NAbs!Filled, Cells
  <2>2. NContent' = [i \in Slots |-> NContent'[i]]
    BY DEF NContent
  <2> QED
    BY <2>1, <2>2, Zenon
<1>5. Held' = [i \in Slots |-> "none"] /\ \A i \in Slots : (Held[i] # "none") <=> locked[i]
  BY DEF Held, NFrameDone, PoolInv, NTypeOK
<1>6. nlockGen' = [i \in Slots |->
                     IF Held[i] # "none" THEN (nlockGen[i] + 1) % GenMod ELSE nlockGen[i]]
  BY <1>5 DEF NFrameDone, NWrap
<1> QED
  BY <1>3, <1>4, <1>5, <1>6, SameSlots, Zenon DEF NFrameDone, NWrap, NAbs!ReapSurfaces, Held

\* Every other step at most changes the phase.
LEMMA IdleStep ==
  ASSUME PoolInv, nrun' \in {"guest", "top", "quit"}, nphase' \in {"none", "init", "update", "draw"},
         UNCHANGED <<ninUse, ngen, nsize, base, locked, nlockGen, bump, arena, fb>>
  PROVE  PoolInv' /\ NAbs!PhaseEnter(nphase') /\ (UNCHANGED nphase => UNCHANGED NAbs!cvars)
<1>1. NTypeOK' /\ BuffersDisjoint'
  BY DEF PoolInv, NTypeOK, BuffersDisjoint
<1>2. PoolInv'
  BY <1>1, Zenon DEF PoolInv
<1>3. NContent' = NContent /\ Held' = Held
  BY DEF NContent, Held
<1> QED
  BY <1>2, <1>3 DEF NAbs!PhaseEnter, NAbs!cvars, Held

-----------------------------------------------------------------------------

\* Every step of the pool keeps the invariant and is a step of the contract, or
\* invisible to it.
LEMMA NextStep ==
  ASSUME PoolInv, [NNext]_nvars
  PROVE  PoolInv' /\ [NAbs!ContractNext]_NAbs!cvars
<1> USE SameSlots
<1>1. ASSUME NEW i \in Slots, NEW n \in Sizes, NCreate(i, n)
      PROVE  PoolInv' /\ NAbs!ContractNext
  <2>1. PoolInv' /\ NAbs!CreateSurface(i, n)
    BY <1>1, CreateInv, CreateRefines
  <2> QED
    BY <2>1 DEF NAbs!ContractNext
<1>2. ASSUME NEW i \in Slots, NDestroy(i) PROVE PoolInv' /\ NAbs!ContractNext
  <2>1. PoolInv' /\ NAbs!DestroySurface(i)
    BY <1>2, DestroyInv, DestroyRefines
  <2> QED
    BY <2>1 DEF NAbs!ContractNext
<1>3. ASSUME NEW i \in Slots, NEW c \in Color, NEW cells \in Spans(nsize[i]),
             NDraw(i, cells, c) \/ NLockWrite(i, cells, c)
      PROVE  PoolInv' /\ NAbs!ContractNext
  <2>1. PoolInv' /\ (NAbs!DrawSurface(i, cells, c) \/ NAbs!WriteView(i, cells, c))
    BY <1>3, DrawStep, LockWriteStep
  <2>2. cells \in SUBSET (1 .. nsize[i])
    BY SpanCells DEF PoolInv, NTypeOK, Cells
  <2> QED
    BY <2>1, <2>2 DEF NAbs!ContractNext
<1>4. ASSUME NEW d \in Slots, NEW s \in Slots, NEW x \in -nsize[s] .. nsize[d], NBlit(d, s, x)
      PROVE  PoolInv' /\ NAbs!ContractNext
  <2>1. x \in Int
    BY DEF PoolInv, NTypeOK
  <2>2. PoolInv' /\ NAbs!BlitSurface(d, s, x)
    BY <1>4, <2>1, BlitStep
  <2> QED
    BY <2>2 DEF NAbs!ContractNext
<1>5. ASSUME NEW i \in Slots, NAcquire(i) \/ NRelease(i) PROVE PoolInv' /\ NAbs!ContractNext
  <2>1. PoolInv' /\ (NAbs!AcquireSurface(i, "lock") \/ NAbs!ReleaseSurface(i))
    BY <1>5, AcquireStep, ReleaseStep
  <2> QED
    BY <2>1 DEF NAbs!ContractNext
<1>6. CASE NFrameDone
  BY <1>6, FrameDoneStep DEF NAbs!ContractNext
<1>7. ASSUME NEW p \in {"init", "update", "draw"}, NPhase(p) PROVE PoolInv' /\ NAbs!ContractNext
  <2>1. PoolInv' /\ NAbs!PhaseEnter(nphase') /\ nphase' = p
    BY <1>7, IdleStep DEF NPhase
  <2> QED
    BY <2>1 DEF NAbs!ContractNext
<1>8. CASE NQuitLoop \/ UNCHANGED nvars
  <2>1. /\ nrun' \in {"guest", "top", "quit"} /\ nphase' \in {"none", "init", "update", "draw"}
        /\ UNCHANGED <<nphase, ninUse, ngen, nsize, base, locked, nlockGen, bump, arena, fb>>
    BY <1>8 DEF NQuitLoop, nvars, PoolInv, NTypeOK
  <2> QED
    BY <2>1, IdleStep
<1> QED
  BY <1>1, <1>2, <1>3, <1>4, <1>5, <1>6, <1>7, <1>8 DEF NNext

\* The initial states map to initial states.
LEMMA InitRefines == NInit => NAbs!ContractInit
<1> SUFFICES ASSUME NInit PROVE NAbs!ContractInit
  OBVIOUS
<1>1. NContent = [i \in Slots |-> NAbs!Filled(IF i = Screen THEN ScreenSize ELSE 0, Blank)]
  <2>1. \A i \in Slots : NContent[i] = NAbs!Filled(IF i = Screen THEN ScreenSize ELSE 0, Blank)
    <3>1. NContent[Screen] = NAbs!Filled(ScreenSize, Blank)
      BY ScreenSlot DEF NInit, NContent, Filled, Cells, NAbs!Filled
    <3>2. \A i \in Slots : i # Screen => NContent[i] = NAbs!Filled(0, Blank)
      BY DEF NInit, NContent, Cells, NAbs!Filled
    <3> QED
      BY <3>1, <3>2
  <2>2. NContent = [i \in Slots |-> NContent[i]]
    BY DEF NContent
  <2> QED
    BY <2>1, <2>2, Zenon
<1>2. Held = [i \in Slots |-> "none"]
  BY DEF NInit, Held
<1> QED
  BY <1>1, <1>2, SameSlots DEF NInit, NAbs!ContractInit, Held

\* The buffers carved from s_surface_arena never overlap, although destroy gives
\* nothing back and only the frame boundary rewinds the bump.
THEOREM BuffersAlwaysDisjoint == NSpec => []BuffersDisjoint
<1>1. PoolInv /\ [NNext]_nvars => PoolInv'
  BY NextStep
<1>2. PoolInv => BuffersDisjoint
  BY DEF PoolInv
<1> QED
  BY <1>1, <1>2, InitPool, PTL DEF NSpec

\* The pool of libblyt32 keeps the promises of the surface API, the same ones
\* SurfacesImplementContract shows of the emulated registry.
THEOREM NativePoolImplementsContract == NSpec => NativeImplementsContract
<1>1. NInit => PoolInv /\ NAbs!ContractInit
  BY InitPool, InitRefines
<1>2. PoolInv /\ [NNext]_nvars => PoolInv'
  BY NextStep
<1>3. PoolInv /\ [NNext]_nvars => [NAbs!ContractNext]_NAbs!cvars
  BY NextStep
<1> QED
  BY <1>1, <1>2, <1>3, PTL DEF NSpec, NativeImplementsContract, NAbs!Contract

-----------------------------------------------------------------------------
(* The pool of a pure-Lua cart.  LiveLocksOwn is inductive once the locks   *)
(* are known not to come from the future: the frame that bumps the epoch    *)
(* then leaves no live lock at all.                                         *)

LuaPoolInv ==
    /\ luse \in [Slots -> BOOLEAN] /\ llocked \in [Slots -> BOOLEAN]
    /\ lgen \in [Slots -> 0 .. GenMod - 1]
    /\ epoch \in Nat
    /\ locks \subseteq [slot : Slots, gen : 0 .. GenMod - 1, epoch : Nat]
    /\ \A lk \in locks : lk.epoch <= epoch
    /\ LiveLocksOwn

\* A step that leaves the slots and the epoch alone, and adds no lock.
LEMMA LuaIdle ==
  ASSUME LuaPoolInv, UNCHANGED <<luse, lgen, llocked, epoch>>, locks' \subseteq locks
  PROVE  LuaPoolInv'
  BY DEF LuaPoolInv, LiveLocksOwn

\* Every step of the pool keeps the invariant: a destroy needs an unlocked
\* surface, so it frees no buffer a live lock points at.
LEMMA LuaNext == LuaPoolInv /\ [LNext]_lvars => LuaPoolInv'
<1> SUFFICES ASSUME LuaPoolInv, [LNext]_lvars PROVE LuaPoolInv'
  OBVIOUS
<1> USE DEF LuaPoolInv
<1>1. ASSUME NEW i \in Slots, NEW n \in Sizes, LCreate(i, n) PROVE LuaPoolInv'
  BY <1>1 DEF LCreate, LiveLocksOwn
<1>2. ASSUME NEW i \in Slots, LDestroy(i) PROVE LuaPoolInv'
  <2>1. lgen' \in [Slots -> 0 .. GenMod - 1]
    BY <1>2, NWrapType DEF LDestroy, NWrap
  <2>2. \A lk \in locks : lk.epoch = epoch => lk.slot # i
    BY <1>2 DEF LDestroy, LDrawable, LiveLocksOwn
  <2> QED
    BY <1>2, <2>1, <2>2 DEF LDestroy, LiveLocksOwn
<1>3. ASSUME NEW i \in Slots, LAcquire(i) PROVE LuaPoolInv'
  BY <1>3 DEF LAcquire, LDrawable, LiveLocksOwn
<1>4. ASSUME NEW lk \in locks, LRelease(lk) PROVE LuaPoolInv'
  <2>1. llocked' \in [Slots -> BOOLEAN]
    BY <1>4 DEF LRelease
  <2>2. ASSUME NEW ot \in locks', ot.epoch = epoch'
        PROVE  luse'[ot.slot] /\ llocked'[ot.slot] /\ lgen'[ot.slot] = ot.gen
    <3>1. ot \in locks /\ ot # lk
      BY <1>4, <2>2 DEF LRelease
    <3>2. LockLive(lk) => ot.slot # lk.slot
      BY <1>4, <2>2, <3>1 DEF LRelease, LiveLocksOwn, LockLive
    <3> QED
      BY <1>4, <2>2, <3>1, <3>2 DEF LRelease, LiveLocksOwn
  <2> QED
    BY <1>4, <2>1, <2>2 DEF LRelease, LiveLocksOwn
<1>5. CASE LRunFrame
  <2>1. luse' \in [Slots -> BOOLEAN] /\ llocked' \in [Slots -> BOOLEAN]
    BY <1>5, Zenon DEF LRunFrame, LReap
  <2>2. lgen' \in [Slots -> 0 .. GenMod - 1]
    BY <1>5, NWrapType DEF LRunFrame, LReap, NWrap
  <2>3. \A lk \in locks' : lk.slot \in Slots /\ lk.epoch \in Nat /\ lk.epoch < epoch'
    BY <1>5 DEF LRunFrame
  <2> QED
    BY <1>5, <2>1, <2>2, <2>3 DEF LRunFrame, LiveLocksOwn
<1>6. CASE LPause \/ LFrameDone \/ LRebuild \/ UNCHANGED lvars
  BY <1>6, LuaIdle, Zenon DEF LPause, LFrameDone, LRebuild, lvars
<1>7. ASSUME NEW i, NEW cells, NEW c,
             LDraw(i, cells, c) \/ LBlit(i, cells, c) \/ LGfx(cells, c) \/ LLockWrite(i, cells, c)
      PROVE  LuaPoolInv'
  BY <1>7, LuaIdle DEF LDraw, LBlit, LGfx, LLockWrite
<1> QED
  BY <1>1, <1>2, <1>3, <1>4, <1>5, <1>6, <1>7, Zenon DEF LNext

\* A lock method of a pure-Lua cart never writes through a dead address, for any
\* slots, sizes, frames and kept locks, with debugger stops and rebuilt VMs.
THEOREM LiveLocksOwnTheirSurface == LSpec => []LiveLocksOwn
<1>1. LInit => LuaPoolInv
  <2> SUFFICES ASSUME LInit PROVE LuaPoolInv
    OBVIOUS
  <2>1. luse \in [Slots -> BOOLEAN] /\ llocked \in [Slots -> BOOLEAN]
    BY Zenon DEF LInit
  <2> QED
    BY <2>1, NativeAssumption DEF LInit, LuaPoolInv, LiveLocksOwn
<1>2. LuaPoolInv => LiveLocksOwn
  BY DEF LuaPoolInv
<1> QED
  BY <1>1, <1>2, LuaNext, PTL DEF LSpec

=============================================================================
