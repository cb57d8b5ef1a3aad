---------------------------- MODULE SurfacesProofs -----------------------------
(***************************************************************************)
(* Proofs about Surfaces, for any number of slots, sizes, colours, arena   *)
(* and budget.                                                             *)
(*                                                                         *)
(* The invariant is RegistryInv.  LockRegionsDisjoint is not inductive by  *)
(* itself: a release rewinds the bump when active_locks reaches 0, which   *)
(* is safe only because active_locks counts the locked slots.              *)
(***************************************************************************)
EXTENDS SurfaceHandles, FiniteSetTheorems, TLAPS

RegistryInv == RegistryTypeOK /\ LocksAccounted /\ LockRegionsDisjoint

\* Arithmetic of the two wrapping and rounding helpers.
LEMMA WrapType == \A g \in 0 .. GenMod - 1 : Wrap(g) \in 0 .. GenMod - 1
  BY SurfacesAssumption DEF Wrap

\* (len + 3) & ~3 is never below len.
LEMMA AlignedBounds == \A n \in Nat : Aligned(n) \in Nat /\ n <= Aligned(n)
<1> SUFFICES ASSUME NEW n \in Nat PROVE Aligned(n) \in Nat /\ n <= Aligned(n)
  OBVIOUS
<1>1. (-n) % LockAlign \in 0 .. LockAlign - 1
  BY SurfacesAssumption
<1> QED
  BY <1>1, SurfacesAssumption DEF Aligned

\* The slots form a finite set, so locks can be counted.
LEMMA SlotsFinite == IsFiniteSet(Slots) /\ Screen \in Slots
<1>1. IsFiniteSet(0 .. MaxSlots - 1)
  BY FS_Interval, SurfacesAssumption
<1> QED
  BY <1>1, SurfacesAssumption DEF Slots, Screen

\* The empty registry satisfies the invariant.
LEMMA InitRegistry == Init => RegistryInv
<1> SUFFICES ASSUME Init PROVE RegistryInv
  OBVIOUS
<1>1. RegistryTypeOK
  <2>1. inUse \in [Slots -> BOOLEAN] /\ inUse[Screen]
    BY SlotsFinite, Zenon DEF Init
  <2>2. /\ gen \in [Slots -> 0 .. GenMod - 1] /\ lockGen \in [Slots -> 0 .. GenMod - 1]
        /\ size \in [Slots -> Nat] /\ at \in [Slots -> Nat]
        /\ size[Screen] = ScreenSize
        /\ lockBump \in Nat /\ activeLocks \in Nat
        /\ lock \in [Slots -> Locks]
    BY SlotsFinite, SurfacesAssumption DEF Init, Locks
  <2>3. DOMAIN pix = Slots /\ pix = [i \in Slots |-> pix[i]]
    BY DEF Init
  <2>4. \A i \in Slots : pix[i] \in [Cells(size[i]) -> Color]
    BY SurfacesAssumption DEF Init, Filled
  <2>5. mem \in [Cells(ArenaSize) -> Color]
    BY SurfacesAssumption DEF Init, Filled
  <2> QED
    BY <2>1, <2>2, <2>3, <2>4, <2>5 DEF RegistryTypeOK
<1>2. LocksAccounted
  <2>1. {i \in Slots : Locked(i)} = {}
    BY DEF Init, Locked
  <2> QED
    BY <2>1, FS_EmptySet DEF Init, LocksAccounted, Locked
<1>3. LockRegionsDisjoint
  BY SurfacesAssumption DEF Init, LockRegionsDisjoint, ArenaLocks
<1> QED
  BY <1>1, <1>2, <1>3 DEF RegistryInv

-----------------------------------------------------------------------------
(* One lemma per operation of the registry *)

\* A created surface disturbs no lock: its slot was free, hence unlocked.
LEMMA CreateInv ==
  ASSUME RegistryInv, NEW i \in Slots, NEW n \in Sizes, NEW other, CreateSlot(i, n, other)
  PROVE  RegistryInv'
<1> USE DEF RegistryInv
<1>0. i # Screen /\ ~inUse[i] /\ lock' = lock /\ at' = at
  BY DEF CreateSlot, FirstFree, OffScreen
<1>1. RegistryTypeOK'
  <2>1. inUse' \in [Slots -> BOOLEAN] /\ inUse'[Screen]
    BY <1>0, SlotsFinite DEF CreateSlot, RegistryTypeOK
  <2>2. size' \in [Slots -> Nat] /\ size'[Screen] = ScreenSize
    BY <1>0, SlotsFinite, SurfacesAssumption DEF CreateSlot, RegistryTypeOK
  <2>3. DOMAIN pix' = Slots /\ pix' = [j \in Slots |-> pix'[j]]
    BY DEF CreateSlot, RegistryTypeOK
  <2>4. \A j \in Slots : pix'[j] \in [Cells(size'[j]) -> Color]
    BY SurfacesAssumption DEF CreateSlot, RegistryTypeOK, Filled
  <2> QED
    BY <2>1, <2>2, <2>3, <2>4 DEF CreateSlot, RegistryTypeOK
<1>2. LocksAccounted'
  BY <1>0 DEF CreateSlot, LocksAccounted, Locked, RegistryTypeOK
<1>3. LockRegionsDisjoint'
  <2>1. ArenaLocks' = ArenaLocks
    BY <1>0 DEF ArenaLocks
  <2>2. i \notin ArenaLocks
    BY <1>0 DEF ArenaLocks, LocksAccounted, Locked
  <2>3. \A j \in ArenaLocks : size'[j] = size[j] /\ j \in Slots
    BY <2>2 DEF CreateSlot, RegistryTypeOK, ArenaLocks
  <2> QED
    BY <1>0, <2>1, <2>3 DEF LockRegionsDisjoint, CreateSlot
<1> QED
  BY <1>1, <1>2, <1>3

\* Neither does a freed one: only an unlocked surface is freed.
LEMMA FreeInv ==
  ASSUME RegistryInv, NEW i \in Slots, FreeSlot(i)
  PROVE  RegistryInv'
<1> USE DEF RegistryInv
<1>0. i # Screen /\ ~Locked(i) /\ lock' = lock /\ at' = at
  BY DEF FreeSlot, OffScreen
<1>1. RegistryTypeOK'
  <2>1. inUse' \in [Slots -> BOOLEAN] /\ inUse'[Screen]
    BY <1>0, SlotsFinite DEF FreeSlot, RegistryTypeOK
  <2>2. size' \in [Slots -> Nat] /\ size'[Screen] = ScreenSize
    BY <1>0, SlotsFinite DEF FreeSlot, RegistryTypeOK
  <2>3. DOMAIN pix' = Slots /\ pix' = [j \in Slots |-> pix'[j]]
    BY DEF FreeSlot, RegistryTypeOK
  <2>4. \A j \in Slots : pix'[j] \in [Cells(size'[j]) -> Color]
    BY SurfacesAssumption DEF FreeSlot, RegistryTypeOK, Filled
  <2>5. gen' \in [Slots -> 0 .. GenMod - 1]
    BY WrapType DEF FreeSlot, RegistryTypeOK
  <2> QED
    BY <2>1, <2>2, <2>3, <2>4, <2>5 DEF FreeSlot, RegistryTypeOK
<1>2. LocksAccounted'
  BY <1>0 DEF FreeSlot, LocksAccounted, Locked, RegistryTypeOK
<1>3. LockRegionsDisjoint'
  <2>1. ArenaLocks' = ArenaLocks /\ i \notin ArenaLocks
    BY <1>0 DEF ArenaLocks, Locked
  <2>2. \A j \in ArenaLocks : size'[j] = size[j] /\ j \in Slots
    BY <2>1 DEF FreeSlot, RegistryTypeOK, ArenaLocks
  <2> QED
    BY <1>0, <2>1, <2>2 DEF LockRegionsDisjoint, FreeSlot
<1> QED
  BY <1>1, <1>2, <1>3

\* A step that only stores pixels, canonical or in the gap.
LEMMA StoreInv ==
  ASSUME RegistryInv,
         DOMAIN pix' = Slots, pix' = [j \in Slots |-> pix'[j]],
         \A j \in Slots : pix'[j] \in [Cells(size[j]) -> Color],
         mem' \in [Cells(ArenaSize) -> Color],
         UNCHANGED <<inUse, gen, size, lock, at, lockGen, lockBump, activeLocks>>
  PROVE  RegistryInv'
<1>1. RegistryTypeOK'
  BY DEF RegistryInv, RegistryTypeOK
<1>2. LocksAccounted' /\ LockRegionsDisjoint'
  BY DEF RegistryInv, LocksAccounted, Locked, LockRegionsDisjoint, ArenaLocks
<1> QED
  BY <1>1, <1>2 DEF RegistryInv

\* Painting a buffer keeps its size and its colours.
LEMMA PaintType ==
  \A n \in Nat : \A p, cells, c : p \in [Cells(n) -> Color] /\ c \in Color
     => Paint(p, cells, c) \in [Cells(n) -> Color]
  BY DEF Paint

\* So does a blit.
LEMMA BlitType ==
  \A n, m \in Nat : \A d, s, x : d \in [Cells(n) -> Color] /\ s \in [Cells(m) -> Color]
     => Blit(d, s, x) \in [Cells(n) -> Color]
  BY DEF Blit

\* The tier-1 drawing calls.
LEMMA DrawInv ==
  ASSUME RegistryInv, NEW i \in Slots, NEW cells, NEW c \in Color, DrawSlot(i, cells, c)
  PROVE  RegistryInv'
<1>1. \A j \in Slots : pix'[j] \in [Cells(size[j]) -> Color]
  BY PaintType DEF RegistryInv, RegistryTypeOK, DrawSlot
<1>2. DOMAIN pix' = Slots /\ pix' = [j \in Slots |-> pix'[j]]
  BY DEF RegistryInv, RegistryTypeOK, DrawSlot
<1> QED
  BY <1>1, <1>2, StoreInv DEF DrawSlot, RegistryInv, RegistryTypeOK

\* The blit.
LEMMA BlitInv ==
  ASSUME RegistryInv, NEW d \in Slots, NEW s \in Slots, NEW x \in Int, BlitSlot(d, s, x)
  PROVE  RegistryInv'
<1>1. \A j \in Slots : pix'[j] \in [Cells(size[j]) -> Color]
  BY BlitType DEF RegistryInv, RegistryTypeOK, BlitSlot
<1>2. DOMAIN pix' = Slots /\ pix' = [j \in Slots |-> pix'[j]]
  BY DEF RegistryInv, RegistryTypeOK, BlitSlot
<1> QED
  BY <1>1, <1>2, StoreInv DEF BlitSlot, RegistryInv, RegistryTypeOK

\* Taking a lock adds one to the count, whatever the kind.
LEMMA LockCount ==
  ASSUME RegistryInv, NEW i \in Slots, NEW kind \in Locks \ {"none"},
         inUse[i], ~Locked(i), lock' = [lock EXCEPT ![i] = kind],
         activeLocks' = activeLocks + 1, inUse' = inUse
  PROVE  LocksAccounted' /\ lock' \in [Slots -> Locks] /\ activeLocks' \in Nat
<1> DEFINE L == {j \in Slots : Locked(j)}
<1>1. lock' \in [Slots -> Locks] /\ activeLocks' \in Nat
  BY DEF RegistryInv, RegistryTypeOK
<1>2. L' = L \cup {i} /\ i \notin L
  BY DEF RegistryInv, RegistryTypeOK, Locked
<1>3. IsFiniteSet(L)
  BY SlotsFinite, FS_Subset
<1>4. Cardinality(L') = Cardinality(L) + 1
  BY <1>2, <1>3, FS_AddElement
<1>5. \A j \in Slots : Locked(j)' => inUse'[j]
  BY DEF RegistryInv, RegistryTypeOK, LocksAccounted, Locked
<1> QED
  BY <1>1, <1>4, <1>5 DEF RegistryInv, LocksAccounted

\* A lock's region starts at the bump, above every other region.
LEMMA AcquireInv ==
  ASSUME RegistryInv, NEW i \in Slots, NEW kind \in {"copy", "phantom"}, AcquireLock(i, kind)
  PROVE  RegistryInv'
<1> USE DEF RegistryInv
<1>0. /\ inUse[i] /\ ~Locked(i) /\ size[i] \in Nat /\ Aligned(size[i]) \in Nat
      /\ size[i] <= Aligned(size[i]) /\ lockBump \in Nat
      /\ lockBump + Aligned(size[i]) <= ArenaSize /\ lockBump' = lockBump + Aligned(size[i])
      /\ size' = size
  BY AlignedBounds DEF AcquireLock, RegistryTypeOK
<1>1. LocksAccounted' /\ lock' \in [Slots -> Locks] /\ activeLocks' \in Nat
  BY LockCount, Zenon DEF AcquireLock, Locks
<1>2. mem' \in [Cells(ArenaSize) -> Color]
  <2>1. SUFFICES ASSUME NEW a \in Cells(ArenaSize),
                        a - lockBump \in Cells(size[i])
                 PROVE  pix[i][a - lockBump] \in Color
    BY SurfacesAssumption DEF AcquireLock, RegistryTypeOK
  <2> QED
    BY <2>1 DEF RegistryTypeOK
<1>3. RegistryTypeOK'
  <2>1. at' \in [Slots -> Nat]
    BY <1>0 DEF AcquireLock, RegistryTypeOK
  <2>2. lockBump' \in Nat
    BY <1>0
  <2> QED
    BY <1>1, <1>2, <2>1, <2>2 DEF AcquireLock, RegistryTypeOK
<1>4. LockRegionsDisjoint'
  <2>1. ArenaLocks' = ArenaLocks \cup {i} /\ i \notin ArenaLocks
    BY <1>0 DEF AcquireLock, ArenaLocks, Locked, RegistryTypeOK
  <2>2. at'[i] = lockBump /\ \A j \in ArenaLocks : at'[j] = at[j]
    BY <2>1 DEF AcquireLock, RegistryTypeOK, ArenaLocks
  <2>3. \A j \in ArenaLocks : at[j] \in Nat /\ size[j] \in Nat /\ at[j] + size[j] <= lockBump
    BY DEF LockRegionsDisjoint, ArenaLocks, RegistryTypeOK
  <2>4. \A j \in ArenaLocks' : at'[j] + size'[j] <= lockBump'
    BY <1>0, <2>1, <2>2, <2>3
  <2>5. \A j, k \in ArenaLocks' :
          j # k => at'[j] + size'[j] <= at'[k] \/ at'[k] + size'[k] <= at'[j]
    <3>1. SUFFICES ASSUME NEW j \in ArenaLocks', NEW k \in ArenaLocks', j # k
                   PROVE at'[j] + size'[j] <= at'[k] \/ at'[k] + size'[k] <= at'[j]
      OBVIOUS
    <3>2. CASE j = i
      BY <1>0, <2>1, <2>2, <2>3, <3>1, <3>2
    <3>3. CASE k = i
      BY <1>0, <2>1, <2>2, <2>3, <3>1, <3>3
    <3>4. CASE j # i /\ k # i
      BY <1>0, <2>1, <2>2, <3>1, <3>4 DEF LockRegionsDisjoint
    <3> QED
      BY <3>2, <3>3, <3>4
  <2> QED
    BY <1>0, <2>4, <2>5 DEF LockRegionsDisjoint
<1> QED
  BY <1>1, <1>3, <1>4

\* A direct lock of the host-Lua half takes no room in the gap.
LEMMA AcquireDirectInv ==
  ASSUME RegistryInv, NEW i \in Slots, AcquireDirect(i)
  PROVE  RegistryInv'
<1> USE DEF RegistryInv
<1>1. LocksAccounted' /\ lock' \in [Slots -> Locks] /\ activeLocks' \in Nat
  BY LockCount, Zenon DEF AcquireDirect, Locks
<1>2. RegistryTypeOK'
  BY <1>1 DEF AcquireDirect, RegistryTypeOK
<1>3. LockRegionsDisjoint'
  <2>1. ArenaLocks' = ArenaLocks /\ i \notin ArenaLocks
    BY DEF AcquireDirect, ArenaLocks, Locked, RegistryTypeOK
  <2>2. \A j \in ArenaLocks : at'[j] = at[j]
    BY <2>1 DEF AcquireDirect, RegistryTypeOK, ArenaLocks
  <2> QED
    BY <2>1, <2>2 DEF LockRegionsDisjoint, AcquireDirect
<1> QED
  BY <1>1, <1>2, <1>3

\* A lock region inside the gap: its cells are cells of the gap, in order.
LEMMA RegionCells ==
  \A base, n, top \in Nat : base + n <= top =>
     \A k \in Cells(n) : base + k \in Cells(top) /\ (base + k) - base = k
  BY DEF Cells

\* Of two regions that do not overlap, neither has a cell of the other.
LEMMA RegionsApart ==
  \A base, n, other, m \in Nat : base + n <= other \/ other + m <= base =>
     \A k \in Cells(m) : (other + k) - base \notin Cells(n)
  BY DEF Cells

\* The region of a lock lies in the gap.
LEMMA RegionInGap ==
  ASSUME RegistryInv, NEW i \in ArenaLocks
  PROVE  at[i] \in Nat /\ size[i] \in Nat /\ at[i] + size[i] <= ArenaSize
<1>1. at[i] \in Nat /\ size[i] \in Nat /\ lockBump \in Nat
  BY DEF RegistryInv, RegistryTypeOK, ArenaLocks
<1>2. at[i] + size[i] <= lockBump /\ lockBump <= ArenaSize
  BY DEF RegistryInv, LockRegionsDisjoint
<1> QED
  BY <1>1, <1>2, SurfacesAssumption

\* What a lock shows has the size and the colours of its surface.
LEMMA FlushedType ==
  ASSUME RegistryInv, NEW i \in Slots
  PROVE  Flushed(i) \in [Cells(size[i]) -> Color]
<1>1. CASE lock[i] = "copy"
  <2>1. i \in ArenaLocks
    BY <1>1 DEF ArenaLocks
  <2>2. at[i] \in Nat /\ size[i] \in Nat /\ at[i] + size[i] <= ArenaSize
    BY <2>1, RegionInGap
  <2>3. \A k \in Cells(size[i]) : at[i] + k \in Cells(ArenaSize)
    BY <2>2, RegionCells, SurfacesAssumption
  <2> QED
    BY <1>1, <2>3 DEF Flushed, View, RegistryInv, RegistryTypeOK
<1>2. CASE lock[i] # "copy"
  BY <1>2 DEF Flushed, RegistryInv, RegistryTypeOK
<1> QED
  BY <1>1, <1>2

\* Giving a lock back: the bump is rewound only when no slot is locked any more.
LEMMA ReleaseInv ==
  ASSUME RegistryInv, NEW i \in Slots, ReleaseLock(i)
  PROVE  RegistryInv'
<1> USE DEF RegistryInv
<1> DEFINE L == {j \in Slots : Locked(j)}
<1>0. Locked(i) /\ lock' = [lock EXCEPT ![i] = "none"]
  BY DEF ReleaseLock
<1>1. L' = L \ {i} /\ i \in L /\ IsFiniteSet(L) /\ IsFiniteSet(L')
  <2>1. L' = L \ {i} /\ i \in L
    BY <1>0 DEF RegistryTypeOK, Locked
  <2> QED
    BY <2>1, SlotsFinite, FS_Subset
<1>2. activeLocks = Cardinality(L) /\ Cardinality(L') = Cardinality(L) - 1
      /\ Cardinality(L') \in Nat
  <2>1. Cardinality(L') = Cardinality(L) - 1
    BY <1>1, FS_RemoveElement, Zenon
  <2>2. Cardinality(L') \in Nat
    BY <1>1, FS_CardinalityType
  <2> QED
    BY <2>1, <2>2 DEF LocksAccounted
<1>3. activeLocks' = Cardinality(L') /\ activeLocks' \in Nat
  BY <1>2 DEF ReleaseLock, RegistryTypeOK
<1>4. LocksAccounted'
  <2>1. \A j \in Slots : Locked(j)' => inUse'[j]
    BY <1>0 DEF ReleaseLock, LocksAccounted, Locked, RegistryTypeOK
  <2> QED
    BY <1>3, <2>1 DEF LocksAccounted
<1>5. RegistryTypeOK'
  <2>1. \A j \in Slots : pix'[j] \in [Cells(size'[j]) -> Color]
    BY FlushedType DEF ReleaseLock, RegistryTypeOK
  <2>2. DOMAIN pix' = Slots /\ pix' = [j \in Slots |-> pix'[j]]
    BY DEF ReleaseLock, RegistryTypeOK
  <2>3. lockGen' \in [Slots -> 0 .. GenMod - 1]
    BY WrapType DEF ReleaseLock, RegistryTypeOK
  <2>4. lockBump' \in Nat /\ lock' \in [Slots -> Locks]
    BY DEF ReleaseLock, RegistryTypeOK, Locks
  <2> QED
    BY <1>3, <2>1, <2>2, <2>3, <2>4 DEF ReleaseLock, RegistryTypeOK
<1>6. LockRegionsDisjoint'
  <2>1. ArenaLocks' = ArenaLocks \ {i}
    BY <1>0 DEF ArenaLocks, RegistryTypeOK
  <2>2. CASE activeLocks' = 0
    <3>1. L' = {}
      BY <1>1, <1>3, <2>2, FS_EmptySet, Zenon
    <3>2. ArenaLocks' = {}
      BY <3>1 DEF ArenaLocks, Locked
    <3> QED
      BY <2>2, <3>2, SurfacesAssumption DEF LockRegionsDisjoint, ReleaseLock
  <2>3. CASE activeLocks' # 0
    BY <2>1, <2>3 DEF LockRegionsDisjoint, ReleaseLock
  <2> QED
    BY <2>2, <2>3
<1> QED
  BY <1>4, <1>5, <1>6

\* The reap leaves no lock and no off-screen surface.
LEMMA ReapInv ==
  ASSUME RegistryInv, Reap
  PROVE  RegistryInv'
<1> USE DEF RegistryInv
<1>1. RegistryTypeOK'
  <2>1. inUse' \in [Slots -> BOOLEAN] /\ inUse'[Screen]
    BY SlotsFinite, Zenon DEF Reap
  <2>2. size' \in [Slots -> Nat] /\ size'[Screen] = ScreenSize
    BY SlotsFinite DEF Reap, RegistryTypeOK
  <2>3. DOMAIN pix' = Slots /\ pix' = [j \in Slots |-> pix'[j]]
    BY DEF Reap
  <2>4. \A j \in Slots : pix'[j] \in [Cells(size'[j]) -> Color]
    <3>1. SUFFICES ASSUME NEW j \in Slots PROVE pix'[j] \in [Cells(size'[j]) -> Color]
      OBVIOUS
    <3>2. CASE j = Screen
      BY <3>2, FlushedType DEF Reap
    <3>3. CASE j # Screen
      BY <3>3, SurfacesAssumption DEF Reap, Filled
    <3> QED
      BY <3>2, <3>3
  <2>5. gen' \in [Slots -> 0 .. GenMod - 1] /\ lockGen' \in [Slots -> 0 .. GenMod - 1]
    BY WrapType DEF Reap, RegistryTypeOK
  <2>6. lock' \in [Slots -> Locks] /\ lockBump' \in Nat /\ activeLocks' \in Nat
    BY DEF Reap, Locks
  <2> QED
    BY <2>1, <2>2, <2>3, <2>4, <2>5, <2>6 DEF Reap, RegistryTypeOK
<1>2. LocksAccounted'
  <2>1. {j \in Slots : Locked(j)}' = {}
    BY DEF Reap, Locked
  <2> QED
    BY <2>1, FS_EmptySet DEF Reap, LocksAccounted, Locked
<1>3. LockRegionsDisjoint'
  BY SurfacesAssumption DEF Reap, LockRegionsDisjoint, ArenaLocks
<1> QED
  BY <1>1, <1>2, <1>3

\* The test card fills the screen's buffer, which is ScreenSize cells.
LEMMA TestCardInv ==
  ASSUME RegistryInv, TestCard
  PROVE  RegistryInv'
<1>1. \A j \in Slots : pix'[j] \in [Cells(size[j]) -> Color]
  BY SlotsFinite, SurfacesAssumption DEF RegistryInv, RegistryTypeOK, TestCard, Filled
<1>2. DOMAIN pix' = Slots /\ pix' = [j \in Slots |-> pix'[j]]
  BY DEF RegistryInv, RegistryTypeOK, TestCard
<1> QED
  BY <1>1, <1>2, StoreInv DEF TestCard, RegistryInv, RegistryTypeOK

-----------------------------------------------------------------------------
(* The invariant *)

\* A cell a raster operation touches lies inside the surface.
LEMMA SpanCells == \A n \in Nat : \A cells \in Spans(n) : cells \subseteq Cells(n)
  BY DEF Spans, Cells

\* Steps that leave the registry and the gap alone keep the invariant.
LEMMA IdleInv ==
  ASSUME RegistryInv, UNCHANGED <<registry, mem>>
  PROVE  RegistryInv'
  BY StoreInv DEF registry, RegistryInv, RegistryTypeOK

\* Every step of the system keeps the registry's invariant.
LEMMA NextRegistry == RegistryInv /\ [Next]_vars => RegistryInv'
<1> SUFFICES ASSUME RegistryInv, [Next]_vars PROVE RegistryInv'
  OBVIOUS
<1>1. ASSUME NEW i \in Slots, NEW n \in Sizes, NEW other \in OtherUse,
             SurfaceCreate(i, n, other) \/ HostCreate(i, n, other)
      PROVE  RegistryInv'
  BY <1>1, CreateInv DEF SurfaceCreate, HostCreate
<1>2. ASSUME NEW i \in Slots, SurfaceDestroy(i) \/ HostDestroy(i) PROVE RegistryInv'
  BY <1>2, FreeInv DEF SurfaceDestroy, HostDestroy
<1>3. ASSUME NEW i \in Slots, NEW c \in Color, NEW cells \in Spans(size[i]),
             SurfaceDraw(i, cells, c) \/ HostDraw(i, cells, c)
      PROVE  RegistryInv'
  BY <1>3, DrawInv DEF SurfaceDraw, HostDraw
<1>4. ASSUME NEW d \in Slots, NEW s \in Slots, NEW x \in -size[s] .. size[d],
             SurfaceBlit(d, s, x) \/ HostBlit(d, s, x)
      PROVE  RegistryInv'
  <2>1. x \in Int
    OBVIOUS
  <2> QED
    BY <1>4, <2>1, BlitInv DEF SurfaceBlit, HostBlit
<1>5. ASSUME NEW i \in Slots, SurfaceAcquire(i) \/ SurfaceAcquirePhantom(i) PROVE RegistryInv'
  BY <1>5, AcquireInv DEF SurfaceAcquire, SurfaceAcquirePhantom
<1>6. ASSUME NEW i \in Slots, NEW c \in Color, NEW cells \in Spans(size[i]),
             LockWrite(i, cells, c)
      PROVE  RegistryInv'
  <2>1. mem' \in [Cells(ArenaSize) -> Color]
    BY <1>6 DEF LockWrite, RegistryInv, RegistryTypeOK
  <2> QED
    BY <1>6, <2>1, StoreInv DEF LockWrite, registry, RegistryInv, RegistryTypeOK
<1>7. ASSUME NEW i \in Slots, SurfaceRelease(i) \/ HostRelease(i) PROVE RegistryInv'
  BY <1>7, ReleaseInv DEF SurfaceRelease, HostRelease
<1>8. ASSUME NEW k \in Cells(ScreenSize), NEW c \in Color, GfxWrite(k, c) PROVE RegistryInv'
  <2>1. mem' \in [Cells(ArenaSize) -> Color]
    BY <1>8, Zenon DEF GfxWrite, RegistryInv, RegistryTypeOK
  <2> QED
    BY <1>8, <2>1, StoreInv DEF GfxWrite, registry, RegistryInv, RegistryTypeOK
<1>9. CASE GfxPresent
  <2>1. Cells(ScreenSize) \subseteq Cells(ArenaSize)
    BY SurfacesAssumption DEF Cells
  <2>2. \A j \in Slots : pix'[j] \in [Cells(size[j]) -> Color]
    BY <1>9, <2>1 DEF GfxPresent, RegistryInv, RegistryTypeOK
  <2>3. DOMAIN pix' = Slots /\ pix' = [j \in Slots |-> pix'[j]]
    BY <1>9 DEF GfxPresent, RegistryInv, RegistryTypeOK
  <2> QED
    BY <1>9, <2>2, <2>3, StoreInv DEF GfxPresent, RegistryInv, RegistryTypeOK
<1>10. CASE RunFrame \/ HostRunFrame
  BY <1>10, ReapInv DEF RunFrame, HostRunFrame
<1>11. CASE FrameDone \/ HostFrameDone
  BY <1>11, TestCardInv DEF FrameDone, HostFrameDone
<1>12. ASSUME NEW i \in Slots, HostAcquire(i) PROVE RegistryInv'
  BY <1>12, AcquireDirectInv DEF HostAcquire
<1>13. ASSUME NEW i \in Slots, NEW c \in Color, NEW cells \in Spans(size[i]),
              HostLockWrite(i, cells, c)
       PROVE  RegistryInv'
  <2>1. \A j \in Slots : pix'[j] \in [Cells(size[j]) -> Color]
    BY <1>13, PaintType DEF RegistryInv, RegistryTypeOK, HostLockWrite
  <2>2. DOMAIN pix' = Slots /\ pix' = [j \in Slots |-> pix'[j]]
    BY <1>13 DEF RegistryInv, RegistryTypeOK, HostLockWrite
  <2> QED
    BY <1>13, <2>1, <2>2, StoreInv DEF HostLockWrite, RegistryInv, RegistryTypeOK
<1>14. ASSUME NEW p \in Phases,
              Misuse \/ PhaseSignal(p) \/ QuitLoop \/ GdbPause \/ HostPhase(p) \/ HostCallGuest
              \/ GuestReturn \/ UNCHANGED vars
       PROVE  RegistryInv'
  BY <1>14, IdleInv DEF Misuse, PhaseSignal, QuitLoop, GdbPause, HostPhase, HostCallGuest,
     GuestReturn, vars
<1>15. Phases # {}
  BY DEF Phases
<1>16. ASSUME NEW c \in Color, NEW cells \in Spans(ScreenSize), HostGfx(cells, c) PROVE RegistryInv'
  <2>1. \A j \in Slots : pix'[j] \in [Cells(size[j]) -> Color]
    BY <1>16, PaintType, SlotsFinite DEF RegistryInv, RegistryTypeOK, HostGfx
  <2>2. DOMAIN pix' = Slots /\ pix' = [j \in Slots |-> pix'[j]]
    BY <1>16 DEF RegistryInv, RegistryTypeOK, HostGfx
  <2> QED
    BY <1>16, <2>1, <2>2, StoreInv DEF HostGfx, RegistryInv, RegistryTypeOK
<1> QED
  BY <1>1, <1>2, <1>3, <1>4, <1>5, <1>6, <1>7, <1>8, <1>9, <1>10, <1>11, <1>12, <1>13, <1>14, <1>15,
     <1>16
  DEF Next, GuestNext, HostNext, FrameNext

\* The run state and the phase keep their types.
LEMMA NextControl == ControlTypeOK /\ [Next]_vars => ControlTypeOK'
<1> SUFFICES ASSUME ControlTypeOK, [Next]_vars PROVE ControlTypeOK'
  OBVIOUS
<1>1. hasDrawn' \in BOOLEAN
  BY Zenon DEF ControlTypeOK, Next, GuestNext, HostNext, FrameNext, vars, Draws,
     SurfaceCreate, SurfaceDestroy, SurfaceDraw, SurfaceBlit, SurfaceAcquire, SurfaceAcquirePhantom,
     LockWrite, SurfaceRelease, Misuse, GfxWrite, GfxPresent, PhaseSignal, QuitLoop, HostCreate,
     HostDestroy, HostDraw, HostGfx, HostBlit, HostAcquire, HostLockWrite, HostRelease, HostPhase,
     HostCallGuest, RunFrame, FrameDone, GdbPause, HostRunFrame, HostFrameDone, GuestReturn,
     CreateSlot, FreeSlot, DrawSlot, BlitSlot, AcquireLock, AcquireDirect, Reap, TestCard
<1>2. run' \in Runs /\ phase' \in Phases
  BY Zenon DEF ControlTypeOK, Runs, Phases, Next, GuestNext, HostNext, FrameNext, vars,
         ControlUnchanged,
     SurfaceCreate, SurfaceDestroy, SurfaceDraw, SurfaceBlit, SurfaceAcquire, SurfaceAcquirePhantom,
     LockWrite, SurfaceRelease, Misuse, GfxWrite, GfxPresent, PhaseSignal, QuitLoop, HostCreate,
     HostDestroy, HostDraw, HostGfx, HostBlit, HostAcquire, HostLockWrite, HostRelease, HostPhase,
     HostCallGuest, RunFrame, FrameDone, GdbPause, HostRunFrame, HostFrameDone, GuestReturn
<1> QED
  BY <1>1, <1>2 DEF ControlTypeOK

\* Type correctness of the registry, whatever the guest, the host-Lua half, the
\* debugger and the raw framebuffer path do.
THEOREM SurfacesType == Spec => []TypeOK
<1>1. Init => TypeOK /\ RegistryInv
  BY InitRegistry, Zenon DEF Init, TypeOK, ControlTypeOK, Runs, Phases, RegistryInv
<1>2. (TypeOK /\ RegistryInv) /\ [Next]_vars => (TypeOK /\ RegistryInv)'
  BY NextRegistry, NextControl DEF TypeOK, RegistryInv
<1> QED
  BY <1>1, <1>2, PTL DEF Spec

\* The lock count, the reset of the bump and the regions of the lock arena stay
\* right for any slots, sizes, alignment and arena.
THEOREM LockArenaAlwaysSound == Spec => []LockArenaSound
<1>1. RegistryInv => LockArenaSound
  BY DEF RegistryInv, LockArenaSound
<1> QED
  BY <1>1, InitRegistry, NextRegistry, PTL DEF Spec

-----------------------------------------------------------------------------
(* Draw scope.  DrawScoped is not inductive: entering update() from the     *)
(* frame boundary keeps the surfaces, and is right only because run_frame   *)
(* has reaped them before it resumed the cart there.                        *)

\* No off-screen surface and no writing lock.
Clean == \A i \in Slots : (i # Screen => ~inUse[i]) /\ lock[i] # "copy"

ScopeInv ==
    ~cart.hybrid => /\ run # "host"
                    /\ phase # "draw" \/ run = "top" => Clean

\* What neither creates a surface nor takes a lock keeps the registry clean.
LEMMA CleanKept == ASSUME UNCHANGED <<inUse, lock>>, Clean PROVE Clean'
  BY DEF Clean

\* Every step keeps the scope: the calls that make a surface or a writing lock
\* need phase DRAW, and the one way out of it leads through the reap.
LEMMA NextScope == ScopeInv /\ RegistryInv /\ [Next]_vars => ScopeInv'
<1> SUFFICES ASSUME ScopeInv, RegistryInv, [Next]_vars, ~cart'.hybrid PROVE ScopeInv'
  BY DEF ScopeInv
<1>0. cart' = cart /\ ~cart.hybrid /\ run # "host"
  BY DEF ScopeInv, Next, vars
<1> DEFINE Scoped == phase # "draw" \/ run = "top" => Clean
<1>a. Scoped
  BY <1>0 DEF ScopeInv
<1> SUFFICES run' # "host" /\ Scoped'
  BY <1>0 DEF ScopeInv
<1>1. ASSUME NEW i \in Slots, NEW n, NEW other, SurfaceCreate(i, n, other) PROVE run' # "host" /\ Scoped'
  BY <1>1 DEF SurfaceCreate, GuestRuns, ControlUnchanged
<1>2. ASSUME NEW i \in Slots, SurfaceDestroy(i) PROVE run' # "host" /\ Scoped'
  <2>1. Clean => Clean'
    BY <1>2 DEF SurfaceDestroy, FreeSlot, Clean, RegistryInv, RegistryTypeOK
  <2> QED
    BY <1>a, <1>2, <2>1 DEF SurfaceDestroy, GuestRuns, ControlUnchanged
<1>3. ASSUME NEW i \in Slots, SurfaceAcquire(i) PROVE run' # "host" /\ Scoped'
  BY <1>3 DEF SurfaceAcquire, GuestRuns, ControlUnchanged
<1>4. ASSUME NEW i \in Slots, SurfaceAcquirePhantom(i) PROVE run' # "host" /\ Scoped'
  <2>1. Clean => Clean'
    BY <1>4 DEF SurfaceAcquirePhantom, AcquireLock, Clean, RegistryInv, RegistryTypeOK
  <2> QED
    BY <1>a, <1>4, <2>1 DEF SurfaceAcquirePhantom, GuestRuns, ControlUnchanged
<1>5. ASSUME NEW i \in Slots, SurfaceRelease(i) PROVE run' # "host" /\ Scoped'
  <2>1. Clean => Clean'
    BY <1>5 DEF SurfaceRelease, ReleaseLock, Clean, RegistryInv, RegistryTypeOK
  <2> QED
    BY <1>a, <1>5, <2>1 DEF SurfaceRelease, GuestRuns, ControlUnchanged
<1>6. ASSUME UNCHANGED <<run, phase, inUse, lock>> PROVE run' # "host" /\ Scoped'
  BY <1>0, <1>a, <1>6, CleanKept
<1>7. ASSUME NEW p, PhaseSignal(p) PROVE run' # "host" /\ Scoped'
  <2>1. phase # "draw" \/ run = "top" => Clean'
    BY <1>a, <1>7, CleanKept DEF PhaseSignal, registry
  <2>2. p # "draw" => phase # "draw" \/ run = "top"
    BY <1>7 DEF PhaseSignal
  <2> QED
    BY <1>7, <2>1, <2>2 DEF PhaseSignal
<1>8. CASE Misuse \/ QuitLoop \/ GdbPause
  <2>1. phase # "draw" \/ run = "top" => Clean'
    BY <1>a, <1>8, CleanKept DEF Misuse, QuitLoop, GdbPause, registry
  <2> QED
    BY <1>8, <2>1 DEF Misuse, QuitLoop, GdbPause
<1>9. CASE RunFrame
  <2>1. Clean'
    BY <1>9, Zenon DEF RunFrame, Reap, Clean
  <2> QED
    BY <1>9, <2>1 DEF RunFrame
<1>10. CASE FrameDone
  BY <1>10 DEF FrameDone
<1>11. ~HostRunFrame /\ ~HostFrameDone /\ ~GuestReturn /\ ~HostNext
  BY <1>0 DEF HostRunFrame, HostFrameDone, GuestReturn, HostNext, HostCreate, HostDestroy, HostDraw,
     HostGfx, HostBlit, HostAcquire, HostLockWrite, HostRelease, HostPhase, HostCallGuest
<1>12. CASE GfxPresent
  BY <1>6, <1>12 DEF GfxPresent, ControlUnchanged
<1>13. ASSUME NEW i, NEW k, NEW c, GfxWrite(k, c) \/ LockWrite(i, k, c) \/ SurfaceDraw(i, k, c)
                                   \/ SurfaceBlit(i, k, c)
       PROVE  run' # "host" /\ Scoped'
  BY <1>6, <1>13 DEF GfxWrite, LockWrite, SurfaceDraw, SurfaceBlit, DrawSlot, BlitSlot, registry,
     ControlUnchanged
<1>14. CASE UNCHANGED vars
  BY <1>6, <1>14 DEF vars, registry
<1> QED
  BY <1>1, <1>2, <1>3, <1>4, <1>5, <1>7, <1>8, <1>9, <1>10, <1>11, <1>12, <1>13, <1>14
  DEF Next, GuestNext, FrameNext

\* Surfaces are draw-scoped for any cart, sizes and budget, wherever a debugger
\* stops: init() and update() of a cart that is no hybrid find no off-screen
\* surface and no writing lock.
THEOREM SurfacesDrawScoped == Spec => []DrawScoped
<1>1. Init => ScopeInv
  <2> SUFFICES ASSUME Init PROVE ScopeInv
    OBVIOUS
  <2>1. Clean
    BY Zenon DEF Init, Clean
  <2> QED
    BY <2>1 DEF Init, ScopeInv
<1>2. ScopeInv => DrawScoped
  BY DEF ScopeInv, DrawScoped, Clean
<1> QED
  BY <1>1, <1>2, NextScope, InitRegistry, NextRegistry, PTL DEF Spec

-----------------------------------------------------------------------------
(* Stale handles.  A kept handle is below the generation of its slot: a     *)
(* generation moves when what it names goes, and never back until it wraps. *)

\* What one step does to the generations of a slot.
GenStep(i) ==
    /\ gen'[i] = gen[i] \/ gen'[i] = Wrap(gen[i])
    /\ inUse[i] /\ ~inUse'[i] => gen'[i] = Wrap(gen[i])
    /\ lockGen'[i] = lockGen[i] \/ lockGen'[i] = Wrap(lockGen[i])
    /\ Locked(i) /\ lock'[i] = "none" => lockGen'[i] = Wrap(lockGen[i])

\* A step that frees nothing and releases nothing leaves the generations.
LEMMA GenIdle ==
  ASSUME NEW i \in Slots, UNCHANGED <<gen, lockGen>>, inUse[i] => inUse'[i],
         Locked(i) => lock'[i] # "none"
  PROVE  GenStep(i)
  BY DEF GenStep

\* Every way of losing a surface or a lock bumps the generation that named it.
LEMMA NextGenStep ==
  ASSUME RegistryInv, [Next]_vars, NEW i \in Slots
  PROVE  GenStep(i)
<1>1. ASSUME NEW j \in Slots, NEW n, NEW other, CreateSlot(j, n, other) PROVE GenStep(i)
  BY <1>1, GenIdle DEF CreateSlot, RegistryInv, RegistryTypeOK, Locked
<1>2. ASSUME NEW j \in Slots, FreeSlot(j) PROVE GenStep(i)
  BY <1>2 DEF FreeSlot, GenStep, RegistryInv, RegistryTypeOK, Locked
<1>3. ASSUME NEW j \in Slots, NEW kind \in {"copy", "phantom"}, AcquireLock(j, kind) PROVE GenStep(i)
  BY <1>3, GenIdle DEF AcquireLock, RegistryInv, RegistryTypeOK, Locked
<1>4. ASSUME NEW j \in Slots, AcquireDirect(j) PROVE GenStep(i)
  BY <1>4, GenIdle DEF AcquireDirect, RegistryInv, RegistryTypeOK, Locked
<1>5. ASSUME NEW j \in Slots, ReleaseLock(j) PROVE GenStep(i)
  BY <1>5 DEF ReleaseLock, GenStep, RegistryInv, RegistryTypeOK, Locked
<1>6. CASE Reap
  BY <1>6 DEF Reap, GenStep, RegistryInv, RegistryTypeOK, Locked
<1>7. ASSUME UNCHANGED <<gen, lockGen, inUse, lock>> PROVE GenStep(i)
  BY <1>7, GenIdle DEF Locked
<1>8. CASE GfxPresent \/ TestCard \/ Misuse \/ QuitLoop \/ GdbPause \/ HostCallGuest \/ GuestReturn
           \/ UNCHANGED vars
  BY <1>7, <1>8 DEF GfxPresent, TestCard, Misuse, QuitLoop, GdbPause, HostCallGuest, GuestReturn,
     vars, registry
<1>9. ASSUME NEW j, NEW k, NEW c,
             DrawSlot(j, k, c) \/ BlitSlot(j, k, c) \/ LockWrite(j, k, c) \/ GfxWrite(k, c)
             \/ PhaseSignal(j) \/ HostPhase(j) \/ HostGfx(k, c) \/ HostLockWrite(j, k, c)
      PROVE  GenStep(i)
  BY <1>7, <1>9 DEF DrawSlot, BlitSlot, LockWrite, GfxWrite, PhaseSignal, HostPhase, HostGfx,
     HostLockWrite, registry
<1> QED
  BY <1>1, <1>2, <1>3, <1>4, <1>5, <1>6, <1>8, <1>9
  DEF Next, GuestNext, HostNext, FrameNext, SurfaceCreate, SurfaceDestroy, SurfaceDraw, SurfaceBlit,
      SurfaceAcquire, SurfaceAcquirePhantom, SurfaceRelease, HostCreate, HostDestroy, HostDraw,
      HostBlit, HostAcquire, HostRelease, RunFrame, FrameDone, HostRunFrame, HostFrameDone

\* A handle or token the cart keeps is older than what its slot now answers to.
Older(h) ==
    /\ h = <<h[1], h[2], h[3]>> /\ h[1] \in {"surface", "token"} /\ h[2] \in Slots /\ h[3] \in Nat
    /\ h[1] = "surface" => h[3] < gen[h[2]]
    /\ h[1] = "token" => h[3] < lockGen[h[2]]

StaleInv == \A h \in kept : Older(h)

\* A generation that does not come round only grows.
LEMMA WrapGrows ==
  ASSUME GenMod > 1, NEW g \in 0 .. GenMod - 1, NEW w, w = Wrap(g), ~(w < g)
  PROVE  g < w
  BY SurfacesAssumption DEF Wrap

\* A kept handle stays older, and what goes stale in a step is older after it.
LEMMA NextStale ==
  ASSUME GenMod > 1
  PROVE  StaleInv /\ RegistryInv /\ [HandlesNext]_<<vars, kept>> => StaleInv'
<1> SUFFICES ASSUME StaleInv, RegistryInv, [HandlesNext]_<<vars, kept>>, NEW h \in kept'
             PROVE  Older(h)'
  BY DEF StaleInv
<1>0. [Next]_vars
  BY DEF HandlesNext
<1>1. \A i \in Slots : GenStep(i) /\ gen[i] \in 0 .. GenMod - 1 /\ lockGen[i] \in 0 .. GenMod - 1
  BY <1>0, NextGenStep DEF RegistryInv, RegistryTypeOK
<1>2. CASE UNCHANGED <<vars, kept>>
  BY <1>2 DEF StaleInv, Older, vars, registry
<1>3. CASE HandlesNext /\ h \in kept
  <2>0. Older(h) /\ ~Wrapped(h)
    BY <1>3 DEF StaleInv, HandlesNext
  <2>1. CASE h[1] = "surface"
    <3>1. ~(gen'[h[2]] < gen[h[2]])
      BY <2>0, <2>1 DEF Wrapped
    <3>0. h[2] \in Slots /\ gen[h[2]] \in 0 .. GenMod - 1
      BY <1>1, <2>0 DEF Older
    <3>2. CASE gen'[h[2]] = gen[h[2]]
      BY <2>0, <2>1, <3>0, <3>2 DEF Older
    <3>3. CASE gen'[h[2]] = Wrap(gen[h[2]])
      <4>1. gen[h[2]] < gen'[h[2]]
        BY <3>0, <3>1, <3>3, WrapGrows
      <4>2. gen'[h[2]] \in Nat
        BY <3>0, <3>3, WrapType, SurfacesAssumption
      <4> QED
        BY <2>0, <2>1, <3>0, <4>1, <4>2 DEF Older
    <3> QED
      BY <1>1, <3>0, <3>2, <3>3 DEF GenStep
  <2>2. CASE h[1] = "token"
    <3>1. ~(lockGen'[h[2]] < lockGen[h[2]])
      BY <2>0, <2>2 DEF Wrapped
    <3>0. h[2] \in Slots /\ lockGen[h[2]] \in 0 .. GenMod - 1
      BY <1>1, <2>0 DEF Older
    <3>2. CASE lockGen'[h[2]] = lockGen[h[2]]
      BY <2>0, <2>2, <3>0, <3>2 DEF Older
    <3>3. CASE lockGen'[h[2]] = Wrap(lockGen[h[2]])
      <4>1. lockGen[h[2]] < lockGen'[h[2]]
        BY <3>0, <3>1, <3>3, WrapGrows
      <4>2. lockGen'[h[2]] \in Nat
        BY <3>0, <3>3, WrapType, SurfacesAssumption
      <4> QED
        BY <2>0, <2>2, <3>0, <4>1, <4>2 DEF Older
    <3> QED
      BY <1>1, <3>0, <3>2, <3>3 DEF GenStep
  <2> QED
    BY <2>0, <2>1, <2>2 DEF Older
<1>4. CASE HandlesNext /\ h \notin kept
  <2>0. h \in GoneStale /\ ~Wrapped(h)
    BY <1>4 DEF HandlesNext
  <2>1. ASSUME NEW i \in Slots, inUse[i], ~inUse'[i], h = <<"surface", i, gen[i]>>
        PROVE  Older(h)'
    <3>1. gen'[i] = Wrap(gen[i]) /\ ~(gen'[i] < gen[i])
      BY <1>1, <2>0, <2>1 DEF GenStep, Wrapped
    <3>2. gen[i] < gen'[i]
      BY <1>1, <3>1, WrapGrows
    <3> QED
      BY <1>1, <2>1, <3>2 DEF Older
  <2>2. ASSUME NEW i \in Slots, Locked(i), lock'[i] = "none", h = <<"token", i, lockGen[i]>>
        PROVE  Older(h)'
    <3>1. lockGen'[i] = Wrap(lockGen[i]) /\ ~(lockGen'[i] < lockGen[i])
      BY <1>1, <2>0, <2>2 DEF GenStep, Wrapped
    <3>2. lockGen[i] < lockGen'[i]
      BY <1>1, <3>1, WrapGrows
    <3> QED
      BY <1>1, <2>2, <3>2 DEF Older
  <2> QED
    BY <2>0, <2>1, <2>2 DEF GoneStale
<1> QED
  BY <1>2, <1>3, <1>4

\* A handle or a lock token kept past its surface or lock never resolves until
\* its generation wraps, for any slots, sizes and carts: blyt_resolve_surface and
\* blyt_resolve_lockview compare for equality only, so this is about every path
\* that frees a slot or releases a lock.
THEOREM StaleHandlesNeverResolve ==
  ASSUME GenMod > 1
  PROVE  HandlesSpec => []StaleNeverResolves
<1>1. HandlesInit => StaleInv /\ RegistryInv
  BY InitRegistry DEF HandlesInit, StaleInv
<1>2. RegistryInv /\ [HandlesNext]_<<vars, kept>> => RegistryInv'
  BY NextRegistry DEF HandlesNext
<1>3. StaleInv /\ RegistryInv => StaleNeverResolves
  BY SurfacesAssumption DEF StaleInv, Older, StaleNeverResolves, Resolves, RegistryInv, RegistryTypeOK
<1> QED
  BY <1>1, <1>2, <1>3, NextStale, PTL DEF HandlesSpec

-----------------------------------------------------------------------------
(* The refinement: with the raw framebuffer path unused, the registry       *)
(* implements SurfaceContract.                                              *)

\* The two modules name the same slots.
LEMMA SameSlots == Abs!Slots = Slots /\ Abs!Screen = Screen /\ Abs!OffScreen = OffScreen
  BY DEF Abs!Slots, Slots, Abs!Screen, Screen, Abs!OffScreen, OffScreen

\* An unlocked surface shows its canonical buffer.
LEMMA UnlockedContent ==
  ASSUME NEW i \in Slots, ~Locked(i)
  PROVE  Content[i] = pix[i] /\ Held[i] = "none"
  BY DEF Locked, Content, Flushed, Held

\* The initial states map to initial states.
LEMMA InitRefines == Init => Abs!ContractInit
<1> SUFFICES ASSUME Init PROVE Abs!ContractInit
  OBVIOUS
<1>1. Content = [i \in Slots |-> Abs!Filled(IF i = Screen THEN ScreenSize ELSE 0, Blank)]
  BY DEF Init, Content, Flushed, Filled, Cells, Abs!Filled
<1>2. Held = [i \in Slots |-> "none"]
  BY DEF Init, Held
<1> QED
  BY <1>1, <1>2, SameSlots DEF Init, Abs!ContractInit

\* A create is a create of the contract.
LEMMA CreateRefines ==
  ASSUME RegistryInv, NEW i \in Slots, NEW n \in Sizes, NEW other, CreateSlot(i, n, other),
         UNCHANGED phase
  PROVE  Abs!CreateSurface(i, n)
<1>1. ~inUse[i] /\ ~Locked(i) /\ i \in OffScreen
  BY DEF CreateSlot, FirstFree, RegistryInv, LocksAccounted
<1>2. Content' = [Content EXCEPT ![i] = Abs!Filled(n, Blank)]
  BY <1>1, Zenon DEF Content, Flushed, View, CreateSlot, RegistryInv, RegistryTypeOK, Locked,
     Abs!Filled, Filled, Cells
<1>3. Held' = Held
  BY DEF Held, CreateSlot
<1> QED
  BY <1>1, <1>2, <1>3, SameSlots DEF CreateSlot, Abs!CreateSurface

\* A destroy is a destroy.
LEMMA FreeRefines ==
  ASSUME RegistryInv, NEW i \in Slots, FreeSlot(i), UNCHANGED phase
  PROVE  Abs!DestroySurface(i)
<1>1. inUse[i] /\ ~Locked(i) /\ i \in OffScreen
  BY DEF FreeSlot
<1>2. Content' = [Content EXCEPT ![i] = Abs!Filled(0, Blank)]
  BY <1>1, Zenon DEF Content, Flushed, View, FreeSlot, RegistryInv, RegistryTypeOK, Locked,
     Abs!Filled, Filled, Cells
<1>3. Held' = Held /\ Held[i] = "none"
  BY <1>1, UnlockedContent DEF Held, FreeSlot
<1> QED
  BY <1>1, <1>2, <1>3, SameSlots DEF FreeSlot, Abs!DestroySurface, Wrap

\* A tier-1 operation paints what a reader sees, because the surface is not locked.
LEMMA DrawRefines ==
  ASSUME RegistryInv, NEW i \in Slots, NEW cells, NEW c, DrawSlot(i, cells, c), UNCHANGED phase
  PROVE  Abs!DrawSurface(i, cells, c)
<1>1. inUse[i] /\ ~Locked(i)
  BY DEF DrawSlot
<1>2. Content' = [Content EXCEPT ![i] = Abs!Paint(Content[i], cells, c)]
  BY <1>1, Zenon DEF Content, Flushed, View, DrawSlot, RegistryInv, RegistryTypeOK, Locked,
     Abs!Paint, Paint
<1>3. Held' = Held /\ Held[i] = "none"
  BY <1>1, UnlockedContent DEF Held, DrawSlot
<1> QED
  BY <1>1, <1>2, <1>3 DEF DrawSlot, Abs!DrawSurface

\* A blit copies what a reader of the source sees.
LEMMA BlitRefines ==
  ASSUME RegistryInv, NEW d \in Slots, NEW s \in Slots, NEW x, BlitSlot(d, s, x), UNCHANGED phase
  PROVE  Abs!BlitSurface(d, s, x)
<1>1. inUse[d] /\ inUse[s] /\ ~Locked(d) /\ ~Locked(s)
  BY DEF BlitSlot
<1>2. Content[d] = pix[d] /\ Content[s] = pix[s] /\ Held[d] = "none" /\ Held[s] = "none"
  BY <1>1, UnlockedContent
<1>3. Content' = [Content EXCEPT ![d] = Abs!Blit(pix[d], pix[s], x)]
  BY <1>1, Zenon DEF Content, Flushed, View, BlitSlot, RegistryInv, RegistryTypeOK, Locked,
     Abs!Blit, Blit
<1>4. Held' = Held
  BY DEF Held, BlitSlot
<1> QED
  BY <1>1, <1>2, <1>3, <1>4 DEF BlitSlot, Abs!BlitSurface

\* The cells of a locked region below the bump are outside a fresh region.
LEMMA OtherViewsKept ==
  ASSUME RegistryInv, NEW i \in Slots, NEW kind \in {"copy", "phantom"}, AcquireLock(i, kind),
         NEW j \in Slots, j # i
  PROVE  Flushed(j)' = Flushed(j)
<1>0. lock'[j] = lock[j] /\ at'[j] = at[j] /\ size' = size /\ pix' = pix
  BY DEF AcquireLock, RegistryInv, RegistryTypeOK
<1>1. CASE lock[j] = "copy"
  <2>1. at[j] \in Nat /\ size[j] \in Nat /\ at[j] + size[j] <= lockBump /\ lockBump \in Nat
    BY <1>1 DEF RegistryInv, RegistryTypeOK, LockRegionsDisjoint, ArenaLocks
  <2>2. size[i] \in Nat
    BY DEF RegistryInv, RegistryTypeOK
  <2>3. \A k \in Cells(size[j]) : at[j] + k \in Cells(ArenaSize)
    BY <1>1, <2>1, RegionInGap, RegionCells, SurfacesAssumption DEF ArenaLocks
  <2>4. \A k \in Cells(size[j]) : (at[j] + k) - lockBump \notin Cells(size[i])
    BY <2>1, <2>2, RegionsApart
  <2>5. \A k \in Cells(size[j]) : mem'[at[j] + k] = mem[at[j] + k]
    BY <2>3, <2>4 DEF AcquireLock
  <2> QED
    BY <1>0, <1>1, <2>5 DEF Flushed, View
<1>2. CASE lock[j] # "copy"
  BY <1>0, <1>2 DEF Flushed
<1> QED
  BY <1>1, <1>2

\* Copy-in shows the surface's own pixels, and a phantom lock leaves the
\* canonical buffer in sight: taking a lock changes nothing a reader sees.
LEMMA AcquireRefines ==
  ASSUME RegistryInv, NEW i \in Slots, NEW kind \in {"copy", "phantom"}, AcquireLock(i, kind),
         UNCHANGED phase
  PROVE  Abs!AcquireSurface(i, IF kind = "copy" THEN "lock" ELSE "phantom")
<1>1. inUse[i] /\ ~Locked(i) /\ size' = size /\ pix' = pix
      /\ lock'[i] = kind /\ at'[i] = lockBump
  BY DEF AcquireLock, RegistryInv, RegistryTypeOK
<1>2. Flushed(i)' = Flushed(i)
  <2>1. Flushed(i) = pix[i]
    BY <1>1 DEF Flushed, Locked
  <2>2. CASE kind = "phantom"
    BY <1>1, <2>1, <2>2 DEF Flushed
  <2>3. CASE kind = "copy"
    <3>1. size[i] \in Nat /\ lockBump \in Nat /\ lockBump + size[i] <= ArenaSize
      BY AlignedBounds, SurfacesAssumption DEF AcquireLock, RegistryInv, RegistryTypeOK
    <3>2. \A k \in Cells(size[i]) : lockBump + k \in Cells(ArenaSize)
                                     /\ (lockBump + k) - lockBump = k
      BY <3>1, RegionCells, SurfacesAssumption
    <3>3. \A k \in Cells(size[i]) : mem'[lockBump + k] = pix[i][k]
      BY <2>3, <3>2 DEF AcquireLock
    <3>4. pix[i] \in [Cells(size[i]) -> Color]
      BY DEF RegistryInv, RegistryTypeOK
    <3> QED
      BY <1>1, <2>1, <2>3, <3>3, <3>4 DEF Flushed, View
  <2> QED
    BY <2>2, <2>3
<1>3. Content' = Content
  BY <1>2, OtherViewsKept DEF Content
<1>4. Held[i] = "none" /\ Held' = [Held EXCEPT ![i] = IF kind = "copy" THEN "lock" ELSE "phantom"]
  BY <1>1, UnlockedContent, Zenon DEF Held, AcquireLock, RegistryInv, RegistryTypeOK
<1> QED
  BY <1>1, <1>3, <1>4 DEF AcquireLock, Abs!AcquireSurface

\* The host-Lua half's lock is the buffer itself.
LEMMA AcquireDirectRefines ==
  ASSUME RegistryInv, NEW i \in Slots, AcquireDirect(i), UNCHANGED phase
  PROVE  Abs!AcquireSurface(i, "lock")
<1>1. inUse[i] /\ ~Locked(i)
  BY DEF AcquireDirect
<1>2. Content' = Content
  <2>1. \A j \in Slots : Flushed(j)' = Flushed(j)
    BY <1>1 DEF AcquireDirect, Flushed, View, Locked, RegistryInv, RegistryTypeOK
  <2> QED
    BY <2>1 DEF Content
<1>3. Held[i] = "none" /\ Held' = [Held EXCEPT ![i] = "lock"]
  BY <1>1, UnlockedContent, Zenon DEF Held, AcquireDirect, RegistryInv, RegistryTypeOK
<1> QED
  BY <1>1, <1>2, <1>3 DEF AcquireDirect, Abs!AcquireSurface

\* A store through a lock reaches the view of that surface and no other.
LEMMA LockWriteRefines ==
  ASSUME RegistryInv, NEW i \in Slots, NEW c, NEW cells \in Spans(size[i]), LockWrite(i, cells, c)
  PROVE  IF lock[i] = "copy" THEN Abs!WriteView(i, cells, c) ELSE Content' = Content
<1>0. /\ size[i] \in Nat /\ cells \subseteq Cells(size[i]) /\ i \in ArenaLocks
      /\ UNCHANGED <<phase, inUse, gen, size, pix, lock, at, lockGen>>
  BY SpanCells DEF LockWrite, ArenaLocks, RegistryInv, RegistryTypeOK, registry
<1>1. ASSUME NEW j \in Slots, j # i PROVE Flushed(j)' = Flushed(j)
  <2>1. CASE lock[j] = "copy"
    <3>1. j \in ArenaLocks
      BY <2>1 DEF ArenaLocks
    <3>2. at[i] + size[i] <= at[j] \/ at[j] + size[j] <= at[i]
      BY <1>0, <1>1, <3>1 DEF RegistryInv, LockRegionsDisjoint
    <3>3. /\ at[i] \in Nat
          /\ at[j] \in Nat /\ size[j] \in Nat /\ at[j] + size[j] <= ArenaSize
      BY <1>0, <3>1, RegionInGap
    <3>4. \A k \in Cells(size[j]) : at[j] + k \in Cells(ArenaSize)
      BY <3>3, RegionCells, SurfacesAssumption
    <3>5. \A k \in Cells(size[j]) : (at[j] + k) - at[i] \notin Cells(size[i])
      BY <1>0, <3>2, <3>3, RegionsApart
    <3>6. \A k \in Cells(size[j]) : mem'[at[j] + k] = mem[at[j] + k]
      BY <1>0, <3>4, <3>5 DEF LockWrite
    <3> QED
      BY <1>0, <2>1, <3>6 DEF Flushed, View
  <2>2. CASE lock[j] # "copy"
    BY <1>0, <2>2 DEF Flushed
  <2> QED
    BY <2>1, <2>2
<1>2. CASE lock[i] = "copy"
  <2>1. at[i] \in Nat /\ at[i] + size[i] <= ArenaSize
    BY <1>0, RegionInGap
  <2>2. \A k \in Cells(size[i]) : at[i] + k \in Cells(ArenaSize) /\ (at[i] + k) - at[i] = k
    BY <1>0, <2>1, RegionCells, SurfacesAssumption
  <2>3. \A k \in Cells(size[i]) : mem'[at[i] + k] = IF k \in cells THEN c ELSE mem[at[i] + k]
    BY <2>2 DEF LockWrite
  <2>4. Flushed(i)' = Abs!Paint(Flushed(i), cells, c)
    BY <1>0, <1>2, <2>3 DEF Flushed, View, Abs!Paint
  <2>5. Content' = [Content EXCEPT ![i] = Abs!Paint(Content[i], cells, c)]
    BY <1>1, <2>4, Zenon DEF Content
  <2>6. Held' = Held /\ Held[i] = "lock"
    BY <1>0, <1>2 DEF Held
  <2> QED
    BY <1>0, <1>2, <2>5, <2>6 DEF Abs!WriteView
<1>3. CASE lock[i] # "copy"
  <2>1. Flushed(i)' = Flushed(i)
    BY <1>0, <1>3 DEF Flushed
  <2> QED
    BY <1>1, <1>3, <2>1 DEF Content
<1> QED
  BY <1>2, <1>3

\* A store through a direct lock is a store into the buffer a reader sees.
LEMMA HostLockWriteRefines ==
  ASSUME RegistryInv, NEW i \in Slots, NEW cells, NEW c, HostLockWrite(i, cells, c)
  PROVE  Abs!WriteView(i, cells, c)
<1>1. lock[i] = "direct" /\ UNCHANGED <<phase, inUse, gen, size, lock, at, lockGen, mem>>
  BY DEF HostLockWrite, ControlUnchanged
<1>2. Content' = [Content EXCEPT ![i] = Abs!Paint(Content[i], cells, c)]
  BY <1>1, Zenon DEF Content, Flushed, View, HostLockWrite, RegistryInv, RegistryTypeOK,
         Abs!Paint, Paint
<1>3. Held' = Held /\ Held[i] = "lock"
  BY <1>1 DEF Held
<1> QED
  BY <1>1, <1>2, <1>3 DEF Abs!WriteView

\* Copy-out puts into the canonical buffer what the reader was seeing already.
LEMMA ReleaseRefines ==
  ASSUME RegistryInv, NEW i \in Slots, ReleaseLock(i), UNCHANGED phase
  PROVE  Abs!ReleaseSurface(i)
<1>1. Content' = Content
  <2>1. lock'[i] = "none" /\ pix'[i] = Flushed(i)
    BY DEF ReleaseLock, RegistryInv, RegistryTypeOK
  <2>2. Flushed(i)' = Flushed(i)
    BY <2>1 DEF Flushed
  <2>3. \A j \in Slots : j # i => Flushed(j)' = Flushed(j)
    BY DEF ReleaseLock, Flushed, View, RegistryInv, RegistryTypeOK
  <2> QED
    BY <2>2, <2>3 DEF Content
<1>2. Held[i] # "none" /\ Held' = [Held EXCEPT ![i] = "none"]
  BY Zenon DEF Held, ReleaseLock, Locked, RegistryInv, RegistryTypeOK, Locks
<1> QED
  BY <1>1, <1>2 DEF ReleaseLock, Abs!ReleaseSurface, Wrap

\* The reap keeps every pixel of the screen, one still locked included.
LEMMA ReapRefines ==
  ASSUME RegistryInv, Reap, UNCHANGED phase
  PROVE  Abs!ReapSurfaces
<1>1. \A i \in Slots : Flushed(i)' = IF i = Screen THEN Flushed(i) ELSE Abs!Filled(0, Blank)
  BY DEF Reap, Flushed, Filled, Cells, Abs!Filled
<1>2. Content' = [i \in Slots |-> IF i = Screen THEN Content[i] ELSE Abs!Filled(0, Blank)]
  BY <1>1 DEF Content
<1>3. Held' = [i \in Slots |-> "none"]
  BY DEF Held, Reap
<1>4. \A i \in Slots : (Held[i] # "none") <=> Locked(i)
  BY DEF Held, Locked, RegistryInv, RegistryTypeOK, Locks
<1>5. lockGen' = [i \in Slots |->
                    IF Held[i] # "none" THEN (lockGen[i] + 1) % GenMod ELSE lockGen[i]]
  BY <1>4 DEF Reap, Wrap
<1> QED
  BY <1>2, <1>3, <1>5, SameSlots DEF Reap, Wrap, Abs!ReapSurfaces

\* The test card shows on the screen, unless a copy lock holds it: then the
\* card sits in the canonical buffer and the lock's view wins at the flush.
LEMMA TestCardRefines ==
  ASSUME RegistryInv, TestCard, UNCHANGED phase
  PROVE  Abs!ShowTestCard \/ UNCHANGED Abs!cvars
<1>1. Held' = Held
  BY DEF Held, TestCard
<1>2. CASE hasDrawn \/ lock[Screen] = "copy"
  <2>1. \A i \in Slots : Flushed(i)' = Flushed(i)
    BY <1>2 DEF TestCard, Flushed, View, RegistryInv, RegistryTypeOK
  <2>2. Content' = Content
    BY <2>1 DEF Content
  <2> QED
    BY <1>1, <2>2 DEF TestCard, Abs!cvars
<1>3. CASE ~hasDrawn /\ lock[Screen] # "copy"
  <2>1. size[Screen] = ScreenSize /\ Screen \in Slots
    BY SlotsFinite DEF RegistryInv, RegistryTypeOK
  <2>2. Flushed(Screen)' = Abs!Filled(size[Screen], Card)
    BY <1>3, <2>1 DEF TestCard, Flushed, RegistryInv, RegistryTypeOK, Filled, Cells, Abs!Filled
  <2>3. \A i \in Slots : i # Screen => Flushed(i)' = Flushed(i)
    BY DEF TestCard, Flushed, View, RegistryInv, RegistryTypeOK
  <2>4. Content' = [Content EXCEPT ![Screen] = Abs!Filled(size[Screen], Card)]
    BY <2>2, <2>3, Zenon DEF Content
  <2> QED
    BY <1>1, <2>4, SameSlots DEF TestCard, Abs!ShowTestCard
<1> QED
  BY <1>2, <1>3

\* A step that leaves the registry and the gap alone at most changes the phase.
LEMMA IdleRefines ==
  ASSUME UNCHANGED <<registry, mem>>
  PROVE  Abs!PhaseEnter(phase') /\ (UNCHANGED phase => UNCHANGED Abs!cvars)
<1>1. Content' = Content /\ Held' = Held
  BY DEF registry, Content, Held, Flushed, View
<1> QED
  BY <1>1 DEF registry, Abs!PhaseEnter, Abs!cvars

\* Every step of a cart that leaves the raw framebuffer path alone is a step of
\* the contract, or invisible to it.
LEMMA NextRefines ==
  ASSUME RawPath = FALSE, ControlTypeOK', RegistryInv, [Next]_vars
  PROVE  [Abs!ContractNext]_Abs!cvars
<1> USE SameSlots
<1>1. ASSUME NEW i \in Slots, NEW n \in Sizes, NEW other \in OtherUse,
             SurfaceCreate(i, n, other) \/ HostCreate(i, n, other)
      PROVE  Abs!ContractNext
  <2>1. Abs!CreateSurface(i, n)
    BY <1>1, CreateRefines DEF SurfaceCreate, HostCreate, ControlUnchanged
  <2> QED
    BY <2>1 DEF Abs!ContractNext
<1>2. ASSUME NEW i \in Slots, SurfaceDestroy(i) \/ HostDestroy(i) PROVE Abs!ContractNext
  <2>1. Abs!DestroySurface(i)
    BY <1>2, FreeRefines DEF SurfaceDestroy, HostDestroy, ControlUnchanged
  <2> QED
    BY <2>1 DEF Abs!ContractNext
<1>3. ASSUME NEW i \in Slots, NEW c \in Color, NEW cells \in Spans(size[i]),
             SurfaceDraw(i, cells, c) \/ HostDraw(i, cells, c)
      PROVE  Abs!ContractNext
  <2>1. Abs!DrawSurface(i, cells, c)
    BY <1>3, DrawRefines DEF SurfaceDraw, HostDraw, ControlUnchanged
  <2>2. cells \in SUBSET (1 .. size[i])
    BY SpanCells DEF RegistryInv, RegistryTypeOK, Cells
  <2> QED
    BY <2>1, <2>2 DEF Abs!ContractNext
<1>4. ASSUME NEW d \in Slots, NEW s \in Slots, NEW x \in -size[s] .. size[d],
             SurfaceBlit(d, s, x) \/ HostBlit(d, s, x)
      PROVE  Abs!ContractNext
  <2>1. Abs!BlitSurface(d, s, x)
    BY <1>4, BlitRefines DEF SurfaceBlit, HostBlit, ControlUnchanged
  <2> QED
    BY <2>1 DEF Abs!ContractNext
<1>5. ASSUME NEW i \in Slots, SurfaceAcquire(i) \/ SurfaceAcquirePhantom(i) \/ HostAcquire(i)
      PROVE  Abs!ContractNext
  <2>1. Abs!AcquireSurface(i, "lock") \/ Abs!AcquireSurface(i, "phantom")
    BY <1>5, AcquireRefines, AcquireDirectRefines
    DEF SurfaceAcquire, SurfaceAcquirePhantom, HostAcquire, ControlUnchanged
  <2> QED
    BY <2>1 DEF Abs!ContractNext
<1>6. ASSUME NEW i \in Slots, NEW c \in Color, NEW cells \in Spans(size[i]),
             LockWrite(i, cells, c) \/ HostLockWrite(i, cells, c)
      PROVE  Abs!ContractNext \/ UNCHANGED Abs!cvars
  <2>1. cells \in SUBSET (1 .. size[i])
    BY SpanCells DEF RegistryInv, RegistryTypeOK, Cells
  <2>2. CASE Abs!WriteView(i, cells, c)
    BY <2>1, <2>2 DEF Abs!ContractNext
  <2>3. CASE LockWrite(i, cells, c) /\ ~Abs!WriteView(i, cells, c)
    <3>1. Content' = Content
      BY <2>3, LockWriteRefines
    <3>2. Held' = Held
      BY <2>3 DEF LockWrite, registry, Held
    <3> QED
      BY <2>3, <3>1, <3>2 DEF LockWrite, registry, Abs!cvars
  <2> QED
    BY <1>6, <2>2, <2>3, HostLockWriteRefines
<1>7. ASSUME NEW i \in Slots, SurfaceRelease(i) \/ HostRelease(i) PROVE Abs!ContractNext
  <2>1. Abs!ReleaseSurface(i)
    BY <1>7, ReleaseRefines DEF SurfaceRelease, HostRelease, ControlUnchanged
  <2> QED
    BY <2>1 DEF Abs!ContractNext
<1>8. CASE RunFrame \/ HostRunFrame
  BY <1>8, ReapRefines DEF RunFrame, HostRunFrame, Abs!ContractNext
<1>9. CASE FrameDone \/ HostFrameDone
  BY <1>9, TestCardRefines DEF FrameDone, HostFrameDone, Abs!ContractNext
<1>10. ASSUME NEW p \in Phases, PhaseSignal(p) \/ HostPhase(p) PROVE Abs!ContractNext
  <2>1. Abs!PhaseEnter(phase')
    BY <1>10, IdleRefines DEF PhaseSignal, HostPhase
  <2> QED
    BY <2>1 DEF Abs!ContractNext, ControlTypeOK, Phases
<1>11. CASE Misuse \/ QuitLoop \/ GdbPause \/ HostCallGuest \/ GuestReturn \/ UNCHANGED vars
  BY <1>11, IdleRefines DEF Misuse, QuitLoop, GdbPause, HostCallGuest, GuestReturn, vars
<1>12. ~GfxPresent /\ (\A k, c : ~GfxWrite(k, c)) /\ \A cells, c : ~HostGfx(cells, c)
  BY DEF GfxPresent, GfxWrite, HostGfx
<1> QED
  BY <1>1, <1>2, <1>3, <1>4, <1>5, <1>6, <1>7, <1>8, <1>9, <1>10, <1>11, <1>12
  DEF Next, GuestNext, HostNext, FrameNext

\* The copying registry implements the one-buffer contract for any slots, sizes,
\* colours, arena and budget, with or without a host-Lua half and a debugger, as
\* long as the cart leaves gfx_acquire alone: its region overlaps the lock arena.
THEOREM SurfacesImplementContract ==
  ASSUME RawPath = FALSE
  PROVE  Spec => ImplementsContract
<1>1. Init => RegistryInv /\ Abs!ContractInit
  BY InitRegistry, InitRefines
<1>2. RegistryInv /\ [Next]_vars => RegistryInv'
  BY NextRegistry
<1>3. RegistryInv /\ ControlTypeOK' /\ [Next]_vars => [Abs!ContractNext]_Abs!cvars
  BY NextRefines, Zenon
<1>4. Spec => []ControlTypeOK
  <2>1. TypeOK => ControlTypeOK
    BY DEF TypeOK
  <2> QED
    BY <2>1, SurfacesType, PTL
<1> QED
  BY <1>1, <1>2, <1>3, <1>4, PTL DEF Spec, ImplementsContract, Abs!Contract

=============================================================================
