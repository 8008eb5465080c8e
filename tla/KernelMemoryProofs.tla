------------------------- MODULE KernelMemoryProofs -------------------------
(***************************************************************************)
(* Proofs about kernel/memory/memory.c, for every memory map, every number *)
(* of frames and every word width that MapsAssumption and SizesAssumption  *)
(* allow: the physical memory manager alone, then under the kernel heap,   *)
(* whose blocks never overlap, and under the virtual memory manager, whose *)
(* tables, with any number of levels, are a tree of frames nobody else     *)
(* holds, also when vmm_map has run out of frames half way down, and to    *)
(* its callers a map from pages to entries.                                *)
(***************************************************************************)
EXTENDS KernelHeap, VirtMem, Induction

(* The physical memory manager. *)

\* The inductive invariant: what is handed out lies within the scans' bound,
\* and that bound is what keeps the free counter from wrapping.
PhysInv ==
    /\ mmap \in Maps
    /\ phys_total_pages = Cardinality(UsableFrames(mmap))
    /\ FramesConserved
    /\ held \subseteq Scanned
    /\ phys_free_pages = phys_total_pages - LowFrames - Cardinality(held)

\* A union has at most as many elements as its parts together.
LEMMA UnionBound ==
    ASSUME NEW S, NEW T, IsFiniteSet(S), IsFiniteSet(T)
    PROVE  Cardinality(S \cup T) <= Cardinality(S) + Cardinality(T)
<1>1. Cardinality(S \cup T) =
         Cardinality(S) + Cardinality(T) - Cardinality(S \cap T)
  BY FS_Union
<1>2. IsFiniteSet(S \cap T)
  BY FS_Intersection
<1>3. /\ Cardinality(S) \in Nat /\ Cardinality(T) \in Nat
      /\ Cardinality(S \cap T) \in Nat
  BY <1>2, FS_CardinalityType
<1> QED
  BY <1>1, <1>3

\* The usable frames of a map lie below MaxFrames, so there are finitely many
\* of them and a uint64_t can count them.
LEMMA UsableFinite ==
    ASSUME NEW m \in Maps
    PROVE  /\ UsableFrames(m) \subseteq 0 .. MaxFrames - 1
           /\ IsFiniteSet(UsableFrames(m))
           /\ Cardinality(UsableFrames(m)) \in LowFrames .. MaxFrames
<1>1. UsableFrames(m) \subseteq 0 .. MaxFrames - 1
  <2>1. \A d \in m : d \in Descriptors
    BY MapsAssumption
  <2> QED
    BY <2>1, SizesAssumption DEF UsableFrames, DescriptorFrames, Descriptors
<1>2. IsFiniteSet(0 .. MaxFrames - 1) /\ Cardinality(0 .. MaxFrames - 1) = MaxFrames
  BY FS_Interval, SizesAssumption
<1>3. /\ IsFiniteSet(UsableFrames(m))
      /\ Cardinality(UsableFrames(m)) <= MaxFrames
  BY <1>1, <1>2, FS_Subset
<1>4. Cardinality(UsableFrames(m)) \in Nat
  BY <1>3, FS_CardinalityType
<1> QED
  BY <1>1, <1>3, <1>4, MapsAssumption, SizesAssumption

\* What a scan may still hand out and what has been handed out share the
\* phys_total_pages - LowFrames indices below the scans' bound.
LEMMA HeldBounded ==
    ASSUME PhysInv
    PROVE  /\ phys_total_pages \in LowFrames .. MaxFrames
           /\ IsFiniteSet(held) /\ Cardinality(held) \in Nat
           /\ IsFiniteSet(Allocatable) /\ Cardinality(Allocatable) \in Nat
           /\ Cardinality(Allocatable) + Cardinality(held)
                 <= phys_total_pages - LowFrames
<1>1. phys_total_pages \in LowFrames .. MaxFrames
  BY UsableFinite DEF PhysInv
<1>2. /\ IsFiniteSet(Scanned)
      /\ Cardinality(Scanned) = phys_total_pages - LowFrames
  <2>1. LowFrames \in Int /\ phys_total_pages - 1 \in Int
    BY <1>1, SizesAssumption
  <2>2. /\ IsFiniteSet(Scanned)
        /\ Cardinality(Scanned) =
              IF LowFrames > phys_total_pages - 1 THEN 0
              ELSE (phys_total_pages - 1) - LowFrames + 1
    BY <2>1, FS_Interval DEF Scanned
  <2> QED
    BY <1>1, <2>2, SizesAssumption
<1>3. held \subseteq Scanned /\ Allocatable \subseteq Scanned
  BY DEF PhysInv, Allocatable
<1>4. held \cap Allocatable = {}
  BY DEF PhysInv, FramesConserved, Allocatable
<1>5. /\ IsFiniteSet(held) /\ Cardinality(held) \in Nat
      /\ IsFiniteSet(Allocatable) /\ Cardinality(Allocatable) \in Nat
  BY <1>2, <1>3, FS_Subset, FS_CardinalityType
<1>6. /\ IsFiniteSet(Allocatable \cup held)
      /\ Cardinality(Allocatable \cup held) =
            Cardinality(Allocatable) + Cardinality(held)
               - Cardinality(Allocatable \cap held)
  BY <1>5, FS_Union
<1>7. Cardinality(Allocatable \cap held) = 0
  BY <1>4, FS_EmptySet
<1>8. Cardinality(Allocatable \cup held) <= Cardinality(Scanned)
  BY <1>2, <1>3, FS_Subset
<1> QED
  BY <1>1, <1>2, <1>5, <1>6, <1>7, <1>8

-----------------------------------------------------------------------------
LEMMA PhysInitInv == Init => PhysInv
<1> SUFFICES ASSUME Init PROVE PhysInv
  OBVIOUS
<1>1. phys_total_pages \in LowFrames .. MaxFrames
  BY UsableFinite DEF Init
<1>2. Cardinality(held) = 0
  BY FS_EmptySet DEF Init
<1>3. phys_free_pages = phys_total_pages - LowFrames
  BY <1>1, SizesAssumption DEF Init, Minus
<1> QED
  BY <1>1, <1>2, <1>3, SizesAssumption DEF Init, PhysInv, FramesConserved

\* Taking n allocatable frames: the counter is large enough.
LEMMA TakeInv ==
    ASSUME PhysInv,
           NEW F, F \subseteq Allocatable, IsFiniteSet(F),
           Take(F, Cardinality(F))
    PROVE  PhysInv'
<1> DEFINE n == Cardinality(F)
<1>1. n \in Nat /\ n <= Cardinality(Allocatable)
  BY HeldBounded, FS_Subset, FS_CardinalityType
<1>2. F \cap held = {}
  BY DEF PhysInv, FramesConserved, Allocatable
<1>3. Cardinality(held \cup F) = Cardinality(held) + n
  <2>1. Cardinality(held \cap F) = 0
    BY <1>2, FS_EmptySet
  <2>2. Cardinality(held \cup F) = Cardinality(held) + n - Cardinality(held \cap F)
    BY HeldBounded, FS_Union
  <2> QED
    BY <2>1, <2>2, <1>1, HeldBounded
<1>4. /\ mmap' = mmap /\ phys_total_pages' = phys_total_pages
      /\ phys_bitmap' = phys_bitmap \ F /\ held' = held \cup F
      /\ phys_free_pages' = Minus(phys_free_pages, n)
  BY DEF Take
<1>5. (mmap \in Maps /\ phys_total_pages = Cardinality(UsableFrames(mmap)))'
  BY <1>4 DEF PhysInv
<1>6. FramesConserved'
  BY <1>4 DEF PhysInv, FramesConserved, Allocatable
<1>7. (held \subseteq Scanned)'
  BY <1>4 DEF PhysInv, Scanned, Allocatable
<1>8. phys_free_pages' = phys_total_pages - LowFrames - Cardinality(held')
  <2>1. phys_free_pages = phys_total_pages - LowFrames - Cardinality(held)
    BY DEF PhysInv
  <2>2. n <= phys_free_pages /\ phys_free_pages \in Nat
    BY <1>1, <2>1, HeldBounded, SizesAssumption
  <2>3. phys_free_pages' = phys_free_pages - n
    BY <2>2, <1>1, <1>4 DEF Minus
  <2> QED
    BY <2>1, <2>3, <1>3, <1>4, <1>1, HeldBounded, SizesAssumption
<1> QED
  BY <1>4, <1>5, <1>6, <1>7, <1>8 DEF PhysInv

LEMMA AllocInv ==
    ASSUME PhysInv, PmmAlloc
    PROVE  PhysInv'
<1>1. CASE UNCHANGED physVars
  BY <1>1 DEF PhysInv, FramesConserved, Scanned, physVars
<1>2. ASSUME NEW f \in Allocatable, Take({f}, 1)
      PROVE  PhysInv'
  <2>1. IsFiniteSet({f}) /\ Cardinality({f}) = 1
    BY FS_Singleton
  <2> QED
    BY <1>2, <2>1, TakeInv
<1> QED
  BY <1>1, <1>2 DEF PmmAlloc

LEMMA AllocContiguousInv ==
    ASSUME PhysInv, NEW n \in RunSizes, PmmAllocContiguous(n)
    PROVE  PhysInv'
<1>1. CASE UNCHANGED physVars
  BY <1>1 DEF PhysInv, FramesConserved, Scanned, physVars
<1>2. ASSUME NEW s \in RunStarts(n), Take(s .. s + n - 1, n)
      PROVE  PhysInv'
  <2>1. /\ n \in Nat /\ n > 0 /\ s \in Int
        /\ s .. s + n - 1 \subseteq Allocatable
    BY SizesAssumption DEF RunStarts, Scanned
  <2>2. s + n - 1 \in Int
    BY <2>1
  <2>3. /\ IsFiniteSet(s .. s + n - 1)
        /\ Cardinality(s .. s + n - 1) =
              IF s > s + n - 1 THEN 0 ELSE (s + n - 1) - s + 1
    BY <2>1, <2>2, FS_Interval
  <2>4. Cardinality(s .. s + n - 1) = n
    BY <2>1, <2>3
  <2> QED
    BY <1>2, <2>1, <2>3, <2>4, TakeInv
<1> QED
  BY <1>1, <1>2 DEF PmmAllocContiguous

\* A frame goes back only if it had been handed out.
LEMMA FreeInv ==
    ASSUME PhysInv, NEW f \in held \cup phys_bitmap, PmmFree(f)
    PROVE  PhysInv'
<1>1. CASE UNCHANGED physVars
  BY <1>1 DEF PhysInv, FramesConserved, Scanned, physVars
<1>2. CASE f \notin phys_bitmap /\ ~UNCHANGED physVars
  <2>1. /\ f \in held
        /\ mmap' = mmap /\ phys_total_pages' = phys_total_pages
        /\ phys_bitmap' = phys_bitmap \cup {f} /\ held' = held \ {f}
        /\ phys_free_pages' = Plus(phys_free_pages, 1)
    BY <1>2 DEF PmmFree
  <2>2. Cardinality(held') = Cardinality(held) - 1
    BY <2>1, HeldBounded, FS_RemoveElement
  <2>3. Cardinality(held) >= 1
    BY <2>1, HeldBounded, FS_EmptySet
  <2>4. phys_free_pages' = phys_free_pages + 1
    BY <2>1, <2>3, HeldBounded, SizesAssumption DEF PhysInv, Plus
  <2>5. FramesConserved'
    BY <2>1 DEF PhysInv, FramesConserved
  <2>6. (held \subseteq Scanned)'
    BY <2>1 DEF PhysInv, Scanned
  <2> QED
    BY <2>1, <2>2, <2>4, <2>5, <2>6, HeldBounded, SizesAssumption DEF PhysInv
<1> QED
  BY <1>1, <1>2 DEF PmmFree

LEMMA PhysStepInv == PhysInv /\ [Next]_physVars => PhysInv'
<1> SUFFICES ASSUME PhysInv, [Next]_physVars PROVE PhysInv'
  OBVIOUS
<1>1. CASE UNCHANGED physVars
  BY <1>1 DEF PhysInv, FramesConserved, Scanned, physVars
<1>2. CASE PmmAlloc
  BY <1>2, AllocInv
<1>3. ASSUME NEW n \in RunSizes, PmmAllocContiguous(n) PROVE PhysInv'
  BY <1>3, AllocContiguousInv
<1>4. ASSUME NEW f \in held \cup phys_bitmap, PmmFree(f) PROVE PhysInv'
  BY <1>4, FreeInv
<1> QED
  BY <1>1, <1>2, <1>3, <1>4 DEF Next

THEOREM PhysInvariant == Spec => []PhysInv
  BY PhysInitInv, PhysStepInv, PTL DEF Spec

-----------------------------------------------------------------------------
LEMMA PhysInvTypeOK == PhysInv => PhysTypeOK
<1> SUFFICES ASSUME PhysInv PROVE PhysTypeOK
  OBVIOUS
<1>1. phys_bitmap \subseteq ManagedFrames(mmap) /\ held \subseteq ManagedFrames(mmap)
  BY DEF PhysInv, FramesConserved
<1>2. phys_free_pages \in 0 .. Word - 1
  BY HeldBounded, SizesAssumption DEF PhysInv
<1> QED
  BY <1>1, <1>2, HeldBounded, SizesAssumption DEF PhysInv, PhysTypeOK

LEMMA PhysInvStatus == PhysInv => StatusExact
  BY HeldBounded, SizesAssumption
     DEF PhysInv, StatusExact, memory_get_status, Minus

\* The frames the map offers are the free ones, the held ones and those in
\* the low area, of which there are at most LowFrames.
LEMMA PhysInvCounter == PhysInv => CounterBetween
<1> SUFFICES ASSUME PhysInv PROVE CounterBetween
  OBVIOUS
<1>1. Cardinality(Allocatable) <= phys_free_pages
  BY HeldBounded, SizesAssumption DEF PhysInv
<1> DEFINE U == UsableFrames(mmap)
           low == U \cap LowArea
<1>2. IsFiniteSet(U) /\ Cardinality(U) = phys_total_pages
  BY UsableFinite DEF PhysInv
<1>3. U = (phys_bitmap \cup held) \cup low
  BY DEF PhysInv, FramesConserved, ManagedFrames
<1>4. IsFiniteSet(phys_bitmap) /\ IsFiniteSet(low)
  BY <1>2, <1>3, FS_Subset
<1>5. Cardinality(low) \in Nat /\ Cardinality(low) <= LowFrames
  <2>1. IsFiniteSet(LowArea) /\ Cardinality(LowArea) = LowFrames
    BY FS_Interval, SizesAssumption DEF LowArea
  <2> QED
    BY <2>1, <1>4, FS_Subset, FS_CardinalityType
<1>6. Cardinality(phys_bitmap \cup held) <=
         Cardinality(phys_bitmap) + Cardinality(held)
  BY <1>4, HeldBounded, UnionBound
<1>7. Cardinality(U) <= Cardinality(phys_bitmap \cup held) + Cardinality(low)
  <2>1. IsFiniteSet(phys_bitmap \cup held)
    BY <1>2, <1>3, FS_Subset
  <2> QED
    BY <2>1, <1>3, <1>4, UnionBound
<1>8. /\ Cardinality(phys_bitmap) \in Nat
      /\ Cardinality(phys_bitmap \cup held) \in Nat
  BY <1>2, <1>3, <1>4, FS_Subset, FS_CardinalityType
<1>9. phys_free_pages <= Cardinality(phys_bitmap)
  BY <1>2, <1>5, <1>6, <1>7, <1>8, HeldBounded, SizesAssumption DEF PhysInv
<1> QED
  BY <1>1, <1>9 DEF CounterBetween

\* The variables of the frame allocator keep their types: in particular the
\* free counter stays a count of frames.
THEOREM PhysTypeCorrect == Spec => []PhysTypeOK
  BY PhysInvariant, PhysInvTypeOK, PTL

\* No sequence of allocations and frees loses a frame or gives one to two
\* callers.
THEOREM FramesAreConserved == Spec => []FramesConserved
<1>1. PhysInv => FramesConserved
  BY DEF PhysInv
<1> QED
  BY <1>1, PhysInvariant, PTL

\* A status reports no more frames free than there are, and as used the low area
\* and the frames handed out, for every memory map.
THEOREM StatusIsExact == Spec => []StatusExact
  BY PhysInvariant, PhysInvStatus, PTL

\* The free counter lies between what the scans can reach and what is free.
THEOREM CounterIsBetween == Spec => []CounterBetween
  BY PhysInvariant, PhysInvCounter, PTL

-----------------------------------------------------------------------------
(* The scan of pmm_alloc_contiguous. *)

ScanStates == [run_start : Int, run_len : Int, found : Int]

\* One pass of its loop, from the state s of the pass before to index i.
ScanPass(n, i, s) ==
    IF s.found # 0 THEN s
    ELSE IF i \notin phys_bitmap
    THEN [run_start |-> s.run_start, run_len |-> 0, found |-> 0]
    ELSE [run_start |-> IF s.run_len = 0 THEN i ELSE s.run_start,
          run_len   |-> s.run_len + 1,
          found     |-> IF s.run_len + 1 = n
                        THEN IF s.run_len = 0 THEN i ELSE s.run_start
                        ELSE 0]

\* A run of n free frames from t to i at most.
RunUpTo(n, t, i) ==
    LowFrames <= t /\ t + n - 1 <= i /\ t .. t + n - 1 \subseteq phys_bitmap

\* What is true of the scan behind index i: either the run counted is the longest
\* that ends there and none was long enough, or the first long enough was found.
ScanReached(n, i, s) ==
    /\ s \in ScanStates
    /\ s.found = 0 =>
          /\ 0 <= s.run_len /\ s.run_len <= i - LowFrames + 1
          /\ \A j \in i - s.run_len + 1 .. i : j \in phys_bitmap
          /\ s.run_len > 0 => s.run_start = i - s.run_len + 1
          /\ i - s.run_len >= LowFrames => i - s.run_len \notin phys_bitmap
          /\ n > 0 => s.run_len < n /\ \A t \in Int : ~ RunUpTo(n, t, i)
    /\ s.found # 0 =>
          /\ n > 0 /\ RunUpTo(n, s.found, i)
          /\ \A t \in Int : RunUpTo(n, t, i) => s.found <= t

LEMMA ScanPassReached ==
    ASSUME LowFrames \in Nat \ {0}, NEW n \in Nat, NEW i \in Int, i >= LowFrames,
           NEW s, ScanReached(n, i - 1, s)
    PROVE  ScanReached(n, i, ScanPass(n, i, s))
<1> DEFINE q == ScanPass(n, i, s)
<1>0. s \in ScanStates /\ s.run_start \in Int /\ s.run_len \in Int /\ s.found \in Int
  BY DEF ScanReached, ScanStates
<1>1. CASE s.found # 0
  <2>1. q = s
    BY <1>1 DEF ScanPass
  <2>2. n > 0 /\ RunUpTo(n, s.found, i - 1)
        /\ \A t \in Int : RunUpTo(n, t, i - 1) => s.found <= t
    BY <1>1 DEF ScanReached
  <2>3. RunUpTo(n, s.found, i)
    BY <1>0, <2>2 DEF RunUpTo
  <2>4. ASSUME NEW t \in Int, RunUpTo(n, t, i)
        PROVE  s.found <= t
    <3>1. CASE t + n - 1 <= i - 1
      BY <2>2, <2>4, <3>1 DEF RunUpTo
    <3>2. CASE t + n - 1 > i - 1
      <4>1. s.found + n - 1 <= i - 1
        BY <2>2 DEF RunUpTo
      <4> QED
        BY <1>0, <3>2, <4>1
    <3> QED
      BY <3>1, <3>2
  <2> QED
    BY <1>0, <1>1, <2>1, <2>2, <2>3, <2>4 DEF ScanReached
<1>2. CASE s.found = 0 /\ i \notin phys_bitmap
  <2>1. q = [run_start |-> s.run_start, run_len |-> 0, found |-> 0]
    BY <1>2 DEF ScanPass
  <2>2. q \in ScanStates /\ q.run_len = 0 /\ q.found = 0
    BY <1>0, <2>1 DEF ScanStates
  <2>3. n > 0 => \A t \in Int : ~ RunUpTo(n, t, i - 1)
    BY <1>2 DEF ScanReached
  <2>4. ASSUME n > 0, NEW t \in Int, RunUpTo(n, t, i)
        PROVE  FALSE
    <3>1. i \notin t .. t + n - 1
      BY <1>2, <2>4 DEF RunUpTo
    <3>2. t + n - 1 <= i - 1
      BY <2>4, <3>1 DEF RunUpTo
    <3> QED
      BY <2>3, <2>4, <3>2 DEF RunUpTo
  <2> QED
    BY <1>2, <2>2, <2>4 DEF ScanReached
<1>3. CASE s.found = 0 /\ i \in phys_bitmap
  <2> DEFINE len == s.run_len + 1
             start == IF s.run_len = 0 THEN i ELSE s.run_start
  <2>1. q = [run_start |-> start, run_len |-> len,
             found |-> IF len = n THEN start ELSE 0]
    BY <1>3 DEF ScanPass
  <2>2. /\ 0 <= s.run_len /\ s.run_len <= i - LowFrames
        /\ \A j \in i - s.run_len .. i - 1 : j \in phys_bitmap
        /\ s.run_len > 0 => s.run_start = i - s.run_len
        /\ i - 1 - s.run_len >= LowFrames => i - 1 - s.run_len \notin phys_bitmap
        /\ n > 0 => s.run_len < n /\ \A t \in Int : ~ RunUpTo(n, t, i - 1)
    <3>1. /\ i - 1 - s.run_len + 1 = i - s.run_len
          /\ i - 1 - LowFrames + 1 = i - LowFrames
      BY <1>0
    <3> QED
      BY <1>3, <3>1 DEF ScanReached
  <2>3. start = i - s.run_len /\ start \in Int /\ start >= LowFrames
    BY <1>0, <2>2
  <2>4. start = i - len + 1 /\ len \in Nat /\ len > 0 /\ len <= i - LowFrames + 1
    BY <1>0, <2>2, <2>3
  <2>5. \A j \in start .. i : j \in phys_bitmap
    BY <1>0, <1>3, <2>2, <2>3
  <2>6. start - 1 >= LowFrames => start - 1 \notin phys_bitmap
    BY <1>0, <2>2, <2>3
  <2>7. n > 0 => len <= n /\ \A t \in Int : ~ RunUpTo(n, t, i - 1)
    BY <1>0, <2>2
  <2> HIDE DEF len, start
  <2>8. q \in ScanStates /\ q.run_start = start /\ q.run_len = len
        /\ q.found = IF len = n THEN start ELSE 0
    BY <2>1, <2>3, <2>4 DEF ScanStates
  \* A run that ends at i begins no earlier than the one counted.
  <2>9. ASSUME n > 0, NEW t \in Int, RunUpTo(n, t, i)
        PROVE  start <= t /\ t = i - n + 1
    <3>1. t + n - 1 = i
      BY <2>7, <2>9 DEF RunUpTo
    <3>2. start - 1 \notin t .. i
      BY <2>3, <2>6, <2>9, <3>1 DEF RunUpTo
    <3>3. start - 1 <= i
      BY <2>4
    <3> QED
      BY <2>3, <3>1, <3>2, <3>3
  <2>10. CASE len = n
    <3>1. q.found = start /\ q.found # 0
      BY <2>3, <2>8, <2>10
    <3>2. RunUpTo(n, start, i)
      <4>1. start + n - 1 = i
        BY <2>3, <2>4, <2>10
      <4> QED
        BY <2>3, <2>5, <4>1 DEF RunUpTo
    <3> QED
      BY <2>4, <2>8, <2>9, <2>10, <3>1, <3>2 DEF ScanReached
  <2>11. CASE len # n
    <3>1. q.found = 0
      BY <2>8, <2>11
    <3>2. n > 0 => len < n
      BY <2>4, <2>7, <2>11
    <3>3. ASSUME n > 0, NEW t \in Int, RunUpTo(n, t, i)
          PROVE  FALSE
      BY <2>4, <2>9, <3>2, <3>3
    <3>4. i - len >= LowFrames => i - len \notin phys_bitmap
      <4>1. i - len = start - 1
        BY <2>3, <2>4
      <4> QED
        BY <2>6, <4>1
    <3> QED
      BY <2>4, <2>5, <2>8, <3>1, <3>2, <3>3, <3>4 DEF ScanReached
  <2> QED
    BY <2>10, <2>11
<1> QED
  BY <1>1, <1>2, <1>3

\* The scan in ContiguousScan exists, and its last state is as described.
LEMMA ScanIs ==
    ASSUME LowFrames \in Nat \ {0}, phys_total_pages \in Nat,
           LowFrames <= phys_total_pages, NEW n \in Nat
    PROVE  \E s : /\ ContiguousScan(n) = s.found
                  /\ ScanReached(n, phys_total_pages - 1, s)
<1> DEFINE k == LowFrames - 1
           last == phys_total_pages - 1
           base == [run_start |-> 0, run_len |-> 0, found |-> 0]
           step == [p \in Int \X ScanStates |-> ScanPass(n, p[1], p[2])]
           IsScan(f) == f = [i \in k .. last |-> IF i = k THEN base
                                                 ELSE ScanPass(n, i, f[i - 1])]
           scan == CHOOSE f : IsScan(f)
<1>1. k \in Int /\ last \in Int /\ k <= last
  OBVIOUS
<1>2. base \in ScanStates
  BY DEF ScanStates
<1>3. step \in [Int \X ScanStates -> ScanStates]
  <2>1. ASSUME NEW i \in Int, NEW s \in ScanStates
        PROVE  ScanPass(n, i, s) \in ScanStates
    BY <2>1 DEF ScanPass, ScanStates
  <2> QED
    BY <2>1
<1>4. PICK f \in [k .. last -> ScanStates] : Steps(f, k, last, base, step)
  <2> HIDE DEF k, last, base, step
  <2> QED
    BY <1>1, <1>2, <1>3, StepsExist
<1>5. IsScan(f)
  <2>1. f[k] = base
    BY <1>4 DEF Steps
  <2>2. ASSUME NEW i \in k .. last, i # k
        PROVE  f[i] = ScanPass(n, i, f[i - 1])
    <3>1. i \in k + 1 .. last /\ i - 1 \in k .. last /\ i \in Int
      BY <1>1, <2>2
    <3>2. f[i] = step[<<i, f[i - 1]>>] /\ f[i - 1] \in ScanStates
      <4> HIDE DEF k, last, base, step
      <4> QED
        BY <1>4, <3>1 DEF Steps
    <3> QED
      BY <3>1, <3>2
  <2> HIDE DEF k, last, base
  <2> QED
    BY <1>4, <2>1, <2>2
<1>6. IsScan(scan)
  <2> HIDE DEF IsScan
  <2> QED
    BY <1>5
<1>7. ContiguousScan(n) = scan[last].found
  BY DEF ContiguousScan, ScanPass
<1>8. scan[k] = base
  <2> HIDE DEF scan, base, k, last
  <2> QED
    BY <1>1, <1>6
<1>9. \A i \in k + 1 .. last : scan[i] = ScanPass(n, i, scan[i - 1])
  <2>1. \A i \in k + 1 .. last : i \in k .. last /\ i # k
    BY <1>1
  <2> HIDE DEF scan, base, k, last
  <2> QED
    BY <1>6, <2>1
<1> DEFINE Good == {i \in Int : i <= last => ScanReached(n, i, scan[i])}
<1> HIDE DEF scan
<1>10. k \in Good
  <2>1. ScanReached(n, k, base)
    BY <1>2 DEF ScanReached, RunUpTo
  <2> QED
    BY <1>1, <1>8, <2>1
<1>11. ASSUME NEW i \in Int, k <= i /\ i \in Good
       PROVE  i + 1 \in Good
  <2> SUFFICES ASSUME i + 1 <= last
               PROVE  ScanReached(n, i + 1, scan[i + 1])
    OBVIOUS
  <2>1. ScanReached(n, i, scan[i])
    BY <1>1, <1>11
  <2>2. i + 1 \in k + 1 .. last /\ (i + 1) - 1 = i /\ i + 1 >= LowFrames
    BY <1>1, <1>11
  <2>3. scan[i + 1] = ScanPass(n, i + 1, scan[i])
    BY <1>9, <2>2
  <2> QED
    BY <2>1, <2>2, <2>3, ScanPassReached
<1>12. \A i \in Int : k <= i => i \in Good
  <2> HIDE DEF Good, k
  <2> QED
    BY <1>1, <1>10, <1>11, IntervalInduction
<1>13. ScanReached(n, last, scan[last])
  BY <1>1, <1>12
<1> QED
  BY <1>7, <1>13

LEMMA PhysInvScan == PhysInv => ScanFindsLowestRun
<1> SUFFICES ASSUME PhysInv, NEW n \in RunSizes
             PROVE  LET s == ContiguousScan(n)
                    IN  IF RunStarts(n) = {} THEN s = 0
                        ELSE s \in RunStarts(n) /\ \A t \in RunStarts(n) : s <= t
  BY DEF ScanFindsLowestRun
<1> DEFINE last == phys_total_pages - 1
<1>1. /\ LowFrames \in Nat \ {0} /\ n \in Nat
      /\ phys_total_pages \in Nat /\ LowFrames <= phys_total_pages
  BY UsableFinite, SizesAssumption DEF PhysInv
<1>2. PICK s : ContiguousScan(n) = s.found /\ ScanReached(n, last, s)
  BY <1>1, ScanIs
<1>3. s.found \in Int
  BY <1>2 DEF ScanReached, ScanStates
\* The frames the loop looks at are the allocatable ones.
<1>4. ASSUME NEW t \in Int
      PROVE  t \in RunStarts(n) <=> n > 0 /\ RunUpTo(n, t, last)
  <2>1. ASSUME n > 0, RunUpTo(n, t, last)
        PROVE  t \in RunStarts(n)
    <3>1. t \in Scanned /\ t .. t + n - 1 \subseteq Scanned
      BY <1>1, <2>1 DEF RunUpTo, Scanned
    <3> QED
      BY <2>1, <3>1 DEF RunUpTo, RunStarts, Allocatable
  <2>2. ASSUME t \in RunStarts(n)
        PROVE  n > 0 /\ RunUpTo(n, t, last)
    <3>1. /\ n > 0 /\ t \in Scanned /\ t .. t + n - 1 \subseteq Allocatable
          /\ t + n - 1 \in t .. t + n - 1
      BY <1>1, <2>2 DEF RunStarts
    <3> QED
      BY <1>1, <3>1 DEF RunUpTo, Scanned, Allocatable
  <2> QED
    BY <2>1, <2>2
<1>5. \A t \in RunStarts(n) : t \in Int
  BY <1>1 DEF RunStarts, Scanned
<1> HIDE DEF last
<1>6. CASE s.found = 0
  <2>1. RunStarts(n) = {}
    BY <1>2, <1>4, <1>5, <1>6 DEF ScanReached
  <2> QED
    BY <1>2, <1>6, <2>1
<1>7. CASE s.found # 0
  <2>1. s.found \in RunStarts(n) /\ \A t \in RunStarts(n) : s.found <= t
    BY <1>2, <1>3, <1>4, <1>5, <1>7 DEF ScanReached
  <2> QED
    BY <1>2, <2>1
<1> QED
  BY <1>6, <1>7

\* The one pass over the bitmap finds the lowest run of any length, on any map and
\* after any history: the reset of run_len at a used frame loses no run, since a
\* run never begins before the last used frame and ends after it.
THEOREM ScanIsExact == Spec => []ScanFindsLowestRun
  BY PhysInvariant, PhysInvScan, PTL

-----------------------------------------------------------------------------
(* The kernel heap: the frame allocator under it behaves as PhysMem says. *)

\* Every step of the composed kernel is a step of the frame allocator or
\* leaves it alone.
LEMMA HeapStepIsPhysStep == [HeapNext]_allVars => [Next]_physVars
<1> SUFFICES ASSUME [HeapNext]_allVars PROVE [Next]_physVars
  OBVIOUS
<1>1. CASE KmallocInit
  BY <1>1, HeapAssumption DEF KmallocInit, Next
<1>2. ASSUME NEW size \in BlockSizes, Kmalloc(size) PROVE [Next]_physVars
  BY <1>2 DEF Kmalloc
<1>3. ASSUME NEW size \in BlockSizes, NEW align \in BlockAligns,
             KmallocAligned(size, align)
      PROVE  [Next]_physVars
  BY <1>3 DEF KmallocAligned
<1>4. CASE PhysStep
  BY <1>4 DEF PhysStep, Next
<1>5. CASE UNCHANGED allVars
  BY <1>5 DEF allVars
<1> QED
  BY <1>1, <1>2, <1>3, <1>4, <1>5 DEF HeapNext

\* The composed kernel implements the frame allocator, so every theorem about
\* PhysMem holds of it.
THEOREM HeapImplementsPhysMem == HeapSpec => Spec
<1>1. HeapInit => Init
  BY DEF HeapInit
<1> QED
  BY <1>1, HeapStepIsPhysStep, PTL DEF HeapSpec, Spec

-----------------------------------------------------------------------------
\* RoundUp never goes down, whatever the alignment.
LEMMA RoundUpGrows ==
    ASSUME NEW x \in Nat, NEW a \in Nat \ {0}
    PROVE  RoundUp(x, a) \in Nat /\ RoundUp(x, a) >= x
  BY DEF RoundUp

\* The inductive invariant: the heap's frames stay held, and every block ends
\* where the pointer stands or before.
HeapInv ==
    /\ PhysInv
    /\ HeapVarsTypeOK
    /\ heap_start = 0 => heap_end = 0 /\ blocks = {}
    /\ heap_start # 0 =>
          /\ heap_tried
          /\ HeapFrames \subseteq held
          /\ heap_end = heap_start * PageSize + DirectMap + HeapPages * PageSize
    /\ \A b \in blocks :
          /\ heap_start * PageSize + DirectMap <= b.ptr
          /\ b.ptr + b.size <= heap_ptr
          /\ b.ptr + b.size <= heap_end
    /\ heap_start # 0 => heap_start * PageSize + DirectMap <= heap_ptr
    /\ BlocksDisjoint

LEMMA HeapInitInv == HeapInit => HeapInv
<1> SUFFICES ASSUME HeapInit PROVE HeapInv
  OBVIOUS
<1>1. PhysInv
  BY PhysInitInv DEF HeapInit
<1> QED
  BY <1>1 DEF HeapInit, HeapInv, HeapVarsTypeOK, BlocksDisjoint

\* A block placed at or above the pointer overlaps none of the earlier ones.
LEMMA AllocateAtInv ==
    ASSUME HeapInv, NEW p \in Nat, p >= heap_ptr,
           NEW size \in BlockSizes, NEW align \in Nat \ {0},
           AllocateAt(p, size, align),
           UNCHANGED <<physVars, heap_tried, heap_start, heap_end>>
    PROVE  HeapInv'
<1> DEFINE rounded == RoundUp(size, HeapAlign)
           new == [ptr |-> p, size |-> rounded, align |-> align]
<1>1. rounded \in Nat \ {0}
  BY RoundUpGrows, HeapAssumption
<1>2. PhysInv'
  BY DEF HeapInv, PhysInv, FramesConserved, Scanned, physVars
<1>3. /\ heap_tried' = heap_tried /\ heap_start' = heap_start
      /\ heap_end' = heap_end /\ held' = held /\ HeapFrames' = HeapFrames
  BY DEF physVars, HeapFrames
<1>4. CASE p + rounded > heap_end
  <2>1. heap_ptr' = p /\ blocks' = blocks
    BY <1>4 DEF AllocateAt
  <2>2. \A b \in blocks : b.ptr \in Nat /\ b.size \in Nat
    BY DEF HeapInv, HeapVarsTypeOK
  <2>3. \A b \in blocks : b.ptr + b.size <= heap_ptr'
    BY <2>1, <2>2 DEF HeapInv, HeapVarsTypeOK
  <2>4. heap_start # 0 => heap_start * PageSize + DirectMap <= heap_ptr'
    <3>1. heap_start * PageSize + DirectMap \in Nat
      BY HeapAssumption DEF HeapInv, HeapVarsTypeOK
    <3> QED
      BY <2>1, <3>1 DEF HeapInv, HeapVarsTypeOK
  <2> QED
    BY <1>2, <1>3, <2>1, <2>3, <2>4
       DEF HeapInv, HeapVarsTypeOK, BlocksDisjoint, BlockBytes
<1>5. CASE ~(p + rounded > heap_end)
  <2>1. heap_ptr' = p + rounded /\ blocks' = blocks \cup {new}
    BY <1>5 DEF AllocateAt
  <2>2. heap_start # 0
    BY <1>1, <1>5 DEF HeapInv, HeapVarsTypeOK
  <2> DEFINE base == heap_start * PageSize + DirectMap
  <2>3. base \in Nat /\ base <= heap_ptr /\ heap_ptr \in Nat /\ heap_end \in Nat
    BY <2>2, HeapAssumption DEF HeapInv, HeapVarsTypeOK
  <2>4. \A b \in blocks : b.ptr \in Nat /\ b.size \in Nat /\ b.ptr + b.size <= heap_ptr
    BY DEF HeapInv, HeapVarsTypeOK
  <2>5. HeapVarsTypeOK'
    BY <1>1, <1>3, <2>1, <2>3 DEF HeapInv, HeapVarsTypeOK
  <2>6. \A b \in blocks' : /\ base <= b.ptr
                           /\ b.ptr + b.size <= heap_ptr'
                           /\ b.ptr + b.size <= heap_end
    <3>1. \A b \in blocks : base <= b.ptr /\ b.ptr + b.size <= heap_end
      BY DEF HeapInv
    <3>2. \A b \in blocks : b.ptr + b.size <= p + rounded
      BY <1>1, <2>3, <2>4
    <3> HIDE DEF base, rounded
    <3>3. base <= p /\ p + rounded <= heap_end
      BY <1>1, <1>5, <2>3
    <3> QED
      BY <1>1, <2>1, <3>1, <3>2, <3>3
  <2>7. BlocksDisjoint'
    <3>1. \A b \in blocks : BlockBytes(b) \cap BlockBytes(new) = {}
      <4> HIDE DEF rounded
      <4> QED
        BY <1>1, <2>3, <2>4 DEF BlockBytes
    <3>2. \A a, b \in blocks : a # b => BlockBytes(a) \cap BlockBytes(b) = {}
      BY DEF HeapInv, BlocksDisjoint
    <3> HIDE DEF new
    <3>3. \A a, b \in blocks' : a # b => BlockBytes(a) \cap BlockBytes(b) = {}
      BY <2>1, <3>1, <3>2
    <3> QED
      BY <3>3 DEF BlocksDisjoint, BlockBytes
  <2>8. base <= heap_ptr'
    <3> HIDE DEF base, rounded
    <3> QED
      BY <1>1, <2>1, <2>3
  <2> QED
    BY <1>2, <1>3, <2>2, <2>5, <2>6, <2>7, <2>8 DEF HeapInv
<1> QED
  BY <1>4, <1>5

LEMMA KmallocInitInv ==
    ASSUME HeapInv, KmallocInit
    PROVE  HeapInv'
<1>1. PhysInv'
  <2>1. HeapPages \in RunSizes /\ PmmAllocContiguous(HeapPages)
    BY HeapAssumption DEF KmallocInit
  <2> QED
    BY <2>1, AllocContiguousInv DEF HeapInv
<1>2. heap_start = 0 /\ blocks = {} /\ heap_end = 0 /\ heap_tried' = TRUE
  BY DEF KmallocInit, HeapInv
<1>3. CASE RunStarts(HeapPages) = {}
  BY <1>1, <1>2, <1>3 DEF KmallocInit, HeapInv, HeapVarsTypeOK, BlocksDisjoint
<1>4. CASE RunStarts(HeapPages) # {}
  <2>1. PICK s \in RunStarts(HeapPages) :
           /\ \A t \in RunStarts(HeapPages) : s <= t
           /\ heap_start' = s
           /\ heap_ptr' = s * PageSize + DirectMap
           /\ heap_end' = heap_ptr' + HeapPages * PageSize
           /\ blocks' = blocks
    BY <1>4 DEF KmallocInit
  <2>2. PICK r \in RunStarts(HeapPages) :
           /\ \A t \in RunStarts(HeapPages) : r <= t
           /\ Take(r .. r + HeapPages - 1, HeapPages)
    BY <1>4 DEF KmallocInit, PmmAllocContiguous
  <2>3. r \in Int /\ s \in Int /\ s >= LowFrames /\ s # 0
    BY SizesAssumption DEF RunStarts, Scanned
  <2>4. r = s
    BY <2>1, <2>2, <2>3
  <2>5. (HeapFrames \subseteq held)'
    BY <2>1, <2>2, <2>3, <2>4 DEF Take, HeapFrames
  <2>6. heap_ptr' \in Nat /\ heap_end' \in Nat /\ heap_start' \in Nat
    BY <2>1, <2>3, SizesAssumption, HeapAssumption
  <2>7. HeapVarsTypeOK' /\ BlocksDisjoint'
    BY <1>2, <2>1, <2>6 DEF HeapVarsTypeOK, BlocksDisjoint
  <2> QED
    BY <1>1, <1>2, <2>1, <2>3, <2>5, <2>6, <2>7 DEF HeapInv
<1> QED
  BY <1>3, <1>4

\* The allocator takes only frames that are free and is given back only frames
\* outside the heap, so the heap's frames stay held.
LEMMA PhysStepHeapInv ==
    ASSUME HeapInv, PhysStep
    PROVE  HeapInv'
<1>1. PhysInv'
  <2>1. [Next]_physVars
    BY DEF PhysStep, Next
  <2> QED
    BY <2>1, PhysStepInv DEF HeapInv
<1>2. /\ heap_ptr' = heap_ptr /\ heap_end' = heap_end /\ heap_tried' = heap_tried
      /\ heap_start' = heap_start /\ blocks' = blocks
  BY DEF PhysStep, heapVars
<1>3. HeapFrames' = HeapFrames
  BY <1>2 DEF HeapFrames
<1>4. HeapFrames \subseteq held => HeapFrames \subseteq held'
  BY DEF PhysStep, PmmAlloc, PmmAllocContiguous, PmmFree, Take, physVars
<1> QED
  BY <1>1, <1>2, <1>3, <1>4
     DEF HeapInv, HeapVarsTypeOK, BlocksDisjoint, BlockBytes

LEMMA HeapStepInv == HeapInv /\ [HeapNext]_allVars => HeapInv'
<1> SUFFICES ASSUME HeapInv, [HeapNext]_allVars PROVE HeapInv'
  OBVIOUS
<1>1. CASE KmallocInit
  BY <1>1, KmallocInitInv
<1>2. ASSUME NEW size \in BlockSizes, Kmalloc(size) PROVE HeapInv'
  <2>1. heap_ptr \in Nat
    BY DEF HeapInv, HeapVarsTypeOK
  <2> QED
    BY <1>2, <2>1, AllocateAtInv, HeapAssumption DEF Kmalloc
<1>3. ASSUME NEW size \in BlockSizes, NEW align \in BlockAligns,
             KmallocAligned(size, align)
      PROVE  HeapInv'
  <2>1. heap_ptr \in Nat
    BY DEF HeapInv, HeapVarsTypeOK
  <2>2. RoundUp(heap_ptr, align) \in Nat /\ RoundUp(heap_ptr, align) >= heap_ptr
    BY <2>1, RoundUpGrows, HeapAssumption
  <2> QED
    BY <1>3, <2>2, AllocateAtInv, HeapAssumption DEF KmallocAligned
<1>4. CASE PhysStep
  BY <1>4, PhysStepHeapInv
<1>5. CASE UNCHANGED allVars
  BY <1>5 DEF allVars, physVars, heapVars, HeapInv, HeapVarsTypeOK, PhysInv,
      FramesConserved, Scanned, HeapFrames, BlocksDisjoint, BlockBytes
<1> QED
  BY <1>1, <1>2, <1>3, <1>4, <1>5 DEF HeapNext

THEOREM HeapInvariant == HeapSpec => []HeapInv
  BY HeapInitInv, HeapStepInv, PTL DEF HeapSpec

\* The variables of the frame allocator and of the heap keep their types.
THEOREM HeapTypeCorrect == HeapSpec => []HeapTypeOK
<1>1. HeapInv => HeapTypeOK
  BY PhysInvTypeOK DEF HeapInv, HeapTypeOK
<1> QED
  BY <1>1, HeapInvariant, PTL

\* No two blocks kmalloc and kmalloc_aligned ever handed out share a byte.
THEOREM BlocksNeverOverlap == HeapSpec => []BlocksDisjoint
<1>1. HeapInv => BlocksDisjoint
  BY DEF HeapInv
<1> QED
  BY <1>1, HeapInvariant, PTL

\* Every block lies in frames the heap holds.
THEOREM BlocksStayInHeldFrames == HeapSpec => []BlocksInHeldFrames
<1>1. HeapInv => BlocksInHeldFrames
  <2> SUFFICES ASSUME HeapInv PROVE BlocksInHeldFrames
    OBVIOUS
  <2>1. CASE heap_start = 0
    BY <2>1 DEF HeapInv, BlocksInHeldFrames, HeapFrames
  <2>2. CASE heap_start # 0
    <3>1. heap_start \in Nat /\ \A b \in blocks : b.ptr \in Nat /\ b.size \in Nat
      BY DEF HeapInv, HeapVarsTypeOK
    <3>2. heap_end = (heap_start + HeapPages) * PageSize + DirectMap
      BY <2>2, <3>1, HeapAssumption, SizesAssumption DEF HeapInv
    <3>3. \A b \in blocks : /\ b.ptr + b.size <= heap_end
                            /\ b.ptr >= heap_start * PageSize + DirectMap
      <4>1. heap_start * PageSize + DirectMap \in Nat
        BY <3>1, HeapAssumption
      <4> QED
        BY <3>1, <4>1 DEF HeapInv
    <3> QED
      BY <2>2, <3>2, <3>3 DEF HeapInv, BlocksInHeldFrames
  <2> QED
    BY <2>1, <2>2
<1> QED
  BY <1>1, HeapInvariant, PTL

\* The frame accounting holds of the whole kernel, heap included.
THEOREM HeapKeepsFrames == HeapSpec => []FramesConserved /\ []CounterBetween
  BY HeapImplementsPhysMem, FramesAreConserved, CounterIsBetween, PTL

-----------------------------------------------------------------------------
(* The virtual memory manager. *)

\* The inductive invariant of the page tables.
VirtInv ==
    /\ PhysInv
    /\ VirtTypeOK
    /\ TablesFormTree
    /\ boot \in {"off", "failed"} => \A f \in Frames : level[f] = 0
    /\ boot \in {"mapping", "active"} => kernel_pml4 # 0

-----------------------------------------------------------------------------
\* Every step is a step of the frame allocator or leaves it alone.
LEMMA VirtStepIsPhysStep == [VirtNext]_vars => [Next]_physVars
<1> SUFFICES ASSUME [VirtNext]_vars PROVE [Next]_physVars
  OBVIOUS
<1>1. CASE VmmInit
  BY <1>1 DEF VmmInit, Next
<1>2. CASE InitMap
  BY <1>2 DEF InitMap
<1>3. ASSUME NEW page \in Pages, NEW f \in Targets, NEW nx \in BOOLEAN,
             VmmMap(page, f, nx)
      PROVE  [Next]_physVars
  BY <1>3 DEF VmmMap
<1>4. ASSUME NEW page \in Pages, VmmUnmap(page) \/ PageFault(page) \/ Evict(page)
      PROVE  [Next]_physVars
  BY <1>4 DEF VmmUnmap, PageFault, Evict
<1>5. CASE Walk
  BY <1>5 DEF Walk, Descend, CreateTable, WalkFails, Next
<1>6. CASE AtEntry
  BY <1>6 DEF AtEntry, SetEntry, SwapOut, SwapIn, SwapInHalts, Next
<1>7. CASE OthersAlloc
  BY <1>7 DEF OthersAlloc, Next
<1>8. CASE Refault
  BY <1>8 DEF Refault
<1>9. CASE UNCHANGED vars
  BY <1>9 DEF vars
<1> QED
  BY <1>1, <1>2, <1>3, <1>4, <1>5, <1>6, <1>7, <1>8, <1>9 DEF VirtNext

\* The memory manager with paging implements the frame allocator, so every
\* theorem about PhysMem holds of it.
THEOREM VirtImplementsPhysMem == VirtSpec => Spec
<1>1. VirtInit => Init
  BY DEF VirtInit
<1> QED
  BY <1>1, VirtStepIsPhysStep, PTL DEF VirtSpec, Spec

-----------------------------------------------------------------------------
LEMMA PhysFrames ==
    ASSUME PhysInv
    PROVE  /\ held \subseteq Frames /\ phys_bitmap \subseteq Frames
           /\ held \cap phys_bitmap = {}
           /\ Frames \subseteq Nat /\ 0 \in Frames /\ 1 \in Frames
<1>1. UsableFrames(mmap) \subseteq Frames
  BY UsableFinite DEF PhysInv, Frames
<1> QED
  BY <1>1, SizesAssumption, VirtAssumption
     DEF PhysInv, FramesConserved, ManagedFrames, Frames

\* The frame an allocation hands out was nobody's, and is not frame 0.
LEMMA AllocIsFresh ==
    ASSUME PhysInv, PmmAlloc, NEW f \in held' \ held
    PROVE  /\ f \in Frames /\ f \notin held /\ f # 0
           /\ held' = held \cup {f}
<1>1. PICK g \in Allocatable : Take({g}, 1)
  BY DEF PmmAlloc, physVars
<1>2. g \in phys_bitmap /\ g \in Scanned
  BY <1>1 DEF Allocatable
<1>3. held' = held \cup {g} /\ f = g
  BY <1>1 DEF Take
<1>4. f # 0
  BY <1>2, <1>3, SizesAssumption DEF Scanned
<1> QED
  BY <1>2, <1>3, <1>4, PhysFrames

LEMMA IndexInTable ==
    ASSUME NEW page \in Nat, NEW l \in 1 .. Levels
    PROVE  Index(page, l) \in Indices
<1>1. Span[l] \in Nat \ {0} /\ TableSize \in Nat \ {0}
  BY VirtAssumption
<1>2. page \div Span[l] \in Int
  BY <1>1
<1> QED
  BY <1>1, <1>2 DEF Index, Indices

LEMMA EntryTypes ==
    /\ Empty \in Entry /\ Swapped \in Entry /\ Stale \in Entry
    /\ NewTable \in Table
    /\ \A f \in Frames, nx \in BOOLEAN :
          /\ Present(f, nx) \in Entry
          /\ Present(f, nx).present /\ Present(f, nx).frame = f
    /\ Empty.present = FALSE
<1>1. 0 \in Frames /\ 1 \in Frames
  BY SizesAssumption, VirtAssumption DEF Frames
<1> QED
  BY <1>1 DEF Empty, Swapped, Stale, Present, Entry, NewTable, Table

LEMMA VirtInitInv == VirtInit => VirtInv
<1> SUFFICES ASSUME VirtInit PROVE VirtInv
  OBVIOUS
<1>1. PhysInv
  BY PhysInitInv DEF VirtInit
<1>2. /\ 0 \in Frames
      /\ NoCall \in [op : {"none", "map", "unmap", "fault", "evict"}, page : Nat,
                     entry : Entry, level : 0 .. Levels, table : Frames]
  BY <1>1, PhysFrames, EntryTypes, VirtAssumption DEF NoCall
<1>3. VirtTypeOK
  <2>1. content \in [Frames -> Table]
    BY EntryTypes DEF VirtInit, Table
  <2>2. mapped \in 0 .. IdentityPages + DirectPages /\ level \in [Frames -> 0 .. Levels]
    BY VirtAssumption, SizesAssumption DEF VirtInit
  <2> QED
    BY <1>2, <2>1, <2>2 DEF VirtInit, VirtTypeOK
<1>4. TablesFormTree
  BY <1>2, VirtAssumption
     DEF VirtInit, TablesFormTree, TablesHeld, RootIsTop, LinksDown,
         LinksUnique, WalkInTree, Links
<1> QED
  BY <1>1, <1>3, <1>4 DEF VirtInv, VirtInit

-----------------------------------------------------------------------------
\* The tree does not change when no table above the last level does and no
\* table is freed.
LEMMA TreeKept ==
    ASSUME VirtInv,
           UNCHANGED <<kernel_pml4, level>>,
           \A f \in Frames : level[f] > 1 => content'[f] = content[f],
           \A f \in Frames : level[f] # 0 => f \in held'
    PROVE  (TablesHeld /\ RootIsTop /\ LinksDown /\ LinksUnique)'
<1>1. TablesHeld'
  BY DEF TablesHeld
<1>2. RootIsTop'
  BY DEF VirtInv, TablesFormTree, RootIsTop
<1>3. Links' = Links
  BY DEF Links
<1>4. \A x \in Links : LinkedTo(x)' = LinkedTo(x)
  <2> SUFFICES ASSUME NEW x \in Links PROVE LinkedTo(x)' = LinkedTo(x)
    OBVIOUS
  <2>1. x[1] \in Frames /\ level[x[1]] > 1
    BY DEF Links
  <2> QED
    BY <2>1 DEF LinkedTo
<1>5. LinksDown'
  BY <1>3, <1>4 DEF VirtInv, TablesFormTree, LinksDown
<1>6. LinksUnique'
  BY <1>3, <1>4 DEF VirtInv, TablesFormTree, LinksUnique
<1> QED
  BY <1>1, <1>2, <1>5, <1>6

\* What is held stays held through an allocation.
LEMMA AllocKeeps ==
    ASSUME PmmAlloc
    PROVE  held \subseteq held'
BY DEF PmmAlloc, Take, physVars

\* An operation starts at kernel_pml4.
LEMMA CallStarts ==
    ASSUME VirtInv, UNCHANGED <<physVars, tableVars, swap_used, halted>>,
           boot \in {"mapping", "active"}, boot' = boot,
           mapped' \in 0 .. IdentityPages + DirectPages,
           NEW op \in {"map", "unmap", "fault", "evict"},
           NEW page \in Nat, NEW e \in Entry,
           call' = Call(op, page, e)
    PROVE  VirtInv'
<1>1. PhysInv'
  BY PhysStepInv DEF VirtInv
<1>2. kernel_pml4 # 0 /\ kernel_pml4 \in Frames /\ Levels \in Nat \ {0}
  BY VirtAssumption DEF VirtInv, VirtTypeOK
<1>3. level[kernel_pml4] = Levels
  BY <1>2 DEF VirtInv, TablesFormTree, RootIsTop
<1>4. VirtTypeOK'
  BY <1>2 DEF VirtInv, VirtTypeOK, Call, tableVars
<1>5. (TablesHeld /\ RootIsTop /\ LinksDown /\ LinksUnique)'
  BY TreeKept DEF VirtInv, TablesFormTree, TablesHeld, tableVars, physVars
<1>6. WalkInTree'
  BY <1>2, <1>3 DEF WalkInTree, Call, tableVars
<1> QED
  BY <1>1, <1>4, <1>5, <1>6 DEF VirtInv, TablesFormTree, tableVars

\* The first table is the root, and no other is there yet.
LEMMA VmmInitInv == VirtInv /\ VmmInit => VirtInv'
<1> SUFFICES ASSUME VirtInv, VmmInit PROVE VirtInv'
  OBVIOUS
<1>1. PhysInv /\ PhysInv'
  BY AllocInv DEF VirtInv, VmmInit
<1>2. /\ \A f \in Frames : level[f] = 0
      /\ call' = NoCall
      /\ UNCHANGED <<mapped, call, swap_used, halted>>
  BY DEF VirtInv, VmmInit, Idle
<1>3. CASE held' = held /\ boot' = "failed" /\ UNCHANGED tableVars
  <2>1. VirtTypeOK'
    BY <1>2, <1>3 DEF VirtInv, VirtTypeOK, tableVars
  <2>2. (TablesHeld /\ RootIsTop /\ LinksDown /\ LinksUnique)'
    BY <1>2, <1>3, TreeKept DEF tableVars
  <2> QED
    BY <1>1, <1>2, <1>3, <2>1, <2>2
       DEF VirtInv, TablesFormTree, WalkInTree, NoCall, tableVars
<1>4. ASSUME NEW f \in held' \ held,
             kernel_pml4' = f,
             content' = [content EXCEPT ![f] = NewTable],
             level' = [level EXCEPT ![f] = Levels],
             boot' = "mapping"
      PROVE  VirtInv'
  <2>1. f \in Frames /\ f # 0 /\ f \in held'
    BY <1>1, AllocIsFresh DEF VmmInit
  <2>2. Levels \in Nat \ {0}
    BY VirtAssumption
  <2>3. VirtTypeOK'
    BY <1>2, <1>4, <2>1, <2>2, EntryTypes DEF VirtInv, VirtTypeOK
  <2>4. \A g \in Frames : level'[g] = IF g = f THEN Levels ELSE 0
    BY <1>2, <1>4, <2>1 DEF VirtInv, VirtTypeOK
  <2>5. Links' = {}
    <3>1. \A i \in Indices : ~ content'[f][i].present
      BY <1>4, <2>1, EntryTypes DEF VirtInv, VirtTypeOK, NewTable
    <3> QED
      BY <2>4, <3>1 DEF Links
  <2>6. TablesHeld' /\ RootIsTop'
    BY <1>4, <2>1, <2>2, <2>4 DEF TablesHeld, RootIsTop
  <2>7. LinksDown' /\ LinksUnique'
    BY <2>5 DEF LinksDown, LinksUnique
  <2> QED
    BY <1>1, <1>2, <1>4, <2>1, <2>3, <2>6, <2>7
       DEF VirtInv, TablesFormTree, WalkInTree
<1> QED
  BY <1>3, <1>4 DEF VmmInit

LEMMA InitMapInv == VirtInv /\ InitMap => VirtInv'
<1> SUFFICES ASSUME VirtInv, InitMap PROVE VirtInv'
  OBVIOUS
<1>1. /\ IdentityPages \in Nat /\ IdentityPages <= MaxFrames
      /\ DirectPages \in Nat /\ DirectPages <= MaxFrames
      /\ DirectBase \in Nat /\ mapped \in Nat /\ MaxFrames \in Nat
  BY VirtAssumption, SizesAssumption DEF VirtInv, VirtTypeOK
<1>2. CASE /\ mapped < IdentityPages
           /\ call' = Call("map", mapped, Present(mapped, FALSE))
           /\ mapped' = mapped + 1
           /\ UNCHANGED boot
  <2> mapped \in Frames
    BY <1>1, <1>2 DEF Frames
  <2>1. Present(mapped, FALSE) \in Entry
    BY EntryTypes
  <2>2. mapped' \in 0 .. IdentityPages + DirectPages
    BY <1>1, <1>2
  <2> QED
    BY <1>1, <1>2, <2>1, <2>2, CallStarts DEF InitMap
<1>3. CASE /\ mapped \in IdentityPages .. IdentityPages + DirectPages - 1
           /\ call' = Call("map", DirectBase + (mapped - IdentityPages),
                           Present(mapped - IdentityPages, TRUE))
           /\ mapped' = mapped + 1
           /\ UNCHANGED boot
  <2> mapped - IdentityPages \in Frames
    BY <1>1, <1>3 DEF Frames
  <2>1. Present(mapped - IdentityPages, TRUE) \in Entry
    BY EntryTypes
  <2>2. /\ mapped' \in 0 .. IdentityPages + DirectPages
        /\ DirectBase + (mapped - IdentityPages) \in Nat
    BY <1>1, <1>3
  <2> QED
    BY <1>3, <2>1, <2>2, CallStarts DEF InitMap
<1>4. CASE boot' = "active" /\ UNCHANGED <<call, mapped>>
  <2>1. PhysInv'
    BY PhysStepInv DEF VirtInv, InitMap
  <2>2. VirtTypeOK'
    BY <1>4 DEF VirtInv, VirtTypeOK, InitMap, tableVars
  <2>3. (TablesHeld /\ RootIsTop /\ LinksDown /\ LinksUnique)'
    BY TreeKept
       DEF InitMap, VirtInv, TablesFormTree, TablesHeld, tableVars, physVars
  <2>4. WalkInTree'
    BY <1>4 DEF VirtInv, TablesFormTree, WalkInTree, InitMap, tableVars
  <2> QED
    BY <1>4, <2>1, <2>2, <2>3, <2>4
       DEF VirtInv, TablesFormTree, InitMap, tableVars
<1> QED
  BY <1>2, <1>3, <1>4 DEF InitMap

\* vmm_map, vmm_unmap, a page fault and an eviction only start to walk.
LEMMA OperationStartsInv ==
    ASSUME VirtInv, NEW page \in Pages,
           \/ \E f \in Targets, nx \in BOOLEAN : VmmMap(page, f, nx)
           \/ VmmUnmap(page) \/ PageFault(page) \/ Evict(page)
    PROVE  VirtInv'
<1>1. page \in Nat /\ Targets \subseteq Frames
  BY VirtAssumption DEF Frames
<1>2. mapped \in 0 .. IdentityPages + DirectPages
  BY DEF VirtInv, VirtTypeOK
<1>3. ASSUME NEW f \in Targets, NEW nx \in BOOLEAN, VmmMap(page, f, nx)
      PROVE  VirtInv'
  <2>1. Present(f, nx) \in Entry
    BY <1>1, EntryTypes
  <2> QED
    BY <1>1, <1>2, <1>3, <2>1, CallStarts DEF VmmMap
<1>4. CASE VmmUnmap(page)
  BY <1>1, <1>2, <1>4, EntryTypes, CallStarts DEF VmmUnmap
<1>5. CASE PageFault(page)
  BY <1>1, <1>2, <1>5, EntryTypes, CallStarts DEF PageFault
<1>6. CASE Evict(page)
  BY <1>1, <1>2, <1>6, EntryTypes, CallStarts DEF Evict
<1> QED
  BY <1>3, <1>4, <1>5, <1>6

\* A frame in use as a table is not freed by others.
LEMMA OthersAllocInv == VirtInv /\ OthersAlloc => VirtInv'
<1> SUFFICES ASSUME VirtInv, OthersAlloc PROVE VirtInv'
  OBVIOUS
<1>1. PhysInv'
  BY PhysStepInv DEF VirtInv, OthersAlloc, Next
<1>2. VirtTypeOK'
  BY DEF VirtInv, VirtTypeOK, OthersAlloc, tableVars
<1>3. \A f \in Frames : level[f] # 0 => f \in held'
  <2>1. \A f \in Frames : level[f] # 0 => f \in held
    BY DEF VirtInv, TablesFormTree, TablesHeld
  <2>2. CASE PmmAlloc
    BY <2>1, <2>2, AllocKeeps
  <2>3. ASSUME NEW g \in held, level[g] = 0, PmmFree(g)
        PROVE  \A f \in Frames : level[f] # 0 => f \in held'
    BY <2>1, <2>3 DEF PmmFree, physVars
  <2> QED
    BY <2>2, <2>3 DEF OthersAlloc
<1>4. (TablesHeld /\ RootIsTop /\ LinksDown /\ LinksUnique)'
  BY <1>3, TreeKept DEF OthersAlloc, tableVars
<1>5. WalkInTree'
  BY DEF OthersAlloc, Idle, WalkInTree
<1> QED
  BY <1>1, <1>2, <1>4, <1>5 DEF VirtInv, TablesFormTree, OthersAlloc, tableVars

-----------------------------------------------------------------------------
\* Where a walk stands.
LEMMA WalkPlace ==
    ASSUME VirtInv, call # NoCall
    PROVE  /\ call.table \in Frames /\ call.level \in 1 .. Levels
           /\ call.page \in Nat
           /\ level[call.table] = call.level /\ call.table \in held
           /\ Index(call.page, call.level) \in Indices
           /\ Here \in Entry
<1>1. /\ call.table \in Frames /\ call.level \in 0 .. Levels
      /\ call.page \in Nat
  BY DEF VirtInv, VirtTypeOK
<1>2. call.level >= 1 /\ level[call.table] = call.level
  BY DEF VirtInv, TablesFormTree, WalkInTree
<1>3. call.level \in 1 .. Levels
  BY <1>1, <1>2, VirtAssumption
<1>4. call.table \in held
  BY <1>1, <1>2, <1>3 DEF VirtInv, TablesFormTree, TablesHeld
<1>5. Index(call.page, call.level) \in Indices
  BY <1>1, <1>3, IndexInTable
<1>6. Here \in Entry
  BY <1>1, <1>5 DEF Here, VirtInv, VirtTypeOK, Table
<1> QED
  BY <1>1, <1>2, <1>3, <1>4, <1>5, <1>6

LEMMA DescendInv ==
    ASSUME VirtInv, call # NoCall, Descend, UNCHANGED <<boot, mapped, swap_used>>
    PROVE  VirtInv'
<1>1. PhysInv'
  BY PhysStepInv DEF VirtInv, Descend
<1> DEFINE x == <<call.table, Index(call.page, call.level)>>
<1>2. x \in Links /\ LinkedTo(x) = Here.frame
  BY WalkPlace DEF Descend, Links, LinkedTo, Here
<1>3. Here.frame \in Frames /\ level[Here.frame] = call.level - 1
  BY <1>2, WalkPlace DEF VirtInv, TablesFormTree, LinksDown
<1>4. call.level - 1 \in 1 .. Levels
  BY WalkPlace, VirtAssumption DEF Descend
<1>5. call' \in [op : {"none", "map", "unmap", "fault", "evict"}, page : Nat,
                 entry : Entry, level : 0 .. Levels, table : Frames]
  BY <1>3, <1>4 DEF VirtInv, VirtTypeOK, Descend
<1>6. call'.level = call.level - 1 /\ call'.table = Here.frame
  BY DEF VirtInv, VirtTypeOK, Descend
<1>7. VirtTypeOK'
  BY <1>5 DEF VirtInv, VirtTypeOK, Descend, tableVars
<1>8. (TablesHeld /\ RootIsTop /\ LinksDown /\ LinksUnique)'
  BY TreeKept
     DEF Descend, VirtInv, TablesFormTree, TablesHeld, tableVars, physVars
<1>9. WalkInTree'
  BY <1>3, <1>4, <1>6 DEF WalkInTree, Descend, tableVars
<1> QED
  BY <1>1, <1>7, <1>8, <1>9 DEF VirtInv, TablesFormTree, Descend, tableVars

LEMMA WalkFailsInv ==
    ASSUME VirtInv, call # NoCall, WalkFails, UNCHANGED <<boot, mapped, swap_used>>
    PROVE  VirtInv'
<1>1. PhysInv'
  BY PhysStepInv DEF VirtInv, WalkFails
<1>2. NoCall \in [op : {"none", "map", "unmap", "fault", "evict"}, page : Nat,
                  entry : Entry, level : 0 .. Levels, table : Frames]
  BY PhysFrames, EntryTypes, VirtAssumption DEF NoCall, VirtInv
<1>3. VirtTypeOK'
  BY <1>2 DEF VirtInv, VirtTypeOK, WalkFails, tableVars
<1>4. (TablesHeld /\ RootIsTop /\ LinksDown /\ LinksUnique)'
  BY TreeKept
     DEF WalkFails, VirtInv, TablesFormTree, TablesHeld, tableVars, physVars
<1>5. WalkInTree'
  BY DEF WalkInTree, WalkFails
<1> QED
  BY <1>1, <1>3, <1>4, <1>5 DEF VirtInv, TablesFormTree, WalkFails, tableVars

\* A new table hangs from the one entry that is written, and has no present
\* entry of its own.
LEMMA CreateTableInv ==
    ASSUME VirtInv, call # NoCall, CreateTable, UNCHANGED <<boot, mapped, swap_used>>
    PROVE  VirtInv'
<1>1. PhysInv /\ PhysInv' /\ held \subseteq held'
  BY AllocInv, AllocKeeps DEF VirtInv, CreateTable
<1> DEFINE t == call.table
           j == Index(call.page, call.level)
<1>2. PICK f \in held' \ held :
        /\ content' = [content EXCEPT ![f] = NewTable,
                                      ![t][j] = Present(f, FALSE)]
        /\ level' = [level EXCEPT ![f] = call.level - 1]
        /\ call' = [call EXCEPT !.level = @ - 1, !.table = f]
  BY DEF CreateTable
<1>3. f \in Frames /\ f \notin held /\ f # 0 /\ f \in held'
  BY <1>1, AllocIsFresh DEF CreateTable
<1>4. /\ t \in Frames /\ j \in Indices /\ t # f /\ level[t] = call.level
      /\ call.level \in 2 .. Levels /\ ~ content[t][j].present
      /\ level[f] = 0
  <2>1. level[f] \in 0 .. Levels
    BY <1>3 DEF VirtInv, VirtTypeOK
  <2>2. level[f] = 0
    BY <1>3, <2>1 DEF VirtInv, TablesFormTree, TablesHeld
  <2> QED
    BY <1>3, <2>2, WalkPlace, VirtAssumption DEF CreateTable, Here
<1>5. Present(f, FALSE) \in Entry /\ Present(f, FALSE).present
      /\ Present(f, FALSE).frame = f
  BY <1>3, EntryTypes
<1>6. \A g \in Frames : \A i \in Indices :
         content'[g][i] = IF g = f THEN Empty
                          ELSE IF g = t /\ i = j THEN Present(f, FALSE)
                          ELSE content[g][i]
  BY <1>2, <1>3, <1>4 DEF VirtInv, VirtTypeOK, Table, NewTable
<1>7. \A g \in Frames : level'[g] = IF g = f THEN call.level - 1 ELSE level[g]
  BY <1>2, <1>3 DEF VirtInv, VirtTypeOK
<1>8. content' \in [Frames -> Table]
  BY <1>2, <1>4, <1>5, EntryTypes DEF VirtInv, VirtTypeOK, Table
<1>9. VirtTypeOK'
  <2>1. call.level - 1 \in 0 .. Levels
    BY <1>4, VirtAssumption
  <2>2. level' \in [Frames -> 0 .. Levels]
    BY <1>2, <2>1 DEF VirtInv, VirtTypeOK
  <2>3. call' \in [op : {"none", "map", "unmap", "fault", "evict"}, page : Nat,
                   entry : Entry, level : 0 .. Levels, table : Frames]
    BY <1>2, <1>3, <2>1 DEF VirtInv, VirtTypeOK
  <2> QED
    BY <1>8, <2>2, <2>3 DEF VirtInv, VirtTypeOK, CreateTable
<1>10. Links' = Links \cup {<<t, j>>}
  <2>1. ASSUME NEW g \in Frames, NEW i \in Indices
        PROVE  level'[g] > 1 /\ content'[g][i].present
                  <=> \/ level[g] > 1 /\ content[g][i].present
                      \/ g = t /\ i = j
    <3>1. CASE g = f
      <4>1. content'[g][i] = Empty
        BY <1>6, <3>1, Zenon
      <4>2. content'[g][i].present = FALSE
        BY <4>1, EntryTypes
      <4>3. level[g] = 0 /\ g # t
        BY <1>4, <3>1
      <4> QED
        BY <4>2, <4>3
    <3>2. CASE g = t /\ i = j
      <4>0. g # f
        BY <1>4, <3>2
      <4>1. content'[g][i] = Present(f, FALSE)
        BY <1>6, <3>2, <4>0, Zenon
      <4>2. level'[g] = level[t]
        BY <1>7, <3>2, <4>0
      <4>3. level'[g] > 1
        BY <1>4, <4>2
      <4>4. content'[g][i].present
        BY <1>5, <4>1
      <4> QED
        BY <3>2, <4>3, <4>4
    <3>3. CASE g # f /\ ~ (g = t /\ i = j)
      BY <1>6, <1>7, <3>3
    <3> QED
      BY <1>4, <3>1, <3>2, <3>3
  <2>2. ASSUME NEW x PROVE x \in Links' <=> x \in Links \/ x = <<t, j>>
    <3>1. CASE x \in Frames \X Indices
      <4>1. x[1] \in Frames /\ x[2] \in Indices /\ x = <<x[1], x[2]>>
        BY <3>1
      <4>2. x \in Links' <=> level'[x[1]] > 1 /\ content'[x[1]][x[2]].present
        BY <3>1 DEF Links
      <4>3. x \in Links <=> level[x[1]] > 1 /\ content[x[1]][x[2]].present
        BY <3>1 DEF Links
      <4>4. x = <<t, j>> <=> x[1] = t /\ x[2] = j
        BY <4>1
      <4> QED
        BY <2>1, <4>1, <4>2, <4>3, <4>4
    <3>2. CASE x \notin Frames \X Indices
      BY <1>4, <3>2 DEF Links
    <3> QED
      BY <3>1, <3>2
  <2> QED
    BY <2>2
<1>11. \A x \in Links' : LinkedTo(x)' = IF x = <<t, j>> THEN f ELSE LinkedTo(x)
  <2> SUFFICES ASSUME NEW x \in Links'
               PROVE  LinkedTo(x)' = IF x = <<t, j>> THEN f ELSE LinkedTo(x)
    OBVIOUS
  <2>1. PICK g \in Frames, i \in Indices : x = <<g, i>>
    BY DEF Links
  <2>2. content'[g][i].present /\ g # f
    BY <1>6, <2>1, EntryTypes DEF Links
  <2>3. LinkedTo(x)' = content'[g][i].frame /\ LinkedTo(x) = content[g][i].frame
    BY <2>1 DEF LinkedTo
  <2> QED
    BY <1>5, <1>6, <2>1, <2>2, <2>3
<1>12. <<t, j>> \notin Links
  BY <1>4 DEF Links
<1>13. \A x \in Links : /\ LinkedTo(x) \in Frames /\ LinkedTo(x) # f
                        /\ level[LinkedTo(x)] = level[x[1]] - 1
                        /\ x[1] \in Frames /\ x[1] # f
  <2> SUFFICES ASSUME NEW x \in Links
               PROVE  /\ LinkedTo(x) \in Frames /\ LinkedTo(x) # f
                      /\ level[LinkedTo(x)] = level[x[1]] - 1
                      /\ x[1] \in Frames /\ x[1] # f
    OBVIOUS
  <2>1. x[1] \in Frames /\ level[x[1]] > 1 /\ level[x[1]] \in 0 .. Levels
    BY DEF Links, VirtInv, VirtTypeOK
  <2>2. LinkedTo(x) \in Frames /\ level[LinkedTo(x)] = level[x[1]] - 1
    BY DEF VirtInv, TablesFormTree, LinksDown
  <2>3. level[LinkedTo(x)] # 0
    BY <2>1, <2>2, VirtAssumption
  <2> QED
    BY <1>4, <2>1, <2>2, <2>3
<1>14. TablesHeld'
  BY <1>1, <1>3, <1>7 DEF VirtInv, TablesFormTree, TablesHeld
<1>15. RootIsTop'
  BY <1>3, <1>4, <1>7, VirtAssumption
     DEF VirtInv, TablesFormTree, RootIsTop, CreateTable
<1>16. LinksDown'
  BY <1>3, <1>4, <1>7, <1>10, <1>11, <1>13 DEF LinksDown
<1>17. LinksUnique'
  BY <1>10, <1>11, <1>12, <1>13 DEF VirtInv, TablesFormTree, LinksUnique
<1>18. WalkInTree'
  BY <1>2, <1>3, <1>4, <1>7 DEF WalkInTree, VirtInv, VirtTypeOK
<1>19. boot \notin {"off", "failed"}
  BY <1>4 DEF VirtInv
<1>20. boot' = boot /\ kernel_pml4' = kernel_pml4
  BY DEF CreateTable
<1> QED
  BY <1>1, <1>9, <1>14, <1>15, <1>16, <1>17, <1>18, <1>19, <1>20
     DEF VirtInv, TablesFormTree

-----------------------------------------------------------------------------
\* At the last level the walk ends, and what it writes is no link.
LEMMA EntryWritten ==
    ASSUME VirtInv, call # NoCall, call.level = 1,
           UNCHANGED <<kernel_pml4, level, boot, mapped>>,
           PhysInv', held \subseteq held',
           UNCHANGED content \/ \E e \in Entry : WriteHere(e),
           swap_used' \in Nat, halted' \in BOOLEAN, call' = NoCall
    PROVE  VirtInv'
<1> DEFINE t == call.table
           j == Index(call.page, call.level)
<1>1. t \in Frames /\ level[t] = 1 /\ j \in Indices
  BY WalkPlace
<1>2. /\ content' \in [Frames -> Table]
      /\ \A f \in Frames : level[f] > 1 => content'[f] = content[f]
  <2>1. CASE UNCHANGED content
    BY <2>1 DEF VirtInv, VirtTypeOK
  <2>2. ASSUME NEW e \in Entry, WriteHere(e)
        PROVE  /\ content' \in [Frames -> Table]
               /\ \A f \in Frames : level[f] > 1 => content'[f] = content[f]
    BY <1>1, <2>2 DEF WriteHere, VirtInv, VirtTypeOK, Table
  <2> QED
    BY <2>1, <2>2
<1>3. NoCall \in [op : {"none", "map", "unmap", "fault", "evict"}, page : Nat,
                  entry : Entry, level : 0 .. Levels, table : Frames]
  BY PhysFrames, EntryTypes, VirtAssumption DEF NoCall, VirtInv
<1>4. VirtTypeOK'
  BY <1>2, <1>3 DEF VirtInv, VirtTypeOK
<1>5. (TablesHeld /\ RootIsTop /\ LinksDown /\ LinksUnique)'
  BY <1>2, TreeKept DEF VirtInv, TablesFormTree, TablesHeld
<1>6. WalkInTree'
  BY DEF WalkInTree
<1> QED
  BY <1>4, <1>5, <1>6 DEF VirtInv, TablesFormTree

LEMMA AtEntryInv == VirtInv /\ AtEntry => VirtInv'
<1> SUFFICES ASSUME VirtInv, AtEntry PROVE VirtInv'
  OBVIOUS
<1>1. call.level = 1 /\ call' = NoCall /\ UNCHANGED <<kernel_pml4, boot, mapped, level>>
  BY DEF AtEntry
<1>2. call # NoCall
  BY <1>1 DEF NoCall
<1>3. /\ call.entry \in Entry /\ swap_used \in Nat /\ halted \in BOOLEAN
      /\ Swapped \in Entry /\ Here \in Entry
  BY <1>2, EntryTypes, WalkPlace DEF VirtInv, VirtTypeOK
<1>4. CASE SetEntry
  <2>1. PhysInv' /\ held \subseteq held'
    BY <1>4, PhysStepInv DEF SetEntry, VirtInv, physVars
  <2>2. UNCHANGED content \/ \E e \in Entry : WriteHere(e)
    BY <1>3, <1>4 DEF SetEntry
  <2> QED
    BY <1>1, <1>2, <1>3, <1>4, <2>1, <2>2, EntryWritten DEF SetEntry
<1>5. CASE SwapOut
  <2>1. PhysInv' /\ held \subseteq held'
    BY <1>5, PhysStepInv DEF SwapOut, VirtInv, physVars
  <2>2. swap_used' \in Nat /\ halted' \in BOOLEAN
    BY <1>3, <1>5 DEF SwapOut
  <2> QED
    BY <1>1, <1>2, <1>3, <1>5, <2>1, <2>2, EntryWritten DEF SwapOut
<1>6. CASE SwapIn
  <2>1. PhysInv' /\ held \subseteq held' /\ PmmAlloc
    BY <1>6, AllocInv, AllocKeeps DEF SwapIn, VirtInv
  <2>2. PICK f \in held' \ held : WriteHere(Present(f, FALSE))
    BY <1>6 DEF SwapIn
  <2>3. Present(f, FALSE) \in Entry
    BY <2>1, <2>2, AllocIsFresh, EntryTypes DEF VirtInv
  <2>4. swap_used' \in Nat /\ halted' \in BOOLEAN
    BY <1>3, <1>6, SizesAssumption DEF SwapIn, Minus
  <2> QED
    BY <1>1, <1>2, <2>1, <2>2, <2>3, <2>4, EntryWritten
<1>7. CASE SwapInHalts
  <2>1. PhysInv' /\ held \subseteq held'
    BY <1>7, PhysStepInv DEF SwapInHalts, VirtInv, physVars
  <2>2. halted' \in BOOLEAN /\ swap_used' \in Nat
    BY <1>3, <1>7 DEF SwapInHalts, Entry
  <2> QED
    BY <1>1, <1>2, <1>7, <2>1, <2>2, EntryWritten DEF SwapInHalts
<1> QED
  BY <1>4, <1>5, <1>6, <1>7 DEF AtEntry

\* A fault that is not served begins its walk again at the root.
LEMMA RefaultInv == VirtInv /\ Refault => VirtInv'
<1> SUFFICES ASSUME VirtInv, Refault PROVE VirtInv'
  OBVIOUS
<1>1. UNCHANGED <<physVars, content, kernel_pml4, level, boot, mapped, swap_used, halted>>
  BY DEF Refault, tableVars
<1>2. call # NoCall /\ call' = Call("fault", call.page, Empty)
  BY DEF Refault, NoCall
<1>3. call.page \in Nat /\ kernel_pml4 \in Frames /\ kernel_pml4 # 0
  <2>1. call.page \in Nat /\ call.table \in Frames /\ level[call.table] # 0
    BY <1>2, WalkPlace, VirtAssumption DEF VirtInv, VirtTypeOK
  <2> QED
    BY <2>1 DEF VirtInv, VirtTypeOK
<1>4. VirtTypeOK'
  BY <1>1, <1>2, <1>3, EntryTypes, VirtAssumption DEF VirtInv, VirtTypeOK, Call
<1>5. (TablesHeld /\ RootIsTop /\ LinksDown /\ LinksUnique)'
  BY <1>1, TreeKept DEF physVars, VirtInv, TablesFormTree, TablesHeld
<1>6. WalkInTree'
  BY <1>1, <1>2, <1>3, VirtAssumption
     DEF Call, VirtInv, TablesFormTree, RootIsTop, WalkInTree
<1>7. PhysInv'
  BY <1>1, PhysStepInv DEF VirtInv
<1> QED
  BY <1>1, <1>2, <1>4, <1>5, <1>6, <1>7 DEF VirtInv, TablesFormTree

LEMMA VirtStepInv == VirtInv /\ [VirtNext]_vars => VirtInv'
<1> SUFFICES ASSUME VirtInv, [VirtNext]_vars PROVE VirtInv'
  OBVIOUS
<1>1. CASE VmmInit
  BY <1>1, VmmInitInv
<1>2. CASE InitMap
  BY <1>2, InitMapInv
<1>3. ASSUME NEW page \in Pages,
             \/ \E f \in Targets, nx \in BOOLEAN : VmmMap(page, f, nx)
             \/ VmmUnmap(page) \/ PageFault(page) \/ Evict(page)
      PROVE  VirtInv'
  BY <1>3, OperationStartsInv
<1>4. CASE Walk
  BY <1>4, DescendInv, CreateTableInv, WalkFailsInv DEF Walk
<1>5. CASE AtEntry
  BY <1>5, AtEntryInv
<1>6. CASE OthersAlloc
  BY <1>6, OthersAllocInv
<1>7. CASE UNCHANGED vars
  <2>1. PhysInv'
    BY <1>7, PhysStepInv DEF VirtInv, vars
  <2>2. VirtTypeOK' /\ WalkInTree'
    BY <1>7 DEF vars, VirtInv, VirtTypeOK, TablesFormTree, WalkInTree
  <2>3. (TablesHeld /\ RootIsTop /\ LinksDown /\ LinksUnique)'
    BY <1>7, TreeKept
       DEF vars, physVars, VirtInv, TablesFormTree, TablesHeld
  <2> QED
    BY <1>7, <2>1, <2>2, <2>3 DEF vars, VirtInv, TablesFormTree
<1>8. CASE Refault
  BY <1>8, RefaultInv
<1> QED
  BY <1>1, <1>2, <1>3, <1>4, <1>5, <1>6, <1>7, <1>8 DEF VirtNext

THEOREM VirtInvariant == VirtSpec => []VirtInv
  BY VirtInitInv, VirtStepInv, PTL DEF VirtSpec

\* The variables of the virtual memory manager keep their types.
THEOREM VirtTypeCorrect == VirtSpec => []VirtTypeOK
<1>1. VirtInv => VirtTypeOK
  BY DEF VirtInv
<1> QED
  BY <1>1, VirtInvariant, PTL

\* The page tables stay a tree of frames held by nobody else, also when an
\* operation has run out of frames after linking some of the tables it needs.
THEOREM TablesAreATree == VirtSpec => []TablesFormTree
<1>1. VirtInv => TablesFormTree
  BY DEF VirtInv
<1> QED
  BY <1>1, VirtInvariant, PTL

\* The allocator below the page tables loses no frame and gives none to two.
THEOREM VirtKeepsFrames == VirtSpec => []FramesConserved
  BY VirtImplementsPhysMem, FramesAreConserved, PTL

-----------------------------------------------------------------------------
(* Pages and their indices in the tables. *)

\* Quotient and remainder are what they are found to be.
LEMMA DivisionIs ==
    ASSUME NEW n \in Nat, NEW d \in Nat \ {0}, NEW q \in Int, NEW r \in 0 .. d - 1,
           n = d * q + r
    PROVE  n \div d = q /\ n % d = r
<1> DEFINE u == n \div d
           v == n % d
<1>1. u \in Int /\ v \in 0 .. d - 1 /\ n = d * u + v
  OBVIOUS
<1> HIDE DEF u, v
<1>2. ~ (u < q)
  <2> SUFFICES ASSUME u + 1 <= q PROVE FALSE
    BY <1>1
  <2>1. d * (u + 1) <= d * q /\ d * (u + 1) = d * u + d
    BY <1>1
  <2> QED
    BY <1>1, <2>1
<1>3. ~ (q < u)
  <2> SUFFICES ASSUME q + 1 <= u PROVE FALSE
    BY <1>1
  <2>1. d * (q + 1) <= d * u /\ d * (q + 1) = d * q + d
    BY <1>1
  <2> QED
    BY <1>1, <2>1
<1>4. u = q
  BY <1>1, <1>2, <1>3
<1>5. v = r
  BY <1>1, <1>4
<1> QED
  BY <1>4, <1>5 DEF u, v

\* The remainder below s * t is the digit above s and the remainder below s.
LEMMA DigitSplit ==
    ASSUME NEW n \in Nat, NEW s \in Nat \ {0}, NEW t \in Nat \ {0}
    PROVE  /\ s * t \in Nat \ {0}
           /\ n \div s \in Nat /\ (n \div s) % t \in 0 .. t - 1 /\ n % s \in 0 .. s - 1
           /\ n % (s * t) = s * ((n \div s) % t) + (n % s)
           /\ n % (s * t) \in 0 .. s * t - 1
<1> DEFINE q == n \div s
           r == n % s
           u == q \div t
           v == q % t
<1>1. q \in Int /\ r \in 0 .. s - 1 /\ n = s * q + r
  OBVIOUS
<1>2. q \in Nat
  <2> HIDE DEF q, r
  <2> SUFFICES ASSUME q <= -1 PROVE FALSE
    BY <1>1
  <2>1. s * q <= s * (-1) /\ s * (-1) = -s
    BY <1>1
  <2> QED
    BY <1>1, <2>1
<1> HIDE DEF q, r
<1>3. u \in Int /\ v \in 0 .. t - 1 /\ q = t * u + v
  BY <1>2
<1> HIDE DEF u, v
<1> DEFINE d == s * t
           rest == s * v + r
<1>4. d \in Nat \ {0}
  OBVIOUS
<1>5. s * v \in Int /\ 0 <= s * v /\ s * v <= s * (t - 1) /\ s * (t - 1) = d - s
  BY <1>3
<1>6. n = d * u + rest
  <2>1. s * q = s * (t * u) + s * v
    BY <1>1, <1>3
  <2>2. s * (t * u) = (s * t) * u
    BY <1>3
  <2> QED
    BY <1>1, <1>3, <1>5, <2>1, <2>2
<1>7. rest \in 0 .. d - 1
  <2> HIDE DEF d
  <2> QED
    BY <1>1, <1>4, <1>5
<1>8. n % d = rest
  <2> HIDE DEF d, rest
  <2> QED
    BY <1>3, <1>4, <1>6, <1>7, DivisionIs
<1>9. n % d = s * v + r /\ n % d \in 0 .. d - 1
  <2> HIDE DEF d
  <2> QED
    BY <1>7, <1>8
<1>10. q \in Nat /\ v \in 0 .. t - 1 /\ r \in 0 .. s - 1
  BY <1>1, <1>2, <1>3
<1> QED
  BY <1>4, <1>9, <1>10, Zenon DEF q, r, v

\* Whose remainder below s * t is m has m's digit above s, and m's remainder below s.
LEMMA DigitKept ==
    ASSUME NEW n \in Nat, NEW s \in Nat \ {0}, NEW t \in Nat \ {0}
    PROVE  LET m == n % (s * t)
           IN  m \in Nat /\ (m \div s) % t = (n \div s) % t /\ m % s = n % s
<1> DEFINE m == n % (s * t)
           v == (n \div s) % t
           r == n % s
<1>1. m \in Nat /\ v \in 0 .. t - 1 /\ r \in 0 .. s - 1 /\ m = s * v + r
  <2>1. /\ s * t \in Nat \ {0} /\ m \in 0 .. s * t - 1
        /\ v \in 0 .. t - 1 /\ r \in 0 .. s - 1 /\ m = s * v + r
    BY DigitSplit, Zenon
  <2> HIDE DEF m, v, r
  <2> QED
    BY <2>1
<1> HIDE DEF m, v, r
<1>2. m \div s = v /\ m % s = r
  BY <1>1, DivisionIs
<1>3. v % t = v
  BY <1>1
<1> QED
  BY <1>1, <1>2, <1>3 DEF m, v, r

\* The pages below a table of level l.
PagesBelow(l) == Span[l] * TableSize

LEMMA SpanIs ==
    ASSUME NEW l \in 1 .. Levels
    PROVE  /\ l \in Int /\ 1 <= l /\ l <= Levels
           /\ Span[l] \in Nat \ {0} /\ TableSize \in Nat \ {0}
           /\ PagesBelow(l) \in Nat \ {0}
           /\ Span[1] = 1
           /\ l < Levels => l + 1 \in 1 .. Levels /\ Span[l + 1] = PagesBelow(l)
<1>1. /\ Levels \in Nat
      /\ Span[l] \in Nat \ {0} /\ TableSize \in Nat \ {0} /\ Span[1] = 1
  BY VirtAssumption
<1>2. PagesBelow(l) \in Nat \ {0}
  BY <1>1 DEF PagesBelow
<1>3. l < Levels => l + 1 \in 1 .. Levels /\ Span[l + 1] = PagesBelow(l)
  BY <1>1, VirtAssumption DEF PagesBelow
<1> QED
  BY <1>1, <1>2, <1>3

\* Two pages with the same indices at the levels up to l differ by a number of
\* whole tables of level l.
LEMMA SameBelow ==
    ASSUME NEW p \in Nat, NEW q \in Nat, NEW l \in 1 .. Levels,
           \A k \in 1 .. l : Index(p, k) = Index(q, k)
    PROVE  p % PagesBelow(l) = q % PagesBelow(l)
<1> DEFINE Good == {i \in Int : i <= l => p % PagesBelow(i) = q % PagesBelow(i)}
<1>1. ASSUME NEW i \in 1 .. l,
             i > 1 => p % Span[i] = q % Span[i]
      PROVE  p % PagesBelow(i) = q % PagesBelow(i)
  <2>1. i \in 1 .. Levels
    BY VirtAssumption
  <2>2. Span[i] \in Nat \ {0} /\ TableSize \in Nat \ {0} /\ Span[1] = 1
    BY <2>1, SpanIs
  <2>3. p % Span[i] = q % Span[i]
    BY <1>1, <2>2
  <2>4. Index(p, i) = Index(q, i)
    OBVIOUS
  <2>5. \A n \in Nat : n % PagesBelow(i) = Span[i] * Index(n, i) + (n % Span[i])
    BY <2>2, DigitSplit DEF PagesBelow, Index
  <2>6. /\ p % PagesBelow(i) = Span[i] * Index(p, i) + (p % Span[i])
        /\ q % PagesBelow(i) = Span[i] * Index(q, i) + (q % Span[i])
    BY <2>5, Zenon
  <2> QED
    BY <2>3, <2>4, <2>6, Zenon
<1>2. l \in Int /\ 1 <= l
  BY SpanIs
<1>3. 1 \in Good
  BY <1>1, <1>2
<1>4. ASSUME NEW i \in Int, 1 <= i /\ i \in Good
      PROVE  i + 1 \in Good
  <2> SUFFICES ASSUME i + 1 <= l
               PROVE  p % PagesBelow(i + 1) = q % PagesBelow(i + 1)
    OBVIOUS
  <2>1. i \in 1 .. Levels /\ i < Levels /\ i + 1 \in 1 .. l
    BY <1>2, <1>4, VirtAssumption
  <2>2. Span[i + 1] = PagesBelow(i)
    BY <2>1, SpanIs
  <2>3. p % Span[i + 1] = q % Span[i + 1]
    BY <1>2, <1>4, <2>2
  <2> QED
    BY <1>1, <2>1, <2>3
<1>5. l \in Good
  <2> HIDE DEF Good
  <2>1. 1 \in Int /\ \A i \in Int : 1 <= i => i \in Good
    BY <1>3, <1>4, IntervalInduction
  <2> QED
    BY <1>2, <2>1
<1> QED
  BY <1>5

\* A page and its remainder below a table have the same indices there.
LEMMA SameIndices ==
    ASSUME NEW p \in Nat, NEW l \in 1 .. Levels, NEW k \in 1 .. l
    PROVE  Index(p % PagesBelow(l), k) = Index(p, k)
<1> DEFINE Good == {i \in Int : k <= i /\ i <= l =>
                       \A n \in Nat : Index(n % PagesBelow(i), k) = Index(n, k)}
<1>0. l \in Int /\ k \in Int /\ 1 <= k /\ k <= l /\ l <= Levels
  BY SpanIs
<1>1. ASSUME NEW i \in 1 .. Levels, NEW n \in Nat
      PROVE  /\ n % PagesBelow(i) \in Nat
             /\ Index(n % PagesBelow(i), i) = Index(n, i)
             /\ (n % PagesBelow(i)) % Span[i] = n % Span[i]
  <2>1. Span[i] \in Nat \ {0} /\ TableSize \in Nat \ {0}
    BY SpanIs
  <2> QED
    BY <2>1, DigitKept DEF PagesBelow, Index
<1>2. k \in Good
  <2>1. k \in 1 .. Levels
    BY <1>0, VirtAssumption
  <2> QED
    BY <1>0, <1>1, <2>1
<1>3. ASSUME NEW i \in Int, k <= i /\ i \in Good
      PROVE  i + 1 \in Good
  <2> SUFFICES ASSUME i + 1 <= l, NEW n \in Nat
               PROVE  Index(n % PagesBelow(i + 1), k) = Index(n, k)
    OBVIOUS
  <2>1. i \in 1 .. Levels /\ i < Levels /\ i + 1 \in 1 .. Levels
    BY <1>0, <1>3, VirtAssumption
  <2>2. Span[i + 1] = PagesBelow(i)
    BY <2>1, SpanIs
  <2> DEFINE m == n % PagesBelow(i + 1)
  <2>3. m \in Nat /\ m % PagesBelow(i) = n % PagesBelow(i)
    BY <1>1, <2>1, <2>2
  <2>4. \A x_ \in Nat : Index(x_ % PagesBelow(i), k) = Index(x_, k)
    BY <1>3, <1>0
  <2> HIDE DEF m
  <2>5. Index(m, k) = Index(m % PagesBelow(i), k) /\ Index(n, k) = Index(n % PagesBelow(i), k)
    BY <2>3, <2>4
  <2>6. Index(m, k) = Index(n, k)
    BY <2>3, <2>5
  <2> QED
    BY <2>6 DEF m
<1>4. l \in Good
  <2> HIDE DEF Good
  <2>1. \A i \in Int : k <= i => i \in Good
    BY <1>0, <1>2, <1>3, IntervalInduction
  <2> QED
    BY <1>0, <2>1
<1> QED
  BY <1>0, <1>4

\* The page of Slots that the hardware does not tell from this one.
SlotOf(page) == page % PagesBelow(Levels)

LEMMA SlotIs ==
    ASSUME NEW page \in Nat
    PROVE  /\ SlotOf(page) \in Slots
           /\ \A l \in 1 .. Levels : Index(SlotOf(page), l) = Index(page, l)
<1>1. Levels \in 1 .. Levels
  BY VirtAssumption
<1>2. PagesBelow(Levels) \in Nat \ {0}
  BY <1>1, SpanIs
<1>3. page % PagesBelow(Levels) \in 0 .. PagesBelow(Levels) - 1
  BY <1>2
<1> QED
  BY <1>1, <1>3, SameIndices DEF SlotOf, Slots, PagesBelow

\* Pages with the same indices are in the same slot.
LEMMA SlotsApart ==
    ASSUME NEW s \in Slots, NEW page \in Nat,
           \A l \in 1 .. Levels : Index(s, l) = Index(page, l)
    PROVE  s = SlotOf(page)
<1>1. Levels \in 1 .. Levels
  BY VirtAssumption
<1>2. PagesBelow(Levels) \in Nat \ {0} /\ s \in 0 .. PagesBelow(Levels) - 1
  BY <1>1, SpanIs DEF Slots, PagesBelow
<1>3. s % PagesBelow(Levels) = s
  BY <1>2
<1>4. s % PagesBelow(Levels) = page % PagesBelow(Levels)
  BY <1>1, <1>2, SameBelow
<1> QED
  BY <1>3, <1>4 DEF SlotOf

-----------------------------------------------------------------------------
(* The walk that PteOf follows. *)

\* The table that hangs from table t of level l for a page.
Hanging(page, l, t) ==
    IF t # 0 /\ content[t][Index(page, l)].present
    THEN content[t][Index(page, l)].frame
    ELSE 0

Way(page) ==
    /\ TableAt(page, Levels) = kernel_pml4
    /\ \A l \in 1 .. Levels : TableAt(page, l) \in Frames
    /\ \A l \in 1 .. Levels - 1 :
          TableAt(page, l) = Hanging(page, l + 1, TableAt(page, l + 1))

\* There is a function that TableAt describes.
LEMMA WayIs ==
    ASSUME VirtTypeOK, 0 \in Frames, NEW page \in Nat
    PROVE  Way(page)
<1> DEFINE step == [p \in Int \X Frames |->
                      IF Levels + 2 - p[1] \in 1 .. Levels
                      THEN Hanging(page, Levels + 2 - p[1], p[2]) ELSE 0]
           IsWay(g) == g = [k \in 1 .. Levels |->
                              IF k = Levels THEN kernel_pml4
                              ELSE Hanging(page, k + 1, g[k + 1])]
           way == CHOOSE g : IsWay(g)
<1>1. Levels \in Int /\ 1 <= Levels /\ kernel_pml4 \in Frames
  BY VirtAssumption DEF VirtTypeOK
<1>2. \A l \in 1 .. Levels, t \in Frames : Hanging(page, l, t) \in Frames
  <2> SUFFICES ASSUME NEW l \in 1 .. Levels, NEW t \in Frames
               PROVE  Hanging(page, l, t) \in Frames
    OBVIOUS
  <2>1. content[t][Index(page, l)].frame \in Frames
    BY IndexInTable DEF VirtTypeOK, Table, Entry
  <2> QED
    BY <2>1 DEF Hanging
<1>3. step \in [Int \X Frames -> Frames]
  <2>1. ASSUME NEW p \in Int \X Frames
        PROVE  (IF Levels + 2 - p[1] \in 1 .. Levels
                THEN Hanging(page, Levels + 2 - p[1], p[2]) ELSE 0) \in Frames
    <3>1. p[2] \in Frames
      OBVIOUS
    <3> QED
      BY <1>2, <3>1
  <2> QED
    BY <2>1
<1>4. PICK f \in [1 .. Levels -> Frames] : Steps(f, 1, Levels, kernel_pml4, step)
  <2> HIDE DEF step
  <2>1. 1 \in Int
    OBVIOUS
  <2>2. \E h \in [1 .. Levels -> Frames] : Steps(h, 1, Levels, kernel_pml4, step)
    BY <1>1, <1>3, <2>1, StepsExist
  <2> QED
    BY <2>2
<1> DEFINE g == [k \in 1 .. Levels |-> f[Levels + 1 - k]]
<1>5. IsWay(g)
  <2>1. g[Levels] = kernel_pml4
    BY <1>1, <1>4 DEF Steps
  <2>2. ASSUME NEW k \in 1 .. Levels, k # Levels
        PROVE  g[k] = Hanging(page, k + 1, g[k + 1])
    <3>1. /\ Levels + 1 - k \in 1 + 1 .. Levels /\ Levels + 1 - k \in Int
          /\ Levels + 1 - (k + 1) = (Levels + 1 - k) - 1
          /\ Levels + 2 - (Levels + 1 - k) = k + 1
          /\ k + 1 \in 1 .. Levels
          /\ (Levels + 1 - k) - 1 \in 1 .. Levels
      BY <1>1, <2>2
    <3>2. f[(Levels + 1 - k) - 1] \in Frames
      BY <1>4, <3>1
    <3>3. f[Levels + 1 - k] = step[<<Levels + 1 - k, f[(Levels + 1 - k) - 1]>>]
      <4> HIDE DEF step
      <4> QED
        BY <1>4, <3>1 DEF Steps
    <3>4. f[Levels + 1 - k] = Hanging(page, k + 1, f[(Levels + 1 - k) - 1])
      BY <3>1, <3>2, <3>3
    <3>5. g[k] = f[Levels + 1 - k] /\ g[k + 1] = f[(Levels + 1 - k) - 1]
      BY <3>1
    <3> QED
      BY <3>4, <3>5
  <2>3. g = [k \in 1 .. Levels |-> g[k]]
    OBVIOUS
  <2> HIDE DEF g
  <2> QED
    BY <2>1, <2>2, <2>3
<1>6. IsWay(way)
  <2> HIDE DEF IsWay, g
  <2> QED
    BY <1>5
<1>7. \A l \in 1 .. Levels : TableAt(page, l) = way[l]
  BY DEF TableAt, Hanging
<1> HIDE DEF way
<1>8. /\ way[Levels] = kernel_pml4
      /\ \A l \in 1 .. Levels - 1 : way[l] = Hanging(page, l + 1, way[l + 1])
  <2>1. \A l \in 1 .. Levels - 1 : l \in 1 .. Levels /\ l # Levels
    BY <1>1
  <2>2. Levels \in 1 .. Levels
    BY <1>1
  <2> QED
    BY <1>6, <2>1, <2>2
<1> DEFINE Good == {l \in Int : way[l] \in Frames}
<1>9. Levels \in Good
  BY <1>1, <1>8
<1>10. ASSUME NEW l \in Int, 1 < l /\ l <= Levels /\ l \in Good
       PROVE  l - 1 \in Good
  <2>1. l - 1 \in 1 .. Levels - 1 /\ (l - 1) + 1 = l /\ l \in 1 .. Levels
    BY <1>1, <1>10
  <2>2. way[l - 1] = Hanging(page, l, way[l])
    BY <1>8, <2>1
  <2> QED
    BY <1>2, <1>10, <2>1, <2>2
<1>11. \A l \in 1 .. Levels : l \in Good
  <2> HIDE DEF Good
  <2>1. 1 \in Int
    OBVIOUS
  <2> QED
    BY <1>1, <1>9, <1>10, <2>1, DownwardInduction
<1>12. \A l \in 1 .. Levels - 1 : l \in 1 .. Levels /\ l + 1 \in 1 .. Levels
  BY <1>1
<1>13. Levels \in 1 .. Levels
  BY <1>1
<1> QED
  BY <1>7, <1>8, <1>11, <1>12, <1>13 DEF Way

\* A table on the way is a table of its level.
LEMMA WayLevels ==
    ASSUME VirtInv, NEW page \in Nat, NEW l \in 1 .. Levels, TableAt(page, l) # 0
    PROVE  TableAt(page, l) \in Frames /\ level[TableAt(page, l)] = l
<1> DEFINE T(k) == TableAt(page, k)
           Good == {k \in Int : T(k) # 0 => level[T(k)] = k}
<1>1. Way(page) /\ Levels \in Int /\ 1 <= Levels
  BY WayIs, PhysFrames, VirtAssumption DEF VirtInv
<1> HIDE DEF T
<1>2. T(Levels) = kernel_pml4 /\ kernel_pml4 \in Frames
  BY <1>1 DEF Way, T, VirtInv, VirtTypeOK
<1>3. Levels \in Good
  BY <1>1, <1>2 DEF VirtInv, TablesFormTree, RootIsTop
<1>4. ASSUME NEW k \in Int, 1 < k /\ k <= Levels /\ k \in Good
      PROVE  k - 1 \in Good
  <2> SUFFICES ASSUME T(k - 1) # 0 PROVE level[T(k - 1)] = k - 1
    OBVIOUS
  <2>1. k - 1 \in 1 .. Levels - 1 /\ (k - 1) + 1 = k /\ k \in 1 .. Levels
    BY <1>1, <1>4
  <2>2. T(k - 1) = Hanging(page, k, T(k)) /\ T(k) \in Frames
    BY <1>1, <2>1 DEF Way, T
  <2> DEFINE i == Index(page, k)
  <2>3. T(k) # 0 /\ content[T(k)][i].present /\ T(k - 1) = content[T(k)][i].frame
    BY <2>2 DEF Hanging
  <2>4. i \in Indices
    BY <2>1, IndexInTable
  <2>5. level[T(k)] = k
    BY <1>4, <2>3
  <2> DEFINE link == <<T(k), i>>
  <2> HIDE DEF i
  <2>6. link \in Links /\ LinkedTo(link) = T(k - 1)
    BY <1>4, <2>2, <2>3, <2>4, <2>5 DEF Links, LinkedTo
  <2>7. level[LinkedTo(link)] = level[link[1]] - 1
    <3> HIDE DEF link
    <3> QED
      BY <2>6 DEF VirtInv, TablesFormTree, LinksDown
  <2> QED
    BY <2>5, <2>6, <2>7
<1>5. l \in Good
  <2> HIDE DEF Good
  <2>1. 1 \in Int
    OBVIOUS
  <2>2. \A k \in 1 .. Levels : k \in Good
    BY <1>1, <1>3, <1>4, <2>1, DownwardInduction
  <2> QED
    BY <2>2
<1> QED
  BY <1>1, <1>5 DEF Way, T

\* Two pages that share their last table share every table above it, and the index
\* in each.
LEMMA WaysMeet ==
    ASSUME VirtInv, NEW p \in Nat, NEW q \in Nat,
           TableAt(p, 1) # 0, TableAt(p, 1) = TableAt(q, 1)
    PROVE  \A l \in 2 .. Levels : Index(p, l) = Index(q, l)
<1> DEFINE P(k) == TableAt(p, k)
           Q(k) == TableAt(q, k)
           Good == {k \in Int : k <= Levels =>
                       /\ P(k) # 0 /\ P(k) = Q(k)
                       /\ \A l \in 2 .. k : Index(p, l) = Index(q, l)}
<1>1. Way(p) /\ Way(q) /\ Levels \in Int /\ 1 <= Levels
  BY WayIs, PhysFrames, VirtAssumption DEF VirtInv
<1>2. \A k \in 1 .. Levels : /\ P(k) # 0 => P(k) \in Frames /\ level[P(k)] = k
                             /\ Q(k) # 0 => Q(k) \in Frames /\ level[Q(k)] = k
  BY WayLevels
<1>3. 1 \in Good
  OBVIOUS
<1> HIDE DEF P, Q
<1>4. ASSUME NEW k \in Int, 1 <= k /\ k \in Good
      PROVE  k + 1 \in Good
  <2> SUFFICES ASSUME k + 1 <= Levels
               PROVE  /\ P(k + 1) # 0 /\ P(k + 1) = Q(k + 1)
                      /\ \A l \in 2 .. k + 1 : Index(p, l) = Index(q, l)
    OBVIOUS
  <2>1. k \in 1 .. Levels - 1 /\ k + 1 \in 1 .. Levels /\ k + 1 > 1
    BY <1>1, <1>4
  <2>2. P(k) # 0 /\ P(k) = Q(k) /\ \A l \in 2 .. k : Index(p, l) = Index(q, l)
    BY <1>1, <1>4, <2>1
  <2>3. P(k) = Hanging(p, k + 1, P(k + 1)) /\ Q(k) = Hanging(q, k + 1, Q(k + 1))
    BY <1>1, <2>1 DEF Way, P, Q
  <2> DEFINE i == Index(p, k + 1)
             j == Index(q, k + 1)
             a == <<P(k + 1), i>>
             b == <<Q(k + 1), j>>
  <2>4. i \in Indices /\ j \in Indices
    BY <2>1, IndexInTable
  <2>5. /\ P(k + 1) # 0 /\ content[P(k + 1)][i].present
        /\ P(k) = content[P(k + 1)][i].frame
        /\ Q(k + 1) # 0 /\ content[Q(k + 1)][j].present
        /\ Q(k) = content[Q(k + 1)][j].frame
    BY <2>2, <2>3 DEF Hanging
  <2>6. /\ P(k + 1) \in Frames /\ level[P(k + 1)] = k + 1
        /\ Q(k + 1) \in Frames /\ level[Q(k + 1)] = k + 1
    BY <1>2, <2>1, <2>5
  <2> HIDE DEF i, j
  <2>7. a \in Links /\ b \in Links /\ LinkedTo(a) = P(k) /\ LinkedTo(b) = Q(k)
    BY <2>1, <2>4, <2>5, <2>6 DEF Links, LinkedTo
  <2>8. a = b
    <3> HIDE DEF a, b
    <3> QED
      BY <2>2, <2>7 DEF VirtInv, TablesFormTree, LinksUnique
  <2>9. P(k + 1) = Q(k + 1) /\ i = j
    BY <2>8
  <2>10. \A l \in 2 .. k + 1 : l \in 2 .. k \/ l = k + 1
    BY <2>1
  <2> QED
    BY <2>2, <2>5, <2>9, <2>10 DEF i, j
<1>5. Levels \in Good
  <2> HIDE DEF Good
  <2>1. 1 \in Int /\ \A k \in Int : 1 <= k => k \in Good
    BY <1>3, <1>4, IntervalInduction
  <2> QED
    BY <1>1, <2>1
<1> QED
  BY <1>1, <1>5

\* Every page's walk, in a state the manager can be in.
Ways ==
    \A page \in Nat :
        /\ Way(page)
        /\ \A l \in 1 .. Levels :
              TableAt(page, l) # 0 => level[TableAt(page, l)] = l

LEMMA WaysHold == VirtInv => Ways
  BY WayIs, WayLevels, PhysFrames DEF Ways, VirtInv

LEMMA WaysGoOn == VirtInv' => Ways'
  BY WaysHold, PTL

\* Pages with the same indices take the same way.
LEMMA SameWay ==
    ASSUME Ways, NEW p \in Nat, NEW q \in Nat,
           \A l \in 1 .. Levels : Index(p, l) = Index(q, l)
    PROVE  \A l \in 1 .. Levels : TableAt(p, l) = TableAt(q, l)
<1> DEFINE Good == {l \in Int : TableAt(p, l) = TableAt(q, l)}
<1>1. 1 \in Int /\ Levels \in Int /\ 1 <= Levels
  BY VirtAssumption
<1>2. Way(p) /\ Way(q)
  BY DEF Ways
<1>3. Levels \in Good
  BY <1>1, <1>2 DEF Way
<1>4. ASSUME NEW l \in Int, 1 < l /\ l <= Levels /\ l \in Good
      PROVE  l - 1 \in Good
  <2>1. l - 1 \in 1 .. Levels - 1 /\ (l - 1) + 1 = l /\ l \in 1 .. Levels
    BY <1>1, <1>4
  <2>2. /\ TableAt(p, l - 1) = Hanging(p, l, TableAt(p, l))
        /\ TableAt(q, l - 1) = Hanging(q, l, TableAt(q, l))
    BY <1>2, <2>1 DEF Way
  <2>3. TableAt(p, l) = TableAt(q, l) /\ Index(p, l) = Index(q, l)
    BY <1>4, <2>1
  <2>4. Hanging(p, l, TableAt(p, l)) = Hanging(q, l, TableAt(q, l))
    BY <2>3, Zenon DEF Hanging
  <2> QED
    BY <2>1, <2>2, <2>4
<1>5. \A l \in 1 .. Levels : l \in Good
  <2> HIDE DEF Good
  <2> QED
    BY <1>1, <1>3, <1>4, DownwardInduction
<1> QED
  BY <1>5

-----------------------------------------------------------------------------
\* A step that leaves the root and every table above the last level as they are
\* changes no page's way.
LEMMA WaysKept ==
    ASSUME VirtInv, VirtInv', UNCHANGED kernel_pml4,
           \A f \in Frames : level[f] > 1 => content'[f] = content[f],
           NEW page \in Nat
    PROVE  \A l \in 1 .. Levels : TableAt(page, l)' = TableAt(page, l)
<1> DEFINE Good == {l \in Int : TableAt(page, l)' = TableAt(page, l)}
<1>1. 1 \in Int /\ Levels \in Int /\ 1 <= Levels
  BY VirtAssumption
<1>2. Ways /\ Ways'
  BY WaysHold, WaysGoOn
<1>3. Way(page) /\ Way(page)'
  BY <1>2 DEF Ways
<1>4. Levels \in Good
  BY <1>1, <1>3 DEF Way
<1>5. ASSUME NEW l \in Int, 1 < l /\ l <= Levels /\ l \in Good
      PROVE  l - 1 \in Good
  <2>1. l - 1 \in 1 .. Levels - 1 /\ (l - 1) + 1 = l /\ l \in 1 .. Levels
    BY <1>1, <1>5
  <2> DEFINE t == TableAt(page, l)
             i == Index(page, l)
  <2>2. TableAt(page, l - 1) = Hanging(page, l, t)
    BY <1>3, <2>1 DEF Way
  <2>3. \A k \in 1 .. Levels - 1 :
           TableAt(page, k)' =
              IF TableAt(page, k + 1)' # 0
                    /\ content'[TableAt(page, k + 1)'][Index(page, k + 1)].present
              THEN content'[TableAt(page, k + 1)'][Index(page, k + 1)].frame
              ELSE 0
    BY <1>3 DEF Way, Hanging
  <2>4. TableAt(page, l)' = t /\ t \in Frames /\ (t # 0 => level[t] = l)
    BY <1>2, <1>3, <1>5, <2>1 DEF Ways, Way
  <2>5. t # 0 => content'[t] = content[t]
    BY <1>5, <2>4
  <2>6. TableAt(page, l - 1)' = Hanging(page, l, t)
    BY <2>1, <2>3, <2>4, <2>5 DEF Hanging
  <2> QED
    BY <2>1, <2>2, <2>6
<1>6. \A l \in 1 .. Levels : l \in Good
  <2> HIDE DEF Good
  <2> QED
    BY <1>1, <1>4, <1>5, DownwardInduction
<1> QED
  BY <1>6

LEMMA EntriesKept ==
    ASSUME VirtInv, VirtInv', UNCHANGED tableVars, NEW page \in Nat
    PROVE  /\ \A l \in 1 .. Levels : TableAt(page, l)' = TableAt(page, l)
           /\ PteOf(page)' = PteOf(page)
<1>1. \A l \in 1 .. Levels : TableAt(page, l)' = TableAt(page, l)
  BY WaysKept DEF tableVars
<1>2. 1 \in 1 .. Levels
  BY VirtAssumption
<1> QED
  BY <1>1, <1>2 DEF PteOf, tableVars

-----------------------------------------------------------------------------
(* The page map. *)

\* What a walk has done and is about to do.
OnItsWay ==
    call # NoCall =>
        \A page \in Nat, l \in 1 .. Levels :
            page = call.page /\ l = call.level => TableAt(page, l) = call.table

Establishes == \E f \in Frames, nx \in BOOLEAN : call.entry = Present(f, nx)

FindsPresent == \A page \in Nat : page = call.page => PteOf(page).present

WalkInv ==
    /\ OnItsWay
    /\ call.op = "map" => Establishes
    /\ call.op = "unmap" => call.entry = Empty
    /\ call.op = "evict" => FindsPresent

\* The map of all pages.
EntryMap == [s \in Slots |-> PteOf(s)]

LEMMA SlotsAreNat ==
    ASSUME NEW s \in Slots
    PROVE  s \in Nat
  BY DEF Slots

\* The map stays as it is when every entry does.
LEMMA MapKept ==
    ASSUME \A page \in Nat : PteOf(page)' = PteOf(page)
    PROVE  EntryMap' = EntryMap
<1>1. \A s \in Slots : PteOf(s)' = PteOf(s)
  BY SlotsAreNat
<1> QED
  BY <1>1, Zenon DEF EntryMap

\* The step that starts an operation.
LEMMA WalkBegins ==
    ASSUME VirtInv, VirtInv', UNCHANGED tableVars,
           NEW op, NEW page \in Nat, NEW e,
           call' = Call(op, page, e),
           op = "map" => \E f \in Frames, nx \in BOOLEAN : e = Present(f, nx),
           op = "unmap" => e = Empty,
           op = "evict" => PteOf(page).present
    PROVE  WalkInv' /\ EntryMap' = EntryMap
<1>1. \A p \in Nat : PteOf(p)' = PteOf(p)
  BY EntriesKept
<1>2. EntryMap' = EntryMap
  BY <1>1, MapKept
<1>3. /\ call'.op = op /\ call'.page = page /\ call'.entry = e
      /\ call'.level = Levels /\ call'.table = kernel_pml4
  BY DEF Call
<1>4. OnItsWay'
  <2>1. TableAt(page, Levels)' = kernel_pml4
    BY WaysGoOn DEF Ways, Way, tableVars
  <2> QED
    BY <1>3, <2>1 DEF OnItsWay
<1>5. FindsPresent' \/ op # "evict"
  BY <1>1, <1>3 DEF FindsPresent
<1> QED
  BY <1>2, <1>3, <1>4, <1>5 DEF WalkInv, Establishes

\* And one that ends it without touching a table.
LEMMA WalkEnds ==
    ASSUME VirtInv, VirtInv', UNCHANGED tableVars, call' = NoCall
    PROVE  WalkInv' /\ EntryMap' = EntryMap
<1>1. \A p \in Nat : PteOf(p)' = PteOf(p)
  BY EntriesKept
<1>2. call'.op = "none"
  BY DEF NoCall
<1> QED
  BY <1>1, <1>2, MapKept DEF WalkInv, OnItsWay

\* And one that has nothing to do with it.
LEMMA WalkRests ==
    ASSUME VirtInv, VirtInv', WalkInv, UNCHANGED tableVars, UNCHANGED call
    PROVE  WalkInv' /\ EntryMap' = EntryMap
<1>1. \A p \in Nat : /\ \A l \in 1 .. Levels : TableAt(p, l)' = TableAt(p, l)
                     /\ PteOf(p)' = PteOf(p)
  BY EntriesKept
<1>2. OnItsWay'
  BY <1>1 DEF WalkInv, OnItsWay
<1>3. FindsPresent' \/ call.op # "evict"
  BY <1>1 DEF WalkInv, FindsPresent
<1> QED
  BY <1>1, <1>2, <1>3, MapKept DEF WalkInv, Establishes

\* Before there is a table nothing is mapped.
LEMMA NothingMapped ==
    ASSUME VirtInv, \A f \in Frames : level[f] = 0, NEW page \in Nat
    PROVE  PteOf(page) = Empty
<1>1. 1 \in 1 .. Levels
  BY VirtAssumption
<1>2. TableAt(page, 1) = 0
  BY <1>1, WaysHold DEF Ways, Way
<1> QED
  BY <1>2 DEF PteOf

\* vmm_init makes a root without entries.
LEMMA VmmInitMap ==
    ASSUME VirtInv, VirtInv', VmmInit
    PROVE  WalkInv' /\ EntryMap' = EntryMap
<1>1. call' = NoCall /\ \A f \in Frames : level[f] = 0
  BY DEF VmmInit, Idle, VirtInv
<1>2. CASE UNCHANGED tableVars
  BY <1>1, <1>2, WalkEnds
<1>3. ASSUME NEW f \in held' \ held,
             content' = [content EXCEPT ![f] = NewTable],
             level' = [level EXCEPT ![f] = Levels]
      PROVE  WalkInv' /\ EntryMap' = EntryMap
  <2>1. f \in Frames
    BY AllocIsFresh DEF VirtInv, VmmInit
  <2>2. /\ content'[f] = NewTable
        /\ \A g \in Frames : g # f => level'[g] = 0
    BY <1>1, <1>3, <2>1 DEF VirtInv, VirtTypeOK
  <2>3. ASSUME NEW page \in Nat PROVE PteOf(page)' = PteOf(page)
    <3>1. 1 \in 1 .. Levels
      BY VirtAssumption
    <3>2. /\ TableAt(page, 1)' \in Frames
          /\ TableAt(page, 1)' # 0 => level'[TableAt(page, 1)'] = 1
      BY <3>1, WaysGoOn DEF Ways, Way
    <3>3. TableAt(page, 1)' = 0 \/ TableAt(page, 1)' = f
      BY <2>2, <3>2
    <3>4. Index(page, 1) \in Indices
      BY <3>1, IndexInTable
    <3>5. PteOf(page)' = Empty
      BY <2>2, <3>3, <3>4 DEF PteOf, NewTable
    <3> QED
      BY <1>1, <3>5, NothingMapped
  <2>4. call'.op = "none"
    BY <1>1 DEF NoCall
  <2> QED
    BY <1>1, <2>3, <2>4, MapKept DEF WalkInv, OnItsWay
<1> QED
  BY <1>2, <1>3 DEF VmmInit

-----------------------------------------------------------------------------
\* One level down along a present entry.
LEMMA DescendMap ==
    ASSUME VirtInv, VirtInv', WalkInv, call # NoCall, Descend
    PROVE  WalkInv' /\ EntryMap' = EntryMap
<1>1. \A p \in Nat : /\ \A l \in 1 .. Levels : TableAt(p, l)' = TableAt(p, l)
                     /\ PteOf(p)' = PteOf(p)
  BY EntriesKept DEF Descend
<1>2. /\ call'.op = call.op /\ call'.page = call.page /\ call'.entry = call.entry
      /\ call'.level = call.level - 1 /\ call'.table = Here.frame
  BY DEF Descend, VirtInv, VirtTypeOK
<1>3. /\ call.table \in Frames /\ call.page \in Nat /\ level[call.table] = call.level
      /\ call.level - 1 \in 1 .. Levels - 1 /\ (call.level - 1) + 1 = call.level
      /\ call.level \in 1 .. Levels /\ call.level - 1 \in 1 .. Levels
  BY WalkPlace, VirtAssumption DEF Descend
<1>4. call.table # 0
  <2>1. level[0] = 0 \/ 0 \notin Frames
    <3>1. 0 \in Frames => level[0] \in 0 .. Levels
      BY DEF VirtInv, VirtTypeOK
    <3>2. 0 \notin held
      BY SizesAssumption DEF VirtInv, PhysInv, Scanned
    <3> QED
      BY <3>1, <3>2, VirtAssumption DEF VirtInv, TablesFormTree, TablesHeld
  <2> QED
    BY <1>3, <2>1
<1>5. TableAt(call.page, call.level - 1) = Here.frame
  <2>1. TableAt(call.page, call.level) = call.table
    BY <1>3 DEF WalkInv, OnItsWay
  <2>2. \A l \in 1 .. Levels - 1 : TableAt(call.page, l) =
           Hanging(call.page, l + 1, TableAt(call.page, l + 1))
    BY <1>3, WaysHold DEF Ways, Way
  <2>3. TableAt(call.page, call.level - 1) =
           Hanging(call.page, call.level, call.table)
    BY <1>3, <2>1, <2>2
  <2> QED
    BY <1>4, <2>3 DEF Hanging, Here, Descend
<1>6. OnItsWay'
  <2> SUFFICES ASSUME NEW page \in Nat, NEW l \in 1 .. Levels,
                      page = call.page, l = call.level - 1
               PROVE  TableAt(page, l)' = Here.frame
    BY <1>2 DEF OnItsWay
  <2>1. TableAt(page, l) = Here.frame
    BY <1>5
  <2> QED
    BY <1>1, <2>1
<1>7. FindsPresent' \/ call.op # "evict"
  BY <1>1, <1>2 DEF WalkInv, FindsPresent
<1> QED
  BY <1>1, <1>2, <1>6, <1>7, MapKept DEF WalkInv, Establishes

\* What CreateTable does to memory.
LEMMA TableCreated ==
    ASSUME VirtInv, CreateTable
    PROVE  \E f \in held' \ held :
             /\ f \in Frames /\ f # 0 /\ level[f] = 0
             /\ call' = [call EXCEPT !.level = @ - 1, !.table = f]
             /\ \A g \in Frames : \A i \in Indices :
                   content'[g][i] =
                      IF g = f THEN Empty
                      ELSE IF g = call.table /\ i = Index(call.page, call.level)
                      THEN Present(f, FALSE)
                      ELSE content[g][i]
<1> DEFINE t == call.table
           j == Index(call.page, call.level)
<1>1. PICK f \in held' \ held :
        /\ content' = [content EXCEPT ![f] = NewTable,
                                      ![t][j] = Present(f, FALSE)]
        /\ call' = [call EXCEPT !.level = @ - 1, !.table = f]
  BY DEF CreateTable
<1>2. f \in Frames /\ f # 0 /\ f \notin held
  BY AllocIsFresh DEF CreateTable, VirtInv
<1>3. level[f] = 0
  <2>1. level[f] \in 0 .. Levels
    BY <1>2 DEF VirtInv, VirtTypeOK
  <2> QED
    BY <1>2, <2>1 DEF VirtInv, TablesFormTree, TablesHeld
<1>4. t \in Frames /\ j \in Indices /\ t # f
  BY <1>2, WalkPlace DEF CreateTable, NoCall
<1>5. \A g \in Frames : \A i \in Indices :
         content'[g][i] = IF g = f THEN Empty
                          ELSE IF g = t /\ i = j THEN Present(f, FALSE)
                          ELSE content[g][i]
  BY <1>1, <1>2, <1>4 DEF VirtInv, VirtTypeOK, Table, NewTable
<1> QED
  BY <1>1, <1>2, <1>3, <1>5

\* The new table is on the way of some pages, at the end of it, and has no entry.
LEMMA CreateTableMap ==
    ASSUME VirtInv, VirtInv', WalkInv, CreateTable, UNCHANGED <<boot, mapped, swap_used>>
    PROVE  WalkInv' /\ EntryMap' = EntryMap
<1> DEFINE t == call.table
           j == Index(call.page, call.level)
           k == call.level - 1
<1>0. call # NoCall /\ call.level > 1 /\ ~ content[t][j].present /\ call.op = "map"
  BY DEF CreateTable, NoCall, Here
<1>1. PICK f \in held' \ held :
         /\ f \in Frames /\ f # 0 /\ level[f] = 0
         /\ call' = [call EXCEPT !.level = @ - 1, !.table = f]
         /\ \A g \in Frames : \A i \in Indices :
               content'[g][i] = IF g = f THEN Empty
                                ELSE IF g = t /\ i = j THEN Present(f, FALSE)
                                ELSE content[g][i]
  BY TableCreated
<1>2. /\ t \in Frames /\ call.page \in Nat /\ level[t] = call.level /\ j \in Indices
      /\ k \in 1 .. Levels - 1 /\ k + 1 = call.level
      /\ call.level \in 1 .. Levels /\ k \in 1 .. Levels /\ t # 0 /\ t # f
  <2>1. t \in Frames /\ call.page \in Nat /\ level[t] = call.level /\ j \in Indices
        /\ call.level \in 1 .. Levels /\ t \in held
    BY <1>0, WalkPlace
  <2>2. t # 0
    BY <2>1, SizesAssumption DEF VirtInv, PhysInv, Scanned
  <2> QED
    BY <1>0, <1>1, <2>1, <2>2, VirtAssumption
<1>3. /\ call'.op = call.op /\ call'.page = call.page /\ call'.entry = call.entry
      /\ call'.level = k /\ call'.table = f
  BY <1>1 DEF VirtInv, VirtTypeOK
<1>4. Ways /\ Ways' /\ 1 \in Int /\ Levels \in Int /\ 1 <= Levels
  BY WaysHold, WaysGoOn, VirtAssumption
<1>5. kernel_pml4' = kernel_pml4
  BY DEF CreateTable
<1>6. Present(f, FALSE).present /\ Present(f, FALSE).frame = f /\ ~ Empty.present
  BY <1>1, EntryTypes
<1> HIDE DEF t, j, k
<1>7. ASSUME NEW p \in Nat
      PROVE  \A l \in 1 .. Levels :
                \/ TableAt(p, l)' = TableAt(p, l)
                \/ TableAt(p, l) = 0 /\ TableAt(p, l)' = f /\ l = k
  <2> DEFINE Good == {l \in Int :
                       \/ TableAt(p, l)' = TableAt(p, l)
                       \/ TableAt(p, l) = 0 /\ TableAt(p, l)' = f /\ l = k}
  <2>1. Way(p) /\ Way(p)'
    BY <1>4 DEF Ways
  <2>2. Levels \in Good
    BY <1>4, <1>5, <2>1 DEF Way
  <2>3. ASSUME NEW l \in Int, 1 < l /\ l <= Levels /\ l \in Good
        PROVE  l - 1 \in Good
    <3>1. l - 1 \in 1 .. Levels - 1 /\ (l - 1) + 1 = l /\ l \in 1 .. Levels
      BY <1>4, <2>3
    <3> DEFINE u == TableAt(p, l)
               v == TableAt(p, l)'
               i == Index(p, l)
    <3>2. TableAt(p, l - 1) = IF u # 0 /\ content[u][i].present
                              THEN content[u][i].frame ELSE 0
      <4>1. \A m \in 1 .. Levels - 1 :
               TableAt(p, m) = Hanging(p, m + 1, TableAt(p, m + 1))
        BY <2>1 DEF Way
      <4> QED
        BY <3>1, <4>1 DEF Hanging
    <3>3. TableAt(p, l - 1)' = IF v # 0 /\ content'[v][i].present
                               THEN content'[v][i].frame ELSE 0
      <4>1. \A m \in 1 .. Levels - 1 :
               TableAt(p, m)' =
                  IF TableAt(p, m + 1)' # 0
                        /\ content'[TableAt(p, m + 1)'][Index(p, m + 1)].present
                  THEN content'[TableAt(p, m + 1)'][Index(p, m + 1)].frame
                  ELSE 0
        BY <2>1 DEF Way, Hanging
      <4> QED
        BY <3>1, <4>1
    <3>4. u \in Frames /\ (u # 0 => level[u] = l) /\ i \in Indices
      BY <1>4, <2>1, <3>1, IndexInTable DEF Ways, Way
    <3>5. v = u \/ (u = 0 /\ v = f)
      BY <2>3
    <3> HIDE DEF u, v, i
    <3>6. CASE v = f /\ u # f
      <4>1. u = 0 /\ TableAt(p, l - 1) = 0
        BY <3>2, <3>5, <3>6
      <4>2. content'[v][i] = Empty
        BY <1>1, <3>4, <3>6, Zenon
      <4>3. TableAt(p, l - 1)' = 0
        BY <1>6, <3>3, <4>2
      <4> QED
        BY <4>1, <4>3
    <3>7. u # f
      BY <1>1, <3>1, <3>4
    <3>8. CASE v = u /\ u = 0
      BY <3>2, <3>3, <3>8
    <3>9. CASE v = u /\ u # 0 /\ ~ (u = t /\ i = j)
      <4>1. content'[u][i] = content[u][i]
        BY <1>1, <3>4, <3>7, <3>9, Zenon
      <4> QED
        BY <3>2, <3>3, <3>9, <4>1
    <3>10. CASE v = u /\ u # 0 /\ u = t /\ i = j
      <4>1. l - 1 = k
        BY <1>2, <3>1, <3>4, <3>10
      <4>2. content'[u][i] = Present(f, FALSE)
        BY <1>1, <3>4, <3>7, <3>10, Zenon
      <4>3. TableAt(p, l - 1)' = f
        BY <1>6, <3>3, <3>10, <4>2
      <4>4. TableAt(p, l - 1) = 0
        BY <1>0, <3>2, <3>10 DEF t, j
      <4> QED
        BY <4>1, <4>3, <4>4
    <3> QED
      BY <3>5, <3>6, <3>7, <3>8, <3>9, <3>10
  <2>4. \A l \in 1 .. Levels : l \in Good
    <3> HIDE DEF Good
    <3> QED
      BY <1>4, <2>2, <2>3, DownwardInduction
  <2> QED
    BY <2>4
<1>8. ASSUME NEW p \in Nat PROVE PteOf(p)' = PteOf(p)
  <2> DEFINE u == TableAt(p, 1)
             v == TableAt(p, 1)'
             i == Index(p, 1)
  <2>1. 1 \in 1 .. Levels
    BY <1>4
  <2>2. v = u \/ (u = 0 /\ v = f)
    BY <1>7, <2>1
  <2>3. u \in Frames /\ (u # 0 => level[u] = 1) /\ i \in Indices
    BY <1>4, <2>1, IndexInTable DEF Ways, Way
  <2>4. /\ PteOf(p) = IF u = 0 THEN Empty ELSE content[u][i]
        /\ PteOf(p)' = IF v = 0 THEN Empty ELSE content'[v][i]
    BY DEF PteOf
  <2> HIDE DEF u, v, i
  <2>5. CASE v = u /\ u # 0
    <3>1. u # f /\ u # t
      <4>1. level[t] > 1
        BY <1>0, <1>2
      <4> QED
        BY <1>1, <2>3, <2>5, <4>1
    <3>2. content'[u][i] = content[u][i]
      BY <1>1, <2>3, <3>1, Zenon
    <3> QED
      BY <2>4, <2>5, <3>2
  <2>6. CASE v = u /\ u = 0
    BY <2>4, <2>6
  <2>7. CASE u = 0 /\ v = f
    <3>1. content'[v][i] = Empty
      BY <1>1, <2>3, <2>7, Zenon
    <3> QED
      BY <2>4, <2>7, <3>1
  <2> QED
    BY <2>2, <2>5, <2>6, <2>7
<1>9. OnItsWay'
  <2> SUFFICES ASSUME NEW page \in Nat, NEW l \in 1 .. Levels, page = call.page, l = k
               PROVE  TableAt(page, l)' = f
    BY <1>3 DEF OnItsWay
  <2>1. TableAt(page, l + 1) = t
    BY <1>0, <1>2 DEF WalkInv, OnItsWay, t
  <2>2. TableAt(page, l + 1)' = t
    <3>1. \/ TableAt(page, l + 1)' = TableAt(page, l + 1)
          \/ TableAt(page, l + 1) = 0
      BY <1>2, <1>7
    <3> QED
      BY <1>2, <2>1, <3>1
  <2>3. \A m \in 1 .. Levels - 1 :
           TableAt(page, m)' =
              IF TableAt(page, m + 1)' # 0
                    /\ content'[TableAt(page, m + 1)'][Index(page, m + 1)].present
              THEN content'[TableAt(page, m + 1)'][Index(page, m + 1)].frame
              ELSE 0
    <3>1. Way(page)'
      BY <1>4 DEF Ways
    <3> QED
      BY <3>1 DEF Way, Hanging
  <2>4. Index(page, l + 1) = j
    BY <1>2 DEF j
  <2>5. content'[t][j] = Present(f, FALSE)
    BY <1>1, <1>2, Zenon
  <2> QED
    BY <1>2, <1>6, <2>2, <2>3, <2>4, <2>5
<1> QED
  BY <1>0, <1>3, <1>8, <1>9, MapKept DEF WalkInv, Establishes

-----------------------------------------------------------------------------
\* What is written at the end of a walk is entered for the walk's page.
LEMMA EntrySet ==
    ASSUME VirtInv, VirtInv', WalkInv, call # NoCall, call.level = 1, call' = NoCall,
           UNCHANGED <<kernel_pml4, level>>, NEW e \in Entry, WriteHere(e)
    PROVE  /\ WalkInv'
           /\ SlotOf(call.page) \in Slots
           /\ EntryMap[SlotOf(call.page)] = Here
           /\ EntryMap' = [EntryMap EXCEPT ![SlotOf(call.page)] = e]
<1> DEFINE page == call.page
           t == call.table
           j == Index(page, 1)
           slot == SlotOf(page)
<1>1. /\ t \in Frames /\ page \in Nat /\ level[t] = 1 /\ j \in Indices /\ t \in held
      /\ 1 \in 1 .. Levels
  BY WalkPlace
<1>2. t # 0
  BY <1>1, SizesAssumption DEF VirtInv, PhysInv, Scanned
<1>3. /\ TableAt(page, 1) = t
      /\ Here = content[t][j]
  BY <1>1 DEF WalkInv, OnItsWay, Here
<1>4. \A g \in Frames : \A i \in Indices :
         content'[g][i] = IF g = t /\ i = j THEN e ELSE content[g][i]
  BY <1>1 DEF WriteHere, VirtInv, VirtTypeOK, Table
<1>5. ASSUME NEW g \in Frames, level[g] > 1 PROVE content'[g] = content[g]
  <2>1. g # t
    BY <1>1, <1>5
  <2> QED
    BY <1>1, <2>1 DEF WriteHere, VirtInv, VirtTypeOK
<1>6. /\ slot \in Slots /\ slot \in Nat
      /\ \A l \in 1 .. Levels : Index(slot, l) = Index(page, l)
  BY <1>1, SlotIs, SlotsAreNat
<1> HIDE DEF page, t, j, slot
<1>7. TableAt(slot, 1) = t
  BY <1>1, <1>3, <1>6, WaysHold, SameWay
<1>8. PteOf(slot) = Here
  <2>1. Index(slot, 1) = j
    BY <1>1, <1>6 DEF j
  <2> QED
    BY <1>2, <1>3, <1>7, <2>1 DEF PteOf
<1>9. ASSUME NEW s \in Slots
      PROVE  PteOf(s)' = IF s = slot THEN e ELSE PteOf(s)
  <2>1. s \in Nat
    BY SlotsAreNat
  <2> DEFINE u == TableAt(s, 1)
             i == Index(s, 1)
  <2>2. TableAt(s, 1)' = u
    BY <1>1, <1>5, <2>1, WaysKept
  <2>3. u \in Frames /\ i \in Indices
    BY <1>1, <2>1, WaysHold, IndexInTable DEF Ways, Way
  <2>4. /\ PteOf(s) = IF u = 0 THEN Empty ELSE content[u][i]
        /\ PteOf(s)' = IF u = 0 THEN Empty ELSE content'[u][i]
    BY <2>2 DEF PteOf
  <2>5. CASE u = t /\ i = j
    <3>1. \A l \in 2 .. Levels : Index(s, l) = Index(page, l)
      BY <1>1, <1>2, <1>3, <2>1, <2>5, WaysMeet
    <3>2. \A l \in 1 .. Levels : l = 1 \/ l \in 2 .. Levels
      OBVIOUS
    <3>3. \A l \in 1 .. Levels : Index(s, l) = Index(page, l)
      BY <2>5, <3>1, <3>2 DEF j
    <3>4. s = slot
      BY <1>1, <3>3, SlotsApart DEF slot
    <3>5. content'[u][i] = e
      BY <1>4, <2>3, <2>5, Zenon
    <3> QED
      BY <1>2, <2>4, <2>5, <3>4, <3>5
  <2>6. CASE ~ (u = t /\ i = j)
    <3>1. s # slot
      BY <1>1, <1>6, <1>7, <2>6 DEF j
    <3>2. content'[u][i] = content[u][i]
      BY <1>4, <2>3, <2>6, Zenon
    <3> QED
      BY <2>4, <3>1, <3>2
  <2> QED
    BY <2>5, <2>6
<1>10. EntryMap' = [EntryMap EXCEPT ![slot] = e]
  <2>1. EntryMap' = [s \in Slots |-> PteOf(s)']
    BY DEF EntryMap
  <2>2. [EntryMap EXCEPT ![slot] = e] = [s \in Slots |-> IF s = slot THEN e ELSE PteOf(s)]
    BY <1>6 DEF EntryMap
  <2> QED
    BY <1>9, <2>1, <2>2
<1>11. EntryMap[slot] = Here
  BY <1>6, <1>8 DEF EntryMap
<1>12. WalkInv'
  <2>1. NoCall.op = "none"
    BY DEF NoCall
  <2> QED
    BY <2>1 DEF WalkInv, OnItsWay
<1> QED
  BY <1>6, <1>10, <1>11, <1>12 DEF page, slot

\* What vmm_map and the fault handler enter, and what an eviction leaves.
MapEntries == {Swapped} \cup {Present(f, nx) : f \in Frames, nx \in BOOLEAN}

\* A step of the map: an entry that is accepted, one that is put away, or one removed.
LEMMA MapSteps ==
    ASSUME NEW s \in Slots, NEW e
    PROVE  /\ /\ EntryMap' = [EntryMap EXCEPT ![s] = e]
              /\ \E f \in Frames, nx \in BOOLEAN : e = Present(f, nx)
              => PageTable!MapNext
           /\ /\ EntryMap' = [EntryMap EXCEPT ![s] = Swapped]
              /\ EntryMap[s].present
              => PageTable!MapNext
           /\ /\ EntryMap' = [EntryMap EXCEPT ![s] = Empty]
              /\ EntryMap[s].present
              => PageTable!MapNext
<1>1. ASSUME EntryMap' = [EntryMap EXCEPT ![s] = e],
             NEW f \in Frames, NEW nx \in BOOLEAN, e = Present(f, nx)
      PROVE  PageTable!MapNext
  <2>1. e \in MapEntries
    BY <1>1 DEF MapEntries
  <2>2. e.present
    BY <1>1, EntryTypes
  <2>3. PageTable!Establish(s, e)
    BY <1>1, <2>2 DEF PageTable!Establish, EntryMap
  <2> QED
    BY <2>1, <2>3 DEF PageTable!MapNext, MapEntries
<1>2. ASSUME EntryMap' = [EntryMap EXCEPT ![s] = Swapped], EntryMap[s].present
      PROVE  PageTable!MapNext
  <2>1. Swapped \in MapEntries
    BY DEF MapEntries
  <2>2. ~ Swapped.present /\ Swapped # Empty
    BY DEF Swapped, Empty
  <2>3. PageTable!PutAway(s, Swapped)
    BY <1>2, <2>2 DEF PageTable!PutAway, EntryMap
  <2> QED
    BY <2>1, <2>3 DEF PageTable!MapNext, MapEntries
<1>3. ASSUME EntryMap' = [EntryMap EXCEPT ![s] = Empty], EntryMap[s].present
      PROVE  PageTable!MapNext
  <2>1. PageTable!Remove(s)
    BY <1>3 DEF PageTable!Remove, EntryMap
  <2> QED
    BY <2>1 DEF PageTable!MapNext
<1> QED
  BY <1>1, <1>2, <1>3

\* The end of an operation.
LEMMA AtEntryMap ==
    ASSUME VirtInv, VirtInv', WalkInv, AtEntry
    PROVE  WalkInv' /\ (PageTable!MapNext \/ EntryMap' = EntryMap)
<1>1. /\ call.level = 1 /\ call' = NoCall /\ UNCHANGED <<kernel_pml4, level>>
      /\ call # NoCall /\ call.page \in Nat
  BY WalkPlace DEF AtEntry, NoCall
<1>2. ASSUME UNCHANGED content PROVE WalkInv' /\ EntryMap' = EntryMap
  BY <1>1, <1>2, WalkEnds DEF tableVars
<1>3. CASE SetEntry
  <2>1. CASE UNCHANGED content
    BY <1>2, <2>1
  <2>2. CASE WriteHere(call.entry) /\ call.op = "map"
    <3>1. call.entry \in Entry /\ Establishes
      BY <2>2 DEF VirtInv, VirtTypeOK, WalkInv
    <3> QED
      BY <1>1, <2>2, <3>1, EntrySet, MapSteps DEF Establishes
  <2>3. CASE WriteHere(call.entry) /\ call.op = "unmap" /\ Here.present
    <3>1. call.entry = Empty /\ Empty \in Entry
      BY <2>3, EntryTypes DEF WalkInv
    <3> QED
      BY <1>1, <2>3, <3>1, EntrySet, MapSteps
  <2> QED
    BY <1>3, <2>1, <2>2, <2>3 DEF SetEntry
<1>4. CASE SwapOut
  <2>1. WriteHere(Swapped) /\ Swapped \in Entry /\ call.op = "evict"
    BY <1>4, EntryTypes DEF SwapOut
  <2>2. Here.present
    <3>1. PteOf(call.page).present
      BY <1>1, <2>1 DEF WalkInv, FindsPresent
    <3>2. 1 \in 1 .. Levels
      BY VirtAssumption
    <3>3. TableAt(call.page, 1) = call.table
      BY <1>1, <3>2 DEF WalkInv, OnItsWay
    <3> QED
      BY <1>1, <3>1, <3>3, EntryTypes DEF PteOf, Here
  <2> QED
    BY <1>1, <2>1, <2>2, EntrySet, MapSteps
<1>5. CASE SwapIn
  <2>1. PICK f \in held' \ held : WriteHere(Present(f, FALSE))
    BY <1>5 DEF SwapIn
  <2>2. f \in Frames /\ FALSE \in BOOLEAN
    BY <1>5, AllocIsFresh DEF SwapIn, VirtInv
  <2>3. Present(f, FALSE) \in Entry
    BY <2>2, EntryTypes
  <2> QED
    BY <1>1, <2>1, <2>2, <2>3, EntrySet, MapSteps
<1>6. CASE SwapInHalts
  BY <1>2, <1>6 DEF SwapInHalts
<1> QED
  BY <1>3, <1>4, <1>5, <1>6 DEF AtEntry

\* No other step changes the map.
LEMMA MapStep ==
    ASSUME VirtInv, WalkInv, [VirtNext]_vars
    PROVE  WalkInv' /\ (EntryMap' = EntryMap \/ (AtEntry /\ PageTable!MapNext))
<1>0. VirtInv'
  BY VirtStepInv
<1>1. CASE VmmInit
  BY <1>0, <1>1, VmmInitMap
<1>2. CASE InitMap
  <2>1. CASE UNCHANGED call
    BY <1>0, <1>2, <2>1, WalkRests DEF InitMap
  <2>2. ASSUME NEW p, NEW f, NEW nx, p \in Nat, f \in Frames, nx \in BOOLEAN,
               call' = Call("map", p, Present(f, nx))
        PROVE  WalkInv' /\ EntryMap' = EntryMap
    BY <1>0, <1>2, <2>2, WalkBegins DEF InitMap
  <2>3. /\ IdentityPages \in Nat /\ IdentityPages <= MaxFrames
        /\ DirectPages \in Nat /\ DirectPages <= MaxFrames
        /\ DirectBase \in Nat /\ mapped \in Nat /\ MaxFrames \in Nat
    BY VirtAssumption, SizesAssumption DEF VirtInv, VirtTypeOK
  <2>4. mapped < IdentityPages => mapped \in Frames
    BY <2>3 DEF Frames
  <2>5. mapped \in IdentityPages .. IdentityPages + DirectPages - 1 =>
           /\ mapped - IdentityPages \in Frames
           /\ DirectBase + (mapped - IdentityPages) \in Nat
    BY <2>3 DEF Frames
  <2> QED
    BY <1>2, <2>1, <2>2, <2>3, <2>4, <2>5 DEF InitMap
<1>3. ASSUME NEW page \in Pages,
             \/ \E f \in Targets, nx \in BOOLEAN : VmmMap(page, f, nx)
             \/ VmmUnmap(page) \/ PageFault(page) \/ Evict(page)
      PROVE  WalkInv' /\ EntryMap' = EntryMap
  <2>1. page \in Nat /\ Targets \subseteq Frames
    BY VirtAssumption DEF Frames
  <2>2. ASSUME NEW f \in Targets, NEW nx \in BOOLEAN, VmmMap(page, f, nx)
        PROVE  WalkInv' /\ EntryMap' = EntryMap
    BY <1>0, <2>1, <2>2, WalkBegins DEF VmmMap
  <2>3. CASE VmmUnmap(page)
    BY <1>0, <2>1, <2>3, WalkBegins DEF VmmUnmap
  <2>4. CASE PageFault(page)
    BY <1>0, <2>1, <2>4, WalkBegins DEF PageFault
  <2>5. CASE Evict(page)
    BY <1>0, <2>1, <2>5, WalkBegins DEF Evict
  <2> QED
    BY <1>3, <2>2, <2>3, <2>4, <2>5
<1>4. CASE Walk
  <2>1. CASE Descend
    BY <1>0, <1>4, <2>1, DescendMap DEF Walk
  <2>2. CASE CreateTable
    BY <1>0, <1>4, <2>2, CreateTableMap DEF Walk
  <2>3. CASE WalkFails
    BY <1>0, <2>3, WalkEnds DEF WalkFails
  <2> QED
    BY <1>4, <2>1, <2>2, <2>3 DEF Walk
<1>5. CASE AtEntry
  BY <1>0, <1>5, AtEntryMap
<1>6. CASE Refault
  <2>1. call.page \in Nat
    BY DEF VirtInv, VirtTypeOK
  <2> QED
    BY <1>0, <1>6, <2>1, WalkBegins DEF Refault
<1>7. CASE OthersAlloc
  BY <1>0, <1>7, WalkRests DEF OthersAlloc
<1>8. CASE UNCHANGED vars
  BY <1>0, <1>8, WalkRests DEF vars, tableVars
<1> QED
  BY <1>1, <1>2, <1>3, <1>4, <1>5, <1>6, <1>7, <1>8 DEF VirtNext

LEMMA MapStarts == VirtInit => WalkInv /\ PageTable!MapInit
<1> SUFFICES ASSUME VirtInit PROVE WalkInv /\ PageTable!MapInit
  OBVIOUS
<1>1. VirtInv /\ \A f \in Frames : level[f] = 0
  BY VirtInitInv DEF VirtInit
<1>2. \A s \in Slots : PteOf(s) = Empty
  BY <1>1, NothingMapped, SlotsAreNat
<1>3. call = NoCall /\ NoCall.op = "none"
  BY DEF VirtInit, NoCall
<1> QED
  BY <1>2, <1>3 DEF PageTable!MapInit, WalkInv, OnItsWay

\* Whatever tables it makes, and whether it runs out of frames half way down or not,
\* an operation of memory.c changes the translation of its own page only, in one
\* step, to what it was asked for: to the callers the tables are a map from pages
\* to entries.
THEOREM TablesAreAPageMap == VirtSpec => IsPageMap
<1>1. VirtInit => VirtInv /\ WalkInv /\ PageTable!MapInit
  BY VirtInitInv, MapStarts
<1>2. VirtInv /\ WalkInv /\ [VirtNext]_vars
         => VirtInv' /\ WalkInv' /\ [PageTable!MapNext]_([s \in Slots |-> PteOf(s)])
  BY VirtStepInv, MapStep DEF EntryMap
<1> QED
  BY <1>1, <1>2, PTL DEF VirtSpec, IsPageMap, PageTable!MapSpec

-----------------------------------------------------------------------------
(* Pages in swap. *)

\* There are as many pages in swap as are counted there, or fewer: vmm_map may
\* have been called for one.
SwappedSlots == {s \in Slots : EntryMap[s].swapped}

SwapInv ==
    /\ Cardinality(SwappedSlots) <= swap_used
    /\ swap_used <= SwapCapacity
    /\ call.op = "evict" => swap_used < SwapCapacity

LEMMA SwappedFinite ==
    /\ IsFiniteSet(SwappedSlots) /\ Cardinality(SwappedSlots) \in Nat
<1>1. Span[Levels] * TableSize - 1 \in Int
  BY SpanIs, VirtAssumption DEF PagesBelow
<1>2. IsFiniteSet(Slots)
  BY <1>1, FS_Interval DEF Slots
<1> QED
  BY <1>2, FS_Subset, FS_CardinalityType DEF SwappedSlots

\* Writing an entry changes one page's being in swap.
LEMMA SwappedWritten ==
    ASSUME NEW slot \in Slots, NEW e, EntryMap' = [EntryMap EXCEPT ![slot] = e]
    PROVE  /\ e.swapped => SwappedSlots' = SwappedSlots \cup {slot}
           /\ ~ e.swapped => SwappedSlots' = SwappedSlots \ {slot}
<1>1. \A s \in Slots : EntryMap'[s] = IF s = slot THEN e ELSE EntryMap[s]
  BY DEF EntryMap
<1>2. SwappedSlots' = {s \in Slots : EntryMap'[s].swapped}
  BY DEF SwappedSlots
<1> QED
  BY <1>1, <1>2 DEF SwappedSlots

\* An eviction finds room in swap when it starts, and until it writes its entry.
LEMMA EvictionHasRoom ==
    ASSUME VirtInv, SwapInv, VirtNext \/ UNCHANGED vars, ~ AtEntry
    PROVE  swap_used' = swap_used /\ (call'.op = "evict" => swap_used < SwapCapacity)
<1>1. swap_used' = swap_used
  BY DEF VirtNext, vars, VmmInit, InitMap, VmmMap, VmmUnmap, PageFault, Evict, Walk,
         Refault, OthersAlloc
<1>2. call'.op = call.op \/ call'.op # "evict" \/ swap_used < SwapCapacity
  <2>1. CASE Walk
    <3>1. CASE Descend
      BY <3>1 DEF Descend, VirtInv, VirtTypeOK
    <3>2. CASE CreateTable
      BY <3>2, TableCreated DEF VirtInv, VirtTypeOK
    <3>3. CASE WalkFails
      BY <3>3 DEF WalkFails, NoCall
    <3> QED
      BY <2>1, <3>1, <3>2, <3>3 DEF Walk
  <2>2. CASE InitMap
    <3>1. UNCHANGED call \/ \E page, e : call' = Call("map", page, e)
      BY <2>2 DEF InitMap
    <3> QED
      BY <3>1 DEF Call
  <2>3. ASSUME NEW page \in Pages,
               \/ \E f \in Targets, nx \in BOOLEAN : VmmMap(page, f, nx)
               \/ VmmUnmap(page) \/ PageFault(page) \/ Evict(page)
        PROVE  call'.op # "evict" \/ swap_used < SwapCapacity
    BY <2>3 DEF VmmMap, VmmUnmap, PageFault, Evict, Call
  <2>4. CASE Refault
    BY <2>4 DEF Refault, Call
  <2>5. CASE VmmInit \/ OthersAlloc \/ UNCHANGED vars
    BY <2>5 DEF VmmInit, OthersAlloc, vars
  <2> QED
    BY <2>1, <2>2, <2>3, <2>4, <2>5 DEF VirtNext
<1> QED
  BY <1>1, <1>2 DEF SwapInv

LEMMA SwapStep ==
    ASSUME VirtInv, WalkInv, SwapInv, [VirtNext]_vars
    PROVE  /\ SwapInv'
           /\ AtEntry /\ SwapIn => swap_used' = swap_used - 1
<1>0. /\ VirtInv' /\ swap_used \in Nat
      /\ SwapCapacity \in Nat /\ SwapCapacity < Word /\ Word \in Nat
  BY VirtStepInv, VirtAssumption, SizesAssumption DEF VirtInv, VirtTypeOK
<1>1. CASE ~ AtEntry
  <2>1. SwappedSlots' = SwappedSlots
    BY <1>1, MapStep DEF SwappedSlots
  <2> QED
    BY <1>1, <2>1, EvictionHasRoom DEF SwapInv
<1>2. CASE AtEntry
  <2> DEFINE slot == SlotOf(call.page)
             In == SwappedSlots
             n == Cardinality(In)
  <2>1. /\ call.level = 1 /\ call' = NoCall /\ UNCHANGED <<kernel_pml4, level>>
        /\ call # NoCall /\ call.page \in Nat /\ call'.op = "none"
    BY <1>2, WalkPlace DEF AtEntry, NoCall
  <2>2. ASSUME NEW e \in Entry, WriteHere(e)
        PROVE  /\ slot \in Slots /\ EntryMap[slot] = Here
               /\ e.swapped => In' = In \cup {slot}
               /\ ~ e.swapped => In' = In \ {slot}
    <3>1. /\ slot \in Slots /\ EntryMap[slot] = Here
          /\ EntryMap' = [EntryMap EXCEPT ![slot] = e]
      BY <1>0, <2>1, <2>2, EntrySet
    <3> QED
      BY <3>1, SwappedWritten
  <2>3. ASSUME UNCHANGED content
        PROVE  In' = In
    BY <1>0, <2>1, <2>3, WalkEnds DEF SwappedSlots, tableVars
  <2>4. /\ n \in Nat
        /\ Cardinality(In \cup {slot}) \in Nat /\ Cardinality(In \cup {slot}) <= n + 1
        /\ Cardinality(In \ {slot}) \in Nat /\ Cardinality(In \ {slot}) <= n
        /\ slot \in In => Cardinality(In \ {slot}) = n - 1
    <3>1. IsFiniteSet(In)
      BY SwappedFinite
    <3> HIDE DEF slot, In
    <3>2. n \in Nat
      BY <3>1, FS_CardinalityType
    <3>3. /\ IsFiniteSet(In \cup {slot})
          /\ Cardinality(In \cup {slot}) = IF slot \in In THEN n ELSE n + 1
      BY <3>1, FS_AddElement
    <3>4. /\ IsFiniteSet(In \ {slot})
          /\ Cardinality(In \ {slot}) = IF slot \in In THEN n - 1 ELSE n
      BY <3>1, FS_RemoveElement
    <3>5. Cardinality(In \cup {slot}) \in Nat /\ Cardinality(In \ {slot}) \in Nat
      BY <3>3, <3>4, FS_CardinalityType
    <3> QED
      BY <3>2, <3>3, <3>4, <3>5
  <2>5. n <= swap_used /\ swap_used <= SwapCapacity
    BY DEF SwapInv
  <2>6. ASSUME n' <= swap_used', swap_used' <= SwapCapacity PROVE SwapInv'
    BY <2>1, <2>6 DEF SwapInv
  <2>7. \A f \in Frames, nx \in BOOLEAN :
           Present(f, nx) \in Entry /\ Present(f, nx).swapped = FALSE
    BY EntryTypes DEF Present
  <2> HIDE DEF slot, In, n
  <2>8. CASE SetEntry
    <3>1. swap_used' = swap_used /\ call.op \in {"map", "unmap"}
      BY <2>8 DEF SetEntry
    <3>2. In' = In \/ In' = In \ {slot}
      <4>1. CASE UNCHANGED content
        BY <2>3, <4>1
      <4>2. CASE WriteHere(call.entry)
        <5>1. call.entry \in Entry /\ call.entry.swapped = FALSE
          BY <2>7, <3>1, EntryTypes DEF WalkInv, Establishes, Empty
        <5> QED
          BY <2>2, <4>2, <5>1
      <4> QED
        BY <2>8, <4>1, <4>2 DEF SetEntry
    <3>3. n' <= n
      BY <2>4, <3>2 DEF n
    <3>4. SwapInv'
      BY <1>0, <2>4, <2>5, <2>6, <3>1, <3>2, <3>3 DEF n
    <3> QED
      BY <3>1, <3>4 DEF SwapIn
  <2>9. CASE SwapOut
    <3>1. /\ swap_used' = swap_used + 1 /\ swap_used < SwapCapacity /\ call.op = "evict"
          /\ WriteHere(Swapped)
      BY <2>9 DEF SwapOut, SwapInv
    <3>2. Swapped \in Entry /\ Swapped.swapped
      BY EntryTypes DEF Swapped, Empty
    <3>3. In' = In \cup {slot}
      BY <2>2, <3>1, <3>2
    <3>4. SwapInv'
      BY <1>0, <2>4, <2>5, <2>6, <3>1, <3>3 DEF n
    <3> QED
      BY <3>1, <3>4 DEF SwapIn
  <2>10. CASE SwapIn
    <3>1. PICK f \in held' \ held : WriteHere(Present(f, FALSE))
      BY <2>10 DEF SwapIn
    <3>2. f \in Frames
      BY <2>10, AllocIsFresh DEF SwapIn, VirtInv
    <3>3. Present(f, FALSE) \in Entry /\ ~ Present(f, FALSE).swapped
      BY <2>7, <3>2
    <3>4. slot \in In /\ In' = In \ {slot}
      <4>1. Here.swapped
        BY <2>10 DEF SwapIn
      <4> QED
        BY <2>2, <3>1, <3>3, <4>1 DEF In, SwappedSlots
    <3>5. n' = n - 1 /\ n >= 1
      BY <2>4, <3>4 DEF n
    <3>6. swap_used' = swap_used - 1
      <4>1. swap_used' = Minus(swap_used, 1)
        BY <2>10 DEF SwapIn
      <4> QED
        BY <1>0, <2>4, <2>5, <3>5, <4>1 DEF Minus
    <3> QED
      BY <1>0, <2>4, <2>5, <2>6, <3>5, <3>6
  <2>11. CASE SwapInHalts
    <3>1. swap_used' = swap_used /\ UNCHANGED content /\ held' = held
      BY <2>11 DEF SwapInHalts, physVars
    <3>2. ~ SwapIn
      BY <3>1 DEF SwapIn
    <3>3. n' = n
      BY <2>3, <3>1 DEF n
    <3> QED
      BY <2>5, <2>6, <3>1, <3>2, <3>3
  <2> QED
    BY <1>2, <2>8, <2>9, <2>10, <2>11 DEF AtEntry
<1> QED
  BY <1>1, <1>2

LEMMA SwapStarts == VirtInit => SwapInv
<1> SUFFICES ASSUME VirtInit PROVE SwapInv
  OBVIOUS
<1>1. VirtInv /\ \A f \in Frames : level[f] = 0
  BY VirtInitInv DEF VirtInit
<1>2. \A s \in Slots : PteOf(s) = Empty
  BY <1>1, NothingMapped, SlotsAreNat
<1>3. SwappedSlots = {}
  BY <1>2 DEF SwappedSlots, EntryMap, Empty
<1> QED
  BY <1>3, FS_EmptySet, VirtAssumption DEF VirtInit, SwapInv, NoCall

\* The hardware does not tell a page from its slot.
LEMMA SlotsSame == VirtInv => \A page \in Nat : PteOf(page) = PteOf(SlotOf(page))
<1> SUFFICES ASSUME VirtInv, NEW page \in Nat
             PROVE  PteOf(page) = PteOf(SlotOf(page))
  OBVIOUS
<1>1. /\ SlotOf(page) \in Nat /\ 1 \in 1 .. Levels
      /\ \A l \in 1 .. Levels : Index(SlotOf(page), l) = Index(page, l)
  BY SlotIs, SlotsAreNat, VirtAssumption
<1>2. TableAt(SlotOf(page), 1) = TableAt(page, 1)
  BY <1>1, WaysHold, SameWay
<1> QED
  BY <1>1, <1>2 DEF PteOf

LEMMA SlotsStaySame ==
    VirtInv' => \A page \in Nat : PteOf(page)' = PteOf(SlotOf(page))'
<1>1. VirtInv' => (\A page \in Nat : PteOf(page) = PteOf(SlotOf(page)))'
  BY SlotsSame, PTL
<1> QED
  BY <1>1

\* An access that faulted goes on with its page in memory.
LEMMA FaultEnds ==
    ASSUME VirtInv, WalkInv, SwapInv, [VirtNext]_vars,
           NEW page \in Pages, Faults(page), ~ Faults(page)'
    PROVE  \/ PteOf(page)'.present /\ swap_used' = swap_used - 1
           \/ halted'
<1>1. call # NoCall /\ call.op = "fault" /\ call.page = page /\ page \in Nat
  BY VirtAssumption DEF Faults, NoCall
<1>2. ~ (call'.op = "fault" /\ call'.page = page)
  BY DEF Faults
<1>3. CASE Walk
  <2>1. WalkFails
    BY <1>1, <1>2, <1>3 DEF Walk, Descend, CreateTable, VirtInv, VirtTypeOK
  <2> QED
    BY <1>1, <2>1 DEF WalkFails
<1>4. CASE AtEntry
  <2>1. CASE SwapInHalts
    BY <2>1 DEF SwapInHalts
  <2>2. CASE SwapIn
    <3>1. swap_used' = swap_used - 1
      BY <1>4, <2>2, SwapStep
    <3>2. PICK f \in held' \ held : WriteHere(Present(f, FALSE))
      BY <2>2 DEF SwapIn
    <3>3. f \in Frames
      BY <2>2, AllocIsFresh DEF SwapIn, VirtInv
    <3>4. Present(f, FALSE) \in Entry /\ Present(f, FALSE).present
      BY <3>3, EntryTypes
    <3> DEFINE slot == SlotOf(page)
    <3>5. slot \in Slots /\ EntryMap' = [EntryMap EXCEPT ![slot] = Present(f, FALSE)]
      BY <1>1, <1>4, <3>2, <3>4, VirtStepInv, EntrySet DEF AtEntry
    <3>6. PteOf(slot)' = Present(f, FALSE)
      <4>1. EntryMap'[slot] = Present(f, FALSE)
        BY <3>5 DEF EntryMap
      <4>2. EntryMap'[slot] = PteOf(slot)'
        BY <3>5 DEF EntryMap
      <4> QED
        BY <4>1, <4>2
    <3>7. PteOf(page)' = PteOf(slot)'
      BY <1>1, VirtStepInv, SlotsStaySame
    <3> QED
      BY <3>1, <3>4, <3>6, <3>7
  <2> QED
    BY <1>1, <1>4, <2>1, <2>2 DEF AtEntry, SetEntry, SwapOut
<1>5. CASE Refault
  BY <1>1, <1>2, <1>5 DEF Refault, Call
<1>6. CASE UNCHANGED call
  BY <1>1, <1>2, <1>6
<1> QED
  BY <1>1, <1>3, <1>4, <1>5, <1>6
     DEF VirtNext, vars, VmmInit, InitMap, VmmMap, VmmUnmap, PageFault, Evict,
         OthersAlloc, Idle

\* A page that faults is given a frame and taken off the count of pages in swap,
\* which never wraps below zero, or the page fault handler halts the machine.
THEOREM FaultsEndWell == VirtSpec => FaultsEndMapped
<1>1. VirtInit => VirtInv /\ WalkInv /\ SwapInv
  BY VirtInitInv, MapStarts, SwapStarts
<1>2. VirtInv /\ WalkInv /\ SwapInv /\ [VirtNext]_vars
         => VirtInv' /\ WalkInv' /\ SwapInv'
  BY VirtStepInv, MapStep, SwapStep
<1>3. VirtInv /\ WalkInv /\ SwapInv /\ [VirtNext]_vars
         => [\A page \in Pages : Faults(page) /\ ~ Faults(page)' =>
                \/ PteOf(page)'.present /\ swap_used' = swap_used - 1
                \/ halted']_vars
  BY FaultEnds
<1> QED
  BY <1>1, <1>2, <1>3, PTL DEF VirtSpec, FaultsEndMapped
=============================================================================
