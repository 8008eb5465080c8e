-------------------------- MODULE MemoryStoreProofs --------------------------
(***************************************************************************)
(* Proofs about MemoryStore, for a store, a heap and a drive of any size   *)
(* and for every failure of the drive and every power cut; and, for a      *)
(* drive that keeps what it is told, the safety part of its refinement of  *)
(* DurableLog.                                                             *)
(***************************************************************************)
EXTENDS MemoryStore, Induction, SequenceTheorems, FunctionTheorems

\* The numbers of memories are given out once: none that a file or an entry has
\* is given out again, an unsaved entry is in no file, and the index lists no
\* path twice.
NumbersOnce ==
    /\ \A i \in DOMAIN mem_store : mem_store[i].id < next
    /\ \A q \in Paths : files[q].id < next
    /\ \A i, j \in DOMAIN index : index[i] = index[j] => i = j
    /\ \A i \in DirtyAt(mem_store) : \A q \in Paths : files[q].id # mem_store[i].id

\* The inductive invariant of the store.
StoreInv == StoreTypeOK /\ DirtyCounted /\ NoDuplicates /\ NumbersOnce

-----------------------------------------------------------------------------
LEMMA EntryFacts ==
    ASSUME NEW e \in Entries
    PROVE  /\ e.id \in 1 .. MaxContents /\ e.type \in Types
           /\ e.importance \in 0 .. 255 /\ e.importance \in Nat
           /\ e.dirty \in BOOLEAN
           /\ Record(e) \in Records
  BY DEF Entries, Records, Record

LEMMA RecordFacts ==
    ASSUME NEW r, r \in Records \/ r \in Entries, NEW dirty \in BOOLEAN
    PROVE  /\ Entry(r, dirty) \in Entries
           /\ Entry(r, dirty).id = r.id /\ Entry(r, dirty).dirty = dirty
           /\ Entry(r, dirty).type = r.type
           /\ Entry(r, dirty).importance = r.importance
           /\ r \in Records => Record(Entry(r, dirty)) = r
           /\ r \in Entries => Record(Entry(r, dirty)) = Record(r)
  BY DEF Entries, Records, Record, Entry

LEMMA LoadedFacts ==
    \A rec \in Records : /\ Loaded(rec).type = rec.type /\ ~Loaded(rec).dirty
                         /\ Loaded(rec).importance = rec.importance
                         /\ Record(Loaded(rec)) = rec
  BY RecordFacts DEF Loaded

(* Sequences of entries. *)

\* t is what is left of s, in the order of s.
Thinned(t, s, f) ==
    /\ f \in [DOMAIN t -> DOMAIN s]
    /\ \A i, j \in DOMAIN t : f[i] = f[j] => i = j
    /\ \A i \in DOMAIN t : t[i] = s[f[i]]

LEMMA ShiftDownIs ==
    ASSUME NEW S, NEW s \in Seq(S), NEW i \in DOMAIN s
    PROVE  /\ ShiftDown(s, i) \in Seq(S)
           /\ Len(ShiftDown(s, i)) = Len(s) - 1
           /\ \A j \in 1 .. Len(s) - 1 :
                 ShiftDown(s, i)[j] = IF j < i THEN s[j] ELSE s[j + 1]
<1>1. Len(s) \in Nat \ {0} /\ i \in 1 .. Len(s) /\ \A j \in 1 .. Len(s) : s[j] \in S
  BY LenProperties, ElementOfSeq
<1>2. ShiftDown(s, i) \in [1 .. Len(s) - 1 -> S] /\ Len(s) - 1 \in Nat
  BY <1>1 DEF ShiftDown
<1> QED
  BY <1>1, <1>2 DEF ShiftDown

\* The search of aion_memory_store ends at an entry: among finitely many
\* importances one is the least, and among its positions one is the first.
LEMMA WorstIsEntry ==
    ASSUME NEW s \in Seq(Entries), s # <<>>
    PROVE  /\ Worst(s) \in DOMAIN s
           /\ s[Worst(s)].type = MEM_SEMANTIC =>
                 ~ \E j \in DOMAIN s : /\ s[j].type = MEM_EPISODIC
                                       /\ s[j].importance < 255
<1> DEFINE episodic == {i \in DOMAIN s : /\ s[i].type = MEM_EPISODIC
                                         /\ s[i].importance < 255}
<1>1. DOMAIN s = 1 .. Len(s) /\ Len(s) \in Nat \ {0} /\ \A i \in DOMAIN s : s[i] \in Entries
  BY LenProperties, ElementOfSeq, EmptySeq
<1>2. ASSUME episodic = {}
      PROVE  Worst(s) = 1
  BY <1>2 DEF Worst
<1>3. ASSUME episodic # {}
      PROVE  Worst(s) \in episodic
  <2> DEFINE importances == {s[i].importance : i \in episodic}
  <2>1. ASSUME NEW i \in episodic
        PROVE  s[i].importance \in Nat
    BY <1>1, EntryFacts
  <2>2. PICK least \in importances : \A n \in importances : least <= n
    <3>1. importances \in SUBSET Nat /\ importances # {}
      BY <1>3, <2>1
    <3> HIDE DEF importances
    <3> QED
      BY <3>1, LeastNatural
  <2> DEFINE leasts == {i \in episodic : s[i].importance = least}
  <2>3. leasts \in SUBSET Nat /\ leasts # {}
    BY <1>1, <2>2
  <2>4. PICK first \in leasts : \A i \in leasts : first <= i
    <3> HIDE DEF leasts
    <3> QED
      BY <2>3, LeastNatural
  <2>5. ASSUME NEW j \in episodic
        PROVE  \/ s[first].importance < s[j].importance
               \/ s[first].importance = s[j].importance /\ first <= j
    <3>1. s[first].importance = least /\ least <= s[j].importance
      BY <2>2, <2>4
    <3>2. s[j].importance \in Nat /\ least \in Nat
      BY <2>1, <2>2
    <3> QED
      BY <2>4, <3>1, <3>2
  <2>6. first \in episodic
    BY <2>4
  <2> QED
    BY <1>3, <2>5, <2>6 DEF Worst
<1> QED
  BY <1>1, <1>2, <1>3 DEF MEM_SEMANTIC, MEM_EPISODIC

\* An eviction leaves room for one entry, and of each other entry it leaves one.
LEMMA EvictIs ==
    ASSUME NEW s \in Seq(Entries), Len(s) <= MaxMemories
    PROVE  /\ Evict(s) \in Seq(Entries)
           /\ Len(Evict(s)) < MaxMemories
           /\ \E f : Thinned(Evict(s), s, f)
<1>1. DOMAIN s = 1 .. Len(s) /\ Len(s) \in Nat
  BY LenProperties
<1>2. CASE Len(s) < MaxMemories
  <2>1. Evict(s) = s
    BY <1>1, <1>2, StoreAssumption DEF Evict
  <2>2. Thinned(s, s, [i \in DOMAIN s |-> i])
    BY DEF Thinned
  <2> QED
    BY <1>2, <2>1, <2>2
<1>3. CASE Len(s) >= MaxMemories
  <2> DEFINE w == Worst(s)
             f == [i \in 1 .. Len(s) - 1 |-> IF i < w THEN i ELSE i + 1]
  <2>1. w \in DOMAIN s
    BY <1>1, <1>3, WorstIsEntry, StoreAssumption
  <2>2. Evict(s) = ShiftDown(s, w)
    BY <1>3 DEF Evict
  <2>3. /\ Evict(s) \in Seq(Entries) /\ Len(Evict(s)) = Len(s) - 1
        /\ \A j \in 1 .. Len(s) - 1 : Evict(s)[j] = IF j < w THEN s[j] ELSE s[j + 1]
    BY <2>1, <2>2, ShiftDownIs
  <2>4. DOMAIN Evict(s) = 1 .. Len(s) - 1
    BY <2>3, LenProperties
  <2> HIDE DEF w
  <2>5. Thinned(Evict(s), s, f)
    BY <1>1, <2>1, <2>3, <2>4 DEF Thinned
  <2>6. \E g : Thinned(Evict(s), s, g)
    BY <2>5
  <2>7. Len(s) - 1 < MaxMemories
    BY <1>1, StoreAssumption
  <2> QED
    BY <2>3, <2>6, <2>7
<1> QED
  BY <1>1, <1>2, <1>3, StoreAssumption

LEMMA DirtyFinite ==
    ASSUME NEW s \in Seq(Entries)
    PROVE  IsFiniteSet(DirtyAt(s)) /\ Cardinality(DirtyAt(s)) \in Nat
<1>1. DOMAIN s = 1 .. Len(s) /\ Len(s) \in Nat
  BY LenProperties
<1>2. IsFiniteSet(DOMAIN s)
  BY <1>1, FS_Interval
<1>3. DirtyAt(s) \in SUBSET DOMAIN s
  BY DEF DirtyAt
<1> QED
  BY <1>2, <1>3, FS_Subset, FS_CardinalityType

\* What is left has no more unsaved entries than there were.
LEMMA ThinnedDirty ==
    ASSUME NEW s \in Seq(Entries), NEW t \in Seq(Entries), NEW f, Thinned(t, s, f)
    PROVE  Cardinality(DirtyAt(t)) <= Cardinality(DirtyAt(s))
<1> DEFINE g == [i \in DirtyAt(t) |-> f[i]]
<1>1. g \in [DirtyAt(t) -> DirtyAt(s)]
  BY DEF Thinned, DirtyAt
<1>2. \A i, j \in DirtyAt(t) : g[i] = g[j] => i = j
  BY DEF Thinned, DirtyAt
<1> HIDE DEF g
<1>3. g \in Injection(DirtyAt(t), DirtyAt(s))
  BY <1>1, <1>2, Fun_IsInj
<1> QED
  BY <1>3, DirtyFinite, FS_Injection

LEMMA AppendDirty ==
    ASSUME NEW s \in Seq(Entries), NEW e \in Entries
    PROVE  /\ DirtyAt(Append(s, e)) \subseteq DirtyAt(s) \cup {Len(s) + 1}
           /\ Cardinality(DirtyAt(Append(s, e))) <= Cardinality(DirtyAt(s)) + 1
<1>1. DOMAIN s = 1 .. Len(s) /\ Len(s) \in Nat
  BY LenProperties
<1>2. /\ Append(s, e) \in Seq(Entries) /\ Len(Append(s, e)) = Len(s) + 1
      /\ \A i \in 1 .. Len(s) : Append(s, e)[i] = s[i]
  BY AppendProperties
<1>3. DOMAIN Append(s, e) = 1 .. Len(s) + 1
  BY <1>2, LenProperties
<1>4. DirtyAt(Append(s, e)) \subseteq DirtyAt(s) \cup {Len(s) + 1}
  BY <1>1, <1>2, <1>3 DEF DirtyAt
<1>5. /\ IsFiniteSet(DirtyAt(s) \cup {Len(s) + 1})
      /\ Cardinality(DirtyAt(s) \cup {Len(s) + 1}) <= Cardinality(DirtyAt(s)) + 1
  BY DirtyFinite, FS_AddElement
<1>6. /\ Cardinality(DirtyAt(Append(s, e))) <= Cardinality(DirtyAt(s) \cup {Len(s) + 1})
      /\ Cardinality(DirtyAt(s) \cup {Len(s) + 1}) \in Nat
  BY <1>4, <1>5, FS_Subset, FS_CardinalityType
<1>7. Cardinality(DirtyAt(Append(s, e))) \in Nat /\ Cardinality(DirtyAt(s)) \in Nat
  BY <1>2, DirtyFinite
<1> QED
  BY <1>4, <1>5, <1>6, <1>7

\* A flush leaves everything of an entry but that it is unsaved.
LEMMA FlushedIs ==
    ASSUME NEW s \in Seq(Entries), NEW i \in DirtyAt(s)
    PROVE  LET t == [s EXCEPT ![i] = Entry(@, FALSE)]
           IN  /\ t \in Seq(Entries) /\ Len(t) = Len(s) /\ DOMAIN t = DOMAIN s
               /\ \A j \in DOMAIN s : /\ t[j].id = s[j].id
                                      /\ t[j].type = s[j].type
                                      /\ t[j].importance = s[j].importance
                                      /\ Path(t[j], j) = Path(s[j], j)
                                      /\ Record(t[j]) = Record(s[j])
               /\ DirtyAt(t) = DirtyAt(s) \ {i}
<1> DEFINE t == [s EXCEPT ![i] = Entry(@, FALSE)]
<1>1. DOMAIN s = 1 .. Len(s) /\ Len(s) \in Nat /\ i \in DOMAIN s /\ s[i] \in Entries
  BY LenProperties, ElementOfSeq DEF DirtyAt
<1>2. /\ Entry(s[i], FALSE) \in Entries /\ Entry(s[i], FALSE).id = s[i].id
      /\ ~Entry(s[i], FALSE).dirty /\ Entry(s[i], FALSE).type = s[i].type
      /\ Entry(s[i], FALSE).importance = s[i].importance
      /\ Record(Entry(s[i], FALSE)) = Record(s[i])
  BY <1>1, RecordFacts
<1>3. /\ t \in Seq(Entries) /\ Len(t) = Len(s)
      /\ \A j \in DOMAIN s : t[j] = IF j = i THEN Entry(s[i], FALSE) ELSE s[j]
  BY <1>1, <1>2, ExceptSeq
<1>4. DOMAIN t = DOMAIN s
  OBVIOUS
<1> HIDE DEF t
<1>5. DirtyAt(t) = DirtyAt(s) \ {i}
  BY <1>1, <1>2, <1>3, <1>4 DEF DirtyAt
<1>6. ASSUME NEW j \in DOMAIN s
      PROVE  /\ t[j].id = s[j].id
             /\ t[j].type = s[j].type
             /\ t[j].importance = s[j].importance
             /\ Path(t[j], j) = Path(s[j], j)
             /\ Record(t[j]) = Record(s[j])
  BY <1>2, <1>3 DEF Path
<1> QED
  BY <1>3, <1>4, <1>5, <1>6 DEF t

-----------------------------------------------------------------------------
(* What load_all takes in. *)

\* The positions taken in can be counted off, and the heap has room for them.
LEMMA KeptIs ==
    ASSUME StoreTypeOK, NEW unread
    PROVE  LET K == Kept(unread)
           IN  /\ K \in SUBSET (1 .. Len(index)) /\ IsFiniteSet(K)
               /\ \A i \in K : files[index[i]] # NoFile
               /\ Cardinality(K) \in 0 .. Len(index)
               /\ Cardinality(K) <= HeapSlots
               /\ \A n \in 1 .. Cardinality(K) : Nth(K, n) \in K
               /\ \A m, n \in 1 .. Cardinality(K) : Nth(K, m) = Nth(K, n) => m = n
<1> DEFINE good == {i \in DOMAIN index : files[index[i]] # NoFile} \ unread
           K == {i \in good : Cardinality({j \in good : j <= i}) <= HeapSlots}
<1>1. Kept(unread) = K
  BY DEF Kept
<1>2. DOMAIN index = 1 .. Len(index) /\ Len(index) \in Nat
  BY LenProperties DEF StoreTypeOK
<1>3. good \in SUBSET (1 .. Len(index)) /\ \A i \in good : files[index[i]] # NoFile
  BY <1>2
<1>4. /\ IsFiniteSet(1 .. Len(index)) /\ Cardinality(1 .. Len(index)) = Len(index)
  <2>1. 1 \in Int /\ Len(index) \in Int
    BY <1>2
  <2>2. /\ IsFiniteSet(1 .. Len(index))
        /\ Cardinality(1 .. Len(index)) = IF 1 > Len(index) THEN 0 ELSE Len(index) - 1 + 1
    BY <2>1, FS_Interval
  <2> QED
    BY <1>2, <2>2
<1>5. IsFiniteSet(good)
  BY <1>3, <1>4, FS_Subset
<1> HIDE DEF good
<1>6. K \in SUBSET (1 .. Len(index)) /\ K \in SUBSET Nat
  <2>1. K \subseteq good
    OBVIOUS
  <2>2. 1 .. Len(index) \subseteq Nat
    BY <1>2
  <2> HIDE DEF K
  <2>3. K \subseteq 1 .. Len(index)
    BY <1>3, <2>1
  <2> QED
    BY <2>2, <2>3
<1> HIDE DEF K
<1>7. IsFiniteSet(K) /\ Cardinality(K) \in 0 .. Len(index)
  <2>1. IsFiniteSet(K) /\ Cardinality(K) <= Len(index)
    BY <1>4, <1>6, FS_Subset
  <2>2. Cardinality(K) \in Nat
    BY <2>1, FS_CardinalityType
  <2> QED
    BY <1>2, <2>1, <2>2
<1>8. \A n \in 1 .. Cardinality(K) :
         Nth(K, n) \in K /\ Cardinality({j \in K : j <= Nth(K, n)}) = n
  BY <1>6, <1>7, MembersCounted DEF Nth
<1>9. Cardinality(K) <= HeapSlots
  <2>1. CASE Cardinality(K) = 0
    BY <2>1, StoreAssumption
  <2>2. CASE Cardinality(K) # 0
    <3> DEFINE last == Nth(K, Cardinality(K))
    <3>1. Cardinality(K) \in 1 .. Cardinality(K)
      BY <1>7, <2>2
    <3>2. last \in K /\ Cardinality({j \in K : j <= last}) = Cardinality(K)
      BY <1>8, <3>1
    <3> HIDE DEF last
    <3>3. {j \in K : j <= last} \subseteq {j \in good : j <= last}
      BY DEF K
    <3>4. IsFiniteSet({j \in good : j <= last})
      BY <1>5, FS_Subset
    <3>5. /\ Cardinality({j \in K : j <= last}) <= Cardinality({j \in good : j <= last})
          /\ Cardinality({j \in good : j <= last}) \in Nat
      BY <3>3, <3>4, FS_Subset, FS_CardinalityType
    <3>6. Cardinality({j \in good : j <= last}) <= HeapSlots
      BY <3>2 DEF K
    <3> QED
      BY <1>7, <3>2, <3>5, <3>6, StoreAssumption
  <2> QED
    BY <2>1, <2>2
<1>10. \A i \in K : files[index[i]] # NoFile
  BY <1>3 DEF K
<1>11. \A m, n \in 1 .. Cardinality(K) : Nth(K, m) = Nth(K, n) => m = n
  BY <1>8
<1> QED
  BY <1>1, <1>6, <1>7, <1>8, <1>9, <1>10, <1>11

\* load_all gives a store of what the files at these positions say, none of it
\* unsaved.
LEMMA LoadAllIs ==
    ASSUME StoreTypeOK, NEW unread
    PROVE  LET K == Kept(unread)
           IN  /\ LoadAll(unread) \in Seq(Entries)
               /\ Len(LoadAll(unread)) = Cardinality(K)
               /\ \A n \in 1 .. Cardinality(K) :
                     /\ LoadAll(unread)[n] = Loaded(files[index[Nth(K, n)]])
                     /\ files[index[Nth(K, n)]] \in Records
                     /\ index[Nth(K, n)] \in Paths
               /\ DirtyAt(LoadAll(unread)) = {}
<1> DEFINE K == Kept(unread)
           L == LoadAll(unread)
           r(n) == files[index[Nth(K, n)]]
<1>1. /\ K \in SUBSET (1 .. Len(index)) /\ Cardinality(K) \in Nat
      /\ \A i \in K : files[index[i]] # NoFile
      /\ \A n \in 1 .. Cardinality(K) : Nth(K, n) \in K
  BY KeptIs
<1>2. ASSUME NEW i \in K
      PROVE  index[i] \in Paths /\ files[index[i]] \in Records
  <2>1. index[i] \in Paths
    BY <1>1, ElementOfSeq DEF StoreTypeOK
  <2> QED
    BY <1>1, <2>1 DEF StoreTypeOK
<1>3. \A n \in 1 .. Cardinality(K) : r(n) \in Records /\ index[Nth(K, n)] \in Paths
  BY <1>1, <1>2
<1>4. \A n \in 1 .. Cardinality(K) : Loaded(r(n)) \in Entries /\ ~Loaded(r(n)).dirty
  BY <1>3, RecordFacts DEF Loaded
<1>5. L = [n \in 1 .. Cardinality(K) |-> Loaded(r(n))]
  BY DEF LoadAll
<1> HIDE DEF L, K
<1>6. L \in Seq(Entries) /\ Len(L) = Cardinality(K)
  BY <1>1, <1>4, <1>5
<1>7. DirtyAt(L) = {}
  BY <1>4, <1>5 DEF DirtyAt
<1> QED
  BY <1>3, <1>5, <1>6, <1>7 DEF L, K

-----------------------------------------------------------------------------
(* The invariant. *)

LEMMA NoDirt == IsFiniteSet({}) /\ Cardinality({}) = 0
  BY FS_EmptySet

LEMMA StoreInitInv == Init => StoreInv
<1> SUFFICES ASSUME Init PROVE StoreInv
  OBVIOUS
<1>1. DOMAIN mem_store = {} /\ DirtyAt(mem_store) = {} /\ DOMAIN index = {}
  BY DEF Init, DirtyAt, NoIndex
<1>2. \A q \in Paths : files[q] = NoFile /\ files[q].id = 0
  BY DEF Init, NoFile
<1>3. StoreTypeOK
  <2>1. files \in [Paths -> Records \cup {NoFile}]
    BY DEF Init
  <2>2. mem_store \in Seq(Entries) /\ Len(mem_store) = 0
    BY DEF Init
  <2>3. index \in Seq(Paths) /\ Len(index) = 0
    BY DEF Init, NoIndex
  <2>4. 0 <= MaxMemories /\ 0 \in 0 .. FlushEvery /\ HeapSlots \in 0 .. HeapSlots
        /\ 1 \in 1 .. MaxContents + 1
    BY StoreAssumption
  <2> QED
    BY <2>1, <2>2, <2>3, <2>4 DEF Init, StoreTypeOK
<1>4. DirtyCounted
  <2>1. Cardinality(DirtyAt(mem_store)) = 0
    BY <1>1, NoDirt
  <2>2. 0 < FlushEvery /\ 0 <= FlushEvery
    BY StoreAssumption
  <2> QED
    BY <2>1, <2>2 DEF Init, DirtyCounted
<1>5. NoDuplicates
  BY <1>1, <1>2 DEF NoDuplicates
<1>6. NumbersOnce
  BY <1>1, <1>2 DEF Init, NumbersOnce
<1> QED
  BY <1>3, <1>4, <1>5, <1>6 DEF StoreInv

\* A boot that loads: the entries come from different files.
LEMMA LoadInv ==
    ASSUME StoreInv, UNCHANGED <<files, index, next>>,
           pc' = "idle", mem_dirty' = 0,
           NEW unread, mem_store' = LoadAll(unread),
           heap_left' = HeapSlots - Cardinality(Kept(unread))
    PROVE  StoreInv'
<1> DEFINE K == Kept(unread)
           r(n) == files[index[Nth(K, n)]]
<1>1. StoreTypeOK
  BY DEF StoreInv
<1>2. /\ K \in SUBSET (1 .. Len(index))
      /\ \A i \in K : files[index[i]] # NoFile
      /\ Cardinality(K) \in 0 .. Len(index) /\ Cardinality(K) <= HeapSlots
      /\ \A n \in 1 .. Cardinality(K) : Nth(K, n) \in K
      /\ \A m, n \in 1 .. Cardinality(K) : Nth(K, m) = Nth(K, n) => m = n
  BY <1>1, KeptIs
<1>3. /\ mem_store' \in Seq(Entries) /\ Len(mem_store') = Cardinality(K)
      /\ \A n \in 1 .. Cardinality(K) : /\ mem_store'[n] = Loaded(r(n))
                                        /\ r(n) \in Records
                                        /\ index[Nth(K, n)] \in Paths
      /\ DirtyAt(mem_store') = {}
  BY <1>1, LoadAllIs
<1> HIDE DEF K
<1>4. DOMAIN mem_store' = 1 .. Cardinality(K)
  BY <1>3, LenProperties
<1>5. DOMAIN index = 1 .. Len(index) /\ Len(index) \in Nat /\ Len(index) <= MaxMemories
  BY <1>1, LenProperties DEF StoreTypeOK
<1>6. \A n \in 1 .. Cardinality(K) : mem_store'[n].id = r(n).id
  BY <1>3, RecordFacts DEF Loaded
<1>7. StoreTypeOK'
  <2>1. Len(mem_store') <= MaxMemories /\ heap_left' \in 0 .. HeapSlots
        /\ mem_dirty' \in 0 .. FlushEvery
    BY <1>2, <1>3, <1>5, StoreAssumption DEF K
  <2> QED
    BY <1>1, <1>3, <2>1 DEF StoreTypeOK
<1>8. DirtyCounted'
  BY <1>3, NoDirt, StoreAssumption DEF DirtyCounted
<1>9. NoDuplicates'
  <2>1. ASSUME NEW m \in 1 .. Cardinality(K), NEW n \in 1 .. Cardinality(K),
               mem_store'[m].id = mem_store'[n].id
        PROVE  m = n
    <3>1. r(m).id = r(n).id /\ r(m) # NoFile
      BY <1>2, <1>6, <2>1
    <3>2. index[Nth(K, m)] = index[Nth(K, n)]
      BY <1>3, <3>1 DEF StoreInv, NoDuplicates
    <3>3. Nth(K, m) = Nth(K, n)
      BY <1>2, <1>5, <3>2 DEF StoreInv, NumbersOnce
    <3> QED
      BY <1>2, <3>3
  <2> QED
    BY <1>4, <2>1 DEF StoreInv, NoDuplicates
<1>10. NumbersOnce'
  <2>1. \A n \in 1 .. Cardinality(K) : mem_store'[n].id < next
    BY <1>3, <1>6 DEF StoreInv, NumbersOnce
  <2> QED
    BY <1>3, <1>4, <2>1 DEF StoreInv, NumbersOnce
<1> QED
  BY <1>7, <1>8, <1>9, <1>10 DEF StoreInv

\* Neither a boot without an index nor a power cut leaves anything in RAM.
LEMMA EmptyInv ==
    ASSUME StoreInv, UNCHANGED <<files, index, next>>,
           pc' \in {"off", "idle"}, mem_dirty' = 0,
           mem_store' = <<>>, heap_left' = HeapSlots
    PROVE  StoreInv'
<1>1. DOMAIN mem_store' = {} /\ DirtyAt(mem_store') = {}
  BY DEF DirtyAt
<1>2. StoreTypeOK'
  <2>1. mem_store' \in Seq(Entries) /\ Len(mem_store') = 0
    OBVIOUS
  <2>2. 0 <= MaxMemories /\ 0 \in 0 .. FlushEvery /\ HeapSlots \in 0 .. HeapSlots
    BY StoreAssumption
  <2> QED
    BY <2>1, <2>2 DEF StoreInv, StoreTypeOK
<1>3. DirtyCounted'
  <2>1. Cardinality(DirtyAt(mem_store')) = 0
    BY <1>1, NoDirt
  <2>2. 0 < FlushEvery /\ 0 <= FlushEvery
    BY StoreAssumption
  <2>3. DirtyAt(mem_store)' = DirtyAt(mem_store')
    BY DEF DirtyAt
  <2> QED
    BY <2>1, <2>2, <2>3 DEF DirtyCounted
<1>4. NoDuplicates'
  BY <1>1 DEF StoreInv, NoDuplicates
<1>5. NumbersOnce'
  BY <1>1 DEF StoreInv, NumbersOnce
<1> QED
  BY <1>2, <1>3, <1>4, <1>5 DEF StoreInv

LEMMA BootInv == StoreInv /\ Boot => StoreInv'
<1> SUFFICES ASSUME StoreInv, Boot PROVE StoreInv'
  OBVIOUS
<1>1. /\ pc' = "idle" /\ mem_dirty' = 0 /\ UNCHANGED <<files, index, next>>
      /\ \/ \E unread : /\ mem_store' = LoadAll(unread)
                        /\ heap_left' = HeapSlots - Cardinality(Kept(unread))
         \/ mem_store' = <<>> /\ heap_left' = HeapSlots
  BY DEF Boot
<1>2. CASE mem_store' = <<>> /\ heap_left' = HeapSlots
  BY <1>1, <1>2, EmptyInv
<1>3. ASSUME NEW unread, mem_store' = LoadAll(unread),
             heap_left' = HeapSlots - Cardinality(Kept(unread))
      PROVE  StoreInv'
  BY <1>1, <1>3, LoadInv
<1> QED
  BY <1>1, <1>2, <1>3

LEMMA CrashInv == StoreInv /\ Crash => StoreInv'
  BY EmptyInv DEF Crash

\* What an eviction leaves is as distinct and as unsaved as it was.
LEMMA EvictKeeps ==
    ASSUME StoreInv
    PROVE  LET E == Evict(mem_store)
           IN  /\ E \in Seq(Entries) /\ Len(E) < MaxMemories
               /\ \A i, j \in DOMAIN E : E[i].id = E[j].id => i = j
               /\ \A i \in DOMAIN E : E[i].id < next
               /\ \A i \in DirtyAt(E) : \A q \in Paths : files[q].id # E[i].id
               /\ Cardinality(DirtyAt(E)) <= Cardinality(DirtyAt(mem_store))
               /\ Cardinality(DirtyAt(E)) \in Nat
<1> DEFINE E == Evict(mem_store)
<1>1. mem_store \in Seq(Entries) /\ Len(mem_store) <= MaxMemories
  BY DEF StoreInv, StoreTypeOK
<1>2. E \in Seq(Entries) /\ Len(E) < MaxMemories /\ \E f : Thinned(E, mem_store, f)
  BY <1>1, EvictIs
<1> HIDE DEF E
<1>3. PICK f : Thinned(E, mem_store, f)
  BY <1>2
<1>4. Cardinality(DirtyAt(E)) <= Cardinality(DirtyAt(mem_store))
  BY <1>1, <1>2, <1>3, ThinnedDirty
<1>5. \A i \in DOMAIN E : /\ f[i] \in DOMAIN mem_store /\ E[i] = mem_store[f[i]]
                          /\ \A j \in DOMAIN E : f[i] = f[j] => i = j
  BY <1>3 DEF Thinned
<1>6. \A i, j \in DOMAIN E : E[i].id = E[j].id => i = j
  BY <1>5 DEF StoreInv, NoDuplicates
<1>7. \A i \in DOMAIN E : E[i].id < next
  BY <1>5 DEF StoreInv, NumbersOnce
<1>8. \A i \in DirtyAt(E) : \A q \in Paths : files[q].id # E[i].id
  BY <1>5 DEF StoreInv, NumbersOnce, DirtyAt
<1> QED
  BY <1>2, <1>4, <1>6, <1>7, <1>8, DirtyFinite DEF E

LEMMA StoreKeepsInv ==
    ASSUME StoreInv, NEW kind \in Kinds, Store(kind)
    PROVE  StoreInv'
<1> DEFINE E == Evict(mem_store)
           e == [id |-> next, type |-> kind[1], importance |-> kind[2], dirty |-> TRUE]
<1>1. /\ E \in Seq(Entries) /\ Len(E) < MaxMemories
      /\ \A i, j \in DOMAIN E : E[i].id = E[j].id => i = j
      /\ \A i \in DOMAIN E : E[i].id < next
      /\ \A i \in DirtyAt(E) : \A q \in Paths : files[q].id # E[i].id
      /\ Cardinality(DirtyAt(E)) <= Cardinality(DirtyAt(mem_store))
      /\ Cardinality(DirtyAt(E)) \in Nat
  BY EvictKeeps
<1>2. /\ mem_store \in Seq(Entries) /\ Cardinality(DirtyAt(mem_store)) \in Nat
      /\ mem_dirty \in 0 .. FlushEvery /\ heap_left \in 0 .. HeapSlots
      /\ next \in 1 .. MaxContents + 1 /\ pc = "idle"
      /\ FlushEvery \in Nat /\ HeapSlots \in Nat /\ MaxContents \in Nat
      /\ MaxMemories \in Nat
  BY DirtyFinite, StoreAssumption DEF StoreInv, StoreTypeOK, Store
<1>3. mem_dirty < FlushEvery /\ Cardinality(DirtyAt(mem_store)) <= mem_dirty
  BY <1>2 DEF StoreInv, DirtyCounted
<1>4. UNCHANGED <<files, index>>
  BY DEF Store
<1>5. DOMAIN E = 1 .. Len(E) /\ Len(E) \in Nat
  BY <1>1, LenProperties
<1> HIDE DEF E
<1>6. CASE /\ heap_left > 0 /\ next <= MaxContents
           /\ mem_store' = Append(E, e)
           /\ mem_dirty' = mem_dirty + 1 /\ heap_left' = heap_left - 1
           /\ next' = next + 1
           /\ pc' = IF mem_dirty' >= FlushEvery THEN "flush" ELSE "idle"
  <2>1. e \in Entries /\ e.id = next
    BY <1>2, <1>6, StoreAssumption DEF Entries
  <2> HIDE DEF e
  <2>2. /\ mem_store' \in Seq(Entries) /\ Len(mem_store') = Len(E) + 1
        /\ \A i \in 1 .. Len(E) : mem_store'[i] = E[i]
        /\ mem_store'[Len(E) + 1] = e
    BY <1>1, <1>6, <2>1, AppendProperties
  <2>3. DOMAIN mem_store' = 1 .. Len(E) + 1
    BY <2>2, LenProperties
  <2>4. /\ DirtyAt(mem_store') \subseteq DirtyAt(E) \cup {Len(E) + 1}
        /\ Cardinality(DirtyAt(mem_store')) <= Cardinality(DirtyAt(E)) + 1
        /\ Cardinality(DirtyAt(mem_store')) \in Nat
    BY <1>1, <1>6, <2>1, <2>2, AppendDirty, DirtyFinite
  <2>5. StoreTypeOK'
    <3>1. /\ Len(mem_store') <= MaxMemories /\ mem_dirty' \in 0 .. FlushEvery
          /\ heap_left' \in 0 .. HeapSlots /\ next' \in 1 .. MaxContents + 1
      BY <1>1, <1>2, <1>3, <1>5, <1>6, <2>2
    <3> QED
      BY <1>4, <1>6, <2>2, <3>1 DEF StoreInv, StoreTypeOK
  <2>6. DirtyCounted'
    <3>1. Cardinality(DirtyAt(mem_store')) <= mem_dirty'
          /\ Cardinality(DirtyAt(mem_store')) <= FlushEvery
      BY <1>1, <1>2, <1>3, <1>6, <2>4
    <3>2. pc' = "idle" => mem_dirty' < FlushEvery
      BY <1>2, <1>6
    <3>3. DirtyAt(mem_store)' = DirtyAt(mem_store')
      BY DEF DirtyAt
    <3> QED
      BY <3>1, <3>2, <3>3 DEF DirtyCounted
  <2>7. NoDuplicates'
    <3>1. ASSUME NEW i \in 1 .. Len(E) + 1, NEW j \in 1 .. Len(E) + 1,
                 mem_store'[i].id = mem_store'[j].id
          PROVE  i = j
      <4>1. \A k \in 1 .. Len(E) : mem_store'[k].id # next
        <5>1. \A k \in 1 .. Len(E) : mem_store'[k].id < next
          BY <1>1, <1>5, <2>2
        <5> QED
          BY <1>2, <5>1
      <4> QED
        BY <1>1, <1>5, <2>1, <2>2, <3>1, <4>1
    <3> QED
      BY <1>4, <2>3, <3>1 DEF StoreInv, NoDuplicates
  <2>8. NumbersOnce'
    <3>1. ASSUME NEW i \in 1 .. Len(E) + 1
          PROVE  mem_store'[i].id < next'
      <4>1. mem_store'[i].id \in 1 .. MaxContents
        BY <2>2, <2>3, ElementOfSeq, EntryFacts
      <4>2. i \in 1 .. Len(E) \/ i = Len(E) + 1
        BY <1>5
      <4>3. mem_store'[i].id < next \/ mem_store'[i].id = next
        BY <1>1, <1>5, <2>1, <2>2, <4>2
      <4> QED
        BY <1>2, <1>6, <4>1, <4>3
    <3>2. ASSUME NEW q \in Paths
          PROVE  files'[q].id < next' /\ files[q].id # next
      <4>1. files[q].id < next
        BY DEF StoreInv, NumbersOnce
      <4>2. files[q].id \in Int
        <5>1. files[q] \in Records \cup {NoFile}
          BY DEF StoreInv, StoreTypeOK
        <5> QED
          BY <1>2, <5>1 DEF Records, NoFile
      <4> QED
        BY <1>2, <1>4, <1>6, <4>1, <4>2
    <3>3. ASSUME NEW i \in DirtyAt(mem_store'), NEW q \in Paths
          PROVE  files'[q].id # mem_store'[i].id
      <4>1. CASE i = Len(E) + 1
        BY <1>4, <2>1, <2>2, <3>2, <4>1
      <4>2. CASE i \in DirtyAt(E)
        <5>1. mem_store'[i] = E[i]
          BY <1>5, <2>2, <4>2 DEF DirtyAt
        <5> QED
          BY <1>1, <1>4, <4>2, <5>1
      <4> QED
        BY <2>4, <4>1, <4>2
    <3>4. \A i, j \in DOMAIN index' : index'[i] = index'[j] => i = j
      BY <1>4 DEF StoreInv, NumbersOnce
    <3>5. DirtyAt(mem_store)' = DirtyAt(mem_store')
      BY DEF DirtyAt
    <3> QED
      BY <2>3, <3>1, <3>2, <3>3, <3>4, <3>5 DEF NumbersOnce
  <2> QED
    BY <2>5, <2>6, <2>7, <2>8 DEF StoreInv
<1>7. CASE mem_store' = E /\ UNCHANGED <<mem_dirty, heap_left, next, pc>>
  <2>1. StoreTypeOK'
    BY <1>1, <1>2, <1>4, <1>5, <1>7 DEF StoreInv, StoreTypeOK
  <2>2. DirtyCounted'
    <3>1. Cardinality(DirtyAt(mem_store')) <= mem_dirty
          /\ Cardinality(DirtyAt(mem_store')) <= FlushEvery
      BY <1>1, <1>2, <1>3, <1>7
    <3>2. DirtyAt(mem_store)' = DirtyAt(mem_store')
      BY DEF DirtyAt
    <3> QED
      BY <1>2, <1>3, <1>7, <3>1, <3>2 DEF DirtyCounted
  <2>3. NoDuplicates'
    BY <1>1, <1>4, <1>7 DEF StoreInv, NoDuplicates
  <2>4. NumbersOnce'
    <3>1. DirtyAt(mem_store)' = DirtyAt(E)
      BY <1>7 DEF DirtyAt
    <3> QED
      BY <1>1, <1>4, <1>7, <3>1 DEF StoreInv, NumbersOnce
  <2> QED
    BY <2>1, <2>2, <2>3, <2>4 DEF StoreInv
<1> QED
  BY <1>6, <1>7 DEF Store, E

LEMMA FlushRecordInv == StoreInv /\ FlushRecord => StoreInv'
<1> SUFFICES ASSUME StoreInv, FlushRecord PROVE StoreInv'
  OBVIOUS
<1>1. PICK i \in DirtyAt(mem_store) :
        /\ mem_store' = [mem_store EXCEPT ![i] = Entry(@, FALSE)]
        /\ \/ files' = [files EXCEPT ![Path(mem_store[i], i)] = Record(mem_store[i])]
           \/ UNCHANGED files
  BY DEF FlushRecord
<1>2. /\ mem_store \in Seq(Entries) /\ pc = "flush" /\ pc' = "flush"
      /\ UNCHANGED <<mem_dirty, heap_left, index, next>>
  BY DEF FlushRecord, StoreInv, StoreTypeOK
<1>3. /\ mem_store' \in Seq(Entries) /\ Len(mem_store') = Len(mem_store)
      /\ DOMAIN mem_store' = DOMAIN mem_store
      /\ \A j \in DOMAIN mem_store : mem_store'[j].id = mem_store[j].id
      /\ DirtyAt(mem_store)' = DirtyAt(mem_store) \ {i}
  <2>1. DirtyAt(mem_store)' = DirtyAt(mem_store')
    BY DEF DirtyAt
  <2> QED
    BY <1>1, <1>2, <2>1, FlushedIs
<1>4. i \in DOMAIN mem_store /\ i \in Positions /\ mem_store[i] \in Entries
  BY <1>2, LenProperties, ElementOfSeq, StoreAssumption
  DEF DirtyAt, StoreInv, StoreTypeOK, Positions
<1> DEFINE here == Path(mem_store[i], i)
           rec == Record(mem_store[i])
<1>5. here \in Paths /\ rec \in Records /\ rec.id = mem_store[i].id
  BY <1>4, EntryFacts DEF Path, Paths, Record
<1> HIDE DEF here, rec
<1>6. files \in [Paths -> Records \cup {NoFile}]
  BY DEF StoreInv, StoreTypeOK
<1>7. /\ files' \in [Paths -> Records \cup {NoFile}]
      /\ \A q \in Paths : files'[q] = files[q] \/ (q = here /\ files'[q] = rec)
  BY <1>1, <1>5, <1>6 DEF here, rec
<1>8. \A q \in Paths : files[q].id # rec.id
  BY <1>5 DEF StoreInv, NumbersOnce
<1>9. StoreTypeOK'
  BY <1>2, <1>3, <1>7 DEF StoreInv, StoreTypeOK
<1>10. DirtyCounted'
  <2>1. Cardinality(DirtyAt(mem_store)') <= Cardinality(DirtyAt(mem_store))
        /\ Cardinality(DirtyAt(mem_store)') \in Nat
    <3>1. DirtyAt(mem_store)' \subseteq DirtyAt(mem_store)
      BY <1>3
    <3> QED
      BY <1>2, <3>1, DirtyFinite, FS_Subset, FS_CardinalityType
  <2>2. Cardinality(DirtyAt(mem_store)) \in Nat /\ FlushEvery \in Nat
    BY <1>2, DirtyFinite, StoreAssumption
  <2>3. Cardinality(DirtyAt(mem_store)) <= FlushEvery
    BY DEF StoreInv, DirtyCounted
  <2>4. Cardinality(DirtyAt(mem_store)') <= FlushEvery
    BY <2>1, <2>2, <2>3
  <2> QED
    BY <1>2, <2>4 DEF DirtyCounted
<1>11. NoDuplicates'
  <2>1. \A j, k \in DOMAIN mem_store' : mem_store'[j].id = mem_store'[k].id => j = k
    BY <1>3 DEF StoreInv, NoDuplicates
  <2>2. ASSUME NEW p \in Paths, NEW q \in Paths,
               files'[p] # NoFile, files'[p].id = files'[q].id
        PROVE  p = q
    <3>1. CASE files'[p] = files[p] /\ files'[q] = files[q]
      BY <2>2, <3>1 DEF StoreInv, NoDuplicates
    <3>2. CASE files'[p] = rec /\ p = here
      BY <1>7, <1>8, <2>2, <3>2
    <3>3. CASE files'[q] = rec /\ q = here
      BY <1>7, <1>8, <2>2, <3>3
    <3> QED
      BY <1>7, <3>1, <3>2, <3>3
  <2> QED
    BY <2>1, <2>2 DEF NoDuplicates
<1>12. NumbersOnce'
  <2>1. \A j \in DOMAIN mem_store' : mem_store'[j].id < next'
    BY <1>2, <1>3 DEF StoreInv, NumbersOnce
  <2>2. \A q \in Paths : files'[q].id < next'
    BY <1>2, <1>4, <1>5, <1>7 DEF StoreInv, NumbersOnce
  <2>3. \A j, k \in DOMAIN index' : index'[j] = index'[k] => j = k
    BY <1>2 DEF StoreInv, NumbersOnce
  <2>4. ASSUME NEW j \in DirtyAt(mem_store) \ {i}, NEW q \in Paths
        PROVE  files'[q].id # mem_store'[j].id
    <3>1. j \in DOMAIN mem_store /\ mem_store'[j].id = mem_store[j].id
      BY <1>3 DEF DirtyAt
    <3>2. mem_store[j].id # rec.id
      BY <1>4, <1>5, <3>1 DEF StoreInv, NoDuplicates
    <3>3. files[q].id # mem_store[j].id
      BY DEF StoreInv, NumbersOnce
    <3> QED
      BY <1>7, <3>1, <3>2, <3>3
  <2> QED
    BY <1>3, <2>1, <2>2, <2>3, <2>4 DEF NumbersOnce
<1> QED
  BY <1>9, <1>10, <1>11, <1>12 DEF StoreInv

LEMMA IndexOfIs ==
    ASSUME StoreTypeOK
    PROVE  /\ IndexOf(mem_store) \in Seq(Paths)
           /\ Len(IndexOf(mem_store)) = Len(mem_store)
           /\ DOMAIN IndexOf(mem_store) = DOMAIN mem_store
           /\ \A i \in DOMAIN mem_store : /\ IndexOf(mem_store)[i] = Path(mem_store[i], i)
                                          /\ IndexOf(mem_store)[i][2] = i
<1>1. /\ DOMAIN mem_store = 1 .. Len(mem_store) /\ Len(mem_store) \in Nat
      /\ \A i \in DOMAIN mem_store : i \in Positions /\ mem_store[i] \in Entries
  BY LenProperties, ElementOfSeq, StoreAssumption DEF StoreTypeOK, Positions
<1>2. \A i \in DOMAIN mem_store : Path(mem_store[i], i) \in Paths
  BY <1>1, EntryFacts DEF Path, Paths
<1> QED
  BY <1>1, <1>2 DEF IndexOf, Path

LEMMA FlushIndexInv == StoreInv /\ FlushIndex => StoreInv'
<1> SUFFICES ASSUME StoreInv, FlushIndex PROVE StoreInv'
  OBVIOUS
<1>1. /\ DirtyAt(mem_store) = {} /\ mem_dirty' = 0 /\ pc' = "idle"
      /\ index' = IndexOf(mem_store) \/ UNCHANGED index
      /\ UNCHANGED <<mem_store, heap_left, files, next>>
  BY DEF FlushIndex
<1>2. StoreTypeOK
  BY DEF StoreInv
<1>3. /\ IndexOf(mem_store) \in Seq(Paths) /\ Len(IndexOf(mem_store)) = Len(mem_store)
      /\ DOMAIN IndexOf(mem_store) = DOMAIN mem_store
      /\ \A i \in DOMAIN mem_store : IndexOf(mem_store)[i][2] = i
  BY <1>2, IndexOfIs
<1>4. 0 \in 0 .. FlushEvery /\ 0 < FlushEvery /\ 0 <= FlushEvery
  BY StoreAssumption
<1>5. StoreTypeOK'
  BY <1>1, <1>2, <1>3, <1>4 DEF StoreTypeOK
<1>6. DirtyCounted'
  <2>1. DirtyAt(mem_store)' = {}
    BY <1>1 DEF DirtyAt
  <2>2. Cardinality(DirtyAt(mem_store)') = 0
    BY <2>1, NoDirt
  <2> QED
    BY <1>1, <1>4, <2>2 DEF DirtyCounted
<1>7. NoDuplicates'
  BY <1>1 DEF StoreInv, NoDuplicates
<1>8. NumbersOnce'
  <2>1. \A i, j \in DOMAIN index' : index'[i] = index'[j] => i = j
    BY <1>1, <1>3 DEF StoreInv, NumbersOnce
  <2>2. DirtyAt(mem_store)' = {}
    BY <1>1 DEF DirtyAt
  <2> QED
    BY <1>1, <2>1, <2>2 DEF StoreInv, NumbersOnce
<1> QED
  BY <1>5, <1>6, <1>7, <1>8 DEF StoreInv

LEMMA StoreStep == StoreInv /\ [Next]_vars => StoreInv'
<1> SUFFICES ASSUME StoreInv, [Next]_vars PROVE StoreInv'
  OBVIOUS
<1>1. CASE UNCHANGED vars
  <2>1. DirtyAt(mem_store)' = DirtyAt(mem_store)
    BY <1>1 DEF vars, DirtyAt
  <2> QED
    BY <1>1, <2>1 DEF vars, StoreInv, StoreTypeOK, DirtyCounted, NoDuplicates, NumbersOnce
<1> QED
  BY <1>1, BootInv, StoreKeepsInv, FlushRecordInv, FlushIndexInv, CrashInv DEF Next

-----------------------------------------------------------------------------
\* The invariant the others are parts of holds for every outcome of every write
\* and read and a power cut between any two: memory numbers are not reused, so
\* neither an eviction nor a reload nor a rewritten file makes a second copy.
THEOREM StoreInvariant == Spec => []StoreInv
  BY StoreInitInv, StoreStep, PTL DEF Spec

\* Type correctness of the store and of the drive: a full store evicts before it
\* appends, and load_all stops at what the heap has room for.
THEOREM StoreTypeCorrect == Spec => []StoreTypeOK
  BY StoreInvariant, PTL DEF StoreInv

\* The flush threshold bounds what is unsaved, whatever was evicted before: what
\* the early return of aion_memory_flush (aion_memory.c:220) relies on.
THEOREM DirtyStaysCounted == Spec => []DirtyCounted
  BY StoreInvariant, PTL DEF StoreInv

\* A memory is in RAM once and in one file, although entries move down after an
\* eviction and files keep the names of the positions they were written from.
THEOREM NothingTwice == Spec => []NoDuplicates
  BY StoreInvariant, PTL DEF StoreInv

-----------------------------------------------------------------------------
(* What an eviction gives up. *)

EpisodicLow ==
    /\ \A i \in DOMAIN mem_store :
          mem_store[i].type = MEM_EPISODIC => mem_store[i].importance < 255
    /\ \A q \in Paths : files[q] # NoFile =>
          (files[q].type = MEM_EPISODIC => files[q].importance < 255)

EpisodicKinds == \A kind \in Kinds : kind[1] = MEM_EPISODIC => kind[2] < 255

LEMMA EpisodicLowStep ==
    EpisodicKinds /\ StoreInv /\ EpisodicLow /\ [Next]_vars => EpisodicLow'
<1> SUFFICES ASSUME EpisodicKinds, StoreInv, EpisodicLow, [Next]_vars
             PROVE  EpisodicLow'
  OBVIOUS
<1>1. StoreTypeOK /\ mem_store \in Seq(Entries) /\ Len(mem_store) <= MaxMemories
  BY DEF StoreInv, StoreTypeOK
<1>2. ASSUME UNCHANGED files, mem_store' = <<>>
      PROVE  EpisodicLow'
  BY <1>2 DEF EpisodicLow
<1>3. CASE Boot
  <2>1. CASE mem_store' = <<>>
    BY <1>2, <1>3, <2>1 DEF Boot
  <2>2. ASSUME NEW unread, mem_store' = LoadAll(unread)
        PROVE  EpisodicLow'
    <3> DEFINE K == Kept(unread)
               r(n) == files[index[Nth(K, n)]]
    <3>1. /\ mem_store' \in Seq(Entries) /\ Len(mem_store') = Cardinality(K)
          /\ \A n \in 1 .. Cardinality(K) : /\ mem_store'[n] = Loaded(r(n))
                                            /\ r(n) \in Records
                                            /\ index[Nth(K, n)] \in Paths
      BY <1>1, <2>2, LoadAllIs
    <3>2. \A n \in 1 .. Cardinality(K) : Nth(K, n) \in K
      BY <1>1, KeptIs
    <3>3. \A i \in K : files[index[i]] # NoFile
      BY <1>1, KeptIs
    <3> HIDE DEF K
    <3>4. DOMAIN mem_store' = 1 .. Cardinality(K)
      BY <3>1, LenProperties
    <3>5. ASSUME NEW n \in 1 .. Cardinality(K), mem_store'[n].type = MEM_EPISODIC
          PROVE  mem_store'[n].importance < 255
      <4>1. mem_store'[n].type = r(n).type /\ mem_store'[n].importance = r(n).importance
        BY <3>1, LoadedFacts
      <4>2. r(n) # NoFile
        BY <3>2, <3>3
      <4> QED
        BY <3>1, <3>5, <4>1, <4>2 DEF EpisodicLow
    <3> QED
      BY <1>3, <3>4, <3>5 DEF Boot, EpisodicLow
  <2> QED
    BY <1>3, <2>1, <2>2 DEF Boot
<1>4. ASSUME NEW kind \in Kinds, Store(kind)
      PROVE  EpisodicLow'
  <2> DEFINE E == Evict(mem_store)
             e == [id |-> next, type |-> kind[1], importance |-> kind[2], dirty |-> TRUE]
  <2>1. E \in Seq(Entries) /\ \E f : Thinned(E, mem_store, f)
    BY <1>1, EvictIs
  <2>2. PICK f : Thinned(E, mem_store, f)
    BY <2>1
  <2>3. mem_store' = E \/ mem_store' = Append(E, e)
    BY <1>4 DEF Store
  <2>4. UNCHANGED files
    BY <1>4 DEF Store
  <2> HIDE DEF E
  <2>5. \A i \in DOMAIN E : E[i].type = MEM_EPISODIC => E[i].importance < 255
    BY <2>2 DEF Thinned, EpisodicLow
  <2>6. e.type = MEM_EPISODIC => e.importance < 255
    BY DEF EpisodicKinds
  <2> HIDE DEF e
  <2>7. DOMAIN E = 1 .. Len(E) /\ Len(E) \in Nat
    BY <2>1, LenProperties
  <2>8. /\ DOMAIN Append(E, e) = 1 .. Len(E) + 1
        /\ \A i \in 1 .. Len(E) : Append(E, e)[i] = E[i]
        /\ Append(E, e)[Len(E) + 1] = e
    BY <2>1
  <2>9. \A i \in DOMAIN mem_store' :
           mem_store'[i].type = MEM_EPISODIC => mem_store'[i].importance < 255
    BY <2>3, <2>5, <2>6, <2>7, <2>8
  <2> QED
    BY <2>4, <2>9 DEF EpisodicLow
<1>5. CASE FlushRecord
  <2>1. PICK i \in DirtyAt(mem_store) :
          /\ mem_store' = [mem_store EXCEPT ![i] = Entry(@, FALSE)]
          /\ \/ files' = [files EXCEPT ![Path(mem_store[i], i)] = Record(mem_store[i])]
             \/ UNCHANGED files
    BY <1>5 DEF FlushRecord
  <2>2. /\ DOMAIN mem_store' = DOMAIN mem_store
        /\ \A j \in DOMAIN mem_store : /\ mem_store'[j].type = mem_store[j].type
                                       /\ mem_store'[j].importance = mem_store[j].importance
    BY <1>1, <2>1, FlushedIs
  <2>3. ASSUME NEW q \in Paths
        PROVE  files'[q] = files[q] \/ files'[q] = Record(mem_store[i])
    BY <1>1, <2>1 DEF StoreTypeOK
  <2>4. i \in DOMAIN mem_store
    BY DEF DirtyAt
  <2>5. /\ Record(mem_store[i]).type = mem_store[i].type
        /\ Record(mem_store[i]).importance = mem_store[i].importance
    BY DEF Record
  <2> QED
    BY <2>2, <2>3, <2>4, <2>5 DEF EpisodicLow
<1>6. CASE FlushIndex
  BY <1>6 DEF FlushIndex, EpisodicLow
<1>7. CASE Crash
  BY <1>2, <1>7 DEF Crash
<1>8. CASE UNCHANGED vars
  BY <1>8 DEF vars, EpisodicLow
<1> QED
  BY <1>3, <1>4, <1>5, <1>6, <1>7, <1>8 DEF Next

\* All but the entry given up are still there.
LEMMA OnlyWorstGoes ==
    ASSUME NEW s \in Seq(Entries), NEW i \in DOMAIN s,
           ~ \E j \in DOMAIN Evict(s) : Evict(s)[j] = s[i]
    PROVE  i = Worst(s) /\ s # <<>>
<1>1. DOMAIN s = 1 .. Len(s) /\ Len(s) \in Nat /\ Len(s) > 0
  BY LenProperties
<1>2. Evict(s) # s
  OBVIOUS
<1>3. Evict(s) = ShiftDown(s, Worst(s)) /\ Worst(s) \in DOMAIN s
  BY <1>1, <1>2, WorstIsEntry DEF Evict
<1> DEFINE w == Worst(s)
           E == Evict(s)
<1>4. /\ E \in Seq(Entries) /\ Len(E) = Len(s) - 1
      /\ \A j \in 1 .. Len(s) - 1 : E[j] = IF j < w THEN s[j] ELSE s[j + 1]
  BY <1>3, ShiftDownIs
<1>5. DOMAIN E = 1 .. Len(s) - 1
  BY <1>4, LenProperties
<1> HIDE DEF w, E
<1>6. ~ \E j \in DOMAIN E : E[j] = s[i]
  BY DEF E
<1>7. w \in DOMAIN s
  BY <1>3 DEF w
<1>8. ~ (i < w)
  BY <1>1, <1>4, <1>5, <1>6, <1>7
<1>9. ~ (i > w)
  <2> SUFFICES ASSUME i > w PROVE FALSE
    OBVIOUS
  <2>1. i - 1 \in 1 .. Len(s) - 1 /\ ~ (i - 1 < w) /\ (i - 1) + 1 = i
    BY <1>1, <1>7
  <2> QED
    BY <1>4, <1>5, <1>6, <2>1
<1>10. i = w
  BY <1>1, <1>7, <1>8, <1>9
<1> QED
  BY <1>1, <1>10 DEF w

\* A fact is given up only when the search of aion_memory_store has met no
\* experience: those are stored with an importance below the 255 it starts from
\* (consciousness.c:144, aion_memory.c:171).
THEOREM FactsGoLast ==
    ASSUME EpisodicKinds
    PROVE  Spec => FactsEvictedLast
<1>1. Init => EpisodicLow
  <2> SUFFICES ASSUME Init PROVE EpisodicLow
    OBVIOUS
  <2>1. DOMAIN mem_store = {} /\ \A q \in Paths : files[q] = NoFile
    BY DEF Init
  <2> QED
    BY <2>1 DEF EpisodicLow
<1>2. StoreInv /\ EpisodicLow /\ [Next]_vars
        => [\A i \in DOMAIN mem_store :
              Evicted(i) /\ mem_store[i].type = MEM_SEMANTIC
              => ~ \E j \in DOMAIN mem_store : mem_store[j].type = MEM_EPISODIC]_vars
  <2> SUFFICES ASSUME StoreInv, EpisodicLow, Next,
                      NEW i \in DOMAIN mem_store,
                      pc = "idle", pc' # "off", mem_store[i].type = MEM_SEMANTIC,
                      ~ \E j \in DOMAIN mem_store' : mem_store'[j].id = mem_store[i].id
               PROVE  ~ \E j \in DOMAIN mem_store : mem_store[j].type = MEM_EPISODIC
    BY DEF Evicted
  <2>1. PICK kind \in Kinds : Store(kind)
    BY DEF Next, Boot, FlushRecord, FlushIndex, Crash
  <2>2. mem_store \in Seq(Entries) /\ Len(mem_store) <= MaxMemories
    BY DEF StoreInv, StoreTypeOK
  <2> DEFINE E == Evict(mem_store)
             e == [id |-> next, type |-> kind[1], importance |-> kind[2], dirty |-> TRUE]
  <2>3. E \in Seq(Entries) /\ DOMAIN E = 1 .. Len(E) /\ Len(E) \in Nat
    BY <2>2, EvictIs, LenProperties
  <2>4. mem_store' = E \/ mem_store' = Append(E, e)
    BY <2>1 DEF Store
  <2>5. ~ \E j \in DOMAIN E : E[j] = mem_store[i]
    <3> HIDE DEF E, e
    <3>1. \A j \in DOMAIN E : j \in DOMAIN mem_store' /\ mem_store'[j] = E[j]
      BY <2>3, <2>4
    <3> QED
      BY <3>1
  <2>6. i = Worst(mem_store) /\ mem_store # <<>>
    BY <2>2, <2>5, OnlyWorstGoes
  <2>7. ~ \E j \in DOMAIN mem_store : /\ mem_store[j].type = MEM_EPISODIC
                                      /\ mem_store[j].importance < 255
    BY <2>2, <2>6, WorstIsEntry
  <2> QED
    BY <2>7 DEF EpisodicLow
<1>3. StoreInv /\ EpisodicLow /\ [Next]_vars => EpisodicLow'
  BY EpisodicLowStep
<1> QED
  BY <1>1, <1>2, <1>3, StoreInvariant, PTL DEF Spec, FactsEvictedLast

-----------------------------------------------------------------------------
(* The durable log. *)

\* A drive that keeps what it is told, and a store that is never full.
ReliableStore ==
    /\ WriteOutcomes = {"written"} /\ ReadOutcomes = {"read"}
    /\ HeapSlots < MaxMemories

\* Entry i of RAM is what the drive has where the index says.
Matches(i) ==
    /\ index[i] = Path(mem_store[i], i)
    /\ files[index[i]] = Record(mem_store[i])
    /\ ~mem_store[i].dirty

\* An entry the index does not list yet is unsaved, or the flush under way has
\* written it.
Pending(i) ==
    \/ mem_store[i].dirty
    \/ pc = "flush" /\ files[Path(mem_store[i], i)] = Record(mem_store[i])

OnDrive ==
    /\ Len(index) <= HeapSlots
    /\ \A i \in DOMAIN index : index[i][2] = i /\ files[index[i]] # NoFile
    /\ \A q \in Paths : files[q] # NoFile => files[q].type = q[1]
    /\ pc = "off" => mem_store = <<>>
    /\ pc # "off" => /\ Len(mem_store) + heap_left = HeapSlots
                     /\ mem_dirty = Len(mem_store) - Len(index)
                     /\ \A i \in DOMAIN index : Matches(i)
                     /\ \A i \in Len(index) + 1 .. Len(mem_store) : Pending(i)
    /\ pc = "flush" => mem_dirty = FlushEvery

\* A boot would load the file of each path, in the order of the index.
ReloadsIndex ==
    /\ Kept({}) = 1 .. Len(index) /\ Cardinality(Kept({})) = Len(index)
    /\ LoadAll({}) = [n \in 1 .. Len(index) |-> Loaded(files[index[n]])]
    /\ Recoverable = [n \in 1 .. Len(index) |-> files[index[n]].id]

LEMMA UpToCounted ==
    ASSUME NEW i \in Nat
    PROVE  IsFiniteSet(1 .. i) /\ Cardinality(1 .. i) = i
<1>1. /\ IsFiniteSet(1 .. i)
      /\ Cardinality(1 .. i) = IF 1 > i THEN 0 ELSE i - 1 + 1
  <2>1. 1 \in Int /\ i \in Int
    OBVIOUS
  <2> QED
    BY <2>1, FS_Interval
<1> QED
  BY <1>1

LEMMA ReloadIs == StoreTypeOK /\ OnDrive => ReloadsIndex
<1> SUFFICES ASSUME StoreTypeOK, OnDrive PROVE ReloadsIndex
  OBVIOUS
<1> DEFINE L == Len(index)
<1>1. /\ DOMAIN index = 1 .. L /\ L \in Nat /\ L <= HeapSlots /\ HeapSlots \in Nat
      /\ \A i \in 1 .. L : files[index[i]] # NoFile
  BY LenProperties, StoreAssumption DEF StoreTypeOK, OnDrive
<1>2. \A i \in 1 .. L : Cardinality({j \in 1 .. L : j <= i}) = i
  <2> TAKE i \in 1 .. L
  <2>1. i \in Nat /\ {j \in 1 .. L : j <= i} = 1 .. i
    BY <1>1
  <2>2. Cardinality(1 .. i) = i
    BY <2>1, UpToCounted
  <2> QED
    BY <2>1, <2>2
<1>3. {i \in DOMAIN index : files[index[i]] # NoFile} \ {} = 1 .. L
  BY <1>1
<1>4. Kept({}) = 1 .. L
  <2>1. Kept({}) = {i \in 1 .. L : Cardinality({j \in 1 .. L : j <= i}) <= HeapSlots}
    BY <1>3 DEF Kept
  <2>2. \A i \in 1 .. L : Cardinality({j \in 1 .. L : j <= i}) <= HeapSlots
    BY <1>1, <1>2
  <2> QED
    BY <2>1, <2>2
<1>5. Cardinality(Kept({})) = L
  BY <1>1, <1>4, UpToCounted
<1>6. \A n \in 1 .. L : Nth(Kept({}), n) = n
  BY <1>1, <1>2, <1>4 DEF Nth
<1>7. LoadAll({}) = [n \in 1 .. L |-> Loaded(files[index[n]])]
  BY <1>5, <1>6 DEF LoadAll
<1>8. Recoverable = [n \in 1 .. L |-> files[index[n]].id]
  <2>1. \A n \in 1 .. L : Loaded(files[index[n]]).id = files[index[n]].id
    BY DEF Loaded, Entry
  <2>2. DOMAIN LoadAll({}) = 1 .. L
    BY <1>7
  <2> HIDE DEF L
  <2>3. \A n \in 1 .. L : LoadAll({})[n].id = files[index[n]].id
    BY <1>7, <2>1
  <2> QED
    BY <2>2, <2>3 DEF Recoverable, Ids
<1> QED
  BY <1>4, <1>5, <1>7, <1>8 DEF ReloadsIndex

LEMMA ReloadNextIs == StoreTypeOK' /\ OnDrive' => ReloadsIndex'
  BY ReloadIs, PTL

LEMMA IdsAre ==
    ASSUME NEW s \in Seq(Entries)
    PROVE  /\ Ids(s) \in Seq(Nat) /\ Len(Ids(s)) = Len(s)
           /\ Ids(s) = [i \in 1 .. Len(s) |-> s[i].id]
<1>1. DOMAIN s = 1 .. Len(s) /\ Len(s) \in Nat
  BY LenProperties
<1>2. \A i \in DOMAIN s : s[i].id \in Nat
  BY ElementOfSeq, EntryFacts, StoreAssumption
<1> QED
  BY <1>1, <1>2 DEF Ids

LEMMA OnDriveInit == Init => OnDrive
<1> SUFFICES ASSUME Init PROVE OnDrive
  OBVIOUS
<1>1. Len(index) = 0 /\ DOMAIN index = {} /\ 0 <= HeapSlots
  BY StoreAssumption DEF Init, NoIndex
<1>2. \A q \in Paths : files[q] = NoFile
  BY DEF Init
<1> QED
  BY <1>1, <1>2 DEF Init, OnDrive

LEMMA OnDriveBoot ==
    ReliableStore /\ StoreInv /\ OnDrive /\ Boot
      => OnDrive' /\ mem_store' = LoadAll({})
<1> SUFFICES ASSUME ReliableStore, StoreInv, OnDrive, Boot
             PROVE  OnDrive' /\ mem_store' = LoadAll({})
  OBVIOUS
<1>1. StoreTypeOK /\ ReloadsIndex
  BY ReloadIs DEF StoreInv
<1>2. /\ pc' = "idle" /\ mem_dirty' = 0 /\ UNCHANGED <<files, index, next>>
      /\ \/ mem_store' = LoadAll({}) /\ heap_left' = HeapSlots - Cardinality(Kept({}))
         \/ index = <<>> /\ mem_store' = <<>> /\ heap_left' = HeapSlots
  BY DEF Boot, ReliableStore, NoIndex
<1> DEFINE L == Len(index)
<1>3. DOMAIN index = 1 .. L /\ L \in Nat /\ HeapSlots \in Nat
  BY <1>1, LenProperties, StoreAssumption DEF StoreTypeOK
<1>4. ASSUME NEW i \in 1 .. L
      PROVE  /\ files[index[i]] \in Records /\ index[i] \in Paths
             /\ index[i] = <<files[index[i]].type, i>>
  <2>1. index[i] \in Paths
    BY <1>1, <1>3, ElementOfSeq DEF StoreTypeOK
  <2>2. files[index[i]] # NoFile /\ index[i][2] = i
    BY <1>3 DEF OnDrive
  <2>3. files[index[i]] \in Records /\ files[index[i]].type = index[i][1]
    BY <1>1, <2>1, <2>2 DEF StoreTypeOK, OnDrive
  <2> QED
    BY <2>1, <2>2, <2>3 DEF Paths
<1>5. /\ mem_store' = [n \in 1 .. L |-> Loaded(files[index[n]])]
      /\ heap_left' = HeapSlots - L
      /\ mem_store' = LoadAll({})
  <2>1. CASE mem_store' = LoadAll({}) /\ heap_left' = HeapSlots - Cardinality(Kept({}))
    BY <1>1, <2>1 DEF ReloadsIndex
  <2>2. CASE index = <<>> /\ mem_store' = <<>> /\ heap_left' = HeapSlots
    <3>1. L = 0 /\ LoadAll({}) = [n \in 1 .. 0 |-> Loaded(files[index[n]])]
      BY <1>1, <2>2 DEF ReloadsIndex
    <3>2. LoadAll({}) = <<>>
      BY <3>1
    <3>3. heap_left' = HeapSlots - L
      BY <1>3, <2>2, <3>1
    <3> QED
      BY <1>1, <2>2, <3>2, <3>3 DEF ReloadsIndex
  <2> QED
    BY <1>2, <2>1, <2>2
<1> HIDE DEF L
<1>6. Len(mem_store') = L
  BY <1>3, <1>5
<1>7. ASSUME NEW i \in 1 .. L
      PROVE  Matches(i)'
  <2>1. mem_store'[i] = Loaded(files[index[i]])
    BY <1>5
  <2>2. /\ mem_store'[i].type = files[index[i]].type /\ ~mem_store'[i].dirty
        /\ Record(mem_store'[i]) = files[index[i]]
    BY <1>4, <2>1, LoadedFacts
  <2> QED
    BY <1>2, <1>4, <2>2 DEF Matches, Path
<1>8. Len(index') = L /\ DOMAIN index' = 1 .. L
  BY <1>2, <1>3 DEF L
<1>9. \A i \in Len(index') + 1 .. Len(mem_store') : FALSE
  BY <1>3, <1>6, <1>8
<1>10. Len(mem_store') + heap_left' = HeapSlots /\ mem_dirty' = Len(mem_store') - Len(index')
  BY <1>2, <1>3, <1>5, <1>6, <1>8
<1> QED
  BY <1>2, <1>5, <1>7, <1>8, <1>9, <1>10 DEF OnDrive

\* While there is room, a store appends.
LEMMA NeverFull ==
    ASSUME ReliableStore, StoreInv, OnDrive, pc # "off"
    PROVE  Evict(mem_store) = mem_store
<1>1. Len(mem_store) \in Nat /\ heap_left \in Nat /\ HeapSlots \in Nat
      /\ MaxMemories \in Nat
  BY LenProperties, StoreAssumption DEF StoreInv, StoreTypeOK
<1>2. Len(mem_store) < MaxMemories
  BY <1>1 DEF OnDrive, ReliableStore
<1> QED
  BY <1>1, <1>2 DEF Evict

LEMMA OnDriveStore ==
    ASSUME ReliableStore, StoreInv, OnDrive, NEW kind \in Kinds, Store(kind)
    PROVE  /\ OnDrive'
           /\ \/ next \in 1 .. MaxContents /\ Ids(mem_store') = Append(Ids(mem_store), next)
              \/ UNCHANGED vars
<1> DEFINE e == [id |-> next, type |-> kind[1], importance |-> kind[2], dirty |-> TRUE]
<1>1. /\ mem_store \in Seq(Entries) /\ index \in Seq(Paths)
      /\ DOMAIN mem_store = 1 .. Len(mem_store) /\ Len(mem_store) \in Nat
      /\ DOMAIN index = 1 .. Len(index) /\ Len(index) \in Nat
      /\ mem_dirty \in 0 .. FlushEvery /\ heap_left \in 0 .. HeapSlots
      /\ next \in 1 .. MaxContents + 1 /\ pc = "idle"
      /\ FlushEvery \in Nat /\ HeapSlots \in Nat /\ MaxContents \in Nat
      /\ UNCHANGED <<files, index>> /\ mem_dirty < FlushEvery
  BY LenProperties, StoreAssumption DEF StoreInv, StoreTypeOK, Store, DirtyCounted
<1>2. Evict(mem_store) = mem_store
  BY <1>1, NeverFull
<1>3. CASE UNCHANGED <<mem_store, mem_dirty, heap_left, next, pc>>
  <2>1. UNCHANGED vars
    BY <1>1, <1>3 DEF vars
  <2> QED
    BY <2>1 DEF vars, OnDrive, Matches, Pending
<1>4. CASE /\ heap_left > 0 /\ next <= MaxContents
           /\ mem_store' = Append(mem_store, e)
           /\ mem_dirty' = mem_dirty + 1 /\ heap_left' = heap_left - 1
           /\ pc' = IF mem_dirty' >= FlushEvery THEN "flush" ELSE "idle"
  <2>1. e \in Entries /\ e.id = next /\ e.dirty
    BY <1>1, <1>4, StoreAssumption DEF Entries
  <2> HIDE DEF e
  <2>2. /\ mem_store' \in Seq(Entries) /\ Len(mem_store') = Len(mem_store) + 1
        /\ \A i \in 1 .. Len(mem_store) : mem_store'[i] = mem_store[i]
        /\ mem_store'[Len(mem_store) + 1] = e
    BY <1>1, <1>4, <2>1, AppendProperties
  <2>3. /\ Len(mem_store) + heap_left = HeapSlots
        /\ mem_dirty = Len(mem_store) - Len(index)
        /\ \A i \in DOMAIN index : Matches(i)
        /\ \A i \in Len(index) + 1 .. Len(mem_store) : mem_store[i].dirty
    BY <1>1 DEF OnDrive, Pending
  <2>4. \A i \in DOMAIN index' : Matches(i)'
    <3> SUFFICES ASSUME NEW i \in DOMAIN index PROVE Matches(i)'
      BY <1>1
    <3>1. mem_store'[i] = mem_store[i]
      BY <1>1, <2>2, <2>3
    <3> QED
      BY <1>1, <2>3, <3>1 DEF Matches
  <2>5. \A i \in Len(index') + 1 .. Len(mem_store') : Pending(i)'
    <3> SUFFICES ASSUME NEW i \in Len(index) + 1 .. Len(mem_store) + 1
                 PROVE  mem_store'[i].dirty
      BY <1>1, <2>2 DEF Pending
    <3>1. CASE i = Len(mem_store) + 1
      BY <2>1, <2>2, <3>1
    <3>2. CASE i # Len(mem_store) + 1
      <4>1. i \in 1 .. Len(mem_store) /\ i \in Len(index) + 1 .. Len(mem_store)
        BY <1>1, <3>2
      <4> QED
        BY <2>2, <2>3, <4>1
    <3> QED
      BY <3>1, <3>2
  <2>6. /\ Len(mem_store') + heap_left' = HeapSlots
        /\ mem_dirty' = Len(mem_store') - Len(index')
        /\ pc' = "flush" => mem_dirty' = FlushEvery
        /\ pc' # "off"
    <3>1. /\ Len(index') = Len(index) /\ Len(index) \in Int /\ Len(mem_store) \in Int
          /\ heap_left \in Int /\ mem_dirty \in Int
      BY <1>1
    <3>2. /\ Len(mem_store') + heap_left' = HeapSlots
          /\ mem_dirty' = Len(mem_store') - Len(index')
      <4>1. /\ Len(mem_store') = Len(mem_store) + 1
            /\ heap_left' = heap_left - 1 /\ mem_dirty' = mem_dirty + 1
        BY <1>4, <2>2
      <4>2. (Len(mem_store) + 1) + (heap_left - 1) = HeapSlots
        BY <2>3, <3>1
      <4>3. mem_dirty + 1 = (Len(mem_store) + 1) - Len(index)
        BY <2>3, <3>1
      <4> QED
        BY <3>1, <4>1, <4>2, <4>3
    <3>3. pc' = "flush" => mem_dirty' = FlushEvery
      BY <1>1, <1>4, <3>1
    <3> QED
      BY <1>4, <3>2, <3>3
  <2>7. OnDrive'
    BY <1>1, <2>4, <2>5, <2>6 DEF OnDrive
  <2>8. Ids(mem_store') = Append(Ids(mem_store), next)
    <3>1. /\ Ids(mem_store) \in Seq(Nat) /\ Len(Ids(mem_store)) = Len(mem_store)
          /\ \A i \in 1 .. Len(mem_store) : Ids(mem_store)[i] = mem_store[i].id
          /\ Ids(mem_store') \in Seq(Nat) /\ Len(Ids(mem_store')) = Len(mem_store) + 1
          /\ \A i \in 1 .. Len(mem_store) + 1 : Ids(mem_store')[i] = mem_store'[i].id
      BY <1>1, <2>2, IdsAre
    <3>2. next \in Nat
      BY <1>1
    <3> DEFINE a == Ids(mem_store)
               b == Ids(mem_store')
    <3>3. b[Len(mem_store) + 1] = next /\ \A i \in 1 .. Len(mem_store) : b[i] = a[i]
      BY <1>1, <2>1, <2>2, <3>1
    <3> HIDE DEF a, b
    <3>4. /\ a \in Seq(Nat) /\ Len(a) = Len(mem_store)
          /\ b \in Seq(Nat) /\ Len(b) = Len(mem_store) + 1
      BY <3>1 DEF a, b
    <3>5. b = Append(a, next)
      BY <1>1, <3>2, <3>3, <3>4
    <3> QED
      BY <3>5 DEF a, b
  <2> QED
    BY <1>1, <1>4, <2>7, <2>8
<1> QED
  BY <1>2, <1>3, <1>4 DEF Store

LEMMA OnDriveFlushRecord ==
    ReliableStore /\ StoreInv /\ OnDrive /\ FlushRecord
      => OnDrive' /\ Ids(mem_store') = Ids(mem_store) /\ ReloadsIndex'
                  /\ Recoverable' = Recoverable
<1> SUFFICES ASSUME ReliableStore, StoreInv, OnDrive, FlushRecord
             PROVE  OnDrive' /\ Ids(mem_store') = Ids(mem_store) /\ ReloadsIndex'
                      /\ Recoverable' = Recoverable
  OBVIOUS
<1>1. PICK i \in DirtyAt(mem_store) :
        /\ mem_store' = [mem_store EXCEPT ![i] = Entry(@, FALSE)]
        /\ files' = [files EXCEPT ![Path(mem_store[i], i)] = Record(mem_store[i])]
  BY DEF FlushRecord, ReliableStore
<1>2. /\ mem_store \in Seq(Entries) /\ index \in Seq(Paths)
      /\ DOMAIN mem_store = 1 .. Len(mem_store) /\ Len(mem_store) \in Nat
      /\ DOMAIN index = 1 .. Len(index) /\ Len(index) \in Nat
      /\ files \in [Paths -> Records \cup {NoFile}]
      /\ pc = "flush" /\ UNCHANGED <<mem_dirty, heap_left, index, next, pc>>
  BY LenProperties DEF StoreInv, StoreTypeOK, FlushRecord
<1>3. /\ mem_store' \in Seq(Entries) /\ Len(mem_store') = Len(mem_store)
      /\ DOMAIN mem_store' = DOMAIN mem_store
      /\ \A j \in DOMAIN mem_store : /\ mem_store'[j].id = mem_store[j].id
                                     /\ Path(mem_store'[j], j) = Path(mem_store[j], j)
                                     /\ Record(mem_store'[j]) = Record(mem_store[j])
      /\ DirtyAt(mem_store') = DirtyAt(mem_store) \ {i}
  BY <1>1, <1>2, FlushedIs
<1>4. i \in DOMAIN mem_store /\ mem_store[i].dirty
  BY DEF DirtyAt
<1>5. \A j \in DOMAIN index : Matches(j)
  BY <1>2 DEF OnDrive
<1>6. Len(index) <= Len(mem_store)
  <2>1. mem_dirty \in Nat /\ mem_dirty = Len(mem_store) - Len(index)
    BY <1>2, StoreAssumption DEF OnDrive, StoreInv, StoreTypeOK
  <2> QED
    BY <1>2, <2>1
<1>7. i \notin DOMAIN index
  BY <1>4, <1>5 DEF Matches
<1> DEFINE here == Path(mem_store[i], i)
           rec == Record(mem_store[i])
<1>8. here \in Paths /\ rec \in Records /\ here[2] = i /\ rec.type = here[1]
  <2>1. mem_store[i] \in Entries /\ i \in Positions
    BY <1>2, <1>4, ElementOfSeq, StoreAssumption DEF StoreInv, StoreTypeOK, Positions
  <2> QED
    BY <2>1, EntryFacts DEF Path, Paths, Record
<1>9. files' = [files EXCEPT ![here] = rec]
  BY <1>1
<1> HIDE DEF here, rec
<1>10. files'[here] = rec /\ \A q \in Paths : q # here => files'[q] = files[q]
  BY <1>2, <1>8, <1>9
<1>11. \A j \in DOMAIN index : index[j] \in Paths /\ files'[index[j]] = files[index[j]]
  <2> SUFFICES ASSUME NEW j \in DOMAIN index
               PROVE  index[j] \in Paths /\ files'[index[j]] = files[index[j]]
    OBVIOUS
  <2>1. index[j] \in Paths
    BY <1>2, ElementOfSeq
  <2>2. index[j][2] = j /\ j # i
    BY <1>7 DEF OnDrive
  <2> QED
    BY <1>8, <1>10, <2>1, <2>2
<1>12. \A q \in Paths : files'[q] # NoFile => files'[q].type = q[1]
  BY <1>8, <1>10 DEF OnDrive
<1>13. \A j \in DOMAIN index' : Matches(j)'
  <2> SUFFICES ASSUME NEW j \in DOMAIN index PROVE Matches(j)'
    BY <1>2
  <2>1. j \in DOMAIN mem_store /\ j \notin DirtyAt(mem_store)
    BY <1>2, <1>5, <1>6 DEF Matches, DirtyAt
  <2>2. ~mem_store'[j].dirty
    BY <1>3, <2>1 DEF DirtyAt
  <2> QED
    BY <1>2, <1>3, <1>5, <1>11, <2>1, <2>2 DEF Matches
<1>14. \A j \in Len(index') + 1 .. Len(mem_store') : Pending(j)'
  <2> SUFFICES ASSUME NEW j \in Len(index) + 1 .. Len(mem_store), ~mem_store'[j].dirty
               PROVE  files'[Path(mem_store'[j], j)] = Record(mem_store'[j])
    BY <1>2, <1>3 DEF Pending
  <2>1. j \in DOMAIN mem_store
    BY <1>2
  <2>2. CASE j = i
    BY <1>3, <1>10, <2>1, <2>2 DEF here, rec
  <2>3. CASE j # i
    <3>1. j \notin DirtyAt(mem_store)
      BY <1>3, <2>1, <2>3 DEF DirtyAt
    <3>2. ~mem_store[j].dirty /\ Pending(j)
      BY <1>2, <2>1, <3>1 DEF OnDrive, DirtyAt
    <3>3. files[Path(mem_store[j], j)] = Record(mem_store[j])
      BY <3>2 DEF Pending
    <3>4. Path(mem_store[j], j) \in Paths /\ Path(mem_store[j], j) # here
      <4>1. mem_store[j] \in Entries /\ j \in Positions
        BY <1>2, <2>1, ElementOfSeq, StoreAssumption DEF StoreInv, StoreTypeOK, Positions
      <4> QED
        BY <1>8, <2>3, <4>1, EntryFacts DEF Path, Paths
    <3> QED
      BY <1>3, <1>10, <2>1, <3>3, <3>4
  <2> QED
    BY <2>2, <2>3
<1>15. OnDrive'
  <2>1. \A j \in DOMAIN index' : index'[j][2] = j /\ files'[index'[j]] # NoFile
    BY <1>2, <1>11 DEF OnDrive
  <2>2. /\ Len(index') <= HeapSlots /\ pc' = "flush" /\ mem_dirty' = FlushEvery
        /\ Len(mem_store') + heap_left' = HeapSlots
        /\ mem_dirty' = Len(mem_store') - Len(index')
    BY <1>2, <1>3 DEF OnDrive
  <2> QED
    BY <1>12, <1>13, <1>14, <2>1, <2>2 DEF OnDrive
<1>16. Ids(mem_store') = Ids(mem_store)
  BY <1>3 DEF Ids
<1>17. StoreTypeOK'
  BY FlushRecordInv DEF StoreInv
<1>18. ReloadsIndex' /\ ReloadsIndex
  BY <1>15, <1>17, ReloadIs, ReloadNextIs DEF StoreInv
<1>19. Recoverable' = Recoverable
  <2>1. Recoverable' = [n \in 1 .. Len(index) |-> files'[index[n]].id]
    BY <1>2, <1>18 DEF ReloadsIndex
  <2>2. Recoverable = [n \in 1 .. Len(index) |-> files[index[n]].id]
    BY <1>18 DEF ReloadsIndex
  <2>3. \A n \in 1 .. Len(index) : files'[index[n]].id = files[index[n]].id
    BY <1>2, <1>11
  <2> QED
    BY <2>1, <2>2, <2>3
<1> QED
  BY <1>15, <1>16, <1>18, <1>19

LEMMA OnDriveFlushIndex ==
    ReliableStore /\ StoreInv /\ OnDrive /\ FlushIndex
      => OnDrive' /\ Recoverable' = Ids(mem_store)
<1> SUFFICES ASSUME ReliableStore, StoreInv, OnDrive, FlushIndex
             PROVE  OnDrive' /\ Recoverable' = Ids(mem_store)
  OBVIOUS
<1>1. /\ pc = "flush" /\ DirtyAt(mem_store) = {}
      /\ index' = IndexOf(mem_store) /\ mem_dirty' = 0 /\ pc' = "idle"
      /\ UNCHANGED <<mem_store, heap_left, files, next>>
  BY DEF FlushIndex, ReliableStore
<1>2. /\ mem_store \in Seq(Entries)
      /\ DOMAIN mem_store = 1 .. Len(mem_store) /\ Len(mem_store) \in Nat
      /\ DOMAIN index = 1 .. Len(index) /\ Len(index) \in Nat
      /\ heap_left \in Nat /\ HeapSlots \in Nat
  BY LenProperties, StoreAssumption DEF StoreInv, StoreTypeOK
<1>3. /\ Len(index') = Len(mem_store) /\ DOMAIN index' = DOMAIN mem_store
      /\ \A i \in DOMAIN mem_store : /\ index'[i] = Path(mem_store[i], i)
                                     /\ index'[i][2] = i
  BY <1>1, IndexOfIs DEF StoreInv
<1>4. ASSUME NEW i \in DOMAIN mem_store
      PROVE  ~mem_store[i].dirty /\ files[index'[i]] = Record(mem_store[i])
  <2>1. ~mem_store[i].dirty
    BY <1>1 DEF DirtyAt
  <2>2. CASE i \in DOMAIN index
    <3>1. Matches(i)
      BY <1>1, <2>2 DEF OnDrive
    <3> QED
      BY <1>3, <2>1, <3>1 DEF Matches
  <2>3. CASE i \notin DOMAIN index
    <3>1. i \in Len(index) + 1 .. Len(mem_store)
      BY <1>2, <2>3
    <3>2. Pending(i)
      BY <1>1, <3>1 DEF OnDrive
    <3> QED
      BY <1>3, <2>1, <3>2 DEF Pending
  <2> QED
    BY <2>2, <2>3
<1>5. \A i \in DOMAIN mem_store : mem_store[i] \in Entries /\ Record(mem_store[i]) # NoFile
                                 /\ Record(mem_store[i]).id = mem_store[i].id
  <2> SUFFICES ASSUME NEW i \in DOMAIN mem_store
               PROVE  /\ mem_store[i] \in Entries /\ Record(mem_store[i]) # NoFile
                      /\ Record(mem_store[i]).id = mem_store[i].id
    OBVIOUS
  <2>1. mem_store[i] \in Entries
    BY <1>2, ElementOfSeq
  <2>2. mem_store[i].id # 0 /\ Record(mem_store[i]).id = mem_store[i].id
    <3>1. mem_store[i].id \in 1 .. MaxContents
      BY <2>1, EntryFacts
    <3> QED
      BY <3>1, StoreAssumption DEF Record
  <2>3. NoFile.id = 0
    BY DEF NoFile
  <2> QED
    BY <2>1, <2>2, <2>3
<1>6. OnDrive'
  <2>1. \A i \in DOMAIN index' : Matches(i)'
    BY <1>1, <1>3, <1>4 DEF Matches
  <2>2. \A i \in DOMAIN index' : index'[i][2] = i /\ files'[index'[i]] # NoFile
    BY <1>1, <1>3, <1>4, <1>5
  <2>3. /\ Len(mem_store') + heap_left' = HeapSlots
        /\ mem_dirty' = Len(mem_store') - Len(index')
        /\ Len(index') <= HeapSlots
        /\ \A i \in Len(index') + 1 .. Len(mem_store') : FALSE
    <3>1. Len(mem_store) + heap_left = HeapSlots
      BY <1>1 DEF OnDrive
    <3>2. Len(mem_store) <= HeapSlots /\ 0 = Len(mem_store) - Len(mem_store)
          /\ \A i \in Len(mem_store) + 1 .. Len(mem_store) : FALSE
      BY <1>2, <3>1
    <3> QED
      BY <1>1, <1>3, <3>1, <3>2
  <2>4. \A q \in Paths : files'[q] # NoFile => files'[q].type = q[1]
    BY <1>1 DEF OnDrive
  <2> QED
    BY <1>1, <2>1, <2>2, <2>3, <2>4 DEF OnDrive
<1>7. ReloadsIndex'
  BY <1>6, FlushIndexInv, ReloadNextIs DEF StoreInv
<1>8. Recoverable' = [n \in 1 .. Len(mem_store) |-> files[index'[n]].id]
  BY <1>1, <1>3, <1>7 DEF ReloadsIndex
<1>9. \A n \in 1 .. Len(mem_store) : files[index'[n]].id = mem_store[n].id
  BY <1>2, <1>4, <1>5
<1> QED
  BY <1>2, <1>6, <1>8, <1>9 DEF Ids

\* Every step of the store is a step of the log, or none.
LEMMA OnDriveStep ==
    ReliableStore /\ StoreInv /\ OnDrive /\ [Next]_vars
      => OnDrive' /\ [Log!LogNext]_(Log!logVars)
<1> SUFFICES ASSUME ReliableStore, StoreInv, OnDrive, [Next]_vars
             PROVE  OnDrive' /\ [Log!LogNext]_(Log!logVars)
  OBVIOUS
<1>1. /\ mem_store \in Seq(Entries) /\ index \in Seq(Paths) /\ Len(index) \in Nat
      /\ Len(mem_store) \in Nat
  BY LenProperties DEF StoreInv, StoreTypeOK
<1>2. ReloadsIndex
  BY ReloadIs DEF StoreInv
<1>3. ASSUME OnDrive' PROVE ReloadsIndex'
  BY <1>3, StoreStep, ReloadNextIs DEF StoreInv
<1>4. ASSUME OnDrive', UNCHANGED <<files, index>>
      PROVE  Recoverable' = Recoverable
  BY <1>2, <1>3, <1>4 DEF ReloadsIndex
<1>5. /\ Ids(mem_store) \in Seq(Nat) /\ Len(Ids(mem_store)) = Len(mem_store)
      /\ Len(Recoverable) = Len(index)
  BY <1>1, <1>2, IdsAre DEF ReloadsIndex
<1>6. pc # "off" => Len(Ids(mem_store)) - Len(Recoverable) = mem_dirty
  BY <1>5 DEF OnDrive
<1>7. Ids(<<>>) = <<>>
  BY DEF Ids
<1>8. CASE Boot
  <2>1. OnDrive' /\ mem_store' = LoadAll({})
    BY <1>8, OnDriveBoot
  <2>2. Ids(mem_store') = Recoverable
    BY <2>1 DEF Recoverable
  <2>3. Recoverable' = Recoverable
    BY <1>4, <1>8, <2>1 DEF Boot
  <2>4. Ids(mem_store)' = Ids(mem_store')
    BY DEF Ids
  <2>5. Log!Start
    BY <1>8, <2>2, <2>3, <2>4 DEF Boot, Log!Start
  <2> QED
    BY <2>1, <2>5 DEF Log!LogNext
<1>9. ASSUME NEW kind \in Kinds, Store(kind)
      PROVE  OnDrive' /\ [Log!LogNext]_(Log!logVars)
  <2>1. OnDrive'
    BY <1>9, OnDriveStore
  <2>2. Ids(mem_store)' = Ids(mem_store')
    BY DEF Ids
  <2>3. Recoverable' = Recoverable
    BY <1>4, <1>9, <2>1 DEF Store
  <2>4. CASE UNCHANGED vars
    <3>1. UNCHANGED Log!logVars
      BY <2>2, <2>3, <2>4 DEF vars, Log!logVars
    <3> QED
      BY <2>1, <3>1
  <2>5. CASE next \in 1 .. MaxContents /\ Ids(mem_store') = Append(Ids(mem_store), next)
    <3>1. pc = "idle" /\ pc' # "off"
      BY <1>9 DEF Store
    <3>2. mem_dirty < FlushEvery
      BY <3>1 DEF StoreInv, DirtyCounted
    <3>3. Log!Remember(next)
      BY <1>6, <2>2, <2>3, <2>5, <3>1, <3>2 DEF Log!Remember, Log!Unsaved
    <3> QED
      BY <2>1, <2>5, <3>3 DEF Log!LogNext
  <2> QED
    BY <1>9, <2>4, <2>5, OnDriveStore
<1>10. CASE FlushRecord
  <2>1. OnDrive' /\ Ids(mem_store') = Ids(mem_store) /\ Recoverable' = Recoverable
    BY <1>10, OnDriveFlushRecord
  <2>2. Ids(mem_store)' = Ids(mem_store')
    BY DEF Ids
  <2>3. UNCHANGED Log!logVars
    BY <1>10, <2>1, <2>2 DEF FlushRecord, Log!logVars
  <2> QED
    BY <2>1, <2>3
<1>11. CASE FlushIndex
  <2>1. OnDrive' /\ Recoverable' = Ids(mem_store)
    BY <1>11, OnDriveFlushIndex
  <2>2. Ids(mem_store)' = Ids(mem_store)
    BY <1>11 DEF FlushIndex, Ids
  <2>3. pc = "flush" /\ pc' = "idle" /\ mem_dirty = FlushEvery
    BY <1>11 DEF FlushIndex, OnDrive
  <2>4. Log!Sync
    BY <1>6, <2>1, <2>2, <2>3 DEF Log!Sync, Log!Unsaved
  <2> QED
    BY <2>1, <2>4 DEF Log!LogNext
<1>12. CASE Crash
  <2>1. OnDrive'
    BY <1>1, <1>12 DEF Crash, OnDrive
  <2>2. Ids(mem_store)' = <<>>
    BY <1>7, <1>12 DEF Crash, Ids
  <2>3. Recoverable' = Recoverable
    BY <1>4, <1>12, <2>1 DEF Crash
  <2>4. Log!PowerCut
    BY <1>12, <2>2, <2>3 DEF Crash, Log!PowerCut
  <2> QED
    BY <2>1, <2>4 DEF Log!LogNext
<1>13. CASE UNCHANGED vars
  <2>1. OnDrive'
    BY <1>13 DEF vars, OnDrive, Matches, Pending
  <2>2. Recoverable' = Recoverable
    BY <1>4, <1>13, <2>1 DEF vars
  <2>3. Ids(mem_store)' = Ids(mem_store)
    BY <1>13 DEF vars, Ids
  <2>4. UNCHANGED Log!logVars
    BY <1>13, <2>2, <2>3 DEF vars, Log!logVars
  <2> QED
    BY <2>1, <2>4
<1> QED
  BY <1>8, <1>9, <1>10, <1>11, <1>12, <1>13 DEF Next

LEMMA LogStarts == Init => Log!LogInit
<1> SUFFICES ASSUME Init PROVE Log!LogInit
  OBVIOUS
<1>1. StoreTypeOK /\ OnDrive
  BY StoreInitInv, OnDriveInit DEF StoreInv
<1>2. Recoverable = [n \in 1 .. Len(index) |-> files[index[n]].id]
  BY <1>1, ReloadIs DEF ReloadsIndex
<1>3. Len(index) = 0 /\ mem_store = <<>> /\ pc = "off"
  BY DEF Init, NoIndex
<1>4. Recoverable = <<>>
  BY <1>2, <1>3
<1>5. Ids(mem_store) = <<>>
  BY <1>3 DEF Ids
<1> QED
  BY <1>3, <1>4, <1>5 DEF Log!LogInit

\* On a drive that keeps what it is told and while nothing is evicted, the store
\* is a durable log, whatever write a power cut comes between: a record is
\* written before the index that lists it, a flush leaves what the last index
\* lists as it was, and a boot loads all of that in order.  (That a flush under
\* power ends is left to the run that checks IsDurableLog.)
THEOREM StoreIsLog ==
    ASSUME ReliableStore
    PROVE  Spec => Log!LogInit /\ [][Log!LogNext]_(Log!logVars)
<1>1. Init => Log!LogInit /\ OnDrive
  BY LogStarts, OnDriveInit
<1>2. StoreInv /\ OnDrive /\ [Next]_vars => OnDrive' /\ [Log!LogNext]_(Log!logVars)
  BY OnDriveStep
<1> QED
  BY <1>1, <1>2, StoreInvariant, PTL DEF Spec
=============================================================================
