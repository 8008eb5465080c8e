---------------------------- MODULE MemoryStore ----------------------------
(***************************************************************************)
(* AION's persistent memory, consciousness/memory/aion_memory.c: an array  *)
(* of entries in RAM, record files and an index on the USB drive, flushed  *)
(* by the call that makes the FlushEvery-th entry dirty, and loaded again  *)
(* at boot.  Power may be cut between any two writes.                      *)
(*                                                                         *)
(* A memory's content is its number; a path is the directory of its type   *)
(* and its position.  The drive is external: fs.h declares the calls and   *)
(* kernel/fs/fs.c answers each with a failure until it is written, so what *)
(* the drive does is a parameter.                                          *)
(***************************************************************************)
EXTENDS Integers, Sequences, FiniteSets

CONSTANTS
    MaxMemories,    \* MAX_MEMORIES
    FlushEvery,     \* 10, the dirty entries that make a store flush
    HeapSlots,      \* how many contents the kernel heap holds; kfree is a no-op
    Kinds,          \* <<type, importance>> of the entries the callers store
    WriteOutcomes,  \* what fs_write_file_usb may do
    ReadOutcomes,   \* what fs_read_file may do
    MaxContents     \* bound of the model: how many contents are ever stored

MEM_EPISODIC == "episodic"
MEM_SEMANTIC == "semantic"
Types == {MEM_EPISODIC, MEM_SEMANTIC}

ASSUME StoreAssumption ==
    /\ MaxMemories \in Nat \ {0}
    /\ FlushEvery \in Nat \ {0}
    /\ HeapSlots \in Nat
    /\ MaxContents \in Nat
    /\ Kinds \subseteq Types \X (0 .. 255)
    /\ WriteOutcomes \subseteq {"written", "lost"}
    /\ ReadOutcomes \subseteq {"read", "failed"}

VARIABLES
    mem_store,      \* the entries, mem_count of them
    mem_dirty,
    heap_left,      \* contents the heap still has room for
    files,          \* the record files on the drive
    index,          \* index.bin: the paths it lists
    next,           \* the number of the next content
    pc              \* "off", "idle" between calls, "flush" inside a flush

vars == <<mem_store, mem_dirty, heap_left, files, index, next, pc>>
ram  == <<mem_store, mem_dirty, heap_left>>

NoFile  == [id |-> 0]
NoIndex == <<>>     \* a flush follows an append: no index it writes is empty

Positions == 1 .. MaxMemories
Paths     == Types \X Positions
Path(e, i) == <<e.type, i>>

Records == [id : 1 .. MaxContents, type : Types, importance : 0 .. 255]
Entries == [id : 1 .. MaxContents, type : Types, importance : 0 .. 255,
            dirty : BOOLEAN]

Record(e) == [id |-> e.id, type |-> e.type, importance |-> e.importance]
Entry(r, dirty) ==
    [id |-> r.id, type |-> r.type, importance |-> r.importance, dirty |-> dirty]

\* Mutation: a loaded entry counts as unsaved.
LoadedDirty(r) == Entry(r, TRUE)

Loaded(r) == Entry(r, FALSE)

DirtyAt(s) == {i \in DOMAIN s : s[i].dirty}

Init ==
    /\ mem_store = <<>>
    /\ mem_dirty = 0
    /\ heap_left = HeapSlots
    /\ files = [p \in Paths |-> NoFile]
    /\ index = NoIndex
    /\ next = 1
    /\ pc = "off"

-----------------------------------------------------------------------------
\* The positions of the index load_all takes in: the file is there and was
\* read, and the heap has room for its content.
Kept(unread) ==
    LET good == {i \in DOMAIN index : files[index[i]] # NoFile} \ unread
    IN  {i \in good : Cardinality({j \in good : j <= i}) <= HeapSlots}

\* The n-th smallest member of a set of positions.
Nth(S, n) == CHOOSE i \in S : Cardinality({j \in S : j <= i}) = n

\* Mutation: the pointer into the index is not advanced.
LoadAllStuck(unread) ==
    [n \in 1 .. Cardinality(Kept(unread)) |->
        Loaded(files[index[Nth(Kept(unread), 1)]])]

\* aion_memory_load_all: what is skipped leaves no gap, so what follows moves
\* to a smaller position than its path says.
LoadAll(unread) ==
    [n \in 1 .. Cardinality(Kept(unread)) |->
        Loaded(files[index[Nth(Kept(unread), n)]])]

\* aion_memory_init, then load_all if there is an index.
Boot ==
    /\ pc = "off"
    /\ pc' = "idle"
    /\ mem_dirty' = 0
    /\ \/ /\ index # NoIndex
          /\ "read" \in ReadOutcomes
          /\ \E unread \in SUBSET DOMAIN index :
                /\ "failed" \in ReadOutcomes \/ unread = {}
                /\ mem_store' = LoadAll(unread)
                /\ heap_left' = HeapSlots - Cardinality(Kept(unread))
       \/ /\ index = NoIndex \/ "failed" \in ReadOutcomes
          /\ mem_store' = <<>>
          /\ heap_left' = HeapSlots
    /\ UNCHANGED <<files, index, next>>

\* Mutation: the search does not look at the type.
WorstOfAll(s) ==
    CHOOSE i \in DOMAIN s : \A j \in DOMAIN s :
        \/ s[i].importance < s[j].importance
        \/ s[i].importance = s[j].importance /\ i <= j

\* The entry a full store gives up: the first of the least important episodic
\* ones, and entry 0 when the search has met none below importance 255.
Worst(s) ==
    LET episodic == {i \in DOMAIN s : /\ s[i].type = MEM_EPISODIC
                                      /\ s[i].importance < 255}
    IN  IF episodic = {} THEN 1
        ELSE CHOOSE i \in episodic : \A j \in episodic :
                \/ s[i].importance < s[j].importance
                \/ s[i].importance = s[j].importance /\ i <= j

\* memmove of the entries above position i one place down.
ShiftDown(s, i) ==
    [j \in 1 .. Len(s) - 1 |-> IF j < i THEN s[j] ELSE s[j + 1]]

\* Mutation: the store evicts one entry too late.
EvictLate(s) ==
    IF Len(s) > MaxMemories THEN ShiftDown(s, Worst(s)) ELSE s

Evict(s) ==
    IF Len(s) >= MaxMemories THEN ShiftDown(s, Worst(s)) ELSE s

\* aion_memory_store: evict if full, copy the content, append, flush if enough
\* entries are dirty.  Without heap for the content it returns having evicted.
Store(kind) ==
    /\ pc = "idle"
    /\ \/ /\ heap_left > 0
          /\ next <= MaxContents
          /\ mem_store' = Append(Evict(mem_store),
                [id |-> next, type |-> kind[1], importance |-> kind[2],
                 dirty |-> TRUE])
          /\ mem_dirty' = mem_dirty + 1
          /\ heap_left' = heap_left - 1
          /\ next' = next + 1
          /\ pc' = IF mem_dirty' >= FlushEvery THEN "flush" ELSE "idle"
       \/ /\ heap_left = 0
          /\ mem_store' = Evict(mem_store)
          /\ UNCHANGED <<mem_dirty, heap_left, next, pc>>
    /\ UNCHANGED <<files, index>>

\* aion_memory_flush, one record: the entry is clean whatever the write did.
FlushRecord ==
    /\ pc = "flush"
    /\ \E i \in DirtyAt(mem_store) :
          /\ \A j \in DirtyAt(mem_store) : i <= j
          /\ mem_store' = [mem_store EXCEPT ![i] = Entry(@, FALSE)]
          /\ \/ /\ "written" \in WriteOutcomes
                /\ files' = [files EXCEPT ![Path(mem_store[i], i)] =
                                Record(mem_store[i])]
             \/ /\ "lost" \in WriteOutcomes
                /\ UNCHANGED files
    /\ UNCHANGED <<mem_dirty, heap_left, index, next, pc>>

\* The paths of all entries, from their positions now.
IndexOf(s) == [i \in DOMAIN s |-> Path(s[i], i)]

\* Mutation: the index is written before the records it lists.
FlushIndexFirst ==
    /\ pc = "flush"
    /\ \/ "written" \in WriteOutcomes /\ index' = IndexOf(mem_store)
       \/ "lost" \in WriteOutcomes /\ UNCHANGED index
    /\ mem_dirty' = 0
    /\ pc' = "idle"
    /\ UNCHANGED <<mem_store, heap_left, files, next>>

\* Then the index, and the flush is over.
FlushIndex ==
    /\ pc = "flush"
    /\ DirtyAt(mem_store) = {}
    /\ \/ "written" \in WriteOutcomes /\ index' = IndexOf(mem_store)
       \/ "lost" \in WriteOutcomes /\ UNCHANGED index
    /\ mem_dirty' = 0
    /\ pc' = "idle"
    /\ UNCHANGED <<mem_store, heap_left, files, next>>

Crash ==
    /\ pc # "off"
    /\ pc' = "off"
    /\ mem_store' = <<>>
    /\ mem_dirty' = 0
    /\ heap_left' = HeapSlots
    /\ UNCHANGED <<files, index, next>>

Next ==
    \/ Boot
    \/ \E kind \in Kinds : Store(kind)
    \/ FlushRecord
    \/ FlushIndex
    \/ Crash

\* A flush runs inside the call that started it: while there is power it goes on.
Fairness == WF_vars(FlushRecord) /\ WF_vars(FlushIndex)

Spec == Init /\ [][Next]_vars /\ Fairness

-----------------------------------------------------------------------------
Ids(s) == [i \in DOMAIN s |-> s[i].id]

\* What a boot would load now if every read succeeded.
Recoverable == Ids(LoadAll({}))

\* The store as a log: the entries in RAM are live, what a boot would load is
\* saved.
Log == INSTANCE DurableLog WITH
          Memories <- 1 .. MaxContents,
          Window   <- FlushEvery,
          up       <- pc # "off",
          live     <- Ids(mem_store),
          saved    <- Recoverable

\* Type invariant of the store and of the drive.
StoreTypeOK ==
    /\ mem_store \in Seq(Entries) /\ Len(mem_store) <= MaxMemories
    /\ mem_dirty \in 0 .. FlushEvery
    /\ heap_left \in 0 .. HeapSlots
    /\ files \in [Paths -> Records \cup {NoFile}]
    /\ index \in Seq(Paths) /\ Len(index) <= MaxMemories
    /\ next \in 1 .. MaxContents + 1
    /\ pc \in {"off", "idle", "flush"}

\* mem_dirty never counts fewer entries than are dirty, although an evicted
\* entry is not taken off it: whenever it stands at 0 nothing is left unsaved,
\* which is what the early return of aion_memory_flush relies on.
DirtyCounted ==
    /\ pc = "idle" => mem_dirty < FlushEvery
    /\ pc # "flush" => Cardinality(DirtyAt(mem_store)) <= mem_dirty
    /\ Cardinality(DirtyAt(mem_store)) <= FlushEvery

\* A memory is in RAM once and in one file, whatever was evicted, lost,
\* reloaded or interrupted: a record is written at most once, while dirty.
NoDuplicates ==
    /\ \A i, j \in DOMAIN mem_store :
          mem_store[i].id = mem_store[j].id => i = j
    /\ \A p, q \in Paths :
          files[p] # NoFile /\ files[p].id = files[q].id => p = q

\* Entry i of the store goes to make room for another.
Evicted(i) ==
    /\ pc = "idle" /\ pc' # "off"
    /\ ~ \E j \in DOMAIN mem_store' : mem_store'[j].id = mem_store[i].id

\* A full store gives up experiences before facts, of whatever importance either
\* are (aion_memory.c:169, "Evict least important episodic memory"): a fact goes
\* only when no experience is left.  So importance does not determine the order
\* of eviction, as aion_memory.c:19 says, but only that of the experiences.
FactsEvictedLast ==
    [][\A i \in DOMAIN mem_store :
          Evicted(i) /\ mem_store[i].type = MEM_SEMANTIC
          => ~ \E j \in DOMAIN mem_store : mem_store[j].type = MEM_EPISODIC
      ]_vars

\* On a drive that keeps what it is told and while nothing is evicted, the
\* store is a durable log: a power cut at any write loses at most the newest
\* FlushEvery memories and no boot loads anything else (aion_memory.c:201, "Flush
\* to USB every 10 new entries").  The head of the file promises more, a flush
\* "After each consciousness tick" (aion_memory.c:17), which no tick makes: up to
\* FlushEvery - 1 memories stay unsaved over any number of ticks.
IsDurableLog == Log!LogSpec

\* aion_memory.c:65, dirty means "needs flush to USB": between calls an entry
\* that is not dirty is on the drive, where the next boot finds it.
CleanIsOnDrive ==
    pc = "idle" =>
        \A i \in DOMAIN mem_store :
            mem_store[i].dirty
                \/ \E j \in DOMAIN Recoverable : Recoverable[j] = mem_store[i].id
=============================================================================
