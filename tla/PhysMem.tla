------------------------------ MODULE PhysMem ------------------------------
(***************************************************************************)
(* The physical memory manager of kernel/memory/memory.c: a bitmap of 4KB  *)
(* frames built once from the UEFI memory map, a counter of free frames    *)
(* kept beside it, and three operations that run to completion on the      *)
(* single boot processor.                                                  *)
(*                                                                         *)
(* A frame is its index (PAGE_INDEX of its address).  Index 0 is never     *)
(* handed out, so address 0 is free to mean "none".  The bitmap is the set *)
(* of the frames whose bit is 1.                                           *)
(***************************************************************************)
EXTENDS Integers, FiniteSets

CONSTANTS
    MaxFrames,  \* MAX_PHYS_MEM / PAGE_SIZE, the bits of phys_bitmap
    LowFrames,  \* 512, the frames below 2MB
    Word,       \* 2^64, where a uint64_t wraps
    Maps,       \* the memory maps the firmware may hand over
    RunSizes    \* the lengths asked of pmm_alloc_contiguous

VARIABLES
    mmap,               \* the firmware's map, read once by pmm_init
    phys_bitmap,        \* the free frames
    phys_total_pages,
    phys_free_pages,
    held                \* history: the frames handed out and not freed since

physVars == <<mmap, phys_bitmap, phys_total_pages, phys_free_pages, held>>

EFI_BOOT_SERVICES_CODE  == 3
EFI_BOOT_SERVICES_DATA  == 4
EFI_CONVENTIONAL_MEMORY == 7

\* A descriptor of the map: its type, its first frame, how many it has.
UsableTypes ==
    {EFI_CONVENTIONAL_MEMORY, EFI_BOOT_SERVICES_CODE, EFI_BOOT_SERVICES_DATA}

DescriptorFrames(d) ==
    {f \in d.start .. d.start + d.pages - 1 : f < MaxFrames}

UsableFrames(m) ==
    UNION {DescriptorFrames(d) : d \in {e \in m : e.type \in UsableTypes}}

LowArea == 0 .. LowFrames - 1

\* The frames the allocator is given to manage.
ManagedFrames(m) == UsableFrames(m) \ LowArea

Descriptors == [type : Nat, start : Nat, pages : Nat]

ASSUME SizesAssumption ==
    /\ MaxFrames \in Nat
    /\ LowFrames \in Nat \ {0}
    /\ Word \in Nat
    /\ MaxFrames < Word
    /\ RunSizes \subseteq Nat

\* What UEFI guarantees of a map (its entries do not overlap), and a machine
\* with at least 2MB of usable memory.
ASSUME MapsAssumption ==
    /\ Maps \subseteq SUBSET Descriptors
    /\ \A m \in Maps :
          /\ \A d, e \in m :
                d # e => DescriptorFrames(d) \cap DescriptorFrames(e) = {}
          /\ Cardinality(UsableFrames(m)) >= LowFrames

-----------------------------------------------------------------------------
(* A uint64_t that loses or gains n, modulo Word. *)
Minus(x, n) == IF n <= x THEN x - n ELSE (x - n) + Word
Plus(x, n)  == IF x + n < Word THEN x + n ELSE (x + n) - Word

\* pmm_init: one pass over the map counts each usable frame into both
\* counters; then the low area is marked used, and every one of its frames is
\* taken off the free counter whether the map had it or not.
Init ==
    /\ mmap \in Maps
    /\ phys_bitmap = ManagedFrames(mmap)
    /\ phys_total_pages = Cardinality(UsableFrames(mmap))
    /\ phys_free_pages = Minus(phys_total_pages, LowFrames)
    /\ held = {}

\* Both scans run from frame 512 to phys_total_pages - 1: a count of frames
\* bounds an index.
Scanned == LowFrames .. phys_total_pages - 1

Allocatable == phys_bitmap \cap Scanned

\* Mutation: the marking loop stops one frame early.
TakeAllButLast(frames, n) ==
    /\ phys_bitmap' = phys_bitmap \ {f \in frames : n = 1 \/ f + 1 \in frames}
    /\ phys_free_pages' = Minus(phys_free_pages, n)
    /\ held' = held \cup frames
    /\ UNCHANGED <<mmap, phys_total_pages>>

Take(frames, n) ==
    /\ phys_bitmap' = phys_bitmap \ frames
    /\ phys_free_pages' = Minus(phys_free_pages, n)
    /\ held' = held \cup frames
    /\ UNCHANGED <<mmap, phys_total_pages>>

PmmAlloc ==
    \/ \E f \in Allocatable :
          /\ \A g \in Allocatable : f <= g
          /\ Take({f}, 1)
    \/ /\ Allocatable = {}          \* return 0
       /\ UNCHANGED physVars

\* The first frames of the runs of n free frames; the loop compares its count
\* with n only after it has counted a frame, so n = 0 never matches.
RunStarts(n) ==
    {s \in Scanned : n > 0 /\ s .. s + n - 1 \subseteq Allocatable}

\* Mutation: one frame is taken off the counter for the whole run.
PmmAllocContiguousCountsOne(n) ==
    \/ \E s \in RunStarts(n) :
          /\ \A t \in RunStarts(n) : s <= t
          /\ Take(s .. s + n - 1, 1)
    \/ /\ RunStarts(n) = {}
       /\ UNCHANGED physVars

PmmAllocContiguous(n) ==
    \/ \E s \in RunStarts(n) :
          /\ \A t \in RunStarts(n) : s <= t
          /\ Take(s .. s + n - 1, n)
    \/ /\ RunStarts(n) = {}         \* return 0
       /\ UNCHANGED physVars

\* Mutation: a frame is counted again each time it is freed.
PmmFreeUnchecked(f) ==
    /\ phys_bitmap' = phys_bitmap \cup {f}
    /\ phys_free_pages' = Plus(phys_free_pages, 1)
    /\ held' = held \ {f}
    /\ UNCHANGED <<mmap, phys_total_pages>>

\* A frame goes back once; freeing it again finds its bit set and does nothing.
PmmFree(f) ==
    \/ /\ f \notin phys_bitmap
       /\ phys_bitmap' = phys_bitmap \cup {f}
       /\ phys_free_pages' = Plus(phys_free_pages, 1)
       /\ held' = held \ {f}
       /\ UNCHANGED <<mmap, phys_total_pages>>
    \/ /\ f \in phys_bitmap
       /\ UNCHANGED physVars

\* A caller frees what it was handed, perhaps twice.
Next ==
    \/ PmmAlloc
    \/ \E n \in RunSizes : PmmAllocContiguous(n)
    \/ \E f \in held \cup phys_bitmap : PmmFree(f)

Spec == Init /\ [][Next]_physVars

-----------------------------------------------------------------------------
\* Mutation: a used frame does not end the run.
ContiguousScanNoReset(n) ==
    LET scan[i \in LowFrames - 1 .. phys_total_pages - 1] ==
            IF i = LowFrames - 1
            THEN [run_start |-> 0, run_len |-> 0, found |-> 0]
            ELSE LET s == scan[i - 1]
                     start == IF s.run_len = 0 THEN i ELSE s.run_start
                 IN  IF s.found # 0 \/ i \notin phys_bitmap THEN s
                     ELSE [run_start |-> start,
                           run_len   |-> s.run_len + 1,
                           found     |-> IF s.run_len + 1 = n
                                         THEN start ELSE 0]
    IN  scan[phys_total_pages - 1].found

\* The single pass of pmm_alloc_contiguous up to index i: where the current
\* run starts, its length, and the first frame found (0 while none is).
ContiguousScan(n) ==
    LET scan[i \in LowFrames - 1 .. phys_total_pages - 1] ==
            IF i = LowFrames - 1
            THEN [run_start |-> 0, run_len |-> 0, found |-> 0]
            ELSE LET s == scan[i - 1]
                     start == IF s.run_len = 0 THEN i ELSE s.run_start
                 IN  IF s.found # 0 THEN s
                     ELSE IF i \notin phys_bitmap
                     THEN [run_start |-> s.run_start, run_len |-> 0, found |-> 0]
                     ELSE [run_start |-> start,
                           run_len   |-> s.run_len + 1,
                           found     |-> IF s.run_len + 1 = n
                                         THEN start ELSE 0]
    IN  scan[phys_total_pages - 1].found

\* memory_get_status, in frames.
memory_get_status ==
    [total_physical |-> phys_total_pages,
     free_physical  |-> phys_free_pages,
     used_physical  |-> Minus(phys_total_pages, phys_free_pages)]

-----------------------------------------------------------------------------
\* Type invariant of the manager's variables.
PhysTypeOK ==
    /\ mmap \in Maps
    /\ phys_bitmap \subseteq ManagedFrames(mmap)
    /\ phys_total_pages \in 0 .. MaxFrames
    /\ phys_free_pages \in 0 .. Word - 1
    /\ held \subseteq ManagedFrames(mmap)

\* Every frame the map offered above 2MB is either free or handed out, never
\* both and never lost, whatever was allocated and freed and however often
\* (the bitmap writes of pmm_alloc, pmm_alloc_contiguous and pmm_free).
FramesConserved ==
    /\ phys_bitmap \cup held = ManagedFrames(mmap)
    /\ phys_bitmap \cap held = {}

\* A status adds up: what it reports as free is no more than there is, so its
\* subtraction does not wrap, and what it leaves as used is exactly the low area
\* and the frames handed out, although pmm_init takes 512 frames off the counter
\* that the map may not have had (memory.c:124-127, 424-429).
StatusExact ==
    LET status == memory_get_status
    IN  /\ status.free_physical <= status.total_physical
        /\ status.used_physical = LowFrames + Cardinality(held)

\* The free counter lies between the frames the scans can still reach and the
\* frames whose bit says free: holes in the map separate the three.
CounterBetween ==
    /\ Cardinality(Allocatable) <= phys_free_pages
    /\ phys_free_pages <= Cardinality(phys_bitmap)

\* The loop of pmm_alloc_contiguous returns the lowest run of n free frames,
\* and 0 exactly when there is none: the reset of run_len at a used frame is
\* what makes it so.
ScanFindsLowestRun ==
    \A n \in RunSizes :
        LET s == ContiguousScan(n)
        IN  IF RunStarts(n) = {} THEN s = 0
            ELSE s \in RunStarts(n) /\ \A t \in RunStarts(n) : s <= t
=============================================================================
