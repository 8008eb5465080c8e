----------------------------- MODULE KernelHeap -----------------------------
(***************************************************************************)
(* The kernel heap of kernel/memory/memory.c on top of the physical memory *)
(* manager: kmalloc_init takes one run of frames at boot, kmalloc and      *)
(* kmalloc_aligned move a pointer through it, nothing is ever given back.  *)
(* Frames go on being allocated and freed by the rest of the kernel.       *)
(***************************************************************************)
EXTENDS PhysMem

CONSTANTS
    PageSize,       \* bytes of a frame
    HeapPages,      \* HEAP_INITIAL_SIZE / PAGE_SIZE
    HeapAlign,      \* 16
    DirectMap,      \* VIRT_PHYS_MAP_BASE
    BlockSizes,     \* the sizes asked of kmalloc
    BlockAligns     \* the alignments asked of kmalloc_aligned

ASSUME HeapAssumption ==
    /\ PageSize \in Nat \ {0}
    /\ HeapPages \in RunSizes \ {0}
    /\ HeapAlign \in Nat \ {0}
    /\ DirectMap \in Nat
    /\ BlockSizes \subseteq Nat \ {0}
    /\ BlockAligns \subseteq Nat \ {0}

VARIABLES
    heap_ptr,
    heap_end,
    heap_tried,     \* memory_init has been through kmalloc_init
    heap_start,     \* history: the first frame of the heap, 0 while there is none
    blocks          \* history: the blocks handed out

heapVars == <<heap_ptr, heap_end, heap_tried, heap_start, blocks>>
allVars  == <<physVars, heapVars>>

\* Mutation: rounding down.
RoundDown(x, a) == (x \div a) * a

\* (x + a - 1) & ~(a - 1), for a power of two a.
RoundUp(x, a) == ((x + a - 1) \div a) * a

HeapInit ==
    /\ Init
    /\ heap_ptr = 0
    /\ heap_end = 0
    /\ heap_tried = FALSE
    /\ heap_start = 0
    /\ blocks = {}

KmallocInit ==
    /\ ~heap_tried
    /\ heap_tried' = TRUE
    /\ PmmAllocContiguous(HeapPages)
    /\ \/ \E s \in RunStarts(HeapPages) :
             /\ \A t \in RunStarts(HeapPages) : s <= t
             /\ heap_start' = s
             /\ heap_ptr' = s * PageSize + DirectMap
             /\ heap_end' = heap_ptr' + HeapPages * PageSize
             /\ UNCHANGED blocks
       \/ /\ RunStarts(HeapPages) = {}
          /\ UNCHANGED <<heap_ptr, heap_end, heap_start, blocks>>

\* Mutation: the pointer moves by the size asked, not the size rounded.
AllocateAtUnrounded(p, size, align) ==
    LET rounded == RoundUp(size, HeapAlign)
    IN  IF p + rounded > heap_end
        THEN /\ heap_ptr' = p
             /\ UNCHANGED blocks
        ELSE /\ heap_ptr' = p + size
             /\ blocks' = blocks \cup
                    {[ptr |-> p, size |-> rounded, align |-> align]}

\* Mutation: the room left is checked without the size.
AllocateAtAnyRoom(p, size, align) ==
    LET rounded == RoundUp(size, HeapAlign)
    IN  IF p >= heap_end
        THEN /\ heap_ptr' = p
             /\ UNCHANGED blocks
        ELSE /\ heap_ptr' = p + rounded
             /\ blocks' = blocks \cup
                    {[ptr |-> p, size |-> rounded, align |-> align]}

\* kmalloc of size bytes when the pointer stands at p: a block, or NULL with
\* the pointer left at p.
AllocateAt(p, size, align) ==
    LET rounded == RoundUp(size, HeapAlign)
    IN  IF p + rounded > heap_end
        THEN /\ heap_ptr' = p
             /\ UNCHANGED blocks
        ELSE /\ heap_ptr' = p + rounded
             /\ blocks' = blocks \cup
                    {[ptr |-> p, size |-> rounded, align |-> align]}

Kmalloc(size) ==
    /\ heap_tried
    /\ AllocateAt(heap_ptr, size, HeapAlign)
    /\ UNCHANGED <<physVars, heap_tried, heap_start, heap_end>>

\* The pointer is aligned first, and stays there when kmalloc then fails.
KmallocAligned(size, align) ==
    /\ heap_tried
    /\ AllocateAt(RoundUp(heap_ptr, align), size, align)
    /\ UNCHANGED <<physVars, heap_tried, heap_start, heap_end>>

HeapFrames ==
    IF heap_start = 0 THEN {} ELSE heap_start .. heap_start + HeapPages - 1

\* The page tables, the swap manager and the drivers allocate and free frames
\* of their own around the heap.
PhysStep ==
    /\ \/ PmmAlloc
       \/ \E n \in RunSizes : PmmAllocContiguous(n)
       \/ \E f \in (held \ HeapFrames) \cup phys_bitmap : PmmFree(f)
    /\ UNCHANGED heapVars

HeapNext ==
    \/ KmallocInit
    \/ \E size \in BlockSizes : Kmalloc(size)
    \/ \E size \in BlockSizes, align \in BlockAligns : KmallocAligned(size, align)
    \/ PhysStep

HeapSpec == HeapInit /\ [][HeapNext]_allVars

-----------------------------------------------------------------------------
BlockBytes(b) == b.ptr .. b.ptr + b.size - 1

HeapVarsTypeOK ==
    /\ heap_ptr \in Nat
    /\ heap_end \in Nat
    /\ heap_tried \in BOOLEAN
    /\ heap_start \in Nat
    /\ blocks \subseteq [ptr : Nat, size : Nat \ {0}, align : Nat \ {0}]

\* Type invariant of the frame allocator's variables and of the heap's.
HeapTypeOK == PhysTypeOK /\ HeapVarsTypeOK

\* No byte belongs to two blocks, whatever the order of aligned and plain
\* requests and of the ones that failed after moving the pointer
\* (memory.c:405-417).
BlocksDisjoint ==
    \A a, b \in blocks : a # b => BlockBytes(a) \cap BlockBytes(b) = {}

\* Every block lies in the frames kmalloc_init took from the frame allocator
\* (seen through the direct map), and those frames are still taken: no other
\* caller of pmm_alloc is ever handed a frame of the heap.
BlocksInHeldFrames ==
    /\ HeapFrames \subseteq held
    /\ \A b \in blocks :
          /\ b.ptr >= heap_start * PageSize + DirectMap
          /\ b.ptr + b.size <= (heap_start + HeapPages) * PageSize + DirectMap
=============================================================================
