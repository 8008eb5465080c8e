------------------------------ MODULE VirtMem ------------------------------
(***************************************************************************)
(* The virtual memory manager and the page fault handler of                *)
(* kernel/memory/memory.c, on top of the physical memory manager.  A page  *)
(* table is a frame whose words are entries; an operation walks down from  *)
(* kernel_pml4 one level at a time, and allocates the tables it misses, so *)
(* it may fail when it has linked some of them already.                    *)
(*                                                                         *)
(* Frames are read and written through the direct map, taken to work.      *)
(* What is written through the mappings themselves is not modelled.        *)
(***************************************************************************)
EXTENDS PhysMem

CONSTANTS
    Levels,         \* 4
    TableSize,      \* 512, the entries of a table
    Span,           \* by level, the pages below one entry: the shifts 12, 21, 30, 39
    IdentityPages,  \* 2GB / PAGE_SIZE
    DirectPages,    \* 4GB / PAGE_SIZE
    DirectBase,     \* VIRT_PHYS_MAP_BASE / PAGE_SIZE
    Pages,          \* the pages later callers map and unmap
    Targets,        \* the frames they map them to
    SwapCapacity    \* SWAP_MAX_PAGES

ASSUME VirtAssumption ==
    /\ Levels \in Nat \ {0}
    /\ TableSize \in Nat \ {0}
    /\ Span \in [1 .. Levels -> Nat \ {0}]
    /\ Span[1] = 1
    /\ \A l \in 1 .. Levels - 1 : Span[l + 1] = Span[l] * TableSize
    /\ IdentityPages \in 0 .. MaxFrames
    /\ DirectPages \in 0 .. MaxFrames
    /\ DirectBase \in Nat
    /\ Pages \subseteq Nat
    /\ Targets \subseteq 0 .. MaxFrames - 1
    /\ MaxFrames > 1
    /\ SwapCapacity \in 0 .. Word - 1

VARIABLES
    content,        \* the words of every frame, read as entries
    kernel_pml4,    \* 0 before vmm_init
    boot,           \* "off", "mapping", "active", "failed"
    mapped,         \* the vmm_map calls vmm_init has made
    call,           \* the operation that is walking
    swap_used,
    halted,
    level           \* history: the level of a frame made a table, else 0

tableVars == <<content, kernel_pml4, level>>
vars == <<physVars, content, kernel_pml4, boot, mapped, call, swap_used, halted, level>>

Frames  == 0 .. MaxFrames - 1
Indices == 0 .. TableSize - 1

\* An entry: PTE_PRESENT, PTE_SWAPPED, PTE_NX, and the frame.
Entry == [present : BOOLEAN, swapped : BOOLEAN, nx : BOOLEAN, frame : Frames]

Empty == [present |-> FALSE, swapped |-> FALSE, nx |-> FALSE, frame |-> 0]
Swapped == [Empty EXCEPT !.swapped = TRUE]
Present(f, nx) == [present |-> TRUE, swapped |-> FALSE, nx |-> nx, frame |-> f]

\* What memory holds before anybody has written it.
Stale == Present(1, TRUE)

Table == [Indices -> Entry]

\* Mutation: the new table is not zeroed.
NewTableStale == [i \in Indices |-> Stale]

NewTable == [i \in Indices |-> Empty]

\* The bits of a virtual address that index the table of level l; the bits
\* above the top level's are not looked at.
Index(page, l) == (page \div Span[l]) % TableSize

\* The pages the indices tell apart.
Slots == 0 .. Span[Levels] * TableSize - 1

NoCall == [op |-> "none", page |-> 0, entry |-> Empty, level |-> 0, table |-> 0]

Call(op, page, e) ==
    [op |-> op, page |-> page, entry |-> e, level |-> Levels, table |-> kernel_pml4]

VirtInit ==
    /\ Init
    /\ content = [f \in Frames |-> [i \in Indices |-> Stale]]
    /\ kernel_pml4 = 0
    /\ boot = "off"
    /\ mapped = 0
    /\ call = NoCall
    /\ swap_used = 0
    /\ halted = FALSE
    /\ level = [f \in Frames |-> 0]

Idle == call = NoCall /\ ~halted

-----------------------------------------------------------------------------
\* vmm_init up to its loops: without a frame it gives up and boot goes on.
VmmInit ==
    /\ Idle
    /\ boot = "off"
    /\ PmmAlloc
    /\ \/ \E f \in held' \ held :
             /\ kernel_pml4' = f
             /\ content' = [content EXCEPT ![f] = NewTable]
             /\ level' = [level EXCEPT ![f] = Levels]
             /\ boot' = "mapping"
       \/ /\ held' = held
          /\ boot' = "failed"
          /\ UNCHANGED tableVars
    /\ UNCHANGED <<mapped, call, swap_used, halted>>

\* Mutation: both loops in one, with one bound too high.
InitMapLate ==
    /\ Idle
    /\ boot = "mapping"
    /\ \/ /\ mapped <= IdentityPages + DirectPages
          /\ call' = IF mapped < IdentityPages
                     THEN Call("map", mapped, Present(mapped, FALSE))
                     ELSE Call("map", DirectBase + (mapped - IdentityPages),
                               Present(mapped - IdentityPages, TRUE))
          /\ mapped' = mapped + 1
          /\ UNCHANGED boot
       \/ /\ mapped > IdentityPages + DirectPages
          /\ boot' = "active"
          /\ UNCHANGED <<call, mapped>>
    /\ UNCHANGED <<physVars, tableVars, swap_used, halted>>

\* The loops of vmm_init, a call of vmm_map at a time: the identity map, then
\* the direct map, without a look at what vmm_map returns; then CR3 is loaded.
InitMap ==
    /\ Idle
    /\ boot = "mapping"
    /\ \/ /\ mapped < IdentityPages
          /\ call' = Call("map", mapped, Present(mapped, FALSE))
          /\ mapped' = mapped + 1
          /\ UNCHANGED boot
       \/ /\ mapped \in IdentityPages .. IdentityPages + DirectPages - 1
          /\ LET p == mapped - IdentityPages
             IN  call' = Call("map", DirectBase + p, Present(p, TRUE))
          /\ mapped' = mapped + 1
          /\ UNCHANGED boot
       \/ /\ mapped = IdentityPages + DirectPages
          /\ boot' = "active"
          /\ UNCHANGED <<call, mapped>>
    /\ UNCHANGED <<physVars, tableVars, swap_used, halted>>

VmmMap(page, f, nx) ==
    /\ Idle
    /\ boot = "active"
    /\ call' = Call("map", page, Present(f, nx))
    /\ UNCHANGED <<physVars, tableVars, boot, mapped, swap_used, halted>>

VmmUnmap(page) ==
    /\ Idle
    /\ boot = "active"
    /\ call' = Call("unmap", page, Empty)
    /\ UNCHANGED <<physVars, tableVars, boot, mapped, swap_used, halted>>

\* The entry the walk has come to.
Here == content[call.table][Index(call.page, call.level)]

WriteHere(e) ==
    content' = [content EXCEPT ![call.table][Index(call.page, call.level)] = e]

\* Mutation: the walk goes on in the same table.
DescendStays ==
    /\ call.level > 1
    /\ Here.present
    /\ call' = [call EXCEPT !.level = @ - 1]
    /\ UNCHANGED <<physVars, tableVars, halted>>

\* vmm_get_pte, one pass of its loop: down to the next table.
Descend ==
    /\ call.level > 1
    /\ Here.present
    /\ call' = [call EXCEPT !.level = @ - 1, !.table = Here.frame]
    /\ UNCHANGED <<physVars, tableVars, halted>>

\* The table is missing and create is true: a frame is zeroed and linked.
CreateTable ==
    /\ call.level > 1
    /\ ~ Here.present
    /\ call.op = "map"
    /\ PmmAlloc
    /\ \E f \in held' \ held :
          /\ content' = [content EXCEPT
                ![f] = NewTable,
                ![call.table][Index(call.page, call.level)] = Present(f, FALSE)]
          /\ level' = [level EXCEPT ![f] = call.level - 1]
          /\ call' = [call EXCEPT !.level = @ - 1, !.table = f]
    /\ UNCHANGED <<kernel_pml4, halted>>

\* It is missing and stays so: NULL.  vmm_map and vmm_unmap return, the page
\* fault handler halts the machine.
WalkFails ==
    /\ call.level > 1
    /\ ~ Here.present
    /\ call.op # "map" \/ Allocatable = {}
    /\ call' = NoCall
    /\ halted' = (call.op = "fault")
    /\ UNCHANGED <<physVars, tableVars>>

Walk ==
    /\ call # NoCall
    /\ Descend \/ CreateTable \/ WalkFails
    /\ UNCHANGED <<boot, mapped, swap_used>>

\* The entry of the page itself: vmm_map writes it, vmm_unmap clears it if it
\* is present.
SetEntry ==
    /\ call.op \in {"map", "unmap"}
    /\ IF call.op = "map" \/ Here.present
       THEN WriteHere(call.entry)
       ELSE UNCHANGED content
    /\ UNCHANGED <<physVars, swap_used, halted>>

\* Nobody writes PTE_SWAPPED yet; its encoding and the handler say what an
\* eviction will do: an entry no longer present, one more page in swap.
SwapOut ==
    /\ call.op = "evict"
    /\ WriteHere(Swapped)
    /\ swap_used' = swap_used + 1
    /\ UNCHANGED <<physVars, halted>>

\* The handler gives the swapped page a frame, writable and executable.
SwapIn ==
    /\ call.op = "fault"
    /\ Here.swapped
    /\ PmmAlloc
    /\ \E f \in held' \ held : WriteHere(Present(f, FALSE))
    /\ swap_used' = Minus(swap_used, 1)
    /\ UNCHANGED halted

\* It has none to give and halts.
SwapInHalts ==
    /\ call.op = "fault"
    /\ Here.swapped
    /\ Allocatable = {}
    /\ halted' = TRUE
    /\ UNCHANGED <<physVars, content, swap_used>>

AtEntry ==
    /\ call.level = 1
    /\ SetEntry \/ SwapOut \/ SwapIn \/ SwapInHalts
    /\ call' = NoCall
    /\ UNCHANGED <<kernel_pml4, boot, mapped, level>>

\* Mutation: the access that faulted is passed over.
RefaultPasses ==
    /\ call.op = "fault"
    /\ call.level = 1
    /\ ~ Here.swapped
    /\ call' = NoCall
    /\ UNCHANGED <<physVars, tableVars, boot, mapped, swap_used, halted>>

\* The page is not in swap: that is logged, the handler returns, and the
\* instruction faults again.
Refault ==
    /\ call.op = "fault"
    /\ call.level = 1
    /\ ~ Here.swapped
    /\ call' = Call("fault", call.page, Empty)
    /\ UNCHANGED <<physVars, tableVars, boot, mapped, swap_used, halted>>

-----------------------------------------------------------------------------
\* The table of level l on the way to a page, 0 if one above it is missing.
TableAt(page, l) ==
    LET table[k \in 1 .. Levels] ==
            IF k = Levels THEN kernel_pml4
            ELSE LET up == table[k + 1]
                 IN  IF up = 0 THEN 0
                     ELSE IF content[up][Index(page, k + 1)].present
                     THEN content[up][Index(page, k + 1)].frame
                     ELSE 0
    IN  table[l]

\* The entry of a page, through the tables as they are.
PteOf(page) ==
    IF TableAt(page, 1) = 0 THEN Empty
    ELSE content[TableAt(page, 1)][Index(page, 1)]

\* An access to a page that is not present.
PageFault(page) ==
    /\ Idle
    /\ boot = "active"
    /\ ~ PteOf(page).present
    /\ call' = Call("fault", page, Empty)
    /\ UNCHANGED <<physVars, tableVars, boot, mapped, swap_used, halted>>

Evict(page) ==
    /\ Idle
    /\ boot = "active"
    /\ PteOf(page).present
    /\ swap_used < SwapCapacity
    /\ call' = Call("evict", page, Empty)
    /\ UNCHANGED <<physVars, tableVars, boot, mapped, swap_used, halted>>

\* Others allocate frames, and free what they were handed: not the tables.
OthersAlloc ==
    /\ Idle
    /\ boot \in {"active", "failed"}
    /\ PmmAlloc \/ \E f \in {g \in held : level[g] = 0} : PmmFree(f)
    /\ UNCHANGED <<tableVars, boot, mapped, call, swap_used, halted>>

VirtNext ==
    \/ VmmInit
    \/ InitMap
    \/ \E page \in Pages, f \in Targets, nx \in BOOLEAN : VmmMap(page, f, nx)
    \/ \E page \in Pages : VmmUnmap(page) \/ PageFault(page) \/ Evict(page)
    \/ Walk
    \/ AtEntry
    \/ Refault
    \/ OthersAlloc

VirtSpec == VirtInit /\ [][VirtNext]_vars

\* An operation that has begun goes on: it is straight code, and one processor
\* runs nothing else meanwhile.
VirtFairSpec == VirtSpec /\ WF_vars(Walk) /\ WF_vars(AtEntry)

-----------------------------------------------------------------------------
PageTable == INSTANCE PageMap WITH
                Slots   <- Slots,
                Entries <- {Swapped} \cup {Present(f, nx) : f \in Frames, nx \in BOOLEAN},
                None    <- Empty,
                Absent  <- LAMBDA e : ~ e.present,
                entry   <- [s \in Slots |-> PteOf(s)]

\* Type invariant.
VirtTypeOK ==
    /\ content \in [Frames -> Table]
    /\ kernel_pml4 \in Frames
    /\ boot \in {"off", "mapping", "active", "failed"}
    /\ mapped \in 0 .. IdentityPages + DirectPages
    /\ call \in [op : {"none", "map", "unmap", "fault", "evict"}, page : Nat, entry : Entry,
                 level : 0 .. Levels, table : Frames]
    /\ swap_used \in Nat
    /\ halted \in BOOLEAN
    /\ level \in [Frames -> 0 .. Levels]

\* Where an entry of a table above level 1 may lead.
Links == {x \in Frames \X Indices : level[x[1]] > 1 /\ content[x[1]][x[2]].present}
LinkedTo(link) == content[link[1]][link[2]].frame

TablesHeld  == \A f \in Frames : level[f] # 0 => f \in held
RootIsTop   == \A f \in Frames : level[f] = Levels <=> f = kernel_pml4 /\ f # 0
LinksDown   == \A link \in Links :
                  /\ LinkedTo(link) \in Frames
                  /\ level[LinkedTo(link)] = level[link[1]] - 1
LinksUnique == \A a, b \in Links : LinkedTo(a) = LinkedTo(b) => a = b
WalkInTree  == call # NoCall => call.level >= 1 /\ level[call.table] = call.level

\* The tables form a tree below kernel_pml4, in frames the allocator has handed
\* out and hands to nobody else: every present entry leads one level down, no
\* table hangs from two entries, and a walk stands on a table of its level.
TablesFormTree ==
    TablesHeld /\ RootIsTop /\ LinksDown /\ LinksUnique /\ WalkInTree

\* Whatever tables it makes, and whether it then fails or not, an operation
\* changes the translation of its own page only, and in one step.
IsPageMap == PageTable!MapSpec

Faults(page) == call.op = "fault" /\ call.page = page

\* An access that faulted goes on only with its page present and one page fewer
\* in swap, a count that never wraps (memory.c:359), or the machine has halted.
FaultsEndMapped ==
    [][\A page \in Pages : Faults(page) /\ ~ Faults(page)' =>
           \/ PteOf(page)'.present /\ swap_used' = swap_used - 1
           \/ halted']_vars

\* So it ends; and if the page is in swap it does end, with the page present or,
\* for want of a frame, with the machine halted.  A page that is not in swap is
\* waited for without end (memory.c:340-363).
FaultsServed ==
    /\ FaultsEndMapped
    /\ \A page \in Pages :
          Faults(page) /\ PteOf(page).swapped ~> PteOf(page).present \/ halted

\* memory.c:271 "Identity-map first 2GB (for kernel loaded at 1MB)": after
\* vmm_init the identity-mapped pages lead to their own frames and may be
\* executed.
IdentityHolds ==
    boot = "active" =>
        \A page \in 0 .. IdentityPages - 1 : PteOf(page) = Present(page, FALSE)
=============================================================================
