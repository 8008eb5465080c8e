# AION-OS: a verification development

AION-OS is a UEFI bootloader, a single-processor x86-64 kernel without
processes, and a "consciousness": a loop that feeds sensor readings to a
language model, executes the action tags it finds in the model's output and
keeps what was said as memories on the boot drive. This directory holds TLA+
models of its parts, the TLC runs that check them on small instances and the
theorems TLAPS proves about them for every size.

## Inventory

Everything below the interrupt level runs to completion on one processor; the
boot order is `kernel_main` (`src/kernel/kernel.c:33-113`), whose last call is
the endless `consciousness_run`.

| Component | State | Operations | Interacts with | What is hard |
|---|---|---|---|---|
| Physical memory manager, `memory.c:55-179` | `phys_bitmap`, `phys_total_pages`, `phys_free_pages` | `pmm_init`, `pmm_alloc`, `pmm_alloc_contiguous`, `pmm_free` | firmware map; callers VMM, swap, heap | a counter kept beside a bitmap, a bound that is a count used as an index, holes in the map, double frees |
| Virtual memory manager, `181-286` | page tables in allocated frames, `kernel_pml4` | `vmm_map`, `vmm_unmap`, `vmm_virt_to_phys`, `vmm_init` | PMM, CR3 | running out of frames half way down, two mappings over one table |
| Swap and page fault, `288-379` | `swap_used`, `swap_capacity`, PTE bits | `swap_init`, the handler of vector 14 | VMM, PMM, IDT | runs inside an exception, counter wrap, endless refault |
| Kernel heap, `381-420` | `heap_ptr`, `heap_end` | `kmalloc_init`, `kmalloc`, `kmalloc_aligned` | PMM; callers memory store, cam, mic | alignment moved before failure, failed initialisation |
| Interrupts, `idt.c` | `idt`, `user_handlers`, `user_handler_ctx`, PIC masks | register, unregister, dispatch, mask, unmask | PIC, swap handler | registration against delivery, the cascade line |
| Bootloader, `bootloader.c`, and kernel entry, `entry.asm` | `boot_info`, the memory map and its key, RDI | load, read map, exit, jump; clear the .bss | firmware, PMM, kernel main | a map made stale by the firmware or by its own buffer, memory in use listed as free, an argument overwritten on the way |
| Kernel main, `kernel.c` | how far the boot has come | the check of `boot_info`, 14 inits announced and confirmed on the screen | every part | parts that are missing, a device out of the page tables' reach |
| Display, `display.c` | the screen's size, the cursor | init, clear, print | kernel main, actions | lines broken and pages begun anew at any width, prints before the init |
| Senses, `senses.c` | `boot_tick`, `ticks_per_ms`, `prev_luma` | `senses_init`, `senses_capture` | camera, microphone, loop | a divisor and a loop bound that must agree, an integer root, the change since a picture that may not exist |
| PCI, USB, NVMe, audio, network, camera, microphone | ready flags, the bus master bits | `pci_find_class`, the inits | bus, heap, page tables | a device at another function, two of a class, a failed allocation |
| Consciousness loop, `consciousness.c` | `tick`, `output_buf`, `sense_buf` | `consciousness_init`, one tick of `consciousness_run` | all of the following | what survives a reboot, what is fed back |
| Actions, `action.c` | `action_results`, `action_result_count` | parse, dispatch, 20-odd handlers, `action_get_results_str` | memory store, drivers, file system | matching order, a queue nothing drains |
| Memory store, `aion_memory.c` | `mem_store`, `mem_count`, `mem_dirty`; record files and `index.bin` | init, `load_all`, `store` (with eviction), `flush`, two queries | heap, file system | power cuts between writes, positions as file names, lost writes, a fixed index buffer |
| Working memory, `llm.c` | `context_tokens`, `context_len`; KV cache of llama.cpp | `llm_feed`, `llm_think` | llama.cpp | compaction at the limit, cache against array |
| Serial log, GDT, scheduler, system calls, file system | | stubs, tables written once, output | | `audio_play_tone` (audio) divides by its argument |

What makes each correct: no frame lost or handed out twice and counters that
agree with the bitmap (PMM); blocks disjoint and inside frames nobody else is
handed (heap); a translation equal to the last mapping made (VMM); each
interrupt delivered to the handler registered for it with its own context
(IDT); a memory kept from its flush on, in order and once (memory store);
bounds, order and forgetting from the oldest end (working memory); each tag to
the handler it names and each result to the next context (actions); a map that is
the firmware's last and an argument that is the loader's (bootloader, entry); a
boot that ends whatever is missing (kernel main); letters that neither leave the
screen nor cover each other (display); readings equal to what was delivered
(senses); one device to a driver and a driver to each device (PCI). The list
of hazards, each at its line, is in `PROJECT.json`.

## Modules

| Module | Models | Role |
|---|---|---|
| `PhysMem` | `memory.c:57-179`, `424-429` | the frame allocator |
| `KernelHeap` | `memory.c:381-420` | the heap, composed with `PhysMem` (EXTENDS it; every other user of frames is `PhysStep`) |
| `VirtMem` | `memory.c:181-286`, `303-365` | page tables and the page fault handler, composed with `PhysMem` (EXTENDS it) |
| `PageMap` | | abstract specification: what a caller of the virtual memory manager may rely on |
| `KernelMemoryProofs` | | theorems about these three |
| `MCVirtMem` | | memory maps and spans of small tables for TLC |
| `MCKernelHeap` | | memory maps for TLC |
| `Induction` | | lemmas for the proofs: induction over numbers, counting, recursive functions |
| `DurableLog` | | abstract specification: what the memory store promises |
| `MemoryStore` | `aion_memory.c:34-260` | the memory store, record by record, with power cuts |
| `MemoryStoreProofs`, `MCMemoryStore` | | theorems; what the callers store, what the drive may do |
| `LlmContext` | `llm.c:20-159` | the working memory and its cache |
| `LlmContextProofs`, `MCLlmContext` | | theorems; lengths of token texts |
| `Interrupts` | `idt.c:51-238` | the table of handlers, the masks of the two PICs, dispatch |
| `InterruptsProofs`, `MCInterrupts` | | theorems; which lines have an entry |
| `Actions` | `action.c`, `audio.c:68-85` | the scan of a text for tags, the handlers and their queue of results |
| `Mind` | `consciousness.c:51-154` | the loop of life, composed of `Actions` and `DurableLog` (EXTENDS both) |
| `MindProofs`, `MCMind` | | theorems; texts |
| `Boot` | `bootloader.c:96-167`, `entry.asm:25-77`, `kernel.c:33-37` | from the firmware to `kernel_main` |
| `BootProofs` | | theorems |
| `Display` | `display.c` | the screen as `display_print_string` fills it |
| `Senses` | `senses.c:22-111` | the snapshot, its square root bit by bit |
| `Kernel` | `kernel.c:28-113` and the inits it calls | the boot and the life of the senses, composed of `Display` and `Senses` (EXTENDS both) |
| `KernelProofs`, `MCKernel` | | theorems; machines, texts and frames for TLC |

### PhysMem and KernelHeap

The bitmap is the set of free frames. `Init` is `pmm_init` over any map in
`Maps`; `PmmAlloc`, `PmmAllocContiguous(n)`, `PmmFree(f)` are the three
operations, each with its failure branch. Nothing in the kernel calls
`pmm_free` yet; it is modelled as the interface `memory.h` offers, called with
frames that were handed out, once or again. `ContiguousScan` is the loop of
`pmm_alloc_contiguous` index by index, with its running length; the property
`ScanFindsLowestRun` compares it with the declarative `RunStarts` that the
action uses. `held` is a history variable: the frames handed out.

`KernelHeap` adds the bump pointer. A request is `AllocateAt`: the branch
that fails still leaves the pointer where `kmalloc_aligned` moved it. `blocks`
and `heap_start` are history. `HeapInit` leaves the pointers at 0, as they are
before `memory_init`; requests before `KmallocInit` do not exist in the code.

Assumed of a memory map (`MapsAssumption`): descriptors do not overlap, as
UEFI demands, and at least 2MB of memory is usable. A map with fewer usable
frames would wrap the free counter in `pmm_init`; no machine that can load the
kernel at 1MB has so few. Sums of addresses are not wrapped: the heap lies at
`VIRT_PHYS_MAP_BASE` plus at most 128GB, far from 2^64; requests near 2^64 are
made by no caller. The free counter is modelled modulo `Word`.

### VirtMem and PageMap

A page table is a frame whose words are entries; `content` holds the words of
every frame, also of those that are no table, because a frame handed out holds
what was last written there. `Stale` is what a frame holds before anybody
writes it: entries that look present. An entry is reduced to what the
handler, the walk and the properties tell apart: present, swapped, no-execute,
frame.

`vmm_get_pte` is a walk with an action for each outcome of a pass of its loop:
`Descend`, `CreateTable` (allocate, zero, link) and `WalkFails`; `AtEntry` is
what the caller then does with the entry. `call` is the operation that walks,
so the states between two levels exist and the failure half way down, which
leaves the tables linked so far, is a state like any other. Operations do not
interleave with each other: one processor, and interrupts that do not map.
`InitMap` is the two loops of `vmm_init`, which ignore the result of
`vmm_map`. If the root cannot be allocated (`boot = "failed"`) boot goes on
with the firmware's tables, and only other users of frames run.

After boot, `VmmMap` and `VmmUnmap` are the interface of `memory.h` (nothing
else in the kernel calls it yet). `PageFault` is an access to a page that is
not present; the handler swaps in, or halts with interrupts disabled
(`halted`), or logs and returns to the instruction, which faults again
(`Refault`). No code sets `PTE_SWAPPED`: `Evict` and `SwapOut` stand for the
eviction the handler and the encoding of entries are written for, and count the
page they put away. `FaultsServed` is what a fault may expect: it ends only
with the page present and one page less in swap, or with the machine halted
(`FaultsEndMapped`), and on a swapped page it ends. That today's code never
increments `swap_used` does not contradict it: it is about the handler's side
of the count. A fault on a page that is not in swap is promised nothing, and
may go round for ever.

The frames are reached through the direct map, which the model takes to work.
It does not as the code stands: `VIRT_PHYS_MAP_BASE` is no canonical address,
and before `vmm_init` nothing maps it. What is checked is the logic above it;
the run `identity_map` shows what the same constant does to the identity map.

`PageMap` is a table from pages to entries in which each step changes one
page. The refinement maps a page to the entry the hardware would find,
`PteOf`; every walk is a stutter up to its last write. `Span` gives a level the
pages below one of its entries: one at the last level, and at each other what a
table of the level below covers, as the shifts 12, 21, 30 and 39 do for tables
of 512. `DirectBase` keeps the
constant's property that its indices are those of page 0.

### MemoryStore and DurableLog

A content is its serial number; a file is named by type and position, as
`mem_type_dir` and `snprintf` do. `Store` is the whole of
`aion_memory_store`: eviction, copy, append and the decision to flush. A flush
is many writes, so it is `FlushRecord` for each dirty entry and then
`FlushIndex`, with `Crash` possible between any two; `pc` says that a flush is
on. A single write is atomic. Clean entries only contribute their path to the
index, which `IndexOf` computes from the positions at the end: positions do
not change during a flush.

The drive is external: `fs.h` declares it and `fs.c` fails every call today.
`WriteOutcomes` and `ReadOutcomes` give the outcomes: written or lost, read or
failed. `MEM_SELF` has no caller that stores it. A content takes one of
`HeapSlots` places of the kernel heap and never gives it back before a reboot
(`kfree` does nothing), which is why an eviction does not make room. An
experience has importance 1; a fact has what its tag says (`action.c:184-192`),
in the runs less than an experience or as much as there is. `FactsEvictedLast`
holds whatever these are: importance does not decide, as `aion_memory.c:19` says
it does, between an experience and a fact.

`DurableLog` is the promise: all but the newest `Window` memories survive a
power cut, in order, and a full window is always brought up to date while
power lasts. The window is the code's; the flush after
each tick that `aion_memory.c:17` promises does not exist. The refinement maps `live` to the entries in RAM and `saved` to
what `load_all` would load from the drive as it is. Record writes are stutters
of the log; the index write is its `Sync`. The refinement is claimed where it
is true: a reliable drive and no eviction (`memory_durable`). With the values
of the code the eviction of a full store (65536 entries) is never reached
before the index buffer of 1MB (4095 paths, `aion_memory.c:211`) overflows;
`FlushIndex` takes the buffer to be large enough.

### LlmContext

A token is its serial number. `Feed(n)` is `llm_feed` of a text of n tokens:
compaction to three quarters of the array if the margin would be crossed, one
decode of what is left, then the new tokens. A thought is `BeginThink`, one
`ThinkToken(plen)` per pass of the loop and `EndThink`; the text of a token
has `plen` bytes. `kv` is the cache of llama.cpp, external: it takes a batch
whole or refuses it (more than `n_batch` tokens, or no cells left). The model
starts after a successful `llm_init` (one that fails is in `Kernel`); `llm_shutdown` is never called.
`ContextAssumption` states the inequalities between the code's constants on
which its bounds rest: 3072 + 512 <= 4096 - 128, and 512 <= 512.

### Interrupts

A line is an IRQ number; `imr`, `irr` and `isr` are the mask, request and
in-service registers of both chips, each as one set of lines, and the chip a
line is on is `Chip(irq)`. A driver's call is five states: the store of the
handler, of the context, the read of the mask register and its write, with
interrupts enabled between them; `driver` says where it stands. An interrupt is
`Acknowledge` (the processor takes the most urgent request the chips offer,
`First`), `CallHandler` and `PicSendEoi`; while one is dispatched the processor
does nothing else (`Running`), since the gates of the IRQs are interrupt gates,
but devices may raise lines. `Withdraw` is a request that goes away while it is
being taken: the first chip then answers with its last line, which is not in
service, or the second does, for which the first has `Cascade` in service.

Modelled as `idt.h` invites it to be used, since no driver in the repository
takes a line yet (only vector 14, the page fault, has a handler, and its
registration touches no PIC): a driver registers for a line nobody has, one
call at a time, and a handler may give its own line back. `HandlerUnregisters`
is that whole call in one step, interrupts being disabled. Where it cuts into a
driver's call for the same line, or between the read and the write of its mask
register, `clash` becomes true: the driver's writes then undo the handler's,
and `OwnContext` and `MaskAgrees` are not claimed. Without that exemption TLC
refutes both, so does a spurious interrupt without `called.spurious`.

A line without an entry in the IDT stops the machine (`faulted`): the processor
finds no vector 11 for it either, then a double fault whose stack nobody has
set. Exceptions, `pic_remap`'s command words other than the cascade, and the
registers saved by the stubs are left out.

### Actions and Mind

A text is a sequence of symbols: brackets, and tags, each standing for a "<"
and the words after it. `Pass` and `Execute` are the two outcomes of a pass of
the loop of `action_parse_and_execute`, with `p` the place it has come to; the
search through `actions` for the first name the words begin with is `Handler`.
What a handler does is reduced to what stays: it records a result or not,
stores a memory, or never returns (`Hang`, a tone that divides by zero).
`Tokens` says without a scan which tags of a text are run, and `EachTagOnce`
compares the scan with it after every pass.

`Mind` is the body of `consciousness_run` step by step, with power cuts between
any two. Its memory is `DurableLog`, not `MemoryStore`: the run
`memory_durable` shows that the store implements that log on a reliable drive
while nothing is evicted, and in `Mind` nothing is, since the heap is full
first (`Store` then keeps nothing, as `mem_strdup` returns NULL). A store that
fills the window does not return before `Flush` (`Running`). An experience's
content is its text, of which only the facts the text stores are kept, because
the property relates the two. What is fed to the model comes back as any text
of `Texts`, so feeding changes nothing here; `thought` numbers the thoughts
across all lives. Ticks are left out. A boot whose model does not load halts
in `Kernel` and has no thoughts.

### Boot

Memory is its frames; the firmware keeps a type for each (`type`), and `key`
counts the changes, as the map key does. `FirmwareEvent` is an allocation or a
free on the firmware's own account, possible at any time before the first
ExitBootServices, which stops its timers even if it refuses. `get_mmap` is three
actions, with events between any two: `MmapSize` asks how many descriptors there
are, `MmapAlloc` allocates a buffer with room for two more and so changes the
map, `MmapRead` fills it or finds it too small. Descriptors are the runs of
frames of one type. On the second attempt `efi_main` does not look whether
`get_mmap` failed (`MapFails`), so ExitBootServices is called with the old key.
`open_root` and `load_file` fail or give back what they allocated: they are
`LoadKernel`. Each open, read or allocation that fails leads to the same return.

`Jump` calls the load address. What is there is the file's first bytes: the
linker script and the Makefile produce an ELF file, whose header is no code, and
no objcopy makes a flat image of it; `flat` leaves open which it is. `EntryGdt`
loads `gdt_descriptor`, which lies in the .bss and which `gdt_init` fills later;
what the far return then finds is whatever memory held. `EntryBss` clears the
.bss with RDI and calls `kernel_main` with where that left it, `__bss_end`. The
check of the magic number then fails unless the boot information happens to
lie just there (`HasMagic`): in most runs the kernel halts. The boot information
itself is untouched, and its address lost.

`find_rsdp` (`bootloader.c:131`) is called but defined nowhere; the result of
`get_gop` is ignored, so a machine without graphics boots with a screen of size
0, which is one of the machines of `Kernel`.

### Display, Senses and Kernel

`Kernel` starts where `Boot` says `started`. `Stages` is the order of the inits;
each is announced on the screen, initialised and confirmed. A line is printed
letter by letter (`Type`), and nothing else goes on meanwhile (`Running`). An
init is one action, with its failures: without a device on the bus, or without
a heap, a driver returns and is not `ready`. `FindClass` is the scan of the bus:
the first slot whose function 0 is of the class. `masters` are the functions
that were allowed to use the bus. Whether a device's registers can be reached
depends on the page tables: `vmm_init` maps physical memory below 4GB to itself
(its direct map falls on its identity map, see `identity_map`), and an address
above is a page fault without a table, in whose handler the kernel halts
(`Faults`). That the kernel survives the load of these tables, and that there
were frames for all of them, `Kernel` takes for granted.

The last stage is `consciousness_init`, the action `WakeUp`: the senses are
initialised, then the model is loaded. `mind` is what comes of it. Without its
model (`llm_init` fails for want of the file or of memory) the machine halts for
good, after everything else has come up; otherwise AION is awake, and only then
are snapshots taken.

`Display` is the cursor: `Moved` is where a letter sends it, and what
`PrintChar` does at the bottom is to go on at the top. A `page` is the letters
since then, drawn over the page before, which is how the code scrolls. A letter
is 8 pixels square (`draw_char`); `display_set_pixel` drops what is off the
screen, so prints before `display_init` draw nothing, but move the cursor.

`Senses` is `senses_capture` in three steps: the clock and the camera
(`Capture`), the squares of the samples (`Listen`), and the loop of the square
root (`SkipBit`, `RootBit`). Time is any reading of the processor's clock, up to
`MaxTsc`. A frame is any: today the buffers hold what the inits wrote, and the
comments of `cam.c` and `mic.c` say what will fill them. A device whose
allocation failed has no buffer and no snapshot asks it for one
(`FramesHaveMemory`). Frames have a fixed size (320 by 240, 4096 samples), so neither is empty; a pixel's luma is a byte and
a sample has 16 bits, so its square is at most 2^30, where the search for the root
starts (`TopBit`). `Total` is the sum as the code's loops build it. The network, storage and
memory figures are copied and used nowhere. The acts of AION that reach the
screen (`ActDisplay`) may come between any two snapshots.

## Runs

| Run | Shows | Instance |
|---|---|---|
| `kernel_memory` | frames conserved, status exact, counter between reachable and free, the scan finds the lowest run; blocks disjoint, in held frames | ten frames, two low; maps without a hole, with holes, beyond the bitmap, and with as little as the low area; runs of 0 to 3; every sequence of operations (the state space is finite) |
| `kernel_image` (violation) | the frames of the kernel and of the boot information are free to `pmm_init` | as `boot` |
| `virtual_memory` | the tables are a tree of held frames, an operation changes its own page only and at once, a fault on a swapped page ends with the page present or the machine halted | three levels of two entries; maps with five free frames (three are used at boot), with two (the loops of `vmm_init` fail half way) and with none; three pages that share one, two or no table, up to two of them in swap |
| `identity_map` (violation) | the direct map overwrites the identity map | ten frames, four pages mapped directly |
| `memory_store` | dirty entries never undercounted, no duplicates, facts evicted last | capacity 3, flush every 2, six contents, experiences of importance 1 and facts of 0 and 255, five heap places: eviction, heap exhaustion, lost writes, failed reads and reboots all occur |
| `memory_durable` | the store implements `DurableLog`, its fairness included | window 3, seven contents on six places: two flushes and a rest, power cuts everywhere |
| `memory_unread` (violation) | one unreadable record makes a flush destroy another memory | flush every 2 |
| `llm_context` | bounds, order, forgetting from the oldest end, cache equal to the context until something is lost | array of 16, keep 12, texts of up to 2, thoughts of up to 4 against a margin of 2, 26 tokens: several compactions, thoughts that fill the array |
| `interrupts` | own context, masks agree with the table, in service exactly what is dispatched, a line let through is served | two chips of three lines, the cascade at line 1, no entry for one line of each chip, the last of the first chip being one as in `idt_init`, two handlers, two raises: a request cuts into any call, waits behind another, comes through the cascade, is withdrawn |
| `life` | each token run once, experiences with their facts in RAM and on the drive, what was said is kept | all texts of up to four symbols out of six: nested, open, unmatched and stray brackets, two facts in a thought, no data, a hanging tone; two thoughts with any number of reboots, a window of 2, heap for 5, two results: heap and queue fill up |
| `boot` | the map is the firmware's last, one retry is enough | seven frames of three types in every arrangement that leaves room for the kernel (two frames of file, one of .bss), two events at any time: both attempts fail and succeed, the buffer splits a descriptor, the pool is empty |
| `kernel` | letters apart, readings exact, drivers with their device, no frame without memory, snapshots in order, the boot ends in a mind awake or in the halt without a model | five machines: complete, sound behind another function and two network controllers, a screen out of reach, sound out of reach, nothing at all; screens of three letters by two lines, two by three, three by one and none; two pictures of three pixels of which two are looked at, three recordings, a clock of six readings |

The small numbers keep the inequalities of the code: a thought is longer than
the margin (256 > 128), a batch smaller than what a compaction keeps
(512 < 3072), the map's holes leave frames beyond the count. `MaxContents` and
`MaxTokens` bound how much is stored or said; they are guards of `Store`,
`Feed` and `ThinkToken` and stand for nothing in the code. When they are used
up the memory store still stores, fails to allocate, crashes and reboots, and
a thought still begins and ends, so neither run needs to allow deadlock;
`MaxThoughts` bounds `Mind`, which goes on with thoughts that say nothing. The
runs of `VirtMem` allow it because its machine does stop, in the halt of the
page fault handler, those of `Interrupts` because a missing entry stops
it, those of `Boot` because efi_main returns or the kernel halts, and `kernel`
because of the handler again and of the halt without a model. Three levels show what four do: a top level, a last level and one that is
neither; three lines of a chip leave one before the cascade, one after it, and
a last line. `MaxRaises` bounds how often a device raises a line: two requests
are in hand at once, on one chip or on both. It also keeps the promise of
`RaisedIsServed` true: the chips have fixed priorities, and a line raised again
and again before the others would starve them.

Fairness is assumed in five places. In `VirtMem`, the walk and what follows it
(`Walk`, `AtEntry`) are weakly fair: a handler is straight code on one processor.
In `Kernel` every step of `kernel_main` and of a snapshot that has begun is;
that snapshots are taken (`LookAround`) and what AION does (`ActDisplay`) needs no
fairness. In `Mind`, `Act` is weakly fair: the scan
and the stores of a tick are straight code. Perceiving and thinking need no
fairness for what is claimed, and nothing is promised across a power cut.

In `Interrupts` the steps of a call, of a dispatch and the acknowledgement of what the chips offer are weakly fair: the
processor executes instructions, handlers return, and a request that stays is
taken. Drivers need not make calls, devices need not raise anything and
nothing forces a spurious interrupt or a handler that unregisters.
`RaisedIsServed` ends when the line is masked, by itself or by the cascade
line: an interrupt of the second chip needs somebody to register for line 2,
which no text of the repository says.

In `MemoryStore`, `FlushRecord` and `FlushIndex` are weakly fair, since a flush is
a loop inside one call on one processor and goes on while there is power. `Crash` needs no fairness and may come at any time; weak
fairness then promises nothing to a flush that is cut short, and the abstract
`Sync` is weakly fair in the same sense.

## Proofs

Proved with TLAPS for all values of the constants that satisfy the modules'
named assumptions:

* `KernelMemoryProofs`, the frame allocator. The inductive invariant `PhysInv`
  says two things the checked invariants do not: what is held lies within the
  scans' bound, and the free counter is exactly the usable frames less the low
  area and the frames held. The first gives `HeldBounded`: held and still
  reachable frames share the `phys_total_pages - LowFrames` indices the scans look
  at, so the counter never goes below 0 although `pmm_init` takes 512 frames off it
  unseen. The bound from above is `UnionBound`, the size of a set against two that
  cover it. From these: `PhysTypeCorrect`, `FramesAreConserved`, `CounterIsBetween`, and
  `StatusIsExact`: no more is reported free than there is, so that what is
  reported used is a difference that does not wrap. `ScanIsExact` is about the loop of `pmm_alloc_contiguous`:
  by induction over the frames it has passed, no run of the length asked for ends
  behind it unless the lowest one has been found, and its running length is that of
  the run of free frames it stands at the end of.
* `KernelMemoryProofs`, the heap. `HeapImplementsPhysMem`: a step of the heap is a
  step of the allocator or leaves it alone, so its invariants carry over
  (`HeapKeepsFrames`). `HeapInv` adds that every block ends at or before
  `heap_ptr`, which is what makes blocks disjoint: `BlocksNeverOverlap`,
  `BlocksStayInHeldFrames`, `HeapTypeCorrect`. `RoundUpGrows` is the fact about
  alignment they need.
* `KernelMemoryProofs`, the page tables. `VirtImplementsPhysMem` carries the
  allocator's invariant over, as for the heap (`VirtKeepsFrames`). `VirtInv` adds
  the tree (`TablesFormTree`): the history variable `level` gives every table its
  level, and the tree is stated by what one entry leads to and by no two entries
  leading to one table, not by paths. Only `CreateTable` writes above the last
  level, the frame it links was free (`AllocIsFresh`) and so is no table already,
  and what `AtEntry` writes lies in a table of level 1 (`EntryWritten`), which has
  no links.
* `KernelMemoryProofs`, the map of pages. `TablesAreAPageMap` is the refinement of
  `PageMap`. `Ways` describes the walk of every page at once: each table on it is a
  table of its level. Two pages that come to the same table of level 1 have come
  through the same entries (`WaysMeet`, going up, by the uniqueness of links), so
  with the same last index they have all indices in common, and are then the same
  slot (`SlotsApart`: the indices are the digits of the page's number). That is why
  the one entry `AtEntry` writes is the translation of one slot (`EntrySet`). A
  table `CreateTable` links is empty and was on no way before, so it ends the ways
  that now come to it, as the missing entry did (`CreateTableMap`). `WalkInv` says
  that the walk under way stands on its page's way. `FaultsEndWell` adds `SwapInv`:
  no more slots are marked as swapped than are counted, so the handler's decrement
  finds a count above 0. All this holds for any number of levels and any table
  size.
* `LlmContextProofs`. `ContextInv` is the four checked invariants together with
  `context_len <= born`. They need one another: the bound on the array decides
  whether a compaction finds `Keep` tokens, the types say that new tokens come
  after all others, and a compaction or a token left out makes
  `context_len < born`, which discharges `CacheCurrent`. `FeedInv` and
  `ThinkTokenInv` are the two steps that matter. With the step lemma
  `StepForgets` the same invariant gives the action property
  `OldestForgottenFirst`.
* `MemoryStoreProofs`. `StoreInv` adds to the checked invariants that numbers of
  memories are used once (`NumbersOnce`): what is stored next is in no file yet, an
  entry still dirty is in none either, and the index lists no path twice, so what a
  boot loads has no memory twice although files of evicted entries stay on the
  drive. It holds with lost writes, unread records and power cuts:
  `StoreTypeCorrect`, `DirtyStaysCounted`, `NothingTwice`. `FactsGoLast` assumes
  that experiences are stored with an importance below 255, as `consciousness.c:144`
  does: one of 255 would never be found by the search of
  `aion_memory_store`, which starts from 255. `StoreIsLog` is the safety part of
  `IsDurableLog` under `ReliableStore`, a drive that keeps what it is told and a
  heap that is full before the store is: entry for entry, RAM agrees with the drive
  as far as the index goes, and beyond it is unsaved or written by the flush under
  way (`OnDrive`); the index is then what a boot would load (`ReloadsIndex`).
* `InterruptsProofs`. `InterruptsInv` says, for every store of a call under
  way, how table and context of its line agree (`ContextsAgree`), that its
  mask bit is what it was before the call (`LineUntouched`) and that the mask
  read is still the mask (`MaskCurrent`), unless a handler has clashed. `RegistrationFrame` carries these over the steps that touch neither
  table nor mask, which are most. With them: `HandlersGetOwnContext`,
  `MasksAgree`, `InterruptsTypeCorrect`. `ServiceMatches` is the part about
  the chips: what `Acknowledge` and `Withdraw` put in service is what the ends
  of interrupt take out, for chips of any number of lines and any cascade line.

* `BootProofs`. `BootInv` keeps what is true between the calls of `get_mmap`: the
  map read is the map of its key, and once boot services have refused a key
  nothing but the loader changes the map. `RetryFailsWithoutMemoryOnly` then
  needs one fact of counting: changing the type of one frame adds at most two
  boundaries, so two descriptors are room enough. `MapIsCurrent` follows, for a
  machine of any size and any firmware map.
* `MindProofs`. `OutermostExist` is the induction that gives every text its
  `Tokens`, from which `ScanInv` says of the scan that what lies behind it are whole
  tokens, all run: `TokensRunOnce`. `MemoryInv` says of the memory that while a
  thought is acted on its facts so far are there, unless the heap is full, and
  nothing of later thoughts is: `ExperiencesWithFacts`, `MindTypeCorrect`.
  `MindKeepsLog`: the loop does to its memory what `DurableLog` allows.
* `KernelProofs`. `KernelInv` has a part for each component. The screen
  (`DisplayInv`): every letter and the cursor stand where they fit or at the
  margin, and the cursor stands beyond every letter of the page; the one init
  that changes the size does so while nothing has been drawn further than the
  margin (`MachineInv`). The drivers: what may use the bus is what the scan
  finds for its driver, and the scan finds one (`FoundOnce`). The senses:
  the loop of the square root holds twice the root so far times the next bit,
  and the rest (`Searching`; `BitTaken` and `BitLeft` are its arithmetic), so
  that it ends with the whole part of the root. A picture or a loudness is nonzero
  only where a device was ready, which takes a heap (`FramesKeepMemory`). The sums
  of pixels and of squares are bounded step by step (`TotalBounds`), so a mean of pixels is a byte and a mean
  of squares is within the reach of that loop (`MeanBounds`); both halves together
  are `ReadingsStayExact`. Tick and uptime add up to no more than the clock, which makes
  the code's modular subtraction exact (`CaptureClock`). From these:
  `KernelTypeCorrect`, `LettersStayApart`, `DevicesStayDriven`,
  `FramesKeepMemory`, `SnapshotsKeepFollowing`.

* `Induction`. The library states induction for operators; here a set takes the
  operator's place. `LeastNatural` comes from the well-foundedness of the inclusion
  of finite sets, and gives induction upwards (`IntervalInduction`) and downwards
  (`DownwardInduction`), the counting of a finite set of numbers
  (`MembersCounted`), and the existence of functions defined by recursion on an
  interval (`StepsExist`), which is what makes `Total`, `ContiguousScan` and
  `TableAt` definitions one can reason about.

Only model-checked: what must eventually happen (`FaultsServed`,
`RaisedIsServed`, `WakesUp`, `ThoughtIsKept` and the fairness of `IsDurableLog`),
since liveness is out of the prover's reach; of `FaultsServed` and `IsDurableLog`
the safety parts are proved. The three runs that expect a
violation are shown by their traces.

## Disagreements between the code and its text

Each is a run of its own with a shortest trace: frames of the kernel image and
of the boot information are free memory (`kernel_image`); the direct map is
written over the identity map (`identity_map`); positions as file names lose
memories after an unreadable record (`memory_unread`).

Others need no run to be seen: a full store evicts an experience before a fact
that is less important, although `aion_memory.c:19` says that importance
determines the order (`Worst` of `MemoryStore` looks at importance among the
experiences only, and the run `memory_store` reaches the case with facts of
importance 0); no tick flushes what it has stored, although `aion_memory.c:17`
says that each does: up to nine memories are in RAM only, for any number of ticks
(`Perceive` of `Mind` follows `StoreExperience` whether or not anything is saved);
with a hole in the memory map `pmm_alloc` says "Out of memory" (`memory.c:144`) while frames beyond its bound are free, of
which `CounterBetween` gives the extent; the index buffer holds 4095 paths and
the store 65536 entries; a thought that fills the context goes on speaking
tokens that are not recorded in it, against `llm.c:145`; memories loaded at
boot never enter the context, against `consciousness.c:69`; DISPLAY_PIXEL and
DISPLAY_CLEAR are hidden by DISPLAY in the table; the generic interrupt handler
of `idt.c:12` is installed for no vector, so a spurious interrupt meets an empty
entry (`faulted` in `Interrupts`); results of actions are queued and never fed
back, against `action.c:43`; `fs_init` says that the SSD is there without asking
the NVMe driver (`fs.c:14`); `entry.asm:76` says that RDI still holds the boot
information after the .bss was cleared with it (`EntryBss` of `Boot`).

## Plan

In this order; each module EXTENDS or composes what it names.

1. Proofs: `RaisedIsServed`'s safety half, that a line taken by a chip is given
   back by the dispatch that took it; `ThoughtIsKept`'s, that what was acted on is
   in RAM.
2. `Mind` with `LlmContext`: what is fed at boot and in a tick, against what
   the memory holds.
3. `Boot` with `PhysMem`: the frames the allocator hands out against those
   that are in use, once the map lists them.

## Not modelled

The contents of the descriptor table, pixels and glyphs, the registers of the
sound controller and the samples of a tone are data written once or passed on;
the scheduler, the system calls, the file system and the transfers of the
drivers are stubs that answer failure;
the swap figures and the pressure level of
`memory_get_status` have no reader; `aion_memory_get_recent` and `aion_memory_search` change nothing. Timestamps,
ticks and texts of memories, serial output and build tools are left out.
