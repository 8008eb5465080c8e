-------------------------------- MODULE Boot --------------------------------
(***************************************************************************)
(* The way from the firmware to the kernel: efi_main of                    *)
(* bootloader/bootloader.c, kernel_entry of kernel/arch/asm/entry.asm, and *)
(* the check kernel_main begins with.                                      *)
(*                                                                         *)
(* Memory is its frames.  The firmware keeps a type for each and a key     *)
(* that changes with them; it allocates and frees on its own account at    *)
(* any time until ExitBootServices is first called, which stops its        *)
(* timers.  Only the bootloader's own calls change the map after that.     *)
(***************************************************************************)
EXTENDS Integers, FiniteSets

CONSTANTS
    Top,        \* the frames of the machine
    LowFrames,  \* 512, the frames pmm_init keeps back
    Load,       \* KERNEL_LOAD_ADDR
    BssStart,   \* __bss_start: the file is copied to Load .. BssStart - 1
    BssEnd,     \* __bss_end
    Slack,      \* 2, the descriptors get_mmap leaves room for
    MaxEvents   \* bounds what the firmware does on its own account

ASSUME BootAssumption ==
    /\ Top \in Nat \ {0}
    /\ LowFrames \in Nat
    /\ Load \in Nat /\ BssStart \in Nat /\ BssEnd \in Nat
    /\ Load < BssStart /\ BssStart < BssEnd /\ BssEnd < Top
    /\ Slack = 2
    /\ MaxEvents \in Nat

VARIABLES
    type,       \* the firmware's map: the type of each frame
    key,        \* the changes made to it: the map key
    content,    \* who wrote a frame last
    events,     \* what the firmware has done on its own account
    flat,       \* kernel.bin is a flat image; as the Makefile links it, it is not
    stack,      \* the frame of efi_main's locals, where boot_info is
    pc,
    attempt,    \* at ExitBootServices
    room,       \* the descriptors the buffer of get_mmap has room for
    buffer,     \* its frame
    mmap_addr, mmap, mmap_key,  \* boot_info: where the map is, what it says
    rdi

loaderVars == <<attempt, room, buffer, mmap_addr, mmap, mmap_key>>
vars == <<type, key, content, events, flat, stack, pc, loaderVars, rdi>>

LoaderData        == 2
BootServicesData  == 4
RuntimeData       == 6
Conventional      == 7

Types  == {LoaderData, BootServicesData, RuntimeData, Conventional}
Frames == 0 .. Top - 1
Nowhere == Top

FreeFrames == {f \in Frames : type[f] = Conventional}

KernelFile == Load .. BssStart - 1
KernelBss  == BssStart .. BssEnd - 1

\* Where a descriptor of the map begins: neighbours of one type share one.
Boundaries(t) == {f \in 1 .. Top - 1 : t[f] # t[f - 1]}

DescriptorCount(t) == 1 + Cardinality(Boundaries(t))

\* boot_info before get_mmap: its map is at address 0 and empty.
Unread == [f \in Frames |-> RuntimeData]

BootInit ==
    /\ type \in {t \in [Frames -> Types \ {LoaderData}] :
                    \A f \in KernelFile : t[f] = Conventional}
    /\ key = 0
    /\ content = [f \in Frames |-> "firmware"]
    /\ events = 0
    /\ flat \in BOOLEAN
    /\ stack \in {f \in Frames : type[f] = BootServicesData}
    /\ pc = "load"
    /\ attempt = 1
    /\ room = 0
    /\ buffer = Nowhere
    /\ mmap_addr = Nowhere
    /\ mmap = Unread
    /\ mmap_key = 0
    /\ rdi = stack

SetType(f, t) ==
    /\ type' = [type EXCEPT ![f] = t]
    /\ key' = key + 1

\* The firmware allocates a frame or frees one of its own, but not the stack
\* its application runs on.
FirmwareEvent ==
    /\ pc \in {"load", "size", "alloc", "read", "exit"}
    /\ attempt = 1
    /\ events < MaxEvents
    /\ \/ \E f \in FreeFrames :
             /\ SetType(f, RuntimeData)
             /\ content' = [content EXCEPT ![f] = "firmware"]
       \/ \E f \in Frames \ {stack} :
             /\ type[f] = BootServicesData
             /\ SetType(f, Conventional)
             /\ UNCHANGED content
    /\ events' = events + 1
    /\ UNCHANGED <<flat, stack, pc, loaderVars, rdi>>

-----------------------------------------------------------------------------
\* open_root and load_file, which give back what they allocated; then the file
\* is copied to its address, whatever is there.
LoadKernel ==
    /\ pc = "load"
    /\ \/ /\ content' = [f \in Frames |-> IF f \in KernelFile THEN "kernel" ELSE content[f]]
          /\ pc' = "size"
       \/ /\ pc' = "returned"           \* FATAL: no USB fs, kernel.bin not found
          /\ UNCHANGED content
    /\ UNCHANGED <<type, key, events, flat, stack, loaderVars, rdi>>

\* get_mmap has failed: the first time efi_main gives up, the second time it
\* does not look.
MapFails == pc' = IF attempt = 1 THEN "returned" ELSE "exit"

\* The first GetMemoryMap asks how much there is.
MmapSize ==
    /\ pc = "size"
    /\ room' = DescriptorCount(type) + Slack
    /\ pc' = "alloc"
    /\ UNCHANGED <<type, key, content, events, flat, stack, attempt, buffer,
                   mmap_addr, mmap, mmap_key, rdi>>

\* Mutation: the buffer is allocated as boot services data.
MmapAllocBootData ==
    /\ pc = "alloc"
    /\ \/ \E f \in FreeFrames :
             /\ SetType(f, BootServicesData)
             /\ buffer' = f
             /\ pc' = "read"
       \/ /\ FreeFrames = {}
          /\ MapFails
          /\ UNCHANGED <<type, key, buffer>>
    /\ UNCHANGED <<content, events, flat, stack, attempt, room, mmap_addr, mmap,
                   mmap_key, rdi>>

\* AllocatePool: from a frame the pool has, or from a new one.
MmapAlloc ==
    /\ pc = "alloc"
    /\ \/ \E f \in Frames :
             /\ type[f] = LoaderData
             /\ buffer' = f
             /\ pc' = "read"
             /\ UNCHANGED <<type, key>>
       \/ \E f \in FreeFrames :
             /\ SetType(f, LoaderData)
             /\ buffer' = f
             /\ pc' = "read"
       \/ /\ FreeFrames = {}
          /\ MapFails
          /\ UNCHANGED <<type, key, buffer>>
    /\ UNCHANGED <<content, events, flat, stack, attempt, room, mmap_addr, mmap,
                   mmap_key, rdi>>

\* The pool gives the frame back or keeps it.
FreePool == SetType(buffer, Conventional) \/ UNCHANGED <<type, key>>

\* The second GetMemoryMap fills the buffer, or finds it too small.
MmapRead ==
    /\ pc = "read"
    /\ \/ /\ DescriptorCount(type) <= room
          /\ content' = [content EXCEPT ![buffer] = "map"]
          /\ mmap_addr' = buffer
          /\ mmap' = type
          /\ mmap_key' = key
          /\ pc' = "exit"
          /\ UNCHANGED <<type, key>>
       \/ /\ DescriptorCount(type) > room
          /\ MapFails
          /\ FreePool
          /\ UNCHANGED <<content, mmap_addr, mmap, mmap_key>>
    /\ UNCHANGED <<events, flat, stack, attempt, room, buffer, rdi>>

\* Mutation: an attempt is counted that has succeeded.
ExitBootServicesCounted ==
    /\ pc = "exit"
    /\ attempt' = attempt + 1
    /\ pc' = IF mmap_key = key THEN "jump"
             ELSE IF attempt = 1 THEN "size" ELSE "returned"
    /\ UNCHANGED <<type, key, content, events, flat, stack, room, buffer,
                   mmap_addr, mmap, mmap_key, rdi>>

\* Mutation: the second attempt does not read the map again.
ExitBootServicesBlindly ==
    /\ pc = "exit"
    /\ \/ /\ mmap_key = key
          /\ pc' = "jump"
          /\ UNCHANGED attempt
       \/ /\ mmap_key # key
          /\ attempt = 1
          /\ pc' = "exit"
          /\ attempt' = 2
       \/ /\ mmap_key # key
          /\ attempt = 2
          /\ pc' = "returned"
          /\ UNCHANGED attempt
    /\ UNCHANGED <<type, key, content, events, flat, stack, room, buffer,
                   mmap_addr, mmap, mmap_key, rdi>>

\* ExitBootServices refuses a key that is not current: once more, then never.
ExitBootServices ==
    /\ pc = "exit"
    /\ \/ /\ mmap_key = key
          /\ pc' = "jump"
          /\ UNCHANGED attempt
       \/ /\ mmap_key # key
          /\ attempt = 1
          /\ pc' = "size"
          /\ attempt' = 2
       \/ /\ mmap_key # key
          /\ attempt = 2
          /\ pc' = "returned"
          /\ UNCHANGED attempt
    /\ UNCHANGED <<type, key, content, events, flat, stack, room, buffer,
                   mmap_addr, mmap, mmap_key, rdi>>

-----------------------------------------------------------------------------
\* The call of the load address runs what the file begins with: kernel_entry,
\* or the header of an ELF file.
Jump ==
    /\ pc = "jump"
    /\ pc' = IF flat /\ content[Load] = "kernel" THEN "entry" ELSE "lost"
    /\ UNCHANGED <<type, key, content, events, flat, stack, loaderVars, rdi>>

\* gdt_descriptor is loaded from the .bss before anybody has written it, and
\* the far return goes through what it finds there.
EntryGdt ==
    /\ pc = "entry"
    /\ pc' \in {"bss", "lost"}
    /\ UNCHANGED <<type, key, content, events, flat, stack, loaderVars, rdi>>

\* The .bss is cleared, which leaves RDI at its end, although entry.asm:76 says
\* that it still holds the address of the boot information.
EntryBss ==
    /\ pc = "bss"
    /\ content' = [f \in Frames |-> IF f \in KernelBss THEN "zero" ELSE content[f]]
    /\ rdi' = BssEnd
    /\ pc' = "main"
    /\ UNCHANGED <<type, key, events, flat, stack, loaderVars>>

\* What lies where RDI points has the magic number only if it is boot_info, and
\* boot_info only as long as nobody has cleared or overwritten it.
HasMagic(f) == f = stack /\ content[f] = "firmware"

\* kernel_main goes on, or halts for ever.
KernelMain ==
    /\ pc = "main"
    /\ pc' = IF HasMagic(rdi) THEN "started" ELSE "halted"
    /\ UNCHANGED <<type, key, content, events, flat, stack, loaderVars, rdi>>

BootNext ==
    \/ FirmwareEvent
    \/ LoadKernel
    \/ MmapSize \/ MmapAlloc \/ MmapRead
    \/ ExitBootServices
    \/ Jump \/ EntryGdt \/ EntryBss \/ KernelMain

BootSpec == BootInit /\ [][BootNext]_vars

-----------------------------------------------------------------------------
\* Type invariant.
BootTypeOK ==
    /\ type \in [Frames -> Types]
    /\ key \in Nat
    /\ content \in [Frames -> {"firmware", "kernel", "map", "zero"}]
    /\ events \in 0 .. MaxEvents
    /\ flat \in BOOLEAN
    /\ stack \in Frames
    /\ pc \in {"load", "size", "alloc", "read", "exit", "jump", "entry", "bss", "main",
              "started", "halted", "lost", "returned"}
    /\ attempt \in {1, 2}
    /\ room \in Nat
    /\ buffer \in Frames \cup {Nowhere}
    /\ mmap_addr \in Frames \cup {Nowhere}
    /\ mmap \in [Frames -> Types]
    /\ mmap_key \in 0 .. key
    /\ rdi \in Frames

\* ExitBootServices has succeeded.
Exited == pc \in {"jump", "entry", "bss", "main", "started", "halted", "lost"}

\* However often the map was read and whatever changed in between, what the
\* kernel is given is the firmware's map as boot services ended, and lists the
\* buffer it is in as the loader's, so pmm_init does not free the map it reads
\* (get_mmap allocates between its two calls of GetMemoryMap).
MapIsFirmwares ==
    Exited => /\ mmap = type
              /\ mmap_addr \in Frames
              /\ mmap[mmap_addr] = LoaderData
              /\ pc = "jump" => content[mmap_addr] = "map"

\* The one retry is enough: after it efi_main returns only when there was no
\* memory for the buffer.  Allocating the buffer adds at most the two
\* descriptors get_mmap leaves room for.
RetryEnough == pc = "returned" /\ attempt = 2 => FreeFrames = {}

\* memory.c:78 "EFI memory types that are safe to use as RAM": the frames
\* pmm_init frees are not those the kernel still uses: its file, its .bss, and
\* the stack with boot_info, which kernel_main reads after memory_init.
FreedByPmmInit ==
    {f \in LowFrames .. Top - 1 : mmap[f] \in {Conventional, BootServicesData}}

UsableIsSafe ==
    Exited => FreedByPmmInit \cap (KernelFile \cup KernelBss \cup {stack}) = {}
=============================================================================
