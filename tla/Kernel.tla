------------------------------- MODULE Kernel -------------------------------
(***************************************************************************)
(* kernel_main in kernel/kernel.c, from the first line on the screen to    *)
(* the senses of a machine that lives: each part is announced, initialised *)
(* and confirmed on the screen, over the devices that the PCI bus has, and *)
(* whatever it lacks.  Memory is what its own modules say; here it matters *)
(* whether there is a heap, and whose page tables lead to a device.  That  *)
(* the kernel survives the load of its page tables is taken for granted:   *)
(* see IdentityHolds in VirtMem.                                           *)
(***************************************************************************)
EXTENDS Display, Senses, FiniteSets, SequencesExt

CONSTANT Machines   \* the hardware: a screen, where its memory is, a PCI bus

\* Physical addresses vmm_init maps to themselves, and those it does not: below
\* 4GB, as the direct map falls on the identity map, and above.
Places == {"low", "high"}

Drivers == {"USB", "NVMe", "audio", "network"}

\* A function of a device, and the driver its class and subclass call for.
Functions ==
    [slot : Nat, func : 0 .. 7, driver : Drivers \cup {"none"}, bar : Places]

ASSUME KernelAssumption ==
    /\ Machines \subseteq [width : Nat, height : Nat, fb : Places,
                           bus : SUBSET Functions]
    /\ \A m \in Machines : \A f, g \in m.bus :
          f.slot = g.slot /\ f.func = g.func => f = g

VARIABLES
    machine,        \* what boots
    stage, phase,   \* how far kernel_main has come
    tables,         \* whose page tables are active: "firmware", "kernel"
    heap,           \* kmalloc_init has found its frames
    ready,          \* the parts that say they are
    masters,        \* the functions that may use the bus
    faulting,       \* in the page fault handler for good
    mind            \* of AION: "asleep", "awake", or "halted" without its model

bootVars == <<stage, phase, tables, heap, ready, masters, faulting, mind>>
vars     == <<machine, bootVars, displayVars, sensesVars>>

Stages == <<"GDT", "IDT", "memory", "display", "PCI", "USB", "NVMe", "filesystem",
            "audio", "camera", "microphone", "network", "syscall", "scheduler",
            "consciousness">>

KernelStart ==
    /\ machine \in Machines
    /\ stage = 1 /\ phase = "announce"
    /\ tables = "firmware"
    /\ heap = FALSE
    /\ ready = {} /\ masters = {}
    /\ faulting = FALSE
    /\ mind = "asleep"
    /\ DisplayStart
    /\ SensesStart

-----------------------------------------------------------------------------
Running == text = <<>> /\ ~faulting /\ mind # "halted"
Booting == Running /\ Stages[stage] # "consciousness"

\* A line of boot_log ends in a newline; on the serial port it is not modelled.
BootLog ==
    \E line \in Texts : line # <<>> /\ Last(line) = Newline /\ PrintString(line)

Announce ==
    /\ Booting
    /\ phase = "announce"
    /\ BootLog
    /\ phase' = "init"
    /\ UNCHANGED <<machine, stage, tables, heap, ready, masters, faulting, mind,
                   sensesVars>>

Confirm ==
    /\ Booting
    /\ phase = "confirm"
    /\ BootLog
    /\ stage' = stage + 1
    /\ phase' = "announce"
    /\ UNCHANGED <<machine, tables, heap, ready, masters, faulting, mind, sensesVars>>

Initialises(part) ==
    /\ Booting
    /\ phase = "init"
    /\ Stages[stage] = part
    /\ UNCHANGED <<machine, stage, mind, sensesVars>>

\* The function that called it returns.
Returns == phase' = "confirm" /\ UNCHANGED faulting

\* The handler finds no page table for the address and halts, with interrupts
\* disabled: nothing goes on.
Faults == faulting' = TRUE /\ UNCHANGED phase

\* Is a device's address mapped?  The firmware's tables map everything, those of
\* vmm_init, with frames enough for them, the low addresses.
Reachable(place) == tables = "firmware" \/ place = "low"

\* gdt_init and idt_init (see Interrupts), pci_init which only lists what it
\* finds, syscall_init and scheduler_init which only say that they ran.
NothingKept ==
    /\ \E part \in {"GDT", "IDT", "PCI", "syscall", "scheduler"} : Initialises(part)
    /\ Returns
    /\ UNCHANGED <<tables, heap, ready, masters, displayVars>>

\* memory_init (see VirtMem, KernelHeap): no frame for the first table means
\* none for the heap either.
MemoryInit ==
    /\ Initialises("memory")
    /\ \/ tables' = "kernel" /\ heap' \in BOOLEAN
       \/ UNCHANGED <<tables, heap>>
    /\ Returns
    /\ UNCHANGED <<ready, masters, displayVars>>

\* display_init: the size is set, then every pixel is written.
DisplayInit ==
    /\ Initialises("display")
    /\ fb_w' = machine.width /\ fb_h' = machine.height
    /\ IF machine.width * machine.height = 0 \/ Reachable(machine.fb)
       THEN Returns /\ DisplayClear
       ELSE Faults /\ UNCHANGED <<cursor_x, cursor_y, text, page, at_top>>
    /\ UNCHANGED <<tables, heap, ready, masters>>

\* Mutation: every function of a slot is looked at.
FindClassAnywhere(driver) == {f \in machine.bus : f.driver = driver}

\* pci_find_class: the first slot whose function 0 is of the class; no other
\* function is looked at.
FindClass(driver) ==
    {f \in machine.bus :
        /\ f.func = 0 /\ f.driver = driver
        /\ \A g \in machine.bus : g.func = 0 /\ g.driver = driver => f.slot <= g.slot}

\* usb_init, nvme_init, network_init: without the device the driver returns.
DriverInit(driver) ==
    /\ Initialises(driver)
    /\ LET found == FindClass(driver)
       IN  /\ masters' = masters \cup found
           /\ ready' = IF found = {} THEN ready ELSE ready \cup {driver}
    /\ Returns
    /\ UNCHANGED <<tables, heap, displayVars>>

\* audio_init also writes to the registers of its device.
AudioInit ==
    /\ Initialises("audio")
    /\ LET found == FindClass("audio")
       IN  /\ masters' = masters \cup found
           /\ IF \A f \in found : Reachable(f.bar)
              THEN /\ Returns
                   /\ ready' = IF found = {} THEN ready ELSE ready \cup {"audio"}
              ELSE /\ Faults
                   /\ UNCHANGED ready
    /\ UNCHANGED <<tables, heap, displayVars>>

\* fs_init looks at neither drive.
FsInit ==
    /\ Initialises("filesystem")
    /\ ready' = ready \cup {"filesystem"}
    /\ Returns
    /\ UNCHANGED <<tables, heap, masters, displayVars>>

\* Mutation: the driver does not look whether it was given memory.
FrameInitUnchecked(part) ==
    /\ Initialises(part)
    /\ ready' = ready \cup {part}
    /\ Returns
    /\ UNCHANGED <<tables, heap, masters, displayVars>>

\* Mutation: without memory the driver does not return.
FrameInitInsists(part) ==
    /\ Initialises(part)
    /\ heap
    /\ ready' = ready \cup {part}
    /\ Returns
    /\ UNCHANGED <<tables, heap, masters, displayVars>>

\* cam_init, mic_init: without memory for a frame the driver returns.  A heap
\* has room for both.
FrameInit(part) ==
    /\ Initialises(part)
    /\ ready' = IF heap THEN ready \cup {part} ELSE ready
    /\ Returns
    /\ UNCHANGED <<tables, heap, masters, displayVars>>

Initialise ==
    \/ NothingKept
    \/ MemoryInit
    \/ DisplayInit
    \/ \E driver \in {"USB", "NVMe", "network"} : DriverInit(driver)
    \/ AudioInit
    \/ FsInit
    \/ \E part \in {"camera", "microphone"} : FrameInit(part)

-----------------------------------------------------------------------------
\* consciousness_init: the senses are initialised first, then the model is
\* loaded.  If llm_init fails, for want of the file or of memory for its context,
\* the machine halts here for good; or what there is to remember is loaded and
\* AION wakes up.
WakeUp ==
    /\ Running
    /\ Stages[stage] = "consciousness"
    /\ \E now \in 0 .. MaxTsc : SensesInit(now)
    /\ mind' \in {"awake", "halted"}
    /\ UNCHANGED <<machine, stage, phase, tables, heap, ready, masters, faulting,
                   displayVars>>

\* consciousness_run: the senses, one step at a time ...
Sense ==
    /\ Running
    /\ \/ Listen("microphone" \in ready)
       \/ SkipBit
       \/ FindRoot
    /\ UNCHANGED <<machine, bootVars, displayVars>>

LookAround ==
    /\ Running
    /\ \E now \in tsc .. MaxTsc : Capture("camera" \in ready, now)
    /\ UNCHANGED <<machine, bootVars, displayVars>>

\* ... and what AION's thoughts do to the screen: ACT:DISPLAY, ACT:DISPLAY_CLEAR.
ActDisplay ==
    /\ Running
    /\ sensing = "idle"
    /\ \/ \E string \in Texts : PrintString(string)
       \/ DisplayClear /\ UNCHANGED <<fb_w, fb_h>>
    /\ UNCHANGED <<machine, bootVars, sensesVars>>

Type ==
    /\ ~faulting
    /\ PrintChar
    /\ UNCHANGED <<machine, bootVars, sensesVars>>

KernelStep == Announce \/ Initialise \/ Confirm \/ WakeUp \/ Sense \/ Type

KernelNext == KernelStep \/ LookAround \/ ActDisplay

\* kernel_main and the capture of a snapshot are straight code.
KernelSpec == KernelStart /\ [][KernelNext]_vars /\ WF_vars(KernelStep)

-----------------------------------------------------------------------------
\* Type invariant.
KernelTypeOK ==
    /\ machine \in Machines
    /\ stage \in DOMAIN Stages /\ phase \in {"announce", "init", "confirm"}
    /\ tables \in {"firmware", "kernel"}
    /\ heap \in BOOLEAN /\ faulting \in BOOLEAN
    /\ mind \in {"asleep", "awake", "halted"}
    /\ ready \subseteq Drivers \cup {"filesystem", "camera", "microphone"}
    /\ masters \subseteq machine.bus
    /\ fb_w \in {0, machine.width} /\ fb_h \in {0, machine.height}
    /\ cursor_x \in Nat /\ cursor_y \in Nat
    /\ text \in Seq({Newline, Letter})
    /\ tsc \in 0 .. MaxTsc /\ ticks_per_ms \in {TicksGuess, TicksPerMs}
    /\ boot_tick \in Nat /\ uptime_ms \in 0 .. Word - 1
    /\ {prev_luma, mean_luma, motion_delta} \subseteq 0 .. 255
    /\ bit \in {0} \cup {s * s : s \in RootBits}
    /\ {x, r, rms, mean_sq} \subseteq Nat
    /\ sensing \in {"off", "idle", "mic", "root"}

\* A driver says it is ready with a function that may use the bus, and no
\* function may that has no driver, or is the second of two alike
\* (pci.c:29-43, 56-59).
DevicesDriven ==
    /\ \A driver \in ready \cap Drivers : \E f \in masters : f.driver = driver
    /\ \A f \in masters : f.func = 0 /\ f.driver # "none"
    /\ \A f, g \in masters : f.driver = g.driver => f = g

\* A snapshot never looks at a frame that has no memory: a camera or a microphone
\* whose allocation failed at the boot is asked for nothing by any snapshot of the
\* life that follows, so the buffer at address 0 is never read (cam.c:23-27,43,
\* mic.c:23-27,42, senses.c:55,77).
FramesHaveMemory == picture # <<>> \/ mean_sq # 0 \/ rms # 0 => heap

\* kernel_main comes to consciousness_init whatever the machine lacks, unless the
\* kernel's own page tables do not map the registers of a device, which keeps it
\* for good; there AION wakes up, or the machine halts because the model does not
\* load (consciousness.c:58-61).  Only a mind that is awake takes snapshots, and
\* every one of them comes to its end.
WakesUp ==
    /\ <>(mind # "asleep" \/ faulting)
    /\ sensing = "mic" ~> sensing = "idle"
    /\ [](sensing \in {"mic", "root"} => mind = "awake")
    /\ [](faulting => /\ tables = "kernel"
                      /\ \/ Stages[stage] = "display" /\ machine.fb = "high"
                         \/ Stages[stage] = "audio" /\ \E f \in masters : f.bar = "high")
=============================================================================
