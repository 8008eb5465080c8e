---------------------------- MODULE KernelProofs ----------------------------
(***************************************************************************)
(* Proofs about Kernel, for any machine, any texts and any readings: the   *)
(* letters of a page stay on the screen and apart, a driver has its        *)
(* device, the root of the loudness is exact, and a snapshot follows the   *)
(* one before.                                                             *)
(***************************************************************************)
EXTENDS Kernel, Induction, SequenceTheorems

-----------------------------------------------------------------------------
\* Where a letter may be: it fits, or stands at the margin.
Fits(px, py) == (px <= 8 \/ px + 9 <= fb_w) /\ (py <= 8 \/ py + 12 <= fb_h)

\* The cursor stands below or beside every letter of the page.
Before(at) == \/ at[2] + 12 <= cursor_y
              \/ at[2] = cursor_y /\ at[1] + 9 <= cursor_x

\* The inductive invariant of the screen.
DisplayInv ==
    /\ fb_w \in Nat /\ fb_h \in Nat
    /\ cursor_x \in Nat /\ cursor_y \in Nat
    /\ text \in Seq({Newline, Letter})
    /\ page \in Seq(Nat \X Nat)
    /\ at_top \in BOOLEAN
    /\ Fits(cursor_x, cursor_y)
    /\ \A i \in DOMAIN page : Fits(page[i][1], page[i][2])
    /\ \A i, j \in DOMAIN page :
          i # j => Beside(page[i], page[j]) \/ Below(page[i], page[j])
    /\ ~ at_top => \A i \in DOMAIN page : Before(page[i])

LEMMA DisplayStartInv == DisplayStart => DisplayInv
  BY DEF DisplayStart, DisplayInv, Fits

\* The page's letters are kept or a new page begun, and one letter is added.
LEMMA PrintCharInv == DisplayInv /\ PrintChar => DisplayInv'
<1> SUFFICES ASSUME DisplayInv, PrintChar PROVE DisplayInv'
  OBVIOUS
<1> DEFINE to   == Moved(Head(text))
           full == to[2] + 12 > fb_h
           kept == IF at_top THEN <<>> ELSE page
           new  == <<cursor_x, cursor_y>>
<1>1. /\ fb_w' = fb_w /\ fb_h' = fb_h
      /\ cursor_x' = to[1]
      /\ cursor_y' = IF full THEN 8 ELSE to[2]
      /\ at_top' = (full \/ (at_top /\ Head(text) = Newline))
  BY DEF PrintChar
<1>2. /\ cursor_x \in Nat /\ cursor_y \in Nat /\ fb_w \in Nat /\ fb_h \in Nat
      /\ at_top \in BOOLEAN
  BY DEF DisplayInv
<1>3. \/ /\ to[1] = 8 /\ to[2] = cursor_y + 12
      \/ /\ to[1] = cursor_x + 9 /\ to[2] = cursor_y
         /\ cursor_x + 9 + 9 <= fb_w
         /\ Head(text) # Newline
  BY <1>2 DEF Moved
<1>4. Head(text) = Newline => to[1] = 8 /\ to[2] = cursor_y + 12
  BY DEF Moved
<1>5. text' \in Seq({Newline, Letter})
  BY DEF PrintChar, DisplayInv
<1>6. Fits(cursor_x, cursor_y)'
  BY <1>1, <1>2, <1>3 DEF Fits, DisplayInv
<1>7. /\ page \in Seq(Nat \X Nat)
      /\ \A i \in DOMAIN page : page[i] \in Nat \X Nat
  BY DEF DisplayInv
<1>8. cursor_x' \in Nat /\ cursor_y' \in Nat /\ at_top' \in BOOLEAN
  BY <1>1, <1>2, <1>3
<1>9. CASE Head(text) = Newline
  <2>1. page' = page
    BY <1>9 DEF PrintChar
  <2>2. ~ at_top' => \A i \in DOMAIN page : Before(page[i])'
    <3> SUFFICES ASSUME ~ at_top', NEW i \in DOMAIN page
                 PROVE  (page[i][2])' + 12 <= cursor_y'
      BY DEF Before
    <3>1. cursor_y' = cursor_y + 12 /\ ~ at_top
      BY <1>1, <1>4, <1>9
    <3>2. page[i][1] \in Nat /\ page[i][2] \in Nat
      BY <1>7
    <3>3. Before(page[i])
      BY <3>1 DEF DisplayInv
    <3>4. page[i][2] <= cursor_y
      BY <1>2, <3>2, <3>3 DEF Before
    <3>5. page[i][2] + 12 <= cursor_y'
      BY <1>2, <3>1, <3>2, <3>4
    <3> QED
      BY <2>1, <3>5
  <2> QED
    BY <1>1, <1>2, <1>5, <1>6, <1>8, <2>1, <2>2
       DEF DisplayInv, Fits, Beside, Below
<1>10. CASE Head(text) # Newline
  <2>1. page' = Append(kept, new)
    BY <1>10 DEF PrintChar
  <2>2. kept \in Seq(Nat \X Nat) /\ new \in Nat \X Nat
    BY <1>2, <1>7
  <2>3. \A i \in DOMAIN kept :
           /\ kept[i][1] \in Nat /\ kept[i][2] \in Nat
           /\ Fits(kept[i][1], kept[i][2])
           /\ Before(kept[i])
           /\ \A j \in DOMAIN kept :
                 i # j => Beside(kept[i], kept[j]) \/ Below(kept[i], kept[j])
    BY <1>7 DEF DisplayInv
  <2>4. new[1] = cursor_x /\ new[2] = cursor_y
    OBVIOUS
  <2> HIDE DEF kept, new, to, full
  <2> DEFINE n == Len(kept)
  <2>5. /\ page' \in Seq(Nat \X Nat)
        /\ n \in Nat
        /\ DOMAIN page' = 1 .. n + 1
        /\ DOMAIN kept = 1 .. n
        /\ \A i \in 1 .. n : page'[i] = kept[i]
        /\ page'[n + 1] = new
    BY <2>1, <2>2
  <2> HIDE DEF n
  <2>6. \A i \in DOMAIN page' : i \in 1 .. n \/ i = n + 1
    BY <2>5
  <2>7. \A i \in 1 .. n : /\ Beside(kept[i], new) \/ Below(kept[i], new)
                          /\ Beside(new, kept[i]) \/ Below(new, kept[i])
    <3> SUFFICES ASSUME NEW i \in 1 .. n
                 PROVE  /\ Beside(kept[i], new) \/ Below(kept[i], new)
                        /\ Beside(new, kept[i]) \/ Below(new, kept[i])
      OBVIOUS
    <3>1. Before(kept[i]) /\ kept[i][1] \in Nat /\ kept[i][2] \in Nat
      BY <2>3, <2>5
    <3> QED
      BY <1>2, <2>4, <3>1 DEF Before, Beside, Below, GlyphSize
  <2>8. \A i \in DOMAIN page' : Fits(page[i][1], page[i][2])'
    <3>1. Fits(new[1], new[2])
      BY <2>4 DEF DisplayInv
    <3> QED
      BY <1>1, <2>3, <2>5, <2>6, <3>1 DEF Fits
  <2>9. \A i, j \in DOMAIN page' :
           i # j => Beside(page'[i], page'[j]) \/ Below(page'[i], page'[j])
    <3> SUFFICES ASSUME NEW i \in DOMAIN page', NEW j \in DOMAIN page', i # j
                 PROVE  Beside(page'[i], page'[j]) \/ Below(page'[i], page'[j])
      OBVIOUS
    <3>1. CASE i \in 1 .. n /\ j \in 1 .. n
      BY <2>3, <2>5, <3>1
    <3>2. CASE i \in 1 .. n /\ j = n + 1
      BY <2>5, <2>7, <3>2
    <3>3. CASE i = n + 1 /\ j \in 1 .. n
      BY <2>5, <2>7, <3>3
    <3> QED
      BY <2>6, <3>1, <3>2, <3>3
  <2>10. ~ at_top' => \A i \in DOMAIN page' : Before(page[i])'
    <3> SUFFICES ASSUME ~ at_top', NEW i \in DOMAIN page'
                 PROVE  \/ page'[i][2] + 12 <= cursor_y'
                        \/ page'[i][2] = cursor_y' /\ page'[i][1] + 9 <= cursor_x'
      BY DEF Before
    <3>1. cursor_x' = to[1] /\ cursor_y' = to[2]
      BY <1>1
    <3>2. CASE i = n + 1
      BY <1>2, <1>3, <2>4, <2>5, <3>1, <3>2
    <3>3. CASE i \in 1 .. n
      <4>1. Before(kept[i]) /\ kept[i][1] \in Nat /\ kept[i][2] \in Nat
        BY <2>3, <2>5, <3>3
      <4>2. \/ kept[i][2] + 12 <= cursor_y'
            \/ kept[i][2] = cursor_y' /\ kept[i][1] + 9 <= cursor_x'
        BY <1>2, <1>3, <3>1, <4>1 DEF Before
      <4>3. page'[i] = kept[i]
        BY <2>5, <3>3
      <4> QED
        BY <4>2, <4>3
    <3> QED
      BY <2>6, <3>2, <3>3
  <2> QED
    BY <1>1, <1>2, <1>5, <1>6, <1>8, <2>5, <2>8, <2>9, <2>10
       DEF DisplayInv, Beside, Below
<1> QED
  BY <1>9, <1>10

-----------------------------------------------------------------------------
\* The inductive invariant of the machine and its drivers: what may use the bus
\* was found there by a driver, and who is ready has found something.  Until
\* display_init the screen has no size.
BeforeDisplay == ~ faulting /\ (stage < 4 \/ (stage = 4 /\ phase # "confirm"))

MachineInv ==
    /\ machine \in Machines
    /\ stage \in 1 .. 15 /\ phase \in {"announce", "init", "confirm"}
    /\ tables \in {"firmware", "kernel"}
    /\ heap \in BOOLEAN /\ faulting \in BOOLEAN
    /\ ready \subseteq Drivers \cup {"filesystem", "camera", "microphone"}
    /\ \A f \in masters : f.driver \in Drivers /\ f \in FindClass(f.driver)
    /\ \A driver \in ready \cap Drivers : \E f \in masters : f.driver = driver
    /\ fb_w \in {0, machine.width} /\ fb_h \in {0, machine.height}
    /\ BeforeDisplay => fb_w = 0 /\ fb_h = 0

LEMMA StagesFacts ==
    /\ DOMAIN Stages = 1 .. 15
    /\ \A i \in 1 .. 15 : Stages[i] = "display" => i = 4
    /\ \A i \in 1 .. 15 : Stages[i] # "consciousness" => i + 1 \in 1 .. 15
  BY DEF Stages

LEMMA MachineFacts ==
  ASSUME machine \in Machines
  PROVE  /\ machine.width \in Nat /\ machine.height \in Nat
         /\ \A f \in machine.bus : f.slot \in Nat /\ f.func \in 0 .. 7
         /\ \A f, g \in machine.bus : f.slot = g.slot /\ f.func = g.func => f = g
  BY KernelAssumption DEF Functions

\* A driver finds one function or none.
LEMMA FoundOnce ==
  ASSUME machine \in Machines, NEW driver,
         NEW f \in FindClass(driver), NEW g \in FindClass(driver)
  PROVE  f = g /\ f \in machine.bus /\ f.func = 0 /\ f.driver = driver
<1>1. /\ f \in machine.bus /\ g \in machine.bus
      /\ f.func = 0 /\ g.func = 0 /\ f.driver = driver
      /\ f.slot <= g.slot /\ g.slot <= f.slot
  BY DEF FindClass
<1>2. f.slot = g.slot
  BY <1>1, MachineFacts
<1> QED
  BY <1>1, <1>2, MachineFacts

LEMMA KernelStartInv == KernelStart => DisplayInv /\ MachineInv
<1> SUFFICES ASSUME KernelStart PROVE DisplayInv /\ MachineInv
  OBVIOUS
<1>1. DisplayInv
  BY DisplayStartInv DEF KernelStart
<1>2. heap \in BOOLEAN /\ faulting \in BOOLEAN
  BY DEF KernelStart
<1>3. ready = {} /\ masters = {} /\ fb_w = 0 /\ fb_h = 0
  BY DEF KernelStart, DisplayStart
<1>4. /\ machine \in Machines
      /\ stage \in 1 .. 15 /\ phase \in {"announce", "init", "confirm"}
      /\ tables \in {"firmware", "kernel"}
  BY DEF KernelStart
<1>5. MachineInv
  BY <1>2, <1>3, <1>4 DEF MachineInv
<1> QED
  BY <1>1, <1>5

\* The steps of the boot, and what the others leave alone.
BootStep == Announce \/ Initialise \/ Confirm

MindStep == \/ /\ WakeUp \/ Sense \/ LookAround
               /\ UNCHANGED displayVars
            \/ Type
            \/ ActDisplay

LEMMA StepKinds ==
  ASSUME [KernelNext]_vars
  PROVE  BootStep \/ MindStep \/ UNCHANGED vars
  BY DEF KernelNext, KernelStep, BootStep, MindStep, WakeUp, Sense, LookAround

\* Printing and clearing keep the screen as it should be.
LEMMA PrintStringInv ==
  ASSUME DisplayInv, NEW string \in Texts, PrintString(string)
  PROVE  DisplayInv'
  BY DisplayAssumption
     DEF PrintString, DisplayInv, Fits, Before, Beside, Below

LEMMA DisplayClearInv ==
  ASSUME DisplayInv, DisplayClear, fb_w' \in Nat, fb_h' \in Nat
  PROVE  DisplayInv'
  BY DEF DisplayClear, DisplayInv, Fits

LEMMA BootStepDisplay == DisplayInv /\ MachineInv /\ BootStep => DisplayInv'
<1> SUFFICES ASSUME DisplayInv, MachineInv, BootStep PROVE DisplayInv'
  OBVIOUS
<1>1. CASE BootLog
  BY <1>1, PrintStringInv DEF BootLog
<1>2. CASE UNCHANGED displayVars
  BY <1>2 DEF displayVars, DisplayInv, Fits, Before, Beside, Below
<1>3. CASE DisplayInit
  <2>1. /\ fb_w' \in Nat /\ fb_h' \in Nat
        /\ stage = 4 /\ phase = "init" /\ ~ faulting
    BY <1>3, MachineFacts, StagesFacts
       DEF DisplayInit, Initialises, Booting, Running, MachineInv
  <2>2. CASE DisplayClear
    BY <2>1, <2>2, DisplayClearInv
  <2>3. CASE UNCHANGED <<cursor_x, cursor_y, text, page, at_top>>
    <3>1. fb_w = 0 /\ fb_h = 0
      BY <2>1 DEF MachineInv, BeforeDisplay
    <3>2. \A i \in DOMAIN page : page[i] \in Nat \X Nat
      BY DEF DisplayInv
    <3>3. Fits(cursor_x, cursor_y)'
      BY <2>1, <2>3, <3>1 DEF DisplayInv, Fits
    <3>4. \A i \in DOMAIN page : Fits(page[i][1], page[i][2])'
      <4> SUFFICES ASSUME NEW i \in DOMAIN page
                   PROVE  Fits(page[i][1], page[i][2])'
        OBVIOUS
      <4>1. page[i][1] <= 8 /\ page[i][2] <= 8
        BY <3>1, <3>2 DEF DisplayInv, Fits
      <4> QED
        BY <2>3, <4>1 DEF Fits
    <3> QED
      BY <2>1, <2>3, <3>3, <3>4 DEF DisplayInv, Before, Beside, Below
  <2> QED
    BY <1>3, <2>2, <2>3 DEF DisplayInit
<1> QED
  BY <1>1, <1>2, <1>3
     DEF BootStep, Announce, Confirm, Initialise, NothingKept, MemoryInit,
         DriverInit, AudioInit, FsInit, FrameInit

LEMMA MindStepDisplay == DisplayInv /\ MachineInv /\ MindStep => DisplayInv'
<1> SUFFICES ASSUME DisplayInv, MachineInv, MindStep PROVE DisplayInv'
  OBVIOUS
<1>1. CASE UNCHANGED displayVars
  BY <1>1 DEF displayVars, DisplayInv, Fits, Before, Beside, Below
<1>2. CASE Type
  BY <1>2, PrintCharInv DEF Type
<1>3. CASE ActDisplay
  BY <1>3, PrintStringInv, DisplayClearInv DEF ActDisplay, DisplayInv
<1> QED
  BY <1>1, <1>2, <1>3 DEF MindStep

\* A driver that looks for its device keeps the drivers' part.
LEMMA Driven ==
  ASSUME MachineInv, NEW driver \in Drivers, UNCHANGED machine,
         masters' = masters \cup FindClass(driver),
         \/ ready' = ready
         \/ ready' = ready \cup {driver} /\ FindClass(driver) # {}
  PROVE  /\ \A f \in masters' : f.driver \in Drivers /\ f \in FindClass(f.driver)'
         /\ \A d \in ready' \cap Drivers : \E f \in masters' : f.driver = d
         /\ ready' \subseteq Drivers \cup {"filesystem", "camera", "microphone"}
<1>1. \A d : FindClass(d)' = FindClass(d)
  BY DEF FindClass
<1>2. \A f \in FindClass(driver) : f.driver = driver
  BY DEF FindClass
<1>3. ASSUME NEW f \in masters'
      PROVE  f.driver \in Drivers /\ f \in FindClass(f.driver)'
  BY <1>1, <1>2, <1>3 DEF MachineInv
<1>4. ASSUME NEW d \in ready' \cap Drivers
      PROVE  \E f \in masters' : f.driver = d
  <2>1. CASE d \in ready
    BY <1>4, <2>1 DEF MachineInv
  <2>2. CASE d = driver /\ FindClass(driver) # {}
    BY <1>2, <2>2
  <2> QED
    BY <1>4, <2>1, <2>2
<1> QED
  BY <1>3, <1>4 DEF MachineInv

\* What a step that leaves the drivers alone keeps.
LEMMA DriversKept ==
  ASSUME MachineInv, UNCHANGED <<machine, masters>>,
         ready' \cap Drivers = ready \cap Drivers
  PROVE  /\ \A f \in masters' : f.driver \in Drivers /\ f \in FindClass(f.driver)'
         /\ \A d \in ready' \cap Drivers : \E f \in masters' : f.driver = d
  BY DEF MachineInv, FindClass

\* A function that was called leaves the screen without a size until
\* display_init.
LEMMA InitialisesMachine ==
  ASSUME MachineInv, NEW part, Initialises(part), Returns \/ Faults
  PROVE  /\ machine' = machine /\ stage' = stage /\ stage \in 1 .. 15
         /\ phase = "init" /\ ~ faulting
         /\ phase' \in {"init", "confirm"} /\ faulting' \in BOOLEAN
         /\ UNCHANGED <<fb_w, fb_h>> => (BeforeDisplay => fb_w = 0 /\ fb_h = 0)'
<1>1. /\ machine' = machine /\ stage' = stage /\ stage \in 1 .. 15
      /\ phase = "init" /\ ~ faulting
      /\ phase' \in {"init", "confirm"}
  BY DEF MachineInv, Initialises, Booting, Running, Returns, Faults
<1>2. faulting' \in BOOLEAN
  BY DEF MachineInv, Returns, Faults
<1>3. ASSUME UNCHANGED <<fb_w, fb_h>>, BeforeDisplay'
      PROVE  fb_w' = 0 /\ fb_h' = 0
  BY <1>1, <1>3 DEF MachineInv, BeforeDisplay, Returns, Faults
<1> QED
  BY <1>1, <1>2, <1>3

\* Every step of the machine's part, given what it does to the drivers.
LEMMA InitialiseMachine ==
  ASSUME MachineInv, NEW part, Initialises(part), Returns \/ Faults,
         UNCHANGED <<fb_w, fb_h>>,
         tables' \in {"firmware", "kernel"}, heap' \in BOOLEAN,
         ready' \subseteq Drivers \cup {"filesystem", "camera", "microphone"},
         \A f \in masters' : f.driver \in Drivers /\ f \in FindClass(f.driver)',
         \A d \in ready' \cap Drivers : \E f \in masters' : f.driver = d
  PROVE  MachineInv'
<1>1. /\ machine' = machine /\ stage' = stage /\ stage \in 1 .. 15
      /\ phase' \in {"init", "confirm"} /\ faulting' \in BOOLEAN
      /\ (BeforeDisplay => fb_w = 0 /\ fb_h = 0)'
  BY InitialisesMachine
<1>2. /\ machine' \in Machines
      /\ fb_w' \in {0, machine'.width} /\ fb_h' \in {0, machine'.height}
  BY <1>1 DEF MachineInv
<1> QED
  BY <1>1, <1>2 DEF MachineInv

LEMMA BootStepMachine == MachineInv /\ BootStep => MachineInv'
<1> SUFFICES ASSUME MachineInv, BootStep PROVE MachineInv'
  OBVIOUS
<1>1. CASE Announce
  <2>1. /\ UNCHANGED <<machine, stage, tables, heap, ready, masters, faulting>>
        /\ UNCHANGED <<fb_w, fb_h>>
        /\ phase = "announce" /\ phase' = "init"
    BY <1>1 DEF Announce, BootLog, PrintString
  <2>2. (BeforeDisplay => fb_w = 0 /\ fb_h = 0)'
    BY <2>1 DEF MachineInv, BeforeDisplay
  <2> QED
    BY <2>1, <2>2, DriversKept DEF MachineInv
<1>2. CASE Confirm
  <2>1. /\ UNCHANGED <<machine, tables, heap, ready, masters, faulting>>
        /\ UNCHANGED <<fb_w, fb_h>>
        /\ phase = "confirm" /\ phase' = "announce"
        /\ stage' = stage + 1
        /\ ~ faulting /\ Stages[stage] # "consciousness"
    BY <1>2 DEF Confirm, BootLog, PrintString, Booting, Running
  <2>2. stage \in 1 .. 15 /\ stage' \in 1 .. 15
    BY <2>1, StagesFacts DEF MachineInv
  <2>3. (BeforeDisplay => fb_w = 0 /\ fb_h = 0)'
    BY <2>1, <2>2 DEF MachineInv, BeforeDisplay
  <2> QED
    BY <2>1, <2>2, <2>3, DriversKept DEF MachineInv
<1>3. CASE NothingKept
  <2>1. UNCHANGED <<tables, heap, ready, masters, fb_w, fb_h, machine>> /\ Returns
    BY <1>3 DEF NothingKept, displayVars, Initialises
  <2>2. PICK part \in {"GDT", "IDT", "PCI", "syscall", "scheduler"} :
           Initialises(part)
    BY <1>3 DEF NothingKept
  <2>3. tables' \in {"firmware", "kernel"}
    BY <2>1 DEF MachineInv
  <2>4. heap' \in BOOLEAN
    BY <2>1 DEF MachineInv
  <2>5. ready' \subseteq Drivers \cup {"filesystem", "camera", "microphone"}
    BY <2>1 DEF MachineInv
  <2> QED
    BY <2>1, <2>2, <2>3, <2>4, <2>5, DriversKept, InitialiseMachine
<1>4. CASE MemoryInit
  <2>1. /\ UNCHANGED <<ready, masters, fb_w, fb_h, machine>> /\ Returns
        /\ Initialises("memory")
    BY <1>4 DEF MemoryInit, displayVars, Initialises
  <2>2. tables' \in {"firmware", "kernel"}
    BY <1>4 DEF MemoryInit, MachineInv
  <2>3. heap' \in BOOLEAN
    BY <1>4 DEF MemoryInit, MachineInv
  <2>4. ready' \subseteq Drivers \cup {"filesystem", "camera", "microphone"}
    BY <2>1 DEF MachineInv
  <2> QED
    BY <2>1, <2>2, <2>3, <2>4, DriversKept, InitialiseMachine
<1>5. CASE DisplayInit
  <2>1. /\ UNCHANGED <<tables, heap, ready, masters>>
        /\ Initialises("display") /\ (Returns \/ Faults)
        /\ fb_w' = machine.width /\ fb_h' = machine.height
    BY <1>5 DEF DisplayInit
  <2>2. /\ machine' = machine /\ stage' = stage /\ stage \in 1 .. 15
        /\ phase' \in {"init", "confirm"} /\ faulting' \in BOOLEAN
    BY <2>1, InitialisesMachine
  <2>3. stage = 4
    BY <2>1, <2>2, StagesFacts DEF Initialises
  <2>4. ~ BeforeDisplay'
    BY <2>1, <2>2, <2>3 DEF BeforeDisplay, Returns, Faults
  <2> QED
    BY <2>1, <2>2, <2>4, DriversKept DEF MachineInv
<1>6. ASSUME NEW driver \in {"USB", "NVMe", "network"}, DriverInit(driver)
      PROVE  MachineInv'
  <2>1. /\ UNCHANGED <<tables, heap, fb_w, fb_h, machine>> /\ Returns
        /\ Initialises(driver)
        /\ masters' = masters \cup FindClass(driver)
        /\ \/ ready' = ready
           \/ ready' = ready \cup {driver} /\ FindClass(driver) # {}
    BY <1>6 DEF DriverInit, displayVars, Initialises
  <2>2. driver \in Drivers
    BY DEF Drivers
  <2>3. tables' \in {"firmware", "kernel"}
    BY <2>1 DEF MachineInv
  <2>4. heap' \in BOOLEAN
    BY <2>1 DEF MachineInv
  <2> QED
    BY <2>1, <2>2, <2>3, <2>4, Driven, InitialiseMachine
<1>7. CASE AudioInit
  <2>1. /\ UNCHANGED <<tables, heap, fb_w, fb_h, machine>> /\ (Returns \/ Faults)
        /\ Initialises("audio")
        /\ masters' = masters \cup FindClass("audio")
        /\ \/ ready' = ready
           \/ ready' = ready \cup {"audio"} /\ FindClass("audio") # {}
    BY <1>7 DEF AudioInit, displayVars, Initialises
  <2>2. "audio" \in Drivers
    BY DEF Drivers
  <2>3. tables' \in {"firmware", "kernel"}
    BY <2>1 DEF MachineInv
  <2>4. heap' \in BOOLEAN
    BY <2>1 DEF MachineInv
  <2> QED
    BY <2>1, <2>2, <2>3, <2>4, Driven, InitialiseMachine
<1>8. ASSUME NEW part \in {"filesystem", "camera", "microphone"},
             Initialises(part), Returns,
             ready' = ready \/ ready' = ready \cup {part},
             UNCHANGED <<tables, heap, masters, displayVars>>
      PROVE  MachineInv'
  <2>1. UNCHANGED <<fb_w, fb_h, machine>>
    BY <1>8 DEF displayVars, Initialises
  <2>2. part \notin Drivers
    BY DEF Drivers
  <2>3. ready' \cap Drivers = ready \cap Drivers
    BY <1>8, <2>2
  <2>4. tables' \in {"firmware", "kernel"}
    BY <1>8 DEF MachineInv
  <2>5. heap' \in BOOLEAN
    BY <1>8 DEF MachineInv
  <2>6. ready' \subseteq Drivers \cup {"filesystem", "camera", "microphone"}
    BY <1>8 DEF MachineInv
  <2> QED
    BY <1>8, <2>1, <2>3, <2>4, <2>5, <2>6, DriversKept, InitialiseMachine
<1>9. CASE FsInit
  BY <1>8, <1>9 DEF FsInit
<1>10. CASE \E part \in {"camera", "microphone"} : FrameInit(part)
  BY <1>8, <1>10 DEF FrameInit
<1> QED
  BY <1>1, <1>2, <1>3, <1>4, <1>5, <1>6, <1>7, <1>9, <1>10 DEF BootStep, Initialise

LEMMA MindStepFrame ==
  ASSUME MindStep
  PROVE  /\ UNCHANGED machine /\ UNCHANGED <<fb_w, fb_h>>
         /\ UNCHANGED <<stage, phase, tables, heap, ready, masters, faulting>>
  BY DEF MindStep, bootVars, displayVars, WakeUp, Sense, LookAround, Type, ActDisplay,
         PrintChar, PrintString, DisplayClear

LEMMA MindStepMachine == MachineInv /\ MindStep => MachineInv'
<1> SUFFICES ASSUME MachineInv, MindStep PROVE MachineInv'
  OBVIOUS
<1>1. /\ UNCHANGED machine /\ UNCHANGED <<fb_w, fb_h>>
      /\ UNCHANGED <<stage, phase, tables, heap, ready, masters, faulting>>
  BY MindStepFrame
<1>3. (BeforeDisplay => fb_w = 0 /\ fb_h = 0)'
  BY <1>1 DEF MachineInv, BeforeDisplay
<1> QED
  BY <1>1, <1>3, DriversKept DEF MachineInv

-----------------------------------------------------------------------------
(* The means of a picture and of a recording. *)

\* The sum of numbers lies between as many times the least and the greatest.
LEMMA TotalBounds ==
    ASSUME NEW s \in Seq(Int), NEW low \in Int, NEW high \in Int,
           \A i \in DOMAIN s : low <= s[i] /\ s[i] <= high
    PROVE  /\ Total(s) \in Int
           /\ low * Len(s) <= Total(s) /\ Total(s) <= high * Len(s)
<1> DEFINE n == Len(s)
           step == [p \in Int \X Int |-> IF p[1] \in DOMAIN s THEN p[2] + s[p[1]]
                                                              ELSE 0]
           IsSum(f) == f = [i \in 0 .. n |-> IF i = 0 THEN 0 ELSE f[i - 1] + s[i]]
           sum == CHOOSE f : IsSum(f)
           Good == {i \in Int : i <= n => /\ sum[i] \in Int
                                          /\ low * i <= sum[i] /\ sum[i] <= high * i}
<1>1. n \in Nat /\ DOMAIN s = 1 .. n /\ \A i \in 1 .. n : s[i] \in Int
  BY LenProperties
<1>2. step \in [Int \X Int -> Int]
  <2>1. \A p \in Int \X Int : p[1] \in DOMAIN s => s[p[1]] \in Int
    BY <1>1
  <2> QED
    BY <2>1
<1>3. \E f \in [0 .. n -> Int] : Steps(f, 0, n, 0, step)
  <2>1. 0 \in Int /\ n \in Int /\ 0 <= n
    BY <1>1
  <2> HIDE DEF n, step
  <2> QED
    BY <1>2, <2>1, StepsExist
<1>4. PICK f \in [0 .. n -> Int] : Steps(f, 0, n, 0, step)
  <2> HIDE DEF n, step
  <2> QED
    BY <1>3
<1>5. IsSum(f)
  <2>1. f[0] = 0
    BY <1>4 DEF Steps
  <2>2. ASSUME NEW i \in 0 .. n, i # 0
        PROVE  f[i] = f[i - 1] + s[i]
    <3>1. i \in 0 + 1 .. n /\ i - 1 \in 0 .. n /\ i \in Int /\ i \in DOMAIN s
      BY <1>1, <2>2
    <3>2. f[i] = step[<<i, f[i - 1]>>] /\ f[i - 1] \in Int
      <4> HIDE DEF n, step
      <4> QED
        BY <1>4, <3>1 DEF Steps
    <3> QED
      BY <3>1, <3>2
  <2> HIDE DEF n
  <2> QED
    BY <1>4, <2>1, <2>2
<1>6. IsSum(sum)
  <2> HIDE DEF IsSum
  <2> QED
    BY <1>5
<1>7. Total(s) = sum[n]
  BY DEF Total
<1> HIDE DEF sum
<1>8. sum[0] = 0 /\ \A i \in 1 .. n : sum[i] = sum[i - 1] + s[i]
  <2>1. 0 \in 0 .. n /\ \A i \in 1 .. n : i \in 0 .. n /\ i # 0
    BY <1>1
  <2> HIDE DEF n
  <2> QED
    BY <1>6, <2>1
<1>9. 0 \in Good
  BY <1>8
<1>10. ASSUME NEW i \in Int, 0 <= i /\ i \in Good
       PROVE  i + 1 \in Good
  <2> SUFFICES ASSUME i + 1 <= n
               PROVE  /\ sum[i + 1] \in Int
                      /\ low * (i + 1) <= sum[i + 1] /\ sum[i + 1] <= high * (i + 1)
    OBVIOUS
  <2>1. i + 1 \in 1 .. n /\ (i + 1) - 1 = i
    BY <1>1, <1>10
  <2>2. sum[i + 1] = sum[i] + s[i + 1]
    BY <1>8, <2>1
  <2>3. sum[i] \in Int /\ low * i <= sum[i] /\ sum[i] <= high * i
    BY <1>1, <1>10
  <2>4. s[i + 1] \in Int /\ low <= s[i + 1] /\ s[i + 1] <= high
    BY <1>1, <2>1
  <2>5. /\ low * (i + 1) = low * i + low /\ high * (i + 1) = high * i + high
        /\ low * i \in Int /\ high * i \in Int
    OBVIOUS
  <2> QED
    BY <2>2, <2>3, <2>4, <2>5
<1>11. n \in Good
  <2>1. 0 \in Int /\ n \in Int /\ 0 <= n
    BY <1>1
  <2> HIDE DEF Good, n
  <2>2. \A i \in Int : 0 <= i => i \in Good
    BY <1>9, <1>10, <2>1, IntervalInduction
  <2> QED
    BY <2>1, <2>2
<1> QED
  BY <1>1, <1>7, <1>11

\* So the mean of some numbers lies between two of them.
LEMMA MeanBounds ==
    ASSUME NEW n \in Nat \ {0}, NEW t \in Int, NEW low \in Int, NEW high \in Int,
           low * n <= t, t <= high * n
    PROVE  t \div n \in Int /\ low <= t \div n /\ t \div n <= high
<1> DEFINE q == t \div n
<1>1. q \in Int /\ n * q <= t /\ t < n * q + n
  OBVIOUS
<1> HIDE DEF q
<1>2. low <= q
  <2> SUFFICES ASSUME q + 1 <= low PROVE FALSE
    BY <1>1
  <2>1. n * (q + 1) <= n * low /\ n * (q + 1) = n * q + n /\ n * low = low * n
    BY <1>1
  <2> QED
    BY <1>1, <2>1
<1>3. q <= high
  <2> SUFFICES ASSUME high + 1 <= q PROVE FALSE
    BY <1>1
  <2>1. n * (high + 1) <= n * q /\ n * (high + 1) = high * n + n
    BY <1>1
  <2> QED
    BY <1>1, <2>1
<1> QED
  BY <1>1, <1>2, <1>3 DEF q

\* What is looked at is the beginning of the frame.
LEMMA SeenIs ==
    ASSUME NEW S, NEW frame \in Seq(S), frame # <<>>, NEW max \in Nat \ {0}
    PROVE  LET part == SubSeq(frame, 1, Smaller(Len(frame), max))
           IN  /\ part \in Seq(S) /\ Len(part) = Smaller(Len(frame), max)
               /\ Len(part) \in Nat \ {0}
               /\ DOMAIN part \subseteq DOMAIN frame
               /\ \A i \in DOMAIN part : part[i] = frame[i]
<1> DEFINE m == Smaller(Len(frame), max)
<1>1. Len(frame) \in Nat \ {0}
  BY LenProperties, EmptySeq
<1>2. m \in Nat \ {0} /\ m <= Len(frame)
  BY <1>1 DEF Smaller
<1> HIDE DEF m
<1>3. /\ SubSeq(frame, 1, m) \in Seq(S)
      /\ Len(SubSeq(frame, 1, m)) = m
      /\ \A i \in 1 .. m : SubSeq(frame, 1, m)[i] = frame[i]
  <2>1. \A i \in 1 .. m : frame[i] \in S
    BY <1>1, <1>2, LenProperties
  <2> QED
    BY <1>1, <1>2, <2>1, SubSeqProperties
<1>4. DOMAIN SubSeq(frame, 1, m) = 1 .. m /\ DOMAIN frame = 1 .. Len(frame)
  BY <1>1, <1>2, <1>3, LenProperties
<1>5. 1 .. m \subseteq 1 .. Len(frame)
  BY <1>1, <1>2
<1> QED
  BY <1>2, <1>3, <1>4, <1>5 DEF m

\* The brightness is a byte, and lies between two of the pixels looked at.
LEMMA MeanLumaIs ==
    ASSUME NEW frame \in CamFrames
    PROVE  /\ MeanLuma(frame) \in 0 .. 255
           /\ \E i \in DOMAIN Seen(frame) : frame[i] <= MeanLuma(frame)
           /\ \E i \in DOMAIN Seen(frame) : MeanLuma(frame) <= frame[i]
<1> DEFINE part == Seen(frame)
           mean == MeanLuma(frame)
<1>1. /\ part \in Seq(Int) /\ Len(part) \in Nat \ {0}
      /\ mean = Total(part) \div Len(part)
      /\ \A i \in DOMAIN part : part[i] = frame[i]
      /\ \A i \in DOMAIN part : part[i] \in Int /\ 0 <= part[i] /\ part[i] <= 255
  <2>1. frame \in Seq(Luma) /\ frame # <<>> /\ MaxPixels \in Nat \ {0}
    BY SensesAssumption
  <2>2. /\ part \in Seq(Luma) /\ Len(part) \in Nat \ {0}
        /\ Len(part) = Smaller(Len(frame), MaxPixels)
        /\ \A i \in DOMAIN part : part[i] = frame[i]
    BY <2>1, SeenIs DEF Seen
  <2>3. mean = Total(part) \div Len(part)
    BY <2>2 DEF MeanLuma
  <2> HIDE DEF part, mean
  <2>4. part \in [1 .. Len(part) -> Luma]
    BY <2>2, LenProperties
  <2>5. \A v \in Luma : v \in Int /\ 0 <= v /\ v <= 255
    BY DEF Luma
  <2>6. part \in Seq(Int)
    BY <2>2, <2>4, <2>5
  <2> QED
    BY <2>2, <2>3, <2>4, <2>5, <2>6
<1> HIDE DEF part, mean
<1>2. ASSUME NEW low \in Int, NEW high \in Int,
             \A i \in DOMAIN part : low <= part[i] /\ part[i] <= high
      PROVE  mean \in Int /\ low <= mean /\ mean <= high
  <2>1. /\ Total(part) \in Int
        /\ low * Len(part) <= Total(part) /\ Total(part) <= high * Len(part)
    BY <1>1, <1>2, TotalBounds
  <2> QED
    BY <1>1, <2>1, MeanBounds
<1>3. mean \in 0 .. 255
  <2>1. \A i \in DOMAIN part : 0 <= part[i] /\ part[i] <= 255
    BY <1>1
  <2>2. mean \in Int /\ 0 <= mean /\ mean <= 255
    BY <1>2, <2>1
  <2> QED
    BY <2>2
<1>4. \E i \in DOMAIN part : part[i] <= mean
  <2> SUFFICES ASSUME \A i \in DOMAIN part : ~ (part[i] <= mean) PROVE FALSE
    OBVIOUS
  <2>1. ASSUME NEW i \in DOMAIN part
        PROVE  mean + 1 <= part[i] /\ part[i] <= 255
    <3>1. part[i] \in Int /\ part[i] <= 255 /\ ~ (part[i] <= mean) /\ mean \in Int
      BY <1>1, <1>3
    <3> QED
      BY <3>1
  <2>2. mean + 1 \in Int /\ 255 \in Int
    BY <1>3
  <2>3. mean + 1 <= mean
    BY <1>2, <2>1, <2>2
  <2> QED
    BY <1>3, <2>3
<1>5. \E i \in DOMAIN part : mean <= part[i]
  <2> SUFFICES ASSUME \A i \in DOMAIN part : ~ (mean <= part[i]) PROVE FALSE
    OBVIOUS
  <2>1. ASSUME NEW i \in DOMAIN part
        PROVE  0 <= part[i] /\ part[i] <= mean - 1
    <3>1. part[i] \in Int /\ 0 <= part[i] /\ ~ (mean <= part[i]) /\ mean \in Int
      BY <1>1, <1>3
    <3> QED
      BY <3>1
  <2>2. mean - 1 \in Int /\ 0 \in Int
    BY <1>3
  <2>3. mean <= mean - 1
    BY <1>2, <2>1, <2>2
  <2> QED
    BY <1>3, <2>3
<1> QED
  BY <1>1, <1>3, <1>4, <1>5 DEF part, mean

\* The mean square stays below the square of what the bits of a root add up to.
LEMMA MeanSquareIs ==
    ASSUME NEW frame \in MicFrames
    PROVE  MeanSquare(frame) \in 0 .. 4 * TopBit - 1
<1> DEFINE heard   == Heard(frame)
           squares == [i \in DOMAIN heard |-> heard[i] * heard[i]]
<1>1. PICK s \in RootBits : s \in Nat /\ TopBit = s * s
  BY SensesAssumption
<1>2. TopBit \in Nat
  BY <1>1
<1>3. /\ heard \in Seq(Sample) /\ Len(heard) \in Nat \ {0}
  <2>1. frame \in Seq(Sample) /\ frame # <<>> /\ MaxSamples \in Nat \ {0}
    BY SensesAssumption
  <2> QED
    BY <2>1, SeenIs DEF Heard
<1>4. DOMAIN heard = 1 .. Len(heard) /\ \A i \in DOMAIN heard : heard[i] \in Sample
  BY <1>3, LenProperties
<1>5. \A i \in DOMAIN heard : heard[i] \in Int /\ heard[i] * heard[i] < 4 * TopBit
  BY <1>4 DEF Sample
<1> HIDE DEF heard
<1>6. \A i \in DOMAIN heard :
         /\ heard[i] * heard[i] \in Int
         /\ 0 <= heard[i] * heard[i] /\ heard[i] * heard[i] <= 4 * TopBit - 1
  <2>1. \A v \in Int : v * v \in Int /\ 0 <= v * v
    OBVIOUS
  <2> QED
    BY <1>2, <1>5, <2>1
<1>7. /\ squares \in Seq(Int) /\ Len(squares) = Len(heard)
      /\ DOMAIN squares = DOMAIN heard
      /\ \A i \in DOMAIN squares : 0 <= squares[i] /\ squares[i] <= 4 * TopBit - 1
  <2>1. squares \in [1 .. Len(heard) -> Int]
    BY <1>4, <1>6
  <2>2. squares \in Seq(Int)
    BY <1>3, <2>1, IsASeq
  <2>3. Len(squares) = Len(heard)
    BY <1>3, <1>4, <2>1, <2>2, LenProperties
  <2> QED
    BY <1>6, <2>2, <2>3
<1>8. MeanSquare(frame) = Total(squares) \div Len(squares)
  BY <1>7 DEF MeanSquare, heard
<1> HIDE DEF squares
<1>9. /\ Total(squares) \in Int
      /\ 0 * Len(squares) <= Total(squares)
      /\ Total(squares) <= (4 * TopBit - 1) * Len(squares)
  <2>1. 0 \in Int /\ 4 * TopBit - 1 \in Int
    BY <1>2
  <2> QED
    BY <1>7, <2>1, TotalBounds
<1>10. LET mean == Total(squares) \div Len(squares)
       IN  mean \in Int /\ 0 <= mean /\ mean <= 4 * TopBit - 1
  <2>1. /\ 0 \in Int /\ 4 * TopBit - 1 \in Int
        /\ Len(squares) \in Nat \ {0}
    BY <1>2, <1>3, <1>7
  <2> QED
    BY <1>9, <2>1, MeanBounds
<1> QED
  BY <1>2, <1>8, <1>10

-----------------------------------------------------------------------------
\* The inductive invariant of the senses.
\* The loop of the square root: r is twice the root found so far, a, times the
\* next bit, s, and x what the square of a leaves of the mean square.
Searching ==
    \E s \in RootBits, a \in Nat :
        /\ bit = s * s
        /\ r = 2 * a * s
        /\ x + a * a = mean_sq
        /\ mean_sq < (a + 2 * s) * (a + 2 * s)

BitValues == {0} \cup {s * s : s \in RootBits}

RootInv ==
    /\ x \in Nat /\ r \in Nat /\ rms \in Nat /\ mean_sq \in Nat
    /\ bit \in BitValues
    /\ sensing = "root" => Searching \/ (bit = 0 /\ Root(mean_sq, r))
    /\ sensing = "off" => mean_sq = 0 /\ rms = 0
    /\ LoudnessExact

\* A bit is one, or twice the next; its square four times the next one's.
LEMMA NextBit ==
  ASSUME NEW s \in RootBits
  PROVE  /\ s \in Nat /\ s >= 1 /\ s * s >= 1
         /\ \/ s = 1 /\ (s * s) \div 4 = 0
            \/ \E h \in RootBits : h \in Nat /\ s = 2 * h /\ (s * s) \div 4 = h * h
<1>1. s \in Nat /\ s >= 1
  BY SensesAssumption
<1>2. s * s >= 1
  BY <1>1
<1>3. CASE s = 1
  BY <1>1, <1>2, <1>3
<1>4. CASE \E h \in RootBits : s = 2 * h
  <2>1. PICK h \in RootBits : s = 2 * h
    BY <1>4
  <2>2. h \in Nat
    BY SensesAssumption
  <2>3. s * s = 4 * (h * h) /\ h * h \in Nat
    BY <2>1, <2>2
  <2>4. (s * s) \div 4 = h * h
    BY <2>3
  <2> QED
    BY <1>1, <1>2, <2>1, <2>2, <2>4
<1> QED
  BY <1>3, <1>4, SensesAssumption

\* The next bit is part of the root.
LEMMA BitTaken ==
  ASSUME NEW a \in Nat, NEW s \in Nat, s >= 1, NEW m \in Nat, NEW y \in Nat,
         y + a * a = m, m < (a + 2 * s) * (a + 2 * s), y >= 2 * a * s + s * s
  PROVE  /\ y - (2 * a * s + s * s) \in Nat
         /\ (y - (2 * a * s + s * s)) + (a + s) * (a + s) = m
         /\ m < ((a + s) + s) * ((a + s) + s)
         /\ (2 * a * s) \div 2 + s * s = (a + s) * s
<1>1. a * s \in Nat /\ s * s \in Nat /\ a * a \in Nat /\ 2 * a * s = 2 * (a * s)
  OBVIOUS
<1>2. (a + s) * (a + s) = a * a + 2 * a * s + s * s
  OBVIOUS
<1>3. (2 * a * s) \div 2 = a * s
  BY <1>1
<1>4. (a + s) + s = a + 2 * s
  OBVIOUS
<1>5. (a + s) * s = a * s + s * s
  OBVIOUS
<1>6. y - (2 * a * s + s * s) \in Nat
  BY <1>1
<1>7. (y - (2 * a * s + s * s)) + (a + s) * (a + s) = m
  BY <1>1, <1>2
<1> QED
  BY <1>1, <1>3, <1>4, <1>5, <1>6, <1>7

\* Or it is not.
LEMMA BitLeft ==
  ASSUME NEW a \in Nat, NEW s \in Nat, NEW m \in Nat, NEW y \in Nat,
         y + a * a = m, y < 2 * a * s + s * s
  PROVE  /\ m < (a + s) * (a + s)
         /\ (2 * a * s) \div 2 = a * s
<1>1. a * s \in Nat /\ s * s \in Nat /\ a * a \in Nat /\ 2 * a * s = 2 * (a * s)
  OBVIOUS
<1>2. (a + s) * (a + s) = a * a + 2 * a * s + s * s
  OBVIOUS
<1> QED
  BY <1>1, <1>2

\* The mean square is below the square of what the bits can add up to.
LEMMA ListenRoot ==
  ASSUME RootInv, NEW microphone, Listen(microphone)
  PROVE  RootInv'
<1>1. CASE sensing' = "root"
  <2>1. PICK frame \in MicFrames :
           /\ mean_sq' = MeanSquare(frame) /\ x' = mean_sq' /\ r' = 0
           /\ bit' = TopBit /\ rms' = rms
    BY <1>1 DEF Listen
  <2>2. mean_sq' \in 0 .. 4 * TopBit - 1
    BY <2>1, MeanSquareIs
  <2>3. PICK s \in RootBits : TopBit = s * s
    BY SensesAssumption
  <2>4. s \in Nat /\ s * s \in Nat /\ (0 + 2 * s) * (0 + 2 * s) = 4 * (s * s)
    BY NextBit
  <2>5. mean_sq' \in Nat /\ mean_sq' < (0 + 2 * s) * (0 + 2 * s)
    BY <2>2, <2>3, <2>4
  <2>6. r' = 2 * 0 * s /\ x' + 0 * 0 = mean_sq'
    BY <2>1, <2>4, <2>5
  <2>7. Searching'
    BY <2>1, <2>3, <2>5, <2>6 DEF Searching
  <2>8. bit' \in BitValues /\ x' \in Nat /\ r' \in Nat
    BY <2>1, <2>3, <2>5 DEF BitValues
  <2> QED
    BY <1>1, <2>1, <2>5, <2>7, <2>8 DEF RootInv, LoudnessExact
<1>2. CASE sensing' = "idle"
  <2>1. mean_sq' = 0 /\ rms' = 0 /\ UNCHANGED <<x, r, bit>>
    BY <1>2 DEF Listen
  <2> QED
    BY <1>2, <2>1 DEF RootInv, LoudnessExact, Root
<1> QED
  BY <1>1, <1>2 DEF Listen

LEMMA SkipBitRoot ==
  ASSUME RootInv, SkipBit
  PROVE  RootInv'
<1>1. /\ sensing = "root" /\ r = 0 /\ x = mean_sq /\ bit > x
      /\ bit' = bit \div 4
      /\ UNCHANGED <<x, r, rms, mean_sq, sensing>>
      /\ x \in Nat /\ mean_sq \in Nat
  BY DEF SkipBit, RootInv
<1>2. bit # 0
  BY <1>1
<1>3. PICK s \in RootBits, a \in Nat :
         /\ bit = s * s
         /\ r = 2 * a * s
         /\ x + a * a = mean_sq
         /\ mean_sq < (a + 2 * s) * (a + 2 * s)
  BY <1>1, <1>2 DEF RootInv, Searching
<1>4. CASE s = 1 /\ (s * s) \div 4 = 0
  <2>1. bit' = 0 /\ mean_sq = 0
    BY <1>1, <1>3, <1>4
  <2> QED
    BY <1>1, <2>1 DEF RootInv, LoudnessExact, Root, BitValues
<1>5. ASSUME NEW h \in RootBits, h \in Nat, s = 2 * h, (s * s) \div 4 = h * h
      PROVE  RootInv'
  <2>1. bit' = h * h
    BY <1>1, <1>3, <1>5
  <2>2. (0 + 2 * h) * (0 + 2 * h) = s * s
    BY <1>5
  <2>3. mean_sq' < (0 + 2 * h) * (0 + 2 * h)
    BY <1>1, <1>3, <2>2
  <2>4. r' = 2 * 0 * h /\ x' + 0 * 0 = mean_sq'
    BY <1>1, <1>5
  <2>5. Searching'
    BY <2>1, <2>3, <2>4 DEF Searching
  <2> QED
    BY <1>1, <2>1, <2>5 DEF RootInv, LoudnessExact, BitValues
<1> QED
  BY <1>4, <1>5, NextBit

LEMMA FindRootRoot ==
  ASSUME RootInv, FindRoot
  PROVE  RootInv'
<1>1. sensing = "root" /\ UNCHANGED mean_sq /\ mean_sq \in Nat /\ x \in Nat
  BY DEF FindRoot, RootInv
<1>2. CASE RootFound
  <2>1. /\ bit = 0 /\ rms' = r /\ sensing' = "idle" /\ UNCHANGED <<x, r, bit>>
    BY <1>2 DEF RootFound
  <2>2. ~ Searching
    BY <2>1, NextBit DEF Searching
  <2> QED
    BY <1>1, <2>1, <2>2 DEF RootInv, LoudnessExact
<1>3. CASE RootBit
  <2>1. /\ bit # 0 /\ bit' = bit \div 4 /\ UNCHANGED <<rms, sensing>>
        /\ IF x >= r + bit
           THEN x' = x - (r + bit) /\ r' = r \div 2 + bit
           ELSE x' = x /\ r' = r \div 2
    BY <1>3 DEF RootBit
  <2>2. PICK s \in RootBits, a \in Nat :
           /\ bit = s * s
           /\ r = 2 * a * s
           /\ x + a * a = mean_sq
           /\ mean_sq < (a + 2 * s) * (a + 2 * s)
    BY <1>1, <2>1 DEF RootInv, Searching
  <2>3. s \in Nat /\ s >= 1
    BY NextBit
  \* Taken or not, b is the root found, and the next bit is missing at most.
  <2>4. \E b \in Nat : /\ x' \in Nat /\ x' + b * b = mean_sq
                       /\ mean_sq < (b + s) * (b + s)
                       /\ r' = b * s
    <3>1. CASE x >= r + bit
      <4>1. /\ x - (2 * a * s + s * s) \in Nat
            /\ (x - (2 * a * s + s * s)) + (a + s) * (a + s) = mean_sq
            /\ mean_sq < ((a + s) + s) * ((a + s) + s)
            /\ (2 * a * s) \div 2 + s * s = (a + s) * s
        BY <1>1, <2>2, <2>3, <3>1, BitTaken
      <4>2. a + s \in Nat
        BY <2>3
      <4>3. x' = x - (2 * a * s + s * s) /\ r' = (2 * a * s) \div 2 + s * s
        BY <2>1, <2>2, <3>1
      <4> QED
        BY <4>1, <4>2, <4>3
    <3>2. CASE ~ (x >= r + bit)
      <4>1. x < 2 * a * s + s * s
        BY <1>1, <2>2, <2>3, <3>2
      <4>2. /\ mean_sq < (a + s) * (a + s)
            /\ (2 * a * s) \div 2 = a * s
        BY <1>1, <2>2, <2>3, <4>1, BitLeft
      <4>3. x' = x /\ r' = (2 * a * s) \div 2
        BY <2>1, <2>2, <3>2
      <4> QED
        BY <1>1, <2>2, <4>2, <4>3
    <3> QED
      BY <3>1, <3>2
  <2>5. PICK b \in Nat : /\ x' \in Nat /\ x' + b * b = mean_sq
                         /\ mean_sq < (b + s) * (b + s)
                         /\ r' = b * s
    BY <2>4
  <2>6. CASE s = 1 /\ (s * s) \div 4 = 0
    <3>1. bit' = 0
      BY <2>1, <2>2, <2>6
    <3>2. r' = b
      BY <2>5, <2>6
    <3>3. b * b <= mean_sq /\ mean_sq < (b + 1) * (b + 1)
      <4>1. b * b \in Nat /\ x' \in Nat /\ x' + b * b = mean_sq
        BY <2>5
      <4>2. b * b <= mean_sq
        BY <4>1
      <4>3. mean_sq < (b + 1) * (b + 1)
        BY <2>5, <2>6
      <4> QED
        BY <4>2, <4>3
    <3>4. Root(mean_sq', r')
      BY <1>1, <3>2, <3>3 DEF Root
    <3> QED
      BY <1>1, <2>1, <2>5, <3>1, <3>2, <3>4 DEF RootInv, LoudnessExact, BitValues
  <2>7. ASSUME NEW h \in RootBits, h \in Nat, s = 2 * h, (s * s) \div 4 = h * h
        PROVE  RootInv'
    <3>1. bit' = h * h
      BY <2>1, <2>2, <2>7
    <3>2. r' = 2 * b * h /\ r' \in Nat
      BY <2>5, <2>7
    <3>3. Searching'
      BY <1>1, <2>5, <2>7, <3>1, <3>2 DEF Searching
    <3>4. bit' \in BitValues
      BY <3>1 DEF BitValues
    <3> QED
      BY <1>1, <2>1, <2>5, <3>2, <3>3, <3>4 DEF RootInv, LoudnessExact
  <2> QED
    BY <2>6, <2>7, NextBit
<1> QED
  BY <1>2, <1>3 DEF FindRoot

\* The rest of the senses: the clock, and what is remembered of a picture.
Elapsed == tsc \div TicksPerMs

ClockInv ==
    /\ tsc \in 0 .. MaxTsc
    /\ ticks_per_ms \in {TicksGuess, TicksPerMs}
    /\ boot_tick \in Nat
    /\ uptime_ms \in 0 .. Word - 1
    /\ sensing = "off" => uptime_ms = 0
    /\ sensing # "off" =>
          /\ ticks_per_ms = TicksPerMs
          /\ boot_tick + uptime_ms <= Elapsed

CameraInv ==
    /\ prev_luma \in 0 .. 255 /\ mean_luma \in 0 .. 255
    /\ motion_delta \in 0 .. 255
    /\ prev_luma = IF picture = <<>> THEN 128 ELSE mean_luma
    /\ picture # <<>> => "camera" \in ready /\ picture \in CamFrames
    /\ picture # <<>> => mean_luma = MeanLuma(picture)

SensesInv ==
    /\ RootInv
    /\ ClockInv
    /\ CameraInv
    /\ sensing \in {"off", "idle", "mic", "root"}

\* Division by a positive number is monotone and does not grow.
LEMMA DivFacts ==
  ASSUME NEW d \in Nat \ {0}, NEW m \in Nat, NEW n \in Nat, m <= n
  PROVE  /\ m \div d \in Nat /\ n \div d \in Nat
         /\ m \div d <= n \div d
         /\ n \div d <= n
<1>1. /\ m \div d \in Int /\ n \div d \in Int
      /\ d * (m \div d) <= m /\ m < d * (m \div d) + d
      /\ d * (n \div d) <= n /\ n < d * (n \div d) + d
  OBVIOUS
<1> DEFINE a == m \div d
           b == n \div d
<1> HIDE DEF a, b
<1>2. a \in Int /\ b \in Int /\ d * a <= m /\ m < d * a + d /\ d * b <= n /\ n < d * b + d
  BY <1>1 DEF a, b
<1>3. a >= 0 /\ b >= 0
  <2>1. d * (a + 1) > 0 /\ d * (b + 1) > 0
    BY <1>2
  <2> QED
    BY <1>2, <2>1
<1>4. a <= b
  <2> SUFFICES ASSUME a >= b + 1 PROVE FALSE
    BY <1>2
  <2>1. d * a >= d * (b + 1)
    BY <1>2
  <2> QED
    BY <1>2, <2>1
<1>5. b <= n
  <2>1. d * b >= b
    BY <1>2, <1>3
  <2> QED
    BY <1>2, <2>1
<1> QED
  BY <1>2, <1>3, <1>4, <1>5 DEF a, b

LEMMA SensesStartInv == SensesStart => SensesInv
<1> SUFFICES ASSUME SensesStart PROVE SensesInv
  OBVIOUS
<1>1. RootInv
  BY DEF SensesStart, RootInv, BitValues, LoudnessExact
<1>2. ClockInv
  BY SensesAssumption DEF SensesStart, ClockInv
<1>3. CameraInv
  BY DEF SensesStart, CameraInv
<1> QED
  BY <1>1, <1>2, <1>3 DEF SensesInv, SensesStart

\* What leaves the senses alone keeps them: a part that is ready stays ready.
LEMMA SensesKept ==
  ASSUME SensesInv, UNCHANGED sensesVars, ready \subseteq ready'
  PROVE  SensesInv'
<1>1. UNCHANGED <<x, r, bit, rms, mean_sq, sensing>>
  BY DEF sensesVars, micVars
<1>2. RootInv'
  BY <1>1 DEF SensesInv, RootInv, Searching, LoudnessExact, Root
<1>3. ClockInv'
  BY <1>1 DEF SensesInv, ClockInv, Elapsed, sensesVars, clockVars
<1>4. CameraInv'
  BY DEF SensesInv, CameraInv, sensesVars, cameraVars
<1> QED
  BY <1>1, <1>2, <1>3, <1>4 DEF SensesInv

\* A snapshot's clock: it has not gone back, and the remainder is the number.
LEMMA CaptureClock ==
  ASSUME ClockInv, NEW camera, NEW now \in 0 .. MaxTsc, Capture(camera, now)
  PROVE  /\ ClockInv'
         /\ uptime_ms' \in uptime_ms .. tsc' \div TicksPerMs
<1>1. /\ sensing = "idle" /\ sensing' = "mic" /\ now >= tsc /\ tsc' = now
      /\ uptime_ms' = (now \div ticks_per_ms - boot_tick) % Word
      /\ UNCHANGED <<ticks_per_ms, boot_tick>>
  BY DEF Capture
<1>2. /\ TicksPerMs \in Nat \ {0} /\ MaxTsc \in Nat /\ Word \in Nat /\ MaxTsc < Word
  BY SensesAssumption
<1>3. /\ tsc \in Nat /\ ticks_per_ms = TicksPerMs /\ boot_tick \in Nat
      /\ uptime_ms \in Nat
      /\ boot_tick + uptime_ms <= tsc \div TicksPerMs
  BY <1>1, <1>2 DEF ClockInv, Elapsed
<1> DEFINE now_ms == now \div TicksPerMs
<1>4. /\ tsc \div TicksPerMs \in Nat /\ now_ms \in Nat
      /\ tsc \div TicksPerMs <= now_ms /\ now_ms <= now
  BY <1>1, <1>2, <1>3, DivFacts
<1>5. now_ms - boot_tick \in 0 .. Word - 1 /\ now_ms - boot_tick >= uptime_ms
  BY <1>2, <1>3, <1>4
<1>6. uptime_ms' = (now_ms - boot_tick) % Word
  BY <1>1, <1>3
<1> HIDE DEF now_ms
<1>7. uptime_ms' = now_ms - boot_tick
  BY <1>2, <1>5, <1>6
<1>8. tsc' \div TicksPerMs = now_ms
  BY <1>1 DEF now_ms
<1>9. boot_tick + uptime_ms' = now_ms
  BY <1>3, <1>4, <1>7
<1>10. ClockInv'
  BY <1>1, <1>3, <1>4, <1>5, <1>7, <1>8, <1>9 DEF ClockInv, Elapsed
<1> QED
  BY <1>3, <1>4, <1>5, <1>7, <1>8, <1>10

\* A picture: the one before is remembered, or there was none.
LEMMA CaptureCamera ==
  ASSUME CameraInv, NEW now, Capture("camera" \in ready, now), UNCHANGED ready
  PROVE  /\ CameraInv'
         /\ picture' # <<>> =>
               motion_delta' = Apart(mean_luma', IF picture = <<>> THEN 128
                                                 ELSE mean_luma)
<1>1. CASE "camera" \in ready
  <2>1. PICK frame \in CamFrames : SeePicture(frame)
    BY <1>1 DEF Capture
  <2>2. frame # <<>> /\ mean_luma' \in 0 .. 255
    BY <2>1, SensesAssumption, MeanLumaIs DEF SeePicture
  <2>3. prev_luma' = mean_luma' /\ picture' = frame /\ mean_luma' = MeanLuma(frame)
        /\ motion_delta' = Apart(mean_luma', prev_luma)
    BY <2>1 DEF SeePicture
  <2>4. prev_luma \in 0 .. 255
    BY DEF CameraInv
  <2>5. motion_delta' \in 0 .. 255
    <3>1. \A a, b \in 0 .. 255 : Apart(a, b) \in 0 .. 255
      BY DEF Apart
    <3> QED
      BY <2>2, <2>3, <2>4, <3>1
  <2>6. CameraInv'
    BY <1>1, <2>2, <2>3, <2>5 DEF CameraInv
  <2> QED
    BY <2>3, <2>6 DEF CameraInv
<1>2. CASE "camera" \notin ready
  <2>1. SeeNothing
    BY <1>2 DEF Capture
  <2>2. picture = <<>> /\ prev_luma = 128
    BY <1>2 DEF CameraInv
  <2> QED
    BY <2>1, <2>2 DEF SeeNothing, CameraInv
<1> QED
  BY <1>1, <1>2

LEMMA CaptureInv ==
  ASSUME SensesInv, NEW now \in 0 .. MaxTsc, Capture("camera" \in ready, now),
         UNCHANGED ready
  PROVE  SensesInv'
<1>1. RootInv'
  BY DEF Capture, micVars, SensesInv, RootInv, LoudnessExact
<1>2. ClockInv' /\ CameraInv'
  BY CaptureClock, CaptureCamera DEF SensesInv
<1> QED
  BY <1>1, <1>2 DEF Capture, SensesInv

LEMMA WakeUpInv ==
  ASSUME SensesInv, NEW now \in 0 .. MaxTsc, SensesInit(now), UNCHANGED ready
  PROVE  SensesInv'
<1>1. /\ sensing = "off" /\ sensing' = "idle" /\ tsc' = now
      /\ ticks_per_ms' = TicksPerMs /\ boot_tick' = now \div ticks_per_ms'
      /\ UNCHANGED <<uptime_ms, cameraVars, micVars>>
  BY DEF SensesInit
<1>2. RootInv'
  BY <1>1 DEF micVars, SensesInv, RootInv, LoudnessExact, Root
<1>3. CameraInv'
  BY <1>1 DEF cameraVars, SensesInv, CameraInv
<1>4. boot_tick' = now \div TicksPerMs /\ boot_tick' \in Nat /\ uptime_ms' = 0
  <2>1. now \in Nat /\ TicksPerMs \in Nat \ {0}
    BY SensesAssumption
  <2>2. now \div TicksPerMs \in Nat
    BY <2>1, DivFacts
  <2> QED
    BY <1>1, <2>2 DEF SensesInv, ClockInv
<1>5. ClockInv'
  BY <1>1, <1>4, SensesAssumption DEF SensesInv, ClockInv, Elapsed
<1> QED
  BY <1>1, <1>2, <1>3, <1>5 DEF SensesInv

\* The loudness is found without the clock or the camera.
LEMMA SenseInv ==
  ASSUME SensesInv, Sense
  PROVE  SensesInv'
<1>1. UNCHANGED <<clockVars, cameraVars, ready>>
  BY DEF Sense, Listen, SkipBit, FindRoot, bootVars
<1>2. /\ sensing \in {"mic", "root"}
      /\ sensing' \in {"root", "idle"}
  BY DEF Sense, Listen, SkipBit, FindRoot, RootBit, RootFound
<1>3. RootInv'
  BY ListenRoot, SkipBitRoot, FindRootRoot DEF Sense, SensesInv
<1>4. ClockInv'
  BY <1>1, <1>2 DEF clockVars, SensesInv, ClockInv, Elapsed
<1>5. CameraInv'
  BY <1>1 DEF cameraVars, SensesInv, CameraInv
<1> QED
  BY <1>2, <1>3, <1>4, <1>5 DEF SensesInv

-----------------------------------------------------------------------------
\* The boot leaves the senses alone, and a part that is ready stays ready.
LEMMA BootStepSenses == BootStep => UNCHANGED sensesVars /\ ready \subseteq ready'
  BY DEF BootStep, Announce, Confirm, Initialise, Initialises, NothingKept,
         MemoryInit, DisplayInit, DriverInit, AudioInit, FsInit, FrameInit

\* A camera or a microphone that is ready has memory, which was found before; only
\* one that is ready is heard.
PartsInv ==
    /\ mind \in {"asleep", "awake", "halted"}
    /\ {"camera", "microphone"} \cap ready # {} => heap /\ stage > 3
    /\ mean_sq # 0 \/ rms # 0 \/ sensing = "root" => "microphone" \in ready

LEMMA BootStepParts == PartsInv /\ MachineInv /\ BootStep => PartsInv'
<1> SUFFICES ASSUME PartsInv, MachineInv, BootStep PROVE PartsInv'
  OBVIOUS
<1>1. mind' = mind /\ ready \subseteq ready' /\ UNCHANGED <<mean_sq, rms, sensing>>
  BY BootStepSenses DEF BootStep, Announce, Confirm, Initialise, Initialises,
     NothingKept, MemoryInit, DisplayInit, DriverInit, AudioInit, FsInit, FrameInit,
     sensesVars, micVars
<1>2. stage \in 1 .. 15
  BY DEF MachineInv
<1>3. CASE MemoryInit
  <2>1. Stages[stage] = "memory" /\ ready' = ready /\ stage' = stage
    BY <1>3 DEF MemoryInit, Initialises
  <2>2. stage = 3
    BY <1>2, <2>1 DEF Stages
  <2> QED
    BY <1>1, <2>1, <2>2 DEF PartsInv
<1>4. CASE \E part \in {"camera", "microphone"} : FrameInit(part)
  <2>1. PICK part \in {"camera", "microphone"} : FrameInit(part)
    BY <1>4
  <2>2. /\ Stages[stage] = part /\ stage' = stage /\ heap' = heap
        /\ ready' = IF heap THEN ready \cup {part} ELSE ready
    BY <2>1 DEF FrameInit, Initialises
  <2>3. stage > 3
    BY <1>2, <2>1, <2>2 DEF Stages
  <2> QED
    BY <1>1, <2>2, <2>3 DEF PartsInv
<1>5. ASSUME heap' = heap, stage' = stage \/ stage' = stage + 1,
             {"camera", "microphone"} \cap ready' = {"camera", "microphone"} \cap ready
      PROVE  PartsInv'
  BY <1>1, <1>2, <1>5 DEF PartsInv
<1>6. CASE Announce \/ Confirm \/ NothingKept \/ DisplayInit \/ AudioInit \/ FsInit
  <2>1. /\ heap' = heap /\ (stage' = stage \/ stage' = stage + 1)
        /\ \/ ready' = ready
           \/ ready' = ready \cup {"audio"}
           \/ ready' = ready \cup {"filesystem"}
    BY <1>6 DEF Announce, Confirm, NothingKept, DisplayInit, AudioInit, FsInit, Initialises
  <2>2. {"camera", "microphone"} \cap ready' = {"camera", "microphone"} \cap ready
    BY <2>1
  <2> QED
    BY <1>5, <2>1, <2>2
<1>7. ASSUME NEW driver \in {"USB", "NVMe", "network"}, DriverInit(driver)
      PROVE  PartsInv'
  <2>1. /\ heap' = heap /\ stage' = stage
        /\ ready' = ready \/ ready' = ready \cup {driver}
    BY <1>7 DEF DriverInit, Initialises
  <2>2. {"camera", "microphone"} \cap ready' = {"camera", "microphone"} \cap ready
    BY <2>1
  <2> QED
    BY <1>5, <2>1, <2>2
<1> QED
  BY <1>3, <1>4, <1>6, <1>7 DEF BootStep, Initialise

LEMMA MindStepParts == PartsInv /\ MindStep => PartsInv'
<1> SUFFICES ASSUME PartsInv, MindStep PROVE PartsInv'
  OBVIOUS
<1>1. heap' = heap /\ stage' = stage /\ ready' = ready
  BY MindStepFrame
<1>2. mind' \in {"asleep", "awake", "halted"}
  BY DEF PartsInv, MindStep, WakeUp, Sense, LookAround, Type, ActDisplay, bootVars
<1>3. (mean_sq # 0 \/ rms # 0 \/ sensing = "root" => "microphone" \in ready)'
  <2>1. CASE WakeUp
    BY <1>1, <2>1 DEF WakeUp, SensesInit, micVars, PartsInv
  <2>2. CASE Sense
    <3>1. CASE Listen("microphone" \in ready)
      BY <1>1, <3>1 DEF Listen, PartsInv
    <3>2. CASE SkipBit
      BY <1>1, <3>2 DEF SkipBit, PartsInv
    <3>3. CASE FindRoot
      BY <1>1, <3>3 DEF FindRoot, RootBit, RootFound, PartsInv
    <3> QED
      BY <2>2, <3>1, <3>2, <3>3 DEF Sense
  <2>3. CASE LookAround
    BY <1>1, <2>3 DEF LookAround, Capture, micVars, PartsInv
  <2>4. CASE Type \/ ActDisplay
    BY <1>1, <2>4 DEF Type, ActDisplay, sensesVars, micVars, PartsInv
  <2> QED
    BY <2>1, <2>2, <2>3, <2>4 DEF MindStep
<1> QED
  BY <1>1, <1>2, <1>3 DEF PartsInv

-----------------------------------------------------------------------------
\* The inductive invariant.
KernelInv ==
    /\ DisplayInv
    /\ MachineInv
    /\ SensesInv
    /\ PartsInv

LEMMA MindStepSenses == SensesInv /\ MindStep => SensesInv'
<1> SUFFICES ASSUME SensesInv, MindStep PROVE SensesInv'
  OBVIOUS
<1>1. CASE WakeUp
  BY <1>1, WakeUpInv DEF WakeUp
<1>2. CASE Sense
  BY <1>2, SenseInv
<1>3. CASE LookAround
  <2>1. PICK now \in tsc .. MaxTsc : Capture("camera" \in ready, now)
    BY <1>3 DEF LookAround
  <2>2. now \in 0 .. MaxTsc
    BY SensesAssumption DEF SensesInv, ClockInv
  <2>3. UNCHANGED ready
    BY <1>3 DEF LookAround, bootVars
  <2> QED
    BY <2>1, <2>2, <2>3, CaptureInv
<1>4. CASE Type \/ ActDisplay
  BY <1>4, SensesKept DEF Type, ActDisplay, bootVars
<1> QED
  BY <1>1, <1>2, <1>3, <1>4 DEF MindStep

LEMMA KernelInvInit == KernelStart => KernelInv
<1>1. KernelStart => PartsInv
  BY DEF KernelStart, SensesStart, PartsInv
<1> QED
  BY <1>1, KernelStartInv, SensesStartInv DEF KernelStart, KernelInv

LEMMA KernelInvNext == KernelInv /\ [KernelNext]_vars => KernelInv'
<1> SUFFICES ASSUME KernelInv, [KernelNext]_vars PROVE KernelInv'
  OBVIOUS
<1>1. CASE BootStep
  BY <1>1, BootStepDisplay, BootStepMachine, BootStepSenses, BootStepParts, SensesKept
     DEF KernelInv
<1>2. CASE MindStep
  BY <1>2, MindStepDisplay, MindStepMachine, MindStepSenses, MindStepParts DEF KernelInv
<1>3. CASE UNCHANGED vars
  <2>1. /\ UNCHANGED <<machine, stage, phase, tables, heap, ready, masters, faulting, mind>>
        /\ UNCHANGED sensesVars
        /\ UNCHANGED displayVars
    BY <1>3 DEF vars, bootVars
  <2>2. DisplayInv'
    BY <2>1 DEF KernelInv, displayVars, DisplayInv, Fits, Before, Beside, Below
  <2>3. MachineInv'
    BY <2>1 DEF KernelInv, displayVars, MachineInv, BeforeDisplay, FindClass
  <2>4. SensesInv'
    BY <2>1, SensesKept DEF KernelInv
  <2>5. PartsInv'
    BY <2>1 DEF KernelInv, PartsInv, sensesVars, micVars
  <2> QED
    BY <2>2, <2>3, <2>4, <2>5 DEF KernelInv
<1> QED
  BY <1>1, <1>2, <1>3, StepKinds

\* The invariant holds of every behaviour.
THEOREM KernelInvariant == KernelSpec => []KernelInv
<1>1. KernelStart => KernelInv
  BY KernelInvInit
<1>2. KernelInv /\ [KernelNext]_vars => KernelInv'
  BY KernelInvNext
<1> QED
  BY <1>1, <1>2, PTL DEF KernelSpec

\* Letters stay on the screen and apart, whatever is printed and however wide
\* the screen is (display.c:41-47).
THEOREM LettersStayApart == KernelSpec => []LettersApart
<1>1. KernelInv => LettersApart
  <2> SUFFICES ASSUME DisplayInv, fb_w >= 8 + GlyphSize, fb_h >= 8 + GlyphSize,
                      NEW i \in DOMAIN page
               PROVE  OnScreen(page[i])
    BY DEF KernelInv, LettersApart, DisplayInv
  <2>1. page[i][1] \in Nat /\ page[i][2] \in Nat /\ Fits(page[i][1], page[i][2])
    BY DEF DisplayInv
  <2> QED
    BY <2>1 DEF DisplayInv, Fits, OnScreen, GlyphSize
<1> QED
  BY <1>1, KernelInvariant, PTL

\* A driver that is ready has a device of its own, and no other device may use
\* the bus (pci.c:29-43).
THEOREM DevicesStayDriven == KernelSpec => []DevicesDriven
<1>1. KernelInv => DevicesDriven
  <2> SUFFICES ASSUME MachineInv PROVE DevicesDriven
    BY DEF KernelInv
  <2>1. machine \in Machines
    BY DEF MachineInv
  <2>2. \A f \in masters : f.driver \in Drivers /\ f \in FindClass(f.driver)
    BY DEF MachineInv
  <2>3. \A f \in masters : f.func = 0 /\ f.driver # "none"
    BY <2>2 DEF FindClass, Drivers
  <2>4. \A f, g \in masters : f.driver = g.driver => f = g
    BY <2>1, <2>2, FoundOnce
  <2>5. \A driver \in ready \cap Drivers : \E f \in masters : f.driver = driver
    BY DEF MachineInv
  <2> QED
    BY <2>3, <2>4, <2>5 DEF DevicesDriven
<1> QED
  BY <1>1, KernelInvariant, PTL

\* Whatever the camera and the microphone deliver, the brightness lies between two
\* of the pixels looked at, and the loudness is the whole part of the root of the
\* mean square (senses.c:64-67,93-105).
THEOREM ReadingsStayExact == KernelSpec => []ReadingsExact
<1>1. KernelInv => LoudnessExact
  BY DEF KernelInv, SensesInv, RootInv
<1>2. KernelInv => BrightnessWithin
  <2> SUFFICES ASSUME CameraInv, picture # <<>>
               PROVE  /\ \E i \in DOMAIN Seen(picture) : picture[i] <= mean_luma
                      /\ \E i \in DOMAIN Seen(picture) : mean_luma <= picture[i]
    BY DEF KernelInv, SensesInv, BrightnessWithin
  <2>1. picture \in CamFrames /\ mean_luma = MeanLuma(picture)
    BY DEF CameraInv
  <2> QED
    BY <2>1, MeanLumaIs
<1>3. KernelInv => ReadingsExact
  BY <1>1, <1>2 DEF ReadingsExact
<1> QED
  BY <1>3, KernelInvariant, PTL

\* The state keeps its types: a mean, a motion is a byte, a cursor no negative
\* number, a snapshot's clock within its word.
THEOREM KernelTypeCorrect == KernelSpec => []KernelTypeOK
<1>1. KernelInv => KernelTypeOK
  <2> SUFFICES ASSUME KernelInv PROVE KernelTypeOK
    OBVIOUS
  <2>1. machine \in Machines /\ masters \subseteq machine.bus
    BY FoundOnce DEF KernelInv, MachineInv
  <2>2. stage \in DOMAIN Stages
    BY StagesFacts DEF KernelInv, MachineInv
  <2>3. /\ phase \in {"announce", "init", "confirm"}
        /\ tables \in {"firmware", "kernel"}
        /\ ready \subseteq Drivers \cup {"filesystem", "camera", "microphone"}
        /\ fb_w \in {0, machine.width} /\ fb_h \in {0, machine.height}
    BY DEF KernelInv, MachineInv
  <2>4. heap \in BOOLEAN /\ faulting \in BOOLEAN /\ mind \in {"asleep", "awake", "halted"}
    BY DEF KernelInv, MachineInv, PartsInv
  <2>5. cursor_x \in Nat /\ cursor_y \in Nat /\ text \in Seq({Newline, Letter})
    BY DEF KernelInv, DisplayInv
  <2>6. /\ tsc \in 0 .. MaxTsc /\ ticks_per_ms \in {TicksGuess, TicksPerMs}
        /\ boot_tick \in Nat /\ uptime_ms \in 0 .. Word - 1
    BY DEF KernelInv, SensesInv, ClockInv
  <2>7. {prev_luma, mean_luma, motion_delta} \subseteq 0 .. 255
    BY DEF KernelInv, SensesInv, CameraInv
  <2>8. bit \in {0} \cup {s * s : s \in RootBits} /\ {x, r, rms, mean_sq} \subseteq Nat
    BY DEF KernelInv, SensesInv, RootInv, BitValues
  <2>9. sensing \in {"off", "idle", "mic", "root"}
    BY DEF KernelInv, SensesInv
  <2> QED
    BY <2>1, <2>2, <2>3, <2>4, <2>5, <2>6, <2>7, <2>8, <2>9 DEF KernelTypeOK
<1> QED
  BY <1>1, KernelInvariant, PTL

\* No snapshot looks at a frame without memory, whatever happened at the boot
\* (cam.c:23-27, mic.c:23-27).
THEOREM FramesKeepMemory == KernelSpec => []FramesHaveMemory
<1>1. KernelInv => FramesHaveMemory
  BY DEF KernelInv, PartsInv, SensesInv, CameraInv, FramesHaveMemory
<1> QED
  BY <1>1, KernelInvariant, PTL

\* Every snapshot follows the one before it (senses.c:41-43,70-73).
THEOREM SnapshotsKeepFollowing == KernelSpec => SnapshotsFollow
<1> DEFINE Follows ==
      sensing = "idle" /\ sensing' = "mic" =>
          /\ uptime_ms' \in uptime_ms .. tsc' \div TicksPerMs
          /\ picture' # <<>> =>
                motion_delta' = Apart(mean_luma', IF picture = <<>> THEN 128
                                                  ELSE mean_luma)
<1>1. KernelInv /\ [KernelNext]_vars => [Follows]_sensesVars
  <2> SUFFICES ASSUME KernelInv, [KernelNext]_vars,
                      sensing = "idle", sensing' = "mic"
               PROVE  Follows
    BY DEF sensesVars
  <2>1. LookAround
    <3>1. ~ UNCHANGED sensing
      OBVIOUS
    <3>2. ~ BootStep
      BY <3>1, BootStepSenses DEF sensesVars
    <3>3. MindStep
      BY <3>1, <3>2, StepKinds DEF vars, sensesVars
    <3>4. ~ Type /\ ~ ActDisplay
      BY <3>1 DEF Type, ActDisplay, sensesVars
    <3>5. ~ WakeUp
      BY DEF WakeUp, SensesInit
    <3>6. ~ Sense
      BY DEF Sense, Listen, SkipBit, FindRoot
    <3> QED
      BY <3>3, <3>4, <3>5, <3>6 DEF MindStep
  <2>2. PICK now \in tsc .. MaxTsc : Capture("camera" \in ready, now)
    BY <2>1 DEF LookAround
  <2>3. now \in 0 .. MaxTsc
    BY SensesAssumption DEF KernelInv, SensesInv, ClockInv
  <2>4. UNCHANGED ready
    BY <2>1 DEF LookAround, bootVars
  <2> QED
    BY <2>2, <2>3, <2>4, CaptureClock, CaptureCamera DEF KernelInv, SensesInv
<1> QED
  BY <1>1, KernelInvariant, PTL DEF KernelSpec, SnapshotsFollow
=============================================================================
