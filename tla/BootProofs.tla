----------------------------- MODULE BootProofs -----------------------------
(***************************************************************************)
(* Theorems about Boot, for any size of memory, any placement of the       *)
(* kernel in it and any number of changes the firmware makes to its map.   *)
(***************************************************************************)
EXTENDS Boot, FiniteSetTheorems, TLAPS

\* What boot_info says as long as its key is current.
MapCurrent ==
    mmap_addr \in Frames /\ mmap_key = key =>
        mmap = type /\ mmap[mmap_addr] = LoaderData

\* When there is a map, and where the buffer of get_mmap is.
MapPresent ==
    /\ pc = "load" => mmap_addr = Nowhere
    /\ pc = "exit" \/ Exited \/ attempt = 2 => mmap_addr \in Frames
    /\ pc = "read" => buffer \in Frames /\ type[buffer] = LoaderData
    /\ Exited => mmap_key = key
    /\ mmap_addr \in Frames /\ mmap_key = key /\ pc \in {"size", "alloc", "read", "exit", "jump"}
          => content[mmap_addr] = "map"

\* The second attempt: nobody but the bootloader changes the map.
SecondAttempt ==
    attempt = 2 =>
        /\ pc # "load"
        /\ pc = "alloc" => room = DescriptorCount(type) + Slack
        /\ pc = "read"  => DescriptorCount(type) <= room
        /\ pc = "exit"  => mmap_key = key \/ FreeFrames = {}
        /\ pc = "returned" => FreeFrames = {}

BootInv == BootTypeOK /\ MapCurrent /\ MapPresent /\ SecondAttempt

-----------------------------------------------------------------------------
LEMMA BoundariesFinite ==
    ASSUME NEW t
    PROVE  IsFiniteSet(Boundaries(t)) /\ Cardinality(Boundaries(t)) \in Nat
<1>1. IsFiniteSet(1 .. Top - 1) BY FS_Interval, BootAssumption
<1>2. Boundaries(t) \subseteq 1 .. Top - 1 BY DEF Boundaries
<1>. QED BY <1>1, <1>2, FS_Subset, FS_CardinalityType

LEMMA OneMore ==
    ASSUME NEW S, IsFiniteSet(S), NEW e
    PROVE  /\ IsFiniteSet(S \cup {e})
           /\ Cardinality(S \cup {e}) \in Nat
           /\ Cardinality(S \cup {e}) <= Cardinality(S) + 1
<1>1. Cardinality(S) \in Nat BY FS_CardinalityType
<1>2. CASE e \in S
  <2>1. S \cup {e} = S BY <1>2
  <2>2. Cardinality(S \cup {e}) = Cardinality(S) BY <2>1
  <2>3. IsFiniteSet(S \cup {e}) BY <2>1
  <2>. QED BY <1>1, <2>2, <2>3
<1>3. CASE e \notin S
  <2>1. IsFiniteSet(S \cup {e}) /\ Cardinality(S \cup {e}) = Cardinality(S) + 1
        BY <1>3, FS_AddElement
  <2>. QED BY <1>1, <2>1
<1>. QED BY <1>2, <1>3

\* A frame that changes its type makes at most two boundaries more.
LEMMA TwoMore ==
    ASSUME NEW t \in [Frames -> Types], NEW f \in Frames, NEW x \in Types
    PROVE  DescriptorCount([t EXCEPT ![f] = x]) <= DescriptorCount(t) + 2
<1> DEFINE u == [t EXCEPT ![f] = x]
           B == Boundaries(t)
<1>1. Boundaries(u) \subseteq (B \cup {f}) \cup {f + 1}
  <2>1. \A g \in 1 .. Top - 1 : g # f /\ g # f + 1 => u[g] = t[g] /\ u[g - 1] = t[g - 1]
        BY BootAssumption DEF Frames
  <2>. QED BY <2>1 DEF Boundaries
<1>2. IsFiniteSet(B) /\ Cardinality(B) \in Nat BY BoundariesFinite
<1>3. /\ IsFiniteSet(B \cup {f})
      /\ Cardinality(B \cup {f}) \in Nat
      /\ Cardinality(B \cup {f}) <= Cardinality(B) + 1
      BY <1>2, OneMore
<1>4. /\ IsFiniteSet((B \cup {f}) \cup {f + 1})
      /\ Cardinality((B \cup {f}) \cup {f + 1}) \in Nat
      /\ Cardinality((B \cup {f}) \cup {f + 1}) <= Cardinality(B \cup {f}) + 1
  <2> HIDE DEF B
  <2>. QED BY <1>3, OneMore
<1>5. Cardinality(Boundaries(u)) <= Cardinality((B \cup {f}) \cup {f + 1})
      BY <1>1, <1>4, FS_Subset
<1>6. Cardinality(Boundaries(u)) \in Nat BY BoundariesFinite
<1>. QED BY <1>2, <1>3, <1>4, <1>5, <1>6 DEF DescriptorCount

LEMMA InitEstablishes == BootInit => BootInv
BY BootAssumption
   DEF BootInit, BootInv, BootTypeOK, MapCurrent, MapPresent, SecondAttempt,
       Exited, Frames, Types, Nowhere, Unread, LoaderData, RuntimeData,
       BootServicesData, Conventional, KernelFile

LEMMA FirmwareEventKeeps == BootInv /\ FirmwareEvent => BootInv'
<1> SUFFICES ASSUME BootInv, FirmwareEvent PROVE BootInv' OBVIOUS
<1> USE DEF BootInv, FirmwareEvent, loaderVars, SetType, FreeFrames, Types, LoaderData,
            RuntimeData, BootServicesData, Conventional
<1>0. \E f \in Frames, x \in Types :
          /\ type' = [type EXCEPT ![f] = x]
          /\ key' = key + 1
          /\ content' = [content EXCEPT ![f] = "firmware"] \/ content' = content
      OBVIOUS
<1>1. BootTypeOK'
  <2>1. type' \in [Frames -> Types] /\ key' \in Nat BY <1>0 DEF BootTypeOK
  <2>2. content' \in [Frames -> {"firmware", "kernel", "map", "zero"}] BY <1>0 DEF BootTypeOK
  <2>3. events' \in 0 .. MaxEvents BY BootAssumption DEF BootTypeOK
  <2>4. mmap_key' \in 0 .. key' BY <1>0 DEF BootTypeOK
  <2>. QED BY <2>1, <2>2, <2>3, <2>4 DEF BootTypeOK
<1>2. /\ key' = key + 1 /\ mmap_key' = mmap_key /\ mmap_key <= key /\ key \in Nat
      /\ \A f \in Frames : type[f] = LoaderData => type'[f] = LoaderData
      /\ attempt' = 1 /\ ~ Exited' /\ pc' = pc /\ ~ Exited
      BY DEF BootTypeOK, Exited
<1>3. MapCurrent' /\ MapPresent' BY <1>2 DEF MapCurrent, MapPresent
<1>4. SecondAttempt' BY <1>2 DEF SecondAttempt, Exited
<1>. QED BY <1>1, <1>3, <1>4

LEMMA LoadKernelKeeps == BootInv /\ LoadKernel => BootInv'
<1> SUFFICES ASSUME BootInv, LoadKernel PROVE BootInv' OBVIOUS
<1> USE DEF BootInv, LoadKernel, loaderVars
<1>1. BootTypeOK' BY DEF BootTypeOK
<1>2. attempt = 1 BY DEF SecondAttempt, BootTypeOK
<1>3. MapCurrent' /\ MapPresent' BY <1>2, BootAssumption DEF MapCurrent, MapPresent, Exited, Nowhere, Frames
<1>4. SecondAttempt' BY <1>2 DEF SecondAttempt
<1>. QED BY <1>1, <1>3, <1>4

LEMMA MmapSizeKeeps == BootInv /\ MmapSize => BootInv'
<1> SUFFICES ASSUME BootInv, MmapSize PROVE BootInv' OBVIOUS
<1> USE DEF BootInv, MmapSize
<1>1. DescriptorCount(type) + Slack \in Nat
      BY BoundariesFinite, BootAssumption DEF DescriptorCount
<1>2. BootTypeOK' BY <1>1 DEF BootTypeOK
<1>3. MapCurrent' /\ MapPresent' BY DEF MapCurrent, MapPresent, Exited
<1>4. SecondAttempt' BY DEF SecondAttempt, DescriptorCount, Boundaries
<1>. QED BY <1>2, <1>3, <1>4

LEMMA MmapAllocKeeps == BootInv /\ MmapAlloc => BootInv'
<1> SUFFICES ASSUME BootInv, MmapAlloc PROVE BootInv' OBVIOUS
<1> USE DEF BootInv
<1>0. pc = "alloc" /\ UNCHANGED <<content, events, flat, stack, attempt, room, mmap_addr, mmap,
                                 mmap_key, rdi>>
      BY DEF MmapAlloc
<1>1. CASE \E f \in Frames : type[f] = LoaderData /\ buffer' = f /\ pc' = "read"
                             /\ UNCHANGED <<type, key>>
  <2>1. BootTypeOK' BY <1>0, <1>1 DEF BootTypeOK
  <2>2. MapCurrent' /\ MapPresent' BY <1>0, <1>1 DEF MapCurrent, MapPresent, Exited
  <2>3. DescriptorCount(type) \in Nat BY BoundariesFinite DEF DescriptorCount
  <2>4. SecondAttempt'
        BY <1>0, <1>1, <2>3, BootAssumption DEF SecondAttempt, DescriptorCount, Boundaries
  <2>. QED BY <2>1, <2>2, <2>4
<1>2. CASE \E f \in FreeFrames : SetType(f, LoaderData) /\ buffer' = f /\ pc' = "read"
  <2>1. PICK f \in Frames : /\ type[f] = Conventional
                            /\ type' = [type EXCEPT ![f] = LoaderData]
                            /\ key' = key + 1 /\ buffer' = f /\ pc' = "read"
        BY <1>2 DEF FreeFrames, SetType
  <2>2. BootTypeOK' BY <1>0, <2>1 DEF BootTypeOK, Types, LoaderData
  <2>3. mmap_key' # key' BY <1>0, <2>1 DEF BootTypeOK
  <2>4. MapCurrent' /\ MapPresent'
        BY <1>0, <2>1, <2>3 DEF MapCurrent, MapPresent, Exited, BootTypeOK
  <2>5. DescriptorCount(type') <= DescriptorCount(type) + 2
        BY <2>1, TwoMore DEF BootTypeOK, Types, LoaderData
  <2>6. SecondAttempt'
        BY <1>0, <2>1, <2>5, BootAssumption DEF SecondAttempt, DescriptorCount, Boundaries
  <2>. QED BY <2>2, <2>4, <2>6
<1>3. CASE FreeFrames = {} /\ MapFails /\ UNCHANGED <<type, key, buffer>>
  <2>1. BootTypeOK' BY <1>0, <1>3 DEF BootTypeOK, MapFails
  <2>2. MapCurrent' /\ MapPresent'
        BY <1>0, <1>3 DEF MapCurrent, MapPresent, Exited, MapFails, BootTypeOK
  <2>3. SecondAttempt'
        BY <1>0, <1>3 DEF SecondAttempt, MapFails, FreeFrames
  <2>. QED BY <2>1, <2>2, <2>3
<1>. QED BY <1>1, <1>2, <1>3 DEF MmapAlloc

LEMMA MmapReadKeeps == BootInv /\ MmapRead => BootInv'
<1> SUFFICES ASSUME BootInv, MmapRead PROVE BootInv' OBVIOUS
<1> USE DEF BootInv
<1>0. /\ pc = "read" /\ UNCHANGED <<events, flat, stack, attempt, room, buffer, rdi>>
      /\ buffer \in Frames /\ type[buffer] = LoaderData
      BY DEF MmapRead, MapPresent
<1>1. CASE /\ content' = [content EXCEPT ![buffer] = "map"]
           /\ mmap_addr' = buffer /\ mmap' = type /\ mmap_key' = key
           /\ pc' = "exit" /\ UNCHANGED <<type, key>>
  <2>1. BootTypeOK' BY <1>0, <1>1 DEF BootTypeOK
  <2>2. MapCurrent' /\ MapPresent'
        BY <1>0, <1>1 DEF MapCurrent, MapPresent, Exited, BootTypeOK
  <2>3. SecondAttempt' BY <1>0, <1>1 DEF SecondAttempt
  <2>. QED BY <2>1, <2>2, <2>3
<1>2. CASE /\ DescriptorCount(type) > room /\ MapFails /\ FreePool
           /\ UNCHANGED <<content, mmap_addr, mmap, mmap_key>>
  <2>0. DescriptorCount(type) \in Nat /\ room \in Nat
        BY BoundariesFinite DEF DescriptorCount, BootTypeOK
  <2>1. attempt = 1 /\ pc' = "returned"
        BY <1>0, <1>2, <2>0 DEF SecondAttempt, MapFails, BootTypeOK
  <2>2. \/ type' = type /\ key' = key
        \/ type' = [type EXCEPT ![buffer] = Conventional] /\ key' = key + 1
        BY <1>2 DEF FreePool, SetType
  <2>3. BootTypeOK' BY <1>0, <1>2, <2>1, <2>2 DEF BootTypeOK, Types, Conventional
  <2>4. MapCurrent' BY <1>0, <1>2, <2>2 DEF MapCurrent, BootTypeOK
  <2>5. MapPresent' /\ SecondAttempt'
        BY <1>0, <1>2, <2>1 DEF MapPresent, SecondAttempt, Exited
  <2>. QED BY <2>3, <2>4, <2>5
<1>. QED BY <1>1, <1>2 DEF MmapRead

LEMMA ExitBootServicesKeeps == BootInv /\ ExitBootServices => BootInv'
<1> SUFFICES ASSUME BootInv, ExitBootServices PROVE BootInv' OBVIOUS
<1> USE DEF BootInv, ExitBootServices
<1>1. BootTypeOK' BY DEF BootTypeOK
<1>2. MapCurrent' /\ MapPresent' BY DEF MapCurrent, MapPresent, Exited, BootTypeOK
<1>3. SecondAttempt' BY DEF SecondAttempt, FreeFrames
<1>. QED BY <1>1, <1>2, <1>3

LEMMA KernelKeeps ==
    BootInv /\ (Jump \/ EntryGdt \/ EntryBss \/ KernelMain) => BootInv'
<1> SUFFICES ASSUME BootInv, Jump \/ EntryGdt \/ EntryBss \/ KernelMain PROVE BootInv' OBVIOUS
<1> USE DEF BootInv, Jump, EntryGdt, EntryBss, KernelMain, loaderVars
<1>1. BootTypeOK' BY BootAssumption DEF BootTypeOK, Frames
<1>2. UNCHANGED <<type, key, attempt, room, buffer, mmap_addr, mmap, mmap_key, stack>> OBVIOUS
<1>3. Exited /\ Exited' /\ pc' # "jump" BY DEF Exited
<1>4. MapCurrent' /\ MapPresent' BY <1>2, <1>3 DEF MapCurrent, MapPresent, Exited
<1>5. SecondAttempt' BY <1>2, <1>3 DEF SecondAttempt, Exited
<1>. QED BY <1>1, <1>4, <1>5

LEMMA StutterKeeps == BootInv /\ UNCHANGED vars => BootInv'
BY DEF BootInv, vars, loaderVars, BootTypeOK, MapCurrent, MapPresent, SecondAttempt,
       Exited, FreeFrames, DescriptorCount, Boundaries

\* The invariant the theorems below rest on.
THEOREM BootInvariant == BootSpec => []BootInv
<1>1. BootInv /\ [BootNext]_vars => BootInv'
      BY FirmwareEventKeeps, LoadKernelKeeps, MmapSizeKeeps, MmapAllocKeeps, MmapReadKeeps,
         ExitBootServicesKeeps, KernelKeeps, StutterKeeps DEF BootNext
<1>. QED BY InitEstablishes, <1>1, PTL DEF BootSpec

\* Types, for every boot (efi_main, kernel_entry).
THEOREM BootTypeCorrect == BootSpec => []BootTypeOK
BY BootInvariant, PTL DEF BootInv

\* The map the kernel is given is the firmware's map as boot services ended,
\* and its buffer is listed in it as the loader's (get_mmap, the retry).
THEOREM MapIsCurrent == BootSpec => []MapIsFirmwares
<1>1. BootInv => MapIsFirmwares
      BY DEF BootInv, MapCurrent, MapPresent, MapIsFirmwares, Exited
<1>. QED BY BootInvariant, <1>1, PTL

\* The retry fails for want of memory only (bootloader.c:156-160).
THEOREM RetryFailsWithoutMemoryOnly == BootSpec => []RetryEnough
<1>1. BootInv => RetryEnough BY DEF BootInv, SecondAttempt, RetryEnough
<1>. QED BY BootInvariant, <1>1, PTL
=============================================================================
