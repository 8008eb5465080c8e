-------------------------- MODULE InterruptsProofs --------------------------
(***************************************************************************)
(* Proofs about Interrupts, for PICs of any number of lines, any drivers   *)
(* and any interleaving of interrupts with the stores of their calls.      *)
(***************************************************************************)
EXTENDS Interrupts, TLAPS

Busy == driver.pc # "idle"

\* What a driver in the middle of a call has left as it was.
HandlersAgree ==
    \A irq \in Lines : ~ (Busy /\ irq = driver.irq) =>
        (irq \in imr <=> user_handlers[irq] = NULL)

LineUntouched ==
    Busy => /\ user_handlers[driver.irq] = driver.handler
            /\ driver.irq \in imr <=> driver.handler # NULL

MaskCurrent == driver.pc = "write" => driver.mask = imr \cap Chip(driver.irq)

ContextsAgree ==
    \A irq \in Lines : ~ (driver.pc = "ctx" /\ irq = driver.irq) =>
        user_handler_ctx[irq] = user_handlers[irq]

RegistrationInv ==
    ~clash => HandlersAgree /\ LineUntouched /\ MaskCurrent /\ ContextsAgree

\* What is dispatched was let through by the masks, and still is.
DispatchInv ==
    /\ dispatch.pc = "idle" => dispatch = NoDispatch
    /\ dispatch.pc = "call" /\ ~dispatch.spurious => dispatch.irq \notin imr

\* The inductive invariant.
InterruptsInv ==
    /\ InterruptsTypeOK
    /\ driver.pc = "idle" => driver = NoDriver
    /\ RegistrationInv
    /\ DispatchInv
    /\ OwnContext
    /\ InServiceMatches

LEMMA LineFacts ==
    /\ PerChip \in Nat /\ Cascade \in Lines /\ 0 \in Lines
    /\ PerChip - 1 \in Lines /\ 2 * PerChip - 1 \in Lines
    /\ Master \subseteq Lines /\ Cascade \in Master
    /\ PerChip - 1 < PerChip /\ ~ (2 * PerChip - 1 < PerChip)
    /\ \A irq \in Lines : irq \in Master <=> irq < PerChip
BY InterruptsAssumption DEF Lines, Master

\* A line is on one of two chips.
LEMMA ChipFacts ==
    ASSUME NEW a \in Lines, NEW b \in Lines
    PROVE  /\ a \in Chip(a) /\ Chip(a) \subseteq Lines
           /\ a \in Chip(b) => b \in Chip(a)
BY LineFacts DEF Chip

LEMMA ServiceFacts ==
    ASSUME NEW irq \in Lines
    PROVE  InService(irq) \subseteq Lines /\ irq \in InService(irq)
BY LineFacts DEF InService

LEMMA InterruptsInitInv == Init => InterruptsInv
<1> SUFFICES ASSUME Init PROVE InterruptsInv
  OBVIOUS
<1>1. InterruptsTypeOK
  <2>1. driver \in [pc : {"idle", "ctx", "read", "write"}, irq : Lines,
                    handler : Handlers \cup {NULL}, mask : SUBSET Lines]
    BY LineFacts DEF Init, NoDriver
  <2>2. dispatch \in [pc : {"idle", "call", "eoi"}, irq : Lines, spurious : BOOLEAN]
    BY LineFacts DEF Init, NoDispatch
  <2>3. raises \in 0 .. MaxRaises
    BY InterruptsAssumption DEF Init
  <2> QED
    BY <2>1, <2>2, <2>3 DEF Init, InterruptsTypeOK, NoCall
<1>2. RegistrationInv
  BY DEF Init, RegistrationInv, HandlersAgree, LineUntouched, MaskCurrent,
         ContextsAgree, Busy, NoDriver
<1>3. DispatchInv
  BY DEF Init, DispatchInv, NoDispatch
<1>4. OwnContext /\ InServiceMatches
  BY DEF Init, OwnContext, NoCall, InServiceMatches
<1> QED
  BY <1>1, <1>2, <1>3, <1>4 DEF InterruptsInv, Init

-----------------------------------------------------------------------------
\* A driver's steps leave the chips and the dispatch alone.
LEMMA DriverFrame ==
    ASSUME InterruptsInv, Running,
           UNCHANGED <<isr, dispatch, faulted, called, clash>>
    PROVE  DispatchInv' /\ OwnContext' /\ InServiceMatches'
BY DEF InterruptsInv, Running, DispatchInv, NoDispatch, OwnContext, InServiceMatches

LEMMA RegisterInv ==
    ASSUME InterruptsInv, NEW irq \in DriverLines, NEW h \in Handlers \cup {NULL},
           Running, driver = NoDriver,
           user_handlers[irq] = NULL <=> h # NULL,
           user_handlers' = [user_handlers EXCEPT ![irq] = h],
           driver' = [pc |-> "ctx", irq |-> irq, handler |-> h, mask |-> {}],
           UNCHANGED <<user_handler_ctx, pic, dispatch, faulted, called, clash>>
    PROVE  InterruptsInv'
<1>1. irq \in Lines
  BY InterruptsAssumption
<1>2. InterruptsTypeOK'
  BY <1>1 DEF InterruptsInv, InterruptsTypeOK, pic
<1>3. RegistrationInv'
  <2> SUFFICES ASSUME ~clash'
               PROVE  (HandlersAgree /\ LineUntouched /\ MaskCurrent /\ ContextsAgree)'
    BY DEF RegistrationInv
  <2>1. ~clash /\ HandlersAgree /\ ContextsAgree /\ ~Busy
    BY DEF InterruptsInv, RegistrationInv, Busy, NoDriver
  <2>2. \A i \in Lines : user_handlers'[i] = IF i = irq THEN h ELSE user_handlers[i]
    BY <1>1 DEF InterruptsInv, InterruptsTypeOK
  <2>3. \A i \in Lines : /\ i \in imr <=> user_handlers[i] = NULL
                         /\ user_handler_ctx[i] = user_handlers[i]
    BY <2>1 DEF HandlersAgree, ContextsAgree, Busy
  <2> QED
    BY <1>1, <2>2, <2>3
       DEF HandlersAgree, LineUntouched, MaskCurrent, ContextsAgree, Busy, pic
<1>4. DispatchInv' /\ OwnContext' /\ InServiceMatches'
  BY DriverFrame DEF pic
<1> QED
  BY <1>2, <1>3, <1>4 DEF InterruptsInv

LEMMA StoreCtxInv == InterruptsInv /\ StoreCtx => InterruptsInv'
<1> SUFFICES ASSUME InterruptsInv, StoreCtx PROVE InterruptsInv'
  OBVIOUS
<1>1. /\ driver.pc = "ctx" /\ driver.irq \in Lines
      /\ driver'.pc = "read" /\ driver'.irq = driver.irq
      /\ driver'.handler = driver.handler
      /\ imr' = imr /\ user_handlers' = user_handlers /\ clash' = clash
  BY DEF InterruptsInv, InterruptsTypeOK, StoreCtx, pic
<1>2. InterruptsTypeOK'
  BY DEF InterruptsInv, InterruptsTypeOK, StoreCtx, pic
<1>3. RegistrationInv'
  <2> SUFFICES ASSUME ~clash'
               PROVE  (HandlersAgree /\ LineUntouched /\ MaskCurrent /\ ContextsAgree)'
    BY DEF RegistrationInv
  <2>1. ~clash /\ HandlersAgree /\ LineUntouched /\ ContextsAgree
    BY <1>1 DEF InterruptsInv, RegistrationInv
  <2>2. \A i \in Lines : user_handler_ctx'[i] =
           IF i = driver.irq THEN driver.handler ELSE user_handler_ctx[i]
    BY <1>1 DEF InterruptsInv, InterruptsTypeOK, StoreCtx
  <2>3. HandlersAgree' /\ LineUntouched' /\ MaskCurrent'
    BY <1>1, <2>1 DEF HandlersAgree, LineUntouched, MaskCurrent, Busy
  <2>4. ContextsAgree'
    BY <1>1, <2>1, <2>2 DEF ContextsAgree, LineUntouched, Busy
  <2> QED
    BY <2>3, <2>4
<1>4. DispatchInv' /\ OwnContext' /\ InServiceMatches'
  BY DriverFrame DEF StoreCtx, pic
<1> QED
  BY <1>1, <1>2, <1>3, <1>4 DEF InterruptsInv

LEMMA ReadMaskInv == InterruptsInv /\ ReadMask => InterruptsInv'
<1> SUFFICES ASSUME InterruptsInv, ReadMask PROVE InterruptsInv'
  OBVIOUS
<1>1. /\ driver.pc = "read" /\ driver.irq \in Lines
      /\ driver'.pc = "write" /\ driver'.irq = driver.irq
      /\ driver'.handler = driver.handler
      /\ driver'.mask = imr \cap Chip(driver.irq)
      /\ imr' = imr /\ user_handlers' = user_handlers /\ clash' = clash
      /\ user_handler_ctx' = user_handler_ctx
  BY DEF InterruptsInv, InterruptsTypeOK, ReadMask, pic, table
<1>2. InterruptsTypeOK'
  BY DEF InterruptsInv, InterruptsTypeOK, ReadMask, pic, table
<1>3. RegistrationInv'
  BY <1>1
     DEF InterruptsInv, RegistrationInv, HandlersAgree, LineUntouched,
         MaskCurrent, ContextsAgree, Busy
<1>4. DispatchInv' /\ OwnContext' /\ InServiceMatches'
  BY DriverFrame DEF ReadMask, pic
<1> QED
  BY <1>1, <1>2, <1>3, <1>4 DEF InterruptsInv

\* What is written is the mask as it is with the line's own bit changed.
LEMMA WriteMaskInv == InterruptsInv /\ WriteMask => InterruptsInv'
<1> SUFFICES ASSUME InterruptsInv, WriteMask PROVE InterruptsInv'
  OBVIOUS
<1> DEFINE mask == IF driver.handler = NULL THEN driver.mask \cup {driver.irq}
                   ELSE driver.mask \ {driver.irq}
<1>1. /\ driver.pc = "write" /\ driver.irq \in Lines /\ driver.mask \subseteq Lines
      /\ imr' = (imr \ Chip(driver.irq)) \cup mask
      /\ driver' = NoDriver /\ UNCHANGED table /\ clash' = clash
  BY DEF InterruptsInv, InterruptsTypeOK, WriteMask
<1>2. InterruptsTypeOK'
  <2>1. imr' \subseteq Lines
    BY <1>1 DEF InterruptsInv, InterruptsTypeOK
  <2>2. driver' \in [pc : {"idle", "ctx", "read", "write"}, irq : Lines,
                     handler : Handlers \cup {NULL}, mask : SUBSET Lines]
    BY <1>1, LineFacts DEF NoDriver
  <2> QED
    BY <2>1, <2>2 DEF InterruptsInv, InterruptsTypeOK, WriteMask, table
<1>3. RegistrationInv'
  <2> SUFFICES ASSUME ~clash'
               PROVE  (HandlersAgree /\ LineUntouched /\ MaskCurrent /\ ContextsAgree)'
    BY DEF RegistrationInv
  <2>1. /\ HandlersAgree /\ LineUntouched /\ ContextsAgree
        /\ driver.mask = imr \cap Chip(driver.irq)
    BY <1>1 DEF InterruptsInv, RegistrationInv, MaskCurrent
  <2>2. \A i \in Lines : i \in imr' <=>
           IF i = driver.irq THEN driver.handler = NULL ELSE i \in imr
    BY <1>1, <2>1, ChipFacts
  <2>3. ~Busy' /\ driver'.pc = "idle"
    BY <1>1 DEF Busy, NoDriver
  <2>4. HandlersAgree'
    BY <1>1, <2>1, <2>2 DEF HandlersAgree, LineUntouched, Busy, table
  <2>5. ContextsAgree'
    BY <1>1, <2>1 DEF ContextsAgree, table
  <2> QED
    BY <2>3, <2>4, <2>5 DEF LineUntouched, MaskCurrent
<1>4. DispatchInv' /\ OwnContext' /\ InServiceMatches'
  BY DriverFrame DEF WriteMask
<1> QED
  BY <1>1, <1>2, <1>3, <1>4 DEF InterruptsInv

-----------------------------------------------------------------------------
\* The registrations are not touched by the devices and the chips.
LEMMA RegistrationFrame ==
    ASSUME InterruptsInv, UNCHANGED <<table, imr, driver, clash>>
    PROVE  RegistrationInv'
BY DEF InterruptsInv, RegistrationInv, HandlersAgree, LineUntouched,
       MaskCurrent, ContextsAgree, Busy, table

LEMMA RaiseInv ==
    ASSUME InterruptsInv, NEW irq \in Lines, Raise(irq)
    PROVE  InterruptsInv'
<1>1. InterruptsTypeOK'
  <2>1. raises' \in 0 .. MaxRaises
    BY InterruptsAssumption DEF InterruptsInv, InterruptsTypeOK, Raise
  <2> QED
    BY <2>1 DEF InterruptsInv, InterruptsTypeOK, Raise, table
<1>2. RegistrationInv'
  BY RegistrationFrame DEF Raise
<1>3. DispatchInv' /\ OwnContext' /\ InServiceMatches'
  BY DEF InterruptsInv, Raise, DispatchInv, OwnContext, InServiceMatches
<1> QED
  BY <1>1, <1>2, <1>3 DEF InterruptsInv, Raise

\* The processor takes a vector, for which the chips have put in service what
\* they should.
LEMMA EnterInv ==
    ASSUME InterruptsInv, Running, NEW irq \in Lines, NEW spurious \in BOOLEAN,
           Enter(irq, spurious),
           ~spurious => irq \notin imr,
           irr' \subseteq Lines, isr' \subseteq Lines,
           isr' = IF spurious THEN InService(irq) \ {irq} ELSE InService(irq),
           UNCHANGED <<table, imr, raises, driver, called, clash>>
    PROVE  InterruptsInv'
<1>1. RegistrationInv'
  BY RegistrationFrame
<1>2. OwnContext'
  BY DEF InterruptsInv, OwnContext
<1>3. CASE irq \in Gates
  <2>1. /\ dispatch' = [pc |-> "call", irq |-> irq, spurious |-> spurious]
        /\ faulted' = faulted
    BY <1>3 DEF Enter
  <2>2. InterruptsTypeOK'
    BY <2>1 DEF InterruptsInv, InterruptsTypeOK, table
  <2>3. DispatchInv'
    BY <2>1 DEF DispatchInv
  <2>4. dispatch' # NoDispatch /\ dispatch'.irq = irq /\ dispatch'.spurious = spurious
    BY <2>1 DEF NoDispatch
  <2>5. InServiceMatches'
    BY <2>4 DEF InServiceMatches, InService
  <2> QED
    BY <1>1, <1>2, <2>2, <2>3, <2>5 DEF InterruptsInv
<1>4. CASE irq \notin Gates
  <2>1. faulted' = TRUE /\ dispatch' = dispatch
    BY <1>4 DEF Enter
  <2>2. InterruptsTypeOK'
    BY <2>1 DEF InterruptsInv, InterruptsTypeOK, table
  <2>3. DispatchInv' /\ InServiceMatches'
    BY <2>1 DEF InterruptsInv, DispatchInv, InServiceMatches
  <2> QED
    BY <1>1, <1>2, <2>2, <2>3 DEF InterruptsInv
<1> QED
  BY <1>3, <1>4

LEMMA AcknowledgeInv ==
    ASSUME InterruptsInv, NEW irq \in Lines, Acknowledge(irq)
    PROVE  InterruptsInv'
<1>1. /\ Running /\ First(irq) /\ Enter(irq, FALSE)
      /\ irr' = irr \ {irq} /\ isr' = isr \cup InService(irq)
      /\ UNCHANGED <<table, imr, raises, driver, called, clash>>
  BY DEF Acknowledge
<1>2. isr = {} /\ irr \subseteq Lines
  BY <1>1 DEF InterruptsInv, InServiceMatches, Running, InterruptsTypeOK
<1>3. irq \notin imr
  BY <1>1, ServiceFacts DEF First, Ready, Unmasked
<1>4. isr' = InService(irq) /\ isr' \subseteq Lines /\ irr' \subseteq Lines
  BY <1>1, <1>2, ServiceFacts
<1> QED
  BY <1>1, <1>3, <1>4, EnterInv

\* A chip that answers with its last line has only brought the cascade line
\* into service, if anything.
LEMMA WithdrawInv ==
    ASSUME InterruptsInv, NEW irq \in Lines, Withdraw(irq)
    PROVE  InterruptsInv'
<1> DEFINE vec == IF irq < PerChip THEN PerChip - 1 ELSE 2 * PerChip - 1
<1>1. /\ Running /\ Enter(vec, TRUE)
      /\ irr' = irr \ {irq} /\ isr' = isr \cup (InService(irq) \ {irq})
      /\ UNCHANGED <<table, imr, raises, driver, called, clash>>
  BY DEF Withdraw
<1>2. isr = {} /\ irr \subseteq Lines
  BY <1>1 DEF InterruptsInv, InServiceMatches, Running, InterruptsTypeOK
<1>3. vec \in Lines
  BY LineFacts
<1>4. InService(irq) \ {irq} = InService(vec) \ {vec}
  <2>1. CASE irq < PerChip
    BY <2>1, LineFacts DEF InService
  <2>2. CASE ~ (irq < PerChip)
    BY <2>2, LineFacts DEF InService
  <2> QED
    BY <2>1, <2>2
<1>5. isr' = InService(vec) \ {vec} /\ isr' \subseteq Lines /\ irr' \subseteq Lines
  BY <1>1, <1>2, <1>4, <1>3, ServiceFacts
<1> QED
  BY <1>1, <1>3, <1>5, EnterInv

-----------------------------------------------------------------------------
\* The handler that is found has its context beside it, because its line would
\* be masked while a driver is between the two stores.
LEMMA CallHandlerInv == InterruptsInv /\ CallHandler => InterruptsInv'
<1> SUFFICES ASSUME InterruptsInv, CallHandler PROVE InterruptsInv'
  OBVIOUS
<1> DEFINE d == dispatch.irq
<1>1. /\ d \in Lines /\ dispatch.spurious \in BOOLEAN /\ clash \in BOOLEAN
      /\ dispatch.pc = "call" /\ dispatch # NoDispatch
      /\ user_handlers[d] \in Handlers \cup {NULL}
      /\ user_handler_ctx[d] \in Handlers \cup {NULL}
      /\ called' = IF user_handlers[d] = NULL THEN called
                   ELSE [handler  |-> user_handlers[d],
                         ctx      |-> user_handler_ctx[d],
                         spurious |-> dispatch.spurious]
      /\ UNCHANGED <<table, pic, driver, faulted, clash>>
  BY DEF InterruptsInv, InterruptsTypeOK, CallHandler, NoDispatch
<1>2. /\ dispatch'.pc = "eoi" /\ dispatch'.irq = d
      /\ dispatch'.spurious = dispatch.spurious
      /\ dispatch' \in [pc : {"idle", "call", "eoi"}, irq : Lines, spurious : BOOLEAN]
  BY DEF InterruptsInv, InterruptsTypeOK, CallHandler
<1>3. called' \in [handler : Handlers \cup {NULL}, ctx : Handlers \cup {NULL},
                   spurious : BOOLEAN]
  BY <1>1 DEF InterruptsInv, InterruptsTypeOK
<1>4. InterruptsTypeOK'
  BY <1>1, <1>2, <1>3 DEF InterruptsInv, InterruptsTypeOK, table, pic
<1>5. RegistrationInv'
  BY <1>1, RegistrationFrame DEF pic
<1>6. OwnContext'
  <2>1. CASE user_handlers[d] = NULL
    BY <1>1, <2>1 DEF InterruptsInv, OwnContext
  <2>2. CASE user_handlers[d] # NULL /\ ~clash /\ ~dispatch.spurious
    <3>1. d \notin imr
      BY <1>1, <2>2 DEF InterruptsInv, DispatchInv
    <3>2. HandlersAgree /\ LineUntouched /\ ContextsAgree
      BY <2>2 DEF InterruptsInv, RegistrationInv
    <3>3. ~ (driver.pc = "ctx" /\ d = driver.irq)
      BY <2>2, <3>1, <3>2 DEF LineUntouched, Busy
    <3>4. user_handler_ctx[d] = user_handlers[d]
      BY <1>1, <3>2, <3>3 DEF ContextsAgree
    <3> QED
      BY <1>1, <2>2, <3>4 DEF OwnContext
  <2>3. CASE user_handlers[d] # NULL /\ (clash \/ dispatch.spurious)
    BY <1>1, <2>3 DEF OwnContext
  <2> QED
    BY <1>1, <2>1, <2>2, <2>3
<1>7. InServiceMatches'
  <2>1. dispatch' # NoDispatch
    BY <1>2 DEF NoDispatch
  <2> QED
    BY <1>1, <1>2, <2>1 DEF InterruptsInv, InServiceMatches, InService, pic
<1>8. DispatchInv'
  BY <1>2 DEF DispatchInv
<1> QED
  BY <1>1, <1>4, <1>5, <1>6, <1>7, <1>8 DEF InterruptsInv

LEMMA HandlerUnregistersInv == InterruptsInv /\ HandlerUnregisters => InterruptsInv'
<1> SUFFICES ASSUME InterruptsInv, HandlerUnregisters PROVE InterruptsInv'
  OBVIOUS
<1> DEFINE d == dispatch.irq
<1>1. /\ d \in Lines /\ dispatch.pc = "eoi" /\ user_handlers[d] # NULL
      /\ user_handlers' = [user_handlers EXCEPT ![d] = NULL]
      /\ user_handler_ctx' = [user_handler_ctx EXCEPT ![d] = NULL]
      /\ imr' = imr \cup {d}
      /\ UNCHANGED <<irr, isr, raises, driver, dispatch, faulted, called>>
  BY DEF InterruptsInv, InterruptsTypeOK, HandlerUnregisters
<1>2. InterruptsTypeOK'
  <2>1. clash' \in BOOLEAN
    BY DEF HandlerUnregisters
  <2> QED
    BY <1>1, <2>1 DEF InterruptsInv, InterruptsTypeOK
<1>3. RegistrationInv'
  <2> SUFFICES ASSUME ~clash'
               PROVE  (HandlersAgree /\ LineUntouched /\ MaskCurrent /\ ContextsAgree)'
    BY DEF RegistrationInv
  <2>1. /\ ~clash /\ (driver = NoDriver \/ driver.irq # d)
        /\ ~ (driver.pc = "write" /\ driver.irq \in Chip(d))
    BY DEF HandlerUnregisters
  <2>2. Busy => driver.irq # d
    BY <2>1 DEF Busy, NoDriver
  <2>3. HandlersAgree /\ LineUntouched /\ MaskCurrent /\ ContextsAgree
    BY <2>1 DEF InterruptsInv, RegistrationInv
  <2>4. /\ \A i \in Lines : user_handlers'[i] = IF i = d THEN NULL ELSE user_handlers[i]
        /\ \A i \in Lines : user_handler_ctx'[i] =
                               IF i = d THEN NULL ELSE user_handler_ctx[i]
        /\ driver.irq \in Lines
    BY <1>1 DEF InterruptsInv, InterruptsTypeOK
  <2>5. HandlersAgree' /\ LineUntouched' /\ ContextsAgree'
    BY <1>1, <2>2, <2>3, <2>4
       DEF HandlersAgree, LineUntouched, ContextsAgree, Busy
  <2>6. MaskCurrent'
    <3>1. driver.pc = "write" => d \notin Chip(driver.irq)
      BY <1>1, <2>1, <2>4, ChipFacts
    <3> QED
      BY <1>1, <2>3, <3>1 DEF MaskCurrent
  <2> QED
    BY <2>5, <2>6
<1>4. OwnContext'
  BY <1>1 DEF InterruptsInv, OwnContext, HandlerUnregisters
<1>5. DispatchInv' /\ InServiceMatches'
  BY <1>1 DEF InterruptsInv, DispatchInv, InServiceMatches
<1> QED
  BY <1>1, <1>2, <1>3, <1>4, <1>5 DEF InterruptsInv

\* Each chip has at most one line in service, and is told to end it.
LEMMA PicSendEoiInv == InterruptsInv /\ PicSendEoi => InterruptsInv'
<1> SUFFICES ASSUME InterruptsInv, PicSendEoi PROVE InterruptsInv'
  OBVIOUS
<1> DEFINE d == dispatch.irq
<1>1. /\ d \in Lines /\ dispatch.spurious \in BOOLEAN /\ isr \subseteq Lines
      /\ dispatch # NoDispatch /\ dispatch' = NoDispatch
      /\ isr' = IF d < PerChip THEN Eoi(Master, isr)
                ELSE Eoi(Master, Eoi(Lines \ Master, isr))
      /\ UNCHANGED <<table, imr, irr, raises, driver, faulted, called, clash>>
  BY DEF InterruptsInv, InterruptsTypeOK, PicSendEoi, NoDispatch
<1>2. isr' \subseteq Lines
  BY <1>1 DEF Eoi
<1>3. InterruptsTypeOK'
  <2>1. dispatch' \in [pc : {"idle", "call", "eoi"}, irq : Lines, spurious : BOOLEAN]
    BY <1>1, LineFacts DEF NoDispatch
  <2> QED
    BY <1>1, <1>2, <2>1 DEF InterruptsInv, InterruptsTypeOK, table
<1>4. RegistrationInv'
  BY <1>1, RegistrationFrame
<1>5. DispatchInv' /\ OwnContext'
  BY <1>1 DEF InterruptsInv, DispatchInv, OwnContext, NoDispatch
<1>6. InServiceMatches'
  <2> SUFFICES ASSUME ~faulted PROVE isr' = {}
    BY <1>1 DEF InServiceMatches
  <2>1. isr = IF dispatch.spurious THEN InService(d) \ {d} ELSE InService(d)
    BY <1>1 DEF InterruptsInv, InServiceMatches
  <2>2. Lines \subseteq Int
    BY InterruptsAssumption DEF Lines
  <2>3. CASE d < PerChip
    <3>1. isr = {} \/ isr = {d}
      BY <1>1, <2>1, <2>3 DEF InService
    <3>2. d \in Master
      BY <1>1, <2>3, LineFacts
    <3>3. isr' = Eoi(Master, isr)
      BY <1>1, <2>3
    <3>4. d \in Int
      BY <1>1, <2>2
    <3>5. CASE isr = {}
      BY <3>3, <3>5 DEF Eoi
    <3>6. CASE isr = {d}
      <4>1. isr \cap Master = {d}
        BY <3>2, <3>6
      <4>2. Eoi(Master, isr) = isr \ {d}
        BY <3>4, <4>1 DEF Eoi
      <4> QED
        BY <3>3, <3>6, <4>2
    <3> QED
      BY <3>1, <3>5, <3>6
  <2>4. CASE ~ (d < PerChip)
    <3>1. d \notin Master /\ Cascade \in Master /\ d # Cascade
      BY <1>1, <2>4, LineFacts
    <3>2. isr = {Cascade} \/ isr = {d, Cascade}
      BY <1>1, <2>1, <2>4, <3>1 DEF InService
    <3>3. isr \cap (Lines \ Master) \subseteq {d} /\ d \in Int /\ Cascade \in Int
      BY <1>1, <2>2, <3>1, <3>2, LineFacts
    <3>4. Eoi(Lines \ Master, isr) = {Cascade}
      <4>1. CASE isr = {Cascade}
        BY <3>1, <4>1 DEF Eoi
      <4>2. CASE isr = {d, Cascade}
        <5>1. isr \cap (Lines \ Master) = {d}
          BY <1>1, <3>1, <4>2
        <5>2. Eoi(Lines \ Master, isr) = isr \ {d}
          BY <3>3, <5>1 DEF Eoi
        <5> QED
          BY <3>1, <4>2, <5>2
      <4> QED
        BY <3>2, <4>1, <4>2
    <3>5. Eoi(Master, {Cascade}) = {}
      BY <3>1, <3>3 DEF Eoi
    <3>6. isr' = Eoi(Master, Eoi(Lines \ Master, isr))
      BY <1>1, <2>4
    <3> QED
      BY <3>4, <3>5, <3>6
  <2> QED
    BY <2>3, <2>4
<1> QED
  BY <1>1, <1>3, <1>4, <1>5, <1>6 DEF InterruptsInv

-----------------------------------------------------------------------------
LEMMA InterruptsStepInv == InterruptsInv /\ [Next]_vars => InterruptsInv'
<1> SUFFICES ASSUME InterruptsInv, [Next]_vars PROVE InterruptsInv'
  OBVIOUS
<1>1. ASSUME NEW irq \in DriverLines, NEW h \in Handlers, Register(irq, h)
      PROVE  InterruptsInv'
  BY <1>1, RegisterInv, InterruptsAssumption DEF Register
<1>2. ASSUME NEW irq \in DriverLines, Unregister(irq)
      PROVE  InterruptsInv'
  BY <1>2, RegisterInv DEF Unregister
<1>3. CASE StoreCtx \/ ReadMask \/ WriteMask
  BY <1>3, StoreCtxInv, ReadMaskInv, WriteMaskInv
<1>4. ASSUME NEW irq \in Lines, Raise(irq) \/ Acknowledge(irq) \/ Withdraw(irq)
      PROVE  InterruptsInv'
  BY <1>4, RaiseInv, AcknowledgeInv, WithdrawInv
<1>5. CASE CallHandler \/ HandlerUnregisters \/ PicSendEoi
  BY <1>5, CallHandlerInv, HandlerUnregistersInv, PicSendEoiInv
<1>6. CASE UNCHANGED vars
  <2>1. InterruptsTypeOK' /\ DispatchInv' /\ OwnContext' /\ InServiceMatches'
    BY <1>6 DEF vars, InterruptsInv, InterruptsTypeOK, DispatchInv, OwnContext,
                InServiceMatches
  <2>2. RegistrationInv'
    BY <1>6, RegistrationFrame DEF vars, table
  <2> QED
    BY <1>6, <2>1, <2>2 DEF vars, InterruptsInv
<1> QED
  BY <1>1, <1>2, <1>3, <1>4, <1>5, <1>6 DEF Next, Driver, Hardware, Dispatch

THEOREM InterruptsInvariant == Spec => []InterruptsInv
  BY InterruptsInitInv, InterruptsStepInv, PTL DEF Spec

\* The variables of the interrupt layer keep their types.
THEOREM InterruptsTypeCorrect == Spec => []InterruptsTypeOK
<1>1. InterruptsInv => InterruptsTypeOK
  BY DEF InterruptsInv
<1> QED
  BY <1>1, InterruptsInvariant, PTL

\* A handler gets its own context, wherever an interrupt falls between the
\* stores of a driver's call.
THEOREM HandlersGetOwnContext == Spec => []OwnContext
<1>1. InterruptsInv => OwnContext
  BY DEF InterruptsInv
<1> QED
  BY <1>1, InterruptsInvariant, PTL

\* Between calls the masks and the table of handlers agree.
THEOREM MasksAgree == Spec => []MaskAgrees
<1>1. InterruptsInv => MaskAgrees
  BY DEF InterruptsInv, RegistrationInv, HandlersAgree, MaskAgrees, Busy, NoDriver
<1> QED
  BY <1>1, InterruptsInvariant, PTL

\* No interrupt stays in service, and none is ended that is not.
THEOREM ServiceMatches == Spec => []InServiceMatches
<1>1. InterruptsInv => InServiceMatches
  BY DEF InterruptsInv
<1> QED
  BY <1>1, InterruptsInvariant, PTL
=============================================================================
