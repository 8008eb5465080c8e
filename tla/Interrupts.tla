----------------------------- MODULE Interrupts -----------------------------
(***************************************************************************)
(* The interrupt layer of kernel/arch/x86_64/idt.c: the table of handlers, *)
(* the masks of the two PICs and the dispatch of an interrupt.  Calls to   *)
(* register and unregister run with interrupts enabled, so an interrupt    *)
(* may come between any two of their stores; dispatch runs with them       *)
(* disabled (every gate of an IRQ is an interrupt gate).                   *)
(*                                                                         *)
(* A line is an IRQ number, its vector being IRQ_BASE more.  The second    *)
(* PIC hangs from line Cascade of the first.  No driver in the repository  *)
(* takes a line yet: the callers are those idt.h invites.                  *)
(***************************************************************************)
EXTENDS Integers, FiniteSets

CONSTANTS
    PerChip,        \* 8, the lines of a PIC
    Cascade,        \* 2, ICW3
    Gates,          \* the lines whose vector idt_init gives an entry
    DriverLines,    \* the lines drivers register handlers for
    Handlers,       \* a handler, standing for the context it comes with, too
    NULL,
    MaxRaises       \* bound: how often devices raise a line

Lines  == 0 .. 2 * PerChip - 1
Master == 0 .. PerChip - 1
Chip(irq) == IF irq < PerChip THEN Master ELSE Lines \ Master

ASSUME InterruptsAssumption ==
    /\ PerChip \in Nat \ {0}
    /\ Cascade \in Master
    /\ Gates \subseteq Lines
    /\ DriverLines \subseteq Lines
    /\ NULL \notin Handlers
    /\ MaxRaises \in Nat

VARIABLES
    user_handlers,
    user_handler_ctx,
    imr,        \* the masked lines, of both chips
    irr,        \* the lines a device has raised
    isr,        \* the lines in service
    driver,     \* the call of register or unregister under way
    dispatch,   \* the interrupt being dispatched
    raises,     \* bounds irr
    faulted,    \* an interrupt has found no gate
    called,     \* history: the last call of a handler
    clash       \* history: a handler has cut into a driver's call

vars == <<user_handlers, user_handler_ctx, imr, irr, isr, driver, dispatch,
          raises, faulted, called, clash>>

table == <<user_handlers, user_handler_ctx>>
pic   == <<imr, irr, isr, raises>>

NoDriver   == [pc |-> "idle", irq |-> 0, handler |-> NULL, mask |-> {}]
NoDispatch == [pc |-> "idle", irq |-> 0, spurious |-> FALSE]
NoCall     == [handler |-> NULL, ctx |-> NULL, spurious |-> FALSE]

\* Mutation: the lines are left as the firmware had them.
InitUnmasked ==
    /\ user_handlers = [irq \in Lines |-> NULL]
    /\ user_handler_ctx = [irq \in Lines |-> NULL]
    /\ imr = {}
    /\ irr = {} /\ isr = {}
    /\ driver = NoDriver /\ dispatch = NoDispatch
    /\ raises = 0 /\ faulted = FALSE
    /\ called = NoCall /\ clash = FALSE

\* idt_init: no handlers, every line masked, interrupts enabled.
Init ==
    /\ user_handlers = [irq \in Lines |-> NULL]
    /\ user_handler_ctx = [irq \in Lines |-> NULL]
    /\ imr = Lines
    /\ irr = {}
    /\ isr = {}
    /\ driver = NoDriver
    /\ dispatch = NoDispatch
    /\ raises = 0
    /\ faulted = FALSE
    /\ called = NoCall
    /\ clash = FALSE

-----------------------------------------------------------------------------
\* The interrupted code runs.
Running == dispatch = NoDispatch /\ ~faulted

\* idt_register_handler, its first store.  A driver takes a line nobody has.
Register(irq, h) ==
    /\ Running
    /\ driver = NoDriver
    /\ user_handlers[irq] = NULL
    /\ user_handlers' = [user_handlers EXCEPT ![irq] = h]
    /\ driver' = [pc |-> "ctx", irq |-> irq, handler |-> h, mask |-> {}]
    /\ UNCHANGED <<user_handler_ctx, pic, dispatch, faulted, called, clash>>

\* idt_unregister_handler, its first store.
Unregister(irq) ==
    /\ Running
    /\ driver = NoDriver
    /\ user_handlers[irq] # NULL
    /\ user_handlers' = [user_handlers EXCEPT ![irq] = NULL]
    /\ driver' = [pc |-> "ctx", irq |-> irq, handler |-> NULL, mask |-> {}]
    /\ UNCHANGED <<user_handler_ctx, pic, dispatch, faulted, called, clash>>

StoreCtx ==
    /\ Running
    /\ driver.pc = "ctx"
    /\ user_handler_ctx' = [user_handler_ctx EXCEPT ![driver.irq] = driver.handler]
    /\ driver' = [driver EXCEPT !.pc = "read"]
    /\ UNCHANGED <<user_handlers, pic, dispatch, faulted, called, clash>>

\* pic_mask and pic_unmask: the mask register is read, ...
ReadMask ==
    /\ Running
    /\ driver.pc = "read"
    /\ driver' = [driver EXCEPT !.pc = "write", !.mask = imr \cap Chip(driver.irq)]
    /\ UNCHANGED <<table, pic, dispatch, faulted, called, clash>>

\* Mutation: the bit of a line of the second chip is not counted from its first.
WriteMaskShifted ==
    /\ Running
    /\ driver.pc = "write"
    /\ LET line == IF driver.irq < PerChip THEN driver.irq ELSE driver.irq + PerChip
           mask == IF driver.handler = NULL THEN driver.mask \cup {line}
                   ELSE driver.mask \ {line}
       IN  imr' = (imr \ Chip(driver.irq)) \cup mask
    /\ driver' = NoDriver
    /\ UNCHANGED <<table, irr, isr, raises, dispatch, faulted, called, clash>>

\* Mutation: the mask is written as a whole, not one bit of it.
WriteMaskWhole ==
    /\ Running
    /\ driver.pc = "write"
    /\ imr' = (imr \ Chip(driver.irq)) \cup
                  (IF driver.handler = NULL THEN {driver.irq}
                   ELSE Chip(driver.irq) \ {driver.irq})
    /\ driver' = NoDriver
    /\ UNCHANGED <<table, irr, isr, raises, dispatch, faulted, called, clash>>

\* ... and written with one bit changed.
WriteMask ==
    /\ Running
    /\ driver.pc = "write"
    /\ LET mask == IF driver.handler = NULL
                   THEN driver.mask \cup {driver.irq}
                   ELSE driver.mask \ {driver.irq}
       IN  imr' = (imr \ Chip(driver.irq)) \cup mask
    /\ driver' = NoDriver
    /\ UNCHANGED <<table, irr, isr, raises, dispatch, faulted, called, clash>>

-----------------------------------------------------------------------------
\* A device raises its line.
Raise(irq) ==
    /\ raises < MaxRaises
    /\ ~faulted
    /\ irr' = irr \cup {irq}
    /\ raises' = raises + 1
    /\ UNCHANGED <<table, imr, isr, driver, dispatch, faulted, called, clash>>

\* A lower line of a chip goes first; the second chip comes at Cascade.
Rank(irq) ==
    IF irq < PerChip THEN irq * 2 * PerChip ELSE Cascade * 2 * PerChip + irq

\* The lines whose service a request of irq needs.
InService(irq) == {irq} \cup (IF irq < PerChip THEN {} ELSE {Cascade})

\* The masks let the line through.
Unmasked(irq) == InService(irq) \cap imr = {}

\* And nothing at least as urgent is in service on the chips it passes.
Ready ==
    {irq \in irr : /\ Unmasked(irq)
                   /\ \A own \in InService(irq), other \in isr :
                         other \in Chip(own) => own < other}

First(irq) == irq \in Ready /\ \A other \in Ready : Rank(irq) <= Rank(other)

\* The processor takes vector irq: a vector without an entry is a double fault,
\* for which idt_init names a stack nobody has set.
Enter(irq, spurious) ==
    IF irq \in Gates
    THEN /\ dispatch' = [pc |-> "call", irq |-> irq, spurious |-> spurious]
         /\ UNCHANGED faulted
    ELSE /\ faulted' = TRUE
         /\ UNCHANGED dispatch

Acknowledge(irq) ==
    /\ Running
    /\ First(irq)
    /\ irr' = irr \ {irq}
    /\ isr' = isr \cup InService(irq)
    /\ Enter(irq, FALSE)
    /\ UNCHANGED <<table, imr, raises, driver, called, clash>>

\* The request goes away while the processor takes it: the chip then answers
\* with its last line, and has nothing in service.
Withdraw(irq) ==
    /\ Running
    /\ First(irq)
    /\ irr' = irr \ {irq}
    /\ isr' = isr \cup (InService(irq) \ {irq})
    /\ Enter(IF irq < PerChip THEN PerChip - 1 ELSE 2 * PerChip - 1, TRUE)
    /\ UNCHANGED <<table, imr, raises, driver, called, clash>>

\* idt_dispatch: the handler, if there is one, ...
CallHandler ==
    /\ dispatch.pc = "call"
    /\ called' = IF user_handlers[dispatch.irq] = NULL THEN called
                 ELSE [handler  |-> user_handlers[dispatch.irq],
                       ctx      |-> user_handler_ctx[dispatch.irq],
                       spurious |-> dispatch.spurious]
    /\ dispatch' = [dispatch EXCEPT !.pc = "eoi"]
    /\ UNCHANGED <<table, pic, driver, faulted, clash>>

\* ... which may give its line back before it returns: the stores and the
\* update of the mask are then made in the middle of whatever it interrupted.
HandlerUnregisters ==
    /\ dispatch.pc = "eoi"
    /\ user_handlers[dispatch.irq] # NULL
    /\ user_handlers' = [user_handlers EXCEPT ![dispatch.irq] = NULL]
    /\ user_handler_ctx' = [user_handler_ctx EXCEPT ![dispatch.irq] = NULL]
    /\ imr' = imr \cup {dispatch.irq}
    /\ clash' = \/ clash
                \/ driver # NoDriver /\ driver.irq = dispatch.irq
                \/ driver.pc = "write" /\ driver.irq \in Chip(dispatch.irq)
    /\ UNCHANGED <<irr, isr, raises, driver, dispatch, faulted, called>>

\* A chip ends the most urgent of its lines in service, if there is one.
Eoi(chip, lines) == lines \ {irq \in lines \cap chip : \A o \in lines \cap chip : irq <= o}

\* Mutation: only the chip that raised the interrupt is told.
PicSendEoiOneChip ==
    /\ dispatch.pc = "eoi"
    /\ isr' = Eoi(Chip(dispatch.irq), isr)
    /\ dispatch' = NoDispatch
    /\ UNCHANGED <<table, imr, irr, raises, driver, faulted, called, clash>>

\* Mutation: an interrupt nobody handles is not ended.
PicSendEoiIfHandled ==
    /\ dispatch.pc = "eoi"
    /\ isr' = IF user_handlers[dispatch.irq] = NULL THEN isr
              ELSE IF dispatch.irq < PerChip THEN Eoi(Master, isr)
              ELSE Eoi(Master, Eoi(Lines \ Master, isr))
    /\ dispatch' = NoDispatch
    /\ UNCHANGED <<table, imr, irr, raises, driver, faulted, called, clash>>

\* pic_send_eoi, for a spurious interrupt like for any other; then the stub
\* returns to what was interrupted.
PicSendEoi ==
    /\ dispatch.pc = "eoi"
    /\ isr' = IF dispatch.irq < PerChip THEN Eoi(Master, isr)
              ELSE Eoi(Master, Eoi(Lines \ Master, isr))
    /\ dispatch' = NoDispatch
    /\ UNCHANGED <<table, imr, irr, raises, driver, faulted, called, clash>>

-----------------------------------------------------------------------------
Driver ==
    \/ \E irq \in DriverLines : (\E h \in Handlers : Register(irq, h)) \/ Unregister(irq)
    \/ StoreCtx \/ ReadMask \/ WriteMask

Hardware ==
    \E irq \in Lines : (irq # Cascade /\ Raise(irq)) \/ Acknowledge(irq) \/ Withdraw(irq)

Dispatch == CallHandler \/ HandlerUnregisters \/ PicSendEoi

Next == Driver \/ Hardware \/ Dispatch

\* The processor takes what the chips offer, handlers return, and a call once
\* begun goes on.
Fairness ==
    /\ WF_vars(\E irq \in Lines : Acknowledge(irq))
    /\ WF_vars(CallHandler) /\ WF_vars(PicSendEoi)
    /\ WF_vars(StoreCtx) /\ WF_vars(ReadMask) /\ WF_vars(WriteMask)

Spec == Init /\ [][Next]_vars

FairSpec == Spec /\ Fairness

-----------------------------------------------------------------------------
\* Type invariant.
InterruptsTypeOK ==
    /\ user_handlers \in [Lines -> Handlers \cup {NULL}]
    /\ user_handler_ctx \in [Lines -> Handlers \cup {NULL}]
    /\ imr \subseteq Lines /\ irr \subseteq Lines /\ isr \subseteq Lines
    /\ driver \in [pc : {"idle", "ctx", "read", "write"}, irq : Lines,
                   handler : Handlers \cup {NULL}, mask : SUBSET Lines]
    /\ dispatch \in [pc : {"idle", "call", "eoi"}, irq : Lines, spurious : BOOLEAN]
    /\ called \in [handler : Handlers \cup {NULL}, ctx : Handlers \cup {NULL},
                   spurious : BOOLEAN]
    /\ raises \in 0 .. MaxRaises
    /\ faulted \in BOOLEAN /\ clash \in BOOLEAN

\* A handler is called with the context it was registered with, although the
\* two are stored apart and interrupts are enabled: its line is masked until
\* both are there.  Nothing masks a spurious interrupt, and a handler that cut
\* into a driver's update may have left a line without a handler unmasked.
OwnContext ==
    clash \/ called.spurious \/ called.handler = called.ctx

\* Between calls exactly the lines with a handler are unmasked: the masks are
\* updated by reading and writing back, and no update is lost unless a handler
\* makes one in between.
MaskAgrees ==
    driver = NoDriver /\ ~clash =>
        \A irq \in Lines : irq \in imr <=> user_handlers[irq] = NULL

\* The chips have in service what is being dispatched and nothing else, also
\* after a spurious interrupt, for which only the first chip may have a line:
\* each interrupt is ended once, on every chip it came through.
InServiceMatches ==
    ~faulted =>
        isr = IF dispatch = NoDispatch THEN {}
              ELSE IF dispatch.spurious THEN InService(dispatch.irq) \ {dispatch.irq}
              ELSE InService(dispatch.irq)

\* A line that is raised and let through is taken, whatever came before it.
RaisedIsServed ==
    \A irq \in Lines :
        irq \in irr ~> irq \notin irr \/ ~Unmasked(irq) \/ faulted
=============================================================================
