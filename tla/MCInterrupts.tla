---------------------------- MODULE MCInterrupts ----------------------------
(***************************************************************************)
(* Two chips of three lines for Interrupts.  As in idt_init, the last line *)
(* of the first chip and one of the second have no entry.                  *)
(***************************************************************************)
EXTENDS Interrupts

MCGates == {0, 1, 3, 5}
MCDriverLines == {0, 1, 3, 5}
=============================================================================
