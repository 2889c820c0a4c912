------------------------------ MODULE FrameLatch ----------------------------
(***************************************************************************)
(* What the interrupt controller promises the TDMA bridge about the TPU    *)
(* frame interrupt: one latch, one mask bit, one edge bit, and the memory  *)
(* of whether the last number handed out by IRQ_NUM was the frame source.  *)
(* The bridge sees it through calypso_inth_irq_masked(),                   *)
(* calypso_inth_irq_pending() and the ends of service it counts.  Module   *)
(* Inth implements this one.                                               *)
(***************************************************************************)

VARIABLES
  irq_pending,   \* the frame bit of IT_REG
  irq_masked,    \* the frame bit of the mask
  irq_edge,      \* the edge bit of the frame ILR
  irq_served     \* last_num names the frame source

irqVars == <<irq_pending, irq_masked, irq_edge, irq_served>>

IrqInit ==
  /\ irq_pending = FALSE /\ irq_masked = FALSE
  /\ irq_edge = FALSE /\ irq_served = FALSE

Raise ==
  /\ irq_pending' = TRUE
  /\ UNCHANGED <<irq_masked, irq_edge, irq_served>>

\* Faulty variant: the latch follows the line.
FallUnlatched ==
  /\ irq_pending' = FALSE
  /\ UNCHANGED <<irq_masked, irq_edge, irq_served>>

\* The end of the 1 ms pulse: a latched edge stays.
Fall ==
  /\ irq_pending' = (irq_pending /\ irq_edge)
  /\ UNCHANGED <<irq_masked, irq_edge, irq_served>>

\* An IRQ_NUM read that hands out the frame source, and one that does not.
TakeFrame ==
  /\ irq_pending /\ ~ irq_masked
  /\ irq_pending' = FALSE /\ irq_served' = TRUE
  /\ UNCHANGED <<irq_masked, irq_edge>>

TakeOther ==
  /\ irq_served' = FALSE
  /\ UNCHANGED <<irq_pending, irq_masked, irq_edge>>

\* IT_REG, mask and ILR writes.
Clear ==
  /\ irq_pending' = FALSE
  /\ UNCHANGED <<irq_masked, irq_edge, irq_served>>

SetMask(b) ==
  /\ irq_masked' = b
  /\ UNCHANGED <<irq_pending, irq_edge, irq_served>>

SetEdge(b) ==
  /\ irq_edge' = b
  /\ UNCHANGED <<irq_pending, irq_masked, irq_served>>

IrqReset ==
  /\ irq_pending' = FALSE /\ irq_masked' = FALSE
  /\ irq_edge' = FALSE /\ irq_served' = FALSE

IrqNext ==
  \/ Raise \/ Fall \/ TakeFrame \/ TakeOther \/ Clear \/ IrqReset
  \/ \E b \in BOOLEAN : SetMask(b) \/ SetEdge(b)

IrqSpec == IrqInit /\ [][IrqNext]_irqVars
=============================================================================
