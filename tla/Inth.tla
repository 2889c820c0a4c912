-------------------------------- MODULE Inth --------------------------------
(***************************************************************************)
(* The Calypso interrupt controller, hw/intc/calypso_inth.c.               *)
(*                                                                         *)
(* A 32-bit register of one bit per source is the set of the sources whose *)
(* bit is set.  An ILR is kept as the number the register holds, because   *)
(* the code cuts it into overlapping fields.                               *)
(***************************************************************************)
EXTENDS Integers, FiniteSets

CONSTANTS
  NumIrqs,      \* CALYPSO_INTH_NUM_IRQS: 32 sources
  HalfSize,     \* sources per 16-bit half of IT_REG and of the mask: 16
  FrameIrq,     \* source 4, the TPU frame interrupt
  SelfAck,      \* sources 4, 5, 15: acknowledged by the IRQ_NUM read
  FrameAlike,   \* sources 7, 18 (the UARTs): low ILR bits copied from FrameIrq
  IlrValues,    \* 16-bit values the firmware writes into an ILR
  MaxEoi        \* bound on frame_eoi, a 64-bit counter in the code

Sources == 0 .. NumIrqs - 1

ASSUME InthAssumption ==
  /\ NumIrqs \in Nat \ {0} /\ HalfSize \in Nat \ {0} /\ MaxEoi \in Nat
  /\ FrameIrq \in SelfAck \ {0} /\ SelfAck \subseteq Sources
  /\ FrameAlike \subseteq Sources \ SelfAck
  /\ IlrValues \subseteq Nat

VARIABLES
  levels,       \* IT_REG: pending sources
  mask,         \* masked sources
  ilr,          \* ILR of every source
  ith_v,        \* the number the next IRQ_NUM read hands out
  fiq_v,        \* the number the next FIQ_NUM read hands out
  irq_line,     \* parent_irq is raised
  fiq_line,     \* parent_fiq is raised
  rr_start,     \* first source the next arbitration looks at
  last_num,     \* last number handed out by IRQ_NUM
  frame_eoi,    \* ends of service of the frame interrupt
  access        \* history only: the kind of the last operation

outs == <<ith_v, fiq_v, irq_line, fiq_line>>
regs == <<levels, mask, ilr, rr_start>>
inthVars == <<regs, outs, last_num, frame_eoi, access>>

IsEdge(v) == (v \div 2) % 2 = 1
Priority(v) == v % 32
IsFiq(v) == (v \div 256) % 2 = 1
Half(h) == {i \in Sources : i \div HalfSize = h}
RegisterHalves == {i \div HalfSize : i \in Sources}

(***************************************************************************)
(* The scan of calypso_inth_update(): the lowest 5-bit field wins, and     *)
(* among equals the first one met when scanning from rr_start.             *)
(***************************************************************************)
ScanRank(i, rr) == (i - rr + NumIrqs) % NumIrqs

Beats(i, j, il, rr) ==
  \/ Priority(il[i]) < Priority(il[j])
  \/ Priority(il[i]) = Priority(il[j]) /\ ScanRank(i, rr) <= ScanRank(j, rr)

Best(S, il, rr) == CHOOSE i \in S : \A j \in S : Beats(i, j, il, rr)

ActiveIrqs(lv, mk, il) == {i \in lv \ mk : ~ IsFiq(il[i])}
ActiveFiqs(lv, mk, il) == {i \in lv \ mk : IsFiq(il[i])}

Update(lv, mk, il, rr) ==
  LET irqs == ActiveIrqs(lv, mk, il)
      fiqs == ActiveFiqs(lv, mk, il)
  IN  /\ levels' = lv /\ mask' = mk /\ ilr' = il /\ rr_start' = rr
      /\ irq_line' = (irqs # {})
      /\ fiq_line' = (fiqs # {})
      /\ ith_v' = IF irqs # {} THEN Best(irqs, il, rr)
                  ELSE IF fiqs = {} THEN 0 ELSE ith_v
      /\ fiq_v' = IF fiqs # {} THEN Best(fiqs, il, rr) ELSE fiq_v

(***************************************************************************)
(* The operations.                                                         *)
(***************************************************************************)
InthInit ==
  /\ levels = {} /\ mask = {} /\ ilr = [i \in Sources |-> 0] /\ rr_start = 0
  /\ ith_v = 0 /\ fiq_v = 0 /\ irq_line = FALSE /\ fiq_line = FALSE
  /\ last_num = 0 /\ frame_eoi = 0 /\ access = "reset"

\* Faulty variant: the latch follows the line.
LineLatchedNever(i) == FALSE

\* A falling edge-configured TPU or API line leaves its latch set.
LineLatched(i) == i \in SelfAck /\ IsEdge(ilr[i])

SetIrq(i, level) ==
  /\ access' = "line"
  /\ Update(IF level THEN levels \cup {i}
            ELSE IF LineLatched(i) THEN levels ELSE levels \ {i},
            mask, ilr, rr_start)
  /\ UNCHANGED <<last_num, frame_eoi>>

\* Faulty variant: a level-configured TPU or API source is not acknowledged.
AckedByReadEdgeOnly(i) == IsEdge(ilr[i])

AckedByRead(i) == i \in SelfAck \/ IsEdge(ilr[i])

ReadIrqNum ==
  /\ access' = "irq_num"
  /\ last_num' = ith_v
  /\ Update(IF AckedByRead(ith_v) THEN levels \ {ith_v} ELSE levels,
            mask, ilr, rr_start)
  /\ UNCHANGED frame_eoi

ReadFiqNum ==
  /\ access' = "fiq_num"
  /\ Update(IF AckedByRead(fiq_v) THEN levels \ {fiq_v} ELSE levels,
            mask, ilr, rr_start)
  /\ UNCHANGED <<last_num, frame_eoi>>

\* Writing IT_REG clears the sources of that half whose bit is 0.
WriteItReg(h, v) ==
  /\ access' = "clear"
  /\ Update(levels \cap ((Sources \ Half(h)) \cup v), mask, ilr, rr_start)
  /\ UNCHANGED <<last_num, frame_eoi>>

\* Faulty variant: no new arbitration.
WriteMaskQuietly(h, v) ==
  /\ access' = "other"
  /\ mask' = (mask \ Half(h)) \cup v
  /\ UNCHANGED <<levels, ilr, rr_start, outs, last_num, frame_eoi>>

WriteMask(h, v) ==
  /\ access' = "other"
  /\ Update(levels, (mask \ Half(h)) \cup v, ilr, rr_start)
  /\ UNCHANGED <<last_num, frame_eoi>>

\* IRQ_CTRL: the round robin restarts after the source ith_v names NOW.
NextRound == IF ith_v > 0 \/ 0 \in levels THEN (ith_v + 1) % NumIrqs ELSE rr_start

WriteIrqCtrl(newIrqAgreement) ==
  /\ access' = "other"
  /\ frame_eoi' = IF newIrqAgreement /\ last_num = FrameIrq
                  THEN frame_eoi + 1 ELSE frame_eoi
  /\ Update(levels, mask, ilr, NextRound)
  /\ UNCHANGED last_num

IlrBits(value) == value % 128

\* No re-arbitration on an ILR write.
WriteIlr(i, value) ==
  LET v == IlrBits(value)
  IN  /\ access' = "other"
      /\ ilr' = [ilr EXCEPT ![i] =
                   IF i \in FrameAlike
                   THEN (v \div 32) * 32 + Priority(ilr[FrameIrq])
                   ELSE v]
      /\ UNCHANGED <<levels, mask, rr_start, outs, last_num, frame_eoi>>

\* Neither after the acknowledge of a C54x running inside QEMU.
ArmAck ==
  /\ access' = "other"
  /\ levels' = IF ith_v > 0 \/ 0 \in levels THEN levels \ {ith_v} ELSE levels
  /\ rr_start' = NextRound
  /\ UNCHANGED <<mask, ilr, outs, last_num, frame_eoi>>

\* A machine reset; the CPU, reset with it, drops both requests.
InthReset ==
  /\ levels' = {} /\ mask' = {} /\ ilr' = [i \in Sources |-> 0] /\ rr_start' = 0
  /\ ith_v' = 0 /\ fiq_v' = 0 /\ irq_line' = FALSE /\ fiq_line' = FALSE
  /\ last_num' = 0 /\ frame_eoi' = 0 /\ access' = "reset"

InthNext ==
  \/ \E i \in Sources, level \in BOOLEAN : SetIrq(i, level)
  \/ ReadIrqNum
  \/ ReadFiqNum
  \/ \E h \in RegisterHalves : \E v \in SUBSET Half(h) : WriteItReg(h, v) \/ WriteMask(h, v)
  \/ \E b \in BOOLEAN : (b => frame_eoi < MaxEoi) /\ WriteIrqCtrl(b)
  \/ \E i \in Sources, v \in IlrValues : WriteIlr(i, v)
  \/ InthReset

InthSpec == InthInit /\ [][InthNext]_inthVars

\* The platform with the in-process C54x, the only caller of ArmAck.
InthSpecDspAck == InthInit /\ [][InthNext \/ ArmAck]_inthVars

-----------------------------------------------------------------------------
Accesses == {"line", "irq_num", "fiq_num", "clear", "other", "reset"}

SevenBits == {v \in Nat : v < 128}

InthTypeOK ==
  /\ levels \subseteq Sources /\ mask \subseteq Sources
  /\ ilr \in [Sources -> SevenBits]
  /\ ith_v \in Sources /\ fiq_v \in Sources /\ rr_start \in Sources /\ last_num \in Sources
  /\ irq_line \in BOOLEAN /\ fiq_line \in BOOLEAN
  /\ frame_eoi \in Nat
  /\ access \in Accesses

(***************************************************************************)
(* The CPU request follows the registers through every access, although    *)
(* calypso_inth_update() is called by hand on each path: it is raised      *)
(* exactly when some source is pending and unmasked, and the number        *)
(* IRQ_NUM will hand out is then such a source.  No access therefore       *)
(* loses an interrupt or hands out one that is not there.                  *)
(***************************************************************************)
RequestFollowsRegisters ==
  /\ irq_line = (levels \ mask # {})
  /\ irq_line => ith_v \in levels \ mask

(***************************************************************************)
(* Whatever the firmware writes into an ILR (0xfffe for TIMER2 included),  *)
(* no source is routed to FIQ, which the firmware would never acknowledge  *)
(* (comment of calypso_inth_write).                                        *)
(***************************************************************************)
NothingGoesToFiq == ~ fiq_line /\ fiq_v = 0

(***************************************************************************)
(* An edge-configured TPU or API interrupt, once pending, survives the     *)
(* fall of its line: only handing out its number, a software clear of its  *)
(* bit or a reset removes it (comment of calypso_inth_set_irq: the 1 ms    *)
(* frame pulse must not be lost while the ARM is in a long handler).       *)
(***************************************************************************)
LatchHolds ==
  [][\A i \in SelfAck :
       (i \in levels /\ IsEdge(ilr[i]) /\ i \notin levels') =>
         \/ access' = "irq_num" /\ last_num' = i
         \/ access' = "fiq_num" /\ i = 0
         \/ access' \in {"clear", "reset"}]_inthVars

(***************************************************************************)
(* For the frame source the controller with all its sources, priorities    *)
(* and round robin is the latch the TDMA bridge relies on: IRQ_NUM hands   *)
(* out the frame source only while it is pending and unmasked, and the     *)
(* read that hands it out is what empties the latch.                       *)
(***************************************************************************)
FrameSource == INSTANCE FrameLatch WITH
  irq_pending <- FrameIrq \in levels,
  irq_masked  <- FrameIrq \in mask,
  irq_edge    <- IsEdge(ilr[FrameIrq]),
  irq_served  <- last_num = FrameIrq

ImplementsFrameLatch == FrameSource!IrqSpec
=============================================================================
