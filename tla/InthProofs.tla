----------------------------- MODULE InthProofs -----------------------------
(***************************************************************************)
(* Proofs about the interrupt controller for any number of sources.        *)
(***************************************************************************)
EXTENDS Inth, WellFoundedInduction, TLAPS

(* A non-empty set of naturals has a least element. *)
LEMMA NatMin ==
  ASSUME NEW T \in SUBSET Nat, T # {}
  PROVE  \E x \in T : \A y \in T : x <= y
<1> DEFINE R == OpToRel(<, Nat)
<1>1. IsWellFoundedOn(R, Nat)
  BY NatLessThanWellFounded
<1>2. \A x, y \in Nat : y < x => <<y, x>> \in R
  BY DEF OpToRel
<1> HIDE DEF R
<1>3. PICK x \in T : \A y \in T : ~ (<<y, x>> \in R)
  BY <1>1, WFMin
<1>4. \A y \in T : ~ (y < x)
  BY <1>2, <1>3, Zenon
<1>5. \A y \in T : x <= y
  BY <1>4, T \subseteq Nat
<1>6. QED
  BY <1>5

LEMMA ModNat == ASSUME NEW a \in Nat, NEW b \in Nat \ {0} PROVE a % b \in 0 .. b - 1
OBVIOUS

(* The scan of calypso_inth_update() finds a winner whenever a source is   *)
(* active.                                                                 *)
LEMMA BestIsActive ==
  ASSUME NEW S \in SUBSET Sources, S # {}, NEW il \in [Sources -> SevenBits], NEW rr \in Sources
  PROVE  Best(S, il, rr) \in S
<1> DEFINE T == {Priority(il[i]) : i \in S}
<1>1. T \in SUBSET Nat /\ T # {}
  BY DEF Priority, SevenBits
<1>2. PICK p \in T : \A q \in T : p <= q
  BY <1>1, NatMin
<1> DEFINE U == {i \in S : Priority(il[i]) = p}
           V == {ScanRank(i, rr) : i \in U}
<1>3. \A i \in Sources : ScanRank(i, rr) \in Nat
  <2> TAKE i \in Sources
  <2>1. NumIrqs \in Nat \ {0}
    BY InthAssumption DEF InthAssumption
  <2>2. i \in 0 .. NumIrqs - 1 /\ rr \in 0 .. NumIrqs - 1
    BY DEF Sources
  <2>3. i - rr + NumIrqs \in Nat
    BY <2>1, <2>2
  <2> QED
    BY <2>1, <2>3, ModNat DEF ScanRank
<1>4. V \in SUBSET Nat /\ V # {}
  BY <1>2, <1>3
<1>5. PICK r \in V : \A t \in V : r <= t
  BY <1>4, NatMin
<1>6. PICK i \in U : ScanRank(i, rr) = r
  BY <1>5
<1>7. \A j \in S : Beats(i, j, il, rr)
  <2> TAKE j \in S
  <2>1. Priority(il[i]) = p /\ p <= Priority(il[j])
    BY <1>2, <1>6
  <2>2. Priority(il[i]) \in Nat /\ Priority(il[j]) \in Nat
    BY DEF Priority, SevenBits
  <2>3. CASE Priority(il[j]) = p
    <3>1. ScanRank(j, rr) \in V
      BY <2>3
    <3> QED
      BY <1>5, <1>6, <2>1, <2>3, <3>1 DEF Beats
  <2>4. CASE Priority(il[j]) # p
    BY <2>1, <2>2, <2>4 DEF Beats
  <2> QED
    BY <2>3, <2>4
<1>8. i \in S
  BY <1>6
<1> QED
  BY <1>7, <1>8 DEF Best

-----------------------------------------------------------------------------
(* The inductive invariant.  Each conjunct needs the others: the request    *)
(* follows the registers only because no ILR carries the FIQ bit, and that  *)
(* holds because an ILR never exceeds seven bits.                           *)
IInv == InthTypeOK /\ RequestFollowsRegisters /\ NothingGoesToFiq

LEMMA ZeroIsASource == 0 \in Sources
<1>1. NumIrqs \in Nat \ {0}
  BY InthAssumption DEF InthAssumption
<1> QED
  BY <1>1 DEF Sources

LEMMA FrameIrqIsASource == FrameIrq \in Sources
BY InthAssumption DEF InthAssumption

LEMMA IlrBitsAreSeven == \A value \in IlrValues : IlrBits(value) \in SevenBits
<1>1. IlrValues \subseteq Nat
  BY InthAssumption DEF InthAssumption
<1>2. \A value \in Nat : IlrBits(value) \in SevenBits
  BY DEF IlrBits, SevenBits
<1> QED
  BY <1>1, <1>2

LEMMA SevenBitsAreNotFiq == \A v \in SevenBits : ~ IsFiq(v)
BY DEF IsFiq, SevenBits

(* calypso_inth_update() establishes the invariant from any register        *)
(* contents, whatever the outputs were.                                     *)
LEMMA UpdateEstablishes ==
  ASSUME IInv, NEW lv \in SUBSET Sources, NEW mk \in SUBSET Sources,
         NEW il \in [Sources -> SevenBits], NEW rr \in Sources,
         Update(lv, mk, il, rr), last_num' \in Sources, frame_eoi' \in Nat,
         access' \in Accesses
  PROVE  IInv'
<1>1. ActiveFiqs(lv, mk, il) = {} /\ ActiveIrqs(lv, mk, il) = lv \ mk
  BY SevenBitsAreNotFiq DEF ActiveFiqs, ActiveIrqs
<1>2. lv \ mk # {} => Best(lv \ mk, il, rr) \in lv \ mk
  BY BestIsActive
<1>3. /\ levels' = lv /\ mask' = mk /\ ilr' = il /\ rr_start' = rr
      /\ irq_line' = (lv \ mk # {}) /\ fiq_line' = FALSE
      /\ ith_v' = IF lv \ mk # {} THEN Best(lv \ mk, il, rr) ELSE 0
      /\ fiq_v' = fiq_v
  BY <1>1 DEF Update
<1>5. ith_v' \in Sources
  BY <1>2, <1>3, ZeroIsASource
<1>6. InthTypeOK'
  BY <1>3, <1>5 DEF InthTypeOK, IInv
<1>7. RequestFollowsRegisters'
  BY <1>2, <1>3 DEF RequestFollowsRegisters
<1>8. NothingGoesToFiq'
  BY <1>3 DEF NothingGoesToFiq, IInv
<1> QED
  BY <1>6, <1>7, <1>8 DEF IInv

LEMMA InitEstablishes == InthInit => IInv
<1>1. [i \in Sources |-> 0] \in [Sources -> SevenBits]
  BY DEF SevenBits
<1>2. ASSUME InthInit PROVE InthTypeOK
  <2>1. irq_line \in BOOLEAN /\ fiq_line \in BOOLEAN
    BY <1>2 DEF InthInit
  <2>2. /\ ith_v \in Sources /\ fiq_v \in Sources /\ rr_start \in Sources /\ last_num \in Sources
        /\ levels \subseteq Sources /\ mask \subseteq Sources
    BY <1>2, ZeroIsASource DEF InthInit
  <2>3. ilr \in [Sources -> SevenBits] /\ frame_eoi \in Nat
    BY <1>1, <1>2 DEF InthInit
  <2>4. access \in Accesses
    BY <1>2 DEF InthInit, Accesses
  <2> QED
    BY <2>1, <2>2, <2>3, <2>4 DEF InthTypeOK
<1>3. InthInit => RequestFollowsRegisters
  BY DEF InthInit, RequestFollowsRegisters
<1>4. InthInit => NothingGoesToFiq
  BY DEF InthInit, NothingGoesToFiq
<1> QED
  BY <1>2, <1>3, <1>4 DEF IInv

LEMMA NextRoundInRange == InthTypeOK => NextRound \in Sources
<1> SUFFICES ASSUME InthTypeOK PROVE NextRound \in Sources
  OBVIOUS
<1>1. NumIrqs \in Nat \ {0}
  BY InthAssumption DEF InthAssumption
<1>2. ith_v + 1 \in Nat
  BY <1>1 DEF InthTypeOK, Sources
<1>3. (ith_v + 1) % NumIrqs \in Sources
  BY <1>1, <1>2, ModNat DEF Sources
<1> QED
  BY <1>3 DEF NextRound, InthTypeOK

LEMMA NextPreserves == IInv /\ [InthNext]_inthVars => IInv'
<1> SUFFICES ASSUME IInv, [InthNext]_inthVars PROVE IInv'
  OBVIOUS
<1>0. InthTypeOK
  BY DEF IInv
<1>1. ASSUME NEW i \in Sources, NEW level \in BOOLEAN, SetIrq(i, level) PROVE IInv'
  BY <1>0, <1>1, UpdateEstablishes DEF SetIrq, InthTypeOK, Accesses
<1>2. CASE ReadIrqNum
  BY <1>0, <1>2, UpdateEstablishes DEF ReadIrqNum, InthTypeOK, Accesses
<1>3. CASE ReadFiqNum
  BY <1>0, <1>3, UpdateEstablishes DEF ReadFiqNum, InthTypeOK, Accesses
<1>4. ASSUME NEW h \in RegisterHalves, NEW v \in SUBSET Half(h), WriteItReg(h, v) PROVE IInv'
  BY <1>0, <1>4, UpdateEstablishes DEF WriteItReg, InthTypeOK, Accesses
<1>5. ASSUME NEW h \in RegisterHalves, NEW v \in SUBSET Half(h), WriteMask(h, v) PROVE IInv'
  <2>1. (mask \ Half(h)) \cup v \in SUBSET Sources
    BY <1>0 DEF Half, InthTypeOK
  <2> QED
    BY <1>0, <1>5, <2>1, UpdateEstablishes DEF WriteMask, InthTypeOK, Accesses
<1>6. ASSUME NEW b \in BOOLEAN, WriteIrqCtrl(b) PROVE IInv'
  <2>1. frame_eoi' \in Nat
    BY <1>0, <1>6 DEF WriteIrqCtrl, InthTypeOK
  <2> QED
    BY <1>0, <1>6, <2>1, NextRoundInRange, UpdateEstablishes DEF WriteIrqCtrl, InthTypeOK, Accesses
<1>7. ASSUME NEW i \in Sources, NEW value \in IlrValues, WriteIlr(i, value) PROVE IInv'
  <2>2. IlrBits(value) \in SevenBits
    BY IlrBitsAreSeven
  <2>3. ilr[FrameIrq] \in SevenBits
    BY <1>0, FrameIrqIsASource DEF InthTypeOK
  <2>4. (IlrBits(value) \div 32) * 32 + Priority(ilr[FrameIrq]) \in SevenBits
    BY <2>2, <2>3 DEF Priority, SevenBits
  <2>5. ilr' \in [Sources -> SevenBits]
    BY <1>0, <1>7, <2>2, <2>4 DEF WriteIlr, InthTypeOK
  <2> QED
    BY <1>7, <2>5 DEF WriteIlr, outs, Accesses, IInv, InthTypeOK, RequestFollowsRegisters, NothingGoesToFiq
<1>8. CASE InthReset
  <2>1. [i \in Sources |-> 0] \in [Sources -> SevenBits]
    BY DEF SevenBits
  <2> QED
    BY <1>8, <2>1, ZeroIsASource
    DEF InthReset, Accesses, IInv, InthTypeOK, RequestFollowsRegisters, NothingGoesToFiq
<1>9. CASE UNCHANGED inthVars
  BY <1>9 DEF inthVars, regs, outs, IInv, InthTypeOK, RequestFollowsRegisters, NothingGoesToFiq
<1> QED
  BY <1>1, <1>2, <1>3, <1>4, <1>5, <1>6, <1>7, <1>8, <1>9 DEF InthNext

-----------------------------------------------------------------------------
THEOREM Invariance == InthSpec => []IInv
BY InitEstablishes, NextPreserves, PTL DEF InthSpec

(* Every register of the controller keeps its width and every vector it    *)
(* hands out names a source, for any number of sources and any ILR writes. *)
THEOREM TypeCorrectness == InthSpec => []InthTypeOK
<1>1. IInv => InthTypeOK
  BY DEF IInv
<1> QED
  BY <1>1, Invariance, PTL

(* No access path of calypso_inth.c leaves the CPU request or the vector   *)
(* out of step with the pending and mask registers.                        *)
THEOREM RequestIsFaithful == InthSpec => []RequestFollowsRegisters
<1>1. IInv => RequestFollowsRegisters
  BY DEF IInv
<1> QED
  BY <1>1, Invariance, PTL

(* The seven-bit cut of calypso_inth_write() keeps every source off FIQ.   *)
THEOREM FiqIsNeverUsed == InthSpec => []NothingGoesToFiq
<1>1. IInv => NothingGoesToFiq
  BY DEF IInv
<1> QED
  BY <1>1, Invariance, PTL

(* A latched TPU or API edge is removed by an IRQ_NUM read that hands out  *)
(* its number, by a FIQ_NUM read when it is source 0, by a software clear  *)
(* or by a reset, and by nothing else.                                     *)
THEOREM EdgeLatchHolds == InthSpec => LatchHolds
<1> DEFINE Removal(i) == \/ access' = "irq_num" /\ last_num' = i
                         \/ access' = "fiq_num" /\ i = 0
                         \/ access' \in {"clear", "reset"}
    Step == \A i \in SelfAck :
      (i \in levels /\ IsEdge(ilr[i]) /\ i \notin levels') => Removal(i)
<1>1. IInv /\ [InthNext]_inthVars => [Step]_inthVars
  <2> SUFFICES ASSUME IInv, InthNext, NEW i \in SelfAck,
                      i \in levels, IsEdge(ilr[i]), i \notin levels'
               PROVE  Removal(i)
    OBVIOUS
  <2>1. ASSUME NEW j \in Sources, NEW level \in BOOLEAN, SetIrq(j, level) PROVE FALSE
    BY <2>1 DEF SetIrq, Update, LineLatched
  <2>2. CASE ReadIrqNum
    BY <2>2 DEF ReadIrqNum, Update
  <2>3. CASE ReadFiqNum
    <3>1. fiq_v = 0
      BY DEF IInv, NothingGoesToFiq
    <3> QED
      BY <2>3, <3>1 DEF ReadFiqNum, Update
  <2>4. ASSUME NEW h \in RegisterHalves, NEW v \in SUBSET Half(h), WriteMask(h, v) PROVE FALSE
    BY <2>4 DEF WriteMask, Update
  <2>5. ASSUME NEW b \in BOOLEAN, WriteIrqCtrl(b) PROVE FALSE
    BY <2>5 DEF WriteIrqCtrl, Update
  <2>6. ASSUME NEW j \in Sources, NEW value \in IlrValues, WriteIlr(j, value) PROVE FALSE
    BY <2>6 DEF WriteIlr
  <2>7. ASSUME NEW h \in RegisterHalves, NEW v \in SUBSET Half(h), WriteItReg(h, v) PROVE Removal(i)
    BY <2>7 DEF WriteItReg
  <2>8. CASE InthReset
    BY <2>8 DEF InthReset
  <2> QED
    BY <2>1, <2>2, <2>3, <2>4, <2>5, <2>6, <2>7, <2>8 DEF InthNext
<1>2. InthSpec => [][Step]_inthVars
  BY <1>1, Invariance, PTL DEF InthSpec
<1> QED
  BY <1>2 DEF LatchHolds

-----------------------------------------------------------------------------
(* What the refinement needs besides IInv: with no request the vector is 0, *)
(* so an IRQ_NUM read that hands out the frame source finds it pending.     *)
IdleVectorIsZero == ~ irq_line => ith_v = 0

LEMMA UpdateIdleVector ==
  ASSUME NEW lv \in SUBSET Sources, NEW mk \in SUBSET Sources,
         NEW il \in [Sources -> SevenBits], NEW rr \in Sources, Update(lv, mk, il, rr)
  PROVE  IdleVectorIsZero'
<1>1. ActiveFiqs(lv, mk, il) = {}
  BY SevenBitsAreNotFiq DEF ActiveFiqs
<1> QED
  BY <1>1 DEF Update, IdleVectorIsZero

LEMMA IdleVectorInvariance == InthSpec => []IdleVectorIsZero
<1>1. InthInit => IdleVectorIsZero
  BY DEF InthInit, IdleVectorIsZero
<1>2. IInv /\ IdleVectorIsZero /\ [InthNext]_inthVars => IdleVectorIsZero'
  <2> SUFFICES ASSUME IInv, IdleVectorIsZero, [InthNext]_inthVars PROVE IdleVectorIsZero'
    OBVIOUS
  <2>0. InthTypeOK
    BY DEF IInv
  <2>1. ASSUME NEW i \in Sources, NEW level \in BOOLEAN, SetIrq(i, level)
        PROVE  IdleVectorIsZero'
    BY <2>0, <2>1, UpdateIdleVector DEF SetIrq, InthTypeOK
  <2>2. CASE ReadIrqNum
    BY <2>0, <2>2, UpdateIdleVector DEF ReadIrqNum, InthTypeOK
  <2>3. CASE ReadFiqNum
    BY <2>0, <2>3, UpdateIdleVector DEF ReadFiqNum, InthTypeOK
  <2>4. ASSUME NEW h \in RegisterHalves, NEW v \in SUBSET Half(h), WriteItReg(h, v)
        PROVE  IdleVectorIsZero'
    BY <2>0, <2>4, UpdateIdleVector DEF WriteItReg, InthTypeOK
  <2>5. ASSUME NEW h \in RegisterHalves, NEW v \in SUBSET Half(h), WriteMask(h, v)
        PROVE  IdleVectorIsZero'
    <3>1. (mask \ Half(h)) \cup v \in SUBSET Sources
      BY <2>0 DEF Half, InthTypeOK
    <3> QED
      BY <2>0, <2>5, <3>1, UpdateIdleVector DEF WriteMask, InthTypeOK
  <2>6. ASSUME NEW b \in BOOLEAN, WriteIrqCtrl(b) PROVE IdleVectorIsZero'
    BY <2>0, <2>6, NextRoundInRange, UpdateIdleVector DEF WriteIrqCtrl, InthTypeOK
  <2>7. ASSUME NEW i \in Sources, NEW value \in IlrValues, WriteIlr(i, value)
        PROVE  IdleVectorIsZero'
    BY <2>7 DEF WriteIlr, outs, IdleVectorIsZero
  <2>8. CASE InthReset
    BY <2>8 DEF InthReset, IdleVectorIsZero
  <2>9. CASE UNCHANGED inthVars
    BY <2>9 DEF inthVars, outs, IdleVectorIsZero
  <2> QED
    BY <2>1, <2>2, <2>3, <2>4, <2>5, <2>6, <2>7, <2>8, <2>9 DEF InthNext
<1> QED
  BY <1>1, <1>2, Invariance, PTL DEF InthSpec

(* Every step of the controller is, for the frame source, a step of the     *)
(* latch or leaves it alone.                                                *)
LEMMA StepsOfTheLatch ==
  IInv /\ IdleVectorIsZero /\ [InthNext]_inthVars => [FrameSource!IrqNext]_(FrameSource!irqVars)
<1> SUFFICES ASSUME IInv, IdleVectorIsZero, [InthNext]_inthVars
             PROVE  [FrameSource!IrqNext]_(FrameSource!irqVars)
  OBVIOUS
<1> USE DEF FrameSource!IrqNext, FrameSource!irqVars
<1>0. InthTypeOK /\ FrameIrq \in Sources /\ FrameIrq \in SelfAck /\ FrameIrq # 0
  BY InthAssumption, FrameIrqIsASource DEF IInv, InthAssumption
<1>1. ASSUME NEW i \in Sources, NEW level \in BOOLEAN, SetIrq(i, level)
      PROVE  [FrameSource!IrqNext]_(FrameSource!irqVars)
  <2>1. mask' = mask /\ ilr' = ilr /\ last_num' = last_num
    BY <1>1 DEF SetIrq, Update
  <2>2. CASE i # FrameIrq
    BY <1>1, <2>1, <2>2 DEF SetIrq, Update
  <2>3. CASE i = FrameIrq /\ level
    <3>1. FrameIrq \in levels'
      BY <1>1, <2>3 DEF SetIrq, Update
    <3> QED
      BY <2>1, <3>1 DEF FrameSource!Raise
  <2>4. CASE i = FrameIrq /\ ~ level
    <3>1. (FrameIrq \in levels') = (FrameIrq \in levels /\ IsEdge(ilr[FrameIrq]))
      BY <1>0, <1>1, <2>4 DEF SetIrq, Update, LineLatched
    <3> QED
      BY <2>1, <3>1 DEF FrameSource!Fall
  <2> QED
    BY <2>2, <2>3, <2>4
<1>2. CASE ReadIrqNum
  <2>1. mask' = mask /\ ilr' = ilr /\ last_num' = ith_v
    BY <1>2 DEF ReadIrqNum, Update
  <2>2. CASE ith_v = FrameIrq
    <3>1. FrameIrq \in levels /\ FrameIrq \notin mask
      BY <1>0, <2>2 DEF IdleVectorIsZero, IInv, RequestFollowsRegisters
    <3>2. FrameIrq \notin levels'
      BY <1>0, <1>2, <2>2 DEF ReadIrqNum, Update, AckedByRead
    <3> QED
      BY <2>1, <2>2, <3>1, <3>2 DEF FrameSource!TakeFrame
  <2>3. CASE ith_v # FrameIrq
    <3>1. (FrameIrq \in levels') = (FrameIrq \in levels)
      BY <1>2, <2>3 DEF ReadIrqNum, Update
    <3> QED
      BY <2>1, <2>3, <3>1 DEF FrameSource!TakeOther
  <2> QED
    BY <2>2, <2>3
<1>3. CASE ReadFiqNum
  <2>1. fiq_v # FrameIrq
    BY <1>0 DEF IInv, NothingGoesToFiq
  <2> QED
    BY <1>3, <2>1 DEF ReadFiqNum, Update
<1>4. ASSUME NEW h \in RegisterHalves, NEW v \in SUBSET Half(h), WriteItReg(h, v)
      PROVE  [FrameSource!IrqNext]_(FrameSource!irqVars)
  <2>1. mask' = mask /\ ilr' = ilr /\ last_num' = last_num /\ levels' \subseteq levels
    BY <1>4 DEF WriteItReg, Update
  <2>2. CASE FrameIrq \in levels'
    BY <2>1, <2>2
  <2>3. CASE FrameIrq \notin levels'
    BY <2>1, <2>3 DEF FrameSource!Clear
  <2> QED
    BY <2>2, <2>3
<1>5. ASSUME NEW h \in RegisterHalves, NEW v \in SUBSET Half(h), WriteMask(h, v)
      PROVE  [FrameSource!IrqNext]_(FrameSource!irqVars)
  <2>1. levels' = levels /\ ilr' = ilr /\ last_num' = last_num
    BY <1>5 DEF WriteMask, Update
  <2>2. FrameSource!SetMask(FrameIrq \in mask')
    BY <2>1 DEF FrameSource!SetMask
  <2>3. (FrameIrq \in mask') \in BOOLEAN
    OBVIOUS
  <2> QED
    BY <2>2, <2>3
<1>6. ASSUME NEW b \in BOOLEAN, WriteIrqCtrl(b)
      PROVE  [FrameSource!IrqNext]_(FrameSource!irqVars)
  BY <1>6 DEF WriteIrqCtrl, Update
<1>7. ASSUME NEW i \in Sources, NEW value \in IlrValues, WriteIlr(i, value)
      PROVE  [FrameSource!IrqNext]_(FrameSource!irqVars)
  <2>1. levels' = levels /\ mask' = mask /\ last_num' = last_num
    BY <1>7 DEF WriteIlr
  <2>2. FrameSource!SetEdge(IsEdge(ilr'[FrameIrq]))
    BY <2>1 DEF FrameSource!SetEdge
  <2>3. IsEdge(ilr'[FrameIrq]) \in BOOLEAN
    BY DEF IsEdge
  <2> QED
    BY <2>2, <2>3
<1>8. CASE InthReset
  <2>1. /\ FrameIrq \notin levels' /\ FrameIrq \notin mask'
        /\ last_num' # FrameIrq /\ ilr'[FrameIrq] = 0
    BY <1>0, <1>8 DEF InthReset
  <2>2. ~ IsEdge(0)
    BY DEF IsEdge
  <2> QED
    BY <2>1, <2>2 DEF FrameSource!IrqReset
<1>9. CASE UNCHANGED inthVars
  BY <1>9 DEF inthVars, regs
<1> QED
  BY <1>1, <1>2, <1>3, <1>4, <1>5, <1>6, <1>7, <1>8, <1>9 DEF InthNext

(* For the frame source the controller, with any number of other sources,   *)
(* implements the one-bit latch the TDMA bridge is built on.                *)
THEOREM FrameLatchIsImplemented == InthSpec => ImplementsFrameLatch
<1>1. InthInit => FrameSource!IrqInit
  <2> SUFFICES ASSUME InthInit PROVE FrameSource!IrqInit
    OBVIOUS
  <2>1. FrameIrq \in Sources /\ FrameIrq # 0
    BY InthAssumption, FrameIrqIsASource DEF InthAssumption
  <2>2. /\ FrameIrq \notin levels /\ FrameIrq \notin mask
        /\ last_num # FrameIrq /\ ilr[FrameIrq] = 0
    BY <2>1 DEF InthInit
  <2>3. ~ IsEdge(0)
    BY DEF IsEdge
  <2> QED
    BY <2>2, <2>3 DEF FrameSource!IrqInit
<1> QED
  BY <1>1, StepsOfTheLatch, Invariance, IdleVectorInvariance, PTL
  DEF InthSpec, ImplementsFrameLatch, FrameSource!IrqSpec
=============================================================================
