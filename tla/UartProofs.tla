----------------------------- MODULE UartProofs -----------------------------
(***************************************************************************)
(* Proofs about Uart for every ring size, every set of byte values and any  *)
(* number of host restarts.  The inductive invariant adds to the stated     *)
(* ones that a loader in a data state still expects a byte, that a host     *)
(* that has finished its download sends nothing, and that an armed modem    *)
(* port remembers its wake-up, not only that the line is up.                *)
(*                                                                         *)
(* The second part is about the ROM loader and the host that downloads to   *)
(* it, started over any number of times.                                    *)
(*                                                                         *)
(* The third part shows that the receive ring implements the queue of       *)
(* ByteQueue.  What it needs beyond that invariant is that the head follows *)
(* the tail at a distance of rx_count, modulo the size.                     *)
(***************************************************************************)
EXTENDS Uart, SequenceTheorems, TLAPS

Opcodes == {"3c", "69", "77", "63", "62"}
DataStates == {"BLOCK_DATA", "CHK_DATA", "BR_DATA"}

WakeIsNoted == (label = "modem" /\ scr_wake /\ activity) => wakeup_pending

Registers ==
  /\ label \in {"modem", "irda"}
  /\ dr \in BOOLEAN /\ oe \in BOOLEAN /\ ier \subseteq Enables
  /\ lcr \in {"normal", "dlab", "bf"}
  /\ thr_empty_pending \in BOOLEAN /\ tx_empty_reads \in 0 .. 1
  /\ scr_wake \in BOOLEAN /\ wakeup_pending \in BOOLEAN /\ activity \in BOOLEAN

RingOK ==
  /\ rx_fifo \in [Slots -> Byte \cup Opcodes]
  /\ rx_head \in Slots /\ rx_tail \in Slots /\ rx_count \in 0 .. Size

LoaderOK ==
  /\ rom \in RomStates /\ needed \in Nat
  /\ rom \in DataStates => needed > 0
  /\ host \in {"ident", "block", "check", "branch", "app"} /\ left \in Nat
  /\ host = "app" => left = 0
  /\ answers \in Seq({"ident", "block", "check", "branch"})
  /\ restarts \in 0 .. MaxRestarts

Inv == Registers /\ RingOK /\ LoaderOK /\ NoOverrun /\ RequestIsCurrent /\ WakeIsNoted

\* What the interrupt logic computes is a cause and a level.
LEMMA CauseType == Cause \in {"RX_LINE", "RX_DATA", "TX_EMPTY", "NO_INT"}
BY DEF Cause

LEMMA WantedType == wakeup_pending \in BOOLEAN /\ scr_wake \in BOOLEAN => Wanted \in BOOLEAN
BY DEF Wanted

\* The invariant implies the four properties the run checks.
LEMMA InvImplies == Inv => TypeOK /\ NoOverrun /\ RequestIsCurrent /\ WakeUpIsKept
<1> SUFFICES ASSUME Inv PROVE TypeOK /\ WakeUpIsKept
  BY DEF Inv
<1>1. iir \in {"RX_LINE", "RX_DATA", "TX_EMPTY", "NO_INT"} /\ irq \in BOOLEAN
  BY CauseType, WantedType DEF Inv, RequestIsCurrent, Registers
<1>2. TypeOK
  BY <1>1 DEF Inv, Registers, RingOK, LoaderOK, TypeOK, Opcodes
<1>3. WakeUpIsKept
  BY DEF Inv, WakeIsNoted, WakeUpIsKept, RequestIsCurrent, Wanted
<1> QED BY <1>2, <1>3

\* The state after calypso_uart_reset_state() and an idle loader.
LEMMA InitInv == Init => Inv
<1> SUFFICES ASSUME Init PROVE Inv
  OBVIOUS
<1> USE UartAssumption DEF UartAssumption
<1>0. tx_empty_reads \in 0 .. 1
  BY DEF Init
<1>1. Registers
  BY <1>0, Zenon DEF Init, Registers, Enables
<1>2. RingOK
  BY DEF Init, RingOK, Slots, Opcodes
<1>3. LoaderOK
  BY DEF Init, LoaderOK, RomStates, DataStates
<1>4. NoOverrun /\ RequestIsCurrent /\ WakeIsNoted
  <2>1. (rx_count > 0) = FALSE
    BY DEF Init
  <2> QED BY <2>1, Zenon DEF Init, NoOverrun, RequestIsCurrent, WakeIsNoted, Wanted, Cause
<1> QED BY <1>1, <1>2, <1>3, <1>4 DEF Inv

\* A new computation of the request makes it current, whatever the access did.
LEMMA UpdateMakesCurrent ==
  ASSUME UpdateIrq, dr' = (rx_count' > 0)
  PROVE  RequestIsCurrent'
BY DEF UpdateIrq, RequestIsCurrent

\* A chunk for which there is room goes into the ring, none of it is dropped.
LEMMA PushKeepsRing ==
  ASSUME RingOK, NEW n \in Nat, n > 0, n <= Room,
         NEW c \in [1 .. n -> Byte \cup Opcodes], Len(c) = n,
         oe = FALSE, Push(c)
  PROVE  RingOK' /\ oe' = FALSE /\ rx_count' > 0
<1> USE UartAssumption DEF UartAssumption, RingOK
<1>1. Fits(Len(c)) = n /\ n \in 1 .. Size /\ rx_count + n \in 0 .. Size
  BY DEF Fits, Room
<1>2. rx_head' \in Slots
  <2>1. rx_head' = (rx_head + n) % Size
    BY <1>1 DEF Push, Plus
  <2>2. rx_head + n \in Nat
    BY DEF Slots
  <2> QED BY <2>1, <2>2 DEF Slots
<1>3. rx_fifo' \in [Slots -> Byte \cup Opcodes]
  <2>1. ASSUME NEW i \in Slots, (i - rx_head + Size) % Size < n
        PROVE  c[((i - rx_head + Size) % Size) + 1] \in Byte \cup Opcodes
    <3>1. i - rx_head + Size \in Nat
      BY DEF Slots
    <3>2. (i - rx_head + Size) % Size \in Nat
      BY <3>1
    <3> QED BY <2>1, <3>2
  <2> QED BY <1>1, <2>1 DEF Push
<1>4. rx_tail' = rx_tail /\ rx_count' = rx_count + n
  BY <1>1 DEF Push
<1>5. oe' = FALSE
  <2>1. ~ (Len(c) > Room)
    BY DEF Room
  <2> QED BY <2>1, Zenon DEF Push
<1> QED BY <1>1, <1>2, <1>3, <1>4, <1>5

\* Bytes within the room of can_receive() leave the UART in order, on either port.
LEMMA DeliverInv ==
  ASSUME Inv, NEW n \in Nat, n > 0, NEW c \in [1 .. n -> Byte \cup Opcodes], Len(c) = n,
         Deliver(c)
  PROVE  Registers' /\ RingOK' /\ NoOverrun' /\ RequestIsCurrent' /\ WakeIsNoted'
<1>1. oe = FALSE /\ n <= Room /\ Push(c) /\ dr' = TRUE /\ UpdateIrq
  BY DEF Inv, NoOverrun, Registers, Deliver, CanReceive, Inject, InjectIrda
<1>2. RingOK' /\ oe' = FALSE /\ rx_count' > 0
  BY <1>1, PushKeepsRing DEF Inv
<1>3. wakeup_pending' \in BOOLEAN /\ activity' \in BOOLEAN
  BY Zenon DEF Deliver, Inject, InjectIrda, Inv, Registers
<1>4. Registers'
  BY <1>1, <1>2, <1>3 DEF Inv, Registers, Deliver, tx
<1>5. WakeIsNoted'
  BY <1>3 DEF Deliver, Inject, InjectIrda, Inv, Registers, WakeIsNoted
<1>6. RequestIsCurrent'
  <2>1. dr' = (rx_count' > 0)
    BY <1>1, <1>2
  <2> QED BY <1>1, <2>1, UpdateMakesCurrent
<1> QED BY <1>2, <1>4, <1>5, <1>6 DEF NoOverrun

\* The commands of the download all have data, and end in a known state.
LEMMA CommandFacts ==
  /\ \A c \in Command : Data[c] \in Nat \ {0} /\ DataState[c] \in DataStates
  /\ \A h \in {"ident", "block", "check", "branch", "app"} : CommandBytes(h) \in Nat
  /\ CommandBytes("app") = 0
  /\ \A h \in {"ident", "block", "check", "branch"} :
       /\ After[h] \in {"block", "check", "branch", "app"}
       /\ Opcode[h] \in Opcodes
<1> USE UartAssumption DEF UartAssumption
<1>1. \A c \in Command : Data[c] \in Nat \ {0} /\ DataState[c] \in DataStates
  BY DEF Command, Data, DataState, DataStates
<1>2. \A h \in {"ident", "block", "check", "branch", "app"} : CommandBytes(h) \in Nat
  BY <1>1 DEF CommandBytes, Command
<1>3. \A h \in {"ident", "block", "check", "branch"} :
        After[h] \in {"block", "check", "branch", "app"} /\ Opcode[h] \in Opcodes
  BY DEF After, Opcode, Opcodes
<1> QED BY <1>1, <1>2, <1>3 DEF CommandBytes

\* A byte of a download keeps the loader in one of its states, with data to
\* come exactly in the data states.
LEMMA EatInv ==
  ASSUME LoaderOK, NEW b, Eat(b)
  PROVE  /\ rom' \in RomStates /\ needed' \in Nat /\ (rom' \in DataStates => needed' > 0)
         /\ answers' \in Seq({"ident", "block", "check", "branch"})
<1> USE DEF LoaderOK
<1>1. CASE rom = "IDLE" /\ rom' = (IF b = "3c" THEN "AFTER_3C" ELSE "IDLE")
           /\ UNCHANGED <<needed, answers>>
  BY <1>1 DEF RomStates, DataStates
<1>2. CASE rom = "AFTER_3C" /\ rom' = "IDLE" /\ Answer("ident") /\ UNCHANGED needed
  BY <1>2 DEF RomStates, DataStates, Answer
<1>3. CASE \E c \in Command : rom' = DataState[c] /\ needed' = Data[c] /\ UNCHANGED answers
  BY <1>3, CommandFacts DEF RomStates, DataStates
<1>4. CASE rom' = "IDLE" /\ UNCHANGED <<needed, answers>>
  BY <1>4 DEF RomStates, DataStates
<1>5. CASE \E c \in Command :
             /\ rom = DataState[c]
             /\ needed' = needed - 1
             /\ IF needed' = 0
                THEN Answer(c) /\ rom' = (IF c = "branch" THEN "PASSTHROUGH" ELSE "IDLE")
                ELSE UNCHANGED <<rom, answers>>
  <2>0. PICK c \in Command :
             /\ rom = DataState[c]
             /\ needed' = needed - 1
             /\ IF needed' = 0
                THEN Answer(c) /\ rom' = (IF c = "branch" THEN "PASSTHROUGH" ELSE "IDLE")
                ELSE UNCHANGED <<rom, answers>>
    BY <1>5
  <2>1. needed > 0 /\ needed' \in Nat
    BY <2>0, CommandFacts
  <2>2. CASE needed' = 0
    BY <2>0, <2>1, <2>2 DEF RomStates, DataStates, Answer, Command
  <2>3. CASE needed' # 0
    BY <2>0, <2>1, <2>3
  <2> QED BY <2>2, <2>3
<1> QED BY <1>1, <1>2, <1>3, <1>4, <1>5 DEF Eat

\* Every handler, register access and step of the host preserves Inv.
LEMMA NextInv == Inv /\ [Next]_vars => Inv'
<1> SUFFICES ASSUME Inv, [Next]_vars PROVE Inv'
  OBVIOUS
<1> USE DEF Inv
<1>1. CASE Receive
  <2>1. LoaderOK'
    BY <1>1 DEF Receive, LoaderOK, loader
  <2>2. PICK c \in Chunk : Deliver(c)
    BY <1>1 DEF Receive
  <2>3. PICK n \in 1 .. MaxChunk : c \in [1 .. n -> Byte]
    BY <2>2 DEF Chunk
  <2>4. n \in Nat /\ n > 0 /\ Len(c) = n /\ c \in [1 .. n -> Byte \cup Opcodes]
    BY <2>3, UartAssumption DEF UartAssumption
  <2>5. Registers' /\ RingOK' /\ NoOverrun' /\ RequestIsCurrent' /\ WakeIsNoted'
    BY <2>2, <2>4, DeliverInv
  <2> QED BY <2>1, <2>5
<1>2. CASE ReadRbr
  <2>1. rx_count' \in 0 .. Size /\ rx_tail' \in Slots
    <3>1. CASE rx_count = 0
      BY <1>2, <3>1 DEF ReadRbr, Pop, ring, RingOK
    <3>2. CASE rx_count # 0
      <4>1. rx_tail' = (rx_tail + 1) % Size /\ rx_count' = rx_count - 1
        BY <1>2, <3>2 DEF ReadRbr, Pop, Plus
      <4> QED BY <3>2, <4>1, UartAssumption DEF RingOK, Slots, UartAssumption
    <3> QED BY <3>1, <3>2
  <2>2. RingOK'
    BY <1>2, <2>1 DEF ReadRbr, Pop, ring, RingOK
  <2>3. dr' = (rx_count' > 0) /\ dr' \in BOOLEAN /\ UpdateIrq
    BY <1>2 DEF ReadRbr
  <2>4. RequestIsCurrent'
    BY <2>3, UpdateMakesCurrent
  <2> QED BY <1>2, <2>2, <2>3, <2>4
        DEF ReadRbr, Registers, LoaderOK, loader, tx, wake, NoOverrun, WakeIsNoted
<1>3. CASE ReadIir
  <2>1. tx_empty_reads' \in 0 .. 1
    BY <1>3 DEF ReadIir, Registers
  <2>2. thr_empty_pending' \in BOOLEAN
    BY <1>3 DEF ReadIir, Registers
  <2>3. RingOK' /\ LoaderOK' /\ NoOverrun' /\ WakeIsNoted' /\ dr' = (rx_count' > 0)
    BY <1>3 DEF ReadIir, RingOK, LoaderOK, NoOverrun, WakeIsNoted, ring, loader, wake, RequestIsCurrent
  <2>4. Registers'
    BY <1>3, <2>1, <2>2 DEF ReadIir, Registers, wake
  <2>5. RequestIsCurrent'
    <3>1. CASE UpdateIrq
      BY <2>3, <3>1, UpdateMakesCurrent
    <3>2. CASE UNCHANGED <<thr_empty_pending, iir, irq>>
      BY <1>3, <3>2 DEF ReadIir, RequestIsCurrent, Wanted, Cause, ring, wake
    <3> QED BY <1>3, <3>1, <3>2 DEF ReadIir
  <2> QED BY <2>3, <2>4, <2>5
<1>4. CASE ReadLsr
  <2>1. oe' = oe
    BY <1>4 DEF ReadLsr, NoOverrun, Registers
  <2> QED BY <1>4, <2>1 DEF ReadLsr, Registers, RingOK, LoaderOK, NoOverrun, RequestIsCurrent,
                   WakeIsNoted, Wanted, Cause, ring, tx, wake, loader
<1>5. CASE WriteThr
  <2>1. RequestIsCurrent'
    <3>1. dr' = (rx_count' > 0) /\ UpdateIrq
      BY <1>5 DEF WriteThr, RequestIsCurrent, ring
    <3> QED BY <3>1, UpdateMakesCurrent
  <2> QED BY <1>5, <2>1
        DEF WriteThr, Registers, RingOK, LoaderOK, NoOverrun, WakeIsNoted, ring, wake, loader
<1>6. ASSUME NEW e \in SUBSET Enables, WriteIer(e) PROVE Inv'
  <2>1. RequestIsCurrent'
    <3>1. dr' = (rx_count' > 0) /\ UpdateIrq
      BY <1>6 DEF WriteIer, RequestIsCurrent, ring
    <3> QED BY <3>1, UpdateMakesCurrent
  <2>2. thr_empty_pending' \in BOOLEAN
    BY <1>6 DEF WriteIer, Registers
  <2> QED BY <1>6, <2>1, <2>2
        DEF WriteIer, Registers, RingOK, LoaderOK, NoOverrun, WakeIsNoted, ring, wake, loader
<1>7. ASSUME NEW rx \in BOOLEAN, NEW t \in BOOLEAN, WriteFcr(rx, t) PROVE Inv'
  <2>1. RingOK' /\ dr' = (rx_count' > 0) /\ dr' \in BOOLEAN
    <3>1. CASE rx
      <4>1. rx_head' = 0 /\ rx_tail' = 0 /\ rx_count' = 0 /\ rx_fifo' = rx_fifo /\ dr' = FALSE
        BY <1>7, <3>1 DEF WriteFcr, FifoReset
      <4>2. 0 \in Slots /\ 0 \in 0 .. Size /\ (0 > 0) = FALSE
        BY UartAssumption DEF UartAssumption, Slots
      <4> QED BY <4>1, <4>2 DEF RingOK
    <3>2. CASE ~ rx
      BY <1>7, <3>2 DEF WriteFcr, RingOK, ring, RequestIsCurrent, Registers
    <3> QED BY <3>1, <3>2
  <2>2. RequestIsCurrent'
    BY <1>7, <2>1, UpdateMakesCurrent DEF WriteFcr
  <2>3. thr_empty_pending' \in BOOLEAN
    BY <1>7 DEF WriteFcr, Registers
  <2> QED BY <1>7, <2>1, <2>2, <2>3
        DEF WriteFcr, Registers, LoaderOK, NoOverrun, WakeIsNoted, wake, loader
<1>8. ASSUME NEW v \in {"normal", "dlab", "bf"}, WriteLcr(v) PROVE Inv'
  BY <1>8 DEF WriteLcr, Registers, RingOK, LoaderOK, NoOverrun, RequestIsCurrent,
                   WakeIsNoted, Wanted, Cause, ring, tx, wake, loader
<1>9. ASSUME NEW b \in BOOLEAN, WriteScr(b) PROVE Inv'
  <2>1. RequestIsCurrent'
    <3>1. dr' = (rx_count' > 0) /\ UpdateIrq
      BY <1>9 DEF WriteScr, RequestIsCurrent, ring
    <3> QED BY <3>1, UpdateMakesCurrent
  <2>2. wakeup_pending' \in BOOLEAN /\ activity' \in BOOLEAN /\ WakeIsNoted'
    BY <1>9 DEF WriteScr, Registers, WakeIsNoted
  <2> QED BY <1>9, <2>1, <2>2
        DEF WriteScr, Registers, RingOK, LoaderOK, NoOverrun, ring, tx, loader
<1>10. CASE KickRx
  <2>1. RequestIsCurrent'
    <3>1. dr' = (rx_count' > 0) /\ UpdateIrq
      BY <1>10 DEF KickRx, RequestIsCurrent, ring
    <3> QED BY <3>1, UpdateMakesCurrent
  <2> QED BY <1>10, <2>1
        DEF KickRx, Registers, RingOK, LoaderOK, NoOverrun, WakeIsNoted, ring, tx, wake, loader
<1>11. CASE Reset
  <2>1. rx_head' = 0 /\ rx_tail' = 0 /\ rx_count' = 0 /\ rx_fifo' = rx_fifo
    BY <1>11 DEF Reset, FifoReset
  <2>2. 0 \in Slots /\ 0 \in 0 .. Size /\ (rx_count' > 0) = FALSE
    BY <2>1, UartAssumption DEF UartAssumption, Slots
  <2>3. RingOK'
    BY <2>1, <2>2 DEF RingOK
  <2>4. RequestIsCurrent'
    <3>1. Cause' = "NO_INT"
      BY <1>11 DEF Reset, Cause
    <3>2. Wanted' = FALSE
      BY <1>11, <3>1, Zenon DEF Reset, Wanted
    <3> QED BY <1>11, <2>2, <3>1, <3>2 DEF Reset, RequestIsCurrent
  <2> QED BY <1>11, <2>3, <2>4 DEF Reset, Registers, LoaderOK, NoOverrun, WakeIsNoted, loader
<1>12. CASE HostSends
  <2>1. left' \in Nat /\ host' = host /\ host # "app" /\ restarts' = restarts
    BY <1>12 DEF HostSends, LoaderOK
  <2>2. PICK b \in NextBytes :
          IF rom = "PASSTHROUGH"
          THEN Deliver(<<b>>) /\ UNCHANGED <<rom, needed, answers>>
          ELSE Eat(b) /\ UNCHANGED <<label, uart>>
    BY <1>12 DEF HostSends
  <2>3. CASE rom = "PASSTHROUGH"
    <3>1. b \in Byte \cup Opcodes
      <4>1. host \in {"ident", "block", "check", "branch"}
        BY <2>1 DEF LoaderOK
      <4> QED BY <2>2, <4>1, CommandFacts DEF NextBytes, Opcodes
    <3>2. <<b>> \in [1 .. 1 -> Byte \cup Opcodes] /\ Len(<<b>>) = 1 /\ 1 \in Nat /\ 1 > 0
      BY <3>1
    <3>3. Registers' /\ RingOK' /\ NoOverrun' /\ RequestIsCurrent' /\ WakeIsNoted'
      BY <2>2, <2>3, <3>2, DeliverInv
    <3> QED BY <2>1, <2>2, <2>3, <3>3 DEF LoaderOK
  <2>4. CASE rom # "PASSTHROUGH"
    <3>1. Eat(b) /\ UNCHANGED <<label, uart>>
      BY <2>2, <2>4
    <3>2. LoaderOK'
      BY <2>1, <3>1, EatInv DEF LoaderOK
    <3> QED BY <3>1, <3>2 DEF uart, ring, tx, wake, Registers, RingOK, NoOverrun, RequestIsCurrent,
                   WakeIsNoted, Wanted, Cause
  <2> QED BY <2>3, <2>4
<1>13. ASSUME UNCHANGED <<label, uart>>, LoaderOK' PROVE Inv'
  BY <1>13 DEF uart, ring, tx, wake, Registers, RingOK, NoOverrun, RequestIsCurrent,
                   WakeIsNoted, Wanted, Cause
<1>14. CASE HostHears
  <2>1. /\ host' \in {"ident", "block", "check", "branch", "app"} /\ left' \in Nat
        /\ host' = "app" => left' = 0
    <3>1. CASE host # "app" /\ Head(answers) = host
      <4>1. host' = After[host] /\ left' = CommandBytes(host')
        BY <1>14, <3>1 DEF HostHears
      <4>2. host' \in {"block", "check", "branch", "app"}
        BY <3>1, <4>1, CommandFacts DEF LoaderOK
      <4> QED BY <4>1, <4>2, CommandFacts
    <3>2. CASE ~ (host # "app" /\ Head(answers) = host)
      BY <1>14, <3>2 DEF HostHears, LoaderOK
    <3> QED BY <3>1, <3>2
  <2>2. answers' \in Seq({"ident", "block", "check", "branch"})
    BY <1>14 DEF HostHears, LoaderOK
  <2>3. LoaderOK'
    BY <1>14, <2>1, <2>2 DEF HostHears, LoaderOK
  <2> QED BY <1>13, <1>14, <2>3 DEF HostHears
<1>15. CASE HostRetries
  <2>1. LoaderOK'
    BY <1>15, CommandFacts DEF HostRetries, LoaderOK
  <2> QED BY <1>13, <1>15, <2>1 DEF HostRetries
<1>16. CASE HostRestarts
  <2>1. LoaderOK'
    BY <1>16, CommandFacts, UartAssumption DEF HostRestarts, LoaderOK, UartAssumption
  <2> QED BY <1>13, <1>16, <2>1 DEF HostRestarts
<1>17. CASE UNCHANGED vars
  <2>1. LoaderOK'
    BY <1>17 DEF vars, loader, LoaderOK
  <2> QED BY <1>13, <1>17, <2>1 DEF vars
<1>18. CASE Firmware
  BY <1>18, <1>2, <1>3, <1>4, <1>5, <1>6, <1>7, <1>8, <1>9 DEF Firmware
<1> QED BY <1>1, <1>10, <1>11, <1>12, <1>14, <1>15, <1>16, <1>17, <1>18 DEF Next, Host

\* The registers of a UART, its ring and the loader keep their types.
THEOREM TypeCorrectness == Spec => []TypeOK
<1>1. Spec => []Inv
  BY InitInv, NextInv, PTL DEF Spec
<1> QED BY <1>1, InvImplies, PTL

\* can_receive() is enough: no byte is ever dropped (calypso_uart_receive).
THEOREM NothingIsDropped == Spec => []NoOverrun
<1>1. Spec => []Inv
  BY InitInv, NextInv, PTL DEF Spec
<1> QED BY <1>1, InvImplies, PTL

\* The interrupt line and IIR always show the state of the registers
\* (calypso_uart_update_irq), although a read of LSR does not look again.
THEOREM RequestStaysCurrent == Spec => []RequestIsCurrent
<1>1. Spec => []Inv
  BY InitInv, NextInv, PTL DEF Spec
<1> QED BY <1>1, InvImplies, PTL

\* An armed modem port holds its interrupt up from the first byte on.
THEOREM WakeUpStays == Spec => []WakeUpIsKept
<1>1. Spec => []Inv
  BY InitInv, NextInv, PTL DEF Spec
<1> QED BY <1>1, InvImplies, PTL

-----------------------------------------------------------------------------
(* The download.  What LoaderInStep needs beyond itself is how far the       *)
(* answers of the loader are: a host in a command gets its answer with its  *)
(* last byte and nothing before, and one that identifies itself hears at    *)
(* most one answer at a time, of an earlier host or its own.                *)
Stray == \E c \in Command : answers = <<c>>

AnswersInStep ==
  label = "modem" =>
    /\ host = "ident" =>
         /\ left \in 0 .. 2
         /\ left = 2 => answers = <<>>
         /\ left = 1 => answers = <<>> \/ (Stray /\ rom \in {"IDLE", "PASSTHROUGH"})
         /\ left = 0 => answers = <<>> \/ Stray \/ (answers = <<"ident">> /\ rom = "IDLE")
    /\ host \in Command => answers = IF left = 0 THEN <<host>> ELSE <<>>
    /\ host = "app" => left = 0 /\ answers = <<>>

DownloadInv == LoaderInStep /\ AnswersInStep

\* The opcodes, the data states and the lengths tell the commands apart.
LEMMA CommandsApart ==
  /\ Opcode.ident = "69" /\ Opcode["ident"] = "69" /\ "3c" # "69"
  /\ \A c \in Command : Opcode[c] # "69" /\ Opcode[c] # "3c" /\ c \in DOMAIN Opcode
  /\ \A c, d \in Command : (Opcode[c] = Opcode[d] => c = d) /\ (DataState[c] = DataState[d] => c = d)
  /\ \A c \in Command : DataState[c] \notin {"IDLE", "AFTER_3C", "PASSTHROUGH"}
  /\ \A c \in Command : CommandBytes(c) = 2 + Data[c] /\ Data[c] \in Nat \ {0}
  /\ CommandBytes("ident") = 2
  /\ \A c \in Command : c \notin {"ident", "app"}
<1>1. \A c \in Command : Data[c] \in Nat \ {0}
  BY CommandFacts
<1>2. /\ Opcode.ident = "69" /\ Opcode["ident"] = "69" /\ "3c" # "69"
      /\ \A c \in Command : Opcode[c] # "69" /\ Opcode[c] # "3c" /\ c \in DOMAIN Opcode
      /\ \A c, d \in Command : Opcode[c] = Opcode[d] => c = d
  BY DEF Command, Opcode
<1>3. /\ \A c, d \in Command : DataState[c] = DataState[d] => c = d
      /\ \A c \in Command : DataState[c] \notin {"IDLE", "AFTER_3C", "PASSTHROUGH"}
  BY DEF Command, DataState
<1>4. /\ \A c \in Command : CommandBytes(c) = 2 + Data[c]
      /\ CommandBytes("ident") = 2
      /\ \A c \in Command : c \notin {"ident", "app"}
  BY DEF Command, CommandBytes
<1> QED BY <1>1, <1>2, <1>3, <1>4

\* A host at the start of a command, and one that identifies itself, are in
\* step when no answer is on its way.
LEMMA CommandBegins ==
  ASSUME host' \in Command, left' = CommandBytes(host'), rom' = "IDLE", answers' = <<>>
  PROVE  DownloadInv'
<1>1. left' > 0 /\ left' # 0 /\ host' \notin {"ident", "app"}
  BY CommandsApart
<1>2. AnswersInStep'
  BY <1>1 DEF AnswersInStep
<1>3. LoaderInStep'
  BY <1>1 DEF LoaderInStep, CommandBytes
<1> QED BY <1>2, <1>3 DEF DownloadInv

LEMMA IdentBegins ==
  ASSUME host' = "ident", left' = 2, answers' = <<>>
  PROVE  DownloadInv'
<1>1. host' # "app" /\ host' \notin Command /\ left' \in 0 .. 2
  BY DEF Command
<1> QED BY <1>1 DEF DownloadInv, AnswersInStep, LoaderInStep

\* What romload_stub_eat() does with a byte, by state.
LEMMA EatByState ==
  ASSUME NEW b, Eat(b)
  PROVE  /\ rom = "IDLE" =>
              rom' = (IF b = "3c" THEN "AFTER_3C" ELSE "IDLE") /\ UNCHANGED <<needed, answers>>
         /\ rom = "AFTER_3C" /\ b = "69" =>
              rom' = "IDLE" /\ answers' = Append(answers, "ident") /\ UNCHANGED needed
         /\ \A c \in Command : rom = "AFTER_3C" /\ b = Opcode[c] =>
              rom' = DataState[c] /\ needed' = Data[c] /\ UNCHANGED answers
         /\ rom = "AFTER_3C" /\ b = "3c" => rom' = "IDLE" /\ UNCHANGED <<needed, answers>>
         /\ \A c \in Command : rom = DataState[c] =>
              /\ needed' = needed - 1
              /\ IF needed' = 0
                 THEN /\ answers' = Append(answers, c)
                      /\ rom' = (IF c = "branch" THEN "PASSTHROUGH" ELSE "IDLE")
                 ELSE UNCHANGED <<rom, answers>>
<1>1. rom = "IDLE" =>
        rom' = (IF b = "3c" THEN "AFTER_3C" ELSE "IDLE") /\ UNCHANGED <<needed, answers>>
  BY CommandsApart DEF Eat
<1>2. rom = "AFTER_3C" /\ b = "69" =>
        rom' = "IDLE" /\ answers' = Append(answers, "ident") /\ UNCHANGED needed
  BY CommandsApart DEF Eat, Answer, Opcode
<1>3. ASSUME NEW c \in Command, rom = "AFTER_3C", b = Opcode[c]
      PROVE  rom' = DataState[c] /\ needed' = Data[c] /\ UNCHANGED answers
  BY <1>3, CommandsApart DEF Eat
<1>4. rom = "AFTER_3C" /\ b = "3c" => rom' = "IDLE" /\ UNCHANGED <<needed, answers>>
  BY CommandsApart DEF Eat
<1>5. ASSUME NEW c \in Command, rom = DataState[c]
      PROVE  /\ needed' = needed - 1
             /\ IF needed' = 0
                THEN /\ answers' = Append(answers, c)
                     /\ rom' = (IF c = "branch" THEN "PASSTHROUGH" ELSE "IDLE")
                ELSE UNCHANGED <<rom, answers>>
  BY <1>5, CommandsApart DEF Eat, Answer
<1> QED BY <1>1, <1>2, <1>3, <1>4, <1>5

\* A byte of the host's command moves host and loader together.
LEMMA SendInStep ==
  ASSUME Inv, DownloadInv, HostSends
  PROVE  DownloadInv'
<1>1. /\ label = "modem" /\ left \in Nat /\ left > 0 /\ left' = left - 1 /\ host' = host /\ rom \in RomStates
      /\ host \in {"ident"} \cup Command /\ needed \in Nat /\ label' = label
      /\ answers \in Seq({"ident", "block", "check", "branch"})
  BY DEF HostSends, Deliver, Inv, LoaderOK, Command
<1>2. PICK b \in NextBytes :
        IF rom = "PASSTHROUGH"
        THEN Deliver(<<b>>) /\ UNCHANGED <<rom, needed, answers>>
        ELSE Eat(b) /\ UNCHANGED <<label, uart>>
  BY DEF HostSends
<1>3. \A a \in {"ident", "block", "check", "branch"} : answers = <<>> => Append(answers, a) = <<a>>
  BY <1>1
<1>4. CASE host = "ident"
  <2>1. b = IF left = 2 THEN "3c" ELSE "69"
    BY <1>1, <1>2, <1>4, CommandsApart DEF NextBytes, DownloadInv, AnswersInStep
  <2>2. left \in {1, 2}
    BY <1>1, <1>4 DEF DownloadInv, AnswersInStep
  <2>3. CASE rom = "PASSTHROUGH"
    <3>1. rom' = rom /\ answers' = answers
      BY <1>2, <2>3
    <3>2. LoaderInStep'
      BY <1>1, <1>4, CommandsApart DEF LoaderInStep
    <3>3. AnswersInStep'
      BY <1>1, <1>4, <2>2, <2>3, <3>1, CommandsApart DEF DownloadInv, AnswersInStep, Stray
    <3> QED BY <3>2, <3>3 DEF DownloadInv
  <2>4. CASE rom = "IDLE"
    BY <1>1, <1>2, <1>4, <2>1, <2>2, <2>4, EatByState, CommandsApart
       DEF DownloadInv, AnswersInStep, LoaderInStep, Stray
  <2>5. CASE rom = "AFTER_3C"
    <3>1. answers = <<>>
      BY <1>1, <1>4, <2>2, <2>5 DEF DownloadInv, AnswersInStep
    <3>2. rom' = "IDLE" /\ answers' = IF left = 2 THEN <<>> ELSE <<"ident">>
      BY <1>2, <1>3, <2>1, <2>2, <2>5, <3>1, EatByState
    <3> QED BY <1>1, <1>4, <2>2, <3>2, CommandsApart DEF DownloadInv, AnswersInStep, LoaderInStep
  <2>6. ASSUME NEW c \in Command, rom = DataState[c] PROVE DownloadInv'
    <3>1. answers = <<>>
      BY <1>1, <1>4, <2>2, <2>6, CommandsApart DEF DownloadInv, AnswersInStep
    <3>2. \/ answers' = <<>>
          \/ answers' = <<c>> /\ rom' \in {"IDLE", "PASSTHROUGH"}
      BY <1>2, <1>3, <2>6, <3>1, EatByState, CommandsApart DEF Command
    <3> QED BY <1>1, <1>4, <2>2, <3>2, CommandsApart DEF DownloadInv, AnswersInStep, LoaderInStep, Stray
  <2>7. rom \in {"PASSTHROUGH", "IDLE", "AFTER_3C"} \/ \E c \in Command : rom = DataState[c]
    BY <1>1 DEF RomStates, Command, DataState
  <2> QED BY <2>3, <2>4, <2>5, <2>6, <2>7
<1>5. CASE host \in Command
  <2>1. /\ CommandBytes(host) = 2 + Data[host] /\ Data[host] \in Nat \ {0} /\ answers = <<>>
        /\ host \notin {"ident", "app"} /\ DataState[host] \notin {"IDLE", "AFTER_3C", "PASSTHROUGH"}
    BY <1>1, <1>5, CommandsApart DEF DownloadInv, AnswersInStep
  <2>2. CASE left = CommandBytes(host) /\ rom = "IDLE"
    <3>1. b = "3c"
      BY <1>2, <2>2 DEF NextBytes
    <3>2. rom' = "AFTER_3C" /\ answers' = <<>>
      BY <1>2, <2>1, <2>2, <3>1, EatByState
    <3> QED BY <1>1, <1>5, <2>1, <2>2, <3>2 DEF DownloadInv, AnswersInStep, LoaderInStep
  <2>3. CASE left = CommandBytes(host) - 1 /\ rom = "AFTER_3C"
    <3>1. b = Opcode[host]
      BY <1>2, <2>1, <2>3 DEF NextBytes
    <3>2. rom' = DataState[host] /\ needed' = Data[host] /\ answers' = <<>>
      BY <1>2, <1>5, <2>1, <2>3, <3>1, EatByState
    <3> QED BY <1>1, <1>5, <2>1, <2>3, <3>2 DEF DownloadInv, AnswersInStep, LoaderInStep
  <2>4. CASE left \in 1 .. Data[host] /\ rom = DataState[host] /\ needed = left
    <3>1. /\ needed' = needed - 1
          /\ IF needed' = 0
             THEN /\ answers' = Append(answers, host)
                  /\ rom' = (IF host = "branch" THEN "PASSTHROUGH" ELSE "IDLE")
             ELSE UNCHANGED <<rom, answers>>
      BY <1>2, <1>5, <2>1, <2>4, EatByState
    <3>2. Append(answers, host) = <<host>>
      BY <1>3, <1>5, <2>1 DEF Command
    <3> QED BY <1>1, <1>5, <2>1, <2>4, <3>1, <3>2 DEF DownloadInv, AnswersInStep, LoaderInStep
  <2>5. LoaderInStep /\ left # 0
    BY <1>1 DEF DownloadInv
  <2>6. \/ left = CommandBytes(host) /\ rom = "IDLE"
        \/ left = CommandBytes(host) - 1 /\ rom = "AFTER_3C"
        \/ left \in 1 .. Data[host] /\ rom = DataState[host] /\ needed = left
    BY <1>1, <1>5, <2>5 DEF LoaderInStep
  <2> QED BY <2>2, <2>3, <2>4, <2>6
<1> QED BY <1>1, <1>4, <1>5

\* An answer moves a host on only with the loader back where it listens.
LEMMA HearInStep ==
  ASSUME Inv, DownloadInv, HostHears
  PROVE  DownloadInv'
<1>1. /\ left = 0 /\ answers # <<>> /\ answers' = Tail(answers) /\ UNCHANGED <<label, rom, needed>>
      /\ host \in {"ident", "block", "check", "branch", "app"}
  BY DEF HostHears, Inv, LoaderOK
<1>2. SUFFICES ASSUME label = "modem" PROVE DownloadInv'
  BY <1>1 DEF DownloadInv, LoaderInStep, AnswersInStep
<1>3. PICK a : answers = <<a>> /\ answers' = <<>> /\ Head(answers) = a
               /\ (host = "ident" /\ a = "ident" => rom = "IDLE")
               /\ (host = "ident" /\ a # "ident" => a \in Command)
               /\ (host \in Command => a = host)
  BY <1>1, <1>2 DEF DownloadInv, AnswersInStep, Stray, Command
<1>4. host \in Command => rom' = IF host = "branch" THEN "PASSTHROUGH" ELSE "IDLE"
  <2>1. left = 0 /\ (host \in Command => CommandBytes(host) # 0 /\ CommandBytes(host) # 1)
    BY <1>1, CommandsApart
  <2> QED BY <1>1, <1>2, <2>1 DEF DownloadInv, LoaderInStep
<1>5. CASE host = "ident" /\ a # "ident"
  <2>1. host' = host /\ left' = 0
    BY <1>1, <1>3, <1>5 DEF HostHears
  <2> QED BY <1>1, <1>3, <1>5, <2>1, CommandsApart DEF DownloadInv, AnswersInStep, LoaderInStep
<1>6. CASE host = "ident" /\ a = "ident"
  <2>1. host' = After["ident"] /\ left' = CommandBytes(host')
    BY <1>3, <1>6 DEF HostHears
  <2>2. After["ident"] \in Command
    BY DEF After, Command
  <2>3. rom' = "IDLE"
    BY <1>1, <1>3, <1>6
  <2> QED BY <1>3, <2>1, <2>2, <2>3, CommandBegins
<1>7. CASE host \in {"block", "check"}
  <2>1. host' \in Command /\ left' = CommandBytes(host') /\ rom' = "IDLE"
    <3>1. host' = After[host] /\ left' = CommandBytes(host')
      BY <1>3, <1>7 DEF HostHears, Command
    <3>2. After[host] \in Command
      BY <1>7 DEF After, Command
    <3> QED BY <1>1, <1>4, <1>7, <3>1, <3>2 DEF Command
  <2> QED BY <1>3, <2>1, CommandBegins
<1>8. CASE host = "branch"
  <2>1. host' = "app" /\ left' = 0 /\ rom' = "PASSTHROUGH"
    <3>1. host' = After["branch"] /\ left' = CommandBytes(host')
      BY <1>3, <1>8 DEF HostHears, Command
    <3>2. After["branch"] = "app" /\ CommandBytes("app") = 0
      BY CommandFacts DEF After
    <3> QED BY <1>1, <1>4, <1>8, <3>1, <3>2 DEF Command
  <2> QED BY <1>3, <2>1 DEF DownloadInv, AnswersInStep, LoaderInStep, Command
<1>9. host # "app"
  BY <1>1, <1>2 DEF DownloadInv, AnswersInStep
<1> QED BY <1>1, <1>5, <1>6, <1>7, <1>8, <1>9

\* The firmware does not touch the loader; the other steps of the host begin a
\* command anew.
LEMMA DownloadStep == Inv /\ DownloadInv /\ [Next]_vars => DownloadInv'
<1> SUFFICES ASSUME Inv, DownloadInv, [Next]_vars PROVE DownloadInv'
  OBVIOUS
<1>1. ASSUME UNCHANGED <<label, loader>> PROVE DownloadInv'
  BY <1>1 DEF DownloadInv, LoaderInStep, AnswersInStep, Stray, loader, CommandBytes
<1>2. CASE Receive
  BY <1>1, <1>2 DEF Receive, Deliver
<1>3. CASE Firmware \/ KickRx \/ Reset
  BY <1>1, <1>3 DEF Firmware, ReadRbr, ReadIir, ReadLsr, WriteThr, WriteIer, WriteFcr, WriteLcr,
                    WriteScr, KickRx, Reset
<1>4. CASE HostRetries
  BY <1>4, CommandsApart, IdentBegins DEF HostRetries
<1>5. CASE HostRestarts
  BY <1>5, CommandsApart, IdentBegins DEF HostRestarts
<1>6. CASE UNCHANGED vars
  BY <1>1, <1>6 DEF vars
<1> QED BY <1>2, <1>3, <1>4, <1>5, <1>6, SendInStep, HearInStep DEF Next, Host

\* The stub of the boot ROM loader stands exactly where the host is in its
\* command, for every length of block and branch, every content of the data
\* and any number of hosts stopped in the middle of theirs.
THEOREM LoaderStaysInStep == Spec => []LoaderInStep
<1>1. Init => Inv /\ DownloadInv
  <2> SUFFICES ASSUME Init PROVE DownloadInv
    BY InitInv
  <2>1. host \notin Command
    BY CommandsApart DEF Init
  <2> QED BY <2>1 DEF Init, DownloadInv, LoaderInStep, AnswersInStep
<1>2. Inv /\ DownloadInv /\ [Next]_vars => Inv' /\ DownloadInv'
  BY NextInv, DownloadStep
<1>3. DownloadInv => LoaderInStep
  BY DEF DownloadInv
<1> QED BY <1>1, <1>2, <1>3, PTL DEF Spec

-----------------------------------------------------------------------------
Bytes == Byte \cup Opcodes

HeadFollows == rx_head = Plus(rx_tail, rx_count)

RingInv == Inv /\ HeadFollows

\* An index below twice the size wraps by one subtraction.
LEMMA PlusIs ==
  ASSUME NEW i \in Slots, NEW n \in 0 .. Size
  PROVE  Plus(i, n) = (IF i + n < Size THEN i + n ELSE i + n - Size) /\ Plus(i, n) \in Slots
<1>1. Size \in Nat \ {0} /\ i \in 0 .. Size - 1
  BY UartAssumption DEF UartAssumption, Slots
<1>2. CASE i + n < Size
  BY <1>1, <1>2 DEF Plus, Slots
<1>3. CASE i + n >= Size
  <2>1. (i + n) % Size = i + n - Size
    BY <1>1, <1>3
  <2> QED BY <1>1, <1>3, <2>1 DEF Plus, Slots
<1> QED BY <1>1, <1>2, <1>3

\* The same for the distance of a slot from the head.
LEMMA DistanceIs ==
  ASSUME NEW i \in Slots, NEW h \in Slots
  PROVE  (i - h + Size) % Size = IF i >= h THEN i - h ELSE i - h + Size
<1>1. Size \in Nat \ {0} /\ i \in 0 .. Size - 1 /\ h \in 0 .. Size - 1
  BY UartAssumption DEF UartAssumption, Slots
<1>2. CASE i >= h
  <2>1. i - h + Size \in Size .. 2 * Size - 1
    BY <1>1, <1>2
  <2> QED BY <1>1, <1>2, <2>1
<1>3. CASE i < h
  <2>1. i - h + Size \in 0 .. Size - 1
    BY <1>1, <1>3
  <2> QED BY <1>1, <1>3, <2>1
<1> QED BY <1>1, <1>2, <1>3

\* The contents of the ring as a sequence.
LEMMA ContentsType ==
  ASSUME RingOK
  PROVE  /\ Contents \in [1 .. rx_count -> Bytes]
         /\ Contents \in Seq(Bytes) /\ Len(Contents) = rx_count
<1>1. rx_count \in Nat /\ rx_count <= Size /\ rx_tail \in Slots /\ rx_fifo \in [Slots -> Bytes]
  BY UartAssumption DEF UartAssumption, RingOK, Bytes
<1>2. \A k \in 1 .. rx_count : rx_fifo[Plus(rx_tail, k - 1)] \in Bytes
  <2> TAKE k \in 1 .. rx_count
  <2>1. k - 1 \in 0 .. Size
    BY <1>1, UartAssumption DEF UartAssumption
  <2>2. Plus(rx_tail, k - 1) \in Slots
    BY <1>1, <2>1, PlusIs
  <2> QED BY <1>1, <2>2
<1>3. Contents \in [1 .. rx_count -> Bytes]
  BY <1>2 DEF Contents
<1> QED BY <1>1, <1>3

\* A chunk that fits is appended to the contents.
LEMMA PushAppends ==
  ASSUME RingOK, HeadFollows, NEW n \in Nat, n > 0, n <= Room,
         NEW c \in [1 .. n -> Bytes], Len(c) = n, Push(c)
  PROVE  Contents' = Contents \o c /\ HeadFollows'
<1> DEFINE m == rx_count
<1>1. /\ Size \in Nat \ {0} /\ m \in Nat /\ m + n <= Size /\ rx_tail \in Slots /\ rx_head \in Slots
      /\ rx_fifo \in [Slots -> Bytes] /\ Fits(Len(c)) = n
  BY UartAssumption DEF UartAssumption, RingOK, Room, Fits, Bytes
<1>2. /\ rx_tail' = rx_tail /\ rx_count' = m + n
      /\ rx_head' = Plus(rx_head, n)
      /\ rx_fifo' = [i \in Slots |-> LET k == (i - rx_head + Size) % Size
                                     IN  IF k < n THEN c[k + 1] ELSE rx_fifo[i]]
  BY <1>1 DEF Push
<1>3. rx_head = IF rx_tail + m < Size THEN rx_tail + m ELSE rx_tail + m - Size
  BY <1>1, PlusIs DEF HeadFollows
<1>4. HeadFollows'
  <2>1. Plus(rx_head, n) = IF rx_head + n < Size THEN rx_head + n ELSE rx_head + n - Size
    BY <1>1, PlusIs
  <2>2. Plus(rx_tail, m + n) =
          IF rx_tail + (m + n) < Size THEN rx_tail + (m + n) ELSE rx_tail + (m + n) - Size
    BY <1>1, PlusIs
  <2>3. Plus(rx_head, n) = Plus(rx_tail, m + n)
    BY <1>1, <1>3, <2>1, <2>2 DEF Slots
  <2> QED BY <1>2, <2>3 DEF HeadFollows, Plus
<1>5. ASSUME NEW k \in 1 .. m + n
      PROVE  rx_fifo'[Plus(rx_tail, k - 1)] =
               IF k <= m THEN rx_fifo[Plus(rx_tail, k - 1)] ELSE c[k - m]
  <2> DEFINE i == Plus(rx_tail, k - 1)
  <2>1. i \in Slots /\ i = IF rx_tail + (k - 1) < Size THEN rx_tail + (k - 1)
                           ELSE rx_tail + (k - 1) - Size
    BY <1>1, PlusIs
  <2>2. (i - rx_head + Size) % Size = IF i >= rx_head THEN i - rx_head ELSE i - rx_head + Size
    BY <1>1, <2>1, DistanceIs
  <2>3. rx_fifo'[i] = IF (i - rx_head + Size) % Size < n
                      THEN c[((i - rx_head + Size) % Size) + 1] ELSE rx_fifo[i]
    BY <1>2, <2>1
  <2> HIDE DEF i
  <2>4. CASE k <= m
    <3>1. ~ ((i - rx_head + Size) % Size < n)
      BY <1>1, <1>3, <2>1, <2>2, <2>4 DEF Slots
    <3> QED BY <2>3, <2>4, <3>1 DEF i
  <2>5. CASE k > m
    <3>1. (i - rx_head + Size) % Size = k - m - 1
      BY <1>1, <1>3, <2>1, <2>2, <2>5 DEF Slots
    <3> QED BY <1>1, <2>3, <2>5, <3>1 DEF i
  <2> QED BY <1>1, <2>4, <2>5
<1>6. Contents' = [k \in 1 .. m + n |-> IF k <= m THEN Contents[k] ELSE c[k - m]]
  <2>1. Contents' = [k \in 1 .. m + n |-> rx_fifo'[Plus(rx_tail, k - 1)]]
    BY <1>2 DEF Contents, Plus
  <2>2. \A k \in 1 .. m : Contents[k] = rx_fifo[Plus(rx_tail, k - 1)]
    BY DEF Contents
  <2>3. \A k \in 1 .. m + n :
          rx_fifo'[Plus(rx_tail, k - 1)] = IF k <= m THEN Contents[k] ELSE c[k - m]
    BY <1>1, <1>5, <2>2
  <2> QED BY <2>1, <2>3
<1>7. Contents \o c = [k \in 1 .. m + n |-> IF k <= m THEN Contents[k] ELSE c[k - m]]
  <2>1. c \in Seq(Bytes) /\ Contents \in Seq(Bytes) /\ Len(Contents) = m
    BY ContentsType
  <2>2. /\ Contents \o c \in Seq(Bytes) /\ Len(Contents \o c) = m + n
        /\ \A k \in 1 .. m + n : (Contents \o c)[k] = IF k <= m THEN Contents[k] ELSE c[k - m]
    BY <2>1, ConcatProperties
  <2>3. Contents \o c \in [1 .. m + n -> Bytes]
    BY <2>2, LenProperties
  <2> QED BY <2>2, <2>3
<1> QED BY <1>4, <1>6, <1>7

\* Reading a byte takes it off the front.
LEMMA PopTakes ==
  ASSUME RingOK, HeadFollows, Pop
  PROVE  /\ HeadFollows'
         /\ \/ UNCHANGED Contents
            \/ Contents # <<>> /\ Contents' = Tail(Contents)
<1> DEFINE m == rx_count
<1>1. /\ Size \in Nat \ {0} /\ m \in Nat /\ m <= Size /\ rx_tail \in Slots /\ rx_head \in Slots
      /\ rx_fifo \in [Slots -> Bytes]
  BY UartAssumption DEF UartAssumption, RingOK, Bytes
<1>2. CASE m = 0
  BY <1>2 DEF Pop, ring, HeadFollows, Contents, Plus
<1>3. CASE m # 0
  <2>1. rx_tail' = Plus(rx_tail, 1) /\ rx_count' = m - 1 /\ rx_fifo' = rx_fifo /\ rx_head' = rx_head
    BY <1>3 DEF Pop
  <2>2. ASSUME NEW k \in 1 .. m
        PROVE  Plus(Plus(rx_tail, 1), k - 1) = Plus(rx_tail, k)
    <3>1. Plus(rx_tail, 1) \in Slots
          /\ Plus(rx_tail, 1) = IF rx_tail + 1 < Size THEN rx_tail + 1 ELSE rx_tail + 1 - Size
      BY <1>1, PlusIs
    <3>2. Plus(rx_tail, k) = IF rx_tail + k < Size THEN rx_tail + k ELSE rx_tail + k - Size
      BY <1>1, PlusIs
    <3>3. Plus(Plus(rx_tail, 1), k - 1) =
            IF Plus(rx_tail, 1) + (k - 1) < Size THEN Plus(rx_tail, 1) + (k - 1)
            ELSE Plus(rx_tail, 1) + (k - 1) - Size
      BY <1>1, <3>1, PlusIs
    <3> QED BY <1>1, <3>1, <3>2, <3>3 DEF Slots
  <2>3. HeadFollows'
    <3>1. m \in 1 .. m /\ rx_head = Plus(rx_tail, m)
      BY <1>1, <1>3 DEF HeadFollows
    <3>2. rx_head = Plus(Plus(rx_tail, 1), m - 1)
      BY <2>2, <3>1
    <3> QED BY <2>1, <3>2 DEF HeadFollows, Plus
  <2>4. Contents \in Seq(Bytes) /\ Len(Contents) = m
    BY ContentsType
  <2>5. Contents # <<>>
    BY <1>3, <2>4, EmptySeq
  <2>6. Contents' = [k \in 1 .. m - 1 |-> Contents[k + 1]]
    <3>1. Contents' = [k \in 1 .. m - 1 |-> rx_fifo[Plus(Plus(rx_tail, 1), k - 1)]]
      BY <2>1 DEF Contents, Plus
    <3>2. ASSUME NEW k \in 1 .. m - 1
          PROVE  rx_fifo[Plus(Plus(rx_tail, 1), k - 1)] = Contents[k + 1]
      <4>1. k \in 1 .. m /\ k + 1 \in 1 .. m /\ (k + 1) - 1 = k
        BY <1>1
      <4>2. Contents[k + 1] = rx_fifo[Plus(rx_tail, (k + 1) - 1)]
        BY <4>1 DEF Contents
      <4> QED BY <2>2, <4>1, <4>2
    <3> QED BY <3>1, <3>2
  <2>7. Tail(Contents) = [k \in 1 .. m - 1 |-> Contents[k + 1]]
    <3>1. /\ Tail(Contents) \in Seq(Bytes) /\ Len(Tail(Contents)) = m - 1
          /\ \A k \in 1 .. Len(Tail(Contents)) : Tail(Contents)[k] = Contents[k + 1]
      BY <2>4, <2>5, HeadTailProperties
    <3>2. Tail(Contents) \in [1 .. m - 1 -> Bytes]
      BY <3>1, LenProperties
    <3> QED BY <3>1, <3>2
  <2> QED BY <2>3, <2>5, <2>6, <2>7
<1> QED BY <1>2, <1>3

\* An empty ring is the empty queue.
LEMMA EmptyRing ==
  ASSUME RingOK, rx_count = 0
  PROVE  Contents = <<>>
<1>1. Contents \in Seq(Bytes) /\ Len(Contents) = 0
  BY ContentsType
<1> QED BY <1>1, EmptySeq

\* A reset of the ring empties the queue.
LEMMA ResetDiscards ==
  ASSUME RingOK', FifoReset
  PROVE  HeadFollows' /\ Contents' = <<>>
<1>1. rx_head' = 0 /\ rx_tail' = 0 /\ rx_count' = 0
  BY DEF FifoReset
<1>2. HeadFollows'
  <2>1. (0 + 0) % Size = 0
    BY UartAssumption DEF UartAssumption
  <2> QED BY <1>1, <2>1 DEF HeadFollows, Plus
<1>3. Contents' = [k \in 1 .. 0 |-> rx_fifo'[Plus(rx_tail', k - 1)]]
  BY <1>1 DEF Contents, Plus
<1>4. Contents' \in [1 .. 0 -> Bytes]
  BY <1>3
<1>5. Contents' \in Seq(Bytes) /\ Len(Contents') = 0
  BY <1>4
<1> QED BY <1>2, <1>5, EmptySeq

\* Bytes that the character device delivers arrive in the queue as they came.
LEMMA DeliverArrives ==
  ASSUME Inv, HeadFollows, NEW n \in Nat, n > 0, NEW c \in [1 .. n -> Bytes], Len(c) = n,
         Deliver(c)
  PROVE  HeadFollows' /\ Queue!QueueNext
<1>1. RingOK /\ n <= Room /\ Push(c)
  BY DEF Inv, Deliver, CanReceive, Inject, InjectIrda
<1>2. Contents' = Contents \o c /\ HeadFollows'
  BY <1>1, PushAppends
<1>3. n \in 1 .. Size /\ Len(Contents) + Len(c) <= Size
  BY <1>1, ContentsType, UartAssumption DEF UartAssumption, RingOK, Room
<1>4. c \in Queue!Chunks
  BY <1>3 DEF Queue!Chunks, Bytes, Opcodes
<1>5. Queue!Arrive(c)
  BY <1>2, <1>3 DEF Queue!Arrive
<1> QED BY <1>2, <1>4, <1>5 DEF Queue!QueueNext

\* A step that leaves the ring alone leaves the queue alone.
LEMMA RingUntouched ==
  ASSUME HeadFollows, UNCHANGED ring
  PROVE  HeadFollows' /\ UNCHANGED Contents
BY DEF HeadFollows, Contents, Plus, ring

\* Every step of a UART is a step of the queue, or none.
LEMMA StepSimulates ==
  RingInv /\ Inv' /\ [Next]_vars => HeadFollows' /\ [Queue!QueueNext]_Contents
<1> SUFFICES ASSUME RingInv, Inv', [Next]_vars
             PROVE  HeadFollows' /\ [Queue!QueueNext]_Contents
  OBVIOUS
<1>0. Inv /\ RingOK /\ RingOK' /\ HeadFollows
  BY DEF RingInv, Inv
<1>1. CASE Receive
  <2>1. PICK c \in Chunk : Deliver(c)
    BY <1>1 DEF Receive
  <2>2. PICK n \in 1 .. MaxChunk : c \in [1 .. n -> Byte]
    BY <2>1 DEF Chunk
  <2>3. n \in Nat /\ n > 0 /\ Len(c) = n /\ c \in [1 .. n -> Bytes]
    BY <2>2, UartAssumption DEF UartAssumption, Bytes
  <2> QED BY <1>0, <2>1, <2>3, DeliverArrives
<1>2. CASE HostSends
  <2>1. PICK b \in NextBytes :
          IF rom = "PASSTHROUGH"
          THEN Deliver(<<b>>) /\ UNCHANGED <<rom, needed, answers>>
          ELSE Eat(b) /\ UNCHANGED <<label, uart>>
    BY <1>2 DEF HostSends
  <2>2. CASE rom = "PASSTHROUGH"
    <3>1. host \in {"ident", "block", "check", "branch"}
      BY <1>0, <1>2 DEF HostSends, Inv, LoaderOK
    <3>2. b \in Bytes
      BY <2>1, <3>1, CommandFacts DEF NextBytes, Opcodes, Bytes
    <3>3. <<b>> \in [1 .. 1 -> Bytes] /\ Len(<<b>>) = 1 /\ 1 \in Nat /\ 1 > 0
      BY <3>2
    <3> QED BY <1>0, <2>1, <2>2, <3>3, DeliverArrives
  <2>3. CASE rom # "PASSTHROUGH"
    BY <1>0, <2>1, <2>3, RingUntouched DEF uart
  <2> QED BY <2>2, <2>3
<1>3. CASE ReadRbr
  <2>1. HeadFollows' /\ (UNCHANGED Contents \/ (Contents # <<>> /\ Contents' = Tail(Contents)))
    BY <1>0, <1>3, PopTakes DEF ReadRbr
  <2> QED BY <2>1 DEF Queue!QueueNext, Queue!Take
<1>4. ASSUME NEW rx \in BOOLEAN, NEW t \in BOOLEAN, WriteFcr(rx, t)
      PROVE  HeadFollows' /\ [Queue!QueueNext]_Contents
  <2>1. CASE rx
    <3>1. HeadFollows' /\ Contents' = <<>>
      BY <1>0, <1>4, <2>1, ResetDiscards DEF WriteFcr
    <3> QED BY <3>1 DEF Queue!QueueNext, Queue!Discard
  <2>2. CASE ~ rx
    BY <1>0, <1>4, <2>2, RingUntouched DEF WriteFcr
  <2> QED BY <2>1, <2>2
<1>5. CASE Reset
  <2>1. HeadFollows' /\ Contents' = <<>>
    BY <1>0, <1>5, ResetDiscards DEF Reset
  <2> QED BY <2>1 DEF Queue!QueueNext, Queue!Discard
<1>6. CASE ReadIir \/ ReadLsr \/ WriteThr \/ KickRx \/ HostHears \/ HostRetries
           \/ HostRestarts \/ UNCHANGED vars
  <2>1. UNCHANGED ring
    BY <1>6 DEF ReadIir, ReadLsr, WriteThr, KickRx, HostHears, HostRetries, HostRestarts, vars, uart
  <2> QED BY <1>0, <2>1, RingUntouched
<1>7. CASE (\E e \in SUBSET Enables : WriteIer(e))
           \/ (\E v \in {"normal", "dlab", "bf"} : WriteLcr(v))
           \/ (\E b \in BOOLEAN : WriteScr(b))
  <2>1. UNCHANGED ring
    BY <1>7 DEF WriteIer, WriteLcr, WriteScr
  <2> QED BY <1>0, <2>1, RingUntouched
<1> QED BY <1>1, <1>2, <1>3, <1>4, <1>5, <1>6, <1>7 DEF Next, Firmware, Host

\* The ring of a UART that starts is empty.
LEMMA InitSimulates == Init => HeadFollows /\ Queue!QueueInit
<1> SUFFICES ASSUME Init PROVE HeadFollows /\ Queue!QueueInit
  OBVIOUS
<1>1. RingOK /\ rx_count = 0
  BY InitInv DEF Init, Inv
<1>2. (0 + 0) % Size = 0
  BY UartAssumption DEF UartAssumption
<1>3. HeadFollows
  BY <1>2 DEF Init, HeadFollows, Plus
<1> QED BY <1>1, <1>3, EmptyRing DEF Queue!QueueInit

\* The receive ring of calypso_uart.c (fifo_push, fifo_pop, fifo_reset) is a
\* bounded queue: bytes come out in the order they came in, none is lost but by
\* a reset of the receiver, whatever the size and wherever the indices wrap.
THEOREM RingImplementsQueue == Spec => ImplementsQueue
<1>1. Init => RingInv /\ Queue!QueueInit
  BY InitInv, InitSimulates DEF RingInv
<1>2. RingInv /\ [Next]_vars => RingInv' /\ [Queue!QueueNext]_Contents
  BY NextInv, StepSimulates DEF RingInv
<1> QED BY <1>1, <1>2, PTL DEF Spec, ImplementsQueue, Queue!QueueSpec
=============================================================================
