-------------------------------- MODULE Uart --------------------------------
(***************************************************************************)
(* A Calypso UART, hw/char/calypso_uart.c: the receive ring, the interrupt  *)
(* logic, the wake-up of the TI driver, and in front of the modem port the  *)
(* stub of the boot ROM loader, which swallows the download of the host.    *)
(*                                                                         *)
(* Three actors: the character device (QEMU's main loop), the firmware by   *)
(* the registers it touches, and the host program that downloads a firmware *)
(* (osmocon, not part of the repository).  Every handler runs under the     *)
(* global lock.                                                             *)
(*                                                                         *)
(* LSR[THRE] is set by the reset and never cleared, so it is left out.      *)
(* `irq' is the level the interrupt controller holds for this source.       *)
(***************************************************************************)
EXTENDS Integers, Sequences

CONSTANTS
  Size,          \* CALYPSO_UART_RX_FIFO_SIZE, 8192 in the code
  Byte,          \* values of a data byte
  MaxChunk,      \* bytes the character device hands over in one call
  BlockBytes,    \* 8 + payload_size: header and payload of a download block
  BranchBytes,   \* 4: the address of the branch command
  MaxRestarts    \* times the host program is started again

ASSUME UartAssumption ==
  /\ Size \in Nat \ {0} /\ MaxChunk \in Nat \ {0}
  /\ BlockBytes \in Nat \ {0} /\ BranchBytes \in Nat \ {0}
  /\ MaxRestarts \in Nat /\ Byte # {}

VARIABLES
  label,             \* "modem" or "irda", fixed
  rx_fifo, rx_head, rx_tail, rx_count,
  dr, oe,            \* LSR_DR, LSR_OE
  ier,               \* enabled interrupts, a subset of Enables
  iir, lcr,          \* lcr: "normal", "dlab" or "bf" (0xBF, which sets DLAB too)
  thr_empty_pending, tx_empty_reads,
  scr_wake,          \* SCR[4]
  wakeup_pending,
  irq

VARIABLES
  rom, needed,       \* romload.state and romload.needed
  host,              \* the command the host program is on
  left,              \* bytes of it still to send, 0 when it waits for the answer
  answers,           \* answers of the loader on their way to the host
  restarts

VARIABLE activity    \* history: bytes came in since SCR[4] was armed

ring == <<rx_fifo, rx_head, rx_tail, rx_count>>
tx == <<thr_empty_pending, tx_empty_reads>>
wake == <<scr_wake, wakeup_pending, activity>>
uart == <<ring, dr, oe, ier, iir, lcr, tx, wake, irq>>
loader == <<rom, needed, host, left, answers, restarts>>
vars == <<label, uart, loader>>

Enables == {"rx_data", "tx_empty", "rx_line"}
Dlab == lcr # "normal"

-----------------------------------------------------------------------------
(* The receive ring.                                                        *)
Slots == 0 .. Size - 1

\* Faulty variant: an index past the end goes back to 0, not modulo the size.
PlusUnwrapped(i, n) == IF i + n < Size THEN i + n ELSE 0

Plus(i, n) == (i + n) % Size

Room == Size - rx_count

\* fifo_push() for every byte of a chunk: what does not fit is dropped.
Fits(n) == IF n <= Room THEN n ELSE Room

Push(c) ==
  /\ rx_fifo' = [i \in Slots |->
       LET k == (i - rx_head + Size) % Size
       IN  IF k < Fits(Len(c)) THEN c[k + 1] ELSE rx_fifo[i]]
  /\ rx_head' = Plus(rx_head, Fits(Len(c)))
  /\ rx_count' = rx_count + Fits(Len(c))
  /\ oe' = (oe \/ Len(c) > Room)
  /\ UNCHANGED rx_tail

Pop ==
  IF rx_count = 0 THEN UNCHANGED ring
  ELSE /\ rx_tail' = Plus(rx_tail, 1)
       /\ rx_count' = rx_count - 1
       /\ UNCHANGED <<rx_fifo, rx_head>>

FifoReset == rx_head' = 0 /\ rx_tail' = 0 /\ rx_count' = 0 /\ UNCHANGED rx_fifo

-----------------------------------------------------------------------------
(* calypso_uart_update_irq(): the cause by priority, and the request.       *)
Cause ==
  IF "rx_line" \in ier /\ oe THEN "RX_LINE"
  ELSE IF "rx_data" \in ier /\ dr THEN "RX_DATA"
  ELSE IF "tx_empty" \in ier /\ thr_empty_pending THEN "TX_EMPTY"
  ELSE "NO_INT"

Wanted == Cause # "NO_INT" \/ (wakeup_pending /\ scr_wake)

UpdateIrq == iir' = Cause' /\ irq' = Wanted'

-----------------------------------------------------------------------------
(* The character device hands bytes over.                                   *)

\* calypso_uart_can_receive()
CanReceive == Room

\* Faulty variant: a wake-up is noted only for the first byte in the ring.
InjectFirstOnly(c) ==
  /\ Push(c)
  /\ dr' = TRUE
  /\ wakeup_pending' = (wakeup_pending \/ (scr_wake /\ ~dr))
  /\ UpdateIrq

\* calypso_uart_inject_raw() of at least one byte into a ring with room.
Inject(c) ==
  /\ Push(c)
  /\ dr' = TRUE
  /\ wakeup_pending' = (wakeup_pending \/ scr_wake)
  /\ UpdateIrq

\* The path of the IrDA port: no wake-up is noted.
InjectIrda(c) ==
  /\ Push(c)
  /\ dr' = TRUE
  /\ UNCHANGED wakeup_pending
  /\ UpdateIrq

Chunk == UNION {[1 .. n -> Byte] : n \in 1 .. MaxChunk}

\* calypso_uart_receive() of bytes the loader lets through.
Deliver(c) ==
  /\ Len(c) <= CanReceive
  /\ UNCHANGED <<label, ier, lcr, tx, scr_wake>>
  /\ activity' = (activity \/ scr_wake)
  /\ IF label = "irda" THEN InjectIrda(c) ELSE Inject(c)

Passthrough == label = "irda" \/ rom = "PASSTHROUGH"

\* The program at the other end talks to the firmware.
Receive ==
  /\ Passthrough /\ (label = "irda" \/ host = "app")
  /\ \E c \in Chunk : Deliver(c)
  /\ UNCHANGED loader

-----------------------------------------------------------------------------
(* The loader stub and the host program that downloads a firmware.  The     *)
(* stub treats a chunk byte by byte and touches no register, so its bytes   *)
(* are handed over one at a time.                                           *)
Opcode == [ident |-> "69", block |-> "77", check |-> "63", branch |-> "62"]
Data == [block |-> BlockBytes, check |-> 1, branch |-> BranchBytes]
DataState == [block |-> "BLOCK_DATA", check |-> "CHK_DATA", branch |-> "BR_DATA"]
Command == {"block", "check", "branch"}

Answer(a) == answers' = Append(answers, a)

\* Faulty variant: the check command does not return to the idle state.
EatCheckStays(b) ==
  \/ rom = "IDLE" /\ rom' = (IF b = "3c" THEN "AFTER_3C" ELSE "IDLE")
     /\ UNCHANGED <<needed, answers>>
  \/ rom = "AFTER_3C" /\ b = Opcode.ident
     /\ rom' = "IDLE" /\ Answer("ident") /\ UNCHANGED needed
  \/ rom = "AFTER_3C" /\ \E c \in Command :
       b = Opcode[c] /\ rom' = DataState[c] /\ needed' = Data[c] /\ UNCHANGED answers
  \/ rom = "AFTER_3C" /\ (\A c \in DOMAIN Opcode : b # Opcode[c])
     /\ rom' = "IDLE" /\ UNCHANGED <<needed, answers>>
  \/ \E c \in Command :
       /\ rom = DataState[c]
       /\ needed' = needed - 1
       /\ IF needed' = 0
          THEN /\ Answer(c)
               /\ rom' = IF c = "branch" THEN "PASSTHROUGH" ELSE IF c = "check" THEN rom ELSE "IDLE"
          ELSE UNCHANGED <<rom, answers>>

\* romload_stub_eat() outside of the passthrough state.
Eat(b) ==
  \/ rom = "IDLE" /\ rom' = (IF b = "3c" THEN "AFTER_3C" ELSE "IDLE")
     /\ UNCHANGED <<needed, answers>>
  \/ rom = "AFTER_3C" /\ b = Opcode.ident
     /\ rom' = "IDLE" /\ Answer("ident") /\ UNCHANGED needed
  \/ rom = "AFTER_3C" /\ \E c \in Command :
       b = Opcode[c] /\ rom' = DataState[c] /\ needed' = Data[c] /\ UNCHANGED answers
  \/ rom = "AFTER_3C" /\ (\A c \in DOMAIN Opcode : b # Opcode[c])
     /\ rom' = "IDLE" /\ UNCHANGED <<needed, answers>>
  \/ \E c \in Command :
       /\ rom = DataState[c]
       /\ needed' = needed - 1
       /\ IF needed' = 0
          THEN Answer(c) /\ rom' = (IF c = "branch" THEN "PASSTHROUGH" ELSE "IDLE")
          ELSE UNCHANGED <<rom, answers>>

CommandBytes(h) == IF h = "ident" THEN 2 ELSE IF h = "app" THEN 0 ELSE 2 + Data[h]

\* The next byte of the host's command: the mark, the opcode, then any data.
NextBytes ==
  IF left = CommandBytes(host) THEN {"3c"}
  ELSE IF left = CommandBytes(host) - 1 THEN {Opcode[host]}
  ELSE Byte

\* The host sends a byte of its command; a machine already in passthrough
\* hands it to the firmware.
HostSends ==
  /\ label = "modem" /\ left > 0 /\ CanReceive > 0
  /\ left' = left - 1
  /\ \E b \in NextBytes :
       IF rom = "PASSTHROUGH"
       THEN Deliver(<<b>>) /\ UNCHANGED <<rom, needed, answers>>
       ELSE Eat(b) /\ UNCHANGED <<label, uart>>
  /\ UNCHANGED <<host, restarts>>

After == [ident |-> "block", block |-> "check", check |-> "branch", branch |-> "app"]

\* The answer it waits for moves the host on; any other is dropped.
HostHears ==
  /\ left = 0 /\ answers # <<>>
  /\ answers' = Tail(answers)
  /\ IF host # "app" /\ Head(answers) = host
     THEN host' = After[host] /\ left' = CommandBytes(host')
     ELSE UNCHANGED <<host, left>>
  /\ UNCHANGED <<label, uart, rom, needed, restarts>>

\* Only the identification is repeated until it is answered.
HostRetries ==
  /\ label = "modem" /\ host = "ident" /\ left = 0 /\ answers = <<>>
  /\ left' = CommandBytes(host)
  /\ UNCHANGED <<label, uart, rom, needed, host, answers, restarts>>

\* The host program is stopped anywhere and started again.
HostRestarts ==
  /\ label = "modem" /\ restarts < MaxRestarts
  /\ restarts' = restarts + 1
  /\ host' = "ident" /\ left' = CommandBytes("ident") /\ answers' = <<>>
  /\ UNCHANGED <<label, uart, rom, needed>>

-----------------------------------------------------------------------------
(* The firmware, one action per register access that changes state.         *)

\* calypso_uart_read(), REG_RBR_THR.
ReadRbr ==
  /\ ~Dlab
  /\ Pop
  /\ dr' = (rx_count' > 0)
  /\ UNCHANGED <<label, oe, ier, lcr, tx, wake, loader>>
  /\ UpdateIrq

\* REG_IIR_FCR: the second report of an empty transmitter takes it back.
ReadIir ==
  /\ lcr # "bf" /\ iir = "TX_EMPTY"
  /\ UNCHANGED <<label, ring, dr, oe, ier, lcr, wake, loader>>
  /\ IF tx_empty_reads + 1 >= 2
     THEN thr_empty_pending' = FALSE /\ tx_empty_reads' = 0 /\ UpdateIrq
     ELSE tx_empty_reads' = tx_empty_reads + 1 /\ UNCHANGED <<thr_empty_pending, iir, irq>>

\* REG_LSR: reading clears the overrun bit, without calypso_uart_update_irq().
ReadLsr ==
  /\ lcr # "bf"
  /\ oe' = FALSE
  /\ UNCHANGED <<label, ring, dr, ier, iir, lcr, tx, wake, irq, loader>>

\* REG_RBR_THR: the character leaves at once.
WriteThr ==
  /\ ~Dlab
  /\ thr_empty_pending' = TRUE /\ tx_empty_reads' = 0
  /\ UNCHANGED <<label, ring, dr, oe, ier, lcr, wake, loader>>
  /\ UpdateIrq

\* Faulty variant: enabling does not look at what is already waiting.
WriteIerBlind(e) ==
  /\ ~Dlab
  /\ ier' = e
  /\ UNCHANGED <<label, ring, dr, oe, iir, irq, lcr, tx, wake, loader>>

\* REG_IER: enabling the transmit interrupt makes it pending.
WriteIer(e) ==
  /\ ~Dlab
  /\ ier' = e
  /\ thr_empty_pending' =
       (thr_empty_pending \/ ("tx_empty" \notin ier /\ "tx_empty" \in e))
  /\ UNCHANGED <<label, ring, dr, oe, lcr, tx_empty_reads, wake, loader>>
  /\ UpdateIrq

\* REG_IIR_FCR: the resets of the receiver and of the transmitter.
WriteFcr(rx, t) ==
  /\ lcr # "bf"
  /\ IF rx THEN FifoReset /\ dr' = FALSE ELSE UNCHANGED <<ring, dr>>
  /\ thr_empty_pending' = (thr_empty_pending /\ ~t)
  /\ UNCHANGED <<label, oe, ier, lcr, tx_empty_reads, wake, loader>>
  /\ UpdateIrq

WriteLcr(v) ==
  /\ lcr' = v
  /\ UNCHANGED <<label, ring, dr, oe, ier, iir, tx, wake, irq, loader>>

\* REG_SCR: clearing bit 4 disarms the wake-up.
WriteScr(b) ==
  /\ scr_wake' = b
  /\ wakeup_pending' = (wakeup_pending /\ b)
  /\ activity' = (activity /\ scr_wake /\ b)
  /\ UNCHANGED <<label, ring, dr, oe, ier, lcr, tx, loader>>
  /\ UpdateIrq

\* calypso_uart_kick_rx(), from the frame tick.
KickRx ==
  /\ rx_count > 0 /\ dr
  /\ UNCHANGED <<label, ring, dr, oe, ier, lcr, tx, wake, loader>>
  /\ UpdateIrq

\* calypso_uart_reset_state().  The loader, the wake-up and the report
\* counter keep their values; the interrupt controller, reset with the
\* machine, forgets the level.
Reset ==
  /\ FifoReset
  /\ dr' = FALSE /\ oe' = FALSE /\ ier' = {} /\ iir' = "NO_INT" /\ lcr' = "normal"
  /\ thr_empty_pending' = FALSE /\ scr_wake' = FALSE /\ irq' = FALSE /\ activity' = FALSE
  /\ UNCHANGED <<label, tx_empty_reads, wakeup_pending, loader>>

-----------------------------------------------------------------------------
\* romload starts idle, or in passthrough when the machine boots its flash.
Init ==
  /\ label \in {"modem", "irda"}
  /\ \E b \in Byte : rx_fifo = [i \in Slots |-> b]
  /\ rx_head = 0 /\ rx_tail = 0 /\ rx_count = 0
  /\ dr = FALSE /\ oe = FALSE /\ ier = {} /\ iir = "NO_INT" /\ lcr = "normal"
  /\ thr_empty_pending = FALSE /\ tx_empty_reads = 0
  /\ scr_wake = FALSE /\ wakeup_pending = FALSE /\ irq = FALSE /\ activity = FALSE
  /\ \/ label = "modem" /\ rom = "IDLE" /\ host = "ident" /\ left = 2
     \/ rom = "PASSTHROUGH" /\ host = "app" /\ left = 0
  /\ needed = 0 /\ answers = <<>> /\ restarts = 0

Firmware ==
  \/ ReadRbr \/ ReadIir \/ ReadLsr \/ WriteThr
  \/ \E e \in SUBSET Enables : WriteIer(e)
  \/ \E rx, t \in BOOLEAN : WriteFcr(rx, t)
  \/ \E v \in {"normal", "dlab", "bf"} : WriteLcr(v)
  \/ \E b \in BOOLEAN : WriteScr(b)

Host == HostSends \/ HostHears \/ HostRetries \/ HostRestarts

Next == Receive \/ Firmware \/ KickRx \/ Reset \/ Host

\* The host program keeps running; nothing is asked of the firmware.
Fairness ==
  /\ WF_vars(HostSends) /\ WF_vars(HostHears) /\ WF_vars(HostRetries)

Spec == Init /\ [][Next]_vars /\ Fairness

-----------------------------------------------------------------------------
RomStates == {"IDLE", "AFTER_3C", "BLOCK_DATA", "CHK_DATA", "BR_DATA", "PASSTHROUGH"}

\* Types of the state of a UART, of the loader and of the host.
TypeOK ==
  /\ label \in {"modem", "irda"}
  /\ rx_fifo \in [Slots -> Byte \cup {"3c", "69", "77", "63", "62"}]
  /\ rx_head \in Slots /\ rx_tail \in Slots /\ rx_count \in 0 .. Size
  /\ dr \in BOOLEAN /\ oe \in BOOLEAN /\ ier \subseteq Enables
  /\ iir \in {"RX_LINE", "RX_DATA", "TX_EMPTY", "NO_INT"}
  /\ lcr \in {"normal", "dlab", "bf"}
  /\ thr_empty_pending \in BOOLEAN /\ tx_empty_reads \in 0 .. 1
  /\ scr_wake \in BOOLEAN /\ wakeup_pending \in BOOLEAN
  /\ irq \in BOOLEAN /\ activity \in BOOLEAN
  /\ rom \in RomStates /\ needed \in Nat
  /\ host \in {"ident", "block", "check", "branch", "app"} /\ left \in Nat
  /\ answers \in Seq({"ident", "block", "check", "branch"})
  /\ restarts \in 0 .. MaxRestarts

\* The ring read from its tail: what the firmware has not taken yet.
Contents == [k \in 1 .. rx_count |-> rx_fifo[Plus(rx_tail, k - 1)]]

\* The receive ring is a queue: whatever the order of arrivals, reads and
\* receiver resets, and wherever the indices wrap, the firmware takes the
\* bytes in the order the character device gave them.
Queue == INSTANCE ByteQueue
  WITH queue <- Contents, Capacity <- Size, Byte <- Byte \cup {"3c", "69", "77", "63", "62"}
ImplementsQueue == Queue!QueueSpec

\* The flow control of can_receive() is enough: a byte is never dropped and
\* LSR_OE never set, so the read of LSR that clears it without a new look at
\* the request changes nothing.
NoOverrun == ~oe

\* No access, in any order, leaves the interrupt line or IIR behind the
\* registers: the line is up exactly when an enabled cause or a wake-up asks
\* for it, and a ready byte is announced exactly when there is one.
RequestIsCurrent == irq = Wanted /\ iir = Cause /\ dr = (rx_count > 0)

\* On the modem port a byte that comes in after the firmware armed SCR[4]
\* keeps the interrupt up until it is disarmed, with reception disabled too.
WakeUpIsKept == (label = "modem" /\ scr_wake /\ activity) => irq

\* Between two answers the loader stands exactly where the host is in its
\* command, wherever an earlier host was stopped; the firmware hears the
\* host only behind the branch.
LoaderInStep ==
  label = "modem" =>
    /\ host \in Command =>
         \/ left = CommandBytes(host) /\ rom = "IDLE"
         \/ left = CommandBytes(host) - 1 /\ rom = "AFTER_3C"
         \/ left \in 1 .. Data[host] /\ rom = DataState[host] /\ needed = left
         \/ left = 0 /\ rom = (IF host = "branch" THEN "PASSTHROUGH" ELSE "IDLE")
    /\ host = "app" => rom = "PASSTHROUGH"

\* The loader no longer knows the identification: it is in the address of a
\* branch command, or in passthrough.
PastIdentification == rom \in {"BR_DATA", "PASSTHROUGH"}

\* A download never hangs: the host leaves each stage, also when an earlier
\* host was stopped in any other command and the loader takes the first
\* bytes of the identification for its data.  Excepted is a host that finds
\* the loader past the identification: stopped in a branch command, the
\* earlier one has left it counting address bytes, which the identification
\* supplies, and behind the branch nothing but the firmware can answer.
DownloadAdvances ==
  \A h \in {"ident", "block", "check", "branch"} :
    (label = "modem" /\ host = h /\ ~ (h = "ident" /\ PastIdentification)) ~> host # h
=============================================================================
