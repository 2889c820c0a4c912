-------------------------------- MODULE Sim ---------------------------------
(***************************************************************************)
(* The SIM interface and the card behind it,                               *)
(* hw/arm/calypso/calypso_sim.c, with the driver of the firmware as the     *)
(* terminal: power up and ATR, the command bytes one at a time, the         *)
(* procedure byte, the answer deferred by its transmission time, the        *)
(* interrupts, the resynchronisation after a silence, the file contents.    *)
(*                                                                         *)
(* The terminal is known from the comments of the source: it sends the next *)
(* byte on IT TX, waits for the procedure byte (ACK) before the data of an  *)
(* outgoing command, gives up a command after at least 0.7 s without an     *)
(* answer, and within a command leaves no gap of 500 ms.                    *)
(*                                                                         *)
(* An answer byte is a token tagged with the command it answers.  The four  *)
(* timers of the code are flags: a flag is up while the timer is armed.     *)
(* STATUS, VERIFY, the record commands and RUN GSM ALGORITHM follow the     *)
(* patterns of READ, UPDATE and SELECT and are not repeated.                *)
(***************************************************************************)
EXTENDS Integers, Sequences

CONSTANTS
  Header,   \* bytes of a command header: 5 in the code
  Data,     \* bytes of the data part of an outgoing command (P3)
  Values    \* contents of the transparent file

StatusWords == {"SW_9000", "SW_9F", "SW_6A82", "SW_9408", "SW_9400", "SW_6F00", "SW_6D00"}

\* The terminal tells a content from a status word by the length it asked for:
\* here they are different tokens.
ASSUME SimAssumption ==
  /\ Header \in Nat \ {0, 1} /\ Data \in Nat \ {0}
  /\ Values # {} /\ Values \cap StatusWords = {}

VARIABLES
  conf1,             \* bits set in CONF1
  powered, atr_manual_done,
  apdu, expected,    \* bytes of the command received so far; apdu_expected
  rx, pend,          \* receive FIFO; answer held back (pend)
  it, maskit, irq,
  selected, content, \* selected file, contents of the transparent one
  resp               \* answer waiting for GET RESPONSE, "none" when resp_len = 0

VARIABLES tx_due, resp_due, wt_due, atr_due   \* armed timers
VARIABLE silent      \* more than APDU_ABANDON_NS since the last byte sent

VARIABLES
  phase,             \* what the terminal is doing
  cmd,               \* its current command [id, kind, arg]
  sent,              \* bytes of it written to DTX
  may_send           \* IT TX seen since the last byte

VARIABLE driver      \* which firmware this is, fixed
VARIABLE cut         \* history: the last reset caught an answer or an ATR on its way

power == <<conf1, powered, atr_manual_done>>
timers == <<tx_due, resp_due, wt_due, atr_due>>
files == <<selected, content, resp>>
card == <<apdu, expected, files>>
fifo == <<rx, pend>>
ints == <<it, maskit, irq>>
terminal == <<driver, phase, cmd, sent, may_send>>
vars == <<power, timers, card, fifo, ints, silent, terminal, cut>>

Files == {"ef", "df"}             \* a transparent file, a directory
Kinds == {"select", "update", "read", "getresp", "other"}
Outgoing == {"select", "update"}  \* commands with data from the terminal
Reading == {"read", "getresp"}    \* commands answered with an ACK first

Args(k) == IF k = "select" THEN Files \cup {"absent"}
           ELSE IF k = "update" THEN Values ELSE {"none"}

Commands == UNION {[id : {0, 1}, kind : {k}, arg : Args(k)] : k \in Kinds}
Length(c) == IF c.kind \in Outgoing THEN Header + Data ELSE Header

Token(c, t) == [id |-> c.id, tok |-> t]
Atr == [id |-> 0, tok |-> "ATR"]

-----------------------------------------------------------------------------
(* Interrupts: refresh_it_rx(), update_irq().  IT TX and WT are latched, IT  *)
(* RX follows the FIFO.                                                     *)
Refreshed(i, f) == (i \ {"RX"}) \cup (IF f = <<>> THEN {} ELSE {"RX"})

\* Faulty variant: the line is only raised by the FIFO.
UpdateIrqRxOnly(i, f, mask) ==
  /\ it' = Refreshed(i, f)
  /\ irq' = ("RX" \in it' \ mask)

UpdateIrq(i, f, mask) ==
  /\ it' = Refreshed(i, f)
  /\ irq' = (it' \ mask # {})

-----------------------------------------------------------------------------
(* The card: dispatch_apdu() and the commands.  c is the command as the     *)
(* card decodes it from the bytes it has collected.                         *)
Answer(c) ==
  IF c.kind = "select"
  THEN <<Token(c, IF c.arg = "absent" THEN "SW_6A82" ELSE "SW_9F")>>
  ELSE IF c.kind = "update"
  THEN <<Token(c, IF selected = "ef" THEN "SW_9000" ELSE "SW_9408")>>
  ELSE IF c.kind = "read"
  THEN <<Token(c, "ACK")>> \o
       (IF selected = "ef" THEN <<Token(c, content), Token(c, "SW_9000")>>
        ELSE <<Token(c, "SW_9400")>>)
  ELSE IF c.kind = "getresp"
  THEN <<Token(c, "ACK")>> \o
       (IF resp = "none" THEN <<Token(c, "SW_6F00")>>
        ELSE <<Token(c, resp), Token(c, "SW_9000")>>)
  ELSE <<Token(c, "SW_6D00")>>

Dispatch(c) ==
  /\ selected' = IF c.kind = "select" /\ c.arg # "absent" THEN c.arg ELSE selected
  /\ content' = IF c.kind = "update" /\ selected = "ef" THEN c.arg ELSE content
  /\ resp' = IF c.kind = "select" /\ c.arg # "absent" THEN c.arg
             ELSE IF c.kind = "getresp" THEN "none" ELSE resp

\* The header bytes say which command this is, the data bytes carry the
\* argument: the second byte is INS, the last one stands for the data.
Decode(a) == [a[2] EXCEPT !.arg = a[Len(a)].arg]

-----------------------------------------------------------------------------
(* A byte written to DTX: apdu_tx_byte(), apdu_tx_byte_inner().             *)

\* Faulty variant: a silence does not start a new command.
CollectedAlways(b) == Append(apdu, b)

\* After a silence the byte opens a new command.
Collected(b) == IF silent THEN <<b>> ELSE Append(apdu, b)

ExpectedAfter(a) ==
  IF Len(a) = Header THEN (IF a[2].kind \in Outgoing THEN Header + Data ELSE Header)
  ELSE IF Len(a) = 1 THEN 0
  ELSE expected

\* The procedure byte that asks for the data of an outgoing command.
HeaderAck(a) ==
  IF Len(a) = Header /\ a[2].kind \in Outgoing THEN <<Token(a[2], "ACK")>> ELSE <<>>

\* Faulty variant: only a complete command arms the timer of the answer.
WriteDtxUnarmed(b) ==
  LET a == Collected(b)
  IN  /\ tx_due' = TRUE /\ silent' = FALSE
      /\ IF Len(a) = ExpectedAfter(a)
         THEN /\ Dispatch(Decode(a)) /\ apdu' = <<>> /\ expected' = 0
              /\ pend' = pend \o HeaderAck(a) \o Answer(Decode(a))
              /\ resp_due' = TRUE
         ELSE /\ apdu' = a /\ expected' = ExpectedAfter(a)
              /\ pend' = pend \o HeaderAck(a)
              /\ UNCHANGED <<files, resp_due>>
      /\ UNCHANGED <<rx, wt_due, atr_due, power, ints>>

WriteDtx(b) ==
  LET a == Collected(b)
  IN  /\ tx_due' = TRUE /\ silent' = FALSE
      /\ IF Len(a) = ExpectedAfter(a)
         THEN /\ Dispatch(Decode(a)) /\ apdu' = <<>> /\ expected' = 0
              /\ pend' = pend \o HeaderAck(a) \o Answer(Decode(a))
         ELSE /\ apdu' = a /\ expected' = ExpectedAfter(a)
              /\ pend' = pend \o HeaderAck(a)
              /\ UNCHANGED files
      /\ resp_due' = (resp_due \/ pend' # <<>>)
      /\ UNCHANGED <<rx, wt_due, atr_due, power, ints>>

-----------------------------------------------------------------------------
(* The timers.  A byte arms the timer of the answer for later than the one  *)
(* of IT TX, and arms it again while an answer is held back.                *)
TxFires ==
  /\ tx_due
  /\ tx_due' = FALSE
  /\ UpdateIrq(it \cup {"TX"}, rx, maskit)
  /\ UNCHANGED <<power, resp_due, wt_due, atr_due, card, fifo, maskit, silent, terminal, cut>>

RespFires ==
  /\ resp_due /\ ~tx_due
  /\ resp_due' = FALSE
  /\ rx' = rx \o pend /\ pend' = <<>>
  /\ UpdateIrq(it, rx', maskit)
  /\ UNCHANGED <<power, tx_due, wt_due, atr_due, card, maskit, silent, terminal, cut>>

\* Faulty variant: an answer on its way does not hold the waiting time back.
WtFiresEarly ==
  /\ wt_due /\ rx = <<>>
  /\ wt_due' = FALSE
  /\ UpdateIrq(it \cup {"WT"}, rx, maskit)
  /\ UNCHANGED <<power, tx_due, resp_due, atr_due, card, fifo, maskit, silent, terminal, cut>>

\* fire_wt(): nothing with bytes to read; armed again while the card talks.
WtFires ==
  /\ wt_due /\ (rx # <<>> \/ pend = <<>>)
  /\ wt_due' = FALSE
  /\ IF rx # <<>> THEN UNCHANGED <<it, irq>>
     ELSE UpdateIrq(it \cup {"WT"}, rx, maskit)
  /\ UNCHANGED <<power, tx_due, resp_due, atr_due, card, fifo, maskit, silent, terminal, cut>>

\* deliver_atr() on its timer
AtrFires ==
  /\ atr_due
  /\ atr_due' = FALSE
  /\ IF powered
     THEN rx' = Append(rx, Atr) /\ UpdateIrq(it, rx', maskit)
     ELSE UNCHANGED <<rx, it, irq>>
  /\ UNCHANGED <<power, tx_due, resp_due, wt_due, card, pend, maskit, silent, terminal, cut>>

\* 500 ms without a byte from the terminal: every timer has run out.
Silence ==
  /\ ~tx_due /\ ~resp_due /\ ~wt_due /\ ~atr_due /\ ~silent
  /\ silent' = TRUE
  /\ UNCHANGED <<power, timers, card, fifo, ints, terminal, cut>>

-----------------------------------------------------------------------------
(* The command register.  Start and stop leave the bytes collected and the  *)
(* FIFO alone; a reset leaves the answer held back and its timer.           *)
InFlight == pend # <<>> \/ atr_due

\* CARDRST or IFRST: the root directory is selected again.
CardReset ==
  /\ apdu' = <<>> /\ expected' = 0
  /\ resp' = "none" /\ selected' = "df" /\ UNCHANGED content
  /\ IF powered
     THEN rx' = <<Atr>> /\ UpdateIrq(it, rx', maskit)
     ELSE rx' = <<>> /\ UNCHANGED <<it, irq>>
  /\ cut' = InFlight
  /\ UNCHANGED <<power, timers, pend, maskit, silent>>

CmdStart ==
  /\ powered' = TRUE
  /\ rx' = Append(rx, Atr) /\ UpdateIrq(it, rx', maskit)
  /\ UNCHANGED <<conf1, atr_manual_done, timers, card, pend, maskit, silent, cut>>

CmdStop ==
  /\ powered' = FALSE
  /\ UNCHANGED <<conf1, atr_manual_done, timers, card, fifo, ints, silent, cut>>

\* Faulty variant: raising the reset line does not remember the ATR of the clock.
WriteConf1Twice(val) ==
  LET old == conf1
      on == powered \/ "SVCCLEV" \in val
      low == "SRSTLEV" \in old \ val
      rise == "BYPASS" \in val /\ on /\ {"SCLKEN", "SRSTLEV"} \cap (val \ old) # {}
  IN  /\ conf1' = val /\ powered' = on
      /\ IF low
         THEN /\ rx' = <<>> /\ apdu' = <<>> /\ expected' = 0
              /\ cut' = InFlight
         ELSE UNCHANGED <<rx, apdu, expected, cut>>
      /\ atr_due' = (atr_due \/ rise)
      /\ UNCHANGED <<atr_manual_done, files, pend, ints, tx_due, resp_due, wt_due, silent>>

\* CONF1, manual mode: the falling reset line empties the FIFO and allows a
\* new ATR, a rising clock or reset line schedules it once.
WriteConf1(val) ==
  LET old == conf1
      on == powered \/ "SVCCLEV" \in val
      low == "SRSTLEV" \in old \ val
      done == atr_manual_done /\ ~low
      rise == "BYPASS" \in val /\ on /\ ~done /\ {"SCLKEN", "SRSTLEV"} \cap (val \ old) # {}
  IN  /\ conf1' = val /\ powered' = on
      /\ IF low
         THEN /\ rx' = <<>> /\ apdu' = <<>> /\ expected' = 0
              /\ cut' = InFlight
         ELSE UNCHANGED <<rx, apdu, expected, cut>>
      /\ atr_due' = (atr_due \/ rise)
      /\ atr_manual_done' = ((done \/ rise) /\ "SVCCLEV" \notin old \ val)
      /\ UNCHANGED <<files, pend, ints, tx_due, resp_due, wt_due, silent>>

\* MASKIT: unmasking WT with nothing to read starts the waiting time.
WriteMaskit(m) ==
  /\ maskit' = m
  /\ UpdateIrq(it, rx, m)
  /\ wt_due' = (wt_due \/ ("WT" \notin m /\ "WT" \notin it' /\ rx = <<>>))
  /\ UNCHANGED <<power, tx_due, resp_due, atr_due, card, fifo, silent, cut>>

\* SIM_IT: reading acknowledges what is latched.
ReadIt ==
  /\ UpdateIrq(it \ {"TX", "WT"}, rx, maskit)
  /\ UNCHANGED <<power, timers, card, fifo, maskit, silent, cut>>

\* DRX
ReadDrx ==
  /\ rx # <<>>
  /\ rx' = Tail(rx)
  /\ UpdateIrq(it, rx', maskit)
  /\ UNCHANGED <<power, timers, card, pend, maskit, silent, cut>>

-----------------------------------------------------------------------------
(* The terminal.  Two firmwares: osmocom writes START and then CARDRST; TI  *)
(* works in manual mode, STOP and IFRST, then CONF1 step by step.           *)
Quiet == UNCHANGED <<driver, cmd, sent, may_send>>

OsmocomStart == driver = "osmocom" /\ phase = "off" /\ CmdStart /\ phase' = "started" /\ Quiet
OsmocomReset ==
  /\ phase \in {"started", "atr", "idle", "send", "ack", "answer"}
  /\ driver = "osmocom"
  /\ CardReset /\ phase' = "atr" /\ Quiet

TiStop == driver = "ti" /\ phase = "off" /\ CmdStop /\ phase' = "stopped" /\ Quiet
TiReset == phase = "stopped" /\ CardReset /\ phase' = "manual" /\ Quiet
TiSupply ==
  /\ phase = "manual" /\ conf1 = {}
  /\ WriteConf1({"BYPASS", "SVCCLEV"}) /\ UNCHANGED phase /\ Quiet
TiClock ==
  /\ phase = "manual" /\ "SVCCLEV" \in conf1
  /\ WriteConf1(conf1 \cup {"SCLKEN"}) /\ phase' = "atr" /\ Quiet
TiRaise ==
  /\ phase \in {"atr", "idle"} /\ "SCLKEN" \in conf1 /\ "SRSTLEV" \notin conf1
  /\ WriteConf1(conf1 \cup {"SRSTLEV"}) /\ UNCHANGED phase /\ Quiet
\* SIM_WARMReset: the line stays low for 400 ETU, longer than an ATR takes.
TiWarmReset ==
  /\ phase \in {"atr", "idle", "send", "ack", "answer"} /\ "SRSTLEV" \in conf1
  /\ WriteConf1(conf1 \ {"SRSTLEV"}) /\ phase' = "low" /\ Quiet
TiWarmRaise ==
  /\ phase = "low" /\ ~atr_due /\ ~tx_due
  /\ WriteConf1(conf1 \cup {"SRSTLEV"}) /\ phase' = "atr" /\ Quiet

PowerOff ==
  /\ phase \in {"low", "atr", "idle", "send", "ack", "answer"}
  /\ IF driver = "osmocom" THEN CmdStop ELSE WriteConf1({})
  /\ phase' = "off" /\ Quiet

\* The interrupt handler: what is latched is read, then a byte if there is one.
SeeIt ==
  /\ irq
  /\ ReadIt
  /\ may_send' = (may_send \/ "TX" \in it)
  /\ UNCHANGED <<driver, phase, cmd, sent>>

Status(t) == t.tok \notin {"ATR", "ACK"} \cup Values \cup Files

\* Where a byte read takes the terminal.
AfterByte(t) ==
  IF phase = "atr" /\ t = Atr THEN "idle"
  ELSE IF phase = "ack" /\ t.tok = "ACK" THEN "send"
  ELSE IF phase = "answer" /\ Status(t) THEN "idle"
  ELSE phase

TakeByte ==
  /\ irq
  /\ ReadDrx
  /\ phase' = AfterByte(Head(rx))
  /\ Quiet

\* What a terminal makes of a stale answer is its own affair: behind a reset
\* that was cut the next command is one after a clean reset.
StartCommand ==
  /\ phase = "idle" /\ ~cut
  /\ cmd' \in {c \in Commands : c.id # cmd.id}
  /\ sent' = 0 /\ may_send' = TRUE /\ phase' = "send"
  /\ UNCHANGED <<driver, power, timers, card, fifo, ints, silent, cut>>

Byte(c, n) == [id |-> c.id, kind |-> c.kind, arg |-> c.arg, pos |-> n]

\* The next byte, on IT TX and within 500 ms of the one before.
SendByte ==
  /\ phase = "send" /\ may_send /\ (sent > 0 => ~silent)
  /\ WriteDtx(Byte(cmd, sent + 1))
  /\ sent' = sent + 1 /\ may_send' = FALSE
  /\ phase' = IF sent' = Length(cmd) THEN "answer"
              ELSE IF sent' = Header THEN "ack" ELSE "send"
  /\ UNCHANGED <<driver, cmd, cut>>

\* No answer in time: what the FIFO holds is thrown away, a command follows.
Abandon ==
  /\ silent /\ phase \in {"send", "ack", "answer"} /\ sent > 0
  /\ rx' = <<>> /\ UpdateIrq(it, rx', maskit)
  /\ phase' = "idle"
  /\ UNCHANGED <<power, timers, card, pend, maskit, silent, cut, driver, cmd, sent, may_send>>

\* WT is masked and unmasked; RX and TX stay unmasked.
Mask ==
  /\ phase # "off"
  /\ \E m \in {{}, {"WT"}} : m # maskit /\ WriteMaskit(m)
  /\ UNCHANGED terminal

-----------------------------------------------------------------------------
Init ==
  /\ conf1 = {} /\ powered = FALSE /\ atr_manual_done = FALSE
  /\ apdu = <<>> /\ expected = 0 /\ rx = <<>> /\ pend = <<>>
  /\ it = {} /\ maskit = {} /\ irq = FALSE
  /\ selected = "df" /\ content \in Values /\ resp = "none"
  /\ tx_due = FALSE /\ resp_due = FALSE /\ wt_due = FALSE /\ atr_due = FALSE
  /\ silent = TRUE
  /\ phase = "off" /\ cmd = [id |-> 0, kind |-> "other", arg |-> "none"]
  /\ sent = 0 /\ may_send = FALSE
  /\ driver \in {"osmocom", "ti"} /\ cut = FALSE

Timers == TxFires \/ RespFires \/ WtFires \/ AtrFires \/ Silence

Activation ==
  \/ OsmocomStart \/ OsmocomReset \/ TiStop \/ TiReset \/ TiSupply
  \/ TiClock \/ TiRaise \/ TiWarmReset \/ TiWarmRaise \/ PowerOff

Terminal == SeeIt \/ TakeByte \/ StartCommand \/ SendByte \/ Abandon \/ Mask

Next == Timers \/ Activation \/ Terminal

\* Armed timers expire.
Fairness == WF_vars(TxFires) /\ WF_vars(RespFires) /\ WF_vars(AtrFires)

Spec == Init /\ [][Next]_vars /\ Fairness

-----------------------------------------------------------------------------
Tokens == [id : {0, 1}, tok : {"ATR", "ACK"} \cup StatusWords \cup Values \cup Files]
Phases == {"off", "started", "stopped", "manual", "low", "atr", "idle", "send", "ack", "answer"}

\* Types of the interface, of the card and of the terminal.
TypeOK ==
  /\ conf1 \subseteq {"BYPASS", "SVCCLEV", "SCLKEN", "SRSTLEV"}
  /\ powered \in BOOLEAN /\ atr_manual_done \in BOOLEAN
  /\ Len(apdu) < Header + Data /\ expected \in {0, Header, Header + Data}
  /\ rx \in Seq(Tokens) /\ pend \in Seq(Tokens)
  /\ it \subseteq {"RX", "TX", "WT"} /\ maskit \subseteq {"WT"} /\ irq \in BOOLEAN
  /\ selected \in Files /\ content \in Values /\ resp \in Files \cup {"none"}
  /\ {tx_due, resp_due, wt_due, atr_due, silent, may_send, cut} \subseteq BOOLEAN
  /\ phase \in Phases /\ cmd \in Commands /\ sent \in 0 .. Header + Data
  /\ driver \in {"osmocom", "ti"}

\* The card and the terminal agree on where a command starts: the bytes
\* collected are those of the command being sent, after an abandoned command,
\* a reset or a power cycle in the middle of one too.
CommandsAligned ==
  (phase \in {"send", "ack"} /\ sent > 0) => apdu = [i \in 1 .. sent |-> Byte(cmd, i)]

Owed == rx \o pend

\* What the card has sent or holds back is what the terminal waits for: one
\* ATR after a reset, the ACK of the header, the rest of the answer to this
\* command up to its status, and nothing between commands.
ExactlyTheAnswer ==
  ~cut =>
    /\ phase = "atr" => IF atr_due THEN Owed = <<>> ELSE Owed = <<Atr>>
    /\ phase \in {"idle", "send"} => Owed = <<>> /\ ~atr_due
    /\ phase = "ack" => Owed = <<Token(cmd, "ACK")>>
    /\ phase = "answer" =>
         /\ Owed # <<>>
         /\ \A i \in 1 .. Len(Owed) :
              Owed[i].id = cmd.id /\ (Status(Owed[i]) <=> i = Len(Owed))

\* An interrupt is never lost: a byte in the FIFO, a byte sent or a waiting
\* time run out that is not masked keeps the line up until it is read.
NoLostInterrupt == (Refreshed(it, rx) \ maskit # {}) => irq

\* The waiting time never runs out on a card that owes an answer.
WtMeansNothingOwed ==
  [][(~cut /\ "WT" \in it' \ it) => phase \notin {"ack", "answer"}]_vars

\* The file takes only a value the terminal has sent whole, in an update.
UpdatesAreGenuine ==
  [][content' # content =>
       cmd.kind = "update" /\ content' = cmd.arg /\ sent' = Length(cmd)]_vars

\* The card answers: a terminal that waits gets a byte and its interrupt.
AnswerComes ==
  (~cut /\ phase \in {"atr", "ack", "answer"}) ~>
    ((rx # <<>> /\ irq) \/ phase \notin {"atr", "ack", "answer"} \/ cut)
=============================================================================
