-------------------------------- MODULE Tpu ---------------------------------
(***************************************************************************)
(* The time processing unit and the RF chain behind it: the sequencer that  *)
(* runs the firmware's scenarios (calypso_tpu.c), the serial port its MOVEs *)
(* drive (calypso_tsp.c), the synthesizer registers (calypso_trf6151.c) and *)
(* the ring through which the air model learns the frequency in use.        *)
(*                                                                         *)
(* seq_run() is a loop that nothing interrupts: here one action per turn,   *)
(* with `busy' keeping everybody else out.  Frames are counted from the one *)
(* the scenario was started in.  The gain register is left out.             *)
(***************************************************************************)
EXTENDS Integers, Sequences

CONSTANTS
  Q,           \* QBITS_PER_TDMA
  Scenarios,   \* set of records [prog, asked]: instructions, channel tuned to
  MaxFrames    \* bound: frames counted since the start of a scenario

Bytes == {"tx1", "tx2", "tx3", "tx4"}
Moves == Bytes \cup {"ctrl1", "ctrl2"}
Byte == 0 .. 255
Insns == [op : {"zero", "at", "wait", "other"} \cup Moves, arg : Nat]

\* The TPU counts the quarter bits of a frame from 0 to Q - 1: a firmware gives AT
\* no other.  A MOVE has 8 bits of data.
Encodable(p) ==
  /\ p \in Seq(Insns)
  /\ \A i \in 1 .. Len(p) : (p[i].op = "at" => p[i].arg < Q) /\ (p[i].op \in Moves => p[i].arg \in Byte)

ASSUME TpuAssumption ==
  /\ Q \in Nat \ {0} /\ MaxFrames \in Nat
  /\ \A s \in Scenarios : Encodable(s.prog)

VARIABLES
  prog, cursor, qbit, wait_frames, active,   \* seq
  busy,                                      \* seq_run() is running
  tx, ctrl1,                                 \* tsp
  pll, pwr,                                  \* g_reg_pll, g_reg_pwr
  air,                                       \* newest ring entry
  frame,                                     \* s->fn since the start
  irq,                                       \* the frame interrupt is for the firmware to serve
  asked, skipped                             \* history: channel of the scenario; fn has jumped

seq == <<prog, cursor, qbit, wait_frames, active, busy>>
rf == <<tx, ctrl1, pll, pwr, air>>
benchSide == <<frame, irq, asked, skipped>>
tpuVars == <<seq, rf, benchSide>>

-----------------------------------------------------------------------------
(* calypso_trf6151.c                                                        *)
Freq10(p, w) ==
  LET n == (((p \div 512) % 128) + 64) * 64 + ((p \div 8) % 64)
  IN  IF (w \div 64) % 4 = 2 THEN 2 * n ELSE n

\* Faulty variant: the extended band starts one channel late.
ArfcnNoEgsmEdge(p, w) ==
  LET f == Freq10(p, w)
  IN  IF p = 0 THEN -1
      ELSE IF 9350 <= f /\ f <= 9598 THEN (f - 9350) \div 2
      ELSE IF 9253 <= f /\ f <= 9349 THEN 1024 - (9350 - f) \div 2
      ELSE IF 18052 <= f /\ f <= 18798 THEN 512 + (f - 18052) \div 2
      ELSE IF 19302 <= f /\ f <= 19898 THEN 512 + (f - 19302) \div 2
      ELSE -1

\* calypso_trf6151_arfcn(): the downlink channel of the registers.
Arfcn(p, w) ==
  LET f == Freq10(p, w)
  IN  IF p = 0 THEN -1
      ELSE IF 9350 <= f /\ f <= 9598 THEN (f - 9350) \div 2
      ELSE IF 9252 <= f /\ f <= 9349 THEN 1024 - (9350 - f) \div 2
      ELSE IF 18052 <= f /\ f <= 18798 THEN 512 + (f - 18052) \div 2
      ELSE IF 19302 <= f /\ f <= 19898 THEN 512 + (f - 19302) \div 2
      ELSE -1

\* calypso_trf6151_rf_flags(): the uplink channel, -1 without bit 13.
Uplink(p, w) ==
  LET f == Freq10(p, w)
  IN  IF p = 0 THEN -1
      ELSE IF 8902 <= f /\ f <= 9148 THEN (f - 8900) \div 2
      ELSE IF 8802 <= f /\ f <= 8899 THEN 1024 - (8900 - f) \div 2
      ELSE IF 17102 <= f /\ f <= 17848 THEN 512 + (f - 17102) \div 2
      ELSE -1

-----------------------------------------------------------------------------
(* calypso_tsp.c: a MOVE to the serial port.                                *)
Dout ==
  LET len == ctrl1 % 32
      two == tx["tx1"] * 256 + tx["tx2"]
      three == two * 256 + tx["tx3"]
  IN  IF len < 8 THEN tx["tx1"]
      ELSE IF len < 16 THEN two
      ELSE IF len < 24 THEN three
      ELSE three * 256 + tx["tx4"]

\* The synthesizer's registers have 16 bits.
Word16 == {v \in Nat : v < 65536}
Low16(v) == v % 65536

\* calypso_trf6151_tsp_write() and rf_arfcn_publier().
WriteTrf ==
  LET reg == Dout % 8
      hit == ctrl1 \div 32 \in {1, 2} /\ reg \in {0, 1, 2}
  IN  /\ pll' = IF hit /\ reg = 1 THEN Low16(Dout) ELSE pll
      /\ pwr' = IF hit /\ reg = 2 THEN Low16(Dout) ELSE pwr
      /\ air' = IF hit THEN [frame |-> frame, qbit |-> qbit, at |-> cursor,
                             arfcn |-> Arfcn(pll', pwr'), ul |-> Uplink(pll', pwr')]
                ELSE air
      /\ UNCHANGED <<tx, ctrl1>>

\* TPUI_CTRL2_WR
Transfers(i) == i.op = "ctrl2" /\ (i.arg \div 2) % 2 = 1

TspMove(i) ==
  \/ i.op \in Bytes /\ tx' = [tx EXCEPT ![i.op] = i.arg] /\ UNCHANGED <<ctrl1, pll, pwr, air>>
  \/ i.op = "ctrl1" /\ ctrl1' = i.arg /\ UNCHANGED <<tx, pll, pwr, air>>
  \/ Transfers(i) /\ WriteTrf
  \/ i.op = "ctrl2" /\ ~ Transfers(i) /\ UNCHANGED rf

-----------------------------------------------------------------------------
(* seq_run(), one instruction at a time.                                    *)
More == busy /\ cursor <= Len(prog)
Insn == prog[cursor]
Step == cursor' = cursor + 1 /\ UNCHANGED <<prog, active, busy>>
Pause == cursor' = cursor + 1 /\ busy' = FALSE /\ UNCHANGED <<prog, active>>

\* A word of zeros: with another one after it, and not first, the end.
EndAt(p, k) == k > 1 /\ p[k].op = "zero" /\ (k = Len(p) \/ p[k + 1].op = "zero")

ExecZero ==
  /\ More /\ Insn.op = "zero"
  /\ IF EndAt(prog, cursor)
     THEN active' = FALSE /\ busy' = FALSE /\ UNCHANGED <<prog, cursor>>
     ELSE Step
  /\ UNCHANGED <<qbit, wait_frames, rf, benchSide>>

\* AT: later in this frame, or in the next.
ExecAt ==
  /\ More /\ Insn.op = "at"
  /\ qbit' = Insn.arg
  /\ IF Insn.arg > qbit THEN Step /\ UNCHANGED wait_frames
     ELSE Pause /\ wait_frames' = 1
  /\ UNCHANGED <<rf, benchSide>>

\* Faulty variant: a wait never lasts more than a frame.
ExecWaitOne ==
  /\ More /\ Insn.op = "wait"
  /\ LET target == qbit + Insn.arg
     IN  IF target < Q THEN qbit' = target /\ Step /\ UNCHANGED wait_frames
         ELSE qbit' = target % Q /\ wait_frames' = 1 /\ Pause
  /\ UNCHANGED <<rf, benchSide>>

ExecWait ==
  /\ More /\ Insn.op = "wait"
  /\ LET target == qbit + Insn.arg
     IN  IF target < Q THEN qbit' = target /\ Step /\ UNCHANGED wait_frames
         ELSE qbit' = target % Q /\ wait_frames' = target \div Q /\ Pause
  /\ UNCHANGED <<rf, benchSide>>

ExecMove ==
  /\ More /\ Insn.op \in Moves
  /\ TspMove(Insn)
  /\ Step
  /\ UNCHANGED <<qbit, wait_frames, benchSide>>

\* SYNCHRO and OFFSET only set registers of the TPU; other addresses nothing.
ExecOther ==
  /\ More /\ Insn.op = "other"
  /\ Step
  /\ UNCHANGED <<qbit, wait_frames, rf, benchSide>>

RunsOff ==
  /\ busy /\ cursor > Len(prog)
  /\ active' = FALSE /\ busy' = FALSE
  /\ UNCHANGED <<prog, cursor, qbit, wait_frames, rf, benchSide>>

-----------------------------------------------------------------------------
\* tpu_write(TPU_CTRL_EN), tpu_done(), calypso_tpu_run_scenario(): the firmware
\* enables the TPU in its frame interrupt.
RunScenario(s) ==
  /\ ~busy /\ irq
  /\ prog' = s.prog /\ cursor' = 1 /\ qbit' = 0 /\ wait_frames' = 0
  /\ active' = TRUE /\ busy' = TRUE
  /\ frame' = 0 /\ irq' = FALSE /\ asked' = s.asked /\ skipped' = FALSE
  /\ UNCHANGED rf

\* Faulty variant: the scenario resumes in the frame after its wait is over.
SequencerTickLate ==
  IF ~active THEN UNCHANGED <<wait_frames, busy>>
  ELSE IF wait_frames > 0 THEN wait_frames' = wait_frames - 1 /\ UNCHANGED busy
  ELSE busy' = TRUE /\ UNCHANGED wait_frames

\* calypso_tpu_sequencer_tick()
SequencerTick ==
  IF ~active \/ wait_frames <= 0 THEN UNCHANGED <<wait_frames, busy>>
  ELSE wait_frames' = wait_frames - 1 /\ busy' = (wait_frames = 1)

\* tdma_tick(): the frame number advances (with the wall clock it may jump),
\* the sequencer runs, the firmware is interrupted.
TdmaTick(jump) ==
  /\ ~busy /\ frame + jump <= MaxFrames
  /\ frame' = IF active THEN frame + jump ELSE 0
  /\ skipped' = (skipped \/ (active /\ jump > 1))
  /\ SequencerTick
  /\ irq' = TRUE
  /\ UNCHANGED <<prog, cursor, qbit, active, rf, asked>>

-----------------------------------------------------------------------------
NoChannel == [arfcn |-> -1, ul |-> -1]
NoEntry == [frame |-> 0, qbit |-> 0, at |-> 0, arfcn |-> -1, ul |-> -1]

TpuInit ==
  /\ prog = <<>> /\ cursor = 1 /\ qbit = 0 /\ wait_frames = 0
  /\ active = FALSE /\ busy = FALSE
  /\ tx = [b \in Bytes |-> 0] /\ ctrl1 = 0
  /\ pll = 0 /\ pwr = 0 /\ air = NoEntry
  /\ frame = 0 /\ irq = FALSE /\ asked = NoChannel /\ skipped = FALSE

SeqRun == ExecZero \/ ExecAt \/ ExecWait \/ ExecMove \/ ExecOther \/ RunsOff

TpuNext ==
  \/ SeqRun
  \/ \E s \in Scenarios : RunScenario(s)
  \/ \E jump \in {1, 2} : TdmaTick(jump)

-----------------------------------------------------------------------------
(* Properties.                                                              *)
TpuTypeOK ==
  /\ cursor \in 1 .. Len(prog) + 1 /\ qbit \in 0 .. Q - 1 /\ wait_frames \in Nat
  /\ {active, busy, irq, skipped} \subseteq BOOLEAN
  /\ (busy \/ wait_frames > 0) => active
  /\ active => busy # (wait_frames > 0)
  /\ {pll, pwr} \subseteq Word16 /\ frame \in 0 .. MaxFrames
  /\ tx \in [Bytes -> Byte] /\ ctrl1 \in Byte

\* When the hardware would be done with an instruction it came to at t.
DueAfter(t, insn) ==
  CASE insn.op = "wait" -> t + insn.arg
    [] insn.op = "at"   -> (t \div Q) * Q + insn.arg + (IF insn.arg > t % Q THEN 0 ELSE Q)
    [] OTHER -> t

\* When the hardware would run each instruction of a scenario, in quarter bits
\* from the start of the frame it was enabled in.
Due(p) ==
  LET due[i \in 1 .. Len(p) + 1] == IF i = 1 THEN 0 ELSE DueAfter(due[i - 1], p[i - 1])
  IN  due

\* The air model is told of a synthesizer programming at the frame and quarter
\* bit at which the hardware would have executed the MOVE, over all the waits
\* before it; not so once the frame number has jumped.
MovesOnTime ==
  [][~skipped => frame * Q + qbit = Due(prog)[cursor]]_air

\* A new scenario cuts the one before it only if the rest of that one is due in
\* a later frame: what is due in a frame has run before the firmware gets the
\* frame interrupt in which it enables the next scenario.
NothingDueIsCut ==
  [][active /\ ~skipped => Due(prog)[cursor] >= (frame + 1) * Q]_<<prog, asked>>

-----------------------------------------------------------------------------
(* The driver of the firmware (external): the registers of a channel, and a  *)
(* scenario that tunes to it.                                               *)

\* A channel is the downlink or the uplink of a number of GSM 900 and E-GSM, or of
\* DCS 1800; for the uplink of number 0 see UplinkIsMarked.
Down(n) == [arfcn |-> n, ul |-> -1]
Up(n) == [arfcn |-> -1, ul |-> n]
Number(c) == IF c.ul = -1 THEN c.arfcn ELSE c.ul
Dcs(n) == 512 <= n /\ n <= 885
Extended(n) == 975 <= n /\ n <= 1023
IsChannel(c) ==
  LET n == Number(c)
  IN  /\ n \in Nat /\ (n <= 124 \/ Extended(n) \/ Dcs(n))
      /\ c = Down(n) \/ (c = Up(n) /\ n # 0)

\* The frequency in 100 kHz, or in 200 kHz for DCS, and the PLL word that sets it;
\* the band word has 2 in bits 6 and 7 for DCS.
Divider(c) ==
  LET n == Number(c)
      down == c.ul = -1
      base == IF down THEN 9350 ELSE 8900
  IN  IF Dcs(n) THEN (IF down THEN 9026 ELSE 8551) + (n - 512)
      ELSE IF Extended(n) THEN base - 2 * (1024 - n)
      ELSE base + 2 * n
PllWord(d) == (d \div 64 - 64) * 512 + (d % 64) * 8 + 1
HighBand(w) == (w \div 64) % 4 = 2

\* seq_run() comes to position k of p and past it.
Reached(p, k) == \A i \in 1 .. k : ~ EndAt(p, i)

\* The MOVE at position k starts a transfer to the device chosen just before it;
\* the four MOVEs up to k send a word to the synthesizer.
Starts(p, k) == k > 1 /\ Transfers(p[k]) /\ p[k - 1].op = "ctrl1"
ToTrf(p, k) == Starts(p, k) /\ p[k - 1].arg \div 32 \in {1, 2}
Sends(p, k) ==
  /\ ToTrf(p, k) /\ k > 3 /\ p[k - 2].op = "tx2" /\ p[k - 3].op = "tx1"
  /\ p[k - 1].arg % 32 >= 8 /\ p[k - 1].arg % 32 < 16
Word(p, k) == p[k - 3].arg * 256 + p[k - 2].arg

\* The scenario comes to a MOVE that sets the band (at b) and to one that sets the
\* PLL (at d) and sends no other words to these two registers; it may write
\* others, and to other devices.
TunesAt(p, c, b, d) ==
  /\ Reached(p, b) /\ Sends(p, b) /\ Word(p, b) % 8 = 2
  /\ HighBand(Word(p, b)) <=> Dcs(Number(c))
  /\ Reached(p, d) /\ Sends(p, d) /\ Word(p, d) = PllWord(Divider(c))
  /\ \A k \in 1 .. Len(p) :
       Transfers(p[k]) /\ Reached(p, k) =>
         /\ Starts(p, k)
         /\ ToTrf(p, k) =>
              Sends(p, k) /\ (Word(p, k) % 8 \in {1, 2} => Word(p, k) \in {Word(p, b), Word(p, d)})
Tunes(s) ==
  IsChannel(s.asked) /\ \E b, d \in 1 .. Len(s.prog) : TunesAt(s.prog, s.asked, b, d)

\* After a scenario the air model knows the channel the firmware has tuned to,
\* whatever it was tuned to before and whatever words of older scenarios follow
\* in the TPU's memory.  (For the uplink of ARFCN 0 see UplinkIsMarked.)
TunedAsAsked ==
  ~active /\ asked # NoChannel /\ asked.ul # 0 =>
    [arfcn |-> air.arfcn, ul |-> air.ul] = asked

\* Every frequency of the uplink bands is marked as one: "bit 13: frequency in
\* an UPLINK band (GSM900/E-GSM 880-915 MHz, DCS 1710-1785 MHz), matching ARFCN in
\* bits 0..10" (calypso_trf6151.c).
UplinkIsMarked == ~active /\ asked.ul # -1 => air.ul = asked.ul
=============================================================================
