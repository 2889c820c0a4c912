# A verification project for the Calypso machine

This directory holds TLA+ models of the Calypso GSM baseband machine of this
repository: a QEMU machine (`hw/arm/calypso/`) that runs unmodified phone
firmware on an emulated ARM7, next to a DSP that usually runs in another
process. The models are translated from the C code; `PROJECT.json` gives the
lines each definition stands for.

## 1. The system and its parts

| part | source | status |
|---|---|---|
| interrupt controller (INTH) | `hw/intc/calypso_inth.c` | modelled: `Inth`, `FrameLatch` |
| TDMA clock and bridge to the external DSP | `hw/arm/calypso/calypso_trx.c`, `calypso_dsp_pont.h` | partly: `Pont`, `FrameOrder` |
| request reference of the IMMEDIATE ASSIGNMENT | `calypso_trx.c` | modelled: `Rach` |
| dedicated channel tap | `calypso_dcch_tap.c` | partly: `DcchTap` |
| UART and ROM loader | `hw/char/calypso_uart.c` | modelled: `Uart`, `ByteQueue` |
| timers | `hw/timer/calypso_timer.c` | partly: `Timer` |
| TPU, TSP, radio synthesizer | `calypso_tpu.c`, `calypso_tsp.c`, `calypso_trf6151.c` | modelled but for the gain: `Tpu` |
| SIM interface and card | `calypso_sim.c` | partly: `Sim` |
| gr-gsm layer 1 and its tap | `l1-grgsm/` | partly: `L1Ccch`, `KcPublish`, `TchDownlink` |
| API RAM window and DSP boot loader | `calypso_trx.c` | partly, within `Pont` and `L1Ccch` |
| SoC control, GPIO and keypad, I2C, SPI, microwire | `calypso_soc.c`, `calypso_armio.c`, `hw/ssi/` ... | not modelled |
| C54x interpreter and its peripherals | `l1-dsp/` | not modelled |
| board, displays, COMP128, A5, GMSK, diagnostics, launcher, QEMU | | not modelled |

How they interact. The firmware programs the TPU, which starts the TDMA clock
(`tdma_tick()`, every 4.615 ms). With an external DSP each frame is an exchange
on a SEQPACKET socket: QEMU sends a `TICK`, the DSP plays its frame interrupt
and answers `DONE|PHASE_A`, QEMU raises the frame interrupt in the INTH, the
firmware runs `l1_sync()` and ends it with a write to IRQ_CTRL, QEMU counts that
end of service and sends `GO`, the DSP plays the burst and answers `DONE`.
Meanwhile the tap reads the firmware's serial output and learns the dedicated
channel (told to the DSP with `PONT_DCCH` before a `TICK`) and the frames in
which access bursts were sent (used when the firmware reads the assignment).

Without an external DSP the gr-gsm layer 1 takes its place: a receiver feeds it
decoded blocks over UDP, and at every frame tick it writes what the firmware's
tasks ask for into the mailbox. It tells the receiver, through files, which
dedicated channel to follow (its own tap on the serial output), and with which
cipher key; speech comes back through a ring in a file. Around both, the TPU
runs the firmware's scenarios and programs the synthesizer, and the timers, the
UART and the SIM interface interrupt the firmware on their own clocks.

## 2. Modules

**`Inth`** is the controller register by register. A register with one bit per
source is a set of sources; an ILR stays a number, because the code cuts it into
overlapping fields. Every path ends with the `Update` the code calls, except the
two that do not call it (`WriteIlr`, `ArmAck`). `Best` is the scan loop: least
field first, then first from `rr_start`. `ArmAck` belongs to the platform with
the C54x inside QEMU, its only caller, and is an action of `InthSpecDspAck` alone.

**`FrameLatch`** is what the controller promises the bridge about one source:
a latch, a mask bit, an edge bit, and whether the last number handed out was the
frame source. `Inth` is shown to implement it (`ImplementsFrameLatch`), and
`Pont` uses it in place of the controller.

**`Pont`** has three actors: the timers of QEMU's main loop (`TdmaTick`,
`BootTick`, `FrameIrqLower`), the firmware as far as it touches registers
(`ArmStep`), and the DSP process with the two directions of the socket
(`DspStep`). The timers and the register accesses run under QEMU's global lock,
so each is one step. `pont_boot_pas()` sleeps up to 20 ms inside a register
read while it holds that lock: `pas` blocks the others until `PasEnd`. The code
compares `eoi_cible` with `frame_eoi` only, so `eoi_due` is the difference.
The socket is reliable and ordered, so no message is lost or reordered;
what can happen is that the DSP answers late, stops waiting for a `GO`, ignores
what it does not expect, or dies. The firmware and `c54x_exe` are not in the
repository; their steps are marked external and follow the comments and the
header that define the protocol.

**`FrameOrder`** is the order within a frame that the header states: DSP
interrupt, `l1_sync`, burst. `Pont` implements it in two-phase lock-step.

**`DcchTap`** keeps the channel and frame number of a reported block and leaves
out the byte framing. The mobile changes channel at any time, and a common block
may be reported up to `MaxLate` frames after its own. Publishing may fail
(`open`) or fail halfway (`write` after truncation).

**`Rach`** keeps the circular queue with its wrapping indices, and the packing
of T1', T2 and T3 to the bit. `sent` and `mem` are the firmware's attempts and
the memory of the mobile. `Corrected` has both values of `MONTANT_REQREF`. The code
goes by the RA of the assignment, whichever attempt it answers: one that answers an
older attempt is rewritten too, and after a second attempt with the same RA it
carries the frame of the newer one.

**`Uart`** keeps the receive ring with its three indices, the interrupt
identification, the wake-up and the two ports (`label`), one action per register
access that changes more than the register. The ROM loader stub (`Eat`) is
driven byte by byte by a host program that downloads a firmware, may be stopped
anywhere and started again; in passthrough the bytes go to the ring in chunks of
at most what `can_receive()` announced. Data bytes include the mark of a command
and an opcode, so that a loader out of step is really misled. **`ByteQueue`** is
what the ring promises: a bounded queue.

**`Sim`** has the interface with its four timers as flags, the card behind it,
and the terminal as the comments of the source describe it, in two kinds
(osmocom: START and CARDRST; TI: manual activation through CONF1). An answer
byte is a token tagged with its command. The terminal gives commands up, resets
and switches off at any moment. `cut` marks a reset that caught an answer on its
way, which the code delivers after the ATR; the properties about answers are
claimed outside of that case.

**`L1Ccch`** is the layer 1 as writer of a_cd: the unconditional writer at the
start of the tick (`Presented`) and the task dispatcher (`Dispatch`, `Rest`), the
AGCH buffer, the SDCCH ring, the guard, and the tap that publishes the channel.
Publishing may fail, as in `DcchTap`; the tap does not notice, so the file may stay
behind until the channel changes (`unsaid` records that it does). Nothing removes
the file of an earlier machine, which may still name a channel at the start.
A time stamp is an age. The firmware may leave a message of the old channel in
its serial queue and send it after the reset (`SendLate`).
**`KcPublish`** reads a key that is being written word by word, holds cleartext
back, and meets a file that cannot be written. **`TchDownlink`** has a poll of two
reads with the writer running in between, lapping and restarting.

**`Tpu`** runs a scenario instruction by instruction (`busy` keeps everybody else
out, as the loop does), through the serial port to the synthesizer registers and
the ring entry the air model reads. The instructions carry real register words,
so the channel is decoded by the arithmetic of the code. The serial port shifts out
one to four bytes, to any device, when a `MOVE` to CTRL2 has the write bit. What
the firmware's driver sends to tune is external: `Tunes` says that a scenario
comes to a word for the band and one for the PLL of its channel and sends no
others to these two registers. It may write other registers and other devices, and
older words may follow its end.
**`Timer`** has the count computed from the clock on one side and the deadline of
the host timer on the other; the main loop may be late.

The `*Proofs` modules hold the proofs; the `MC*` modules hold the values of
constants that a `.cfg` cannot write. `MCTick` explores the five small parts that
share no state (`KcPublish`, `TchDownlink`, `Tpu`, `Timer`, `Rach`) in one run:
what feeds one of them is active while the others are fed nothing, so no state
of one is multiplied by the states of another. `MCBridge` does the same for the
bridge of `MCPont` and the interrupt controller. Definitions marked "Faulty
variant" are deliberate bugs; they are used by no specification and show that
the properties can fail.

## 3. Runs

| run | result | question |
|---|---|---|
| `pont` | pass | Do QEMU, firmware and DSP stay on one frame, in the order of the silicon, with both sides in time, with a two-phase and with a single-phase DSP? In the interrupt controller, do request line and vector follow the registers through every access, is a latched edge kept, is `FrameLatch` implemented? |
| `pont_faults` | pass | With a late or dead DSP, a firmware that never ends `l1_sync`, machine resets, and in pipeline mode: one frame at a time until the DSP is late, and do frame interrupts and DSP frames keep coming? |
| `pont_late` | violation | Is the next frame held back until the DSP is done, if its interrupt is late once? |
| `pont_lag` | violation | Is a lagging `l1_sync(N-1)` told from `l1_sync(N)` after a forced `GO`, with a DSP that never gives up waiting? |
| `dcch` | pass | Is no connection cut early, and do the file and the DSP agree on the channel? |
| `dcch_wrap` | violation | Is a release seen when the hyperframe ends in between? |
| `uart` | pass | Is no byte lost or reordered, does the interrupt follow the registers, is a wake-up kept, does a download get through the loader, also after an earlier host was stopped in the identification, a block or the checksum? |
| `rach_older` | violation | Is an assignment changed only when it answers the last attempt? |
| `sim` | pass | Do card and terminal agree on where a command starts and which answer belongs to it, through abandoned commands, resets and power cycles? Is no interrupt lost, does every answer come, does the waiting time never run out on a card that owes an answer? |
| `l1` | pass | Do layer 1, tap and, unless the write failed, the receiver's file agree on the dedicated channel? Are blocks presented in order, none silently lost? Is a system information never written on a guarded channel, and do they come back in idle mode? |
| `tick` | pass | Is cleartext announced only when confirmed, and the final key published? Is speech in order, and does the reader catch up? Are MOVEs on time, is nothing due cut, is the right channel tuned? Does the timer interrupt when its count wraps? Does every assignment for a confirmed RA carry the reference the mobile expects, and any other the one of the BTS? |
| `tpu_uplink` | violation | Is every uplink frequency marked as one? |

### Where code and comment disagree

* `pont_late`: the lock-step test accepts any `DONE`. When the frame interrupt
  of the DSP takes longer than the short wait, its `DONE|PHASE_A` is taken for
  the final `DONE` and the next `TICK` leaves too early.
* `pont_lag`: the target is realigned on a timeout while the late interrupt is
  still being served, and that end of service meets the target of a later frame.
  The DSP of this run waits for its `GO` for ever: with the 2 s it really waits, less
  than the 2.4 s of the bridge, it could also play the burst on its own, which is
  another matter (see below).
* `dcch_wrap`: the difference of two frame numbers underflows in 32 bits and
  2^32 is not a multiple of the hyperframe; after a wrap the release is missed
  for up to 91 minutes.
* `rach_older`: the reference is rewritten for every RA with a confirmed frame; the
  comment says only for the RA of the last `d_rach` write, as "forging a match would
  be worse than the failure". `AssignmentIsAccepted` states what the code does, that
  the mobile then accepts it; which of the two is wanted is for its authors to say.
* `tpu_uplink`: 890.0 MHz, the uplink of ARFCN 0, lies between the conditions of
  `calypso_trf6151_rf_flags()` and is not marked as uplink.

Two more were met in the code and have no run: the arbitration of the INTH
compares `ilr & 0x1F`, while PRIORITY is bits 2 to 6 (`calypso_inth.c:17`, `:174`);
each retry of the `CALYPSO_PONT_ARM_LOCK` wait counts twice, so it lasts about 48
times `PONT_ATTENTES_MAX` and not 64 (`calypso_trx.c:1136`, `:1153`, `:1158`).

### What other values of the constants show

These are not separate runs; each is a violation TLC reports when the bench of
run `pont` (or the run named) is changed as said and that property is checked.
They tell where a passing property ends.

* `"mask"` added to `env`: masking two frame interrupts breaks
  `EoiTargetReachable`, as raises merge in the one-bit latch.
* `deadline = 6`, above `patience`: `BurstAfterSync` fails, as the DSP stops
  waiting for a `GO` (2 s) before the bridge sends it.
* A late DSP (`late = 1`): `DcchIsHeard` fails.
* The controller alone with `InthSpecDspAck`: `RequestFollowsRegisters` fails.
* Run `tick`: frame 0 among `Frames` breaks `SamePairing`; `Bsic = 0` (with RA 0)
  breaks `AssignmentIsAccepted`; `MaxPending = 4`, above `QueueSize`, breaks
  `SamePairing`. These are the three conditions the theorems about `Rach` assume.
* Run `sim`: `ExactlyTheAnswer` without its condition `~cut` fails, as a reset
  leaves an answer held back, or an ATR that is due, with its timer.

### Bounds

* `pont`, controller: three sources, one of each kind the code tells apart (plain level,
  self-acknowledged frame source, UART whose ILR copies the frame source), in
  two register halves. `MaxEoi` caps a counter that is only incremented.
* `pont*`: a hyperframe of two or three frames makes `fn` wrap. A short wait of
  two retries, a long one of four and a lock wait of six or eight make every
  wait of `tdma_tick()` begin and end. `eoi_due = MaxDue` stands for that many or
  more, and `OneLess` keeps both outcomes. `MaxLink` bounds only what the
  firmware can cause again and again without an answer: a DSP reset, and a new
  dedicated channel. `ArmDeadline` and
  `GoPatience` are durations in retries; the value 99 means never.
* `dcch`: a hyperframe of 24 frames with a word of 38, so that the word modulo
  the hyperframe is more than half of it, as 2^32 modulo 2715648 is. A block is
  reported at most two frames late with a separation of three.
* `uart`: a ring of two bytes, chunks of two, commands with two data bytes; one
  restart of the host, which may find the loader in any of its states. A host stopped
  in the branch command or behind it leaves no loader to a new one, and
  `DownloadAdvances` excepts exactly that: the loader is then in the address of the
  branch or in passthrough while the new host identifies itself. Indices wrap after two bytes, and a chunk can fill the
  ring from empty.
* `sim`: a header of two bytes and one data byte, two contents, two command
  numbers in turn. Two bytes are enough to stop a command within its header,
  behind it and behind its data.
* `l1`: an SDCCH/8 and a TCH, positions of the multiframe in the AGCH window, in
  the last CCCH block and in the SACCH window, a ring of two, three blocks. Each
  limit is 1 or 2, and ages count one past it, so that it is passed and just not
  passed. Any write of the channel file may fail, at `open` or at `write`.
* `tick`: a ring of three slots written six times in each of two lives (lapped,
  and restarted below and above the number read last); a grace of three; frames
  of four quarter bits with waits of up to two frames; timer loads 0 and 2 with two
  prescalers and four register writes; a queue of three attempts with indices
  modulo six, two RAs, and frames with extreme T1', T2 and T3. Scenarios tune
  to the first and last channel of each band, in both directions; one has transfers
  of other lengths and to other devices in between. TLC evaluates that they tune
  as the theorem about them assumes (`ScenariosTune`).

### Fairness

* `pont_faults` uses `FairSpec`: weak fairness of QEMU's timers (they re-arm
  themselves), of the end of the 20 ms wait, and of a DSP that is alive. Nothing
  is asked of the firmware, which may stay in `l1_sync` for ever.
  `DspGoTimeout` is part of the fair DSP steps, as the header bounds that wait.
* `uart`: the host program goes on sending and reading; nothing is asked of the
  firmware.
* `sim`: an armed timer expires. Nothing is asked of the terminal.
* `l1`: the frame clock ticks, and a firmware in idle mode reads the CCCH again and again
  (strong fairness, as the firmware may be busy with a dedicated channel in between),
  at any position of the multiframe. Nothing is asked of the receiver, nor
  that a write of the file succeeds.
* `tick`: the frame clock ticks, the main loop serves its timers, a write to the
  key file does not fail for ever, and the writer of the speech ring is not
  stopped between a slot and the header (if it is, the reader waits for that
  frame until the writer is back).

Deadlock is checked in all runs.

## 4. Proofs

Checked by TLAPS for every value of the constants that satisfies the named
assumption of the module (`InthAssumption`, `PontAssumption`, ...).

**Interrupt controller** (`InthProofs`, any number of sources).
`TypeCorrectness`, `RequestIsFaithful`, `FiqIsNeverUsed`, `EdgeLatchHolds`,
`FrameLatchIsImplemented`. `RequestFollowsRegisters` is not inductive as it
stands: it needs that every ILR keeps bit 8 clear, which holds because a write
keeps seven bits (`IlrBitsAreSeven`, `SevenBitsAreNotFiq`). `BestIsActive`
shows that the scan finds a winner whenever a source is active; it picks the
least field and then the least rank with a well-founded order. Then every path
through `Update` re-establishes the invariant (`UpdateEstablishes`), and the two
paths without it do not touch what it speaks of, or keep it. The implementation
of `FrameLatch` also needs that an idle controller shows vector 0
(`IdleVectorInvariance`), which a read then hands out instead of the frame
source; that is why the assumption says source 0 is not the frame source.

**Bridge** (`PontProofs`, any hyperframe, limits, configurations and faults).
`OneFrameAtATime` (`OneFrameUntilLate`), `LockstepKeepsFrame`
(`Lockstep /\ late = 0 => SameFrame`) and `DcchReachesDsp`
(`late = 0 => DcchIsHeard`). None is inductive: what is in the two directions of
the socket has to be tied to the phase of the bridge and to the state of the
DSP. `PontInv` has two parts. `Outside` is about the state outside the links:
types, a DSP that is alive has its socket open, phase 1 exists only while the TDMA
runs, the 20 ms wait only before that and with an answer owed. `Flight`, claimed
while the DSP is alive and in time, puts the frame in flight in one of five stages
(nothing, TICK sent, in the DSP's interrupt, after it, answered), each of
which fixes the messages, `pont_pending`, `phase_a_recue` and the frame numbers.
Every action moves between stages or stays in one.

Three further results need more, and say so in their statements.

* `TargetIsReachable` (`Steady => EoiTargetReachable`): every end of service that
  phase B waits for can still come. `Steady` excludes a firmware that masks the frame
  interrupt and a machine reset; nothing is asked of the DSP, of the time
  `l1_sync` takes or of the configuration. `ServiceInv` is the argument: at most
  one end of service is missing, only in phase 1, and its interrupt is latched or
  being served. With the mask a forced `GO` can leave a count behind that no
  interrupt will pay; a reset clears the latch under the count.
* `PagesStayApart` and `BurstComesAfterSync` (`Prompt => PagesExclusive`,
  `Prompt => BurstAfterSync`), for any limits of the waits. `Prompt` is what the
  design of the two-phase tick takes for granted: lock-step with the ARM first,
  a DSP in time that waits for its `GO` longer than the short wait and than
  `l1_sync` takes, an `l1_sync` that ends within the long wait. `PromptInv` follows
  the frame interrupt through phase 1 (not raised, latched, served, over) and counts
  the retries, so that no wait runs out and no `GO` is forced (`NoWaitRunsOut`).
  The runs `pont_late` and `pont_lag` show what happens without it.
* `TwoPhaseTickIsInOrder` (`SiliconOrder`): with `Prompt` and a DSP that does not
  die, every step of the bridge, the firmware and the DSP is a step of `FrameOrder`
  or leaves its state alone, one lemma for each of the three
  (`TickKeepsOrder`, `FirmwareKeepsOrder`, `DspKeepsOrder`).

**Dedicated channel tap** (`ChannelProofs`, second part). `TypeCorrectness`, `ChannelIsShared`,
`NoEarlyRelease`. Whether a channel is passed on is decided by comparing with
`trx_chan_nr`, so the invariant adds that this is the channel told last. For
`NoEarlyRelease`, `DueInv` relates `fn` to the frame of the last dedicated block:
it is that frame plus the age of the channel, modulo the hyperframe. A block at
most `MaxLate` older than that has a difference of nearly a hyperframe, or, after
the 32-bit underflow, one that the test does not take for later either
(`EcartIs`, `NotLaterYet`); the separation has to be below half a hyperframe.

**Request reference** (`ChannelProofs`, first part). `RachTypeCorrectness`,
`PairingIsTheMobiles`, `LastConfirmedIsKnown`, `MobileAcceptsAssignment`, under
`Usable`: no more attempts wait than the queue holds, frame 0 does not occur, RA 0
does not occur in a cell of BSIC 0. `QueueInv` says the queue, read from its head,
is the sequence of attempts the mobile waits for; `PairInv` that memory and
pairing agree. The last theorem adds the arithmetic of packing and unpacking, and
that the reference is left alone for an RA without a confirmed attempt and with
`MONTANT_REQREF=0`.

**UART** (`UartProofs`, any ring and chunk size). `TypeCorrectness`,
`NothingIsDropped`, `RequestStaysCurrent`, `WakeUpStays`, `RingImplementsQueue`,
`LoaderStaysInStep`.
The invariant ties head to tail and fill (`rx_head = rx_tail + rx_count` modulo the
size). An arrival of a chunk is a step of `Arrive`: that `Fits` takes the whole
chunk follows from what `can_receive()` announced. `LoaderInStep` needs to know how
far the answers are: a host in a command gets its answer with its last byte and
nothing before, and a host that identifies itself hears one answer at a time, its
own or one for an earlier host.

**SIM interface** (`SimProofs`, any length of header and data, any contents).
`SimTypeCorrectness`, `InterruptsAreKept`, `CardStaysAligned`,
`AnswerIsTheOneAwaited`, `WaitingTimeIsTrue`, `FileTakesWholeUpdates`. Only
`NoLostInterrupt` is inductive by itself. The others rest on `SimInv`, which fixes
for each phase of the terminal what it has done to CONF1 and the supply (`Wiring`),
which timers can be armed (`Armed`), what the card has collected (`Collecting`) and
what is on its way (`OnTheWay`). `SimAssumption` says that a content is not taken
for a status word; a terminal tells them apart by the length it asked for.

**Layer 1** (`L1Proofs`). `ChannelStaysGuarded` is inductive with a type for the
guard (`GuardInv`), as whatever ends the guard releases the channel in the same step,
whether or not the file can be written;
`NeverSiWhileGuarded` follows from that and from what each writer asks before it
writes. `BlocksStayInOrder` holds for any size of the ring and any lifetime of a
block. `RingInv`: the ring holds the blocks with the highest numbers, without a gap,
so that what left it is a prefix of what was fed. The code drops expired blocks from
the head of the ring, up to the first live one (`Live`), so it drops a prefix too.
`L1TypeCorrectness` bounds the ring, the presentations of a block and the ages, and
shows that the windows are always those of an SDCCH, also after a message of a TCH.

**The smaller parts** (`TickProofs`), each a section.

* Key: `KcTypeCorrectness`, `ClearNeedsGrace`, from the invariant that
  `clear_pending` never exceeds the clear observations in a row.
* Speech ring: `TchTypeCorrectness`, `SpeechComesInOrder`, for any ring and queue.
  The order of what is heard needs the order of what is queued, and that the number
  read last dates every frame of the writer's present life (`TchInv`).
* Timer: `TimerTypeCorrectness`, `InterruptAtWrap`; the lemmas are about quotient and
  remainder by an arbitrary tick.

**TPU and synthesizer** (`TpuProofs`). `MovesAreOnTime` and `OnlyLaterWorkIsCut`, for
any set of scenarios and any length of a frame. `SequencerInv` says that the pause
of a scenario ends when its next instruction is due. `Due` is a recursive function
over the program; its unfolding is proved by a least counterexample among the
lengths. `TpuAssumption` keeps the argument of an `AT` inside a frame and that of a
`MOVE` in a byte (`Encodable`). `TpuTypeCorrectness` adds that no ended sequence waits.

`ChannelsAreKnown`: the registers of every channel of GSM 900, E-GSM and DCS 1800
decode to that channel, whatever the other bits of the band register.
`ScenariosAreHeard` (`TunedAsAsked`) is about any set of scenarios, any order and any
cut of them by the next one; its hypothesis is that each one that is asked about
tunes (`Tunes`), or is for the uplink of ARFCN 0. `TunedAsAsked` speaks of the end
of a scenario only. `TuneInv` follows it there: `Loaded` says which bytes the last
`MOVE`s have left in the serial port; `Tuning` says that once the program is past
one of the two words the register holds it, and that past both the newest entry is
the channel of the registers. A transfer goes to another device or register or
sends one of the two words again (`TransferTunes`), so nothing undoes them. A
scenario that ends has passed both (`TuningEnds`).

**Model-checked only.**

* All liveness: `FrameIrqsKeepComing`, `DspNeverStarves`, `DownloadAdvances`,
  `AnswerComes`, `SiComesBack`, `SettledIsPublished`, `ReaderCatchesUp`,
  `KeepsInterrupting`. Fairness is out of the prover's reach.
* The bridge outside the hypotheses above. `OneFrameInFlight`,
  `UnforcedBurstAfterSync`, `ReleaseIsSeen`, `OnlyLastAttemptIsCorrected` and
  `UplinkIsMarked` are not theorems: the
  runs of the findings refute them.

**Proved only.** The type invariants of `Inth`, `DcchTap`, `Uart`, `Sim`,
`KcPublish`, `TchDownlink`, `Timer`, `Rach`, `Tpu` and `L1Ccch`, `FiqIsNeverUsed`, `NothingIsDropped`,
`LastConfirmedIsKnown` and `ChannelsAreKnown` are proved for every value of the
constants, and no run repeats them. The type invariant of `Pont` is the
documentation of its variables; what the proofs need of it is part of `PontInv`, and
it holds on the instances of the runs when it is added to the `.cfg`.

## 5. What is not modelled

* The firmware, `c54x_exe`, the host program, the receiver and the mobile, except
  for their steps at the interfaces.
* In `calypso_trx.c`: real time (the tick is a step, a wait a number of
  retries), the wall clock arithmetic of the pacer and the autosynchronisation of
  `fn`, for which `NextFn` allows any frame when the bridge does not count itself.
* In `calypso_dcch_tap.c` and `calypso_l1ctl_tap.c`: the byte framing; in the
  first also the statistics, and `calypso_dcch_tap_reset()`, which has no caller.
* In the gr-gsm layer 1: FACCH and SACCH of a traffic channel and its
  configuration, the uplink captures (copies to files), power and synchronisation
  results, the contents of blocks and the choice among system informations.
* In `calypso_sim.c`: commands that repeat the patterns of the ones modelled, and
  the contents of files. In `calypso_timer.c`: the phase TIMER1 shows for the
  lost-frame check. In `calypso_trf6151.c`: the gain.
* The watchdog, which resets the CPU alone: what follows depends on the first
  accesses of a firmware outside the repository.
* I2C, SPI, microwire, GPIO, keypad: a transfer is complete when the register
  access that starts it returns, so there is nothing to interleave.
* The C54x interpreter and its peripherals: not part of the platform with an
  external DSP; the correctness of an interpreter is that of single instructions.
* Displays, ciphers and signal processing: computations without control.
* QEMU itself, used through its timers, memory regions and interrupt lines.

`PROJECT.json` lists, as hazards, what can go wrong in this code that a test
would hardly reach, with the properties that would show it. Noted while reading,
present in the models as the code has it, but without a property, because no
document of the repository says what the firmware may expect:

* The round robin of the INTH restarts after the source presented now, not after
  the one just served (`calypso_inth.c:160`).
* When the bridge closes, `fn` jumps from the pace of the DSP to the wall clock
  (`calypso_trx.c:1230`); `PONT_RESET` leaves also while the DSP waits for a `GO`
  (`:673`).
* A reset of the machine keeps `wakeup_pending` and the state of the ROM loader
  (`calypso_uart.c:611`); a warm reset in manual mode keeps the selected file
  (`calypso_sim.c:872`).
* A prescaler change while a wrap is overdue arms a whole new period, so that one
  interrupt is lost (`calypso_timer.c:150`).
* `l1_reset()` does not empty the ring of SDCCH blocks (`calypso_l1_grgsm.c:694`), and
  up to four speech frames of a call wait for the next one (`:492`).
