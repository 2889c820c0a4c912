-------------------------------- MODULE Pont --------------------------------
(***************************************************************************)
(* The TDMA bridge of hw/arm/calypso/calypso_trx.c between the ARM firmware *)
(* under QEMU and a C54x DSP in another process (c54x_exe --arm).           *)
(*                                                                         *)
(* Three actors interleave: the timers of QEMU's main loop (TdmaTick,       *)
(* BootTick, FrameIrqLower), the register accesses of the firmware on the   *)
(* vCPU (both under the global lock, hence atomic), and the DSP process at  *)
(* the other end of a SOCK_SEQPACKET socket.  The firmware and the DSP are  *)
(* not part of the repository: they do what calypso_trx.c and               *)
(* calypso_dsp_pont.h say they do.                                          *)
(*                                                                         *)
(* eoi_cible and the controller's frame_eoi are only ever compared, so the  *)
(* model keeps eoi_due, the ends of service still missing (0 when the       *)
(* target is reached or passed, as the code realigns a passed target).      *)
(***************************************************************************)
EXTENDS Integers, Sequences, FiniteSets

CONSTANTS
  Hyperframe,     \* GSM_HYPERFRAME, 2715648 in the code
  AttentesMax,    \* PONT_ATTENTES_MAX: retries before the short wait is over
  LongFactor,     \* 32: the long wait, in units of AttentesMax
  LockFactor,     \* 64: the CALYPSO_PONT_ARM_LOCK wait
  RelanceWindow,  \* 4: frames after a DOWNLOAD_STATUS read
  Benches,        \* the configurations the bridge runs in, see Bench
  MaxDue,         \* eoi_due = MaxDue stands for MaxDue or more
  MaxLink         \* bound on the messages the firmware can queue to the DSP

EnvEvents == {"mask", "other_irq", "dcch", "poll", "dsp_reset", "reset", "crash",
              "scenario", "api", "park"}

(* The environment variables QEMU is started with, the DSP it is started    *)
(* against and how late the peers may be.                                   *)
Bench ==
  [lockstep  : BOOLEAN,   \* CALYPSO_PONT_LOCKSTEP=1
   arm_first : BOOLEAN,   \* CALYPSO_PONT_ARM_FIRST is not 0
   arm_lock  : BOOLEAN,   \* CALYPSO_PONT_ARM_LOCK=1
   two_phase : BOOLEAN,   \* c54x_exe knows two-phase ticks
   late      : Nat,       \* how many times the DSP misses the end of the short wait
   deadline  : Nat,       \* retries within which the ARM has ended l1_sync
   patience  : Nat,       \* retries after which the DSP stops waiting for a GO (2 s)
   env       : SUBSET EnvEvents]   \* what else may happen

ASSUME PontAssumption ==
  /\ Hyperframe \in Nat \ {0, 1} /\ AttentesMax \in Nat \ {0}
  /\ LongFactor \in Nat \ {0} /\ LockFactor \in Nat /\ RelanceWindow \in Nat
  /\ Benches \subseteq Bench /\ Benches # {}
  /\ MaxDue \in Nat \ {0, 1} /\ MaxLink \in Nat

VARIABLE bench    \* the configuration of this run, fixed at start

Lockstep == bench.lockstep
ArmFirst == bench.arm_first
ArmLock == bench.arm_lock
TwoPhaseDsp == bench.two_phase
MaxLate == bench.late
ArmDeadline == bench.deadline
GoPatience == bench.patience
Env == bench.env

VARIABLES
  fd,             \* pont_fd >= 0
  pont_pending,   \* a TICK was sent, its DONE not collected
  tick_phase, phase_a_recue, go_inutile, eoi_attentes, eoi_due,
  fn, dsp_en, dcch_a_dire, bl_lu_fn,
  tdma_running,
  boot_timer,     \* pont_boot_timer is armed
  pas,            \* the vCPU is inside the 20 ms wait of pont_boot_pas()
  pulse           \* frame_irq_timer is armed

VARIABLES irq_pending, irq_masked, irq_edge, irq_served, api_irq

VARIABLES
  fw,             \* the firmware: "idle" (main loop), "l1_sync", "handler"
  halted,         \* cpu_idle_park() put the vCPU to sleep
  dsp,            \* "idle", "isr", "wait_go", "burst", "dead"
  dsp_fn,         \* frame of the TICK the DSP is on
  dsp_two,        \* that TICK is played in two phases
  toDsp, toQemu   \* the two directions of the socket

\* History; only OnTime, the bound on the DSP's delays, reads one of them (late).
VARIABLES
  sync,           \* l1_sync of frame fn: "none", "raised", "running", "done"
  forced,         \* the GO of frame fn was forced
  late            \* frames whose ISR the DSP did not play in time

qemu == <<fd, pont_pending, tick_phase, phase_a_recue, go_inutile, eoi_attentes,
          fn, boot_timer, pas>>
arm == <<fw, halted, tdma_running, bl_lu_fn>>
irqs == <<irq_pending, irq_masked, irq_edge, irq_served>>
dspv == <<dsp, dsp_fn, dsp_two>>
links == <<toDsp, toQemu>>
hist == <<sync, forced, late>>
vars == <<qemu, eoi_due, dsp_en, dcch_a_dire, pulse, irqs, api_irq, arm, dspv,
          links, hist>>

Irq == INSTANCE FrameLatch

Tick(f, irq, two) == [type |-> "TICK", fn |-> f, irq |-> irq, two |-> two]
Go(f) == [type |-> "GO", fn |-> f]
Dcch == [type |-> "DCCH"]
ResetMsg == [type |-> "RESET"]

ArmFirstOn == Lockstep /\ ArmFirst
Alive == dsp # "dead"

-----------------------------------------------------------------------------
(* pont_connect(): handshake done, the DSP idle in its boot loader, only    *)
(* the boot timer armed.  The firmware has configured the frame interrupt   *)
(* as an edge.                                                              *)
Init ==
  /\ bench \in Benches
  /\ fd = TRUE /\ pont_pending = FALSE /\ tick_phase = 0 /\ phase_a_recue = FALSE
  /\ go_inutile = FALSE /\ eoi_attentes = 0 /\ eoi_due = 0 /\ fn = 0
  /\ dsp_en = FALSE /\ dcch_a_dire = FALSE /\ bl_lu_fn = 0
  /\ tdma_running = FALSE /\ boot_timer = TRUE /\ pas = FALSE /\ pulse = FALSE
  /\ irq_pending = FALSE /\ irq_masked = FALSE /\ irq_edge = TRUE
  /\ irq_served = FALSE /\ api_irq = FALSE
  /\ fw = "idle" /\ halted = FALSE
  /\ dsp = "idle" /\ dsp_fn = 0 /\ dsp_two = FALSE
  /\ toDsp = <<>> /\ toQemu = <<>>
  /\ sync = "done" /\ forced = FALSE /\ late = 0

-----------------------------------------------------------------------------
(* pont_recv() without waiting: a message, nothing, or the end of file of a *)
(* DSP that is gone, which closes the socket.                               *)
CanRecv == fd /\ toQemu # <<>>
PeerGone == fd /\ toQemu = <<>> /\ ~ Alive

\* calypso_timer_lost_frame_tick(), the frame line and its 1 ms pulse.
RaiseFrame ==
  /\ Irq!Raise /\ pulse' = TRUE

\* pont_echange() when the previous DONE is in: DCCH, then TICK.  A send to
\* a dead peer fails, with DSP_EN and dcch_a_dire already consumed.
DcchFirst == IF dcch_a_dire THEN <<Dcch>> ELSE <<>>

\* Faulty variants: the TICK names the previous frame; pont_pending is not set.
SendTickStale(f, two) ==
  /\ toDsp' = IF Alive THEN toDsp \o DcchFirst \o <<Tick(fn, dsp_en, two)>> ELSE toDsp
  /\ pont_pending' = Alive
  /\ dsp_en' = FALSE /\ dcch_a_dire' = FALSE

SendTickUnmarked(f, two) ==
  /\ toDsp' = IF Alive THEN toDsp \o DcchFirst \o <<Tick(f, dsp_en, two)>> ELSE toDsp
  /\ UNCHANGED pont_pending
  /\ dsp_en' = FALSE /\ dcch_a_dire' = FALSE

SendTick(f, two) ==
  /\ toDsp' = IF Alive THEN toDsp \o DcchFirst \o <<Tick(f, dsp_en, two)>> ELSE toDsp
  /\ pont_pending' = Alive
  /\ dsp_en' = FALSE /\ dcch_a_dire' = FALSE

\* The collection of the previous DONE, whatever flags it carries.
DspFree == fd /\ (pont_pending => CanRecv)

CollectDone ==
  IF pont_pending
  THEN toQemu' = Tail(toQemu) /\ api_irq' = (api_irq \/ Head(toQemu).api)
  ELSE UNCHANGED <<toQemu, api_irq>>

-----------------------------------------------------------------------------
(* tdma_tick(), the start of a frame (tick_phase 0).                        *)
FreshFrame(s) == sync' = s /\ forced' = FALSE /\ UNCHANGED late

\* In lock-step the frame does not start before the previous DONE is in.
LockstepWait ==
  /\ tick_phase = 0 /\ fd /\ pont_pending /\ Lockstep /\ ~ CanRecv
  /\ fd' = ~ PeerGone
  /\ UNCHANGED <<pont_pending, tick_phase, phase_a_recue, go_inutile, eoi_attentes,
                 fn, boot_timer, pas, eoi_due, dsp_en, dcch_a_dire, pulse, irqs,
                 api_irq, arm, dspv, links, hist>>

NextFn == IF fd /\ Lockstep THEN {(fn + 1) % Hyperframe} ELSE 0 .. Hyperframe - 1

FrameTick ==
  /\ tick_phase = 0 /\ DspFree
  /\ fn' \in NextFn
  /\ CollectDone
  /\ SendTick(fn', ArmFirstOn)
  /\ IF ArmFirstOn /\ Alive
     THEN /\ tick_phase' = 1 /\ eoi_attentes' = 0
          /\ phase_a_recue' = FALSE /\ go_inutile' = FALSE
          /\ FreshFrame("none")
          /\ UNCHANGED <<irqs, pulse>>
     ELSE /\ RaiseFrame
          /\ FreshFrame("raised")
          /\ UNCHANGED <<tick_phase, eoi_attentes, phase_a_recue, go_inutile>>
  /\ UNCHANGED <<fd, boot_timer, pas, eoi_due, arm, dspv>>

\* No TICK: the bridge is closed, or without lock-step the DSP is late.
NoTickNow == ~ DspFree /\ ~ (fd /\ Lockstep)

FrameWithoutTick ==
  /\ tick_phase = 0 /\ NoTickNow
  /\ fn' \in NextFn
  /\ fd' = (fd /\ ~ PeerGone)
  /\ dsp_en' = (dsp_en /\ fd')
  /\ RaiseFrame
  /\ FreshFrame("raised")
  /\ UNCHANGED <<pont_pending, tick_phase, phase_a_recue, go_inutile, eoi_attentes,
                 boot_timer, pas, eoi_due, dcch_a_dire, api_irq, arm, dspv, links>>

-----------------------------------------------------------------------------
(* tdma_tick(), phase 1: DONE|PHASE_A, then l1_sync(fn), then GO.           *)
ReceivesPhaseA == ~ phase_a_recue /\ CanRecv
PhaseA == phase_a_recue \/ ReceivesPhaseA

FinalDone == ReceivesPhaseA /\ ~ Head(toQemu).phase_a

\* Faulty variant: the frame interrupt raised here is not waited for.
DueUncounted == eoi_due

Due == IF ReceivesPhaseA /\ eoi_due < MaxDue THEN eoi_due + 1 ELSE eoi_due

\* Faulty variants: GO after the ISR alone, or once the interrupt is taken.
FiniAlways == PhaseA
FiniOnceTaken == PhaseA /\ (~ (irq_pending \/ ReceivesPhaseA) \/ irq_masked)

Fini == PhaseA /\ (Due = 0 \/ irq_masked)
ArmRelanceDsp == bl_lu_fn # 0 /\ fn + 1 - bl_lu_fn \in 0 .. RelanceWindow

LongWait ==
  /\ ~ Fini /\ PhaseA
  /\ eoi_attentes + 1 >= AttentesMax /\ eoi_attentes + 1 < AttentesMax * LongFactor
ShortWait == ~ Fini /\ ~ LongWait /\ eoi_attentes + 1 < AttentesMax
LockWait ==
  /\ ~ Fini /\ ~ LongWait /\ ~ ShortWait /\ ArmLock /\ ~ ArmRelanceDsp
  /\ eoi_attentes + 1 < AttentesMax * LockFactor
Forced == ~ Fini /\ ~ LongWait /\ ~ ShortWait /\ ~ LockWait

\* The receive at the head of phase 1 and the frame interrupt it unblocks.
PhaseOneReceive ==
  /\ fd' = (fd /\ (phase_a_recue \/ ~ PeerGone))
  /\ phase_a_recue' = PhaseA
  /\ pont_pending' = (pont_pending /\ ~ FinalDone)
  /\ go_inutile' = (go_inutile \/ FinalDone)
  /\ IF ReceivesPhaseA
     THEN /\ toQemu' = Tail(toQemu)
          /\ api_irq' = (api_irq \/ (FinalDone /\ Head(toQemu).api))
     ELSE UNCHANGED <<toQemu, api_irq>>
  /\ IF ReceivesPhaseA \/ (Forced /\ ~ PhaseA)
     THEN RaiseFrame /\ sync' = "raised"
     ELSE UNCHANGED <<irqs, pulse, sync>>

\* Faulty variant: a retry of the long wait is not counted.
CountedUnlessLong == IF LongWait THEN eoi_attentes ELSE eoi_attentes + 1

Counted == IF LockWait THEN eoi_attentes + 2 ELSE eoi_attentes + 1

PhaseOneWait ==
  /\ tick_phase = 1
  /\ LongWait \/ ShortWait \/ LockWait
  /\ PhaseOneReceive
  /\ eoi_due' = Due
  /\ eoi_attentes' = Counted
  /\ UNCHANGED <<tick_phase, fn, boot_timer, pas, dsp_en, dcch_a_dire, arm, dspv,
                 toDsp, forced, late>>

PhaseOneGo ==
  /\ tick_phase = 1
  /\ Fini \/ Forced
  /\ PhaseOneReceive
  /\ eoi_due' = IF Fini THEN Due ELSE 0
  /\ eoi_attentes' = IF Fini THEN eoi_attentes ELSE eoi_attentes + 1
  /\ tick_phase' = 0
  /\ toDsp' = IF go_inutile' \/ ~ fd' \/ ~ Alive THEN toDsp ELSE Append(toDsp, Go(fn))
  /\ forced' = Forced
  /\ late' = IF Forced /\ ~ PhaseA /\ fd /\ Alive THEN late + 1 ELSE late
  /\ UNCHANGED <<fn, boot_timer, pas, dsp_en, dcch_a_dire, arm, dspv>>

\* How long the DSP and the ARM take, in retries of the tick.
OnTime ==
  tick_phase = 1 =>
    /\ ~ PhaseA /\ fd /\ Alive /\ eoi_attentes + 1 >= AttentesMax => late < MaxLate
    /\ phase_a_recue /\ ~ Fini => eoi_attentes + 1 < ArmDeadline

TdmaTick ==
  /\ tdma_running /\ ~ pas /\ OnTime
  /\ LockstepWait \/ FrameTick \/ FrameWithoutTick \/ PhaseOneWait \/ PhaseOneGo

-----------------------------------------------------------------------------
(* The other timers.                                                        *)

\* Faulty variant: the boot timer leaves the DSP alone.
BootTickSilent ==
  /\ boot_timer /\ ~ pas /\ tdma_running /\ boot_timer' = FALSE
  /\ UNCHANGED <<fd, pont_pending, tick_phase, phase_a_recue, go_inutile, eoi_attentes, fn,
                 pas, eoi_due, dsp_en, dcch_a_dire, pulse, irqs, api_irq, arm, dspv, links,
                 hist>>

BootTick ==
  /\ boot_timer /\ ~ pas
  /\ \/ /\ tdma_running /\ boot_timer' = FALSE
        /\ UNCHANGED <<fd, pont_pending, dsp_en, dcch_a_dire, links, api_irq>>
     \/ /\ ~ tdma_running /\ DspFree /\ CollectDone /\ SendTick(fn, FALSE)
        /\ UNCHANGED <<fd, boot_timer>>
     \/ /\ ~ tdma_running /\ ~ DspFree /\ fd' = (fd /\ ~ PeerGone)
        /\ UNCHANGED <<boot_timer, pont_pending, dsp_en, dcch_a_dire, links, api_irq>>
  /\ UNCHANGED <<tick_phase, phase_a_recue, go_inutile, eoi_attentes, fn, pas,
                 eoi_due, pulse, irqs, arm, dspv, hist>>

\* frame_irq_lower(): the pulse ends and an idle vCPU is put to sleep.
FrameIrqLower ==
  /\ pulse /\ ~ pas
  /\ pulse' = FALSE
  /\ Irq!Fall
  /\ halted' \in {halted, fw = "idle" /\ "park" \in Env}
  /\ UNCHANGED <<qemu, eoi_due, dsp_en, dcch_a_dire, api_irq, fw, tdma_running,
                 bl_lu_fn, dspv, links, hist>>

-----------------------------------------------------------------------------
(* The firmware, by the registers it touches.                               *)
ArmRuns == ~ pas /\ ~ halted
MainLoop == ArmRuns /\ fw = "idle"

TakeFrameIrq ==
  /\ ~ pas /\ fw = "idle"
  /\ Irq!TakeFrame
  /\ fw' = "l1_sync" /\ halted' = FALSE
  /\ sync' = IF sync = "raised" THEN "running" ELSE sync
  /\ UNCHANGED <<qemu, eoi_due, dsp_en, dcch_a_dire, pulse, api_irq, tdma_running,
                 bl_lu_fn, dspv, links, forced, late>>

TakeOtherIrq ==
  /\ "other_irq" \in Env /\ ~ pas /\ fw = "idle"
  /\ Irq!TakeOther
  /\ fw' = "handler" /\ halted' = FALSE
  /\ api_irq' \in {api_irq, FALSE}
  /\ UNCHANGED <<qemu, eoi_due, dsp_en, dcch_a_dire, pulse, tdma_running, bl_lu_fn,
                 dspv, links, hist>>

\* dsp_end_scenario() in l1_sync arms the one-shot DSP frame interrupt.
EndScenario ==
  /\ "scenario" \in Env /\ ~ pas /\ fw = "l1_sync" /\ ~ dsp_en
  /\ dsp_en' = TRUE
  /\ UNCHANGED <<qemu, eoi_due, dcch_a_dire, pulse, irqs, api_irq, arm, dspv, links, hist>>

OneLess(due) ==
  IF due = 0 THEN {0} ELSE IF due = MaxDue THEN {due - 1, due} ELSE {due - 1}

\* The IRQ_CTRL write that ends a handler; after a frame one it is the end of
\* service the bridge waits for.
EndOfService ==
  /\ ~ pas /\ fw # "idle"
  /\ fw' = "idle"
  /\ eoi_due' \in IF irq_served THEN OneLess(eoi_due) ELSE {eoi_due}
  /\ sync' = IF fw = "l1_sync" /\ sync = "running" THEN "done" ELSE sync
  /\ UNCHANGED <<qemu, dsp_en, dcch_a_dire, pulse, irqs, api_irq, halted,
                 tdma_running, bl_lu_fn, dspv, links, forced, late>>

ToggleMask ==
  /\ "mask" \in Env /\ MainLoop
  /\ Irq!SetMask(~ irq_masked)
  /\ UNCHANGED <<qemu, eoi_due, dsp_en, dcch_a_dire, pulse, api_irq, arm, dspv, links, hist>>

TdmaStart ==
  /\ MainLoop /\ ~ tdma_running
  /\ tdma_running' = TRUE /\ fn' = 0
  /\ UNCHANGED <<fd, pont_pending, tick_phase, phase_a_recue, go_inutile, eoi_attentes,
                 boot_timer, pas, eoi_due, dsp_en, dcch_a_dire, pulse, irqs, api_irq,
                 fw, halted, bl_lu_fn, dspv, links, hist>>

\* A DOWNLOAD_STATUS read; before the TDMA runs, one in 32 plays a DSP frame.
PollStatus ==
  /\ "poll" \in Env /\ MainLoop
  /\ bl_lu_fn' = fn + 1
  /\ \/ UNCHANGED <<pont_pending, pas, toDsp, dsp_en, dcch_a_dire>>
     \/ /\ ~ tdma_running /\ fd
        /\ IF pont_pending
           THEN UNCHANGED <<pont_pending, toDsp, dsp_en, dcch_a_dire>>
           ELSE SendTick(fn, FALSE)
        /\ pas' = pont_pending'
  /\ UNCHANGED <<fd, tick_phase, phase_a_recue, go_inutile, eoi_attentes, fn,
                 boot_timer, eoi_due, pulse, irqs, api_irq, fw, halted, tdma_running,
                 dspv, toQemu, hist>>

\* The end of the wait of pont_boot_pas(): DONE, end of file, or 20 ms.
PasEnd ==
  /\ pas /\ pas' = FALSE
  /\ fd' = ~ PeerGone
  /\ pont_pending' = ~ CanRecv
  /\ IF CanRecv THEN CollectDone ELSE UNCHANGED <<toQemu, api_irq>>
  /\ UNCHANGED <<tick_phase, phase_a_recue, go_inutile, eoi_attentes, fn, boot_timer,
                 eoi_due, dsp_en, dcch_a_dire, pulse, irqs, arm, dspv, toDsp, hist>>

\* calypso_trx_dsp_reset_line(): the firmware releases the DSP reset.
ReleaseDspReset ==
  /\ "dsp_reset" \in Env /\ MainLoop /\ Len(toDsp) < MaxLink
  /\ toDsp' = IF fd /\ Alive THEN Append(toDsp, ResetMsg) ELSE toDsp
  /\ UNCHANGED <<qemu, eoi_due, dsp_en, dcch_a_dire, pulse, irqs, api_irq, arm, dspv,
                 toQemu, hist>>

\* Faulty variant: the message leaves at once.
LearnDcchAtOnce ==
  /\ "dcch" \in Env /\ ArmRuns /\ Len(toDsp) < MaxLink
  /\ toDsp' = Append(toDsp, Dcch)
  /\ UNCHANGED <<qemu, eoi_due, dsp_en, dcch_a_dire, pulse, irqs, api_irq, arm, dspv, toQemu, hist>>

\* calypso_trx_dcch(), from the serial stream the firmware writes.
LearnDcch ==
  /\ "dcch" \in Env /\ ArmRuns
  /\ dcch_a_dire' = TRUE
  /\ UNCHANGED <<qemu, eoi_due, dsp_en, pulse, irqs, api_irq, arm, dspv, links, hist>>

\* A machine reset: the interrupt controller forgets its end-of-service count,
\* the bridge, which has no reset handler, keeps its target.
MachineReset ==
  /\ "reset" \in Env /\ ~ pas
  /\ Irq!IrqReset
  /\ api_irq' = FALSE /\ fw' = "idle" /\ halted' = FALSE
  /\ eoi_due' \in eoi_due .. MaxDue
  /\ UNCHANGED <<qemu, dsp_en, dcch_a_dire, pulse, tdma_running, bl_lu_fn, dspv, links, hist>>

ConfigureIrq ==
  /\ MainLoop /\ ~ irq_edge
  /\ Irq!SetEdge(TRUE)
  /\ UNCHANGED <<qemu, eoi_due, dsp_en, dcch_a_dire, pulse, api_irq, arm, dspv, links, hist>>

-----------------------------------------------------------------------------
(* The DSP process.  While it waits for a GO it ignores every other message *)
(* (comment of calypso_trx_dcch), for at most 2 s (calypso_dsp_pont.h).     *)
Receives(type) == toDsp # <<>> /\ Head(toDsp).type = type

DspTick ==
  /\ dsp = "idle" /\ Receives("TICK")
  /\ dsp' = "isr" /\ dsp_fn' = Head(toDsp).fn /\ dsp_two' = (TwoPhaseDsp /\ Head(toDsp).two)
  /\ toDsp' = Tail(toDsp) /\ UNCHANGED toQemu

\* A late GO, a DCCH or a RESET in the main loop of c54x_exe.
DspOther ==
  /\ dsp = "idle" /\ toDsp # <<>> /\ ~ Receives("TICK")
  /\ toDsp' = Tail(toDsp) /\ UNCHANGED <<dspv, toQemu>>

ApiFlags == {api \in BOOLEAN : api => "api" \in Env}

DspIsrDone ==
  /\ dsp = "isr"
  /\ IF dsp_two
     THEN /\ toQemu' = Append(toQemu, [phase_a |-> TRUE, api |-> FALSE])
          /\ dsp' = "wait_go"
     ELSE \E api \in ApiFlags :
          /\ toQemu' = Append(toQemu, [phase_a |-> FALSE, api |-> api])
          /\ dsp' = "idle"
  /\ UNCHANGED <<toDsp, dsp_fn, dsp_two>>

DspGo ==
  /\ dsp = "wait_go" /\ Receives("GO")
  /\ dsp' = "burst" /\ toDsp' = Tail(toDsp) /\ UNCHANGED <<toQemu, dsp_fn, dsp_two>>

DspIgnore ==
  /\ dsp = "wait_go" /\ toDsp # <<>> /\ ~ Receives("GO")
  /\ toDsp' = Tail(toDsp) /\ UNCHANGED <<dspv, toQemu>>

DspGoTimeout ==
  /\ dsp = "wait_go" /\ toDsp = <<>>
  /\ tick_phase = 1 => eoi_attentes >= GoPatience
  /\ dsp' = "burst" /\ UNCHANGED <<links, dsp_fn, dsp_two>>

DspBurstDone ==
  /\ dsp = "burst"
  /\ \E api \in ApiFlags : toQemu' = Append(toQemu, [phase_a |-> FALSE, api |-> api])
  /\ dsp' = "idle" /\ UNCHANGED <<toDsp, dsp_fn, dsp_two>>

DspCrash ==
  /\ "crash" \in Env /\ Alive
  /\ dsp' = "dead" /\ toDsp' = <<>> /\ UNCHANGED <<toQemu, dsp_fn, dsp_two>>

DspRuns ==
  \/ DspTick \/ DspOther \/ DspIsrDone \/ DspGo \/ DspIgnore \/ DspGoTimeout \/ DspBurstDone

DspStep ==
  /\ DspRuns \/ DspCrash
  /\ UNCHANGED <<qemu, eoi_due, dsp_en, dcch_a_dire, pulse, irqs, api_irq, arm, hist>>

ArmStep ==
  \/ TakeFrameIrq \/ TakeOtherIrq \/ EndScenario \/ EndOfService \/ ToggleMask
  \/ TdmaStart \/ PollStatus \/ PasEnd \/ ReleaseDspReset \/ LearnDcch \/ ConfigureIrq

Next == TdmaTick \/ BootTick \/ FrameIrqLower \/ ArmStep \/ MachineReset \/ DspStep

Spec == Init /\ [][Next /\ UNCHANGED bench]_<<vars, bench>>

(* QEMU's timers fire again and again and the wait of pont_boot_pas() is     *)
(* bounded; a DSP that is alive runs.  Nothing is asked of the firmware.     *)
DspFairStep ==
  DspRuns /\ UNCHANGED <<qemu, eoi_due, dsp_en, dcch_a_dire, pulse, irqs, api_irq, arm, hist>>

Fairness ==
  /\ WF_vars(TdmaTick) /\ WF_vars(FrameIrqLower) /\ WF_vars(PasEnd)
  /\ WF_vars(BootTick) /\ WF_vars(DspFairStep)

FairSpec == Spec /\ Fairness

-----------------------------------------------------------------------------
Messages ==
  [type : {"TICK"}, fn : 0 .. Hyperframe - 1, irq : BOOLEAN, two : BOOLEAN]
    \cup [type : {"GO"}, fn : 0 .. Hyperframe - 1] \cup {Dcch, ResetMsg}

TypeOK ==
  /\ bench \in Benches
  /\ {fd, pont_pending, phase_a_recue, go_inutile, dsp_en, dcch_a_dire, tdma_running,
      boot_timer, pas, pulse, irq_pending, irq_masked, irq_edge, irq_served, api_irq,
      halted, dsp_two, forced} \subseteq BOOLEAN
  /\ tick_phase \in {0, 1} /\ eoi_attentes \in Nat /\ eoi_due \in 0 .. MaxDue
  /\ fn \in 0 .. Hyperframe - 1 /\ bl_lu_fn \in 0 .. Hyperframe
  /\ fw \in {"idle", "l1_sync", "handler"} /\ (halted => fw = "idle")
  /\ dsp \in {"idle", "isr", "wait_go", "burst", "dead"} /\ dsp_fn \in 0 .. Hyperframe - 1
  /\ \A i \in 1 .. Len(toDsp) : toDsp[i] \in Messages
  /\ \A i \in 1 .. Len(toQemu) : toQemu[i] \in [phase_a : BOOLEAN, api : BOOLEAN]
  /\ sync \in {"none", "raised", "running", "done"} /\ late \in 0 .. MaxLate

IsTick(m) == m.type = "TICK"
IsFinal(m) == ~ m.phase_a
Playing == dsp \in {"isr", "wait_go", "burst"}

\* Where the frames are that the DSP has not answered, or whose answer is not in.
FramesInFlight ==
  {<<"toDsp", i>> : i \in {k \in 1 .. Len(toDsp) : IsTick(toDsp[k])}}
    \cup {<<"toQemu", i>> : i \in {k \in 1 .. Len(toQemu) : IsFinal(toQemu[k])}}
    \cup (IF Playing THEN {<<"dsp", 0>>} ELSE {})

(***************************************************************************)
(* "advance the frame (fn + TPU-frame IT to the firmware) ONLY once the     *)
(* external DSP has finished the previous one" (tdma_tick): pont_pending    *)
(* says exactly whether the DSP still owes a final DONE, so a TICK never    *)
(* leaves while an earlier frame is in a link or in the DSP.                *)
(***************************************************************************)
OneFrameInFlight == fd /\ Alive => Cardinality(FramesInFlight) = IF pont_pending THEN 1 ELSE 0

(***************************************************************************)
(* The same, whatever else goes wrong, until the DSP first misses the end   *)
(* of the short wait: neither a machine reset in the middle of a two-phase  *)
(* tick, nor a firmware that never ends l1_sync, nor a bridge without       *)
(* lock-step makes a TICK leave early (pont_echange).                       *)
(***************************************************************************)
OneFrameUntilLate == late = 0 => OneFrameInFlight

(***************************************************************************)
(* "In lock-step firmware and DSP stay on the SAME frame" (tdma_tick).      *)
(***************************************************************************)
SameFrame == Playing => dsp_fn = fn

(***************************************************************************)
(* The DSP never writes its R page (its frame ISR) while the firmware reads *)
(* it (l1_sync): the overlap the two-phase tick was introduced to remove    *)
(* ("the DSP wrote the R page of burst N while the ARM was still reading    *)
(* burst N-2 from it").                                                     *)
(***************************************************************************)
PagesExclusive == ~ (fw = "l1_sync" /\ dsp = "isr" /\ tdma_running)

(***************************************************************************)
(* The DSP receives the burst of a frame only after the firmware has ended  *)
(* l1_sync of that same frame: "a lagging l1_sync(N-1) cannot pass for      *)
(* l1_sync(N)" (tdma_tick).                                                 *)
(***************************************************************************)
BurstAfterSync == dsp = "burst" => sync = "done"

(***************************************************************************)
(* A dedicated channel is announced "just before a TICK, never while        *)
(* waiting for a GO" (calypso_dsp_pont.h), where the DSP would ignore it.   *)
(***************************************************************************)
DcchIsHeard == ~ (dsp = "wait_go" /\ Receives("DCCH"))

(***************************************************************************)
(* The target of the l1_sync wait can be reached: every end of service      *)
(* still missing belongs to a frame interrupt that is pending or being      *)
(* served ("one end of service per frame IRQ raised").                      *)
(***************************************************************************)
EoiTargetReachable ==
  eoi_due <= (IF irq_pending THEN 1 ELSE 0) + (IF fw = "l1_sync" THEN 1 ELSE 0)

(***************************************************************************)
(* Once the TDMA runs the firmware keeps getting frame interrupts, whatever *)
(* the firmware does and however late or dead the DSP is: no wait of        *)
(* tdma_tick() is unbounded ("without a bound the bridge would wait for the *)
(* ARM and the ARM for the DSP, forever").                                  *)
(***************************************************************************)
FrameIrqsKeepComing == tdma_running ~> pulse

(***************************************************************************)
(* A DSP that is alive always gets another frame to play, from the boot     *)
(* timer and then from tdma_tick(), even if the firmware never starts the   *)
(* TDMA: "Clocking it from init breaks that deadlock, where the ARM waits   *)
(* for the DSP waiting for the ARM" (calypso_trx_init).                     *)
(***************************************************************************)
DspNeverStarves == []<>(dsp \in {"isr", "dead"})

(***************************************************************************)
(* Without a forced GO the DSP receives the burst after l1_sync of the same *)
(* frame, also in the frames that follow a forced one: "a lagging           *)
(* l1_sync(N-1) cannot pass for l1_sync(N). Resynchronised on timeout"      *)
(* (tdma_tick).                                                             *)
(***************************************************************************)
UnforcedBurstAfterSync == dsp = "burst" /\ ~ forced => sync = "done"

(***************************************************************************)
(* The two-phase tick reproduces the order of the silicon in every frame;   *)
(* nothing is asked of a DSP that plays its ticks in one phase.             *)
(***************************************************************************)
Step ==
  IF sync = "done"
  THEN IF dsp \in {"wait_go", "burst"} THEN "burst" ELSE "over"
  ELSE IF dsp = "wait_go" THEN "l1_sync" ELSE "isr"

Order == INSTANCE FrameOrder WITH
  Frames <- Hyperframe,
  frame <- IF TwoPhaseDsp THEN fn ELSE 0,
  step <- IF TwoPhaseDsp THEN Step ELSE "over"

SiliconOrder == Order!OrderSpec
=============================================================================
