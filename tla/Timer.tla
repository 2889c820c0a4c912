------------------------------- MODULE Timer --------------------------------
(***************************************************************************)
(* A general purpose timer (hw/timer/calypso_timer.c): a down counter that  *)
(* is computed from the host clock when it is read, and a host timer that   *)
(* is armed for the moment at which the counter would wrap.                 *)
(*                                                                         *)
(* Time is counted in units of the fastest prescaler; `elapsed' is now -    *)
(* epoch_ns and `left' the time to the host timer's deadline, below 0 when  *)
(* the main loop is late to serve it.  The latch of TIMER1 for the LOST     *)
(* check of the firmware is not part of the counter and left out.           *)
(***************************************************************************)
EXTENDS Integers

CONSTANTS
  Loads,       \* values written to the load register
  TickLens,    \* tick_ns of the prescalers in use
  FirstTick,   \* of prescaler 0
  MaxLate,     \* bound: how late the main loop may be
  MaxWrites    \* bound: register writes in all

ASSUME TimerAssumption ==
  /\ Loads \subseteq Nat /\ TickLens \subseteq Nat \ {0} /\ FirstTick \in TickLens
  /\ {MaxLate, MaxWrites} \subseteq Nat

VARIABLES
  run_bits, reload, prescale,     \* ctrl: START and CLOCK_ENABLE, RELOAD, the tick of PRESCALER
  load, count, running, tick_ns,
  elapsed,
  armed, left,                    \* s->timer
  fired,                          \* the last step raised the interrupt
  rewritten,                      \* history: load changed since the counter was started
  writes

ctrl == <<run_bits, reload, prescale>>
timerVars == <<ctrl, load, count, running, tick_ns, elapsed, armed, left, fired, rewritten, writes>>

\* calypso_timer_current_count(), with the RELOAD bit as it is by then.
CurrentCount(rel) ==
  LET ticks == elapsed \div tick_ns
  IN  IF ~running THEN count
      ELSE IF rel THEN load - (ticks % (load + 1))
      ELSE IF ticks > load THEN 0
      ELSE load - ticks

-----------------------------------------------------------------------------
(* Register writes.                                                         *)

\* calypso_timer_start(): nothing without a load value.
Start(len) ==
  IF load = 0 THEN UNCHANGED <<count, running, tick_ns, elapsed, armed, left, rewritten>>
  ELSE /\ tick_ns' = len /\ count' = load /\ running' = TRUE
       /\ elapsed' = 0
       /\ armed' = TRUE /\ left' = (load + 1) * len
       /\ rewritten' = FALSE

\* Faulty variant: the deadline is left as it is.
RescaleKeepsDeadline(rel, len) ==
  /\ count' = CurrentCount(rel) /\ tick_ns' = len
  /\ elapsed' = (load - count') * len
  /\ UNCHANGED <<running, armed, left, rewritten>>

\* A new prescaler: the counter goes on from where it is.  The new epoch gives
\* calypso_timer_schedule_wrap() the same count.
Rescale(rel, len) ==
  /\ count' = CurrentCount(rel) /\ tick_ns' = len
  /\ elapsed' = (load - count') * len
  /\ armed' = TRUE /\ left' = (count' + 1) * len
  /\ rewritten' = FALSE
  /\ UNCHANGED running

Stop(rel) ==
  /\ count' = CurrentCount(rel) /\ running' = FALSE
  /\ armed' = FALSE /\ left' = 0
  /\ UNCHANGED <<tick_ns, elapsed, rewritten>>

\* calypso_timer_write(0)
WriteCtrl(on, rel, len) ==
  /\ writes < MaxWrites /\ writes' = writes + 1
  /\ run_bits' = on /\ reload' = rel /\ prescale' = len
  /\ fired' = FALSE
  /\ UNCHANGED load
  /\ IF ~on THEN Stop(rel)
     ELSE IF ~running THEN Start(len)
     ELSE IF len # prescale THEN Rescale(rel, len)
     ELSE UNCHANGED <<count, running, tick_ns, elapsed, armed, left, rewritten>>

\* calypso_timer_write(2): neither the counter's epoch nor the deadline changes.
WriteLoad(v) ==
  /\ writes < MaxWrites /\ writes' = writes + 1
  /\ load' = v /\ rewritten' = (running /\ (rewritten \/ v # load))
  /\ fired' = FALSE
  /\ UNCHANGED <<ctrl, count, running, tick_ns, elapsed, armed, left>>

\* calypso_timer_reset()
Reset ==
  /\ writes < MaxWrites /\ writes' = writes + 1
  /\ run_bits' = FALSE /\ reload' = FALSE /\ prescale' = FirstTick
  /\ load' = 0 /\ count' = 0 /\ running' = FALSE
  /\ armed' = FALSE /\ left' = 0
  /\ fired' = FALSE /\ UNCHANGED <<tick_ns, elapsed, rewritten>>

-----------------------------------------------------------------------------
(* Time.                                                                    *)
Advance ==
  /\ armed /\ left > -MaxLate
  /\ elapsed' = elapsed + 1 /\ left' = left - 1
  /\ fired' = FALSE
  /\ UNCHANGED <<ctrl, load, count, running, tick_ns, armed, rewritten, writes>>

\* Faulty variant: a periodic timer is not armed again.
FireOnce ==
  /\ armed /\ left <= 0
  /\ fired' = running
  /\ armed' = FALSE /\ left' = 0
  /\ UNCHANGED <<ctrl, load, count, running, tick_ns, elapsed, rewritten, writes>>

\* calypso_timer_tick()
Fire ==
  /\ armed /\ left <= 0
  /\ fired' = running
  /\ IF reload
     THEN /\ elapsed' = 0 /\ count' = load /\ left' = (load + 1) * tick_ns
          /\ rewritten' = FALSE
          /\ UNCHANGED <<running, armed>>
     ELSE /\ running' = FALSE /\ count' = 0 /\ armed' = FALSE /\ left' = 0
          /\ UNCHANGED <<elapsed, rewritten>>
  /\ UNCHANGED <<ctrl, load, tick_ns, writes>>

-----------------------------------------------------------------------------
TimerInit ==
  /\ run_bits = FALSE /\ reload = FALSE /\ prescale = FirstTick
  /\ load = 0 /\ count = 0 /\ running = FALSE /\ tick_ns = prescale
  /\ elapsed = 0 /\ armed = FALSE /\ left = 0
  /\ fired = FALSE /\ rewritten = FALSE /\ writes = 0

Registers ==
  \/ \E on, rel \in BOOLEAN, len \in TickLens : WriteCtrl(on, rel, len)
  \/ \E v \in Loads : WriteLoad(v)
  \/ Reset

Clock == Advance \/ Fire

TimerNext == Registers \/ Clock

TimerSpec == TimerInit /\ [][TimerNext]_timerVars

-----------------------------------------------------------------------------
(* Properties.                                                              *)
TimerTypeOK ==
  /\ run_bits \in BOOLEAN /\ reload \in BOOLEAN /\ running \in BOOLEAN
  /\ armed \in BOOLEAN /\ fired \in BOOLEAN /\ rewritten \in BOOLEAN
  /\ prescale \in TickLens /\ tick_ns \in TickLens /\ load \in Loads \cup {0}
  /\ count \in Nat /\ elapsed \in Nat /\ left \in Int /\ left >= -MaxLate /\ writes \in Nat
  /\ running => CurrentCount(reload) \in 0 .. load

\* The host timer fires when the counter the firmware can read wraps: the epoch
\* of the one and the deadline of the other agree through starts, reloads and
\* changes of the prescaler.  Only a load value written to a running timer
\* separates them, until the next wrap.  A timer that is stopped is not armed.
WrapOnTime ==
  /\ armed = running
  /\ running /\ ~rewritten => left = (load + 1) * tick_ns - elapsed

\* A periodic timer that is left alone goes on interrupting (the firmware's
\* jiffies and timers hang on it).
KeepsInterrupting == []<>(~running \/ ~reload \/ fired)
=============================================================================
