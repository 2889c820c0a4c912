------------------------------- MODULE MCTick -------------------------------
(* The small parts of the machine that share no state: KcPublish,            *)
(* TchDownlink, Tpu, Timer and Rach.  Each is explored while what feeds the   *)
(* others (the firmware's key loads, the writer of the speech ring, TPU       *)
(* scenarios, timer registers, access attempts) is at rest.                  *)
EXTENDS KcPublish, TchDownlink, MCTpu, Timer, Rach

VARIABLE active_part

vars == <<kcVars, tchVars, tpuVars, timerVars, rachVars, active_part>>

Parts == {"key", "speech", "tpu", "timer", "rach"}

Init ==
  /\ KcInit /\ TchInit /\ TpuInit /\ TimerInit /\ RachInit
  /\ active_part \in Parts

OthersThanKc == <<tchVars, tpuVars, timerVars, rachVars>>
OthersThanTch == <<kcVars, tpuVars, timerVars, rachVars>>
OthersThanTpu == <<kcVars, tchVars, timerVars, rachVars>>
OthersThanTimer == <<kcVars, tchVars, tpuVars, rachVars>>
OthersThanRach == <<kcVars, tchVars, tpuVars, timerVars>>

Next ==
  \/ active_part = "key" /\ KcFirmware /\ UNCHANGED <<OthersThanKc, active_part>>
  \/ active_part = "speech" /\ TchOutside /\ UNCHANGED <<OthersThanTch, active_part>>
  \/ active_part = "tpu" /\ TpuNext /\ UNCHANGED <<OthersThanTpu, active_part>>
  \/ active_part = "timer" /\ Registers /\ UNCHANGED <<OthersThanTimer, active_part>>
  \/ active_part = "rach" /\ RachNext /\ UNCHANGED <<OthersThanRach, active_part>>
  \/ KcTick /\ UNCHANGED <<OthersThanKc, active_part>>
  \/ TchTick /\ UNCHANGED <<OthersThanTch, active_part>>
  \/ Clock /\ UNCHANGED <<OthersThanTimer, active_part>>

\* The frame clock ticks, and writes to the key file do not fail for ever; in a
\* call the firmware schedules the TCHT task, and the writer of the ring is not
\* stopped between a slot and the header; time passes and the main loop serves
\* its timers.
Fairness ==
  /\ WF_vars(Publish(TRUE) /\ UNCHANGED <<OthersThanKc, active_part>>)
  /\ SF_vars(last # Observed /\ ~HeldBack /\ Publish(TRUE) /\ UNCHANGED <<OthersThanKc, active_part>>)
  /\ WF_vars(Poll /\ UNCHANGED <<OthersThanTch, active_part>>)
  /\ WF_vars(Dispatch /\ UNCHANGED <<OthersThanTch, active_part>>)
  /\ WF_vars(WriteHeader /\ UNCHANGED <<OthersThanTch, active_part>>)
  /\ WF_vars(Clock /\ UNCHANGED <<OthersThanTimer, active_part>>)

TickSpec == Init /\ [][Next]_vars /\ Fairness

\* Frames with extreme fields: the last of the hyperframe (T1' 31, T2 25, T3 50),
\* one with T3 7 and T2 0, one beyond the first turn of T1'.
ExtremeFrames == {2715647, 364, 43000}
TwoRas == {0, 200}

TwoKeys == {1, 2}
TwoLoads == {0, 2}
TwoTicks == {1, 2}
=============================================================================
