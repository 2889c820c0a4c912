------------------------------- MODULE MCPont -------------------------------
(* A hyperframe of two or three frames, a short wait of two retries, a long *)
(* one of four: every wait of tdma_tick() is entered and left on both       *)
(* sides.  Each run covers the benches of a set at once.                    *)
EXTENDS Pont

Usual == {"other_irq", "dcch", "poll", "scenario", "api", "park"}

\* Lock-step, ARM first, a two-phase DSP, both peers in time.
Nominal ==
  [lockstep |-> TRUE, arm_first |-> TRUE, arm_lock |-> FALSE, two_phase |-> TRUE,
   late |-> 0, deadline |-> 3, patience |-> 3, env |-> Usual]

\* A DSP that only knows single-phase ticks, and DSP resets.
SinglePhase == [Nominal EXCEPT !.two_phase = FALSE, !.env = Usual \cup {"dsp_reset"}]

\* A DSP that answers late once or dies, an ARM without a deadline.
Faulty ==
  [Nominal EXCEPT !.arm_lock = TRUE, !.late = 1, !.deadline = 99, !.env = {"crash", "reset"}]

\* No lock-step: a late DSP skips ticks.
Pipeline ==
  [Nominal EXCEPT !.lockstep = FALSE,
                  !.env = {"dcch", "crash", "scenario", "api", "other_irq", "mask"}]

LateDsp == [Nominal EXCEPT !.late = 1, !.env = {}]

\* A firmware that may take its time in l1_sync, and a DSP that waits for its
\* GO however long the bridge does.
Lagging == [Nominal EXCEPT !.deadline = 99, !.patience = 99, !.env = {}]

InTimeBenches == {Nominal, SinglePhase}
FaultBenches == {Faulty, Pipeline}
LateBenches == {LateDsp}
LagBenches == {Lagging}
=============================================================================
