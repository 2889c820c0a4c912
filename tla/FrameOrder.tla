----------------------------- MODULE FrameOrder -----------------------------
(***************************************************************************)
(* The order of the silicon within a TDMA frame, which the two-phase tick   *)
(* of the bridge reproduces (calypso_dsp_pont.h): "DSP ISR (results +       *)
(* dispatch) -> ARM l1_sync -> burst reception", one frame after another.   *)
(***************************************************************************)
EXTENDS Naturals

CONSTANT Frames        \* frames of a hyperframe

VARIABLES frame, step  \* the current frame and what it is waiting for

OrderInit == frame = 0 /\ step = "over"

DspIsr == step = "isr" /\ step' = "l1_sync" /\ UNCHANGED frame
ArmSync == step = "l1_sync" /\ step' = "burst" /\ UNCHANGED frame
Burst == step = "burst" /\ step' = "over" /\ UNCHANGED frame
NewFrame == step = "over" /\ step' = "isr" /\ frame' = (frame + 1) % Frames

OrderNext == DspIsr \/ ArmSync \/ Burst \/ NewFrame

OrderSpec == OrderInit /\ [][OrderNext]_<<frame, step>>
=============================================================================
