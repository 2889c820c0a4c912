------------------------------ MODULE MCBridge ------------------------------
(* The bridge and, beside it, the interrupt controller whose frame source    *)
(* Pont has as a latch: each is explored while the other is at rest.         *)
EXTENDS MCPont, Inth

VARIABLE active_part

bridgeVars == <<vars, bench, inthVars, active_part>>

BridgeInit == Init /\ InthInit /\ active_part \in {"bridge", "interrupts"}

BridgeNext ==
  \/ active_part = "bridge" /\ Next /\ UNCHANGED <<bench, inthVars, active_part>>
  \/ active_part = "interrupts" /\ InthNext /\ UNCHANGED <<vars, bench, active_part>>

BridgeSpec == BridgeInit /\ [][BridgeNext]_bridgeVars

\* Three sources: 0 stands for a timer, 1 for the TPU frame, 2 for a UART; 0 and 1
\* make up the low half of the registers.  Level, and TIMER2's 0xfffe (edge).
OwnAck == {1}
LikeFrame == {2}
LevelAndEdge == {0, 65534}
=============================================================================
