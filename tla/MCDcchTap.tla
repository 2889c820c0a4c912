----------------------------- MODULE MCDcchTap ------------------------------
(* A hyperframe of 24 frames.  2^32 modulo the real hyperframe is 1527808,   *)
(* more than half of it by 169984 frames; 38 modulo 24 is 14, more than half *)
(* of 24 by the lateness allowed, so that the 32-bit underflow lands on the  *)
(* same side.                                                                *)
EXTENDS DcchTap

MCSdcch == {"sdcch"}
MCTch == {"tch"}
MCPdch == {"pdch"}
=============================================================================
