------------------------------ MODULE MCL1Ccch ------------------------------
(* Instance of L1Ccch: an SDCCH/8 and a TCH, the tc values on both sides of  *)
(* the windows of dispatch_allc().                                          *)
EXTENDS L1Ccch

TwoChannels == {[id |-> "b", kind |-> "sdcch8"], [id |-> "c", kind |-> "tch"]}
Corners == {6, 32, 42}
=============================================================================
