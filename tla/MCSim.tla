------------------------------- MODULE MCSim --------------------------------
EXTENDS Sim

TwoValues == {"v1", "v2"}
=============================================================================
