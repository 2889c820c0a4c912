------------------------------- MODULE MCUart -------------------------------
EXTENDS Uart

\* A data byte that is the mark of a command, and one that is an opcode.
DataBytes == {"3c", "69"}
=============================================================================
