---------------------------- MODULE MCInterrupts ----------------------------
EXTENDS Interrupts
=============================================================================
