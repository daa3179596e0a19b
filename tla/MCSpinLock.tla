----------------------------- MODULE MCSpinLock -----------------------------
(* The instance of SpinLock for TLC.                                       *)
EXTENDS SpinLock
=============================================================================
