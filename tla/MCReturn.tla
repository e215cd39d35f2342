------------------------------- MODULE MCReturn -------------------------------
(* InterruptReturn with the programs of MCCpu.                                *)
EXTENDS InterruptReturn, MCCpu
=============================================================================
