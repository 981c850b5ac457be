------------------------------- MODULE MCUart -------------------------------
(* Instances of Uart for TLC. *)
EXTENDS Uart

Ports == SUBSET {"others", "zero", "busy"}
=============================================================================
