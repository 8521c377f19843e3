---------------------------- MODULE MCClassicScript ----------------------------
(* Volts with and without a fraction, two times, and pulses up to two. *)
EXTENDS ClassicScript
=============================================================================
