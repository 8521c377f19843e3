------------------------------ MODULE MCStartup ------------------------------
(* The model-checking instance of Startup; see the .cfg files. *)
EXTENDS Startup

\* A missing entry, another negative number, 0 and the entry delivered.
MCDeviceCounts == {-1, -2, 0, 1}
=============================================================================
