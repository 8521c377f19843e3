--------------------------- MODULE MCClassicLogger ---------------------------
(* The model-checking instance of ClassicLogger; see the .cfg files. *)
EXTENDS ClassicLogger
=============================================================================
