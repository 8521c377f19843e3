---------------------------- MODULE MCDataLogger ----------------------------
(* The model-checking instance of DataLogger; see the .cfg files. *)
EXTENDS DataLogger
=============================================================================
