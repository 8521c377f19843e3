--------------------------- MODULE MCLoopSchedule ---------------------------
(* The model-checking instance of LoopSchedule; see the .cfg files. *)
EXTENDS LoopSchedule
=============================================================================
