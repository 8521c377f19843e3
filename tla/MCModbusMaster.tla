--------------------------- MODULE MCModbusMaster ---------------------------
(* The model-checking instance of ModbusMaster; see the .cfg files. *)
EXTENDS ModbusMaster
=============================================================================
