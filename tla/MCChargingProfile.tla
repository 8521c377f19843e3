--------------------------- MODULE MCChargingProfile ---------------------------
(* Two days between short EQs, one between absorbs, days of three parts; six days. *)
EXTENDS ChargingProfile
=============================================================================
