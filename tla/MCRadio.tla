-------------------------------- MODULE MCRadio --------------------------------
(* Three readings; up to three messages in each queue. *)
EXTENDS Radio
=============================================================================
