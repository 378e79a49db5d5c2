--------------------------- MODULE MCBellekSistemi ---------------------------
(* Instances of BellekSistemi for TLC. *)
EXTENDS BellekSistemi

=============================================================================
