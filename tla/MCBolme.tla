------------------------------ MODULE MCBolme -------------------------------
(* An instance of Bolme for TLC: every division of two four-bit numbers.            *)
EXTENDS Bolme, TLC

=============================================================================
