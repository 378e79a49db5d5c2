---------------------------- MODULE MCYapayZeka -----------------------------
(* An instance of YapayZeka for TLC: all sixteen registers and the counter at its     *)
(* real width. What the registers hold does not matter to the counter.              *)
EXTENDS YapayZeka, TLC

=============================================================================
