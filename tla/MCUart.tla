------------------------------- MODULE MCUart -------------------------------
(* An instance of Uart for TLC: bytes of two bits, a transmit queue of two cells   *)
(* and a receive queue of three.                                                   *)
EXTENDS Uart, TLC

MCBaytlar == {[i \in 0 .. BIT - 1 |-> IF i = 0 THEN 1 ELSE 0],
              [i \in 0 .. BIT - 1 |-> IF i = 0 THEN 0 ELSE 1]}

=============================================================================
