----------------------------- MODULE MCTransmit -----------------------------
(***************************************************************************)
(* Transmit with two flows.                                                *)
(***************************************************************************)
EXTENDS Transmit

CONSTANTS Fpp1, Fpp2, Forward, Back

FppOf == [f \in 1 .. 2 |-> IF f = 1 THEN Fpp1 ELSE Fpp2]
JumpsOf == {Forward, -Back}
=============================================================================
