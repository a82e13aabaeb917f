----------------------------- MODULE MCReceive ------------------------------
(***************************************************************************)
(* Receive with two flows of different latencies.                          *)
(***************************************************************************)
EXTENDS Receive

CONSTANTS f1, f2

LatencyOf == [f \in Flows |-> IF f = f1 THEN 2 ELSE 3]
=============================================================================
