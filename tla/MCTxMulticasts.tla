-------------------------- MODULE MCTxMulticasts --------------------------
(* TxMulticasts for TLC: the multicast addresses and the channels are       *)
(* interchangeable.                                                         *)
EXTENDS TxMulticasts, TLC

Interchangeable == Permutations(MulticastAddrs) \cup Permutations(Channels)
=============================================================================
