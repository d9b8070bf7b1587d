---------------------------- MODULE MCTxMonitor ----------------------------
(* Instances of TxMonitor for TLC.                                          *)
EXTENDS TxMonitor, TLC

CONSTANTS t1, t2, s1

\* t1 was found by hash, t2 is a local replacement for the same nonce.
RivalSlots == (t1 :> s1) @@ (t2 :> s1)
=============================================================================
