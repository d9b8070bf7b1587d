---------------------------- MODULE MCTxReaders ----------------------------
(* Instances of TxReaders for TLC: one caller reading one of two rivals.    *)
EXTENDS TxReaders, TLC

CONSTANTS t1, t2, s1, r1

RivalSlots == (t1 :> s1) @@ (t2 :> s1)
ReadFound  == r1 :> t1
=============================================================================
