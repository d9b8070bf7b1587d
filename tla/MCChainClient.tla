--------------------------- MODULE MCChainClient ---------------------------
(* Instances of ChainClient for TLC.                                        *)
EXTENDS ChainClient, TLC

CONSTANTS m, s, a1, t1, t2

Call(method_) == [method |-> method_, address |-> a1]

Uncached == [c \in Chain |-> <<Call("other")>>]

\* The same contract of chain m, asked for in different batches: the calls that are
\* cached are the first, the last or all of one.  On chain s nothing is cached.
Batches ==
    (t1 :> [Uncached EXCEPT ![m] = <<Call("eth_getCode"), Call("other")>>])
        @@ (t2 :> [Uncached EXCEPT ![m] =
                       <<Call("other"), Call("eth_getCode"), Call("eth_call")>>])

UseBoth == [t \in Thread |-> Chain]
FirstConfigures == {<<t1, m>>}
NobodyConfigures == {}
=============================================================================
