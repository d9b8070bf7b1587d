---------------------------- MODULE MCAbiLookup ----------------------------
(* An instance of AbiLookup for TLC.                                        *)
EXTENDS AbiLookup, TLC

CONSTANTS c1, c2, k1

Ask(priority_, forced_, notify_) ==
    [key |-> k1, priority |-> priority_, forced |-> forced_, notify |-> notify_]

\* An urgent lookup and a forced refresh in the background, of the same contract: the
\* first may share the second's job and raise it, the second supersedes the first's.
PairAsks == (c1 :> Ask("high", FALSE, TRUE)) @@ (c2 :> Ask("low", TRUE, TRUE))
=============================================================================
