------------------------------ MODULE BlockFeed ------------------------------
(***************************************************************************)
(* Blocks found through the height of a chain: the generator of            *)
(* Chain.new_blocks (chain.py 242-277) and the relative indices of         *)
(* Chain.__getitem__ (chain.py 139-147).                                   *)
(*                                                                         *)
(* A request is answered by any node of a pool, each at most Lag blocks    *)
(* behind the newest.  A generator runs on the thread that resumes it,     *)
(* under the default chain of that moment, and an exception ends it.       *)
(***************************************************************************)
EXTENDS ChainContext

CONSTANTS
    Lag,            \* how far a node may be behind
    Buffer,         \* height_buffer and -1 - block_number
    MaxTip          \* bound: the highest block

ASSUME FeedAssumption ==
    Lag \in Nat /\ Buffer \subseteq Nat /\ MaxTip \in Nat

VARIABLE feed       \* one per thread: a generator, or the deferred block of an index

FeedStages == {"none", "made", "polling", "draining", "suspended", "indexed", "ended"}

\* tip: the newest block anywhere; got: the blocks returned, and whether the node that
\* was asked for them had them.
FeedType ==
    [stage : FeedStages, chain : Chain \union {NoChain}, tip : Nat, buffer : Nat,
     last : Nat, current : Nat, got : Seq([block : Nat, found : BOOLEAN])]

NewFeed(stage_, c, tip_, buffer_, low) ==
    [stage |-> stage_, chain |-> c, tip |-> tip_, buffer |-> buffer_,
     last |-> 0, current |-> low, got |-> <<>>]

NoFeed == NewFeed("none", NoChain, 0, 0, 0)

FeedInit == feed = [t \in Worker |-> NoFeed]

\* The heights a node may report, or have blocks up to.
Heights(t) == {h \in 0 .. feed[t].tip : h + Lag >= feed[t].tip}

\* Variant: the difference alone.
Behind_Raw(h, buffer) == h - buffer

Behind(h, buffer) == IF h > buffer THEN h - buffer ELSE 0

Ended(t) == feed' = [feed EXCEPT ![t].stage = "ended"]

Open(t) == Permitted(t, feed[t].chain)

Follow(t, c, buffer) ==
    /\ feed[t].stage = "none"
    /\ \E tip \in 0 .. MaxTip :
           feed' = [feed EXCEPT ![t] = NewFeed("made", c, tip, buffer, 0)]

\* The first next().
Begin(t) ==
    /\ feed[t].stage = "made"
    /\ IF ~Open(t) THEN Ended(t)
       ELSE \E h \in Heights(t) :
                feed' = [feed EXCEPT ![t].stage = "polling",
                                     ![t].last = Behind(h, feed[t].buffer)]

Poll(t) ==
    /\ feed[t].stage = "polling"
    /\ IF ~Open(t) THEN Ended(t)
       ELSE \E h \in Heights(t) :
                feed' = [feed EXCEPT ![t].stage = "draining",
                                     ![t].current = Behind(h, feed[t].buffer)]

Pending(t) == feed[t].stage \in {"draining", "suspended"} /\ feed[t].current > feed[t].last

\* The block of this number, from whichever node is asked.
Got(t, block) ==
    \E h \in Heights(t) : feed' = [feed EXCEPT ![t].stage = "suspended", ![t].last = block,
                                       ![t].got = Append(@, [block |-> block, found |-> block <= h])]

Yield(t) ==
    /\ Pending(t)
    /\ IF Open(t) THEN Got(t, feed[t].last + 1) ELSE Ended(t)

\* Variant: the height that was reported is where the feed has got to.
Sleep_Resets(t) ==
    /\ feed[t].stage \in {"draining", "suspended"} /\ ~Pending(t)
    /\ feed' = [feed EXCEPT ![t].stage = "polling", ![t].last = feed[t].current]

Sleep(t) ==
    /\ feed[t].stage \in {"draining", "suspended"} /\ ~Pending(t)
    /\ feed' = [feed EXCEPT ![t].stage = "polling"]

\* chain[-1 - behind]: the height is requested, and arrives by the time the block is used.
Index(t, c, behind) ==
    /\ feed[t].stage = "none" /\ Permitted(t, c) /\ behind > 0
    /\ \E tip \in 0 .. MaxTip :
           feed' = [feed EXCEPT ![t] = NewFeed("indexed", c, tip, behind, Behind(tip, Lag))]

\* First use of the deferred block, under the default chain of that moment.
UseIndex(t) ==
    /\ feed[t].stage = "indexed"
    /\ \E height \in feed[t].current .. feed[t].tip :
           IF height < feed[t].buffer \/ ~Open(t) THEN Ended(t)
           ELSE \E h \in Heights(t) :
                    LET block == height - feed[t].buffer
                    IN  feed' = [feed EXCEPT ![t].stage = "ended", ![t].got =
                                     <<[block |-> block, found |-> block <= h]>>]

DropFeed(t) == feed[t].stage # "none" /\ feed' = [feed EXCEPT ![t] = NoFeed]

Grow(t) ==
    /\ feed[t].stage \notin {"none", "ended"} /\ feed[t].tip < MaxTip
    /\ feed' = [feed EXCEPT ![t].tip = @ + 1]

\* While the generator runs its thread does nothing else.
Running(t) == t \in Worker /\ feed[t].stage \in {"polling", "draining"}

FeedStep(t) ==
    /\ \/ \E c \in Chain, buffer \in Buffer : Follow(t, c, buffer) \/ Index(t, c, buffer)
       \/ Begin(t) \/ Poll(t) \/ Yield(t) \/ Sleep(t) \/ UseIndex(t) \/ DropFeed(t) \/ Grow(t)
    /\ UNCHANGED contextVars

FeedSpec ==
    ContextInit /\ FeedInit
    /\ [][\/ \E t \in Thread : ~Running(t) /\ ContextStep(t) /\ UNCHANGED feed
          \/ \E t \in Worker : FeedStep(t)]_<<contextVars, feed>>

FeedTypeOK == feed \in [Worker -> FeedType]

-----------------------------------------------------------------------------

\* A feed returns every block once and in order, whatever heights nodes report, and a
\* feed or index that stays Lag blocks behind only asks for blocks every node has
\* (chain.py 254, 266-274).
BlocksAreThere ==
    \A t \in Worker :
        /\ \A i \in 1 .. Len(feed[t].got) :
               feed[t].got[i].block = feed[t].got[1].block + i - 1
        /\ feed[t].buffer >= Lag => \A i \in 1 .. Len(feed[t].got) : feed[t].got[i].found
=============================================================================
