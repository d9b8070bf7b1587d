------------------------------- MODULE Session -------------------------------
(***************************************************************************)
(* Threads that use the library: each enters and leaves default chains     *)
(* while it follows blocks, calls methods, replaces transactions or reads  *)
(* events.  Operations of different threads share nothing but the context  *)
(* managers, and those of one thread only its default chain, so a thread   *)
(* is given one of them at a time.                                         *)
(***************************************************************************)
EXTENDS BlockFeed, MethodCalls, Bids, EventReads

sessionVars == <<contextVars, feed, call, bid, reading>>

Init == ContextInit /\ FeedInit /\ CallInit /\ BidInit /\ ReadingInit

\* What a thread has under way.
Tasks(t) ==
    {task \in {"feed", "call", "bid", "reading"} :
        \/ task = "feed" /\ feed[t] # NoFeed
        \/ task = "call" /\ call[t] # NoCall
        \/ task = "bid" /\ bid[t] # NoBid
        \/ task = "reading" /\ reading[t] # NoReading}

\* Statements of the caller: not in the middle of a method call or of a generator.
MayChangeContext(t) == ~Running(t) /\ (t \in Worker => call[t] = NoCall)

Next ==
    \/ \E t \in Thread :
           /\ MayChangeContext(t) /\ ContextStep(t)
           /\ UNCHANGED <<feed, call, bid, reading>>
    \/ \E t \in Worker :
           \/ Tasks(t) \subseteq {"feed"} /\ FeedStep(t) /\ UNCHANGED <<call, bid, reading>>
           \/ Tasks(t) \subseteq {"call"} /\ CallStep(t) /\ UNCHANGED <<feed, bid, reading>>
           \/ Tasks(t) \subseteq {"bid"} /\ BidStep(t) /\ UNCHANGED <<feed, call, reading>>
           \/ Tasks(t) \subseteq {"reading"} /\ ReadingStep(t) /\ UNCHANGED <<feed, call, bid>>

Spec == Init /\ [][Next]_sessionVars

\* Everything has its type; an undecoded log and a refused call are values too.
TypeOK ==
    /\ ContextTypeOK /\ FeedTypeOK /\ BidTypeOK
    /\ \A t \in Worker :
           /\ call[t] # NoCall => \A r \in call[t].requests : r.chain \in Chain
           /\ reading[t] # NoReading =>
                  \A i \in DOMAIN reading[t].events :
                      reading[t].events[i].kind
                          \in {"event", "malformed", "abi_missing", "topic_missing"}
=============================================================================
