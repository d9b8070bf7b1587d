---------------------------- MODULE ChainClient ----------------------------
(***************************************************************************)
(* The Web3 client of a Chain (chain.py): created on first use or by       *)
(* configure_chain, assigned to the chain, and only then given the cache   *)
(* middleware of RpcCache; and the requests threads make through it.       *)
(*                                                                         *)
(* No lock guards the client.  A chain in Warm has been used before the    *)
(* threads were started; the others are cold.  What configure_chain        *)
(* configures (the endpoints) is left out, that the client is replaced is  *)
(* not.  Strict default contexts, which only refuse requests, are left out.*)
(***************************************************************************)
EXTENDS RpcCache

CONSTANTS
    Warm,           \* chains whose client exists when the threads start
    Uses,           \* the chains each thread makes requests to
    Configures,     \* <<thread, chain>> that may call configure_chain
    MaxConfigures   \* bound on those calls between two restarts

ASSUME ClientAssumption ==
    /\ Warm \subseteq Chain /\ None \notin Chain
    /\ Uses \in [Thread -> SUBSET Chain]
    /\ Configures \subseteq Thread \X Chain
    /\ MaxConfigures \in Nat

VARIABLES
    layers,         \* of each Web3 made for a chain: how often it has the middleware;
                    \* _w3 is the newest one, None if there is none
    op,             \* where each thread is in w3, configure_chain or a request
    configured      \* calls of configure_chain so far

clientVars == <<layers, op, configured>>
vars == <<cacheVars, clientVars>>

OpType ==
    [at : {"idle", "create", "attach", "return", "have", "request"},
     chain : Chain \union {None}, configuring : BOOLEAN,
     client : Nat]                  \* what the property w3 returned, 0 if nothing yet

TypeOK ==
    /\ RpcTypeOK
    /\ layers \in [Chain -> Seq(Nat)]
    /\ op \in [Thread -> OpType]
    /\ \A t \in Thread : op[t].client > 0 => op[t].client <= Len(layers[op[t].chain])
    /\ configured \in 0 .. MaxConfigures

Resting == [at |-> "idle", chain |-> None, configuring |-> FALSE, client |-> 0]
Started == [c \in Chain |-> IF c \in Warm THEN <<1>> ELSE <<>>]

Init ==
    /\ RpcInit
    /\ layers = Started
    /\ op = [t \in Thread |-> Resting]
    /\ configured = 0

Newest(c) == Len(layers[c])

-----------------------------------------------------------------------------
(* The property w3, _create_w3 and configure_chain.                         *)

\* The test of _w3; without a client one is created.
Use(t, c) ==
    /\ op[t].at = "idle" /\ c \in Uses[t]
    /\ op' = [op EXCEPT ![t] =
           [Resting EXCEPT !.chain = c,
                           !.at = IF Newest(c) = 0 THEN "create" ELSE "return"]]
    /\ UNCHANGED <<cacheVars, layers, configured>>

Configure(t, c) ==
    /\ op[t].at = "idle" /\ <<t, c>> \in Configures
    /\ configured < MaxConfigures /\ configured' = configured + 1
    /\ op' = [op EXCEPT ![t] =
           [Resting EXCEPT !.chain = c, !.at = "create", !.configuring = TRUE]]
    /\ UNCHANGED <<cacheVars, layers>>

\* The new client is assigned, still without the middleware.
Create(t) ==
    /\ op[t].at = "create"
    /\ layers' = [layers EXCEPT ![op[t].chain] = Append(@, 0)]
    /\ op' = [op EXCEPT ![t].at = "attach"]
    /\ UNCHANGED <<cacheVars, configured>>

Attached(t) == IF op[t].configuring THEN Resting ELSE [op[t] EXCEPT !.at = "return"]

\* Variant: the middleware is added only by the property w3.
Attach_LazyOnly(t) ==
    /\ op[t].at = "attach"
    /\ layers' = IF op[t].configuring THEN layers
                 ELSE [layers EXCEPT ![op[t].chain][Newest(op[t].chain)] = @ + 1]
    /\ op' = [op EXCEPT ![t] = Attached(t)]
    /\ UNCHANGED <<cacheVars, configured>>

\* self._w3 is read again: the middleware goes to the newest client.
Attach(t) ==
    /\ op[t].at = "attach"
    /\ layers' = [layers EXCEPT ![op[t].chain][Newest(op[t].chain)] = @ + 1]
    /\ op' = [op EXCEPT ![t] = Attached(t)]
    /\ UNCHANGED <<cacheVars, configured>>

\* And once more to return it.
ReturnClient(t) ==
    /\ op[t].at = "return"
    /\ op' = [op EXCEPT ![t].at = "have", ![t].client = Newest(op[t].chain)]
    /\ UNCHANGED <<cacheVars, layers, configured>>

-----------------------------------------------------------------------------
(* Requests.                                                                *)

Request(t) ==
    /\ op[t].at = "have"
    /\ Begin(t, op[t].chain, layers[op[t].chain][op[t].client])
    /\ op' = [op EXCEPT ![t].at = "request"]
    /\ UNCHANGED <<layers, configured>>

Progress(t) == Serve(t) /\ UNCHANGED clientVars

Finish(t) ==
    /\ op[t].at = "request" /\ req[t].at \in {"done", "failed"}
    /\ op' = [op EXCEPT ![t] = Resting]
    /\ req' = [req EXCEPT ![t] = Idle]
    /\ UNCHANGED <<deployed, cache, durable, layers, configured>>

\* The process ends and starts again with what was committed.
Restart ==
    /\ cache' = durable
    /\ req' = [t \in Thread |-> Idle]
    /\ layers' = Started
    /\ op' = [t \in Thread |-> Resting]
    /\ configured' = 0
    /\ UNCHANGED <<deployed, durable>>

Step(t) ==
    Create(t) \/ Attach(t) \/ ReturnClient(t) \/ Request(t) \/ Progress(t) \/ Finish(t)

Next ==
    \/ \E t \in Thread, c \in Chain : Use(t, c) \/ Configure(t, c)
    \/ \E t \in Thread : Step(t)
    \/ \E c \in Chain, a \in Address : Deploy(c, a) /\ UNCHANGED clientVars
    \/ Restart

Spec == Init /\ [][Next]_vars

-----------------------------------------------------------------------------
(* Properties.                                                              *)

\* Whatever threads race to create and to configure a client, the one a chain ends up
\* with has the cache: it is without only while somebody is about to add it
\* (_create_w3 assigns the client before it adds the middleware to it).
ClientIsCached ==
    \A c \in Chain :
        Newest(c) > 0 /\ layers[c][Newest(c)] = 0 =>
            \E t \in Thread : op[t].at = "attach" /\ op[t].chain = c

\* RpcCacheMiddleware.after_request: "Store fresh results and merge them with cached
\* hits".  Two threads that use a cold chain at once both add the middleware to the
\* newest client, and the two layers overwrite each other's part of ctx.state.
HitsAreMerged == AnswersInPlace
=============================================================================
