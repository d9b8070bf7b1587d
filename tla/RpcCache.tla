------------------------------ MODULE RpcCache ------------------------------
(***************************************************************************)
(* The middleware that keeps RPC answers in the cache file (cache/rpc.py): *)
(* a batch loses the calls that are cached, the rest is sent, and what     *)
(* comes back is stored and merged with the hits.                          *)
(*                                                                         *)
(* Several threads run batches against one cache, and contracts are        *)
(* deployed meanwhile.  A client may carry the middleware more than once   *)
(* (see ChainClient): the layers of one request share its context object,  *)
(* ctx.state, before_request runs from the first layer to the last one and *)
(* after_request back.  A deployed contract keeps its code and its name.   *)
(***************************************************************************)
EXTENDS Naturals, Sequences

CONSTANTS
    Chain, Address,
    Thread,         \* threads that send batches, one at a time
    Batch,          \* the calls each of them makes to each chain
    None            \* Python's None

\* A call of eth_getCode, or of eth_call for ERC-20 metadata, at the latest block; "other"
\* is every call that no cache rule accepts.
CallType == [method : {"eth_getCode", "eth_call", "other"}, address : Address]

ASSUME BatchAssumption == Batch \in [Thread -> [Chain -> Seq(CallType)]]

Kind == {"empty", "code", "name", "number", "error"}
Value == [kind : Kind, chain : Chain, call : CallType]

ASSUME ValueAssumption == None \notin Value

VARIABLES
    deployed,       \* <<chain, address>> of the contracts that exist
    cache,          \* the table rpc_cache, as this process sees it
    durable,        \* what a restart finds of it
    req             \* each thread's request

cacheVars == <<deployed, cache, durable, req>>

CacheKey == Chain \X CallType

RequestType ==
    [at : {"idle", "before", "direct", "after", "commit", "done", "failed"},
     chain : Chain \union {None},
     layers : Nat, layer : Nat,     \* on the client; the one that is running
     born : SUBSET (Chain \X Address),          \* history: deployed at the start
     calls : Seq(CallType),                     \* the argument of before_request
     hits : Seq(Value \union {None}),           \* ctx.state, None for a miss
     missIndexes : Seq(Nat \ {0}), missCalls : Seq(CallType),
     results : Seq(Value \union {None}),        \* the argument of after_request
     merged : Seq(Value \union {None}), next : Nat]

RpcTypeOK ==
    /\ deployed \subseteq Chain \X Address
    /\ cache \in [CacheKey -> Value \union {None}]
    /\ durable \in [CacheKey -> Value \union {None}]
    /\ req \in [Thread -> RequestType]

Idle ==
    [at |-> "idle", chain |-> None, layers |-> 0, layer |-> 0, born |-> {},
     calls |-> <<>>, hits |-> <<>>, missIndexes |-> <<>>, missCalls |-> <<>>,
     results |-> <<>>, merged |-> <<>>, next |-> 1]

RpcInit ==
    /\ deployed = {}
    /\ cache = [k \in CacheKey |-> None]
    /\ durable = cache
    /\ req = [t \in Thread |-> Idle]

-----------------------------------------------------------------------------
(* CACHE_RULES.                                                             *)

Cacheable(call) == call.method \in {"eth_getCode", "eth_call"}

\* Variant: an account without code is remembered as such.
Storable_Empty(call, result) == Cacheable(call) /\ result.kind # "error"

\* The rule for code looks for the empty answer only, the one for metadata for errors.
Storable(call, result) ==
    \/ call.method = "eth_getCode" /\ result.kind # "empty"
    \/ call.method = "eth_call" /\ result.kind # "error"

-----------------------------------------------------------------------------
(* The node: what it answers now, or an error.                              *)

Current(chain, call) ==
    LET exists == <<chain, call.address>> \in deployed IN
    CASE call.method = "eth_getCode" -> IF exists THEN "code" ELSE "empty"
      [] call.method = "eth_call"    -> IF exists THEN "name" ELSE "empty"
      [] OTHER                       -> "number"

Answer(chain, call) ==
    [kind : {Current(chain, call), "error"}, chain : {chain}, call : {call}]

Answers(chain, calls) ==
    {s \in [1 .. Len(calls) -> UNION {Answer(chain, calls[i]) : i \in 1 .. Len(calls)}] :
        \A i \in 1 .. Len(calls) : s[i] \in Answer(chain, calls[i])}

Deploy(c, a) ==
    /\ <<c, a>> \notin deployed
    /\ deployed' = deployed \union {<<c, a>>}
    /\ UNCHANGED <<cache, durable, req>>

-----------------------------------------------------------------------------
(* before_request.                                                          *)

\* A request enters a client with this many layers of the middleware.
Begin(t, c, layers) ==
    /\ req[t].at \in {"idle", "done", "failed"}
    /\ req' = [req EXCEPT ![t] =
           [Idle EXCEPT !.at = IF layers = 0 THEN "direct" ELSE "before", !.chain = c,
                        !.layers = layers, !.layer = 1, !.born = deployed,
                        !.calls = Batch[t][c]]]
    /\ UNCHANGED <<deployed, cache, durable>>

\* RpcCache.get
Cached(c, call) == cache[<<c, call>>]

\* Variant: a miss is noted with the index of the call before it.
Note_Before(q, call, value) ==
    IF value # None THEN [q EXCEPT !.hits = Append(@, value)]
    ELSE [q EXCEPT !.hits = Append(@, None),
                   !.missIndexes = Append(@, Len(q.hits)),
                   !.missCalls = Append(@, call)]

\* A hit is kept, a miss is sent.
Note(q, call, value) ==
    IF value # None THEN [q EXCEPT !.hits = Append(@, value)]
    ELSE [q EXCEPT !.hits = Append(@, None),
                   !.missIndexes = Append(@, Len(q.hits) + 1),
                   !.missCalls = Append(@, call)]

Lookup(t) ==
    /\ req[t].at = "before" /\ Len(req[t].hits) < Len(req[t].calls)
    /\ LET call == req[t].calls[Len(req[t].hits) + 1] IN
       req' = [req EXCEPT ![t] =
           Note(@, call, IF Cacheable(call) THEN Cached(req[t].chain, call) ELSE None)]
    /\ UNCHANGED <<deployed, cache, durable>>

Filtered(t) == req[t].at = "before" /\ Len(req[t].hits) = Len(req[t].calls)

\* The next layer gets what is left, and overwrites ctx.state.
NextLayer(t) ==
    /\ Filtered(t) /\ req[t].layer < req[t].layers
    /\ req' = [req EXCEPT ![t] =
           [@ EXCEPT !.layer = req[t].layer + 1, !.calls = req[t].missCalls, !.hits = <<>>,
                     !.missIndexes = <<>>, !.missCalls = <<>>]]
    /\ UNCHANGED <<deployed, cache, durable>>

Send(t) ==
    /\ Filtered(t) /\ req[t].layer = req[t].layers
    /\ \E results \in Answers(req[t].chain, req[t].missCalls) :
           req' = [req EXCEPT ![t] =
               [@ EXCEPT !.at = "after", !.results = results, !.merged = req[t].hits]]
    /\ UNCHANGED <<deployed, cache, durable>>

\* A client without the middleware.
SendDirect(t) ==
    /\ req[t].at = "direct"
    /\ \E results \in Answers(req[t].chain, req[t].calls) :
           req' = [req EXCEPT ![t] = [@ EXCEPT !.at = "done", !.merged = results]]
    /\ UNCHANGED <<deployed, cache, durable>>

\* The transport fails; after_request is not reached.
SendFails(t) ==
    /\ \/ Filtered(t) /\ req[t].layer = req[t].layers /\ req[t].missCalls # <<>>
       \/ req[t].at = "direct"
    /\ req' = [req EXCEPT ![t].at = "failed"]
    /\ UNCHANGED <<deployed, cache, durable>>

-----------------------------------------------------------------------------
(* after_request: the strict zip of misses and results.                     *)

Zipped(t) ==
    req[t].next > Len(req[t].missIndexes) \/ req[t].next > Len(req[t].results)

Item(t) == [call |-> req[t].missCalls[req[t].next],
             index |-> req[t].missIndexes[req[t].next],
             result |-> req[t].results[req[t].next]]

\* Variant: results are numbered as they were sent.
Merge_AsSent(q, item) ==
    [q EXCEPT !.merged[q.next] = item.result, !.next = @ + 1, !.at = "after"]

\* An answer goes where its call was.
Merge(q, item) ==
    [q EXCEPT !.merged[item.index] = item.result, !.next = @ + 1, !.at = "after"]

Keep(t) ==
    /\ req[t].at = "after" /\ ~Zipped(t)
    /\ ~Storable(Item(t).call, Item(t).result)
    /\ req' = [req EXCEPT ![t] = Merge(@, Item(t))]
    /\ UNCHANGED <<deployed, cache, durable>>

\* RpcCache.set: the INSERT is seen by every thread at once, and lasts once committed.
Store(t) ==
    /\ req[t].at = "after" /\ ~Zipped(t)
    /\ Storable(Item(t).call, Item(t).result) /\ Item(t).result.kind # "error"
    /\ cache' = [cache EXCEPT ![<<req[t].chain, Item(t).call>>] = Item(t).result]
    /\ req' = [req EXCEPT ![t].at = "commit"]
    /\ UNCHANGED <<deployed, durable>>

\* The connection is shared: a commit makes everybody's writes last.
Commit(t) ==
    /\ req[t].at = "commit"
    /\ durable' = cache
    /\ req' = [req EXCEPT ![t] = Merge(@, Item(t))]
    /\ UNCHANGED <<deployed, cache>>

\* An error that answers eth_getCode reaches json.dumps, which raises.
StoreFails(t) ==
    /\ req[t].at = "after" /\ ~Zipped(t)
    /\ Storable(Item(t).call, Item(t).result) /\ Item(t).result.kind = "error"
    /\ req' = [req EXCEPT ![t].at = "failed"]
    /\ UNCHANGED <<deployed, cache, durable>>

SameLength(t) == Len(req[t].missIndexes) = Len(req[t].results)

Return(t) ==
    /\ req[t].at = "after" /\ Zipped(t)
    /\ req' = [req EXCEPT ![t] =
           IF ~SameLength(t) THEN [@ EXCEPT !.at = "failed"]
           ELSE IF req[t].layer = 1 THEN [@ EXCEPT !.at = "done"]
           ELSE [@ EXCEPT !.layer = req[t].layer - 1, !.results = req[t].merged,
                          !.merged = req[t].hits, !.next = 1]]
    /\ UNCHANGED <<deployed, cache, durable>>

Serve(t) ==
    \/ Lookup(t) \/ NextLayer(t) \/ Send(t) \/ SendDirect(t) \/ SendFails(t)
    \/ Keep(t) \/ Store(t) \/ Commit(t) \/ StoreFails(t) \/ Return(t)

-----------------------------------------------------------------------------
(* Properties.                                                              *)

\* Every call of a batch gets its own answer, from its own chain, whichever of the calls
\* were cached and whatever other threads stored meanwhile ("Store fresh results and
\* merge them with cached hits").
AnswersInPlace ==
    \A t \in Thread : req[t].at = "done" =>
        LET asked == Batch[t][req[t].chain] IN
        /\ Len(req[t].merged) = Len(asked)
        /\ \A i \in 1 .. Len(asked) :
               /\ req[t].merged[i] # None
               /\ req[t].merged[i].call = asked[i]
               /\ req[t].merged[i].chain = req[t].chain

\* Caching hides no deployment: code that existed when the request was made is not
\* reported missing, and nothing is reported that does not exist (the rule that empty
\* code is not stored, also when another thread's older answer is stored in between).
CodeIsCurrent ==
    \A t \in Thread : req[t].at = "done" =>
        \A i \in 1 .. Len(req[t].merged) :
            LET answer == req[t].merged[i] IN
            answer # None =>
                LET contract == <<req[t].chain, answer.call.address>> IN
                /\ answer.kind \in {"code", "name"} => contract \in deployed
                /\ answer.kind = "empty" /\ answer.call.method = "eth_getCode" =>
                       contract \notin req[t].born
=============================================================================
