------------------------- MODULE ChainClientProofs -------------------------
(***************************************************************************)
(* For any number of threads and chains, however they race to create and   *)
(* to configure clients: no chain is left with a client that lacks the     *)
(* cache middleware, and requests and tables keep their types.  Where no   *)
(* two threads create clients of one chain: every call gets its own answer *)
(* and the cache hides no deployment.                                      *)
(***************************************************************************)
EXTENDS ChainClient, TLAPS

\* What the argument needs of the types.
ClientsType ==
    /\ layers \in [Chain -> Seq(Nat)]
    /\ op \in [Thread -> OpType]

\* Whoever is at work knows the chain, and has made a client before adding to one.
WorkersKnow ==
    \A t \in Thread :
        /\ op[t].at # "idle" => op[t].chain \in Chain
        /\ op[t].at = "attach" => layers[op[t].chain] # <<>>

Inv == ClientsType /\ WorkersKnow /\ ClientIsCached

-----------------------------------------------------------------------------
(* Sequences of counters.                                                   *)

\* The client that is appended is the newest and has no middleware.
LEMMA AppendedIsNewest ==
    ASSUME NEW q \in Seq(Nat)
    PROVE  /\ Append(q, 0) \in Seq(Nat)
           /\ Len(Append(q, 0)) > 0
  OBVIOUS

\* Adding to the newest client leaves it with the middleware.
LEMMA NewestIsCached ==
    ASSUME NEW q \in Seq(Nat), q # <<>>
    PROVE  /\ [q EXCEPT ![Len(q)] = @ + 1] \in Seq(Nat)
           /\ Len([q EXCEPT ![Len(q)] = @ + 1]) = Len(q)
           /\ [q EXCEPT ![Len(q)] = @ + 1][Len(q)] # 0
<1>1. Len(q) \in Nat /\ Len(q) \in 1 .. Len(q) /\ q \in [1 .. Len(q) -> Nat]
  OBVIOUS
<1>2. q[Len(q)] \in Nat
  BY <1>1
<1>3. [q EXCEPT ![Len(q)] = @ + 1] \in [1 .. Len(q) -> Nat]
  BY <1>1, <1>2
<1>4. [q EXCEPT ![Len(q)] = @ + 1] \in Seq(Nat)
  BY <1>1, <1>3
<1>5. DOMAIN [q EXCEPT ![Len(q)] = @ + 1] = 1 .. Len(q)
  BY <1>1
<1>6. Len([q EXCEPT ![Len(q)] = @ + 1]) = Len(q)
  BY <1>1, <1>4, <1>5
<1>7. [q EXCEPT ![Len(q)] = @ + 1][Len(q)] = q[Len(q)] + 1
  BY <1>1
<1> QED
  BY <1>2, <1>4, <1>6, <1>7

-----------------------------------------------------------------------------
(* The inductive step.                                                      *)

USE DEF ClientsType, WorkersKnow, ClientIsCached, OpType, Resting, Newest

\* At the start, warm chains have the middleware and every thread rests.
LEMMA StartedType == Started \in [Chain -> Seq(Nat)] /\ Resting \in OpType
<1>1. <<1>> \in Seq(Nat) /\ <<>> \in Seq(Nat)
  OBVIOUS
<1> QED
  BY <1>1 DEF Started

LEMMA StartedCached ==
    ASSUME NEW c \in Chain, Len(Started[c]) > 0
    PROVE  Started[c][Len(Started[c])] = 1
<1>1. Len(<<>>) = 0 /\ Len(<<1>>) = 1 /\ <<1>>[1] = 1
  OBVIOUS
<1> QED
  BY <1>1 DEF Started

LEMMA InvInit == Init => Inv
<1> SUFFICES ASSUME Init PROVE Inv
  OBVIOUS
<1>1. layers = Started /\ op = [t \in Thread |-> Resting]
  BY DEF Init
<1>2. ClientsType /\ WorkersKnow
  BY <1>1, StartedType
<1>3. ClientIsCached
  BY <1>1, StartedCached
<1> QED
  BY <1>2, <1>3 DEF Inv

LEMMA RestartStep == Restart => Inv'
<1> SUFFICES ASSUME Restart PROVE Inv'
  OBVIOUS
<1>1. layers' = Started /\ op' = [t \in Thread |-> Resting]
  BY DEF Restart
<1>2. ClientsType' /\ WorkersKnow'
  BY <1>1, StartedType
<1>3. ClientIsCached'
  BY <1>1, StartedCached
<1> QED
  BY <1>2, <1>3 DEF Inv

\* A thread that changes only its place keeps its record.
LEMMA Moved ==
    ASSUME NEW o \in OpType,
           NEW at \in {"idle", "create", "attach", "return", "have", "request"}
    PROVE  /\ [o EXCEPT !.at = at] \in OpType
           /\ [o EXCEPT !.at = at].at = at
           /\ [o EXCEPT !.at = at].chain = o.chain
  OBVIOUS

\* A created client lacks the middleware, and its creator is about to add it.
LEMMA CreateStep == ASSUME Inv, NEW t \in Thread, Create(t) PROVE Inv'
<1> USE DEF Inv
<1>1. PICK d \in Chain : d = op[t].chain
  BY DEF Create
<1>2. op[t] \in OpType
  OBVIOUS
<1>3. PICK next \in OpType :
          next.at = "attach" /\ next.chain = d /\ op' = [op EXCEPT ![t] = next]
  BY <1>1, <1>2, Moved DEF Create
<1>4. layers' = [layers EXCEPT ![d] = Append(layers[d], 0)]
  BY <1>1 DEF Create
<1>5. layers[d] \in Seq(Nat)
  OBVIOUS
<1>6. layers'[d] \in Seq(Nat) /\ layers'[d] # <<>>
  BY <1>4, <1>5, AppendedIsNewest
<1>7. ClientsType' /\ WorkersKnow'
  BY <1>3, <1>4, <1>6
<1>8. op[t].at = "create" /\ op'[t] = next
  BY <1>3 DEF Create
<1>9. \A u \in Thread : op[u].at = "attach" =>
          op'[u].at = "attach" /\ op'[u].chain = op[u].chain
  BY <1>3, <1>8
<1>10. \A c \in Chain : c # d => layers'[c] = layers[c]
  BY <1>4
<1>11. ClientIsCached'
  BY <1>3, <1>8, <1>9, <1>10
<1> QED
  BY <1>7, <1>11

\* The middleware goes to the newest client, whoever made it.
LEMMA AttachStep == ASSUME Inv, NEW t \in Thread, Attach(t) PROVE Inv'
<1> USE DEF Inv
<1>1. PICK d \in Chain : d = op[t].chain /\ layers[d] # <<>>
  BY DEF Attach
<1>2. op[t] \in OpType /\ layers[d] \in Seq(Nat)
  OBVIOUS
<1>3. PICK next \in OpType :
          /\ next.at # "attach"
          /\ next.at # "idle" => next.chain \in Chain
          /\ op' = [op EXCEPT ![t] = next]
  BY <1>1, <1>2, Moved, StartedType DEF Attach, Attached
<1>4. layers' = [layers EXCEPT ![d] = [layers[d] EXCEPT ![Len(layers[d])] = @ + 1]]
  BY <1>1 DEF Attach
<1>5. /\ layers'[d] \in Seq(Nat) /\ Len(layers'[d]) = Len(layers[d])
      /\ layers'[d][Len(layers[d])] # 0
  BY <1>1, <1>2, <1>4, NewestIsCached
<1>6. ClientsType' /\ WorkersKnow'
  <2>1. Len(layers[d]) # 0
    BY <1>1, <1>2
  <2>2. layers'[d] # <<>>
    BY <1>5, <2>1
  <2>3. ClientsType'
    BY <1>3, <1>4, <1>5
  <2>4. \A c \in Chain : layers[c] # <<>> => layers'[c] # <<>>
    BY <1>4, <2>2
  <2>5. \A u \in Thread : op'[u] = next \/ op'[u] = op[u]
    BY <1>3
  <2>6. ASSUME NEW u \in Thread
        PROVE  /\ op'[u].at # "idle" => op'[u].chain \in Chain
               /\ op'[u].at = "attach" => layers'[op'[u].chain] # <<>>
    <3>1. CASE op'[u] = next
      BY <1>3, <3>1
    <3>2. CASE op'[u] = op[u]
      BY <2>4, <3>2
    <3> QED
      BY <2>5, <3>1, <3>2
  <2> QED
    BY <2>3, <2>6
<1>7. ClientIsCached'
  BY <1>1, <1>3, <1>4, <1>5
<1> QED
  BY <1>6, <1>7

\* The other steps create no client, and nobody stops halfway in creating one.
LEMMA OtherStep ==
    ASSUME Inv, NEW t \in Thread, NEW next \in OpType,
           op[t].at # "attach", next.at # "attach",
           next.at # "idle" => next.chain \in Chain,
           layers' = layers, op' = [op EXCEPT ![t] = next]
    PROVE  Inv'
  BY DEF Inv

\* Starting to use or to configure a chain.
LEMMA StartStep ==
    ASSUME Inv, NEW t \in Thread, NEW c \in Chain, Use(t, c) \/ Configure(t, c)
    PROVE  Inv'
<1>1. /\ [Resting EXCEPT !.chain = c, !.at = "create", !.configuring = TRUE] \in OpType
      /\ [Resting EXCEPT !.chain = c, !.at = "create", !.configuring = TRUE].at = "create"
      /\ [Resting EXCEPT !.chain = c, !.at = "create", !.configuring = TRUE].chain = c
  OBVIOUS
<1>2. CASE Use(t, c)
  <2>1. PICK at \in {"create", "return"} : op' = [op EXCEPT ![t] =
            [Resting EXCEPT !.chain = c, !.at = at]]
    BY <1>2 DEF Use
  <2>2. /\ [Resting EXCEPT !.chain = c, !.at = at] \in OpType
        /\ [Resting EXCEPT !.chain = c, !.at = at].at = at
        /\ [Resting EXCEPT !.chain = c, !.at = at].chain = c
    OBVIOUS
  <2> QED
    BY <1>2, <2>1, <2>2, OtherStep DEF Use
<1>3. CASE Configure(t, c)
  BY <1>1, <1>3, OtherStep DEF Configure
<1> QED
  BY <1>2, <1>3

\* Taking the client out of the chain, and starting the request.
LEMMA MoveStep ==
    ASSUME Inv, NEW t \in Thread, ReturnClient(t) \/ Request(t)
    PROVE  Inv'
<1>1. op[t] \in OpType /\ op[t].chain \in Chain
  BY DEF Inv, ReturnClient, Request
<1>2. Len(layers[op[t].chain]) \in Nat
  BY <1>1 DEF Inv
<1>3. CASE ReturnClient(t)
  <2> DEFINE next == [op[t] EXCEPT !.at = "have", !.client = Len(layers[op[t].chain])]
  <2>1. next \in OpType /\ next.at = "have" /\ next.chain = op[t].chain
    BY <1>1, <1>2
  <2>2. op' = [op EXCEPT ![t] = next]
    BY <1>3 DEF ReturnClient, Inv
  <2>3. op[t].at # "attach" /\ layers' = layers
    BY <1>3 DEF ReturnClient
  <2> HIDE DEF next
  <2> QED
    BY <1>1, <2>1, <2>2, <2>3, OtherStep
<1>4. CASE Request(t)
  <2> DEFINE next == [op[t] EXCEPT !.at = "request"]
  <2>1. next \in OpType /\ next.at = "request" /\ next.chain = op[t].chain
    BY <1>1, Moved
  <2>2. op' = [op EXCEPT ![t] = next] /\ op[t].at # "attach" /\ layers' = layers
    BY <1>4 DEF Request
  <2> HIDE DEF next
  <2> QED
    BY <1>1, <2>1, <2>2, OtherStep
<1> QED
  BY <1>3, <1>4

\* Every step keeps the invariant.
LEMMA InvStep == Inv /\ [Next]_vars => Inv'
<1> SUFFICES ASSUME Inv, [Next]_vars PROVE Inv'
  OBVIOUS
<1>1. ASSUME NEW t \in Thread, Finish(t) PROVE Inv'
  BY <1>1, StartedType, OtherStep DEF Finish
<1>2. CASE UNCHANGED clientVars
  BY <1>2 DEF clientVars, Inv
<1> QED
  BY <1>1, <1>2, StartStep, CreateStep, AttachStep, MoveStep, RestartStep
     DEF Next, Step, Progress, vars

\* However threads race, the client a chain ends up with has the cache, or somebody is
\* about to add it.
THEOREM ClientsAreCached == Spec => []ClientIsCached
<1>1. Init => Inv
  BY InvInit
<1>2. Inv => ClientIsCached
  BY DEF Inv
<1> QED
  BY <1>1, <1>2, InvStep, PTL DEF Spec
-----------------------------------------------------------------------------
(* The types.  Requests write by position into sequences that two layers    *)
(* share, so what is needed of them is that misses are noted twice.         *)

Shaped(q) ==
    /\ q \in RequestType
    /\ q.at # "idle" => q.chain \in Chain /\ q.layer # 0
    /\ q.next # 0
    /\ Len(q.missIndexes) = Len(q.missCalls)
    /\ q.at = "commit" => q.next <= Len(q.missCalls) /\ q.next <= Len(q.results)

\* A client that was returned is one of the clients of the chain.
ClientsExist ==
    \A t \in Thread :
        /\ op[t].at = "return" => layers[op[t].chain] # <<>>
        /\ op[t].at = "have" => op[t].client # 0
        /\ op[t].client # 0 =>
               op[t].chain \in Chain /\ op[t].client <= Len(layers[op[t].chain])

TypeInv ==
    /\ Inv /\ ClientsExist /\ RpcTypeOK
    /\ \A t \in Thread : Shaped(req[t])
    /\ configured \in 0 .. MaxConfigures

-----------------------------------------------------------------------------
(* What answers say.  The argument is about clients with one layer, and     *)
(* about chains of which nothing is ever asked that could be cached.        *)

\* An answer to this call, asked of this chain by a request as old as this.
Fits(v, call, c, born) ==
    /\ v \in Value /\ v.call = call /\ v.chain = c
    /\ v.kind \in {"code", "name"} => <<c, call.address>> \in deployed
    /\ v.kind = "empty" /\ call.method = "eth_getCode" => <<c, call.address>> \notin born

\* What a table remembers is the answer to the call it is filed under, and is current.
Remembers(table) ==
    \A c \in Chain, call \in CallType :
        LET v == table[<<c, call>>] IN
        v # None => Fits(v, call, c, Chain \X Address)

\* The request asks what its thread asks of the chain.
Opened(t, q) ==
    /\ q.calls = Batch[t][q.chain] /\ q.born \subseteq deployed
    /\ q.layers > 1 => \A i \in 1 .. Len(q.calls) : ~Cacheable(q.calls[i])
    /\ q.at \in {"before", "after", "commit"} => q.layer <= q.layers
    /\ q.at = "before" => q.next = 1

\* Every call looked at is a hit, or one of the misses; where nothing can be cached
\* the misses are the calls.
Sorted(q) ==
    /\ Len(q.hits) <= Len(q.calls)
    /\ \A k \in 1 .. Len(q.missCalls) :
           q.missIndexes[k] \in 1 .. Len(q.hits) /\ q.missCalls[k] = q.calls[q.missIndexes[k]]
    /\ \A i \in 1 .. Len(q.hits) :
           IF q.hits[i] = None THEN \E k \in 1 .. Len(q.missCalls) : q.missIndexes[k] = i
           ELSE Fits(q.hits[i], q.calls[i], q.chain, q.born)
    /\ q.layers > 1 => /\ Len(q.missCalls) = Len(q.hits)
                       /\ \A k \in 1 .. Len(q.hits) : q.missIndexes[k] = k

\* A place that is still empty has its result among those to come.
Filling(q) ==
    /\ Len(q.hits) = Len(q.calls) /\ Len(q.merged) = Len(q.calls)
    /\ Len(q.results) = Len(q.missCalls)
    /\ \A k \in 1 .. Len(q.results) : Fits(q.results[k], q.missCalls[k], q.chain, q.born)
    /\ \A i \in 1 .. Len(q.merged) :
           IF q.merged[i] = None
           THEN \E k \in q.next .. Len(q.missCalls) : q.missIndexes[k] = i
           ELSE Fits(q.merged[i], q.calls[i], q.chain, q.born)

Answered(q) ==
    /\ Len(q.merged) = Len(q.calls)
    /\ \A i \in 1 .. Len(q.merged) : Fits(q.merged[i], q.calls[i], q.chain, q.born)

Good(t, q) ==
    /\ q.at \notin {"idle", "failed"} => Opened(t, q)
    /\ q.at \in {"before", "after", "commit"} => Sorted(q)
    /\ q.at \in {"after", "commit"} => Filling(q)
    /\ q.at = "done" => Answered(q)

\* Threads that may come to create a client of a chain.
MayCreate(t, c) == <<t, c>> \in Configures \/ c \in Uses[t] \ Warm

\* Chains of which nothing is asked that could be cached.
Quiet(c) ==
    \A t \in Thread : \A i \in 1 .. Len(Batch[t][c]) : ~Cacheable(Batch[t][c][i])

\* The hypothesis of the theorems about answers: no two threads create clients of one
\* chain, unless its calls bypass the cache.  Without it they are false (HitsAreMerged).
OneMakerEach ==
    \A c \in Chain :
        Quiet(c) \/ \A t, u \in Thread : MayCreate(t, c) /\ MayCreate(u, c) => t = u

\* Then a client has the middleware once at most.
Single(c) ==
    /\ \A i \in 1 .. Len(layers[c]) : layers[c][i] <= 1
    /\ \A t \in Thread :
           op[t].at = "attach" /\ op[t].chain = c => layers[c][Newest(c)] = 0

ClientsAreSingle ==
    /\ \A c \in Warm : layers[c] # <<>>
    /\ \A t \in Thread :
           op[t].at \in {"create", "attach"} => MayCreate(t, op[t].chain)
    /\ \A c \in Chain : Quiet(c) \/ Single(c)

AnswerInv ==
    /\ TypeInv /\ ClientsAreSingle
    /\ Remembers(cache) /\ Remembers(durable)
    /\ \A t \in Thread : Good(t, req[t])

-----------------------------------------------------------------------------
(* How each step of a request changes it.                                   *)

Places == {"idle", "before", "direct", "after", "commit", "done", "failed"}
Slots == Seq(Value \union {None})

LEMMA IdleType == Idle \in RequestType
<1>1. <<>> \in Seq(CallType) /\ <<>> \in Slots /\ <<>> \in Seq(Nat \ {0})
  BY DEF Slots
<1> QED
  BY <1>1 DEF Idle, RequestType, Slots

LEMMA MovedRequest ==
    ASSUME NEW q \in RequestType, NEW at \in Places
    PROVE  LET r == [q EXCEPT !.at = at] IN
           /\ r \in RequestType
           /\ r.at = at /\ r.chain = q.chain /\ r.layers = q.layers /\ r.layer = q.layer
           /\ r.born = q.born /\ r.calls = q.calls /\ r.hits = q.hits
           /\ r.missIndexes = q.missIndexes /\ r.missCalls = q.missCalls
           /\ r.results = q.results /\ r.merged = q.merged /\ r.next = q.next
  BY DEF RequestType, Places

Begun(at, c, n, d, b) ==
    [Idle EXCEPT !.at = at, !.chain = c, !.layers = n, !.layer = 1, !.born = d, !.calls = b]

LEMMA BegunRequest ==
    ASSUME NEW at \in Places, NEW c \in Chain, NEW n \in Nat,
           NEW d \in SUBSET (Chain \X Address), NEW b \in Seq(CallType)
    PROVE  /\ Begun(at, c, n, d, b) \in RequestType
           /\ Begun(at, c, n, d, b).at = at /\ Begun(at, c, n, d, b).chain = c
           /\ Begun(at, c, n, d, b).layers = n /\ Begun(at, c, n, d, b).layer = 1
           /\ Begun(at, c, n, d, b).born = d /\ Begun(at, c, n, d, b).calls = b
           /\ Begun(at, c, n, d, b).hits = <<>> /\ Begun(at, c, n, d, b).next = 1
           /\ Begun(at, c, n, d, b).missIndexes = <<>>
           /\ Begun(at, c, n, d, b).missCalls = <<>>
<1>1. <<>> \in Seq(CallType) /\ <<>> \in Slots /\ <<>> \in Seq(Nat \ {0})
  BY DEF Slots
<1> QED
  BY <1>1 DEF Idle, RequestType, Slots, Places, Begun

LEMMA HitNoted ==
    ASSUME NEW q \in RequestType, NEW call, NEW v \in Value
    PROVE  /\ Note(q, call, v) \in RequestType
           /\ Note(q, call, v).at = q.at /\ Note(q, call, v).chain = q.chain
           /\ Note(q, call, v).layers = q.layers /\ Note(q, call, v).layer = q.layer
           /\ Note(q, call, v).born = q.born /\ Note(q, call, v).calls = q.calls
           /\ Note(q, call, v).hits = Append(q.hits, v)
           /\ Note(q, call, v).missIndexes = q.missIndexes
           /\ Note(q, call, v).missCalls = q.missCalls
           /\ Note(q, call, v).results = q.results /\ Note(q, call, v).merged = q.merged
           /\ Note(q, call, v).next = q.next
<1>1. q.hits \in Slots /\ v # None
  BY ValueAssumption DEF RequestType, Slots
<1>2. Append(q.hits, v) \in Slots
  BY <1>1 DEF Slots
<1> QED
  BY <1>1, <1>2 DEF RequestType, Slots, Note

LEMMA MissNoted ==
    ASSUME NEW q \in RequestType, NEW call \in CallType
    PROVE  /\ Note(q, call, None) \in RequestType
           /\ Note(q, call, None).at = q.at /\ Note(q, call, None).chain = q.chain
           /\ Note(q, call, None).layers = q.layers /\ Note(q, call, None).layer = q.layer
           /\ Note(q, call, None).born = q.born /\ Note(q, call, None).calls = q.calls
           /\ Note(q, call, None).hits = Append(q.hits, None)
           /\ Note(q, call, None).missIndexes = Append(q.missIndexes, Len(q.hits) + 1)
           /\ Note(q, call, None).missCalls = Append(q.missCalls, call)
           /\ Note(q, call, None).results = q.results
           /\ Note(q, call, None).merged = q.merged /\ Note(q, call, None).next = q.next
<1>1. q.hits \in Slots /\ q.missIndexes \in Seq(Nat \ {0}) /\ q.missCalls \in Seq(CallType)
  BY DEF RequestType, Slots
<1>2. Len(q.hits) + 1 \in Nat \ {0}
  BY <1>1 DEF Slots
<1>3. Append(q.hits, None) \in Slots
  BY <1>1 DEF Slots
<1>4. Append(q.missIndexes, Len(q.hits) + 1) \in Seq(Nat \ {0})
  BY <1>1, <1>2
<1>5. Append(q.missCalls, call) \in Seq(CallType)
  BY <1>1
<1> QED
  BY <1>3, <1>4, <1>5 DEF RequestType, Slots, Note

LEMMA LayerEntered ==
    ASSUME NEW q \in RequestType
    PROVE  LET r == [q EXCEPT !.layer = @ + 1, !.calls = q.missCalls, !.hits = <<>>,
                              !.missIndexes = <<>>, !.missCalls = <<>>] IN
           /\ r \in RequestType
           /\ r.at = q.at /\ r.chain = q.chain /\ r.layers = q.layers
           /\ r.layer = q.layer + 1
           /\ r.born = q.born /\ r.calls = q.missCalls /\ r.hits = <<>>
           /\ r.missIndexes = <<>> /\ r.missCalls = <<>>
           /\ r.results = q.results /\ r.merged = q.merged /\ r.next = q.next
<1>1. <<>> \in Seq(CallType) /\ <<>> \in Slots /\ <<>> \in Seq(Nat \ {0})
  BY DEF Slots
<1>2. q.missCalls \in Seq(CallType) /\ q.layer + 1 \in Nat
  BY DEF RequestType
<1> QED
  BY <1>1, <1>2 DEF RequestType, Slots

LEMMA SentRequest ==
    ASSUME NEW q \in RequestType, NEW s \in Slots
    PROVE  LET r == [q EXCEPT !.at = "after", !.results = s, !.merged = q.hits] IN
           /\ r \in RequestType
           /\ r.at = "after" /\ r.chain = q.chain /\ r.layers = q.layers
           /\ r.layer = q.layer
           /\ r.born = q.born /\ r.calls = q.calls /\ r.hits = q.hits
           /\ r.missIndexes = q.missIndexes /\ r.missCalls = q.missCalls
           /\ r.results = s /\ r.merged = q.hits /\ r.next = q.next
  BY DEF RequestType, Slots

LEMMA DirectAnswered ==
    ASSUME NEW q \in RequestType, NEW s \in Slots
    PROVE  LET r == [q EXCEPT !.at = "done", !.merged = s] IN
           /\ r \in RequestType
           /\ r.at = "done" /\ r.chain = q.chain /\ r.layers = q.layers
           /\ r.layer = q.layer
           /\ r.born = q.born /\ r.calls = q.calls /\ r.hits = q.hits
           /\ r.missIndexes = q.missIndexes /\ r.missCalls = q.missCalls
           /\ r.results = q.results /\ r.merged = s /\ r.next = q.next
  BY DEF RequestType, Slots

\* Writing to a place of a sequence, or beside it.
Put(s, i, v) == [s EXCEPT ![i] = v]

LEMMA PlaceWritten ==
    ASSUME NEW s \in Slots, NEW i, NEW v \in Value \union {None}
    PROVE  /\ Put(s, i, v) \in Slots /\ Len(Put(s, i, v)) = Len(s)
           /\ \A j \in 1 .. Len(s) : Put(s, i, v)[j] = IF j = i THEN v ELSE s[j]
<1> DEFINE w == [s EXCEPT ![i] = v]
<1>1. s \in [1 .. Len(s) -> Value \union {None}] /\ Len(s) \in Nat
  BY DEF Slots
<1>2. w \in [1 .. Len(s) -> Value \union {None}]
  BY <1>1
<1>3. w \in Slots
  BY <1>1, <1>2 DEF Slots
<1>4. DOMAIN w = 1 .. Len(s)
  BY <1>1
<1>5. Len(w) = Len(s)
  BY <1>1, <1>3, <1>4 DEF Slots
<1>6. \A j \in 1 .. Len(s) : w[j] = IF j = i THEN v ELSE s[j]
  BY <1>1
<1>7. Put(s, i, v) = w
  BY DEF Put
<1> HIDE DEF w
<1> QED
  BY <1>3, <1>5, <1>6, <1>7

LEMMA ItemMerged ==
    ASSUME NEW q \in RequestType, NEW item, item.result \in Value \union {None}
    PROVE  /\ Merge(q, item) \in RequestType
           /\ Merge(q, item).at = "after" /\ Merge(q, item).chain = q.chain
           /\ Merge(q, item).layers = q.layers /\ Merge(q, item).layer = q.layer
           /\ Merge(q, item).born = q.born /\ Merge(q, item).calls = q.calls
           /\ Merge(q, item).hits = q.hits
           /\ Merge(q, item).missIndexes = q.missIndexes
           /\ Merge(q, item).missCalls = q.missCalls
           /\ Merge(q, item).results = q.results
           /\ Merge(q, item).merged = Put(q.merged, item.index, item.result)
           /\ Merge(q, item).next = q.next + 1
<1>1. q.merged \in Slots /\ q.next + 1 \in Nat
  BY DEF RequestType, Slots
<1> DEFINE w == Put(q.merged, item.index, item.result)
           r == [q EXCEPT !.merged = w, !.next = @ + 1, !.at = "after"]
<1>2. Merge(q, item) = r
  BY DEF Merge, Put
<1> HIDE DEF w
<1>3. w \in Slots
  BY <1>1, PlaceWritten DEF w
<1>4. /\ r \in RequestType /\ r.at = "after" /\ r.chain = q.chain /\ r.layers = q.layers
      /\ r.layer = q.layer
      /\ r.born = q.born /\ r.calls = q.calls /\ r.hits = q.hits
      /\ r.missIndexes = q.missIndexes /\ r.missCalls = q.missCalls
      /\ r.results = q.results /\ r.merged = w /\ r.next = q.next + 1
  BY <1>1, <1>3 DEF RequestType, Slots
<1> HIDE DEF r
<1> QED
  BY <1>2, <1>4 DEF w

LEMMA LayerLeft ==
    ASSUME NEW q \in RequestType, q.layer > 1
    PROVE  LET r == [q EXCEPT !.layer = @ - 1, !.results = q.merged,
                              !.merged = q.hits, !.next = 1] IN
           /\ r \in RequestType
           /\ r.at = q.at /\ r.chain = q.chain /\ r.layers = q.layers
           /\ r.layer = q.layer - 1
           /\ r.born = q.born /\ r.calls = q.calls /\ r.hits = q.hits
           /\ r.missIndexes = q.missIndexes /\ r.missCalls = q.missCalls
           /\ r.results = q.merged /\ r.merged = q.hits /\ r.next = 1
<1>1. q.layer - 1 \in Nat
  BY DEF RequestType
<1> QED
  BY <1>1 DEF RequestType

-----------------------------------------------------------------------------
(* What each step of a request keeps: its shape always, and that it is good *)
(* where that is what the tables remember.                                  *)

\* The request becomes this one.
Becomes(t, q) ==
    /\ req' = [req EXCEPT ![t] = q]
    /\ Shaped(q)
    /\ Good(t, req[t]) /\ Remembers(cache) => Good(t, q)

\* What the steps start from.
Serving(t) == RpcTypeOK /\ t \in Thread /\ Shaped(req[t])

\* What is remembered answers a request of any age.
LEMMA RememberedFits ==
    ASSUME NEW table, Remembers(table), NEW c \in Chain, NEW call \in CallType,
           table[<<c, call>>] # None, NEW born \in SUBSET (Chain \X Address)
    PROVE  Fits(table[<<c, call>>], call, c, born)
<1>1. call.address \in Address
  BY DEF CallType
<1>2. Fits(table[<<c, call>>], call, c, Chain \X Address)
  BY DEF Remembers
<1>3. <<c, call.address>> \in Chain \X Address
  BY <1>1
<1> QED
  BY <1>2, <1>3 DEF Fits

\* A hit is put after those before it.
LEMMA HitIsGood ==
    ASSUME NEW t, NEW q \in RequestType, NEW r, NEW v,
           Good(t, q), q.at = "before", Len(q.hits) < Len(q.calls),
           Fits(v, q.calls[Len(q.hits) + 1], q.chain, q.born),
           Cacheable(q.calls[Len(q.hits) + 1]),
           r.at = q.at, r.chain = q.chain, r.layers = q.layers, r.layer = q.layer,
           r.born = q.born, r.calls = q.calls, r.hits = Append(q.hits, v),
           r.missIndexes = q.missIndexes, r.missCalls = q.missCalls, r.next = q.next
    PROVE  Good(t, r)
<1>1. /\ q.hits \in Seq(Value \union {None}) /\ q.missCalls \in Seq(CallType)
      /\ q.calls \in Seq(CallType) /\ q.layers \in Nat
  BY DEF RequestType
<1>2. Opened(t, q) /\ Sorted(q) /\ v \in Value
  BY DEF Good, Fits
<1>3. /\ Len(q.hits) \in Nat /\ Len(r.hits) = Len(q.hits) + 1
      /\ r.hits[Len(q.hits) + 1] = v
      /\ \A i \in 1 .. Len(q.hits) : r.hits[i] = q.hits[i]
  BY <1>1, <1>2
<1>4. Len(q.calls) \in Nat /\ Len(q.hits) + 1 \in 1 .. Len(q.calls)
  BY <1>1, <1>3
<1>5. ~(q.layers > 1)
  BY <1>2, <1>4 DEF Opened
<1>6. Opened(t, r)
  BY <1>2 DEF Opened
<1>7. Sorted(r)
  <2>1. Len(r.hits) <= Len(r.calls)
    BY <1>3, <1>4
  <2>2. ASSUME NEW k \in 1 .. Len(r.missCalls)
        PROVE  /\ r.missIndexes[k] \in 1 .. Len(r.hits)
               /\ r.missCalls[k] = r.calls[r.missIndexes[k]]
    <3>1. q.missIndexes[k] \in 1 .. Len(q.hits) /\ q.missCalls[k] = q.calls[q.missIndexes[k]]
      BY <1>2 DEF Sorted
    <3> QED
      BY <1>3, <3>1
  <2>3. ASSUME NEW i \in 1 .. Len(r.hits)
        PROVE  IF r.hits[i] = None
               THEN \E k \in 1 .. Len(r.missCalls) : r.missIndexes[k] = i
               ELSE Fits(r.hits[i], r.calls[i], r.chain, r.born)
    <3>1. CASE i = Len(q.hits) + 1
      <4>1. r.hits[i] = v /\ v # None
        BY <1>2, <1>3, <3>1, ValueAssumption
      <4> QED
        BY <3>1, <4>1
    <3>2. CASE i # Len(q.hits) + 1
      <4>1. i \in 1 .. Len(q.hits) /\ r.hits[i] = q.hits[i]
        BY <1>3, <3>2
      <4> QED
        BY <1>2, <4>1 DEF Sorted
    <3> QED
      BY <3>1, <3>2
  <2> QED
    BY <1>5, <2>1, <2>2, <2>3 DEF Sorted
<1> QED
  BY <1>6, <1>7 DEF Good

\* A miss is put after those before it, in both lists.
LEMMA MissIsGood ==
    ASSUME NEW t, NEW q \in RequestType, NEW r,
           Good(t, q), q.at = "before", Len(q.hits) < Len(q.calls),
           Len(q.missIndexes) = Len(q.missCalls),
           r.at = q.at, r.chain = q.chain, r.layers = q.layers, r.layer = q.layer,
           r.born = q.born, r.calls = q.calls, r.hits = Append(q.hits, None),
           r.missIndexes = Append(q.missIndexes, Len(q.hits) + 1),
           r.missCalls = Append(q.missCalls, q.calls[Len(q.hits) + 1]), r.next = q.next
    PROVE  Good(t, r)
<1> DEFINE h == Len(q.hits)
           n == Len(q.missCalls)
<1>1. /\ q.hits \in Seq(Value \union {None}) /\ q.missCalls \in Seq(CallType)
      /\ q.calls \in Seq(CallType) /\ q.missIndexes \in Seq(Nat \ {0})
  BY DEF RequestType
<1>2. Opened(t, q) /\ Sorted(q)
  BY DEF Good
<1>3. /\ h \in Nat /\ Len(r.hits) = h + 1 /\ r.hits[h + 1] = None
      /\ \A i \in 1 .. h : r.hits[i] = q.hits[i]
  BY <1>1
<1>4. Len(q.calls) \in Nat /\ h + 1 \in 1 .. Len(q.calls) /\ q.calls[h + 1] \in CallType
  BY <1>1, <1>3
<1>5. /\ n \in Nat /\ Len(r.missCalls) = n + 1 /\ r.missCalls[n + 1] = q.calls[h + 1]
      /\ \A k \in 1 .. n : r.missCalls[k] = q.missCalls[k]
  BY <1>1, <1>4
<1>6. /\ r.missIndexes[n + 1] = h + 1
      /\ \A k \in 1 .. n : r.missIndexes[k] = q.missIndexes[k]
  BY <1>1, <1>3
<1> HIDE DEF h, n
<1>7. Opened(t, r)
  BY <1>2 DEF Opened
<1>8. Sorted(r)
  <2>1. Len(r.hits) <= Len(r.calls)
    BY <1>3, <1>4
  <2>2. ASSUME NEW k \in 1 .. Len(r.missCalls)
        PROVE  /\ r.missIndexes[k] \in 1 .. Len(r.hits)
               /\ r.missCalls[k] = r.calls[r.missIndexes[k]]
    <3>1. CASE k = n + 1
      BY <1>3, <1>5, <1>6, <3>1
    <3>2. CASE k # n + 1
      <4>1. k \in 1 .. n
        BY <1>5, <3>2
      <4>2. q.missIndexes[k] \in 1 .. h /\ q.missCalls[k] = q.calls[q.missIndexes[k]]
        BY <1>2, <4>1 DEF Sorted, h, n
      <4> QED
        BY <1>3, <1>5, <1>6, <4>1, <4>2
    <3> QED
      BY <3>1, <3>2
  <2>3. ASSUME NEW i \in 1 .. Len(r.hits)
        PROVE  IF r.hits[i] = None
               THEN \E k \in 1 .. Len(r.missCalls) : r.missIndexes[k] = i
               ELSE Fits(r.hits[i], r.calls[i], r.chain, r.born)
    <3>1. CASE i = h + 1
      <4>1. n + 1 \in 1 .. Len(r.missCalls)
        BY <1>5
      <4> QED
        BY <1>3, <1>6, <3>1, <4>1
    <3>2. CASE i # h + 1
      <4>1. i \in 1 .. h /\ r.hits[i] = q.hits[i]
        BY <1>3, <3>2
      <4>2. CASE q.hits[i] = None
        <5>1. PICK k \in 1 .. n : q.missIndexes[k] = i
          BY <1>2, <4>1, <4>2 DEF Sorted, h, n
        <5>2. k \in 1 .. Len(r.missCalls) /\ r.missIndexes[k] = i
          BY <1>5, <1>6, <5>1
        <5> QED
          BY <4>1, <4>2, <5>2
      <4>3. CASE q.hits[i] # None
        BY <1>2, <4>1, <4>3 DEF Sorted, h
      <4> QED
        BY <4>2, <4>3
    <3> QED
      BY <3>1, <3>2
  <2>4. ASSUME r.layers > 1
        PROVE  /\ Len(r.missCalls) = Len(r.hits)
               /\ \A k \in 1 .. Len(r.hits) : r.missIndexes[k] = k
    <3>1. n = h /\ \A k \in 1 .. h : q.missIndexes[k] = k
      BY <1>2, <2>4 DEF Sorted, h, n
    <3> QED
      BY <1>3, <1>5, <1>6, <3>1
  <2> QED
    BY <2>1, <2>2, <2>3, <2>4 DEF Sorted
<1> QED
  BY <1>7, <1>8 DEF Good

LEMMA LookupStep == ASSUME NEW t, Serving(t), Lookup(t) PROVE \E r : Becomes(t, r)
<1> DEFINE q == req[t]
           call == q.calls[Len(q.hits) + 1]
           value == IF Cacheable(call) THEN Cached(q.chain, call) ELSE None
           r == Note(q, call, value)
<1>1. /\ q.at = "before" /\ Len(q.hits) < Len(q.calls)
      /\ req' = [req EXCEPT ![t] = r]
  BY DEF Lookup
<1>2. q \in RequestType
  BY DEF Serving, Shaped
<1>3. /\ q.hits \in Slots /\ q.calls \in Seq(CallType)
      /\ q.chain \in Chain /\ q.layer # 0 /\ q.next # 0
      /\ Len(q.missIndexes) = Len(q.missCalls)
  BY <1>1, <1>2 DEF RequestType, Slots, Serving, Shaped
<1>4. Good(t, req[t]) => Good(t, q)
  OBVIOUS
<1> HIDE DEF q
<1>5. call \in CallType
  BY <1>1, <1>3 DEF Slots
<1> HIDE DEF call
<1>6. Cached(q.chain, call) \in Value \union {None}
  BY <1>3, <1>5 DEF Cached, Serving, RpcTypeOK, CacheKey
<1>7. CASE value # None
  <2>1. Cacheable(call) /\ value = cache[<<q.chain, call>>] /\ value \in Value
    BY <1>6, <1>7 DEF Cached
  <2> HIDE DEF value
  <2>2. /\ r \in RequestType
        /\ r.at = q.at /\ r.chain = q.chain /\ r.layers = q.layers /\ r.layer = q.layer
        /\ r.born = q.born /\ r.calls = q.calls /\ r.hits = Append(q.hits, value)
        /\ r.missIndexes = q.missIndexes /\ r.missCalls = q.missCalls
        /\ r.results = q.results /\ r.merged = q.merged /\ r.next = q.next
    BY <1>2, <2>1, HitNoted
  <2> HIDE DEF r
  <2>3. Shaped(r)
    BY <1>1, <1>3, <2>2 DEF Shaped
  <2>4. ASSUME Good(t, q), Remembers(cache) PROVE Good(t, r)
    <3>1. q.born \in SUBSET (Chain \X Address)
      BY <1>2 DEF RequestType
    <3>2. Fits(value, call, q.chain, q.born)
      BY <1>3, <1>5, <1>7, <2>1, <2>4, <3>1, RememberedFits
    <3> QED
      BY <1>1, <1>2, <2>1, <2>2, <2>4, <3>2, HitIsGood DEF call
  <2> QED
    BY <1>1, <1>4, <2>3, <2>4 DEF Becomes
<1>8. CASE value = None
  <2> HIDE DEF value
  <2>1. /\ r \in RequestType
        /\ r.at = q.at /\ r.chain = q.chain /\ r.layers = q.layers /\ r.layer = q.layer
        /\ r.born = q.born /\ r.calls = q.calls /\ r.hits = Append(q.hits, None)
        /\ r.missIndexes = Append(q.missIndexes, Len(q.hits) + 1)
        /\ r.missCalls = Append(q.missCalls, call)
        /\ r.results = q.results /\ r.merged = q.merged /\ r.next = q.next
    BY <1>2, <1>5, <1>8, MissNoted
  <2> HIDE DEF r
  <2>2. Len(r.missIndexes) = Len(r.missCalls)
    BY <1>2, <1>3, <1>5, <2>1 DEF RequestType
  <2>3. Shaped(r)
    BY <1>1, <1>3, <2>1, <2>2 DEF Shaped
  <2>4. Good(t, q) => Good(t, r)
    BY <1>1, <1>2, <1>3, <2>1, MissIsGood DEF call
  <2> QED
    BY <1>1, <1>4, <2>3, <2>4 DEF Becomes
<1> QED
  BY <1>7, <1>8

\* The next layer is reached only where nothing can be cached: it gets every call.
LEMMA NextLayerStep == ASSUME NEW t, Serving(t), NextLayer(t) PROVE \E r : Becomes(t, r)
<1> DEFINE q == req[t]
<1>1. q \in RequestType
  BY DEF Serving, Shaped
<1> DEFINE r == [q EXCEPT !.layer = @ + 1, !.calls = q.missCalls, !.hits = <<>>,
                          !.missIndexes = <<>>, !.missCalls = <<>>]
<1>2. /\ q.at = "before" /\ Len(q.hits) = Len(q.calls) /\ q.layer < q.layers
      /\ req' = [req EXCEPT ![t] = r]
  BY DEF NextLayer, Filtered
<1>3. /\ r \in RequestType
      /\ r.at = q.at /\ r.chain = q.chain /\ r.layers = q.layers
      /\ r.layer = q.layer + 1
      /\ r.born = q.born /\ r.calls = q.missCalls /\ r.hits = <<>>
      /\ r.missIndexes = <<>> /\ r.missCalls = <<>>
      /\ r.results = q.results /\ r.merged = q.merged /\ r.next = q.next
  BY <1>1, LayerEntered
<1> HIDE DEF q, r
<1>4. Shaped(r)
  <2>1. q.chain \in Chain /\ q.next # 0 /\ q.layer \in Nat
    BY <1>1, <1>2 DEF Shaped, Serving, RequestType, q
  <2> QED
    BY <1>2, <1>3, <2>1 DEF Shaped
<1>5. ASSUME Good(t, q) PROVE Good(t, r)
  <2>1. Opened(t, q) /\ Sorted(q)
    BY <1>2, <1>5 DEF Good
  <2>2. q.calls \in Seq(CallType) /\ q.missCalls \in Seq(CallType) /\ q.layers \in Nat
        /\ q.layer \in Nat
    BY <1>1 DEF RequestType
  <2>3. CASE q.layers > 1
    <3>1. Len(q.missCalls) = Len(q.calls)
      BY <1>2, <2>1, <2>3 DEF Sorted
    <3>2. \A k \in 1 .. Len(q.calls) : q.missCalls[k] = q.calls[k]
      BY <1>2, <2>1, <2>3, <3>1 DEF Sorted
    <3>3. q.missCalls = q.calls
      BY <2>2, <3>1, <3>2
    <3>4. Opened(t, r)
      BY <1>2, <1>3, <2>1, <2>2, <3>3 DEF Opened
    <3>5. Sorted(r)
      <4>1. Len(<<>>) = 0 /\ Len(q.missCalls) \in Nat
        BY <2>2
      <4>2. 1 .. 0 = {}
        OBVIOUS
      <4> QED
        BY <1>3, <4>1, <4>2 DEF Sorted
    <3> QED
      BY <1>2, <1>3, <3>4, <3>5 DEF Good
  <2>4. CASE ~(q.layers > 1)
    BY <1>1, <1>2, <2>2, <2>4 DEF Serving, Shaped, q
  <2> QED
    BY <2>3, <2>4
<1> QED
  BY <1>2, <1>4, <1>5 DEF Becomes, q

\* What the node answers: one answer for each call, true now or an error.
LEMMA AnswersFit ==
    ASSUME NEW c \in Chain, NEW calls \in Seq(CallType), NEW s \in Answers(c, calls),
           NEW born \in SUBSET deployed
    PROVE  /\ s \in Seq(Value) /\ s \in Slots /\ Len(s) = Len(calls)
           /\ \A i \in 1 .. Len(calls) : Fits(s[i], calls[i], c, born)
<1> DEFINE all == UNION {Answer(c, calls[i]) : i \in 1 .. Len(calls)}
<1>1. Len(calls) \in Nat /\ \A i \in 1 .. Len(calls) : calls[i] \in CallType
  OBVIOUS
<1>2. s \in [1 .. Len(calls) -> all]
  BY DEF Answers
<1>3. \A i \in 1 .. Len(calls) : s[i] \in Answer(c, calls[i])
  BY DEF Answers
<1>4. \A call \in CallType : Current(c, call) \in Kind
  BY DEF Current, Kind, CallType
<1>5. \A call \in CallType : Answer(c, call) \subseteq Value
  BY <1>4 DEF Answer, Value, Kind
<1>6. all \subseteq Value
  BY <1>1, <1>5
<1> HIDE DEF all
<1>7. s \in [1 .. Len(calls) -> Value]
  BY <1>2, <1>6
<1>8. s \in Seq(Value) /\ Len(s) = Len(calls)
  BY <1>1, <1>7
<1>9. s \in Slots
  BY <1>1, <1>7 DEF Slots
<1>10. ASSUME NEW i \in 1 .. Len(calls) PROVE Fits(s[i], calls[i], c, born)
  <2>1. calls[i] \in CallType /\ s[i] \in Answer(c, calls[i]) /\ s[i] \in Value
    BY <1>1, <1>3, <1>5
  <2>2. /\ s[i].kind = Current(c, calls[i]) \/ s[i].kind = "error"
        /\ s[i].chain = c /\ s[i].call = calls[i]
    BY <2>1 DEF Answer
  <2>3. Current(c, calls[i]) \in {"code", "name"} =>
            <<c, calls[i].address>> \in deployed
    BY <2>1 DEF Current, CallType
  <2>4. Current(c, calls[i]) = "empty" => <<c, calls[i].address>> \notin deployed
    BY <2>1 DEF Current, CallType
  <2> QED
    BY <2>1, <2>2, <2>3, <2>4 DEF Fits
<1> QED
  BY <1>8, <1>9, <1>10

LEMMA SendStep == ASSUME NEW t, Serving(t), Send(t) PROVE \E r : Becomes(t, r)
<1> DEFINE q == req[t]
<1>1. q \in RequestType /\ q.at = "before" /\ Len(q.hits) = Len(q.calls)
  BY DEF Serving, Shaped, Send, Filtered
<1>2. PICK s \in Answers(q.chain, q.missCalls) :
          req' = [req EXCEPT ![t] =
              [@ EXCEPT !.at = "after", !.results = s, !.merged = req[t].hits]]
  BY DEF Send
<1> DEFINE r == [q EXCEPT !.at = "after", !.results = s, !.merged = q.hits]
<1>3. req' = [req EXCEPT ![t] = r]
  BY <1>2
<1> HIDE DEF q
<1>4. q.chain \in Chain /\ q.layer # 0 /\ q.next # 0 /\ Len(q.missIndexes) = Len(q.missCalls)
  BY <1>1 DEF Serving, Shaped, q
<1>5. q.missCalls \in Seq(CallType) /\ q.hits \in Slots /\ q.next \in Nat
  BY <1>1 DEF RequestType, Slots
<1>6. s \in Slots /\ Len(s) = Len(q.missCalls)
  BY <1>2, <1>4, <1>5, AnswersFit
<1>7. /\ r \in RequestType
      /\ r.at = "after" /\ r.chain = q.chain /\ r.layers = q.layers
      /\ r.layer = q.layer
      /\ r.born = q.born /\ r.calls = q.calls /\ r.hits = q.hits
      /\ r.missIndexes = q.missIndexes /\ r.missCalls = q.missCalls
      /\ r.results = s /\ r.merged = q.hits /\ r.next = q.next
  BY <1>1, <1>6, SentRequest
<1> HIDE DEF r
<1>8. Shaped(r)
  BY <1>1, <1>4, <1>7 DEF Shaped
<1>9. ASSUME Good(t, q) PROVE Good(t, r)
  <2>1. Opened(t, q) /\ Sorted(q) /\ q.next = 1
    BY <1>1, <1>9 DEF Good, Opened
  <2>2. \A k \in 1 .. Len(s) : Fits(s[k], q.missCalls[k], q.chain, q.born)
    <3>1. q.born \in SUBSET deployed
      BY <2>1 DEF Opened
    <3> QED
      BY <1>2, <1>4, <1>5, <3>1, AnswersFit
  <2>3. Opened(t, r)
    BY <1>1, <1>7, <2>1 DEF Opened
  <2>4. Sorted(r)
    BY <1>7, <2>1 DEF Sorted
  <2>5. Filling(r)
    BY <1>1, <1>6, <1>7, <2>1, <2>2 DEF Filling, Sorted
  <2> QED
    BY <1>7, <2>3, <2>4, <2>5 DEF Good
<1> QED
  BY <1>3, <1>8, <1>9 DEF Becomes, q

LEMMA SendDirectStep == ASSUME NEW t, Serving(t), SendDirect(t) PROVE \E r : Becomes(t, r)
<1> DEFINE q == req[t]
<1>1. q \in RequestType /\ q.at = "direct"
  BY DEF Serving, Shaped, SendDirect
<1>2. PICK s \in Answers(q.chain, q.calls) :
          req' = [req EXCEPT ![t] = [@ EXCEPT !.at = "done", !.merged = s]]
  BY DEF SendDirect
<1> DEFINE r == [q EXCEPT !.at = "done", !.merged = s]
<1>3. req' = [req EXCEPT ![t] = r]
  BY <1>2
<1> HIDE DEF q
<1>4. q.chain \in Chain /\ q.layer # 0 /\ q.next # 0 /\ Len(q.missIndexes) = Len(q.missCalls)
  BY <1>1 DEF Serving, Shaped, q
<1>5. q.calls \in Seq(CallType)
  BY <1>1 DEF RequestType
<1>6. s \in Slots /\ Len(s) = Len(q.calls)
  BY <1>2, <1>4, <1>5, AnswersFit
<1>7. /\ r \in RequestType
      /\ r.at = "done" /\ r.chain = q.chain /\ r.layers = q.layers
      /\ r.layer = q.layer
      /\ r.born = q.born /\ r.calls = q.calls /\ r.hits = q.hits
      /\ r.missIndexes = q.missIndexes /\ r.missCalls = q.missCalls
      /\ r.results = q.results /\ r.merged = s /\ r.next = q.next
  BY <1>1, <1>6, DirectAnswered
<1> HIDE DEF r
<1>8. Shaped(r)
  BY <1>1, <1>4, <1>7 DEF Shaped
<1>9. ASSUME Good(t, q) PROVE Good(t, r)
  <2>1. Opened(t, q)
    BY <1>1, <1>9 DEF Good
  <2>2. \A k \in 1 .. Len(s) : Fits(s[k], q.calls[k], q.chain, q.born)
    <3>1. q.born \in SUBSET deployed
      BY <2>1 DEF Opened
    <3> QED
      BY <1>2, <1>4, <1>5, <1>6, <3>1, AnswersFit
  <2>3. Opened(t, r)
    BY <1>7, <2>1 DEF Opened
  <2>4. Answered(r)
    BY <1>6, <1>7, <2>2 DEF Answered
  <2> QED
    BY <1>7, <2>3, <2>4 DEF Good
<1> QED
  BY <1>3, <1>8, <1>9 DEF Becomes, q

\* A request that fails keeps what it has, and no answer is read from it.
LEMMA FailStep ==
    ASSUME NEW t, Serving(t), SendFails(t) \/ StoreFails(t)
    PROVE  \E r : Becomes(t, r)
<1> DEFINE q == req[t]
           r == [q EXCEPT !.at = "failed"]
<1>1. q \in RequestType /\ q.at # "idle"
  BY DEF Serving, Shaped, SendFails, StoreFails, Filtered
<1>2. req' = [req EXCEPT ![t] = r]
  BY DEF SendFails, StoreFails, Serving, RpcTypeOK
<1> HIDE DEF q
<1>3. "failed" \in Places
  BY DEF Places
<1>4. /\ r \in RequestType
      /\ r.at = "failed" /\ r.chain = q.chain /\ r.layers = q.layers /\ r.layer = q.layer
      /\ r.born = q.born /\ r.calls = q.calls /\ r.hits = q.hits
      /\ r.missIndexes = q.missIndexes /\ r.missCalls = q.missCalls
      /\ r.results = q.results /\ r.merged = q.merged /\ r.next = q.next
  BY <1>1, <1>3, MovedRequest
<1> HIDE DEF r
<1>5. Shaped(r)
  BY <1>1, <1>4 DEF Shaped, Serving, q
<1>6. Good(t, r)
  BY <1>4 DEF Good
<1> QED
  BY <1>2, <1>5, <1>6 DEF Becomes

\* An answer that is merged fills the place of its call, and the places that are still
\* empty are those of the answers after it.
LEMMA MergeStep ==
    ASSUME NEW t, Serving(t), req[t].at \in {"after", "commit"},
           req[t].next <= Len(req[t].missCalls), req[t].next <= Len(req[t].results),
           req' = [req EXCEPT ![t] = Merge(@, Item(t))]
    PROVE  \E r : Becomes(t, r)
<1> DEFINE q == req[t]
           item == Item(t)
           i == item.index
           v == item.result
           r == Merge(q, item)
<1>1. /\ q \in RequestType /\ q.at \in {"after", "commit"}
      /\ q.next <= Len(q.missCalls) /\ q.next <= Len(q.results)
  BY DEF Serving, Shaped
<1>2. req' = [req EXCEPT ![t] = r]
  OBVIOUS
<1>3. q.chain \in Chain /\ q.layer # 0 /\ q.next # 0 /\ Len(q.missIndexes) = Len(q.missCalls)
  BY <1>1 DEF Serving, Shaped
<1>4. /\ q.results \in Slots /\ q.missCalls \in Seq(CallType) /\ q.next \in Nat
      /\ q.merged \in Slots
  BY <1>1 DEF RequestType, Slots
<1>5. i = q.missIndexes[q.next] /\ v = q.results[q.next]
  BY DEF Item
<1> HIDE DEF q, item
<1>6. v \in Value \union {None}
  BY <1>1, <1>3, <1>4, <1>5 DEF Slots
<1>7. /\ r \in RequestType
      /\ r.at = "after" /\ r.chain = q.chain /\ r.layers = q.layers
      /\ r.layer = q.layer
      /\ r.born = q.born /\ r.calls = q.calls /\ r.hits = q.hits
      /\ r.missIndexes = q.missIndexes /\ r.missCalls = q.missCalls
      /\ r.results = q.results /\ r.merged = Put(q.merged, i, v) /\ r.next = q.next + 1
  BY <1>1, <1>6, ItemMerged
<1> HIDE DEF r, i, v
<1>8. /\ Len(r.merged) = Len(q.merged)
       /\ \A j \in 1 .. Len(q.merged) : r.merged[j] = IF j = i THEN v ELSE q.merged[j]
  BY <1>4, <1>6, <1>7, PlaceWritten
<1>9. Shaped(r)
  BY <1>3, <1>4, <1>7, <1>8 DEF Shaped
<1>10. ASSUME Good(t, q) PROVE Good(t, r)
  <2>1. Opened(t, q) /\ Sorted(q) /\ Filling(q)
    BY <1>1, <1>10 DEF Good
  <2>2. Opened(t, r)
    BY <1>1, <1>7, <1>8, <2>1 DEF Opened
  <2>3. Sorted(r)
    BY <1>7, <1>8, <2>1 DEF Sorted
  <2>4. Fits(v, q.calls[i], q.chain, q.born) /\ v # None
    <3>1. q.next \in 1 .. Len(q.missCalls) /\ q.next \in 1 .. Len(q.results)
      BY <1>1, <1>3, <1>4 DEF Slots
    <3>2. Fits(v, q.missCalls[q.next], q.chain, q.born)
      BY <1>5, <2>1, <3>1 DEF Filling
    <3>3. q.missCalls[q.next] = q.calls[i]
      BY <1>5, <2>1, <3>1 DEF Sorted
    <3> QED
      BY <3>2, <3>3, ValueAssumption DEF Fits
  <2>5. ASSUME NEW j \in 1 .. Len(r.merged)
        PROVE  IF r.merged[j] = None
               THEN \E k \in r.next .. Len(r.missCalls) : r.missIndexes[k] = j
               ELSE Fits(r.merged[j], r.calls[j], r.chain, r.born)
    <3>1. CASE j = i
      BY <1>7, <1>8, <2>4, <3>1
    <3>2. CASE j # i
      <4>1. j \in 1 .. Len(q.merged) /\ r.merged[j] = q.merged[j]
        BY <1>7, <1>8, <3>2
      <4>2. CASE q.merged[j] = None
        <5>1. PICK k \in q.next .. Len(q.missCalls) : q.missIndexes[k] = j
          BY <2>1, <4>1, <4>2 DEF Filling
        <5>2. k # q.next
          BY <1>5, <3>2, <5>1
        <5>3. k \in r.next .. Len(r.missCalls) /\ r.missIndexes[k] = j
          BY <1>4, <1>7, <1>8, <5>1, <5>2
        <5> QED
          BY <4>1, <4>2, <5>3
      <4>3. CASE q.merged[j] # None
        BY <1>7, <1>8, <2>1, <4>1, <4>3 DEF Filling
      <4> QED
        BY <4>2, <4>3
    <3> QED
      BY <3>1, <3>2
  <2>6. Filling(r)
    BY <1>7, <1>8, <2>1, <2>5 DEF Filling
  <2> QED
    BY <1>7, <1>8, <2>2, <2>3, <2>6 DEF Good
<1> QED
  BY <1>2, <1>9, <1>10 DEF Becomes, q

LEMMA KeepStep == ASSUME NEW t, Serving(t), Keep(t) PROVE \E r : Becomes(t, r)
<1>1. /\ req[t].missCalls \in Seq(CallType) /\ req[t].results \in Slots
      /\ req[t].missIndexes \in Seq(Nat \ {0}) /\ req[t].next \in Nat
      /\ Len(req[t].missIndexes) = Len(req[t].missCalls)
  BY DEF Serving, Shaped, RequestType, Slots
<1>2. req[t].next <= Len(req[t].missCalls) /\ req[t].next <= Len(req[t].results)
  BY <1>1 DEF Keep, Zipped, Slots
<1> QED
  BY <1>2, MergeStep DEF Keep

LEMMA CommitStep == ASSUME NEW t, Serving(t), Commit(t) PROVE \E r : Becomes(t, r)
<1>1. req[t].next <= Len(req[t].missCalls) /\ req[t].next <= Len(req[t].results)
  BY DEF Serving, Shaped, Commit
<1> QED
  BY <1>1, MergeStep DEF Commit

\* An answer that is stored is filed under its own call, and cannot go out of date.
LEMMA StoreStep ==
    ASSUME NEW t, Serving(t), Store(t)
    PROVE  /\ \E r : Becomes(t, r)
           /\ cache' \in [CacheKey -> Value \union {None}]
           /\ Good(t, req[t]) /\ Remembers(cache) => Remembers(cache')
<1> DEFINE q == req[t]
           r == [q EXCEPT !.at = "commit"]
           call == q.missCalls[q.next]
           v == q.results[q.next]
<1>1. /\ q \in RequestType /\ q.at = "after"
      /\ q.missCalls \in Seq(CallType) /\ q.results \in Slots
      /\ q.missIndexes \in Seq(Nat \ {0}) /\ q.next \in Nat
      /\ Len(q.missIndexes) = Len(q.missCalls)
      /\ q.chain \in Chain /\ q.layer # 0 /\ q.next # 0
  BY DEF Serving, Shaped, RequestType, Slots, Store
<1>2. q.next <= Len(q.missCalls) /\ q.next <= Len(q.results)
  BY <1>1 DEF Store, Zipped, Slots
<1>3. req' = [req EXCEPT ![t] = r]
  BY DEF Store, Serving, RpcTypeOK
<1>4. cache' = [cache EXCEPT ![<<q.chain, call>>] = v] /\ Storable(call, v)
  BY DEF Store, Item
<1>5. call \in CallType /\ v \in Value \union {None}
  BY <1>1, <1>2 DEF Slots
<1>6. cache \in [CacheKey -> Value \union {None}]
  BY DEF Serving, RpcTypeOK
<1> HIDE DEF q
<1>7. "commit" \in Places
  BY DEF Places
<1>8. /\ r \in RequestType
      /\ r.at = "commit" /\ r.chain = q.chain /\ r.layers = q.layers /\ r.layer = q.layer
      /\ r.born = q.born /\ r.calls = q.calls /\ r.hits = q.hits
      /\ r.missIndexes = q.missIndexes /\ r.missCalls = q.missCalls
      /\ r.results = q.results /\ r.merged = q.merged /\ r.next = q.next
  BY <1>1, <1>7, MovedRequest
<1> HIDE DEF r
<1>9. Shaped(r)
  BY <1>1, <1>2, <1>8 DEF Shaped
<1>10. ASSUME Good(t, q) PROVE Good(t, r)
  <2>1. Opened(t, q) /\ Sorted(q) /\ Filling(q)
    BY <1>1, <1>10 DEF Good
  <2>2. Opened(t, r)
    BY <1>1, <1>8, <2>1 DEF Opened
  <2>3. Sorted(r) /\ Filling(r)
    BY <1>8, <2>1 DEF Sorted, Filling
  <2> QED
    BY <1>8, <2>2, <2>3 DEF Good
<1>11. ASSUME Good(t, q), Remembers(cache) PROVE Remembers(cache')
  <2>1. Filling(q) /\ q.next \in 1 .. Len(q.results)
    BY <1>1, <1>2, <1>11 DEF Good, Slots
  <2>2. Fits(v, call, q.chain, q.born)
    BY <2>1 DEF Filling
  <2>3. Fits(v, call, q.chain, Chain \X Address)
    BY <1>4, <2>2 DEF Fits, Storable
  <2> HIDE DEF call, v
  <2>4. ASSUME NEW c \in Chain, NEW x \in CallType, cache'[<<c, x>>] # None
        PROVE  Fits(cache'[<<c, x>>], x, c, Chain \X Address)
    <3>1. <<c, x>> \in CacheKey
      BY DEF CacheKey
    <3>2. CASE <<c, x>> = <<q.chain, call>>
      BY <1>4, <1>6, <2>3, <3>1, <3>2
    <3>3. CASE <<c, x>> # <<q.chain, call>>
      <4>1. cache'[<<c, x>>] = cache[<<c, x>>]
        BY <1>4, <1>6, <3>1, <3>3
      <4> QED
        BY <1>11, <2>4, <4>1 DEF Remembers
    <3> QED
      BY <3>2, <3>3
  <2> QED
    BY <2>4 DEF Remembers
<1> HIDE DEF call, v
<1>12. cache' \in [CacheKey -> Value \union {None}]
  BY <1>4, <1>5, <1>6
<1> QED
  BY <1>3, <1>9, <1>10, <1>11, <1>12 DEF Becomes, q

LEMMA ReturnStep == ASSUME NEW t, Serving(t), Return(t) PROVE \E r : Becomes(t, r)
<1> DEFINE q == req[t]
<1>1. /\ q \in RequestType /\ q.at = "after"
      /\ q.missCalls \in Seq(CallType) /\ q.results \in Slots
      /\ q.missIndexes \in Seq(Nat \ {0}) /\ q.next \in Nat
      /\ q.hits \in Slots /\ q.merged \in Slots /\ q.layer \in Nat /\ q.layers \in Nat
      /\ Len(q.missIndexes) = Len(q.missCalls)
      /\ q.chain \in Chain /\ q.layer # 0 /\ q.next # 0
  BY DEF Serving, Shaped, RequestType, Slots, Return
<1>2. q.next > Len(q.missIndexes) \/ q.next > Len(q.results)
  BY DEF Return, Zipped
<1>3. SameLength(t) <=> Len(q.missIndexes) = Len(q.results)
  BY DEF SameLength
<1>4. /\ "failed" \in Places /\ "done" \in Places
  BY DEF Places
<1>5. CASE ~SameLength(t)
  <2> DEFINE r == [q EXCEPT !.at = "failed"]
  <2>1. req' = [req EXCEPT ![t] = r]
    BY <1>5 DEF Return
  <2> HIDE DEF q
  <2>2. r \in RequestType /\ r.at = "failed" /\ r.chain = q.chain /\ r.next = q.next
        /\ r.layer = q.layer /\ r.missIndexes = q.missIndexes /\ r.missCalls = q.missCalls
    BY <1>1, <1>4, MovedRequest
  <2> HIDE DEF r
  <2>3. Shaped(r) /\ Good(t, r)
    BY <1>1, <2>2 DEF Shaped, Good
  <2> QED
    BY <2>1, <2>3 DEF Becomes
<1>6. CASE SameLength(t) /\ q.layer = 1
  <2> DEFINE r == [q EXCEPT !.at = "done"]
  <2>1. req' = [req EXCEPT ![t] = r]
    BY <1>6 DEF Return
  <2> HIDE DEF q
  <2>2. /\ r \in RequestType
        /\ r.at = "done" /\ r.chain = q.chain /\ r.layers = q.layers /\ r.layer = q.layer
        /\ r.born = q.born /\ r.calls = q.calls /\ r.hits = q.hits
        /\ r.missIndexes = q.missIndexes /\ r.missCalls = q.missCalls
        /\ r.results = q.results /\ r.merged = q.merged /\ r.next = q.next
    BY <1>1, <1>4, MovedRequest
  <2> HIDE DEF r
  <2>3. Shaped(r)
    BY <1>1, <2>2 DEF Shaped
  <2>4. ASSUME Good(t, q) PROVE Good(t, r)
    <3>1. Opened(t, q) /\ Filling(q)
      BY <1>1, <2>4 DEF Good
    <3>2. q.next .. Len(q.missCalls) = {}
      BY <1>1, <1>2, <1>3, <1>6
    <3>3. Answered(r)
      BY <2>2, <3>1, <3>2 DEF Answered, Filling
    <3>4. Opened(t, r)
      BY <2>2, <3>1 DEF Opened
    <3> QED
      BY <2>2, <3>3, <3>4 DEF Good
  <2> QED
    BY <2>1, <2>3, <2>4 DEF Becomes, q
<1>7. CASE SameLength(t) /\ q.layer # 1
  <2> DEFINE r == [q EXCEPT !.layer = q.layer - 1, !.results = q.merged,
                            !.merged = q.hits, !.next = 1]
  <2>1. req' = [req EXCEPT ![t] = r]
    BY <1>7 DEF Return
  <2> HIDE DEF q
  <2>2. q.layer > 1
    BY <1>1, <1>7
  <2>3. /\ r \in RequestType
        /\ r.at = q.at /\ r.chain = q.chain /\ r.layers = q.layers
        /\ r.layer = q.layer - 1
        /\ r.born = q.born /\ r.calls = q.calls /\ r.hits = q.hits
        /\ r.missIndexes = q.missIndexes /\ r.missCalls = q.missCalls
        /\ r.results = q.merged /\ r.merged = q.hits /\ r.next = 1
    BY <1>1, <2>2, LayerLeft
  <2> HIDE DEF r
  <2>4. Shaped(r)
    BY <1>1, <2>2, <2>3 DEF Shaped
  <2>5. ASSUME Good(t, q) PROVE Good(t, r)
    <3>1. Opened(t, q) /\ Sorted(q) /\ Filling(q)
      BY <1>1, <2>5 DEF Good
    <3>2. q.layers > 1
      BY <1>1, <2>2, <3>1 DEF Opened
    <3>3. /\ Len(q.hits) = Len(q.calls) /\ Len(q.missCalls) = Len(q.calls)
          /\ Len(q.merged) = Len(q.calls)
      BY <3>1, <3>2 DEF Sorted, Filling
    <3>4. \A k \in 1 .. Len(q.calls) :
              q.missIndexes[k] = k /\ q.missCalls[k] = q.calls[k]
      BY <3>1, <3>2, <3>3 DEF Sorted
    <3>5. q.next .. Len(q.missCalls) = {}
      BY <1>1, <1>2, <1>3, <1>7
    <3>6. \A k \in 1 .. Len(q.calls) : Fits(q.merged[k], q.calls[k], q.chain, q.born)
      BY <3>1, <3>3, <3>5 DEF Filling
    <3>7. Opened(t, r)
      BY <1>1, <2>3, <3>1 DEF Opened
    <3>8. Sorted(r)
      BY <2>3, <3>1 DEF Sorted
    <3>9. Filling(r)
      <4>1. \A k \in 1 .. Len(r.results) :
                Fits(r.results[k], r.missCalls[k], r.chain, r.born)
        BY <2>3, <3>3, <3>4, <3>6
      <4>2. \A i \in 1 .. Len(r.merged) :
                IF r.merged[i] = None
                THEN \E k \in r.next .. Len(r.missCalls) : r.missIndexes[k] = i
                ELSE Fits(r.merged[i], r.calls[i], r.chain, r.born)
        BY <2>3, <3>1, <3>3 DEF Sorted
      <4> QED
        BY <2>3, <3>3, <4>1, <4>2 DEF Filling
    <3> QED
      BY <1>1, <2>3, <3>7, <3>8, <3>9 DEF Good
  <2> QED
    BY <2>1, <2>4, <2>5 DEF Becomes, q
<1> QED
  BY <1>5, <1>6, <1>7

\* Every step of a request keeps its shape and the types of the tables.
LEMMA ServeStep ==
    ASSUME NEW t, Serving(t), Serve(t)
    PROVE  /\ \E r : Becomes(t, r)
           /\ RpcTypeOK'
           /\ Good(t, req[t]) /\ Remembers(cache) /\ Remembers(durable) =>
                  Remembers(cache)' /\ Remembers(durable)'
<1> DEFINE Tables ==
               /\ cache' \in [CacheKey -> Value \union {None}]
               /\ durable' \in {cache, durable} /\ deployed' = deployed
               /\ Good(t, req[t]) /\ Remembers(cache) => Remembers(cache')
<1>1. ASSUME UNCHANGED <<deployed, cache, durable>> PROVE Tables
  BY <1>1 DEF Serving, RpcTypeOK
<1>2. (\E r : Becomes(t, r)) /\ Tables
  <2>1. CASE Lookup(t)
    BY <1>1, <2>1, LookupStep DEF Lookup
  <2>2. CASE NextLayer(t)
    BY <1>1, <2>2, NextLayerStep DEF NextLayer
  <2>3. CASE Send(t)
    BY <1>1, <2>3, SendStep DEF Send
  <2>4. CASE SendDirect(t)
    BY <1>1, <2>4, SendDirectStep DEF SendDirect
  <2>5. CASE SendFails(t)
    BY <1>1, <2>5, FailStep DEF SendFails
  <2>6. CASE Keep(t)
    BY <1>1, <2>6, KeepStep DEF Keep
  <2>7. CASE Store(t)
    BY <2>7, StoreStep DEF Store
  <2>8. CASE Commit(t)
    BY <2>8, CommitStep DEF Commit, Serving, RpcTypeOK
  <2>9. CASE StoreFails(t)
    BY <1>1, <2>9, FailStep DEF StoreFails
  <2>10. CASE Return(t)
    BY <1>1, <2>10, ReturnStep DEF Return
  <2> QED
    BY <2>1, <2>2, <2>3, <2>4, <2>5, <2>6, <2>7, <2>8, <2>9, <2>10 DEF Serve
<1>3. RpcTypeOK'
  BY <1>2 DEF Serving, RpcTypeOK, Becomes, Shaped
<1>4. ASSUME Good(t, req[t]), Remembers(cache), Remembers(durable)
      PROVE  Remembers(cache)' /\ Remembers(durable)'
  BY <1>2, <1>4 DEF Remembers, Fits
<1> QED
  BY <1>2, <1>3, <1>4

-----------------------------------------------------------------------------
(* The types, for any number of threads, chains and layers.                 *)

\* A request starts with no call looked at.
LEMMA BeginStep ==
    ASSUME RpcTypeOK, NEW t \in Thread, NEW c \in Chain, NEW n \in Nat, Begin(t, c, n)
    PROVE  \E r : /\ req' = [req EXCEPT ![t] = r]
                  /\ Shaped(r)
                  /\ Quiet(c) \/ n <= 1 => Good(t, r)
<1>1. PICK at \in {"direct", "before"} :
          /\ at = "direct" <=> n = 0
          /\ req' = [req EXCEPT ![t] =
                 [Idle EXCEPT !.at = at, !.chain = c, !.layers = n, !.layer = 1,
                              !.born = deployed, !.calls = Batch[t][c]]]
  BY DEF Begin
<1>2. PICK d \in SUBSET (Chain \X Address), b \in Seq(CallType) :
          d = deployed /\ b = Batch[t][c]
  BY BatchAssumption DEF RpcTypeOK
<1> DEFINE r == Begun(at, c, n, d, b)
<1>3. req' = [req EXCEPT ![t] = r]
  BY <1>1, <1>2 DEF Begun
<1>4. /\ r \in RequestType
      /\ r.at = at /\ r.chain = c /\ r.layers = n /\ r.layer = 1
      /\ r.born = d /\ r.calls = b /\ r.hits = <<>>
      /\ r.missIndexes = <<>> /\ r.missCalls = <<>> /\ r.next = 1
  <2>1. at \in Places
    BY <1>1 DEF Places
  <2> QED
    BY <1>2, <2>1, BegunRequest
<1> HIDE DEF r
<1>5. Shaped(r)
  BY <1>1, <1>4 DEF Shaped
<1>6. ASSUME Quiet(c) \/ n <= 1 PROVE Good(t, r)
  <2>1. Opened(t, r)
    BY <1>1, <1>2, <1>4, <1>6 DEF Opened, Quiet
  <2>2. Sorted(r)
    <3>1. Len(<<>>) = 0 /\ Len(b) \in Nat
      BY <1>2
    <3>2. 1 .. 0 = {}
      OBVIOUS
    <3> QED
      BY <1>4, <3>1, <3>2 DEF Sorted
  <2> QED
    BY <1>1, <1>4, <2>1, <2>2 DEF Good
<1> QED
  BY <1>3, <1>5, <1>6

LEMMA IdleGood == \A t : Shaped(Idle) /\ Good(t, Idle)
<1>1. Idle.at = "idle" /\ Idle.next = 1 /\ Idle.missIndexes = <<>> /\ Idle.missCalls = <<>>
  BY DEF Idle
<1> QED
  BY <1>1, IdleType DEF Shaped, Good

\* A thread whose request becomes this one leaves those of the others alone.
LEMMA RequestChanged ==
    ASSUME RpcTypeOK, \A u \in Thread : Shaped(req[u]), NEW t \in Thread, NEW r, Shaped(r),
           req' = [req EXCEPT ![t] = r]
    PROVE  /\ req' \in [Thread -> RequestType]
           /\ \A u \in Thread : Shaped(req'[u])
           /\ \A u \in Thread : req'[u] = IF u = t THEN r ELSE req[u]
  BY DEF RpcTypeOK, Shaped

\* What a step does to the requests: one of them at most is changed, or all are dropped.
LEMMA RequestsStep ==
    ASSUME TypeInv, [Next]_vars
    PROVE  RpcTypeOK' /\ \A u \in Thread : Shaped(req'[u])
<1> USE DEF TypeInv
<1>1. ASSUME UNCHANGED cacheVars PROVE RpcTypeOK' /\ \A u \in Thread : Shaped(req'[u])
  BY <1>1 DEF cacheVars, RpcTypeOK
<1>2. ASSUME NEW t \in Thread, Serve(t)
      PROVE  RpcTypeOK' /\ \A u \in Thread : Shaped(req'[u])
  <2>1. Serving(t)
    BY DEF Serving
  <2>2. RpcTypeOK' /\ \E r : Becomes(t, r)
    BY <1>2, <2>1, ServeStep
  <2> QED
    BY <2>2, RequestChanged DEF Becomes
<1>3. ASSUME NEW t \in Thread, Request(t)
      PROVE  RpcTypeOK' /\ \A u \in Thread : Shaped(req'[u])
  <2> DEFINE c == op[t].chain
             n == layers[op[t].chain][op[t].client]
  <2>1. c \in Chain /\ layers[c] \in Seq(Nat) /\ op[t].client \in Nat
    BY <1>3 DEF Request, Inv, ClientsType, OpType, WorkersKnow
  <2>2. op[t].client \in 1 .. Len(layers[c])
    BY <1>3, <2>1 DEF Request, ClientsExist
  <2>3. n \in Nat
    BY <2>1, <2>2
  <2>4. Begin(t, c, n)
    BY <1>3 DEF Request
  <2> HIDE DEF c, n
  <2>5. PICK r : req' = [req EXCEPT ![t] = r] /\ Shaped(r)
    BY <2>1, <2>3, <2>4, BeginStep
  <2>6. req' \in [Thread -> RequestType] /\ \A u \in Thread : Shaped(req'[u])
    BY <2>5, RequestChanged
  <2> QED
    BY <2>4, <2>6 DEF Begin, RpcTypeOK
<1>4. ASSUME NEW t \in Thread, Finish(t)
      PROVE  RpcTypeOK' /\ \A u \in Thread : Shaped(req'[u])
  <2>1. req' = [req EXCEPT ![t] = Idle]
    BY <1>4 DEF Finish
  <2>2. req' \in [Thread -> RequestType] /\ \A u \in Thread : Shaped(req'[u])
    BY <2>1, IdleGood, RequestChanged
  <2> QED
    BY <1>4, <2>2 DEF Finish, RpcTypeOK
<1>5. ASSUME NEW c \in Chain, NEW a \in Address, Deploy(c, a)
      PROVE  RpcTypeOK' /\ \A u \in Thread : Shaped(req'[u])
  <2>1. deployed' = deployed \union {<<c, a>>} /\ UNCHANGED <<cache, durable, req>>
    BY <1>5 DEF Deploy
  <2>2. deployed' \subseteq Chain \X Address
    BY <2>1 DEF RpcTypeOK
  <2> QED
    BY <2>1, <2>2 DEF RpcTypeOK
<1>6. CASE Restart
  BY <1>6, IdleType, IdleGood DEF Restart, RpcTypeOK
<1> QED
  BY <1>1, <1>2, <1>3, <1>4, <1>5, <1>6
     DEF Next, Step, Use, Configure, Create, Attach, ReturnClient, Progress, vars

\* The clients of a chain become more and more, and what a thread holds stays there.
LEMMA ClientsGrow ==
    ASSUME Inv, ClientsExist, NEW t \in Thread,
           \A u \in Thread : u # t => op'[u] = op[u],
           \A c \in Chain : Len(layers'[c]) >= Len(layers[c]),
           layers' \in [Chain -> Seq(Nat)],
           op'[t].at = "return" => op'[t].chain \in Chain /\ layers'[op'[t].chain] # <<>>,
           op'[t].at = "have" => op'[t].client # 0,
           op'[t].client # 0 =>
               op'[t].chain \in Chain /\ op'[t].client <= Len(layers'[op'[t].chain])
    PROVE  ClientsExist'
<1>1. \A c \in Chain : /\ layers[c] \in Seq(Nat) /\ layers'[c] \in Seq(Nat)
                       /\ Len(layers[c]) \in Nat /\ Len(layers'[c]) \in Nat
                       /\ layers[c] # <<>> => layers'[c] # <<>>
  BY DEF Inv, ClientsType
<1>2. SUFFICES ASSUME NEW u \in Thread, u # t
               PROVE  /\ op'[u].at = "return" => layers'[op'[u].chain] # <<>>
                      /\ op'[u].at = "have" => op'[u].client # 0
                      /\ op'[u].client # 0 =>
                             /\ op'[u].chain \in Chain
                             /\ op'[u].client <= Len(layers'[op'[u].chain])
  BY DEF ClientsExist
<1>3. op'[u] = op[u] /\ op[u].client \in Nat
  BY <1>2 DEF Inv, ClientsType, OpType
<1>4. op[u].at = "return" => op[u].chain \in Chain /\ layers[op[u].chain] # <<>>
  BY DEF Inv, WorkersKnow, ClientsExist
<1>5. op[u].client # 0 =>
          op[u].chain \in Chain /\ op[u].client <= Len(layers[op[u].chain])
  BY DEF ClientsExist
<1>6. op[u].at = "have" => op[u].client # 0
  BY DEF ClientsExist
<1> QED
  BY <1>1, <1>3, <1>4, <1>5, <1>6

\* Whatever client a thread holds is one of the chain's.
LEMMA ClientsStep == ASSUME TypeInv, [Next]_vars PROVE ClientsExist'
<1> USE DEF TypeInv
<1>1. Inv'
  BY InvStep
<1>2. layers' \in [Chain -> Seq(Nat)] /\ layers \in [Chain -> Seq(Nat)]
  BY <1>1 DEF Inv, ClientsType
<1>3. \A c \in Chain : Len(layers[c]) \in Nat
  BY <1>2
<1>4. \A u \in Thread : op[u] \in OpType
  BY DEF Inv, ClientsType
<1>5. CASE UNCHANGED <<layers, op>>
  BY <1>5 DEF ClientsExist
<1>6. ASSUME NEW t \in Thread, NEW c \in Chain, Use(t, c) \/ Configure(t, c)
      PROVE  ClientsExist'
  <2> DEFINE o == op'[t]
  <2>1. /\ layers' = layers /\ op' = [op EXCEPT ![t] = o]
        /\ o.chain = c /\ o.client = 0
        /\ o.at = "return" => layers[c] # <<>>
        /\ o.at # "have"
    <3>1. CASE Use(t, c)
      <4>1. PICK at \in {"create", "return"} :
                /\ op' = [op EXCEPT ![t] = [Resting EXCEPT !.chain = c, !.at = at]]
                /\ at = "return" => Len(layers[c]) # 0
        BY <3>1 DEF Use
      <4>2. /\ o = [Resting EXCEPT !.chain = c, !.at = at]
            /\ op' = [op EXCEPT ![t] = o]
        BY <4>1 DEF Inv, ClientsType
      <4>3. o.chain = c /\ o.client = 0 /\ o.at = at
        BY <4>2
      <4>4. at = "return" => layers[c] # <<>>
        BY <1>2, <4>1
      <4> QED
        BY <3>1, <4>2, <4>3, <4>4 DEF Use
    <3>2. CASE Configure(t, c)
      <4>1. op' = [op EXCEPT ![t] =
                [Resting EXCEPT !.chain = c, !.at = "create", !.configuring = TRUE]]
        BY <3>2 DEF Configure
      <4>2. /\ o = [Resting EXCEPT !.chain = c, !.at = "create", !.configuring = TRUE]
            /\ op' = [op EXCEPT ![t] = o]
        BY <4>1 DEF Inv, ClientsType
      <4>3. o.chain = c /\ o.client = 0 /\ o.at = "create"
        BY <4>2
      <4> QED
        BY <3>2, <4>2, <4>3 DEF Configure
    <3> QED
      BY <1>6, <3>1, <3>2
  <2>2. op'[t] = o /\ \A u \in Thread : u # t => op'[u] = op[u]
    BY <2>1 DEF Inv, ClientsType
  <2> HIDE DEF o
  <2> QED
    BY <1>2, <1>3, <2>1, <2>2, ClientsGrow
<1>7. ASSUME NEW t \in Thread, Create(t) PROVE ClientsExist'
  <2> DEFINE o == [op[t] EXCEPT !.at = "attach"]
  <2>1. PICK d \in Chain : d = op[t].chain
    BY <1>7 DEF Create, Inv, WorkersKnow
  <2>2. layers' = [layers EXCEPT ![d] = Append(layers[d], 0)] /\ op' = [op EXCEPT ![t] = o]
    BY <1>7, <2>1 DEF Create, Inv, ClientsType
  <2>3. o.at = "attach" /\ o.chain = d /\ o.client = op[t].client /\ o.client \in Nat
    BY <1>4, <2>1
  <2>4. Len(Append(layers[d], 0)) = Len(layers[d]) + 1
    BY <1>2
  <2>5. \A c \in Chain : Len(layers'[c]) >= Len(layers[c])
    BY <1>2, <1>3, <2>2, <2>4
  <2>6. o.client # 0 => o.client <= Len(layers'[d])
    <3>1. Len(layers'[d]) \in Nat
      BY <1>2
    <3> QED
      BY <1>3, <2>1, <2>3, <2>5, <3>1 DEF ClientsExist
  <2>7. op'[t] = o /\ \A u \in Thread : u # t => op'[u] = op[u]
    BY <2>2 DEF Inv, ClientsType
  <2> HIDE DEF o
  <2> QED
    BY <1>2, <2>2, <2>3, <2>5, <2>6, <2>7, ClientsGrow
<1>8. ASSUME NEW t \in Thread, Attach(t) PROVE ClientsExist'
  <2>1. PICK d \in Chain : d = op[t].chain /\ layers[d] # <<>>
    BY <1>8 DEF Attach, Inv, WorkersKnow
  <2>2. layers' = [layers EXCEPT ![d] = [layers[d] EXCEPT ![Len(layers[d])] = @ + 1]]
    BY <1>8, <2>1 DEF Attach
  <2>3. Len(layers'[d]) = Len(layers[d])
    BY <1>2, <2>1, <2>2, NewestIsCached
  <2>4. \A c \in Chain : Len(layers'[c]) = Len(layers[c])
    BY <1>2, <2>2, <2>3
  <2>5. layers'[d] # <<>>
    BY <1>2, <1>3, <2>1, <2>3
  <2> DEFINE o == Attached(t)
  <2>6. op' = [op EXCEPT ![t] = o]
    BY <1>8 DEF Attach
  <2>7. \/ o.at = "idle" /\ o.client = 0
        \/ o.at = "return" /\ o.chain = d /\ o.client = op[t].client
    BY <1>4, <2>1 DEF Attached
  <2>8. op[t].client # 0 => op[t].client <= Len(layers'[d])
    BY <2>1, <2>4 DEF ClientsExist
  <2>9. op'[t] = o /\ \A u \in Thread : u # t => op'[u] = op[u]
    BY <2>6 DEF Inv, ClientsType
  <2> HIDE DEF o
  <2>10. \A c \in Chain : Len(layers'[c]) >= Len(layers[c])
    BY <1>3, <2>4
  <2>11. o.at = "return" => o.chain = d
    BY <2>7
  <2>12. o.client # 0 => o.chain = d /\ o.client <= Len(layers'[d])
    BY <2>7, <2>8
  <2>13. o.at # "have"
    BY <2>7
  <2> QED
    BY <1>2, <2>5, <2>9, <2>10, <2>11, <2>12, <2>13, ClientsGrow
<1>9. ASSUME NEW t \in Thread, ReturnClient(t) PROVE ClientsExist'
  <2> DEFINE o == [op[t] EXCEPT !.at = "have", !.client = Len(layers[op[t].chain])]
  <2>1. op' = [op EXCEPT ![t] = o] /\ layers' = layers
    BY <1>9 DEF ReturnClient, Inv, ClientsType
  <2>2. o.at = "have" /\ o.chain = op[t].chain /\ o.client = Len(layers[op[t].chain])
    BY <1>4
  <2>3. op[t].chain \in Chain /\ layers[op[t].chain] # <<>>
    BY <1>9 DEF ReturnClient, Inv, WorkersKnow, ClientsExist
  <2>4. Len(layers[op[t].chain]) # 0
    BY <1>2, <2>3
  <2>5. op'[t] = o /\ \A u \in Thread : u # t => op'[u] = op[u]
    BY <2>1 DEF Inv, ClientsType
  <2> HIDE DEF o
  <2> QED
    BY <1>2, <1>3, <2>1, <2>2, <2>3, <2>4, <2>5, ClientsGrow
<1>10. ASSUME NEW t \in Thread, Request(t) PROVE ClientsExist'
  <2> DEFINE o == [op[t] EXCEPT !.at = "request"]
  <2>1. op' = [op EXCEPT ![t] = o] /\ layers' = layers
    BY <1>10 DEF Request
  <2>2. o.at = "request" /\ o.chain = op[t].chain /\ o.client = op[t].client
    BY <1>4
  <2>3. op[t].client # 0 =>
            op[t].chain \in Chain /\ op[t].client <= Len(layers[op[t].chain])
    BY DEF ClientsExist
  <2>4. op'[t] = o /\ \A u \in Thread : u # t => op'[u] = op[u]
    BY <2>1 DEF Inv, ClientsType
  <2> HIDE DEF o
  <2> QED
    BY <1>2, <1>3, <2>1, <2>2, <2>3, <2>4, ClientsGrow
<1>11. ASSUME NEW t \in Thread, Finish(t) PROVE ClientsExist'
  <2>1. layers' = layers /\ op' = [op EXCEPT ![t] = Resting]
    BY <1>11 DEF Finish
  <2>2. op'[t] = Resting /\ \A u \in Thread : u # t => op'[u] = op[u]
    BY <2>1 DEF Inv, ClientsType
  <2>3. Resting.at = "idle" /\ Resting.client = 0
    OBVIOUS
  <2> QED
    BY <1>2, <1>3, <2>1, <2>2, <2>3, ClientsGrow
<1>12. CASE Restart
  BY <1>12 DEF Restart, ClientsExist
<1> QED
  BY <1>5, <1>6, <1>7, <1>8, <1>9, <1>10, <1>11, <1>12
     DEF Next, Step, Progress, clientVars, vars

LEMMA TypeInvInit == Init => TypeInv
<1> SUFFICES ASSUME Init PROVE TypeInv
  OBVIOUS
<1>1. Inv
  BY InvInit
<1>2. ClientsExist
  BY DEF Init, ClientsExist
<1>3. RpcTypeOK /\ \A t \in Thread : Shaped(req[t])
  BY IdleType, IdleGood DEF Init, RpcInit, RpcTypeOK
<1>4. configured \in 0 .. MaxConfigures
  BY ClientAssumption DEF Init
<1> QED
  BY <1>1, <1>2, <1>3, <1>4 DEF TypeInv

LEMMA TypeInvStep == TypeInv /\ [Next]_vars => TypeInv'
<1> SUFFICES ASSUME TypeInv, [Next]_vars PROVE TypeInv'
  OBVIOUS
<1>1. Inv' /\ ClientsExist'
  BY InvStep, ClientsStep DEF TypeInv
<1>2. RpcTypeOK' /\ (\A t \in Thread : Shaped(req[t]))'
  BY RequestsStep
<1>3. configured' \in 0 .. MaxConfigures
  <2>1. \/ configured' \in {configured, 0}
        \/ configured < MaxConfigures /\ configured' = configured + 1
    BY DEF Next, Step, Use, Configure, Create, Attach, ReturnClient, Request, Finish,
           Progress, Restart, clientVars, vars
  <2> QED
    BY <2>1, ClientAssumption DEF TypeInv
<1> QED
  BY <1>1, <1>2, <1>3 DEF TypeInv

\* Tables, requests and clients keep their types, however many clients race and however
\* often the middleware ends up on one of them (the property w3 and RpcCacheMiddleware).
THEOREM TypeCorrect == Spec => []TypeOK
<1>1. TypeInv => TypeOK
  BY DEF TypeInv, TypeOK, Inv, ClientsExist
<1> QED
  BY <1>1, TypeInvInit, TypeInvStep, PTL DEF Spec

-----------------------------------------------------------------------------
(* Where clients are made by one thread each, they have the middleware once *)
(* at most.                                                                 *)

\* A thread that goes elsewhere in the code leaves the clients as they are.
LEMMA SingleKept ==
    ASSUME Inv, ClientsAreSingle, NEW t \in Thread, layers' = layers,
           \A u \in Thread : u # t => op'[u] = op[u],
           op'[t].at # "attach",
           op'[t].at = "create" => MayCreate(t, op'[t].chain)
    PROVE  ClientsAreSingle'
<1>1. \A u \in Thread : op'[u].at = "attach" => op'[u] = op[u]
  OBVIOUS
<1>2. \A c \in Chain : Single(c) => Single(c)'
  BY <1>1 DEF Single
<1>3. ASSUME NEW u \in Thread, op'[u].at \in {"create", "attach"}
      PROVE  MayCreate(u, op'[u].chain)
  <2>1. CASE u = t
    BY <1>3, <2>1
  <2>2. CASE u # t
    BY <1>3, <2>2 DEF ClientsAreSingle
  <2> QED
    BY <2>1, <2>2
<1> QED
  BY <1>2, <1>3 DEF ClientsAreSingle, Quiet, MayCreate

LEMMA SingleStep ==
    ASSUME OneMakerEach, TypeInv, ClientsAreSingle, [Next]_vars
    PROVE  ClientsAreSingle'
<1>1. Inv /\ Inv'
  BY InvStep DEF TypeInv
<1>2. layers \in [Chain -> Seq(Nat)] /\ layers' \in [Chain -> Seq(Nat)]
  BY <1>1 DEF Inv, ClientsType
<1>3. \A c \in Chain : Len(layers[c]) \in Nat
  BY <1>2
<1>4. op \in [Thread -> OpType]
  BY <1>1 DEF Inv, ClientsType
<1>5. CASE UNCHANGED <<layers, op>>
  BY <1>5 DEF ClientsAreSingle, Single, Quiet, MayCreate
<1>6. ASSUME NEW t \in Thread, NEW c \in Chain, Use(t, c) \/ Configure(t, c)
      PROVE  ClientsAreSingle'
  <2>1. /\ layers' = layers /\ \A u \in Thread : u # t => op'[u] = op[u]
        /\ op'[t].at # "attach" /\ op'[t].chain = c
        /\ op'[t].at = "create" => MayCreate(t, c)
    <3>1. CASE Use(t, c)
      <4>1. PICK at \in {"create", "return"} :
                /\ op' = [op EXCEPT ![t] = [Resting EXCEPT !.chain = c, !.at = at]]
                /\ at = "create" => Len(layers[c]) = 0
        BY <3>1 DEF Use
      <4>2. op'[t] = [Resting EXCEPT !.chain = c, !.at = at]
        BY <1>4, <4>1
      <4>3. op'[t].chain = c /\ op'[t].at = at
        BY <4>2
      <4>4. at = "create" => c \notin Warm
        BY <1>2, <4>1 DEF ClientsAreSingle
      <4>5. \A u \in Thread : u # t => op'[u] = op[u]
        BY <1>4, <4>1
      <4> QED
        BY <3>1, <4>1, <4>3, <4>4, <4>5 DEF Use, MayCreate
    <3>2. CASE Configure(t, c)
      <4>1. op' = [op EXCEPT ![t] =
                [Resting EXCEPT !.chain = c, !.at = "create", !.configuring = TRUE]]
        BY <3>2 DEF Configure
      <4>2. op'[t] = [Resting EXCEPT !.chain = c, !.at = "create", !.configuring = TRUE]
        BY <1>4, <4>1
      <4>3. op'[t].chain = c /\ op'[t].at = "create"
        BY <4>2
      <4>4. \A u \in Thread : u # t => op'[u] = op[u]
        BY <1>4, <4>1
      <4> QED
        BY <3>2, <4>3, <4>4 DEF Configure, MayCreate
    <3> QED
      BY <1>6, <3>1, <3>2
  <2> QED
    BY <1>1, <2>1, SingleKept
<1>7. ASSUME NEW t \in Thread, Create(t) PROVE ClientsAreSingle'
  <2>1. PICK d \in Chain : d = op[t].chain /\ op[t].at = "create"
    BY <1>1, <1>7 DEF Create, Inv, WorkersKnow
  <2>2. layers' = [layers EXCEPT ![d] = Append(layers[d], 0)]
    BY <1>7, <2>1 DEF Create
  <2>3. /\ op'[t].at = "attach" /\ op'[t].chain = d
        /\ \A u \in Thread : u # t => op'[u] = op[u]
    BY <1>4, <1>7, <2>1 DEF Create
  <2>4. MayCreate(t, d)
    BY <2>1 DEF ClientsAreSingle
  <2>5. \A u \in Thread : op'[u].at \in {"create", "attach"} => MayCreate(u, op'[u].chain)
    BY <2>3, <2>4 DEF ClientsAreSingle
  <2>6. ASSUME NEW c \in Warm PROVE layers'[c] # <<>>
    <3>1. c \in Chain /\ layers[c] # <<>>
      BY ClientAssumption DEF ClientsAreSingle
    <3>2. Len(Append(layers[d], 0)) > 0 /\ Len(<<>>) = 0
      BY <1>2, AppendedIsNewest
    <3> QED
      BY <1>2, <2>2, <3>1, <3>2
  <2>7. ASSUME NEW c \in Chain PROVE Quiet(c) \/ Single(c)'
    <3>1. CASE c = d
      <4>1. /\ Len(layers'[c]) = Len(layers[c]) + 1 /\ layers'[c][Len(layers[c]) + 1] = 0
            /\ \A i \in 1 .. Len(layers[c]) : layers'[c][i] = layers[c][i]
        BY <1>2, <2>2, <3>1
      <4>2. Single(c) => Single(c)'
        <5>1. ASSUME Single(c), NEW i \in 1 .. Len(layers'[c]) PROVE layers'[c][i] <= 1
          <6>1. i = Len(layers[c]) + 1 \/ i \in 1 .. Len(layers[c])
            BY <1>3, <4>1
          <6> QED
            BY <4>1, <5>1, <6>1 DEF Single
        <5> QED
          BY <4>1, <5>1 DEF Single
      <4> QED
        BY <4>2 DEF ClientsAreSingle
    <3>2. CASE c # d
      <4>1. layers'[c] = layers[c]
        BY <1>2, <2>2, <3>2
      <4>2. \A u \in Thread : op'[u].at = "attach" /\ op'[u].chain = c => op'[u] = op[u]
        BY <2>3, <3>2
      <4> QED
        BY <4>1, <4>2 DEF ClientsAreSingle, Single
    <3> QED
      BY <3>1, <3>2
  <2> QED
    BY <2>5, <2>6, <2>7 DEF ClientsAreSingle, Quiet, MayCreate
<1>8. ASSUME NEW t \in Thread, Attach(t) PROVE ClientsAreSingle'
  <2>1. PICK d \in Chain : d = op[t].chain /\ layers[d] # <<>> /\ op[t].at = "attach"
    BY <1>1, <1>8 DEF Attach, Inv, WorkersKnow
  <2> DEFINE n == Len(layers[d])
  <2>2. layers' = [layers EXCEPT ![d] = [layers[d] EXCEPT ![n] = @ + 1]]
    BY <1>8, <2>1 DEF Attach
  <2>3. n \in 1 .. n /\ layers[d] \in [1 .. n -> Nat]
    BY <1>2, <2>1
  <2>4. Len(layers'[d]) = n /\ layers'[d] # <<>>
    <3>1. Len(layers'[d]) = n
      BY <1>2, <2>1, <2>2, NewestIsCached
    <3> QED
      BY <1>2, <2>3, <3>1
  <2>5. \A i \in 1 .. n : layers'[d][i] = IF i = n THEN layers[d][n] + 1 ELSE layers[d][i]
    BY <1>2, <2>2, <2>3
  <2>6. /\ op'[t].at \in {"idle", "return"}
        /\ \A u \in Thread : u # t => op'[u] = op[u]
    BY <1>4, <1>8 DEF Attach, Attached
  <2>7. \A u \in Thread : op'[u].at \in {"create", "attach"} => MayCreate(u, op'[u].chain)
    BY <2>6 DEF ClientsAreSingle
  <2>8. \A c \in Warm : layers'[c] # <<>>
    BY <1>2, <2>2, <2>4, ClientAssumption DEF ClientsAreSingle
  <2>9. ASSUME NEW c \in Chain PROVE Quiet(c) \/ Single(c)'
    <3>1. CASE c = d /\ ~Quiet(c)
      <4>1. Single(d) /\ layers[d][n] = 0
        BY <2>1, <3>1 DEF ClientsAreSingle, Single
      <4>2. \A i \in 1 .. Len(layers'[d]) : layers'[d][i] <= 1
        BY <2>4, <2>5, <4>1 DEF Single
      <4>3. ASSUME NEW u \in Thread, op'[u].at = "attach", op'[u].chain = d PROVE FALSE
        <5>1. u # t /\ op'[u] = op[u]
          BY <2>6, <4>3
        <5>2. MayCreate(u, d) /\ MayCreate(t, d)
          BY <2>1, <4>3, <5>1 DEF ClientsAreSingle
        <5> QED
          BY <3>1, <5>1, <5>2 DEF OneMakerEach
      <4> QED
        BY <3>1, <4>2, <4>3 DEF Single
    <3>2. CASE c # d
      <4>1. layers'[c] = layers[c]
        BY <1>2, <2>2, <3>2
      <4>2. \A u \in Thread : op'[u].at = "attach" => op'[u] = op[u]
        BY <2>6
      <4> QED
        BY <4>1, <4>2 DEF ClientsAreSingle, Single
    <3> QED
      BY <3>1, <3>2
  <2> QED
    BY <2>7, <2>8, <2>9 DEF ClientsAreSingle, Quiet, MayCreate
<1>9. ASSUME NEW t \in Thread, ReturnClient(t) \/ Request(t) \/ Finish(t)
      PROVE  ClientsAreSingle'
  <2>1. /\ layers' = layers /\ op'[t].at \in {"have", "request", "idle"}
        /\ \A u \in Thread : u # t => op'[u] = op[u]
    <3>1. CASE ReturnClient(t)
      BY <1>4, <3>1 DEF ReturnClient
    <3>2. CASE Request(t)
      BY <1>4, <3>2 DEF Request
    <3>3. CASE Finish(t)
      BY <1>4, <3>3 DEF Finish
    <3> QED
      BY <1>9, <3>1, <3>2, <3>3
  <2> QED
    BY <1>1, <2>1, SingleKept
<1>10. CASE Restart
  <2>1. layers' = Started /\ op' = [t \in Thread |-> Resting]
    BY <1>10 DEF Restart
  <2>2. \A c \in Warm : Started[c] # <<>>
    BY ClientAssumption DEF Started
  <2>3. ASSUME NEW c \in Chain, NEW i \in 1 .. Len(Started[c]) PROVE Started[c][i] <= 1
    <3>1. Len(<<>>) = 0 /\ Len(<<1>>) = 1 /\ <<1>>[1] = 1
      OBVIOUS
    <3> QED
      BY <3>1 DEF Started
  <2> QED
    BY <2>1, <2>2, <2>3 DEF ClientsAreSingle, Single
<1> QED
  BY <1>5, <1>6, <1>7, <1>8, <1>9, <1>10
     DEF Next, Step, Progress, clientVars, vars

-----------------------------------------------------------------------------
(* Then answers stay in place and current.                                  *)

\* What was good before a contract was deployed is good afterwards.
LEMMA GoodKept ==
    ASSUME deployed \subseteq deployed'
    PROVE  /\ \A t, q : Good(t, q) => Good(t, q)'
           /\ \A table : Remembers(table) => Remembers(table)'
<1>1. \A v, call, c, born : Fits(v, call, c, born) => Fits(v, call, c, born)'
  BY DEF Fits
<1>2. \A t, q : Opened(t, q) => Opened(t, q)'
  BY DEF Opened
<1>3. \A q : Sorted(q) => Sorted(q)'
  BY <1>1 DEF Sorted
<1>4. \A q : Filling(q) => Filling(q)'
  BY <1>1 DEF Filling
<1>5. \A q : Answered(q) => Answered(q)'
  BY <1>1 DEF Answered
<1>6. \A t, q : Good(t, q) => Good(t, q)'
  BY <1>2, <1>3, <1>4, <1>5 DEF Good
<1>7. \A table : Remembers(table) => Remembers(table)'
  BY <1>1 DEF Remembers
<1> QED
  BY <1>6, <1>7

\* Every step keeps the answers.
LEMMA AnswersStep ==
    ASSUME OneMakerEach, AnswerInv, [Next]_vars
    PROVE  /\ Remembers(cache)' /\ Remembers(durable)'
           /\ \A u \in Thread : Good(u, req[u])'
<1> USE DEF AnswerInv, TypeInv
<1> DEFINE Kept == \A u \in Thread : Good(u, req[u])'
<1>1. ASSUME deployed \subseteq deployed', NEW t \in Thread, NEW r, Good(t, r), Shaped(r),
             req' = [req EXCEPT ![t] = r]
      PROVE  Kept
  <2>1. SUFFICES ASSUME NEW u \in Thread PROVE Good(u, req[u])'
    OBVIOUS
  <2>2. PICK q : q = req'[u]
    OBVIOUS
  <2>3. Good(u, q)
    BY <1>1, <2>2, RequestChanged
  <2>4. Good(u, q)'
    BY <1>1, <2>3, GoodKept
  <2> QED
    BY <2>2, <2>4
<1>2. ASSUME deployed \subseteq deployed', req' = req PROVE Kept
  <2>1. SUFFICES ASSUME NEW u \in Thread PROVE Good(u, req[u])'
    OBVIOUS
  <2>2. PICK q : q = req[u]
    OBVIOUS
  <2>3. Good(u, q)'
    BY <1>2, <2>2, GoodKept
  <2> QED
    BY <1>2, <2>2, <2>3
<1> HIDE DEF Kept
<1>3. ASSUME deployed \subseteq deployed', cache' \in {cache, durable}, durable' = durable
      PROVE  Remembers(cache)' /\ Remembers(durable)'
  BY <1>3, GoodKept DEF Remembers
<1>4. CASE UNCHANGED cacheVars
  BY <1>2, <1>3, <1>4 DEF cacheVars, Kept
<1>5. ASSUME NEW t \in Thread, Serve(t)
      PROVE  Remembers(cache)' /\ Remembers(durable)' /\ Kept
  <2>1. Serving(t) /\ Good(t, req[t])
    BY DEF Serving
  <2>2. Remembers(cache)' /\ Remembers(durable)'
    BY <1>5, <2>1, ServeStep
  <2>3. PICK r : Becomes(t, r)
    BY <1>5, <2>1, ServeStep
  <2>4. req' = [req EXCEPT ![t] = r] /\ Shaped(r) /\ Good(t, r)
    BY <2>1, <2>3 DEF Becomes
  <2>5. deployed' = deployed
    BY <1>5 DEF Serve, Lookup, NextLayer, Send, SendDirect, SendFails, Keep, Store, Commit,
                StoreFails, Return
  <2> QED
    BY <1>1, <2>2, <2>4, <2>5
<1>6. ASSUME NEW t \in Thread, Request(t)
      PROVE  Remembers(cache)' /\ Remembers(durable)' /\ Kept
  <2> DEFINE c == op[t].chain
             n == layers[op[t].chain][op[t].client]
  <2>1. c \in Chain /\ layers[c] \in Seq(Nat) /\ op[t].client \in Nat
    BY <1>6 DEF Request, Inv, ClientsType, OpType, WorkersKnow
  <2>2. op[t].client \in 1 .. Len(layers[c])
    BY <1>6, <2>1 DEF Request, ClientsExist
  <2>3. n \in Nat
    BY <2>1, <2>2
  <2>4. Quiet(c) \/ n <= 1
    BY <2>1, <2>2 DEF ClientsAreSingle, Single
  <2>5. Begin(t, c, n)
    BY <1>6 DEF Request
  <2> HIDE DEF c, n
  <2>6. PICK r : req' = [req EXCEPT ![t] = r] /\ Shaped(r) /\ Good(t, r)
    BY <2>1, <2>3, <2>4, <2>5, BeginStep
  <2>7. UNCHANGED <<deployed, cache, durable>>
    BY <2>5 DEF Begin
  <2> QED
    BY <1>1, <1>3, <2>6, <2>7
<1>7. ASSUME NEW t \in Thread, Finish(t)
      PROVE  Remembers(cache)' /\ Remembers(durable)' /\ Kept
  BY <1>1, <1>3, <1>7, IdleGood DEF Finish
<1>8. ASSUME NEW c \in Chain, NEW a \in Address, Deploy(c, a)
      PROVE  Remembers(cache)' /\ Remembers(durable)' /\ Kept
  BY <1>2, <1>3, <1>8 DEF Deploy
<1>9. CASE Restart
  <2>1. /\ req' = [t \in Thread |-> Idle] /\ cache' = durable
        /\ UNCHANGED <<deployed, durable>>
    BY <1>9 DEF Restart
  <2>2. \A u \in Thread : Good(u, Idle)'
    BY <2>1, IdleGood, GoodKept
  <2>3. Kept
    BY <2>1, <2>2 DEF Kept
  <2> QED
    BY <1>3, <2>1, <2>3 DEF Kept
<1> QED
  BY <1>4, <1>5, <1>6, <1>7, <1>8, <1>9
     DEF Next, Step, Use, Configure, Create, Attach, ReturnClient, Progress, vars, Kept

LEMMA AnswerInvInit == Init => AnswerInv
<1> SUFFICES ASSUME Init PROVE AnswerInv
  OBVIOUS
<1>1. layers = Started /\ op = [t \in Thread |-> Resting]
  BY DEF Init
<1>2. \A c \in Warm : Started[c] # <<>>
  BY ClientAssumption DEF Started
<1>3. ASSUME NEW c \in Chain, NEW i \in 1 .. Len(Started[c]) PROVE Started[c][i] <= 1
  <2>1. Len(<<>>) = 0 /\ Len(<<1>>) = 1 /\ <<1>>[1] = 1
    OBVIOUS
  <2> QED
    BY <2>1 DEF Started
<1>4. ClientsAreSingle
  BY <1>1, <1>2, <1>3 DEF ClientsAreSingle, Single
<1>5. Remembers(cache) /\ Remembers(durable)
  BY DEF Init, RpcInit, Remembers, CacheKey
<1>6. \A t \in Thread : Good(t, req[t])
  BY IdleGood DEF Init, RpcInit
<1> QED
  BY <1>4, <1>5, <1>6, TypeInvInit DEF AnswerInv

\* The inductive invariant: what a request holds between its hits and its answers, and
\* that whatever is in a table is the answer to its key.
THEOREM AnswersHold == ASSUME OneMakerEach PROVE Spec => []AnswerInv
<1>1. AnswerInv /\ [Next]_vars => AnswerInv'
  BY TypeInvStep, SingleStep, AnswersStep DEF AnswerInv
<1> QED
  BY <1>1, AnswerInvInit, PTL DEF Spec

\* Where every client is made by one thread, each call of a batch gets its own answer,
\* whichever calls were cached and whatever other threads store meanwhile
\* (RpcCacheMiddleware.before_request and after_request).
THEOREM AnswersStayInPlace == ASSUME OneMakerEach PROVE Spec => []AnswersInPlace
<1>1. AnswerInv => AnswersInPlace
  <2> SUFFICES ASSUME AnswerInv, NEW t \in Thread, req[t].at = "done"
               PROVE  LET asked == Batch[t][req[t].chain] IN
                      /\ Len(req[t].merged) = Len(asked)
                      /\ \A i \in 1 .. Len(asked) :
                             /\ req[t].merged[i] # None
                             /\ req[t].merged[i].call = asked[i]
                             /\ req[t].merged[i].chain = req[t].chain
    BY DEF AnswersInPlace
  <2>1. Opened(t, req[t]) /\ Answered(req[t])
    BY DEF AnswerInv, Good
  <2> QED
    BY <2>1, ValueAssumption DEF Opened, Answered, Fits
<1> QED
  BY <1>1, AnswersHold, PTL

\* There, caching hides no deployment and reports none that did not happen (the rules
\* in CACHE_RULES, also when an older answer is stored after a newer one was given).
THEOREM CodeStaysCurrent == ASSUME OneMakerEach PROVE Spec => []CodeIsCurrent
<1>1. AnswerInv => CodeIsCurrent
  <2> SUFFICES ASSUME AnswerInv, NEW t \in Thread, req[t].at = "done",
                      NEW i \in 1 .. Len(req[t].merged)
               PROVE  LET answer == req[t].merged[i]
                          contract == <<req[t].chain, answer.call.address>> IN
                      /\ answer.kind \in {"code", "name"} => contract \in deployed
                      /\ answer.kind = "empty" /\ answer.call.method = "eth_getCode" =>
                             contract \notin req[t].born
    BY DEF CodeIsCurrent
  <2>1. Fits(req[t].merged[i], req[t].calls[i], req[t].chain, req[t].born)
    BY DEF AnswerInv, Good, Answered
  <2> QED
    BY <2>1 DEF Fits
<1> QED
  BY <1>1, AnswersHold, PTL

=============================================================================
