----------------------------- MODULE TxMonitor -----------------------------
(***************************************************************************)
(* Transaction objects and the TransactionMonitor thread that keeps them   *)
(* up to date (transaction.py, monitor.py).                                *)
(*                                                                         *)
(* Three parties interleave here:                                          *)
(*   - callers, who send transactions, construct Transaction objects,      *)
(*     replace them and let go of them;                                    *)
(*   - the monitor thread, which snapshots its WeakSet, polls the node in  *)
(*     batches and writes what it learned onto each object, one assignment *)
(*     at a time, while callers may be blocked in wait() or a property;    *)
(*   - the chain, which accepts, forgets, mines and supersedes             *)
(*     transactions between any two of the monitor's calls.                *)
(*                                                                         *)
(* A Tx is one Transaction object and the hash it watches.  A slot is a    *)
(* (sender, nonce) pair: transactions that share one compete for it.       *)
(* Chain reorganisations are outside this module.                          *)
(***************************************************************************)
EXTENDS Naturals, FiniteSets

CONSTANTS
    Tx,             \* Transaction objects, one per watched hash
    NoTx,           \* a value outside Tx
    Slot,           \* (sender, nonce) pairs
    SlotOf,         \* the pair each transaction consumes when it is mined
    Seeded,         \* objects built by transact() with _txdict
    AllowUnseen,    \* objects constructed with allow_unseen=True
    Kept,           \* objects some caller never lets go of (blocked in wait())
    MaxBatchSize,   \* MAX_BATCH_SIZE, RPC calls per batch
    BatchCanFail,   \* may a whole batch request fail (transport, HTTP)?
    CallCanFail     \* may a single call of a batch answer with an error?

ASSUME TxAssumption    == NoTx \notin Tx /\ IsFiniteSet(Tx)
ASSUME SlotAssumption  == SlotOf \in [Tx -> Slot]
ASSUME KindAssumption  == Seeded \subseteq Tx /\ AllowUnseen \subseteq Tx
                          /\ Kept \subseteq Tx
ASSUME BatchAssumption == MaxBatchSize \in Nat /\ MaxBatchSize >= 3
ASSUME FaultAssumption == BatchCanFail \in BOOLEAN /\ CallCanFail \in BOOLEAN

Mined    == {"CONFIRMED", "REVERTED"}
TxStatus == Mined \union {"PENDING", "DROPPED", "REPLACED", "UNSEEN"}

\* _allow_unseen = allow_unseen or bool(_txdict)
MayBeUnseen == AllowUnseen \union Seeded

VARIABLES
    \* the chain, as the one node the monitor talks to shows it
    sent,           \* transactions that have been signed and submitted
    place,          \* "unknown", "mempool", or the outcome it was mined with
    used,           \* slots whose nonce the chain has consumed
    \* Transaction objects
    made,           \* constructed
    held,           \* constructed and still referenced by a caller
    txdict,         \* _transaction: "none", "pending" or "mined" data
    receipt,        \* _receipt: "none" or the status it carries
    status,         \* _status
    initialized,    \* _initialized is set
    finalized,      \* _finalized is set
    resolving,      \* a _resolve_revert_reason thread is running
    revertReady,    \* _revert_ready is set
    \* TransactionMonitor
    watched,        \* _watched, before dead objects are subtracted
    wake,           \* _wake
    signalling,     \* inside watch(): added, _wake not yet set
    pc,             \* where the monitor thread is
    snapshot,       \* the tuple _poll_once iterates over
    rest,           \* members of snapshot not yet handed to a batch
    batch,          \* the argument of the running _poll_batch
    todo,           \* members of batch the loop has not handled yet
    cur,            \* the one it is handling
    gotTx, gotReceipt, gotNonce,    \* the answers of the batch request
    pinned,         \* objects kept alive by the traceback in last_error
    polled          \* objects that have been in some snapshot (history)

chainVars  == <<sent, place, used>>
recordVars == <<txdict, receipt, status, initialized, finalized>>
revertVars == <<resolving, revertReady>>
objectVars == <<made, held, recordVars, revertVars>>
watchVars  == <<watched, wake, signalling>>
sweepVars  == <<snapshot, rest, pinned, polled>>
batchVars  == <<batch, todo, cur>>
answerVars == <<gotTx, gotReceipt, gotNonce>>
threadVars == <<pc, sweepVars, batchVars, answerVars>>
vars == <<chainVars, objectVars, watchVars, threadVars>>

Stages == {"idle", "poll", "batch", "askTx", "askReceipt", "askNonce", "apply",
           "putReceipt", "putStatus", "finalize", "revert", "initialize",
           "sleep", "clear"}

TypeOK ==
    /\ sent \subseteq Tx
    /\ place \in [Tx -> Mined \union {"unknown", "mempool"}]
    /\ used \subseteq Slot
    /\ made \subseteq Tx
    /\ held \subseteq made
    /\ txdict \in [Tx -> {"none", "pending", "mined"}]
    /\ receipt \in [Tx -> Mined \union {"none"}]
    /\ status \in [Tx -> TxStatus]
    /\ initialized \subseteq Tx
    /\ finalized \subseteq Tx
    /\ resolving \subseteq Tx
    /\ revertReady \subseteq Tx
    /\ watched \subseteq made
    /\ wake \in BOOLEAN
    /\ signalling \subseteq held
    /\ pc \in Stages
    /\ snapshot \subseteq made
    /\ rest \subseteq snapshot
    /\ batch \subseteq snapshot
    /\ todo \subseteq batch
    /\ cur \in Tx \union {NoTx}
    /\ gotTx \in [Tx -> {"none", "pending", "mined", "error"}]
    /\ gotReceipt \in [Tx -> Mined \union {"none", "error"}]
    /\ gotNonce \in [Slot -> {"free", "used", "error"}]
    /\ pinned \subseteq made
    /\ polled \subseteq made

NoAnswers ==
    /\ gotTx = [t \in Tx |-> "none"]
    /\ gotReceipt = [t \in Tx |-> "none"]
    /\ gotNonce = [s \in Slot |-> "free"]

Init ==
    /\ sent = Tx \ Seeded
    /\ place = [t \in Tx |-> "unknown"]
    /\ used = {}
    /\ made = {} /\ held = {}
    /\ txdict = [t \in Tx |-> "none"]
    /\ receipt = [t \in Tx |-> "none"]
    /\ status = [t \in Tx |-> "UNSEEN"]
    /\ initialized = {} /\ finalized = {}
    /\ resolving = {} /\ revertReady = {}
    /\ watched = {} /\ wake = FALSE /\ signalling = {}
    /\ pc = "idle"
    /\ snapshot = {} /\ rest = {} /\ batch = {} /\ todo = {}
    /\ cur = NoTx
    /\ NoAnswers
    /\ pinned = {} /\ polled = {}

-----------------------------------------------------------------------------
(* The chain and its node (external; used through Chain.w3.eth).           *)

SameSlot(t) == {u \in Tx : SlotOf[u] = SlotOf[t]}

\* A submitted transaction becomes visible in the node's mempool.
Broadcast(t) ==
    /\ t \in sent /\ place[t] = "unknown" /\ SlotOf[t] \notin used
    /\ place' = [place EXCEPT ![t] = "mempool"]
    /\ UNCHANGED <<sent, used, objectVars, watchVars, threadVars>>

\* The node forgets a pending transaction without anything consuming its nonce.
Evict(t) ==
    /\ place[t] = "mempool"
    /\ place' = [place EXCEPT ![t] = "unknown"]
    /\ UNCHANGED <<sent, used, objectVars, watchVars, threadVars>>

\* A transaction is mined, whether or not this node had it in its mempool, and
\* its competitors for the slot become invalid.
Mine(t, outcome) ==
    /\ t \in sent /\ place[t] \in {"unknown", "mempool"} /\ SlotOf[t] \notin used
    /\ used' = used \union {SlotOf[t]}
    /\ place' = [u \in Tx |-> IF u = t THEN outcome
                              ELSE IF u \in SameSlot(t) THEN "unknown" ELSE place[u]]
    /\ UNCHANGED <<sent, objectVars, watchVars, threadVars>>

\* The slot is consumed by a transaction nobody here watches.
Supersede(s) ==
    /\ s \notin used
    /\ used' = used \union {s}
    /\ place' = [u \in Tx |-> IF SlotOf[u] = s THEN "unknown" ELSE place[u]]
    /\ UNCHANGED <<sent, objectVars, watchVars, threadVars>>

-----------------------------------------------------------------------------
(* Callers.                                                                *)

\* Account.transact(): the node accepts a signed transaction.  The caller has
\* the hash but no Transaction object yet.
Transact(t) ==
    /\ t \in Seeded \ sent /\ SlotOf[t] \notin used
    /\ sent' = sent \union {t}
    /\ place' \in {place, [place EXCEPT ![t] = "mempool"]}
    /\ UNCHANGED <<used, objectVars, watchVars, threadVars>>

\* Transaction.replace(): refuse a finalized transaction, wait until its sender
\* is known, then transact() again in the same slot.
Replace(old, t) ==
    /\ old \in held \ finalized /\ old \in initialized /\ txdict[old] # "none"
    /\ t \in SameSlot(old) \ {old}
    /\ Transact(t)

\* Transaction.__init__ up to the point where watch() has added the object and,
\* for the first one, started the thread: both happen under the monitor's lock.
Construct(t) ==
    /\ t \in sent \ made
    /\ made' = made \union {t} /\ held' = held \union {t}
    /\ txdict' = [txdict EXCEPT ![t] = IF t \in Seeded THEN "pending" ELSE "none"]
    /\ initialized' = initialized \union ({t} \intersect Seeded)
    /\ watched' = watched \union {t}
    /\ signalling' = signalling \union {t}
    /\ pc' = IF pc = "idle" THEN "poll" ELSE pc
    /\ UNCHANGED <<chainVars, receipt, status, finalized, revertVars, wake,
                   sweepVars, batchVars, answerVars>>

\* The end of watch(), outside the lock: _wake.set().
Signal(t) ==
    /\ t \in signalling
    /\ signalling' = signalling \ {t}
    /\ wake' = TRUE
    /\ UNCHANGED <<chainVars, objectVars, watched, threadVars>>

\* The last caller drops its reference.
Release(t) ==
    /\ t \in held \ (signalling \union Kept)
    /\ held' = held \ {t}
    /\ UNCHANGED <<chainVars, made, recordVars, revertVars, watchVars,
                   threadVars>>

\* The body of the _resolve_revert_reason thread.  Reading block_number waits
\* for _initialized; whatever eth_call answers, the finally sets _revert_ready.
ResolveRevert(t) ==
    /\ t \in resolving /\ t \in initialized
    /\ resolving' = resolving \ {t}
    /\ revertReady' = revertReady \union {t}
    /\ UNCHANGED <<chainVars, made, held, recordVars, watchVars, threadVars>>

-----------------------------------------------------------------------------
(* The monitor thread.                                                     *)

\* A WeakSet member exists while something refers to it: a caller, the tuple
\* _poll_once iterates over, a stored traceback, a resolver thread.
Alive == held \union snapshot \union pinned \union resolving

\* Variant: two calls per transaction, forgetting the nonce lookup.
TransactionsPerBatch_TwoCalls == IF MaxBatchSize \div 2 > 1 THEN MaxBatchSize \div 2 ELSE 1

TransactionsPerBatch == IF MaxBatchSize \div 3 > 1 THEN MaxBatchSize \div 3 ELSE 1

\* _poll_once: copy the WeakSet under the lock; nothing watched, nothing to do.
Snapshot ==
    /\ pc = "poll"
    /\ LET live == watched \intersect Alive IN
       /\ snapshot' = live /\ rest' = live
       /\ polled' = polled \union live
       /\ watched' = live
       /\ pc' = IF live = {} THEN "sleep" ELSE "batch"
    /\ UNCHANGED <<chainVars, objectVars, wake, signalling, pinned, batchVars,
                   answerVars>>

\* The next chunk of at most TransactionsPerBatch objects.
StartBatch ==
    /\ pc = "batch" /\ rest # {}
    /\ \E b \in SUBSET rest :
          /\ b # {}
          /\ Cardinality(b) <= TransactionsPerBatch
          /\ Cardinality(b) < TransactionsPerBatch => b = rest
          /\ batch' = b /\ todo' = b /\ rest' = rest \ b
    /\ pc' = "askTx"
    /\ UNCHANGED <<chainVars, objectVars, watchVars, snapshot, pinned, polled,
                   cur, answerVars>>

\* Variant: _wake is cleared after the poll instead of after the wait.
EndPoll_Clears ==
    /\ pc = "batch" /\ rest = {}
    /\ snapshot' = {}
    /\ pc' = "sleep"
    /\ wake' = FALSE
    /\ UNCHANGED <<chainVars, objectVars, watched, signalling, rest, pinned, polled,
                   batchVars, answerVars>>

\* _poll_once returns and its tuple dies; sleep until woken or POLL_INTERVAL.
EndPoll ==
    /\ pc = "batch" /\ rest = {}
    /\ snapshot' = {}
    /\ pc' = "sleep"
    /\ UNCHANGED <<chainVars, objectVars, watchVars, rest, pinned, polled,
                   batchVars, answerVars>>

Failing(calls) == IF CallCanFail THEN SUBSET calls ELSE {{}}

\* What the node answers for a hash right now.
TxAnswer(t) == CASE place[t] = "unknown" -> "none"
                 [] place[t] = "mempool" -> "pending"
                 [] OTHER -> "mined"
ReceiptAnswer(t) == IF place[t] \in Mined THEN place[t] ELSE "none"

\* The slots whose nonce the batch asks for: those of objects with a sender.
AskedSlots(b) == {SlotOf[t] : t \in {u \in b : txdict[u] # "none"}}

AskTx ==
    /\ pc = "askTx"
    /\ \E bad \in Failing(batch) :
          gotTx' = [t \in Tx |-> IF t \in bad THEN "error"
                                 ELSE IF t \in batch THEN TxAnswer(t) ELSE "none"]
    /\ pc' = "askReceipt"
    /\ UNCHANGED <<chainVars, objectVars, watchVars, sweepVars, batchVars,
                   gotReceipt, gotNonce>>

AskReceipt ==
    /\ pc = "askReceipt"
    /\ \E bad \in Failing(batch) :
          gotReceipt' = [t \in Tx |-> IF t \in bad THEN "error"
                                      ELSE IF t \in batch THEN ReceiptAnswer(t)
                                      ELSE "none"]
    /\ pc' = "askNonce"
    /\ UNCHANGED <<chainVars, objectVars, watchVars, sweepVars, batchVars, gotTx,
                   gotNonce>>

AskNonce ==
    /\ pc = "askNonce"
    /\ \E bad \in Failing(AskedSlots(batch)) :
          gotNonce' = [s \in Slot |-> IF s \in bad THEN "error"
                                      ELSE IF s \in AskedSlots(batch) \intersect used
                                      THEN "used" ELSE "free"]
    /\ pc' = "apply"
    /\ UNCHANGED <<chainVars, objectVars, watchVars, sweepVars, batchVars, gotTx,
                   gotReceipt>>

\* The locals of _poll_batch die.
ForgetBatch ==
    /\ batch' = {} /\ todo' = {} /\ cur' = NoTx
    /\ gotTx' = [t \in Tx |-> "none"]
    /\ gotReceipt' = [t \in Tx |-> "none"]
    /\ gotNonce' = [s \in Slot |-> "free"]

\* Variant: a failing batch is dropped from _watched as if it had been handled.
AbortBatch_Drops ==
    /\ pinned' = snapshot \ Kept
    /\ pc' = "batch"
    /\ ForgetBatch
    /\ watched' = watched \ batch
    /\ UNCHANGED <<chainVars, objectVars, wake, signalling, snapshot, rest, polled>>

\* An exception leaves _poll_batch; last_error keeps its traceback, whose frames
\* refer to the whole snapshot, and nothing is removed from _watched.  (A Kept
\* object lives anyway and is not recorded as pinned.)
AbortBatch ==
    /\ pinned' = snapshot \ Kept
    /\ pc' = "batch"
    /\ ForgetBatch
    /\ UNCHANGED <<chainVars, objectVars, watchVars, snapshot, rest, polled>>

\* The batch request as a whole fails, before any object was touched.
BatchFails ==
    /\ BatchCanFail /\ pc = "askNonce"
    /\ AbortBatch

\* Reading a deferred answer that carries an error raises: the receipt and the
\* transaction are always read, the nonce only when neither was found.
Raises(t) ==
    \/ gotReceipt[t] = "error"
    \/ gotTx[t] = "error"
    \/ gotReceipt[t] = "none" /\ gotTx[t] = "none" /\ txdict[t] # "none"
       /\ gotNonce[SlotOf[t]] = "error"

CallFails(t) ==
    /\ pc = "apply" /\ t \in todo /\ Raises(t)
    /\ AbortBatch

\* Start the loop body for an object whose answers can be read.
Handle(t) == pc = "apply" /\ t \in todo /\ ~Raises(t) /\ cur' = t

\* Variants: any known sender counts as overtaken; a seeded transaction that the node
\* never showed does not.
NonceAdvanced_Always(t) == txdict[t] # "none"
NonceAdvanced_Seen(t) ==
    txdict[t] # "none" /\ gotNonce[SlotOf[t]] = "used" /\ status[t] # "UNSEEN"

Neither(t)      == gotReceipt[t] = "none" /\ gotTx[t] = "none"
NonceAdvanced(t) == txdict[t] # "none" /\ gotNonce[SlotOf[t]] = "used"

\* A receipt: transaction data, receipt, status and _finalized are assigned in
\* this order; the first assignment happens here.
ApplyReceipt(t) ==
    /\ Handle(t) /\ gotReceipt[t] \in Mined
    /\ txdict' = [txdict EXCEPT ![t] = IF gotTx[t] # "none" THEN gotTx[t] ELSE @]
    /\ pc' = "putReceipt"
    /\ UNCHANGED <<chainVars, made, held, receipt, status, initialized, finalized,
                   revertVars, watchVars, sweepVars, batch, todo, answerVars>>

\* Variant: _finalized is set together with the receipt, before the status.
PutReceipt_Early ==
    /\ pc = "putReceipt"
    /\ receipt' = [receipt EXCEPT ![cur] = gotReceipt[cur]]
    /\ finalized' = finalized \union {cur}
    /\ pc' = "putStatus"
    /\ UNCHANGED <<chainVars, made, held, txdict, status, initialized, revertVars,
                   watchVars, sweepVars, batchVars, answerVars>>

PutReceipt ==
    /\ pc = "putReceipt"
    /\ receipt' = [receipt EXCEPT ![cur] = gotReceipt[cur]]
    /\ pc' = "putStatus"
    /\ UNCHANGED <<chainVars, made, held, txdict, status, initialized, finalized,
                   revertVars, watchVars, sweepVars, batchVars, answerVars>>

PutStatus ==
    /\ pc = "putStatus"
    /\ status' = [status EXCEPT ![cur] = gotReceipt[cur]]
    /\ pc' = "finalize"
    /\ UNCHANGED <<chainVars, made, held, txdict, receipt, initialized, finalized,
                   revertVars, watchVars, sweepVars, batchVars, answerVars>>

\* Variant: the answer itself is stored as the status.
ApplyPending_Raw(t) ==
    /\ Handle(t) /\ gotReceipt[t] = "none" /\ gotTx[t] # "none"
    /\ txdict' = [txdict EXCEPT ![t] = gotTx[t]]
    /\ status' = [status EXCEPT ![t] = gotTx[t]]
    /\ pc' = "initialize"
    /\ UNCHANGED <<chainVars, made, held, receipt, initialized, finalized, revertVars,
                   watchVars, sweepVars, batch, todo, answerVars>>

\* No receipt, but the node knows the transaction.
ApplyPending(t) ==
    /\ Handle(t) /\ gotReceipt[t] = "none" /\ gotTx[t] # "none"
    /\ txdict' = [txdict EXCEPT ![t] = gotTx[t]]
    /\ status' = [status EXCEPT ![t] = "PENDING"]
    /\ pc' = "initialize"
    /\ UNCHANGED <<chainVars, made, held, receipt, initialized, finalized,
                   revertVars, watchVars, sweepVars, batch, todo, answerVars>>

\* Neither is available and the sender's nonce has moved past the transaction's.
ApplyReplaced(t) ==
    /\ Handle(t) /\ Neither(t) /\ NonceAdvanced(t)
    /\ status' = [status EXCEPT ![t] = "REPLACED"]
    /\ pc' = "finalize"
    /\ UNCHANGED <<chainVars, made, held, txdict, receipt, initialized, finalized,
                   revertVars, watchVars, sweepVars, batch, todo, answerVars>>

\* Variant: a transaction that was never seen is dropped as well.
ApplyDropped_Unseen(t) ==
    /\ Handle(t) /\ Neither(t) /\ ~NonceAdvanced(t)
    /\ status' = [status EXCEPT ![t] = "DROPPED"]
    /\ pc' = "initialize"
    /\ UNCHANGED <<chainVars, made, held, txdict, receipt, initialized, finalized,
                   revertVars, watchVars, sweepVars, batch, todo, answerVars>>

\* Seen before, not visible now, nonce not consumed.
ApplyDropped(t) ==
    /\ Handle(t) /\ Neither(t) /\ ~NonceAdvanced(t) /\ status[t] # "UNSEEN"
    /\ status' = [status EXCEPT ![t] = "DROPPED"]
    /\ pc' = "initialize"
    /\ UNCHANGED <<chainVars, made, held, txdict, receipt, initialized, finalized,
                   revertVars, watchVars, sweepVars, batch, todo, answerVars>>

\* Never seen: give up, unless the caller asked to keep watching.
ApplyUnseen(t) ==
    /\ Handle(t) /\ Neither(t) /\ ~NonceAdvanced(t) /\ status[t] = "UNSEEN"
    /\ pc' = IF t \in MayBeUnseen THEN "initialize" ELSE "finalize"
    /\ UNCHANGED <<chainVars, objectVars, watchVars, sweepVars, batch, todo,
                   answerVars>>

FinalizeThen(reverted) ==
    /\ pc = "finalize"
    /\ finalized' = finalized \union {cur}
    /\ pc' = IF reverted THEN "revert" ELSE "initialize"
    /\ UNCHANGED <<chainVars, made, held, txdict, receipt, status, initialized,
                   revertVars, watchVars, sweepVars, batchVars, answerVars>>

\* Variants: the revert reason is resolved for every receipt; only when the node also
\* returned the transaction.
Finalize_AllReceipts == FinalizeThen(gotReceipt[cur] \in Mined)
Finalize_WithData == FinalizeThen(gotReceipt[cur] = "REVERTED" /\ gotTx[cur] # "none")

\* tx._finalized.set(): wait() returns from here on.
Finalize == FinalizeThen(gotReceipt[cur] = "REVERTED")

\* tx._resolve_revert_reason() starts its thread.
StartRevert ==
    /\ pc = "revert"
    /\ resolving' = resolving \union {cur}
    /\ pc' = "initialize"
    /\ UNCHANGED <<chainVars, made, held, recordVars, revertReady, watchVars,
                   sweepVars, batchVars, answerVars>>

\* Variant: _initialized is set only by a final answer.
Initialize_Final ==
    /\ pc = "initialize"
    /\ initialized' = initialized \union ({cur} \intersect finalized)
    /\ todo' = todo \ {cur}
    /\ cur' = NoTx
    /\ pc' = "apply"
    /\ UNCHANGED <<chainVars, made, held, txdict, receipt, status, finalized,
                   revertVars, watchVars, sweepVars, batch, answerVars>>

\* tx._initialized.set(): properties stop blocking; next iteration.
Initialize ==
    /\ pc = "initialize"
    /\ initialized' = initialized \union {cur}
    /\ todo' = todo \ {cur}
    /\ cur' = NoTx
    /\ pc' = "apply"
    /\ UNCHANGED <<chainVars, made, held, txdict, receipt, status, finalized,
                   revertVars, watchVars, sweepVars, batch, answerVars>>

RemoveFromWatched(gone) ==
    /\ pc = "apply" /\ todo = {}
    /\ watched' = watched \ gone
    /\ pc' = "batch"
    /\ ForgetBatch
    /\ UNCHANGED <<chainVars, objectVars, wake, signalling, sweepVars>>

\* Variants: the whole batch leaves _watched; nothing does.
Remove_Batch == RemoveFromWatched(batch)
Remove_None == RemoveFromWatched({})

\* After the loop: finalized members of the batch leave _watched, under the lock.
Remove == RemoveFromWatched(batch \intersect finalized)

\* _wake.wait(timeout) returns, because of a signal or of the timeout.
Awake ==
    /\ pc = "sleep"
    /\ pc' = "clear"
    /\ UNCHANGED <<chainVars, objectVars, watchVars, sweepVars, batchVars, answerVars>>

\* _wake.clear(), before the next snapshot.
Clear ==
    /\ pc = "clear"
    /\ wake' = FALSE
    /\ pc' = "poll"
    /\ UNCHANGED <<chainVars, objectVars, watched, signalling, sweepVars,
                   batchVars, answerVars>>

-----------------------------------------------------------------------------
Chain ==
    \/ \E t \in Tx : Broadcast(t) \/ Evict(t)
    \/ \E t \in Tx, outcome \in Mined : Mine(t, outcome)
    \/ \E s \in Slot : Supersede(s)

Callers ==
    \/ \E t \in Tx : Transact(t) \/ Construct(t) \/ Signal(t) \/ Release(t)
    \/ \E old, t \in Tx : Replace(old, t)

Apply(t) ==
    \/ ApplyReceipt(t) \/ ApplyPending(t) \/ ApplyReplaced(t)
    \/ ApplyDropped(t) \/ ApplyUnseen(t)

Poll ==
    \/ Snapshot \/ StartBatch \/ EndPoll
    \/ AskTx \/ AskReceipt \/ AskNonce
    \/ \E t \in Tx : Apply(t)
    \/ PutReceipt \/ PutStatus \/ Finalize \/ StartRevert \/ Initialize
    \/ Remove \/ Awake \/ Clear

Faults == BatchFails \/ \E t \in Tx : CallFails(t)

Next ==
    \/ Chain \/ Callers \/ Poll \/ Faults
    \/ \E t \in Tx : ResolveRevert(t)

Spec == Init /\ [][Next]_vars

-----------------------------------------------------------------------------
(* Fairness.  The monitor is a daemon thread that never exits and its sleep *)
(* times out, watch() and the resolver thread run to their end, and the node *)
(* that keeps being asked about a transaction answers some whole batch.      *)

AnswerFor(t) == t \in batch /\ AskNonce

Fairness ==
    /\ WF_vars(Poll)
    /\ \A t \in Tx : SF_vars(AnswerFor(t))
    /\ \A t \in Tx : WF_vars(Signal(t)) /\ WF_vars(ResolveRevert(t))

FairSpec == Spec /\ Fairness

-----------------------------------------------------------------------------
(* What callers see.                                                        *)

\* The status property: a receipt's status wins over _status.
ObservedStatus(t) == IF receipt[t] # "none" THEN receipt[t] ELSE status[t]

\* _await_initial_update raises TransactionNotFound instead of returning.
NotFound(t) == t \in initialized /\ status[t] = "UNSEEN" /\ t \notin MayBeUnseen

\* What _poll_batch finalizes without a receipt as not found.
GivenUp(t) == receipt[t] = "none" /\ status[t] = "UNSEEN" /\ t \notin MayBeUnseen

-----------------------------------------------------------------------------
(* Safety.                                                                  *)

\* Every final status an object shows is true of the chain: a receipt is the
\* outcome it was mined with, _status never contradicts the receipt, and REPLACED
\* is shown only when the nonce has really been consumed.  It has to survive
\* answers that are stale by the time they are applied, failed batches, and the
\* object being polled again after it was finalized (monitor.py _poll_batch).
Truthful ==
    \A t \in Tx :
        /\ receipt[t] # "none" => place[t] = receipt[t]
        /\ status[t] \in Mined => receipt[t] = status[t]
        /\ status[t] = "REPLACED" => SlotOf[t] \in used

\* A transaction somebody still holds and that has no final state is in _watched
\* whatever failed meanwhile: no path of the monitor (snapshot, abort, removal
\* of a batch) may forget it, or its wait() would never return.
NeverAbandoned == held \ finalized \subseteq watched

\* When wait() can return, the outcome is already there to be read: a mined status
\* with its receipt, REPLACED, or the not-found verdict; never a status that may
\* still change (the assignment order in _poll_batch, one batch at a time).
OutcomeBeforeFinal ==
    \A t \in finalized :
        \/ receipt[t] # "none" /\ status[t] = receipt[t]
        \/ receipt[t] = "none" /\ status[t] = "REPLACED"
        \/ GivenUp(t)

\* What a finalized object shows never changes again.  Between finalized.set() and
\* the removal from _watched the object is still in the batch, and a poll that
\* comes back to it would overwrite its status (monitor.py _poll_batch).
FinalizedIsStable ==
    [][\A t \in finalized : ObservedStatus(t)' = ObservedStatus(t)]_vars

\* A transaction watched before the monitor fell asleep has been in a snapshot, or
\* the wake-up for it is pending: a new object never waits a POLL_INTERVAL for its
\* first poll (watch() adds, then signals; _run clears before it takes a snapshot).
NoLostWake ==
    pc = "sleep" /\ ~wake => (watched \intersect held) \ signalling \subseteq polled

\* The revert reason is looked up only for a transaction that really reverted, and
\* revert_data, once readable, is not overwritten by a second resolver thread.
RevertResolvedOnce ==
    [][\A t \in Tx : t \in resolving' \ resolving =>
           t \notin revertReady /\ place[t] = "REVERTED"]_vars

\* A batch request never holds more than MAX_BATCH_SIZE calls: two per object and
\* one per distinct sender (monitor.py MAX_BATCH_SIZE // 3).
BatchFits ==
    2 * Cardinality(batch) + Cardinality(AskedSlots(batch)) <= MaxBatchSize

\* README: "REPLACED: replaced by another transaction with the same sender and
\* nonce".  The three answers the verdict rests on are taken at different moments,
\* so the nonce can be the transaction's own.
ReplacedMeansSuperseded ==
    \A t \in Tx : status[t] = "REPLACED" => place[t] \notin Mined

-----------------------------------------------------------------------------
(* Liveness.                                                                *)

\* Every property of a held object stops blocking (_await_initial_update).
PropertiesUnblock ==
    \A t \in Tx : t \in held ~> (t \in initialized \/ t \notin held)

\* wait() returns on a mined transaction, however many batches fail before.
MinedIsFinalized ==
    \A t \in Tx : (t \in held /\ place[t] \in Mined) ~> (t \in finalized \/ t \notin held)

\* wait() returns on a transaction whose nonce is gone, provided the object knows
\* its sender and nonce.
SupersededIsFinalized ==
    \A t \in Tx : (t \in held /\ txdict[t] # "none" /\ SlotOf[t] \in used)
                      ~> (t \in finalized \/ t \notin held)

\* revert_data and revert_reason return on every transaction finalized as
\* reverted.
RevertReasonArrives ==
    \A t \in Tx : (t \in finalized /\ status[t] = "REVERTED") ~> (t \in revertReady)

-----------------------------------------------------------------------------
(* The promise to callers, and how this module's state shows it.            *)

Public(t) == IF t \notin made THEN "absent"
             ELSE IF t \in finalized /\ GivenUp(t) THEN "NOTFOUND"
             ELSE ObservedStatus(t)

Lifecycle == INSTANCE TxLifecycle WITH
                 public <- [t \in Tx |-> Public(t)], done <- finalized

\* The whole monitor, batch by batch and assignment by assignment, only ever shows
\* callers the life cycle of TxLifecycle: no settled status is shown too early, is
\* taken back or is skipped, and wait() never returns before one is shown.
ImplementsLifecycle == Lifecycle!Spec
=============================================================================
