# Formal models of fastweb3-objects

This directory holds TLA+ models of `fw3_objects`, TLC configurations that check
them on small instances, and TLAPS proofs of theorems about them. Source references
are to the repository root (`src/fw3_objects/monitor.py` is written `monitor.py`).

Contents: [the system](#the-system), [modules](#modules-and-how-they-follow-the-code),
[abstractions](#abstractions), [runs](#runs), [fairness](#fairness), [proofs](#proofs),
[findings](#disagreements-with-the-documentation), [not modelled](#not-modelled),
[plan](#plan), [running](#running).

## The system

`fw3_objects` puts objects (chains, accounts, contracts, transactions, events) on top
of the RPC client `fastweb3`. Most of it is a thin layer, but four parts keep state that
several threads write, and they are where a unit test reaches least: the transaction
monitor, the ABI lookup queue, lazy ABI resolution, and the cached RPC client.

### Threads

| Thread | Code | Shares |
| --- | --- | --- |
| callers | any | everything |
| one monitor per `Chain` (daemon) | `monitor.py` `_run` | Transaction objects, `_watched`, `_wake` |
| one revert resolver per reverted transaction | `transaction.py` `_resolve_revert_reason` | its Transaction object |
| one ABI worker per process (daemon) | `explorers/lookup.py` `_worker` | jobs, pending table, negative cache, Contract objects (through callbacks), metadata cache |

### Components

**Transaction monitor** (`monitor.py`). *State:* the `WeakSet` of watched objects, the
wake event, `last_error`, the locals of the running poll. *Operations:* `watch`, `_run`
(poll, sleep for the rest of `POLL_INTERVAL` or until woken, clear the event), `_poll_once` (snapshot, split
into batches of `MAX_BATCH_SIZE // 3`), `_poll_batch` (one batch request, then per object
one assignment after another). *Interacts with:* Transaction objects (writes their
private fields), the node (three kinds of calls in one batch). *Hard:* the three
answers are taken at different moments; a batch may fail as a whole or call by call in
the middle of the loop; the objects are read while they are written; the set is weak.
*Correct when* a final status is true of the chain, is complete when `wait()` returns,
never changes again, and arrives; nobody held is forgotten; no wake-up is lost.

**Transaction objects** (`transaction.py`). *State:* `_transaction`, `_receipt`,
`_status`, `_initialized`, `_finalized`, `_revert_ready` and the revert data.
*Operations:* construction, the getters (which block until the first update), `wait`,
`replace`, `confirmations`, `events`, `_resolve_revert_reason`. *Hard:* every read is
several field accesses while the monitor writes. *Correct when* a caller's settled answer
is never taken back, and properties, `wait()` and revert reasons all return.

**ABI lookup queue** (`explorers/lookup.py`). *State:* jobs (priority, result, event,
callbacks), the pending table, the negative cache, a priority queue, the cooldowns of
the providers. *Operations:* `fetch_abi` (share, reject, or create a job; attach a
callback; raise the priority), the worker
(`_worker`, `_run_job`, `_fetch_abi`), `wait()`.
*Hard:* raising a priority invalidates a queue entry that the worker may already have
taken; forced jobs supersede running ones; callbacks race with completion; providers
cool down while the only worker sleeps. *Correct when* no job is lost or run twice,
every caller is answered and called back exactly once, the newest lookup is the shared one,
and "not found" is remembered only when every explorer said so.

**Block explorers** (`explorers/etherscan.py`, `explorers/blockscout.py`). No state that
outlives a call; every kind of reply is read as an ABI, not found, rate limited, another failure,
or an exception nobody expects (of `.get()` on a body that is no object).

**Contract ABI resolution** (`contract.py`). *State:* the `_ContractState` of each Contract
(`abi_job`, `proxy_abi`, `implementation`, `implementation_contract`), its installed
`abi`, and two metadata cache entries per address. *Operations:* the constructor, lazy
resolution on attribute access (`__getattr__`, `_resolve_abi`, `_install_abi`), the
callback `on_success`, the nested Contract (`_start_implementation_lookup`).
*Hard:* constructor, callback (on the worker) and readers race over the same fields
without a lock; the two cache entries are separate writes; the process may die between
them. *Correct when* the cache holds only what was said of that address, an installed
ABI obeys the arguments, proxies are overlaid, and a missing ABI is reported only when it
is missing.

**Contract calls and overloads** (`contract.py`, `abi.py`). Stateless after
construction: methods by name, overloads by arity or by a key of input types, called or sent by
mutability; merging a proxy's ABI into its implementation's. *Hard:* a wrong overload, width,
dimension or selector raises nothing, it only sends something else. *Correct when* a request
carries exactly what the values passed stand for, to the one function they can mean.

**ABI encoding** (`abi.py`). Coercion, signatures and decoding; no state. The encoding is
`eth.codecs`.

**Default chain and strict mode** (`chain.py` 17-44). *State:* a thread-local default
chain; each context object stores the one it replaced. *Hard:* nesting, refusal and
reuse of context objects, which threads may share and may enter again before they left
them: an object stores one default only. *Correct when* leaving restores what entering
found, and nothing inside a strict context reaches another chain.

**Canonical chain instances** (`chain.py` 47-181, 285-317). *State:* the registry of
instances by chain id (under a lock), and per chain the lazily created client and
monitor (under none). *Operations:* `__new__`, `__init__`, `w3`, `monitor`,
`configure_chain`, `_create_w3`. *Hard:* threads that create, replace and use the client
at once. *Correct when* a chain's client has the cache middleware, once.

**Chain queries** (`chain.py` 184-283). Single RPC calls, and the generator
`new_blocks`, which must yield every height once although the reported height may
jump or go back and the default chain may change between two `next()`s. A relative index
(`chain[-3]`) is resolved when its block is first used.

**Accounts** (`account.py`). *State:* a keystore in an external library. `transact` fills
in fees and nonce, signs, submits and returns a seeded Transaction; `_resolve_chain` chooses
among the bound chain, the argument and the default. *Correct when* a replacement outbids what
it replaces although fees are bumped, rounded, floored and capped on the way.

**RPC response cache** (`cache/rpc.py`). *State:* rows by chain and call in SQLite;
`ctx.state` of the request under way. *Operations:* `before_request` (take the hits out of
a batch), `after_request` (store fresh results, merge), `get`, `set`. *Hard:* two threads
between look-up and store, answers put back by position, an error among the results,
two layers of the middleware on one client. *Correct when* every call gets its own
answer, and nothing is cached that can go out of date.

**Metadata cache and cache database** (`cache/metadata.py`, `cache/db.py`). One shared
connection under a lock; `set` is a read-modify-write inside it.

**Event decoding** (`events.py`, `abi.py`). An `EventList` decodes the logs of a receipt with the
cached ABIs of a chain, and again after `enrich()`. *Hard:* arguments come from topics and
data, each in its own order; items share topics. *Correct when* what was emitted is read back.

**Units and errors** (`units.py`, `errors.py`). No state.

### How they interact

    Account.transact --seeded--> Transaction --watch--> TransactionMonitor --batch--> node
          |                          ^  |                      |
          +------ replace() ---------+  +-- getters, wait() <--+ writes fields
                                                               +-- starts resolver thread
    Contract(...) --fetch_abi--> lookup queue --worker--> explorers
        ^  |                         |
        |  +-- reads, nested -->     +-- callback: metadata cache, adopt implementation
        +-- readers of .abi block on the job
    Chain.w3 --middleware--> RPC cache (SQLite) --misses--> node
      ^ strict mode, default chain (thread-local)
      +-- Account.call/transact <-- contract methods;  new_blocks, chain[-n];  EventList

What can go wrong at which line, and which property would catch it, is listed in
`PROJECT.json` under `hazards`.

## Modules, and how they follow the code

| Module | Models | Extends |
| --- | --- | --- |
| `TxLifecycle` | what a Transaction promises its holder: the abstract specification | |
| `TxMonitor` | `monitor.py`, and `transaction.py` as far as the monitor and callers write it | |
| `TxReaders` | the read side of `transaction.py`, access by access | `TxMonitor` |
| `Explorers` | how the explorers' replies are read: pure operators | |
| `AbiLookup` | `explorers/lookup.py` | `Explorers` |
| `ContractAbi` | ABI resolution of `contract.py`, `cache/metadata.py` | |
| `RpcCache` | `cache/rpc.py` on `cache/db.py` | |
| `ChainClient` | the client of `chain.py` and the requests made through it | `RpcCache` |
| `ChainContext` | default chains, context managers, and how a chain is found and permitted | |
| `BlockFeed` | `new_blocks` and relative indices | `ChainContext` |
| `Fees` | fee defaults and bumps: pure operators | |
| `Bids` | `transact` and `replace` as far as fees and chains go | `ChainContext`, `Fees` |
| `AbiTypes` | coercion, signatures, overloads: pure operators, and what a value means as a type | |
| `MethodCalls` | calling the methods of a Contract | `ChainContext`, `AbiTypes` |
| `EventLogs` | decoding one log: pure operators, and what a contract emits | `AbiTypes` |
| `EventReads` | `EventList` and `enrich` | `ChainContext`, `EventLogs` |
| `Session` | threads that do all of this under default chains they enter and leave | `BlockFeed`, `MethodCalls`, `Bids`, `EventReads` |
| `*Proofs` | theorems about the module they are named for; `TxMonitorProofs` also about `TxReaders`, `AbiTypesProofs` also about `MethodCalls` and the events, `SessionProofs` also about `BlockFeed` and `Bids` | |
| `WellFoundedRecursion` | nothing of the code: that recursive definitions have the values they say, for the proofs | |
| `MC*` | instances for TLC | |

`PROJECT.json` maps every definition to the lines it stands for. A definition whose name
ends in `_Something` next to one of the plain name (`Remove_None`, `Remove`) is a
plausible wrong version of it: with it in place the property it belongs to must fail, which
shows that the property depends on that line of the code. The next-state relation uses only
the plain one.

**TxMonitor.** A `Tx` is one Transaction object; a `Slot` is a (sender, nonce) pair and
`SlotOf` says for which pair a transaction competes. The chain is an external actor:
`Broadcast`, `Evict`, `Mine`, `Supersede` (by a transaction nobody watches). Callers
`Transact`, `Replace`, `Construct`, `Signal` (the second half of `watch`) and
`Release`. The thread goes through `pc`: `Snapshot`, `StartBatch`, the three kinds of
answers `AskTx`, `AskReceipt`, `AskNonce` (separate steps, because a node serves the
calls of a batch one after another while the chain moves), then per object `ApplyReceipt`,
`PutReceipt`, `PutStatus`, `Finalize`, `StartRevert`, `Initialize` or one of the other
verdicts (`ApplyPending`, `ApplyReplaced`, `ApplyDropped`, `ApplyUnseen`), `Remove`,
`EndPoll`, `Awake`, `Clear`. `BatchFails` is an exception of the whole request;
`CallFails` an error that is raised when the answer of one call is read, in the middle of
the loop. `Alive` is what keeps a WeakSet member: a caller, the snapshot, the traceback in
`last_error` (`pinned`), a resolver thread.

**TxReaders.** `Begin`, `Awaited`, `CheckSeen`, `ReadReceipt`, `ReadStatus` are the
accesses of the getter `status`, with the monitor free to run between them.

**AbiLookup.** One action per critical section of `fetch_abi` (`FetchShared`,
`FetchNegative`, `FetchNew`), of the job's methods (`Attach`, `KeepPriority`, `RaiseShared`,
`RaiseToWait`, `Put`, `Wait`), and of the worker (`Get`, `Skip`, `Start`, `Partition`,
`AskEnds`, `AskFailed`, `Sleep`, `AwakeFromSleep`, `GiveUp`, `Settle`, `Call`,
`Record`, `Pop`). A job is named by the caller that created it. What an explorer may answer is not
free: `Hear` takes the answers `Explorers` says get_abi can end with, crash included.

**ContractAbi.** Three kinds of actors write a Contract: its constructor, the callback on the
lookup worker, and readers. `Construct` to `CacheImplementation` and `CallbackAdopts` are
the first two; `Read` to `InstallOverlay` are a reader, with a stack of frames because
resolving a proxy reads the `abi` of the nested Contract. `Restart` drops every object
and keeps the cache. An ABI is the set of its parts, each (who described it, which
address), and `Overlay` is their union: what the properties ask is whose entries are in
an ABI, not which of two equal entries wins.

**RpcCache, ChainClient.** A request goes through `Begin`, `Lookup` per call (the hits
go to `ctx.state`), `NextLayer`, `Send` or `SendDirect`, and back through `Keep`, `Store`,
`Commit`, `Return` per layer. `cache` is what this process sees, `durable` what a restart
finds: `execute` and `commit` are separate. `ChainClient` adds `Use`, `Create`, `Attach`,
`ReturnClient`, `Configure`: `_create_w3` assigns `_w3`, then reads it again to add the
middleware, and the property `w3` reads it a third time to return it.

**ChainContext.** `Enter` and `Leave` of a thread; `previous` is a field of the manager, as in the
code, and is written also by an entry that is refused. Any thread may enter any manager at any time.
`stack` records what each entry found and whether its manager was entered or tried again since
(`again`); the steps use it only to know which manager the thread leaves next, and for the bound
`MaxDepth` on nesting. `Reached(t, bound, arg)` is the
chain a request of an account ends up on, and `Permitted` the check in `Chain.w3`.

**BlockFeed.** One generator or deferred index per thread. `Heights` are the answers of nodes that are
up to `Lag` blocks behind; every request may meet another node. `Begin`, `Poll`, `Yield` and `Sleep`
are the stretches of the generator between requests and `yield`; a request refused by strict mode ends
it. `Index` and `UseIndex` are `chain[-n]` and the first use of its block.

**Fees, Bids.** `Filled` is what `transact` makes of the fee arguments and the chain's
suggestions, `Bumped` what `replace` makes of the data the Transaction holds: signed data until the
monitor has polled (`Show`), then the node's, which has a `gasPrice` for every type.

**AbiTypes, MethodCalls.** A type is a base, a size, array suffixes and components; a Python value
is a record of what it reads as. The types and values that occur are constants, closed under what they
are made of (`TypeAssumption`, `PyValueAssumption`), so that what recurses on types in the code is a
function that recurses on them here. `CoerceArgs` follows `_coerce_args`, and `Meanings` says
independently, as the set of words a value may stand for, what was meant. A selector is
the signature it is the hash of, so that two selectors are equal exactly when the signatures are.

**EventLogs, EventReads.** `Emitted` says which log a contract emits, `DecodeLog` what the library
reads in it with the ABIs it knows; `enrich` learns further ABIs. How ABIs get into the cache is
`ContractAbi`.

**Session.** Threads share the managers and nothing else of this, and what one thread does meets
only its default chain; so a thread has one task at a time. Every step of `Session` is a step of
each component it extends or leaves that component's variables alone: it implements `ContextSpec`,
`FeedSpec` and `BidSpec` (theorem `SessionImplements`), so what is proved of those holds of it.

## Abstractions

- Time has no units. A sleep may end at any moment, a cooldown or a negative entry may
  expire at any moment.
- Payloads are reduced to what the properties tell apart: transaction data is absent,
  pending or mined; a receipt is the status it carries; a nonce is free or used; an RPC
  value is (kind, chain, call).
- In the models of the monitor and the cache there is one node; in `BlockFeed` there are several that
  lag. The chain only moves forward.
- Amounts are small integers; a float product is the exact quotient, rounded down as `int()` does.
- Everything between two accesses to shared state is one step. Where a lock is held the
  critical section is one step; where none is held every assignment another thread may see
  is a step of its own. `_state_lock` of the lookup queue is a variable, because
  `fetch_abi` keeps it while it takes a job's own lock.
- History variables (`polled`, `latest`, `born`, `configured`, and of `stack` the fields `found`
  and `again`) are read by properties or bounds only, never by the guard of a step the code
  takes, except that `configured` bounds how often `configure_chain` is called.

## Runs

State counts are distinct states. Every property of a passing run has a wrong variant of
some definition that makes the run fail (`mutants` in `PROJECT.json`).

| Run | Instance | Shows |
| --- | --- | --- |
| `tx_monitor` (2.6 million) | two rivals for one slot, one found by hash and one sent locally; both in one batch; batches and single calls fail; callers let go | `TypeOK`, `Truthful`, `NeverAbandoned`, `NoLostWake` |
| `tx_lifecycle` (69 thousand) | the same rivals in batches of one, callers that keep waiting, failing batches, fair | `BatchFits`, `OutcomeBeforeFinal`, `FinalizedIsStable`, `RevertResolvedOnce`, `ImplementsLifecycle`; that properties unblock, mined and superseded transactions are finalized, revert reasons arrive |
| `tx_readers` (694 thousand) | one caller reading `status` of one of the rivals, access by access | `AnswersAreTrue`, `AnswersSettleOnce` |
| `abi_lookup` (48 thousand) | an urgent lookup and a forced refresh of one contract, two explorers, fresh or with a remembered failure, fair | `TypeOK`, `NeverLost`, `PendingIsLatest`, `CalledOnce`, `OutcomeSticks`, `NegativeIsEarned`, `EveryoneIsAnswered`, `SuccessIsTold` |
| `contract_abi` (313 thousand) | two Contracts at the address of a proxy, the first made with any kind of arguments; one reader; restarts; fair | `TypeOK`, `CacheIsSound`, `ArgumentsAreObeyed`, `ProxyIsOverlaid`, `MissingIsEarned`, `EveryReadEnds` |
| `chain_client` (1.6 million) | a warm chain that is reconfigured once per process and a cold one, two threads, batches of two and three calls | `TypeOK`, `AnswersInPlace`, `CodeIsCurrent`, `ClientIsCached` |
| `session` (2.1 million) | two threads, two managers of two chains, one strict, entered up to twice by one thread and once by the other, also again before they are left; the first thread follows blocks with lag 2 and buffers 0 to 2, calls seven overloaded functions in fifteen ways, replaces transactions, reads three receipts | `TypeOK`, `StrictIsConfined`, `LeavingRestores`, `BlocksAreThere`, `CallIsExact`, `FeesOutbid`, `EventsDecodeBack` |

Five more runs expect a violation; see
[Disagreements](#disagreements-with-the-documentation).

### Why these bounds

- *Two transactions on one slot.* What transactions do to each other they do in pairs: a
  slot is consumed by one of them and the others are superseded, in which every other looks the
  same. Two also make a batch with more than one member, so that the loop can fail
  between them. Supersession by an unwatched transaction is an action of its own.
- *`MaxBatchSize` 6 and 4.* `6 // 3 = 2` puts both in one batch, `4 // 3 = 1` makes two
  batches per poll, so that one can fail and the other succeed. That a batch never
  exceeds the limit for any size is the theorem `BatchAlwaysFits`.
- *Two askers, two explorers, one key.* The first may share the job of the second and raise it, the
  second supersedes the job of the first; either may find a remembered failure. Jobs of different
  keys meet only in the queue, and the two priorities already give a queue with a job before
  another. What must hold of more askers is proved for any number of them and of explorers.
- *Two threads, two managers, `MaxDepth` 2 and 1.* A nested entry needs two contexts, of the two managers
  or of one; strict mode refuses the manager of the other chain; a thread can overwrite what another's
  manager remembers with one entry. The second thread only enters and leaves. Alone, without what a
  session does under it, `ChainContext` was also checked with a third manager of the strict one's
  chain (30 thousand states). The theorems cover any number of threads and managers and any depth.
- *Lag 2, `MaxTip` 4, buffers 0 to 2.* Heights that jump and go back by two, buffers smaller than the lag
  and equal to it, and a chain that grows past both.
- *Fees.* Prices and suggestions below and above the floor of 100, zero, a cap that is raised to the
  tip; increments that change nothing, the default and a large one. Two replacements, so that a
  replacement is itself replaced. The theorem covers any amounts.
- *Calls and receipts.* One function per rule: overloads by arity, ambiguous ones, keys, nested arrays
  whose dimensions differ, both ends of integer widths, bool and float for integers, bytes of wrong
  length; events with indexed arguments between others, a dynamic indexed one, an anonymous one,
  and two with one topic and different layouts.
- *Two Contracts, one proxy.* Contracts of one address meet in the cache alone, pairwise;
  an implementation is not itself a proxy. One reader reads one of them. With two
  readers on one Contract `CacheIsSound` and `ArgumentsAreObeyed` still hold (1.85 million
  states), but `MissingIsEarned` and `ProxyIsOverlaid` do not: one reader takes the result and
  clears the job while the other is between two checks of the same fields, or the other one reads
  `proxy_abi` before the first has adopted the implementation. `hazards` lists it; the
  documentation says nothing of sharing a Contract between threads.
- *Two threads, one `configure_chain` per process life.* A race of creation is a race of two. The
  warm chain is used with every cached call, at the head, the tail and all of a
  batch. The cold chain is used with an uncacheable call only: there the creation race is
  possible but harmless, and what it does to cached calls is run `chain_race`.

`abi_lookup` does not check deadlock: every asker asks once, so the model
comes to rest when all are answered. All other runs check it.

## Fairness

- *Monitor* (`FairSpec` of `TxMonitor`): weak fairness of the thread's steps, because it is a
  daemon that never exits, its `wait` has a timeout and `_poll_once` catches every
  exception of a batch; of `Signal` and `ResolveRevert`, which are straight-line code. Strong fairness
  that a batch with a given transaction is eventually answered as a whole: a node
  may fail any number of times but not every time. No fairness of the chain or of
  callers: a transaction may stay unmined for ever.
- *ABI lookup*: weak fairness of the worker (a daemon; every explorer call has a timeout and
  ends one way or the other), of callers inside `fetch_abi`, and of the end of cooldowns,
  which is the passing of time.
- *Contract*: weak fairness of constructors, the worker and each reader; the lookup
  answers, which `EveryoneIsAnswered` shows of `AbiLookup`.
- *Client and cache*, *Session*: none, nothing is claimed to happen. A feed may stop for good: its
  caller resumes it or not.

## Proofs

The theorems hold for every value of the constants that satisfies the named `ASSUME`s of
the module. Nothing else is assumed, except where a theorem has a hypothesis in its statement:
- `~CallCanFail` (no single call of a batch answers with an error), `OneReaderEach` (a Contract is read
  by one thread) or `OneMakerEach` (a client is made by one thread). Each is there because the
  theorem is false without it, and each holds of the run that checks the same property.
- `SignaturesDiffer`: no two functions of a contract have one name and the same raw input types;
  two that do have one selector, and a request for one is read by both (what `abi_selector` and
  `overlay_abi` show of structs). `EventsDiffer`: the arguments of an event have different names
  (`decode_event` collects them in a dict, under `""` when they have none), and no other event has the
  signature of one that was emitted, unless it differs in how many arguments it indexes. The source takes
  both for granted. `MCSession` assumes both of its instance, where TLC evaluates them.
- `NoListIsRefused`: the refusal of a value, an exception, is not itself a list of words.
- `NoStructs`: no function of the contract takes a struct.

TLC evaluates the assumptions in the runs.

**TxMonitorProofs.** `TypeOK` is not inductive alone: the monitor writes through its
locals, so `Control` ties them to `pc` (a transaction is in hand exactly in the stages that use
`cur`, a batch exists exactly in the stages of a batch).
  - `StatusIsTruthful`: the three answers may be stale when they are applied.
    `AnswersHold` says that they stay true nevertheless, because the chain moves forward
    only: an outcome and a used nonce are never taken back. So an answer written onto an object
    is true of the chain at that moment.
  - `HeldIsWatched`: the removal takes finalized members only; the aborts take none.
  - `NoWakeIsLost`, from `WakePending`: between a snapshot and the next `clear`, an object
    nobody has polled has its signal pending.
  - `BatchAlwaysFits`: `SmallBatch` bounds the members; the distinct senders of a batch are no
    more than its members (image of a finite set).
  - `OutcomeIsComplete`, `FinalityHolds`, `RevertIsResolvedOnce`, under `~CallCanFail`: `Behind`
    says that the finalized objects are behind the monitor, in neither the rest of the loop
    nor the rest of the sweep, and watched only until their own batch ends; `Stored`
    says what an object holds before, while and after it is finalized. With call
    failures the properties are false (run `tx_repolled`).

  - `MonitorImplementsLifecycle`, under `~CallCanFail`: with the mapping `Public`, every step
    of the monitor is one step of `TxLifecycle` or invisible. It needs one more invariant,
    `SeenBefore`: an object whose sender is known and that was not seeded has been seen or is just
    receiving its receipt; so it is never declared replaced out of nowhere.

**TxMonitorProofs, readers.** `AnswersTrue` and `AnswersSettle`, under `~CallCanFail`, for any number of
callers. A read is not atomic, so what a caller was told is compared with each place its next read
may be at (`ReaderInv`): one that was given a mined answer has a receipt to find and never gets past it;
one that was told not found never gets past the check; one that was told `REPLACED` finds no receipt.
`SettledStays` says that the monitor does not overwrite any of these between two accesses, also
before `_finalized` is set, and `Verdict` that an object that may not stay unseen is given up before
`_initialized` lets its readers in.
With call failures both are false, for the reason `tx_repolled` shows. What is left then is
`MinedAnswersAreFinal`, without any hypothesis: `CONFIRMED` and `REVERTED` are the outcome on the chain and
are never taken back, because a receipt can only be written again as it is, the getter reads it before
`_status`, and no object becomes `UNSEEN` again.

**AbiLookupProofs.** `Base` is `TypeOK` and `Control` (what callers, jobs and the
worker hold in each stage). On it rest `JobsNeverLost` (whoever makes the entry of an
open job stale, or takes it, has the job in hand or is about to queue it again),
`OutcomeFinal` (the worker runs only open jobs, and only the worker ends
them), `NewestIsShared` (only the worker removes a job from the pending table, its own, after it
is done) and `CallbackRunsOnce` (`CallsHold`: a callback is attached, about to be called, or told,
never two of them). `NegativesAreEarned` needs `AskedAll` (what the explorers still to be asked and
those that have answered make together, counted by cardinality) and `PendingIsNewest`.

**ChainContextProofs.** `ContextsRestore` and `StrictHolds`, from `ContextInv`: the `previous` of a manager
is what an entry of it found unless the manager was entered again since (`Remembered`); a strict manager
is always the innermost (`StrictIsInnermost`), and what it set stays the default until it is left
(`StrictIsSet`), also when an attempt to enter another one, or itself again, is refused. So strict mode
needs nothing of what managers remember. `Marked` says of the history that marking changes nothing else.

**AbiTypesProofs.** What recurses in `abi.py`, for any types, values and ABIs. The prover has no
induction over data, so `WellFoundedRecursion` provides it once, from a minimal counterexample:
on a well-founded structure a definition that looks only below itself has a solution (`Recursion`, by
putting together the attempts below a node, which agree where they meet), and what holds of a node
when it holds below it holds everywhere (`Induction`). It is instantiated for coercion,
for meanings, for the spelling of types and for the walk over the inputs of an event.
  - `CoercionIsExact`: by induction on types, from lists that agree element by element
    (`ListAgrees`) and scalars that agree base by base (`ScalarAgrees`, `NumberAgrees` for the ends of
    the integer widths).
  - `CallsAreExact`: at most one overload of an arity is ever taken (`ChosenByArguments`), a lone one
    always (`LoneIsChosen`), on the chain of its contract (`ReachesItsChain`).
  - `SelectorsWithoutStructs`: equality with the canonical signature if and only if nothing in the
    inputs has members. Members of arrays are no components of the array in the sense of
    `TypeAssumption`, so `PartsAreTrees` takes the arrays away first.
  - `DecodingInverts`: after n inputs the walk is at the topic and the datum whose numbers are the
    ranks of n among the indexed inputs and among the others (`WalkedTo`); the k-th topic was logged
    from the input of rank k (`NthPlace`), and ranks count up by one in just one of the two
    (`RankCounts`). `LogsDecodeBack` adds which item a log is decoded with.

**SessionProofs.** For any fees, lags, threads, contracts and receipts:
  - `FeedIsExact`: what was polled is at most the tip less the buffer, whichever node said so, and the
    tip only grows; `last` is the number of the last block returned.
  - `ReplacementsOutbid`: a quotient rounded down still exceeds the original by the `max` of
    `_bump_fee`, and neither the floor nor the cap of `transact` can take that back. The arithmetic is in
    lemmas about `BumpFee` and `Filled`.
  - `SessionImplements`: a session's step is a step of each component or leaves its variables
    alone, so a session implements `ContextSpec`, `FeedSpec` and `BidSpec`; `SessionIsSafe` and
    `SessionSteady` are what that gives for the four properties of the parts.
  - `SessionTypeCorrect`: of readings it needs `ReadingInv`, that the events of every reading are those
    of its receipt, decoded with the ABIs of the one chain it uses, before and after `enrich`.
  - `SessionCallsAreExact`, under `SignaturesDiffer` and `NoListIsRefused`, from `CallsAreExact`;
    `SessionEventsDecodeBack`, under `EventsDiffer`, from `LogsDecodeBack` and `ReadingInv`.
  - `SessionEventsKeepTheirName`, without a hypothesis: also with the ABIs of another chain, or with
    events that share a signature, no log is decoded as an event of another name.
  - `SessionSelectorsAreCanonical`, under `NoStructs`: what the run `abi_selector` refutes holds as soon as no
    struct is involved.

**ContractAbiProofs.** For any number of Contracts, addresses and reading threads, and of restarts:
`TypeCorrect`, `CacheHolds`, `ArgumentsHold`. The invariant `Inv` says of each Contract that its fields
fit its arguments (`Good`: the ABI before it is installed, the implementation, the lookup, what is
installed), of each nested Contract that it is the one its maker asked for (`NestFits`,
`ReaderNestFits`), of the readers' stacks and of the cache. A Contract is written by its
constructor, a callback and readers, but no writer takes back what another one relied on
(`Grows`: the arguments stay, a known implementation stays, what is ready stays ready); so a step
is proved for the one Contract it writes (`OneChanges`), and for those it makes
(`Makes`, `Publishes`), and the others follow from `AllGrow`.
`ProxyHolds` and `MissingHolds` need `OneReaderEach` and three more facts (`OneInv`): nobody
else clears the job a reader is about to ask (`JobIsKept`), an answer is adopted before the
proxy's ABI is used (`AnswerIsAdopted`), and who was given an ABI has read a Contract that was ready
(`AnswerIsOfContract`).
With two readers of one Contract both properties are false (see the bounds above).

**ChainClientProofs.** For any number of threads and chains:
  - `ClientsAreCached`, from `Inv`: the newest client lacks the middleware only while some thread is
    between the assignment and the addition, and such a thread adds it to whatever client is newest
    then.
  - `TypeCorrect`, from `TypeInv`: also when a client has the middleware any number of times,
    what its layers leave in `ctx.state` stays within the batch (`Shaped`).
  - `AnswersStayInPlace` and `CodeStaysCurrent`, under `OneMakerEach`. `AnswerInv` follows a request
    from its opening (`Opened`) through the split into hits and misses (`Sorted`: the misses are the
    calls without a hit, in order) and the merge, position by position (`Filling`), to its end (`Answered`);
    and what is in the tables is the answer to its key and never the absence of code (`Remembers`).
    The hypothesis gives `ClientsAreSingle`: a client has at most one layer, or is asked nothing that could
    be cached. Without it neither theorem holds: see `chain_race` below.

**Only model-checked:** liveness, that is `PropertiesUnblock`, `MinedIsFinalized`,
`SupersededIsFinalized`, `RevertReasonArrives`, `EveryoneIsAnswered`, `SuccessIsTold` and
`EveryReadEnds`: for fairness and `ENABLED` the prover has no support. Every other property of a
passing run is stated by a theorem.

## Disagreements with the documentation

Each is a run that TLC must refute; quotations are in `PROJECT.json`.

- `tx_repolled`: finalized transactions are removed after the loop over the batch. An
  error answered for one call ends the loop early, so members already finalized stay watched,
  and the next poll turns a not-found verdict into `PENDING`; then the object is removed and stays
  `PENDING` for ever.
- `tx_false_replaced`: receipt and nonce are answered at different moments. A
  transaction the node's mempool does not show, mined in between, has no receipt and a used
  nonce, and is finalized as `REPLACED` although it confirmed.
- `contract_proxy`: a Contract constructed between the two cache writes of another one's lookup
  (or after a crash there, or after a lookup that was told not to look for proxies) finds an ABI
  and no implementation, and installs the proxy's own ABI.
- `chain_race`: two threads that use a chain for the first time together both create a
  client, and both add the middleware to the newest. Its two layers overwrite each other's part
  of `ctx.state`, and a batch with a cached call comes back short. The damage can last: when another
  thread stores an answer between the two look-ups of a batch, the layers split the batch
  differently, and the loop that stores fresh results pairs some of them with the wrong calls before its
  strict `zip` raises. They stay in the cache under the wrong key, for later clients and later processes
  (TLC finds it as a violation of `CodeIsCurrent` with the batch `eth_call` of one contract,
  `eth_getCode` and `eth_call` of another, and a second thread that asks the first `eth_call` alone). (That fastweb3 runs
  the middlewares of a client around one context per request is inferred from the interface the
  middleware is written against.)
- `abi_selector`: `function_signature` joins raw types, and the raw type of a struct is `tuple`. The
  selector of a function that takes a struct is therefore the hash of `f(tuple)`, which no contract
  dispatches on; `event_signature` spells structs out. The docstring promises the canonical signature
  (abi.py 387); the repository's tests want the raw one (`tests/unit/test_abi.py` 207 and 332-346), so
  documentation and tests disagree and the code follows the tests.

One more has no run of its own. `as_default` returns a "context manager that restores the previous
default chain on exit" (chain.py 286-287), but a manager that is entered again, or refused, before it is
left has forgotten what its first entry found (chain.py 26): a strict manager tried again inside itself
leaves its thread in strict mode. `LeavingRestores` names this exception and shows that
there is no other; without it TLC refutes the property in four states.

## Not modelled

| What | Why |
| --- | --- |
| chain reorganisations, several nodes that disagree | the code handles neither; `Truthful` is about a chain that only moves forward |
| `Transaction.events`, `confirmations`, `wait(n)` with n > 1 | planned; `EventReads` models the list they return |
| `Chain.__init__` outside the lock, the lazy monitor | planned |
| the parameters and endpoints of clients | that a client created lazily may get parameters `configure_chain` is just replacing (chain.py 171) is not shown |
| invalid ABI types (`abi.py` 149-151, 178-179) | the types of an ABI are constants; a width or size no contract has is refused before any value is looked at |
| order of entries in an overlay | `Overlay` is the set of parts; which of two entries with one selector wins is not asked |
| index 0 of a transaction in its block (`transaction.py` 184) | one falsy value in one expression; listed under `hazards` |
| proxies of proxies | the code treats the nested Contract like any other, the model stops one level deep |
| the ABI encoding of coerced values, return data, decoding of revert data | `eth.codecs`, external |
| reaching a decoded event by name, group or attribute | wrappers around the list `EventsDecodeBack` is about |
| units | a conversion without state, of amounts beyond TLC's integers |
| several providers' `Retry-After` values | a cooldown may end at any moment |
| which keystore an address is found in (`account.py` 71-96) | external stores; that the search iterates a WeakSet that other threads may fill is left out |
| opening and migrating the cache file, several processes on one file | I/O of SQLite; threads of one process are covered |
| contracts whose code changes (self-destruct, delegation) | the cache rules assume there are none |
| errors of `_install_abi` (reserved names) and of loading an ABI | which methods an installed ABI gives a Contract is outside the model; that `abi` stays set when a reserved name is refused is therefore not shown |
| the keystore, `fastweb3` itself | external; modelled from how they are used |

## Plan

Built so far, in this order: the monitor with its life cycle and readers, the lookup queue,
Contract ABI resolution, the RPC cache and the client it is attached to; then default chains and
what works under them (feeds, calls, replacements, events), the replies of explorers; and with them the
proofs: of every safety and action property a passing run checks. What is left:

Models, most important first
  1. `ChainInit`: `__new__` under the lock, `__init__` outside it, the lazy monitor, composed with
     `ChainClient`: an instance somebody uses is initialised, and every
     watched transaction is watched by the monitor that runs.
  2. `TxReaders` extended by `wait(n)`, `confirmations` and `events`: what they return once the
     transaction has settled, and when they do not return.

Proofs: what holds of Contracts and clients without the hypotheses, that is, which weaker
promise two readers of one Contract, or two makers of one client, still get.

## Running

    tlc -workers 2 -config MCTxMonitor.cfg MCTxMonitor
    tlapm TxMonitorProofs.tla

The module and configuration of every run are in `PROJECT.json` under `runs`.
