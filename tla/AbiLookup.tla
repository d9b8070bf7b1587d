----------------------------- MODULE AbiLookup -----------------------------
(***************************************************************************)
(* The asynchronous ABI lookup of explorers/lookup.py: callers share jobs  *)
(* through a table of pending lookups, one worker thread takes jobs from a *)
(* priority queue and asks the configured explorers in turn, honouring     *)
(* their rate limits, and remembers for a while what nobody could find.    *)
(*                                                                         *)
(* Each caller makes one request, so a job is named by the caller that     *)
(* created it.  Raising a priority queues a job again, so the queue holds  *)
(* stale entries.  Two locks are in play: _state_lock (lock) guards the    *)
(* tables, each job's own lock makes its operations atomic; a job can be   *)
(* finished while a caller that found it pending is still attaching to it. *)
(* Time is abstract: cooldowns and negative answers expire at any moment.  *)
(***************************************************************************)
EXTENDS Naturals, Sequences, Explorers

CONSTANTS
    Caller,         \* threads that call fetch_abi, once each
    Key,            \* (chain id, address, resolve_proxy)
    Asks,           \* what each caller asks for
    NumProviders,   \* explorers with an API key, asked in the order 1, 2, ...
    None            \* no job, nobody

ASSUME NoneAssumption     == None \notin Caller
ASSUME AsksAssumption     ==
    Asks \in [Caller -> [key : Key, priority : {"high", "low"}, forced : BOOLEAN,
                         notify : BOOLEAN]]
ASSUME ProviderAssumption == NumProviders \in Nat

Provider == 1 .. NumProviders
Job == Caller
Priority == {"high", "low"}

VARIABLES
    \* callers
    at,             \* where each caller is in fetch_abi and after it
    mine,           \* the job it was given
    told,           \* how often its on_success callback has run
    lock,           \* who holds _state_lock across several steps
    \* jobs
    outcome,        \* "absent", "open", "found" or a failure; set once done
    priority, callbacks,
    \* the shared tables
    pending, negative, limited,
    latest,         \* history: the newest job created for each key
    queue,          \* one FIFO per priority
    w               \* the worker: where it is and its local variables

callerVars == <<at, mine, told, lock>>
jobVars    == <<outcome, priority, callbacks>>
tableVars  == <<pending, negative, limited, latest>>
vars == <<callerVars, jobVars, tableVars, queue, w>>

Done(j) == outcome[j] \in Failure \union {"found"}

WorkerState ==
    [pc : {"off", "get", "check", "partition", "ask", "sleep", "settle", "call", "record",
           "pop"},
     prio : Priority, job : Job \union {None},
     left : SUBSET Provider, ready : SUBSET Provider, said : Seq(Failure),
     verdict : Failure \union {"found"}, toCall : SUBSET Caller]

TypeOK ==
    /\ at \in [Caller -> {"idle", "attach", "raise", "put", "holding", "answered"}]
    /\ \A c \in Caller : at[c] # "idle" => mine[c] \in Job
    /\ mine \in [Caller -> Job \union {None}]
    /\ told \in [Caller -> Nat]
    /\ lock \in Caller \union {None}
    /\ outcome \in [Job -> Failure \union {"absent", "open", "found"}]
    /\ priority \in [Job -> Priority]
    /\ callbacks \in [Job -> SUBSET Caller]
    /\ pending \in [Key -> Job \union {None}]
    /\ latest \in [Key -> Job \union {None}]
    /\ negative \subseteq Key
    /\ limited \subseteq Provider
    /\ queue \in [Priority -> Seq(Job)]
    /\ w \in WorkerState

\* The worker before it exists ("off") and between two jobs.
Unoccupied(pc_) ==
    [pc |-> pc_, prio |-> "low", job |-> None, left |-> {}, ready |-> {}, said |-> <<>>,
     verdict |-> "error", toCall |-> {}]

\* A new process, or one whose lookups are all over and may have found nothing.
Init ==
    /\ at = [c \in Caller |-> "idle"]
    /\ mine = [c \in Caller |-> None]
    /\ told = [c \in Caller |-> 0]
    /\ lock = None
    /\ outcome = [j \in Job |-> "absent"]
    /\ priority = [j \in Job |-> "low"]
    /\ callbacks = [j \in Job |-> {}]
    /\ pending = [k \in Key |-> None]
    /\ latest = [k \in Key |-> None]
    /\ limited = {}
    /\ queue = [p \in Priority |-> <<>>]
    /\ \/ negative = {} /\ w = Unoccupied("off")
       \/ negative \in SUBSET Key /\ w = Unoccupied("get")

KeyOf(j) == Asks[j].key      \* j is also the caller that created the job

GoTo(c, where) == at' = [at EXCEPT ![c] = where]
Take(c, j) == mine' = [mine EXCEPT ![c] = j]

-----------------------------------------------------------------------------
(* fetch_abi, its first critical section.                                   *)

\* Variant: a missing entry passes for a job that is not done.
Shareable_Missing(c) ==
    ~Asks[c].forced /\ (pending[Asks[c].key] = None \/ ~Done(pending[Asks[c].key]))

\* A pending job that is not done is shared, unless the caller insists on a new one.
Shareable(c) ==
    /\ ~Asks[c].forced
    /\ pending[Asks[c].key] # None /\ ~Done(pending[Asks[c].key])

\* A live job for the key exists: keep the lock and attach to it.
FetchShared(c) ==
    /\ at[c] = "idle" /\ lock = None
    /\ Shareable(c)
    /\ Take(c, pending[Asks[c].key]) /\ GoTo(c, "attach") /\ lock' = c
    /\ UNCHANGED <<told, jobVars, tableVars, queue, w>>

\* The key is known not to be found: the answer is a job that is done already.
FetchNegative(c) ==
    /\ at[c] = "idle" /\ lock = None
    /\ ~Shareable(c) /\ ~Asks[c].forced /\ Asks[c].key \in negative
    /\ Take(c, c) /\ GoTo(c, "holding")
    /\ outcome' = [outcome EXCEPT ![c] = "notfound"]
    /\ UNCHANGED <<told, lock, priority, callbacks, tableVars, queue, w>>

\* A new job replaces whatever is pending; it is queued after the lock is released.
FetchNew(c) ==
    /\ at[c] = "idle" /\ lock = None
    /\ ~Shareable(c) /\ (Asks[c].forced \/ Asks[c].key \notin negative)
    /\ Take(c, c) /\ GoTo(c, "put")
    /\ outcome' = [outcome EXCEPT ![c] = "open"]
    /\ priority' = [priority EXCEPT ![c] = Asks[c].priority]
    /\ callbacks' = [callbacks EXCEPT ![c] = IF Asks[c].notify THEN {c} ELSE {}]
    /\ pending' = [pending EXCEPT ![Asks[c].key] = c]
    /\ latest' = [latest EXCEPT ![Asks[c].key] = c]
    /\ w' = IF w.pc = "off" THEN Unoccupied("get") ELSE w
    /\ UNCHANGED <<told, lock, negative, limited, queue>>

\* Variant: the callback is registered without looking whether the job is done.
Attach_Blind(c) ==
    /\ at[c] = "attach" /\ GoTo(c, "raise")
    /\ callbacks' = [callbacks EXCEPT ![mine[c]] = IF Asks[c].notify THEN @ \union {c} ELSE @]
    /\ UNCHANGED <<mine, told, lock, outcome, priority, tableVars, queue, w>>

\* add_done_callback: register, or call at once if the job has succeeded meanwhile.
Attach(c) ==
    /\ at[c] = "attach" /\ GoTo(c, "raise")
    /\ LET j == mine[c] IN
       /\ callbacks' = [callbacks EXCEPT ![j] = IF Asks[c].notify /\ ~Done(j)
                                                THEN @ \union {c} ELSE @]
       /\ told' = [told EXCEPT ![c] = IF Asks[c].notify /\ outcome[j] = "found"
                                      THEN @ + 1 ELSE @]
    /\ UNCHANGED <<mine, lock, outcome, priority, tableVars, queue, w>>

Higher(p, j) == p = "high" /\ priority[j] = "low"

\* bump_priority for a shared job: nothing to raise, the lock is released.
KeepPriority(c) ==
    /\ at[c] = "raise"
    /\ Done(mine[c]) \/ ~Higher(Asks[c].priority, mine[c])
    /\ GoTo(c, "holding") /\ lock' = None
    /\ UNCHANGED <<mine, told, jobVars, tableVars, queue, w>>

\* Variant: the priority is raised without queueing the job again.
Raise_NoPut(c, p) ==
    /\ ~Done(mine[c]) /\ Higher(p, mine[c])
    /\ priority' = [priority EXCEPT ![mine[c]] = p]
    /\ GoTo(c, "holding")
    /\ lock' = IF lock = c THEN None ELSE lock
    /\ UNCHANGED <<mine, told, outcome, callbacks, tableVars, queue, w>>

\* bump_priority raises it; the job is queued again after its lock is released.
Raise(c, p) ==
    /\ ~Done(mine[c]) /\ Higher(p, mine[c])
    /\ priority' = [priority EXCEPT ![mine[c]] = p]
    /\ GoTo(c, "put")
    /\ UNCHANGED <<mine, told, lock, outcome, callbacks, tableVars, queue, w>>

\* For a shared job, inside fetch_abi.
RaiseShared(c) == at[c] = "raise" /\ Raise(c, Asks[c].priority)

\* By a caller about to wait (contract._resolve_abi).
RaiseToWait(c) == at[c] = "holding" /\ Raise(c, "high")

\* _enqueue reads the job's priority when it puts the entry.
Put(c) ==
    /\ at[c] = "put" /\ GoTo(c, "holding")
    /\ queue' = [queue EXCEPT ![priority[mine[c]]] = Append(@, mine[c])]
    /\ lock' = IF lock = c THEN None ELSE lock
    /\ UNCHANGED <<mine, told, jobVars, tableVars, w>>

\* job.wait() returns or raises.
Wait(c) ==
    /\ at[c] = "holding" /\ Done(mine[c])
    /\ GoTo(c, "answered")
    /\ UNCHANGED <<mine, told, lock, jobVars, tableVars, queue, w>>

-----------------------------------------------------------------------------
(* The worker thread.                                                       *)

Urgent == IF queue["high"] # <<>> THEN "high" ELSE "low"

Get ==
    /\ w.pc = "get" /\ queue[Urgent] # <<>>
    /\ w' = [w EXCEPT !.pc = "check", !.prio = Urgent, !.job = Head(queue[Urgent])]
    /\ queue' = [queue EXCEPT ![Urgent] = Tail(@)]
    /\ UNCHANGED <<callerVars, jobVars, tableVars>>

\* Variant: only the priority is compared.
StaleEntry_PriorityOnly == priority[w.job] # w.prio

\* A finished job, or an entry older than the job's last priority change.
StaleEntry == Done(w.job) \/ priority[w.job] # w.prio

Skip ==
    /\ w.pc = "check" /\ StaleEntry
    /\ w' = Unoccupied("get")
    /\ UNCHANGED <<callerVars, jobVars, tableVars, queue>>

Start ==
    /\ w.pc = "check" /\ ~StaleEntry
    /\ w' = [w EXCEPT !.pc = "partition", !.left = Provider]
    /\ UNCHANGED <<callerVars, jobVars, tableVars, queue>>

\* Ask the explorers that are not rate-limited now, keep the others for later.
Partition ==
    /\ w.pc = "partition" /\ lock = None
    /\ w' = [w EXCEPT !.pc = "ask", !.ready = w.left \ limited,
                      !.left = w.left \intersect limited]
    /\ UNCHANGED <<callerVars, jobVars, tableVars, queue>>

\* An answer, or an exception that is not an explorer's failure (a reply of an
\* unexpected shape), ends the lookup.
AskEnds(verdict) ==
    /\ w.pc = "ask" /\ w.ready # {}
    /\ w' = [w EXCEPT !.pc = "settle", !.verdict = verdict]
    /\ UNCHANGED <<callerVars, jobVars, tableVars, queue>>

\* An explorer that answers "rate limited" starts its cooldown and is not asked again
\* for this job.
AskFailed(answer) ==
    /\ w.pc = "ask"
    /\ answer = "limited" => lock = None
    /\ \E p \in w.ready :
           /\ \A q \in w.ready : p <= q
           /\ limited' = IF answer = "limited" THEN limited \union {p} ELSE limited
           /\ w' = [w EXCEPT !.ready = @ \ {p}, !.said = Append(@, answer)]
    /\ UNCHANGED <<callerVars, jobVars, pending, negative, latest, queue>>

Hear(answer) ==
    \/ answer \in Failure /\ AskFailed(answer)
    \/ answer = "found" /\ AskEnds("found")
    \/ answer = "crash" /\ AskEnds("error")

Sleep ==
    /\ w.pc = "ask" /\ w.ready = {} /\ w.left # {}
    /\ w' = [w EXCEPT !.pc = "sleep"]
    /\ UNCHANGED <<callerVars, jobVars, tableVars, queue>>

AwakeFromSleep ==
    /\ w.pc = "sleep" /\ w.left \ limited # {}
    /\ w' = [w EXCEPT !.pc = "partition"]
    /\ UNCHANGED <<callerVars, jobVars, tableVars, queue>>

\* Variant: whatever was answered first is reported.
IsVerdict_First(v, answers) == v = answers[1]

\* The error fetch_abi raises: the last answer that is not "not found", if any.
IsVerdict(v, answers) ==
    LET Bad == {i \in 1 .. Len(answers) : answers[i] # "notfound"} IN
    \/ Bad = {} /\ v = "notfound"
    \/ \E i \in Bad : v = answers[i] /\ \A k \in Bad : k <= i

GiveUp ==
    /\ w.pc = "ask" /\ w.ready = {} /\ w.left = {}
    /\ \E v \in Failure :
           IsVerdict(v, w.said) /\ w' = [w EXCEPT !.pc = "settle", !.verdict = v]
    /\ UNCHANGED <<callerVars, jobVars, tableVars, queue>>

\* Variant: callbacks also run when the lookup failed.
Settle_AlwaysCalls ==
    /\ w.pc = "settle"
    /\ outcome' = [outcome EXCEPT ![w.job] = w.verdict]
    /\ callbacks' = [callbacks EXCEPT ![w.job] = {}]
    /\ w' = [w EXCEPT !.pc = "call", !.toCall = callbacks[w.job]]
    /\ UNCHANGED <<callerVars, priority, tableVars, queue>>

\* set_result or set_error, under the job's lock; waiters run from here on.
Settle ==
    /\ w.pc = "settle"
    /\ outcome' = [outcome EXCEPT ![w.job] = w.verdict]
    /\ callbacks' = [callbacks EXCEPT ![w.job] = {}]
    /\ w' = IF w.verdict = "found"
            THEN [w EXCEPT !.pc = "call", !.toCall = callbacks[w.job]]
            ELSE [w EXCEPT !.pc = "record"]
    /\ UNCHANGED <<callerVars, priority, tableVars, queue>>

\* One callback after the other, outside every lock.
Call(c) ==
    /\ w.pc = "call" /\ c \in w.toCall
    /\ told' = [told EXCEPT ![c] = @ + 1]
    /\ w' = [w EXCEPT !.toCall = @ \ {c}]
    /\ UNCHANGED <<at, mine, lock, jobVars, tableVars, queue>>

\* The negative answer is remembered unless the job was forced or superseded.
Record ==
    /\ w.pc = "record" /\ lock = None
    /\ negative' = IF /\ pending[KeyOf(w.job)] = w.job
                      /\ ~Asks[w.job].forced /\ w.verdict = "notfound"
                   THEN negative \union {KeyOf(w.job)} ELSE negative
    /\ w' = [w EXCEPT !.pc = "pop"]
    /\ UNCHANGED <<callerVars, jobVars, pending, limited, latest, queue>>

Finished == w.pc = "pop" \/ (w.pc = "call" /\ w.toCall = {})

\* Variant: the entry is removed even if another job has taken it over.
Pop_Any ==
    /\ Finished /\ lock = None
    /\ pending' = [pending EXCEPT ![KeyOf(w.job)] = None]
    /\ w' = Unoccupied("get")
    /\ UNCHANGED <<callerVars, jobVars, negative, limited, latest, queue>>

\* The finally of _run_job.
Pop ==
    /\ Finished /\ lock = None
    /\ pending' = [pending EXCEPT ![KeyOf(w.job)] = IF @ = w.job THEN None ELSE @]
    /\ w' = Unoccupied("get")
    /\ UNCHANGED <<callerVars, jobVars, negative, limited, latest, queue>>

-----------------------------------------------------------------------------
(* Time.                                                                    *)

CooldownEnds(p) ==
    /\ p \in limited /\ limited' = limited \ {p}
    /\ UNCHANGED <<callerVars, jobVars, pending, negative, latest, queue, w>>

NegativeExpires(k) ==
    /\ k \in negative /\ negative' = negative \ {k}
    /\ UNCHANGED <<callerVars, jobVars, pending, limited, latest, queue, w>>

Fetch(c) == FetchShared(c) \/ FetchNegative(c) \/ FetchNew(c)

Proceed(c) == Attach(c) \/ KeepPriority(c) \/ RaiseShared(c) \/ Put(c) \/ Wait(c)

Work ==
    \/ Get \/ Skip \/ Start \/ Partition
    \/ (\E answer \in Answers : Hear(answer))
    \/ Sleep \/ AwakeFromSleep \/ GiveUp
    \/ Settle \/ (\E c \in Caller : Call(c)) \/ Record \/ Pop

Next ==
    \/ \E c \in Caller : Fetch(c) \/ Proceed(c) \/ RaiseToWait(c)
    \/ Work
    \/ \E p \in Provider : CooldownEnds(p)
    \/ \E k \in Key : NegativeExpires(k)

Spec == Init /\ [][Next]_vars

\* The worker is a daemon thread that never exits, explorers answer one way or the
\* other, cooldowns end, and a caller inside fetch_abi goes on.
Fairness ==
    /\ WF_vars(Work)
    /\ \A c \in Caller : WF_vars(Proceed(c))
    /\ \A p \in Provider : WF_vars(CooldownEnds(p))

FairSpec == Spec /\ Fairness

-----------------------------------------------------------------------------
(* Safety.                                                                  *)

\* An open job is never lost: it is queued at its current priority, or the worker has
\* it, or somebody is about to queue it.  Raising a priority invalidates the entry that
\* is in the queue, perhaps while the worker is just looking at it.
NeverLost ==
    \A j \in Job : outcome[j] = "open" =>
        \/ \E i \in 1 .. Len(queue[priority[j]]) : queue[priority[j]][i] = j
        \/ w.job = j /\ w.pc \in {"partition", "ask", "sleep", "settle"}
        \/ w.job = j /\ w.pc = "check" /\ w.prio = priority[j]
        \/ \E c \in Caller : at[c] = "put" /\ mine[c] = j

\* A finished job is never run again by a stale queue entry: what its waiters were
\* given does not change.
OutcomeSticks ==
    [][\A j \in Job : Done(j) => outcome'[j] = outcome[j]]_vars

\* As long as the newest lookup of a key is running, callers find it in the pending
\* table: the end of an older, superseded lookup must not remove it.
PendingIsLatest ==
    \A k \in Key : latest[k] # None /\ ~Done(latest[k]) => pending[k] = latest[k]

\* An on_success callback runs at most once, and only for a lookup that succeeded, also
\* when it is attached while the worker is finishing the job.
CalledOnce ==
    \A c \in Caller : told[c] <= 1 /\ (told[c] = 1 => outcome[mine[c]] = "found")

\* "Not found" is remembered only on the word of every explorer, by the newest lookup
\* of the key, and not by a forced one.
NegativeIsEarned ==
    [][\A k \in negative' \ negative :
           /\ latest[k] = w.job /\ ~Asks[w.job].forced
           /\ w.said = [i \in 1 .. NumProviders |-> "notfound"]]_vars

-----------------------------------------------------------------------------
(* Liveness.                                                                *)

\* Every caller gets an answer, whatever it shares, however priorities are raised and
\* however many explorers are cooling down.
EveryoneIsAnswered == \A c \in Caller : at[c] # "idle" ~> at[c] = "answered"

\* Every caller that asked to be told of a successful lookup is told.
SuccessIsTold ==
    \A c \in Caller :
        (at[c] = "answered" /\ Asks[c].notify /\ outcome[mine[c]] = "found")
            ~> told[c] = 1
=============================================================================
