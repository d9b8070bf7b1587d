---------------------------- MODULE ContractAbi ----------------------------
(***************************************************************************)
(* How a Contract gets its ABI (contract.py): from the caller, from the    *)
(* metadata cache, or lazily from an explorer lookup that was started by   *)
(* the constructor; and, for a proxy, merged with the ABI of a second,     *)
(* nested Contract for the implementation.                                 *)
(*                                                                         *)
(* Three kinds of actors write the same Contract: the constructor          *)
(* ("new"), the lookup worker running on_success ("callback"), and the     *)
(* threads that read contract.abi.  Each of them may create the nested     *)
(* Contract, which is then named <<contract, actor>>.  The cache outlives  *)
(* the process.                                                            *)
(*                                                                         *)
(* An ABI is the set of its parts: who described which address.  The       *)
(* lookup itself is AbiLookup's; here it ends in any of its outcomes, and  *)
(* callbacks run in any order.  A proxy's implementation is not a proxy.   *)
(***************************************************************************)
EXTENDS Naturals, Sequences

CONSTANTS
    Addr,           \* contract addresses
    ImplOf,         \* the implementation explorers report for each address
    Obj,            \* Contract objects made by callers
    Arguments,      \* the constructor arguments callers use for each
    Reader, ReadOf, \* threads, and the Contract whose abi each one reads
    None            \* Python's None

ArgumentType ==
    [addr : Addr, explicit : BOOLEAN, implementation : Addr \union {"auto", "off"},
     refresh : {"force", "never", "default"}]

ASSUME ArgumentAssumption ==
    /\ Arguments \in [Obj -> SUBSET ArgumentType]
    /\ ReadOf \in [Reader -> Obj]
ASSUME WorldAssumption ==
    /\ ImplOf \in [Addr -> Addr \union {None}]
    /\ \A a \in Addr : ImplOf[a] # None => ImplOf[ImplOf[a]] = None
    /\ \A o \in Obj : \A g \in Arguments[o] :
           g.implementation \in Addr => ImplOf[g.implementation] = None

Actor(o) == {"new", "callback"} \union {r \in Reader : ReadOf[r] = o}
Object == Obj \union UNION {{<<o, actor>> : actor \in Actor(o)} : o \in Obj}
Part == {"explorer", "user"} \X Addr
Abi == SUBSET Part
Failure == {"notfound", "error"}

\* None is no other value, and a Contract made by a caller is not a nested one.
ASSUME NoneAssumption == None \notin Addr \union Object /\ \A abi \in Abi : abi # None
ASSUME NameAssumption ==
    /\ {"auto", "off"} \intersect Addr = {} /\ {"new", "callback"} \intersect Reader = {}
    /\ \A o \in Obj : \A actor \in Actor(o) : <<o, actor>> \notin Obj

VARIABLES
    con,            \* each Contract, its _ContractState and its lookup
    cache,          \* AddressMetadataCache: the two entries of each address
    frames,         \* each reader's stack of __getattr__ calls
    answer          \* how its last read of abi ended

vars == <<con, cache, frames, answer>>

ContractType ==
    [phase : {"absent", "looked", "starting", "creating", "created", "ready"},
     args : ArgumentType \union {None},
     seen : Abi \union {None},              \* cached_abi in the constructor
     abi_job : BOOLEAN,                     \* is not None
     outcome : Failure \union {"none", "open", "found"},
     proxy_abi : Abi \union {None},
     implementation : Addr \union {None},
     implementation_contract : Object \union {None},
     abi : Abi \union {None},               \* the attribute, once installed
     callback : {"idle", "abi", "implementation", "adopt", "start", "create"}]

FrameType ==
    [obj : Object, got : Abi,
     at : {"enter", "resolve", "job", "wait", "adopt", "clear", "combine", "create",
           "inner", "overlay"}]

TypeOK ==
    /\ con \in [Object -> ContractType]
    /\ cache \in [Addr -> [abi : Abi \union {None}, implementation : Addr \union {None}]]
    /\ frames \in [Reader -> Seq(FrameType)]
    /\ \A r \in Reader : Len(frames[r]) <= 2
    /\ answer \in [Reader -> Failure \union {"none", "abi", "missing"}]

Absent ==
    [phase |-> "absent", args |-> None, seen |-> None, abi_job |-> FALSE,
     outcome |-> "none", proxy_abi |-> None, implementation |-> None,
     implementation_contract |-> None, abi |-> None, callback |-> "idle"]

Init ==
    /\ con = [o \in Object |-> Absent]
    /\ frames = [r \in Reader |-> <<>>]
    /\ answer = [r \in Reader |-> "none"]
    /\ cache = [a \in Addr |-> [abi |-> None, implementation |-> None]]

Described(source, a) == {<<source, a>>}

\* AddressMetadataCache.get and set; set rewrites one entry of the address's document
\* and keeps the other, under the database lock.
Cached(a, key) == cache[a][key]
Store(a, key, value) == cache' = [cache EXCEPT ![a][key] = value]

Forced(g) == g.implementation \in Addr
Address(o) == con[o].args.addr

-----------------------------------------------------------------------------
(* The constructor.                                                         *)

\* Up to the first read of the cache; an explicit ABI is installed before it.
Opened(g) ==
    [Absent EXCEPT !.phase = "looked", !.args = g,
                   !.abi = IF g.explicit THEN Described("user", g.addr) ELSE None,
                   !.seen = IF g.refresh = "force" THEN None ELSE Cached(g.addr, "abi")]

Construct(o, g) ==
    /\ o \in Obj /\ con[o].phase = "absent"
    /\ con' = [con EXCEPT ![o] = Opened(g)]
    /\ UNCHANGED <<cache, frames, answer>>

\* An explicit ABI is cached unless there is one, or in any case on refresh.
KeepExplicit(o) ==
    /\ con[o].phase = "looked" /\ con[o].args.explicit
    /\ con' = [con EXCEPT ![o].phase = "ready"]
    /\ IF con[o].args.refresh # "never" /\ con[o].seen = None
       THEN Store(Address(o), "abi", con[o].abi) ELSE UNCHANGED cache
    /\ UNCHANGED <<frames, answer>>

\* Variant: the cached implementation is used also when proxies are disabled.
CachedImplementation_Always(o) ==
    IF Forced(con[o].args) THEN con[o].args.implementation
    ELSE Cached(Address(o), "implementation")

\* Variant: implementation=False is not normalised to None.
CachedImplementation_Raw(o) ==
    IF con[o].args.implementation = "auto" THEN Cached(Address(o), "implementation")
    ELSE con[o].args.implementation

\* The second read of the cache.
CachedImplementation(o) ==
    CASE Forced(con[o].args) -> con[o].args.implementation
      [] con[o].args.implementation = "auto" -> Cached(Address(o), "implementation")
      [] OTHER -> None

FromCache(o) ==
    /\ con[o].phase = "looked" /\ ~con[o].args.explicit /\ con[o].seen # None
    /\ con' = [con EXCEPT ![o] =
           IF CachedImplementation(o) = None
           THEN [@ EXCEPT !.abi = con[o].seen, !.phase = "ready"]
           ELSE [@ EXCEPT !.proxy_abi = con[o].seen, !.phase = "starting",
                          !.implementation = CachedImplementation(o)]]
    /\ UNCHANGED <<cache, frames, answer>>

Uncached(o) == con[o].phase = "looked" /\ ~con[o].args.explicit /\ con[o].seen = None

\* refresh_abi=False and nothing cached.
Unavailable(o) ==
    /\ Uncached(o) /\ con[o].args.refresh = "never"
    /\ con' = [con EXCEPT ![o].phase = "ready"]
    /\ UNCHANGED <<cache, frames, answer>>

\* A forced implementation is looked up first.
UseForced(o) ==
    /\ Uncached(o) /\ con[o].args.refresh # "never" /\ Forced(con[o].args)
    /\ con' = [con EXCEPT ![o].implementation = con[o].args.implementation,
                          ![o].phase = "starting"]
    /\ UNCHANGED <<cache, frames, answer>>

\* The last step of the constructor; a lookup unless the ABI was cached.
Fetch(o) ==
    /\ \/ Uncached(o) /\ con[o].args.refresh # "never" /\ ~Forced(con[o].args)
       \/ con[o].phase = "created" /\ con[o].proxy_abi = None
    /\ con' = [con EXCEPT ![o].abi_job = TRUE, ![o].outcome = "open",
                          ![o].phase = "ready"]
    /\ UNCHANGED <<cache, frames, answer>>

FinishCached(o) ==
    /\ con[o].phase = "created" /\ con[o].proxy_abi # None
    /\ con' = [con EXCEPT ![o].phase = "ready"]
    /\ UNCHANGED <<cache, frames, answer>>

-----------------------------------------------------------------------------
(* The lookup (AbiLookup) and on_success, which caches the answer.          *)

\* What the explorer adds about proxies, if it was asked to (resolve_proxy).
Reported(o) == IF con[o].args.implementation = "auto" THEN ImplOf[Address(o)] ELSE None

Settle(o, verdict) ==
    /\ con[o].outcome = "open"
    /\ con' = [con EXCEPT ![o].outcome = verdict,
                          ![o].callback = IF verdict = "found" THEN "abi" ELSE "idle"]
    /\ UNCHANGED <<cache, frames, answer>>

\* Variant: of a proxy the implementation is cached instead of the ABI.
CacheAbi_OneEntry(o) ==
    /\ con[o].callback = "abi"
    /\ IF Reported(o) = None THEN Store(Address(o), "abi", Described("explorer", Address(o)))
       ELSE Store(Address(o), "implementation", Reported(o))
    /\ con' = [con EXCEPT ![o].callback =
                   IF Reported(o) = None THEN "idle" ELSE "implementation"]
    /\ UNCHANGED <<frames, answer>>

CacheAbi(o) ==
    /\ con[o].callback = "abi"
    /\ Store(Address(o), "abi", Described("explorer", Address(o)))
    /\ con' = [con EXCEPT ![o].callback =
                   IF Reported(o) = None THEN "idle" ELSE "implementation"]
    /\ UNCHANGED <<frames, answer>>

CacheImplementation(o) ==
    /\ con[o].callback = "implementation"
    /\ Store(Address(o), "implementation", Reported(o))
    /\ con' = [con EXCEPT ![o].callback = "adopt"]
    /\ UNCHANGED <<frames, answer>>

\* Only the first one to learn of the implementation acts on it.
CallbackAdopts(o) ==
    /\ con[o].callback = "adopt"
    /\ con' = [con EXCEPT ![o] =
           IF @.implementation = None
           THEN [@ EXCEPT !.implementation = Reported(o), !.callback = "start"]
           ELSE [@ EXCEPT !.callback = "idle"]]
    /\ UNCHANGED <<cache, frames, answer>>

-----------------------------------------------------------------------------
(* Readers: __getattr__ and _resolve_abi.                                   *)

Top(r) == frames[r][Len(frames[r])]
At(r, where) == frames[r] # <<>> /\ Top(r).at = where
Enter(o) == [obj |-> o, got |-> {}, at |-> "enter"]
GoTo(r, where) == frames' = [frames EXCEPT ![r][Len(frames[r])].at = where]

Read(r) ==
    /\ frames[r] = <<>> /\ con[ReadOf[r]].phase = "ready"
    /\ frames' = [frames EXCEPT ![r] = <<Enter(ReadOf[r])>>]
    /\ UNCHANGED <<con, cache, answer>>

\* The attribute is there: to the caller, or to the __getattr__ of the proxy.
Return(r) ==
    /\ At(r, "enter") /\ con[Top(r).obj].abi # None
    /\ IF Len(frames[r]) = 1
       THEN /\ frames' = [frames EXCEPT ![r] = <<>>]
            /\ answer' = [answer EXCEPT ![r] = "abi"]
       ELSE /\ frames' = [frames EXCEPT ![r] =
                   <<[@[1] EXCEPT !.at = "overlay", !.got = con[Top(r).obj].abi]>>]
            /\ UNCHANGED answer
    /\ UNCHANGED <<con, cache>>

\* An exception leaves every frame.
Raise(r, what) ==
    /\ frames' = [frames EXCEPT ![r] = <<>>]
    /\ answer' = [answer EXCEPT ![r] = what]

\* Variant: only the job is looked at.
Unresolvable_JobOnly(o) == ~con[o].abi_job

Unresolvable(o) == ~con[o].abi_job /\ con[o].proxy_abi = None

\* AttributeError: no ABI, and nothing to get one from.
Missing(r) ==
    /\ \/ At(r, "enter") /\ con[Top(r).obj].abi = None /\ Unresolvable(Top(r).obj)
       \/ At(r, "job") /\ ~con[Top(r).obj].abi_job
    /\ Raise(r, "missing")
    /\ UNCHANGED <<con, cache>>

Resolve(r) ==
    /\ At(r, "enter") /\ con[Top(r).obj].abi = None /\ ~Unresolvable(Top(r).obj)
    /\ GoTo(r, "resolve")
    /\ UNCHANGED <<con, cache, answer>>

CheckProxy(r) ==
    /\ At(r, "resolve")
    /\ GoTo(r, IF con[Top(r).obj].proxy_abi = None THEN "job" ELSE "combine")
    /\ UNCHANGED <<con, cache, answer>>

CheckJob(r) ==
    /\ At(r, "job") /\ con[Top(r).obj].abi_job
    /\ GoTo(r, "wait")
    /\ UNCHANGED <<con, cache, answer>>

TakeResult(r) ==
    /\ At(r, "wait") /\ con[Top(r).obj].outcome = "found"
    /\ con' = [con EXCEPT ![Top(r).obj].proxy_abi =
                   Described("explorer", Address(Top(r).obj))]
    /\ GoTo(r, "adopt")
    /\ UNCHANGED <<cache, answer>>

\* A proxy without an ABI of its own has at least its implementation's.
TakeNotFound(r) ==
    /\ At(r, "wait") /\ con[Top(r).obj].outcome = "notfound"
    /\ con[Top(r).obj].implementation # None
    /\ con' = [con EXCEPT ![Top(r).obj].proxy_abi = {}]
    /\ GoTo(r, "clear")
    /\ UNCHANGED <<cache, answer>>

\* The exception passes through the finally, which forgets the job.
TakeFailure(r) ==
    /\ At(r, "wait") /\ con[Top(r).obj].outcome \in Failure
    /\ \/ con[Top(r).obj].outcome = "error"
       \/ con[Top(r).obj].implementation = None
    /\ con' = [con EXCEPT ![Top(r).obj].abi_job = FALSE]
    /\ Raise(r, con[Top(r).obj].outcome)
    /\ UNCHANGED cache

\* Variant: the implementation is left to the callback.
ReaderAdopts_Never(r) ==
    /\ At(r, "adopt") /\ GoTo(r, "clear")
    /\ UNCHANGED <<con, cache, answer>>

ReaderAdopts(r) ==
    /\ At(r, "adopt") /\ GoTo(r, "clear")
    /\ con' = [con EXCEPT ![Top(r).obj].implementation =
                   IF @ = None THEN Reported(Top(r).obj) ELSE @]
    /\ UNCHANGED <<cache, answer>>

ClearJob(r) ==
    /\ At(r, "clear") /\ GoTo(r, "combine")
    /\ con' = [con EXCEPT ![Top(r).obj].abi_job = FALSE]
    /\ UNCHANGED <<cache, answer>>

\* _install_abi: the attribute abi; the methods come with it.
Install(o, parts) == con' = [con EXCEPT ![o].abi = parts]

\* overlay_abi: every function of either, the proxy's where both have it.
Overlay(implementationAbi, proxyAbi) == implementationAbi \union proxyAbi

\* Variant: the ABI is not left on the object.
InstallPlain_Nowhere(r) ==
    /\ At(r, "combine") /\ con[Top(r).obj].implementation = None
    /\ GoTo(r, "enter")
    /\ UNCHANGED <<con, cache, answer>>

\* Installed; then the attribute is read the normal way.
InstallPlain(r) ==
    /\ At(r, "combine") /\ con[Top(r).obj].implementation = None
    /\ Install(Top(r).obj, con[Top(r).obj].proxy_abi)
    /\ GoTo(r, "enter")
    /\ UNCHANGED <<cache, answer>>

\* implementation_contract.abi: the same again on the nested Contract.
Descend(r) ==
    /\ At(r, "combine")
    /\ LET inner == con[Top(r).obj].implementation_contract IN
       /\ inner # None
       /\ frames' = [frames EXCEPT ![r] =
              Append([@ EXCEPT ![Len(frames[r])].at = "inner"], Enter(inner))]
    /\ UNCHANGED <<con, cache, answer>>

InstallOverlay(r) ==
    /\ At(r, "overlay")
    /\ Install(Top(r).obj, Overlay(Top(r).got, con[Top(r).obj].proxy_abi))
    /\ GoTo(r, "enter")
    /\ UNCHANGED <<cache, answer>>

-----------------------------------------------------------------------------
(* _start_implementation_lookup, by each of the three kinds of actors: make *)
(* the nested Contract (its constructor runs step by step like any other),  *)
(* then publish it.  Whoever sees one published does not make another.      *)

NestedArguments(o) ==
    [addr |-> con[o].implementation, explicit |-> FALSE, implementation |-> "auto",
     refresh |-> con[o].args.refresh]

NewCreates(o) ==
    /\ o \in Obj /\ con[o].phase = "starting"
    /\ con' = [con EXCEPT ![o].phase = "creating",
                          ![<<o, "new">>] = Opened(NestedArguments(o))]
    /\ UNCHANGED <<cache, frames, answer>>

NewCreated(o) ==
    /\ o \in Obj /\ con[o].phase = "creating" /\ con[<<o, "new">>].phase = "ready"
    /\ con' = [con EXCEPT ![o].phase = "created",
                          ![o].implementation_contract = <<o, "new">>]
    /\ UNCHANGED <<cache, frames, answer>>

CallbackSkips(o) ==
    /\ con[o].callback = "start" /\ con[o].implementation_contract # None
    /\ con' = [con EXCEPT ![o].callback = "idle"]
    /\ UNCHANGED <<cache, frames, answer>>

CallbackCreates(o) ==
    /\ o \in Obj
    /\ con[o].callback = "start" /\ con[o].implementation_contract = None
    /\ con' = [con EXCEPT ![o].callback = "create",
                          ![<<o, "callback">>] = Opened(NestedArguments(o))]
    /\ UNCHANGED <<cache, frames, answer>>

CallbackCreated(o) ==
    /\ o \in Obj
    /\ con[o].callback = "create" /\ con[<<o, "callback">>].phase = "ready"
    /\ con' = [con EXCEPT ![o].callback = "idle",
                          ![o].implementation_contract = <<o, "callback">>]
    /\ UNCHANGED <<cache, frames, answer>>

ReaderCreates(r) ==
    /\ At(r, "combine") /\ Top(r).obj \in Obj
    /\ con[Top(r).obj].implementation # None
    /\ con[Top(r).obj].implementation_contract = None
    /\ con' = [con EXCEPT ![<<Top(r).obj, r>>] = Opened(NestedArguments(Top(r).obj))]
    /\ GoTo(r, "create")
    /\ UNCHANGED <<cache, answer>>

ReaderCreated(r) ==
    /\ At(r, "create") /\ con[<<Top(r).obj, r>>].phase = "ready"
    /\ con' = [con EXCEPT ![Top(r).obj].implementation_contract = <<Top(r).obj, r>>]
    /\ GoTo(r, "combine")
    /\ UNCHANGED <<cache, answer>>

-----------------------------------------------------------------------------
\* The process ends at any moment and starts again; the cache file stays.
Restart ==
    /\ con' = [o \in Object |-> Absent]
    /\ frames' = [r \in Reader |-> <<>>]
    /\ answer' = [r \in Reader |-> "none"]
    /\ UNCHANGED cache

Constructor(o) ==
    \/ KeepExplicit(o) \/ FromCache(o) \/ Unavailable(o) \/ UseForced(o) \/ Fetch(o)
    \/ FinishCached(o) \/ NewCreates(o) \/ NewCreated(o)

Worker(o) ==
    \/ \E verdict \in Failure \union {"found"} : Settle(o, verdict)
    \/ CacheAbi(o) \/ CacheImplementation(o) \/ CallbackAdopts(o)
    \/ CallbackSkips(o) \/ CallbackCreates(o) \/ CallbackCreated(o)

GetAttribute(r) ==
    \/ Return(r) \/ Missing(r) \/ Resolve(r) \/ CheckProxy(r) \/ CheckJob(r)
    \/ TakeResult(r) \/ TakeNotFound(r) \/ TakeFailure(r) \/ ReaderAdopts(r)
    \/ ClearJob(r) \/ InstallPlain(r) \/ Descend(r) \/ InstallOverlay(r)
    \/ ReaderCreates(r) \/ ReaderCreated(r)

Next ==
    \/ \E o \in Obj : \E g \in Arguments[o] : Construct(o, g)
    \/ \E o \in Object : Constructor(o) \/ Worker(o)
    \/ \E r \in Reader : Read(r) \/ GetAttribute(r)
    \/ Restart

Spec == Init /\ [][Next]_vars

\* Constructors and readers run on, and the one worker thread answers every lookup one
\* way or the other (AbiLookup's EveryoneIsAnswered).
Fairness ==
    /\ WF_vars(\E o \in Object : Constructor(o))
    /\ WF_vars(\E o \in Object : Worker(o))
    /\ \A r \in Reader : WF_vars(GetAttribute(r))

FairSpec == Spec /\ Fairness

-----------------------------------------------------------------------------
(* Properties.                                                              *)

Covers(abi, a) == \E source \in {"explorer", "user"} : <<source, a>> \in abi

\* The cache only ever holds what was said of the address itself: never a merged ABI,
\* never an implementation some caller forced, and no implementation without the ABI
\* it belongs to, whenever the process dies (_cache_abi_result, __init__).
CacheIsSound ==
    \A a \in Addr :
        /\ cache[a].abi \in {None, Described("explorer", a), Described("user", a)}
        /\ cache[a].implementation # None =>
               cache[a].implementation = ImplOf[a] /\ cache[a].abi # None

\* Whatever the cache, the explorers and the other Contracts of the address did, an
\* installed ABI obeys the arguments: an explicit one is left alone, a forced
\* implementation is in it and no other, with proxies disabled there is none, and a
\* forced refresh shows nothing from the cache.
ArgumentsAreObeyed ==
    \A o \in Obj : con[o].abi # None =>
        LET g == con[o].args IN
        IF g.explicit THEN con[o].abi = Described("user", g.addr)
        ELSE /\ Forced(g) => Covers(con[o].abi, g.implementation)
             /\ \A a \in Addr : Covers(con[o].abi, a) =>
                    \/ a = g.addr
                    \/ a = g.implementation
                    \/ g.implementation = "auto" /\ a = ImplOf[g.addr]
             /\ g.refresh = "force" => \A part \in con[o].abi : part[1] = "explorer"

\* A Contract that looked its own address up and was told of an implementation never
\* installs the proxy's ABI alone, although the reader and the callback race to say so.
ProxyIsOverlaid ==
    \A o \in Obj :
        /\ con[o].outcome = "found" /\ con[o].args.implementation = "auto"
        /\ ImplOf[Address(o)] # None /\ con[o].abi # None
        => Covers(con[o].abi, ImplOf[Address(o)])

Failed(o) == con[o].outcome \in Failure

\* AttributeError is raised only when explorers may not be asked, or when a lookup of
\* the Contract or of its implementation has failed: never while one is under way.
MissingIsEarned ==
    \A r \in Reader : answer[r] = "missing" =>
        LET o == ReadOf[r] IN
        \/ con[o].args.refresh = "never" \/ Failed(o)
        \/ \E actor \in Actor(o) : Failed(<<o, actor>>)

\* Reading abi always ends, nested Contract included.
EveryReadEnds == \A r \in Reader : frames[r] # <<>> ~> frames[r] = <<>>

\* README: "Proxy handling is automatic when explorer metadata identifies the address
\* as a proxy".  The ABI and the implementation are cached one after the other, so a
\* Contract made in between takes the proxy for a plain contract.
ProxyIsAutomatic ==
    \A o \in Obj :
        /\ con[o].phase = "ready" /\ ~con[o].args.explicit
        /\ con[o].args.implementation = "auto"
        /\ ImplOf[Address(o)] # None /\ con[o].abi # None
        => Covers(con[o].abi, ImplOf[Address(o)])
=============================================================================
