------------------------- MODULE ContractAbiProofs -------------------------
(***************************************************************************)
(* What a Contract's ABI is made of, proved for any number of Contracts,   *)
(* addresses and reading threads: whatever their constructors, callbacks   *)
(* and readers do to each other, the cache and the arguments are obeyed.   *)
(* For a Contract that one thread reads, also: a proxy is never shown      *)
(* without its implementation, and no ABI is missing without a reason.     *)
(***************************************************************************)
EXTENDS ContractAbi, TLAPS

\* The one implementation a Contract with these arguments may have.
Told(g) ==
    IF Forced(g) THEN g.implementation
    ELSE IF g.implementation = "auto" THEN ImplOf[g.addr] ELSE None

\* What may be said of the Contract's own address.
Own(g) ==
    {Described("explorer", g.addr)}
        \union (IF g.refresh = "force" THEN {} ELSE {Described("user", g.addr)})

\* The arguments: what they lead to is not a proxy.
ArgumentsFit(g) ==
    /\ g \in ArgumentType
    /\ Told(g) # None => Told(g) \in Addr /\ ImplOf[Told(g)] = None

\* An explicit ABI is all there is.
ExplicitAlone(c) ==
    c.args.explicit =>
        /\ c.phase \in {"looked", "ready"} /\ c.abi = Described("user", c.args.addr)
        /\ ~c.abi_job /\ c.outcome = "none" /\ c.callback = "idle"
        /\ c.proxy_abi = None /\ c.implementation = None

\* Parts of the ABI before it is installed.
PartsFit(c) ==
    /\ c.phase = "looked" => c.proxy_abi = None
    /\ c.seen # None => c.seen \in Own(c.args)
    /\ c.proxy_abi # None =>
           c.proxy_abi \in Own(c.args) \/ (c.proxy_abi = {} /\ c.implementation # None)

\* The implementation, and the places where there must be one.
ImplementationFits(c) ==
    /\ c.implementation \in {None, Told(c.args)}
    /\ c.phase = "looked" => c.implementation = None
    /\ c.phase \in {"starting", "creating", "created"} => c.implementation # None
    /\ c.implementation_contract # None => c.implementation # None
    /\ Forced(c.args) /\ ~c.args.explicit /\ c.implementation = None =>
           /\ c.proxy_abi = None /\ c.abi = None
           /\ ~c.abi_job /\ c.outcome = "none"

\* The lookup and its callback.
LookupFits(c) ==
    /\ c.abi_job \/ c.outcome # "none" => c.phase = "ready"
    /\ c.outcome = "open" => c.proxy_abi = None /\ c.abi = None
    /\ c.callback # "idle" => c.outcome = "found"
    /\ c.callback \in {"implementation", "adopt", "start", "create"} =>
           c.args.implementation = "auto" /\ ImplOf[c.args.addr] # None
    /\ c.callback \in {"start", "create"} => c.implementation # None

\* The installed ABI.
InstalledFits(c) ==
    ~c.args.explicit /\ c.abi # None =>
        /\ c.phase = "ready"
        /\ \A part \in c.abi :
               /\ part[2] \in {c.args.addr, Told(c.args)}
               /\ c.args.refresh = "force" => part[1] = "explorer"
        /\ Forced(c.args) => Covers(c.abi, c.args.implementation)
        /\ Told(c.args) = None => c.abi \in Own(c.args)

\* A Contract without ABI or job has been refused a lookup, or had one that failed.
NothingFits(c) ==
    /\ c.phase = "ready" /\ ~c.args.explicit
    /\ c.abi = None /\ c.proxy_abi = None /\ ~c.abi_job
    => c.args.refresh = "never" \/ c.outcome \in Failure

Formed(c) ==
    /\ ArgumentsFit(c.args) /\ ExplicitAlone(c) /\ PartsFit(c) /\ ImplementationFits(c)
    /\ LookupFits(c) /\ InstalledFits(c) /\ NothingFits(c)

Good(c) ==
    /\ c \in ContractType
    /\ IF c.phase = "absent" THEN c = Absent ELSE Formed(c)

Present(o) == con[o].phase # "absent"

\* Nested Contracts are what their owner's implementation calls for, and a published one
\* is ready.  Each actor makes one at most.
NestFits(o) ==
    /\ \A actor \in Actor(o) :
           Present(<<o, actor>>) =>
               con[o].implementation # None /\ con[<<o, actor>>].args = NestedArguments(o)
    /\ con[o].implementation_contract # None =>
           \E actor \in Actor(o) : /\ con[o].implementation_contract = <<o, actor>>
                                   /\ con[<<o, actor>>].phase = "ready"
    /\ con[o].phase = "starting" => ~Present(<<o, "new">>)
    /\ con[o].outcome \in {"none", "open"} => ~Present(<<o, "callback">>)
    /\ con[o].callback \in {"abi", "implementation", "adopt", "start"} =>
           ~Present(<<o, "callback">>)

\* A reader makes one while it is in "create", and publishes it.
ReaderNestFits(r) ==
    LET o == ReadOf[r] IN
    Present(<<o, r>>) =>
        \/ con[o].implementation_contract # None
        \/ Len(frames[r]) = 1 /\ frames[r][1].at = "create"

Taken == {"adopt", "clear", "combine", "create", "inner", "overlay"}

\* A frame is of a Contract that is ready, and past "wait" there is something to install.
FrameFits(f) ==
    /\ con[f.obj].phase = "ready"
    /\ f.at \in Taken => con[f.obj].proxy_abi # None
    /\ f.at \in {"create", "inner", "overlay"} => con[f.obj].implementation # None

\* The first frame is of the Contract that is read, the second of a nested one.
StackFits(r) ==
    LET o == ReadOf[r]
        fs == frames[r]
    IN  /\ fs \in Seq(FrameType) /\ Len(fs) <= 2
        /\ Len(fs) >= 1 => /\ fs[1].obj = o /\ FrameFits(fs[1])
                           /\ fs[1].at = "inner" <=> Len(fs) = 2
                           /\ fs[1].at = "overlay" => fs[1].got \in Own(NestedArguments(o))
        /\ Len(fs) = 2 => /\ \E actor \in Actor(o) : fs[2].obj = <<o, actor>>
                          /\ FrameFits(fs[2])
                          /\ fs[2].at \notin {"create", "inner", "overlay"}

CacheFits ==
    /\ CacheIsSound
    /\ cache \in [Addr -> [abi : Abi \union {None}, implementation : Addr \union {None}]]
    /\ \A o \in Object : con[o].callback = "implementation" => cache[Address(o)].abi # None

Inv ==
    /\ con \in [Object -> ContractType]
    /\ \A o \in Object : Good(con[o])
    /\ \A o \in Obj : NestFits(o)
    /\ frames \in [Reader -> Seq(FrameType)]
    /\ \A r \in Reader : StackFits(r) /\ ReaderNestFits(r)
    /\ CacheFits
    /\ answer \in [Reader -> Failure \union {"none", "abi", "missing"}]

-----------------------------------------------------------------------------
(* Contracts that one thread reads.                                         *)

OneReaderEach == \A r, s \in Reader : ReadOf[r] = ReadOf[s] => r = s

\* Nobody else takes away the job the reader has seen.
JobIsKept ==
    \A r \in Reader : frames[r] # <<>> =>
        /\ Top(r).at = "resolve" =>
               con[Top(r).obj].abi_job \/ con[Top(r).obj].proxy_abi # None
        /\ Top(r).at = "job" => con[Top(r).obj].abi_job

\* An answer with an implementation is used only after the implementation was adopted.
AnswerIsAdopted ==
    \A o \in Obj :
        /\ con[o].outcome = "found" /\ con[o].args.implementation = "auto"
        /\ ImplOf[Address(o)] # None /\ con[o].proxy_abi # None
        /\ con[o].implementation = None
        => \E r \in Reader : /\ ReadOf[r] = o
                             /\ Len(frames[r]) = 1 /\ frames[r][1].at = "adopt"

\* Who has an answer has read a Contract that was ready, and still is.
AnswerIsOfContract ==
    \A r \in Reader : answer[r] # "none" => con[ReadOf[r]].phase = "ready"

OneInv ==
    /\ JobIsKept /\ AnswerIsAdopted /\ AnswerIsOfContract
    /\ ProxyIsOverlaid /\ MissingIsEarned

-----------------------------------------------------------------------------
(* Values.                                                                  *)

USE ArgumentAssumption, NoneAssumption, NameAssumption, WorldAssumption

\* What is said of an address is an ABI, and not an empty one.
LEMMA DescribedAbi ==
    ASSUME NEW a \in Addr, NEW source \in {"explorer", "user"}
    PROVE  /\ Described(source, a) \in Abi
           /\ Described(source, a) # None /\ Described(source, a) # {}
           /\ <<source, a>> \in Described(source, a)
           /\ \A part \in Described(source, a) : part[1] = source /\ part[2] = a
<1>1. Described(source, a) \in Abi
  BY DEF Described, Abi, Part
<1> QED
  BY <1>1 DEF Described

LEMMA OwnAbi ==
    ASSUME NEW g \in ArgumentType, NEW x \in Own(g)
    PROVE  /\ x \in Abi /\ x # None /\ x # {}
           /\ \A part \in x : /\ part[2] = g.addr
                              /\ g.refresh = "force" => part[1] = "explorer"
           /\ Covers(x, g.addr)
<1>1. g.addr \in Addr
  BY DEF ArgumentType
<1>2. PICK source \in {"explorer", "user"} :
          x = Described(source, g.addr) /\ (g.refresh = "force" => source = "explorer")
  BY DEF Own
<1> QED
  BY <1>1, <1>2, DescribedAbi DEF Covers

\* A nested Contract is a Contract of its own.
LEMMA NestedObject ==
    ASSUME NEW o \in Obj, NEW actor \in Actor(o)
    PROVE  <<o, actor>> \in Object /\ <<o, actor>> \notin Obj
<1>1. <<o, actor>> \in {<<o, a>> : a \in Actor(o)}
  OBVIOUS
<1>2. {<<o, a>> : a \in Actor(o)} \in {{<<q, a>> : a \in Actor(q)} : q \in Obj}
  OBVIOUS
<1>3. <<o, actor>> \in UNION {{<<q, a>> : a \in Actor(q)} : q \in Obj}
  BY <1>1, <1>2
<1> QED
  BY <1>3 DEF Object

LEMMA ObjectForm ==
    ASSUME NEW x \in Object, x \notin Obj
    PROVE  \E o \in Obj : \E actor \in Actor(o) : x = <<o, actor>>
  BY DEF Object

LEMMA AbsentGood == Good(Absent) /\ Absent \in ContractType
  BY DEF Good, Absent, ContractType

\* The constructor starts with arguments that fit, and with what the cache has.
LEMMA OpenedGood ==
    ASSUME CacheFits, NEW g, ArgumentsFit(g)
    PROVE  /\ Good(Opened(g)) /\ Opened(g).phase = "looked" /\ Opened(g).args = g
           /\ Opened(g).implementation = None /\ Opened(g).implementation_contract = None
           /\ Opened(g).outcome = "none" /\ Opened(g).callback = "idle"
           /\ Opened(g).proxy_abi = None
<1>1. g \in ArgumentType /\ g.addr \in Addr /\ g.explicit \in BOOLEAN
  BY DEF ArgumentsFit, ArgumentType
<1> DEFINE c == Opened(g)
           abi_ == IF g.explicit THEN Described("user", g.addr) ELSE None
           seen_ == IF g.refresh = "force" THEN None ELSE Cached(g.addr, "abi")
<1>2. abi_ \in Abi \union {None} /\ seen_ \in Abi \union {None}
  BY <1>1, DescribedAbi DEF CacheFits, Cached
<1>3. /\ c \in ContractType
      /\ c.phase = "looked" /\ c.args = g /\ c.seen = seen_ /\ c.abi = abi_
      /\ ~c.abi_job /\ c.outcome = "none" /\ c.callback = "idle"
      /\ c.proxy_abi = None /\ c.implementation = None /\ c.implementation_contract = None
  <2> HIDE DEF abi_, seen_
  <2>1. c = [Absent EXCEPT !.phase = "looked", !.args = g, !.abi = abi_, !.seen = seen_]
    BY DEF Opened, abi_, seen_
  <2>2. c \in ContractType
    BY <1>1, <1>2, <2>1, AbsentGood DEF ContractType
  <2> HIDE DEF c
  <2> QED
    BY <2>1, <2>2 DEF Absent, ContractType
<1>4. seen_ # None => seen_ \in Own(g)
  BY <1>1 DEF CacheFits, CacheIsSound, Cached, Own
<1>5. abi_ # None => g.explicit
  OBVIOUS
<1>6. abi_ = Described("user", g.addr) \/ ~g.explicit
  OBVIOUS
<1> HIDE DEF abi_, seen_, c
<1>8. Formed(c)
  <2>1. ArgumentsFit(c.args) /\ ExplicitAlone(c) /\ PartsFit(c) /\ LookupFits(c)
    BY <1>3, <1>4, <1>6 DEF ExplicitAlone, PartsFit, LookupFits
  <2>2. ImplementationFits(c) /\ InstalledFits(c) /\ NothingFits(c)
    BY <1>3, <1>5 DEF ImplementationFits, InstalledFits, NothingFits
  <2> QED
    BY <2>1, <2>2 DEF Formed
<1>9. Good(c)
  BY <1>3, <1>8 DEF Good
<1> QED
  BY <1>3, <1>9 DEF c

-----------------------------------------------------------------------------
(* What the steps of one Contract do to its record.                         *)

\* A Contract keeps its arguments, its implementation and what it learned.
Grows(c, d) ==
    /\ c.phase # "absent" => d.phase # "absent" /\ d.args = c.args
    /\ c.phase = "ready" => d.phase = "ready"
    /\ c.implementation # None => d.implementation = c.implementation
    /\ c.proxy_abi # None => d.proxy_abi # None
    /\ c.implementation_contract # None => d.implementation_contract # None

USE DEF Good, Formed, ArgumentsFit, ExplicitAlone, PartsFit, ImplementationFits,
        LookupFits, InstalledFits, NothingFits, ContractType, Failure, Grows

LEMMA WhoActsIsPresent ==
    ASSUME NEW c, Good(c), c.outcome # "none" \/ c.callback # "idle" \/ c.abi_job
    PROVE  Formed(c)
  BY DEF Absent

LEMMA KeepExplicitGood ==
    ASSUME NEW c, Good(c), c.phase = "looked", c.args.explicit
    PROVE  LET d == [c EXCEPT !.phase = "ready"] IN Good(d) /\ Grows(c, d)
  OBVIOUS

LEMMA FromCacheGood ==
    ASSUME NEW c, Good(c), c.phase = "looked", ~c.args.explicit, c.seen # None,
           NEW given, given \in {None, Told(c.args)},
           Forced(c.args) => given # None
    PROVE  LET d == IF given = None
                    THEN [c EXCEPT !.abi = c.seen, !.phase = "ready"]
                    ELSE [c EXCEPT !.proxy_abi = c.seen, !.phase = "starting",
                                   !.implementation = given]
           IN  Good(d) /\ Grows(c, d)
<1>1. /\ c.seen \in Abi /\ c.seen \in Own(c.args)
      /\ \A part \in c.seen : /\ part[2] = c.args.addr
                              /\ c.args.refresh = "force" => part[1] = "explorer"
  BY OwnAbi
<1>2. CASE given = None
  BY <1>1, <1>2
<1>3. CASE given # None
  BY <1>1, <1>3
<1> QED
  BY <1>2, <1>3

LEMMA UnavailableGood ==
    ASSUME NEW c, Good(c), c.phase = "looked", ~c.args.explicit, c.args.refresh = "never"
    PROVE  LET d == [c EXCEPT !.phase = "ready"] IN Good(d) /\ Grows(c, d)
  OBVIOUS

LEMMA UseForcedGood ==
    ASSUME NEW c, Good(c), c.phase = "looked", ~c.args.explicit, Forced(c.args)
    PROVE  LET d == [c EXCEPT !.implementation = c.args.implementation,
                              !.phase = "starting"]
           IN  Good(d) /\ Grows(c, d)
<1>1. Told(c.args) = c.args.implementation /\ c.args.implementation # None
  BY DEF Told, Forced
<1> QED
  BY <1>1 DEF Forced

LEMMA FetchGood ==
    ASSUME NEW c, Good(c), ~c.args.explicit,
           \/ c.phase = "looked" /\ ~Forced(c.args)
           \/ c.phase = "created" /\ c.proxy_abi = None
    PROVE  LET d == [c EXCEPT !.abi_job = TRUE, !.outcome = "open", !.phase = "ready"]
           IN  Good(d) /\ Grows(c, d)
  BY ZenonT(60)

LEMMA FinishCachedGood ==
    ASSUME NEW c, Good(c), c.phase = "created", c.proxy_abi # None
    PROVE  LET d == [c EXCEPT !.phase = "ready"] IN Good(d) /\ Grows(c, d)
  OBVIOUS

LEMMA SettleGood ==
    ASSUME NEW c, Good(c), c.outcome = "open", NEW verdict \in Failure \union {"found"}
    PROVE  LET d == [c EXCEPT !.outcome = verdict,
                              !.callback = IF verdict = "found" THEN "abi" ELSE "idle"]
           IN  Good(d) /\ Grows(c, d)
<1>1. Formed(c) /\ c.callback = "idle" /\ ~c.args.explicit
  BY WhoActsIsPresent
<1>2. CASE verdict = "found"
  BY <1>1, <1>2, ZenonT(60)
<1>3. CASE verdict \in Failure
  BY <1>1, <1>3, ZenonT(60)
<1> QED
  BY <1>2, <1>3

\* The callback goes on, with a proxy only after "abi".
LEMMA CallbackGood ==
    ASSUME NEW c, Good(c), c.callback # "idle",
           NEW next \in {"idle", "implementation", "adopt", "start", "create"},
           next # "idle" =>
               c.args.implementation = "auto" /\ ImplOf[c.args.addr] # None,
           next \in {"start", "create"} => c.implementation # None
    PROVE  LET d == [c EXCEPT !.callback = next] IN Good(d) /\ Grows(c, d)
  BY WhoActsIsPresent

\* Whoever learns of the implementation notes the one there is.
LEMMA AdoptGood ==
    ASSUME NEW c, Good(c), c.phase = "ready", ~c.args.explicit, c.implementation = None,
           NEW given \in {None, Told(c.args)}
    PROVE  LET d == [c EXCEPT !.implementation = given] IN Good(d) /\ Grows(c, d)
  OBVIOUS

LEMMA TakeResultGood ==
    ASSUME NEW c, Good(c), c.outcome = "found"
    PROVE  LET d == [c EXCEPT !.proxy_abi = Described("explorer", c.args.addr)]
           IN  Good(d) /\ Grows(c, d)
<1>1. Described("explorer", c.args.addr) \in Own(c.args)
  BY DEF Own
<1>2. Described("explorer", c.args.addr) \in Abi /\ Described("explorer", c.args.addr) # None
  BY <1>1, OwnAbi, WhoActsIsPresent
<1> QED
  BY <1>1, <1>2, WhoActsIsPresent

LEMMA TakeNotFoundGood ==
    ASSUME NEW c, Good(c), c.outcome = "notfound", c.implementation # None
    PROVE  LET d == [c EXCEPT !.proxy_abi = {}] IN Good(d) /\ Grows(c, d)
<1>1. {} \in Abi /\ {} # None
  BY DEF Abi
<1> QED
  BY <1>1, WhoActsIsPresent

LEMMA NoJobGood ==
    ASSUME NEW c, Good(c), c.phase = "ready", c.outcome \in Failure \/ c.proxy_abi # None
    PROVE  LET d == [c EXCEPT !.abi_job = FALSE] IN Good(d) /\ Grows(c, d)
  BY ZenonT(60)

LEMMA InstallPlainGood ==
    ASSUME NEW c, Good(c), c.phase = "ready", c.proxy_abi # None, c.implementation = None
    PROVE  LET d == [c EXCEPT !.abi = c.proxy_abi] IN Good(d) /\ Grows(c, d)
<1>1. c.proxy_abi \in Own(c.args) /\ ~Forced(c.args) /\ ~c.args.explicit
  OBVIOUS
<1>2. /\ c.proxy_abi \in Abi
      /\ \A part \in c.proxy_abi : /\ part[2] = c.args.addr
                                   /\ c.args.refresh = "force" => part[1] = "explorer"
  BY <1>1, OwnAbi
<1> QED
  BY <1>1, <1>2

LEMMA InstallOverlayGood ==
    ASSUME NEW c, Good(c), c.phase = "ready", c.proxy_abi # None, c.implementation # None,
           NEW g \in ArgumentType, g.addr = c.implementation, g.refresh = c.args.refresh,
           NEW got \in Own(g)
    PROVE  LET d == [c EXCEPT !.abi = got \union c.proxy_abi]
           IN  Good(d) /\ Grows(c, d) /\ Covers(d.abi, c.implementation)
<1> DEFINE all == got \union c.proxy_abi
<1>1. ~c.args.explicit /\ c.implementation = Told(c.args)
  OBVIOUS
<1>2. c.proxy_abi = {} \/ c.proxy_abi \in Own(c.args)
  OBVIOUS
<1>3. /\ c.proxy_abi \in Abi
      /\ \A part \in c.proxy_abi : /\ part[2] = c.args.addr
                                   /\ c.args.refresh = "force" => part[1] = "explorer"
  BY <1>2, OwnAbi
<1>4. /\ got \in Abi /\ Covers(got, g.addr)
      /\ \A part \in got : /\ part[2] = c.implementation
                           /\ c.args.refresh = "force" => part[1] = "explorer"
  BY OwnAbi
<1>5. /\ all \in Abi /\ Covers(all, c.implementation)
      /\ \A part \in all : /\ part[2] \in {c.args.addr, Told(c.args)}
                           /\ c.args.refresh = "force" => part[1] = "explorer"
  BY <1>1, <1>3, <1>4 DEF Abi, Covers
<1>6. all # None
  BY <1>5
<1>7. Forced(c.args) => c.args.implementation = c.implementation
  BY <1>1 DEF Told
<1> HIDE DEF all
<1> QED
  BY <1>1, <1>5, <1>6, <1>7, ZenonT(60) DEF all

LEMMA CreatingGood ==
    ASSUME NEW c, Good(c), c.phase = "starting"
    PROVE  LET d == [c EXCEPT !.phase = "creating"] IN Good(d) /\ Grows(c, d)
  OBVIOUS

LEMMA CreatedGood ==
    ASSUME NEW c, Good(c), c.phase = "creating"
    PROVE  LET d == [c EXCEPT !.phase = "created"] IN Good(d) /\ Grows(c, d)
  OBVIOUS

LEMMA PublishedGood ==
    ASSUME NEW c, Good(c), c.implementation # None, NEW x \in Object
    PROVE  LET d == [c EXCEPT !.implementation_contract = x] IN Good(d) /\ Grows(c, d)
  BY DEF Absent

-----------------------------------------------------------------------------
(* What a step of one Contract leaves alone.                                *)

USE DEF Present

\* Every Contract only grew.
AllGrow == \A x \in Object : Grows(con[x], con'[x])

LEMMA NestedGrows ==
    ASSUME Inv, AllGrow, NEW o \in Obj, con[o].implementation # None
    PROVE  /\ con'[o].implementation = con[o].implementation
           /\ con'[o].args = con[o].args
           /\ NestedArguments(o)' = NestedArguments(o)
<1>1. o \in Object /\ Good(con[o]) /\ Grows(con[o], con'[o])
  BY DEF Object, Inv, AllGrow
<1>2. con[o].phase # "absent"
  BY <1>1 DEF Absent
<1> QED
  BY <1>1, <1>2 DEF NestedArguments

\* The stack of a reader that is not at work.
LEMMA StackKept ==
    ASSUME Inv, AllGrow, NEW r \in Reader, frames'[r] = frames[r]
    PROVE  StackFits(r)'
<1> DEFINE o == ReadOf[r]
           fs == frames[r]
<1>1. o \in Obj /\ StackFits(r)
  BY DEF Inv
<1>2. ASSUME NEW f \in FrameType, FrameFits(f) PROVE FrameFits(f)'
  <2>1. f.obj \in Object
    BY <1>2 DEF FrameType
  <2> QED
    BY <1>2, <2>1 DEF FrameFits, AllGrow
<1>3. \A i \in 1 .. Len(fs) : fs[i] \in FrameType
  BY <1>1 DEF StackFits
<1>4. Len(fs) \in Nat
  BY <1>1 DEF StackFits
<1>5. Len(fs) >= 1 /\ fs[1].at = "overlay" => Own(NestedArguments(o))' = Own(NestedArguments(o))
  BY <1>1, NestedGrows DEF StackFits, FrameFits, Own
<1> QED
  BY <1>1, <1>2, <1>3, <1>4, <1>5 DEF StackFits

LEMMA ReaderNestKept ==
    ASSUME Inv, AllGrow, NEW r \in Reader, frames'[r] = frames[r],
           Present(<<ReadOf[r], r>>)' => Present(<<ReadOf[r], r>>)
    PROVE  ReaderNestFits(r)'
<1>1. ReadOf[r] \in Obj /\ ReadOf[r] \in Object /\ ReaderNestFits(r)
  BY DEF Inv, Object
<1> QED
  BY <1>1 DEF ReaderNestFits, AllGrow

\* The nested Contracts of a Contract that makes and publishes none.
LEMMA NestKept ==
    ASSUME Inv, AllGrow, NEW o \in Obj,
           \A actor \in Actor(o) : Present(<<o, actor>>)' => Present(<<o, actor>>),
           con'[o].implementation_contract = con[o].implementation_contract,
           con'[o].phase = "starting" => con[o].phase \in {"looked", "starting"},
           con'[o].outcome \in {"none", "open"} => con[o].outcome \in {"none", "open"},
           con'[o].callback \in {"abi", "implementation", "adopt", "start"} =>
               \/ con[o].callback \in {"abi", "implementation", "adopt", "start"}
               \/ con[o].outcome = "open"
    PROVE  NestFits(o)'
<1>1. o \in Object /\ Good(con[o]) /\ NestFits(o)
  BY DEF Object, Inv
<1>2. \A actor \in Actor(o) : <<o, actor>> \in Object
  BY NestedObject
<1>3. "new" \in Actor(o) /\ "callback" \in Actor(o)
  BY DEF Actor
<1>4. ASSUME NEW actor \in Actor(o), Present(<<o, actor>>)'
      PROVE  con'[o].implementation # None /\ con'[<<o, actor>>].args = NestedArguments(o)'
  <2>1. Present(<<o, actor>>) /\ Grows(con[<<o, actor>>], con'[<<o, actor>>])
    BY <1>2, <1>4 DEF AllGrow
  <2>2. con[o].implementation # None /\ con[<<o, actor>>].args = NestedArguments(o)
    BY <1>1, <2>1 DEF NestFits
  <2> QED
    BY <2>1, <2>2, NestedGrows
<1>5. con'[o].implementation_contract # None =>
          \E actor \in Actor(o) : /\ con'[o].implementation_contract = <<o, actor>>
                                  /\ con'[<<o, actor>>].phase = "ready"
  <2> SUFFICES ASSUME con[o].implementation_contract # None
               PROVE  \E actor \in Actor(o) :
                          /\ con[o].implementation_contract = <<o, actor>>
                          /\ con'[<<o, actor>>].phase = "ready"
    OBVIOUS
  <2>1. PICK actor \in Actor(o) : /\ con[o].implementation_contract = <<o, actor>>
                                  /\ con[<<o, actor>>].phase = "ready"
    BY <1>1 DEF NestFits
  <2>2. Grows(con[<<o, actor>>], con'[<<o, actor>>])
    BY <1>2 DEF AllGrow
  <2> QED
    BY <2>1, <2>2
<1>6. con'[o].phase = "starting" => ~Present(<<o, "new">>)'
  <2>1. con[o].phase = "looked" => ~Present(<<o, "new">>)
    BY <1>1, <1>3 DEF NestFits, Absent
  <2> QED
    BY <1>1, <1>3, <2>1 DEF NestFits
<1>7. con'[o].outcome \in {"none", "open"} => ~Present(<<o, "callback">>)'
  BY <1>1, <1>3 DEF NestFits
<1>8. con'[o].callback \in {"abi", "implementation", "adopt", "start"} =>
          ~Present(<<o, "callback">>)'
  BY <1>1, <1>3 DEF NestFits
<1> QED
  BY <1>4, <1>5, <1>6, <1>7, <1>8 DEF NestFits

\* The cache as it was.
LEMMA CacheKept ==
    ASSUME Inv, UNCHANGED cache, AllGrow,
           \A x \in Object : con'[x].callback = "implementation" =>
                                 con[x].callback = "implementation"
    PROVE  CacheFits'
<1>1. \A x \in Object : con[x].callback = "implementation" => con'[x].args = con[x].args
  <2> SUFFICES ASSUME NEW x \in Object, con[x].callback = "implementation"
               PROVE  con'[x].args = con[x].args
    OBVIOUS
  <2>1. Formed(con[x]) /\ con[x].phase # "absent"
    BY WhoActsIsPresent DEF Inv, Absent
  <2> QED
    BY <2>1 DEF AllGrow
<1> QED
  BY <1>1 DEF Inv, CacheFits, CacheIsSound, Address

\* One Contract changes, and makes and publishes nothing.
OneChanges(o, d) ==
    /\ con' = [con EXCEPT ![o] = d] /\ Good(d) /\ Grows(con[o], d)
    /\ Present(o) \/ o \in Obj
    /\ d.implementation_contract = con[o].implementation_contract
    /\ d.phase = "starting" => con[o].phase \in {"looked", "starting"}
    /\ d.outcome \in {"none", "open"} => con[o].outcome \in {"none", "open"}
    /\ d.callback \in {"abi", "implementation", "adopt", "start"} =>
           \/ con[o].callback \in {"abi", "implementation", "adopt", "start"}
           \/ con[o].outcome = "open"

ContractsFit ==
    /\ con \in [Object -> ContractType]
    /\ \A x \in Object : Good(con[x])
    /\ \A x \in Obj : NestFits(x)

LEMMA ContractChanges ==
    ASSUME Inv, NEW o \in Object, NEW d, OneChanges(o, d)
    PROVE  AllGrow /\ ContractsFit' /\ con'[o] = d
<1>1. con \in [Object -> ContractType] /\ d \in ContractType
  BY DEF Inv, OneChanges
<1>2. con'[o] = d /\ \A x \in Object \ {o} : con'[x] = con[x]
  BY <1>1 DEF OneChanges
<1>3. AllGrow
  BY <1>2 DEF AllGrow, OneChanges
<1>4. con' \in [Object -> ContractType]
  BY <1>1 DEF OneChanges
<1>5. \A x \in Object : Good(con'[x])
  BY <1>2 DEF Inv, OneChanges
<1>6. ASSUME NEW q \in Obj PROVE NestFits(q)'
  <2>1. q \in Object /\ \A actor \in Actor(q) : <<q, actor>> \in Object \ Obj
    BY NestedObject DEF Object
  <2>2. \A actor \in Actor(q) : Present(<<q, actor>>)' => Present(<<q, actor>>)
    BY <1>2, <2>1 DEF OneChanges
  <2> QED
    BY <1>2, <1>3, <2>1, <2>2, NestKept DEF OneChanges
<1> QED
  BY <1>2, <1>3, <1>4, <1>5, <1>6 DEF ContractsFit

\* A Contract other than those of callers was there before.
LEMMA ReaderNestsKept ==
    ASSUME Inv, NEW o \in Object, NEW d, OneChanges(o, d), NEW r \in Reader
    PROVE  Present(<<ReadOf[r], r>>)' => Present(<<ReadOf[r], r>>)
<1>1. ReadOf[r] \in Obj /\ r \in Actor(ReadOf[r])
  BY DEF Actor
<1>2. <<ReadOf[r], r>> \in Object \ Obj
  BY <1>1, NestedObject
<1>3. con'[<<ReadOf[r], r>>] =
          IF <<ReadOf[r], r>> = o THEN d ELSE con[<<ReadOf[r], r>>]
  BY <1>2 DEF Inv, OneChanges
<1> QED
  BY <1>2, <1>3 DEF OneChanges

\* The constructor and the worker: readers stay where they are.
LEMMA QuietStep ==
    ASSUME Inv, NEW o \in Object, NEW d, OneChanges(o, d),
           UNCHANGED <<frames, answer>>, CacheFits'
    PROVE  Inv'
<1>1. AllGrow /\ ContractsFit'
  BY ContractChanges
<1>2. \A r \in Reader : StackFits(r)' /\ ReaderNestFits(r)'
  BY <1>1, StackKept, ReaderNestKept, ReaderNestsKept
<1> QED
  BY <1>1, <1>2 DEF Inv, ContractsFit

LEMMA QuietStepNoCache ==
    ASSUME Inv, NEW o \in Object, NEW d, OneChanges(o, d), UNCHANGED <<cache, frames, answer>>,
           d.callback = "implementation" => con[o].callback = "implementation"
    PROVE  Inv'
<1>1. AllGrow /\ con'[o] = d /\ \A x \in Object \ {o} : con'[x] = con[x]
  BY ContractChanges, ZenonT(60) DEF Inv, OneChanges
<1>2. CacheFits'
  BY <1>1, CacheKept
<1> QED
  BY <1>2, QuietStep

-----------------------------------------------------------------------------
(* The constructor.                                                         *)

HIDE DEF Good, Formed, ArgumentsFit, ExplicitAlone, PartsFit, ImplementationFits,
         LookupFits, InstalledFits, NothingFits, ContractType, Grows

LEMMA ConstructStep ==
    ASSUME Inv, NEW o \in Obj, NEW g \in Arguments[o], Construct(o, g)
    PROVE  Inv'
<1>1. o \in Object /\ con[o] = Absent
  BY DEF Object, Inv, Construct, Good
<1>2. g \in ArgumentType
  OBVIOUS
<1>3. ArgumentsFit(g)
  <2>1. g.addr \in Addr
    BY <1>2 DEF ArgumentType
  <2>2. CASE Forced(g)
    BY <1>2, <2>2 DEF ArgumentsFit, Told, Forced
  <2>3. CASE ~Forced(g)
    BY <1>2, <2>1, <2>3 DEF ArgumentsFit, Told
  <2> QED
    BY <2>2, <2>3
<1> DEFINE d == Opened(g)
<1>4. /\ Good(d) /\ d.phase = "looked" /\ d.implementation_contract = None
      /\ d.callback = "idle"
  BY <1>3, OpenedGood DEF Inv
<1>5. con' = [con EXCEPT ![o] = d] /\ UNCHANGED <<cache, frames, answer>>
  BY DEF Construct
<1> HIDE DEF d
<1>6. Grows(con[o], d)
  BY <1>1, <1>4 DEF Grows, Absent
<1>7. OneChanges(o, d)
  BY <1>1, <1>4, <1>5, <1>6 DEF OneChanges, Absent
<1> QED
  BY <1>1, <1>4, <1>5, <1>7, QuietStepNoCache

\* What the cache has of an implementation is what the arguments tell.
LEMMA CachedIsTold ==
    ASSUME Inv, NEW o \in Object, Formed(con[o])
    PROVE  /\ CachedImplementation(o) \in {None, Told(con[o].args)}
           /\ Forced(con[o].args) => CachedImplementation(o) # None
<1>1. con[o].args \in ArgumentType /\ con[o].args.addr \in Addr
  BY DEF Formed, ArgumentsFit, ArgumentType
<1>2. cache[con[o].args.addr].implementation \in {None, ImplOf[con[o].args.addr]}
  BY <1>1 DEF Inv, CacheFits, CacheIsSound
<1> QED
  BY <1>1, <1>2 DEF CachedImplementation, Cached, Told, Forced, Address

LEMMA LookedFacts ==
    ASSUME Inv, NEW o \in Object, con[o].phase = "looked"
    PROVE  /\ Good(con[o]) /\ Formed(con[o]) /\ con[o] \in ContractType
           /\ con[o].callback = "idle" /\ con[o].outcome = "none"
           /\ ~con[o].abi_job /\ con[o].proxy_abi = None /\ con[o].implementation = None
  BY DEF Inv, Good, Formed, PartsFit, ImplementationFits, LookupFits

\* Storing what was said of an address keeps the cache sound.
LEMMA AbiStored ==
    ASSUME Inv, NEW a \in Addr, NEW source \in {"explorer", "user"},
           Store(a, "abi", Described(source, a)),
           \A x \in Object : con'[x].callback = "implementation" =>
               \/ con[x].callback = "implementation" /\ con'[x].args = con[x].args
               \/ con'[x].args.addr = a
    PROVE  CacheFits'
<1> DEFINE entry == [cache[a] EXCEPT !.abi = Described(source, a)]
<1>1. Described(source, a) \in Abi /\ Described(source, a) # None
  BY DescribedAbi
<1>2. CacheFits
  BY DEF Inv
<1>3. cache[a] \in [abi : Abi \union {None}, implementation : Addr \union {None}]
  BY <1>2 DEF CacheFits
<1>4. /\ entry \in [abi : Abi \union {None}, implementation : Addr \union {None}]
      /\ entry.abi = Described(source, a) /\ entry.implementation = cache[a].implementation
  BY <1>1, <1>3
<1>5. cache' = [cache EXCEPT ![a] = entry]
  BY DEF Store
<1> HIDE DEF entry
<1>6. cache' \in [Addr -> [abi : Abi \union {None}, implementation : Addr \union {None}]]
  BY <1>2, <1>4, <1>5 DEF CacheFits
<1>7. cache'[a] = entry /\ \A b \in Addr \ {a} : cache'[b] = cache[b]
  BY <1>2, <1>5 DEF CacheFits
<1>8. CacheIsSound'
  BY <1>1, <1>2, <1>4, <1>7 DEF CacheFits, CacheIsSound
<1>9. \A b \in Addr : cache[b].abi # None => cache'[b].abi # None
  BY <1>1, <1>4, <1>7
<1>10. \A x \in Object : con[x].callback = "implementation" => con[x].args.addr \in Addr
  BY WhoActsIsPresent DEF Inv, Formed, ArgumentsFit, ArgumentType
<1> QED
  BY <1>1, <1>2, <1>4, <1>6, <1>7, <1>8, <1>9, <1>10 DEF CacheFits, Address

LEMMA ImplementationStored ==
    ASSUME Inv, NEW a \in Addr, Store(a, "implementation", ImplOf[a]),
           cache[a].abi # None,
           \A x \in Object : con'[x].callback = "implementation" =>
               con[x].callback = "implementation" /\ con'[x].args = con[x].args
    PROVE  CacheFits'
<1> DEFINE entry == [cache[a] EXCEPT !.implementation = ImplOf[a]]
<1>2. CacheFits
  BY DEF Inv
<1>3. cache[a] \in [abi : Abi \union {None}, implementation : Addr \union {None}]
  BY <1>2 DEF CacheFits
<1>4. /\ entry \in [abi : Abi \union {None}, implementation : Addr \union {None}]
      /\ entry.abi = cache[a].abi /\ entry.implementation = ImplOf[a]
  BY <1>3
<1>5. cache' = [cache EXCEPT ![a] = entry]
  BY DEF Store
<1> HIDE DEF entry
<1>6. cache' \in [Addr -> [abi : Abi \union {None}, implementation : Addr \union {None}]]
  BY <1>2, <1>4, <1>5 DEF CacheFits
<1>7. cache'[a] = entry /\ \A b \in Addr \ {a} : cache'[b] = cache[b]
  BY <1>2, <1>5 DEF CacheFits
<1>8. CacheIsSound'
  BY <1>2, <1>4, <1>7 DEF CacheFits, CacheIsSound
<1>9. \A b \in Addr : cache[b].abi # None => cache'[b].abi # None
  BY <1>4, <1>7
<1>10. \A x \in Object : con[x].callback = "implementation" => con[x].args.addr \in Addr
  BY WhoActsIsPresent DEF Inv, Formed, ArgumentsFit, ArgumentType
<1> QED
  BY <1>2, <1>6, <1>8, <1>9, <1>10 DEF CacheFits, Address

LEMMA KeepExplicitStep ==
    ASSUME Inv, NEW o \in Object, KeepExplicit(o)
    PROVE  Inv'
<1> DEFINE d == [con[o] EXCEPT !.phase = "ready"]
<1>1. con[o].phase = "looked" /\ con[o].args.explicit
  BY DEF KeepExplicit
<1>2. Good(d) /\ Grows(con[o], d)
  BY <1>1, KeepExplicitGood DEF Inv
<1>3. con' = [con EXCEPT ![o] = d] /\ UNCHANGED <<frames, answer>>
  BY DEF KeepExplicit
<1>4. /\ d.phase = "ready" /\ d.implementation_contract = con[o].implementation_contract
      /\ d.outcome = con[o].outcome /\ d.callback = con[o].callback /\ d.args = con[o].args
  BY <1>1, LookedFacts DEF ContractType
<1> HIDE DEF d
<1>5. OneChanges(o, d)
  BY <1>1, <1>2, <1>3, <1>4 DEF OneChanges
<1>6. AllGrow /\ con'[o] = d /\ \A x \in Object \ {o} : con'[x] = con[x]
  BY <1>5, ContractChanges DEF Inv, OneChanges
<1>7. CacheFits'
  <2>1. CASE UNCHANGED cache
    BY <1>4, <1>6, <2>1, CacheKept
  <2>2. CASE Store(con[o].args.addr, "abi", con[o].abi)
    <3>1. con[o].args.addr \in Addr /\ con[o].abi = Described("user", con[o].args.addr)
      BY <1>1, LookedFacts DEF Formed, ArgumentsFit, ArgumentType, ExplicitAlone
    <3>2. \A x \in Object : con'[x].callback = "implementation" =>
              con[x].callback = "implementation" /\ con'[x].args = con[x].args
      BY <1>4, <1>6
    <3> QED
      BY <2>2, <3>1, <3>2, AbiStored
  <2> QED
    BY <2>1, <2>2 DEF KeepExplicit, Address
<1> QED
  BY <1>3, <1>5, <1>7, QuietStep

LEMMA FromCacheStep == ASSUME Inv, NEW o \in Object, FromCache(o) PROVE Inv'
<1> DEFINE given == CachedImplementation(o)
           d == IF given = None
                THEN [con[o] EXCEPT !.abi = con[o].seen, !.phase = "ready"]
                ELSE [con[o] EXCEPT !.proxy_abi = con[o].seen, !.phase = "starting",
                                    !.implementation = given]
<1>1. con[o].phase = "looked" /\ ~con[o].args.explicit /\ con[o].seen # None
  BY DEF FromCache
<1>2. given \in {None, Told(con[o].args)} /\ (Forced(con[o].args) => given # None)
  BY <1>1, LookedFacts, CachedIsTold
<1>3. con' = [con EXCEPT ![o] = d] /\ UNCHANGED <<cache, frames, answer>>
  BY DEF FromCache
<1> HIDE DEF given
<1>4. Good(d) /\ Grows(con[o], d)
  BY <1>1, <1>2, LookedFacts, FromCacheGood
<1>5. /\ d.implementation_contract = con[o].implementation_contract
      /\ d.outcome = con[o].outcome /\ d.callback = con[o].callback
  BY LookedFacts, <1>1 DEF ContractType
<1> HIDE DEF d
<1>6. OneChanges(o, d)
  BY <1>1, <1>3, <1>4, <1>5 DEF OneChanges
<1> QED
  BY <1>3, <1>5, <1>6, QuietStepNoCache

LEMMA UnavailableStep == ASSUME Inv, NEW o \in Object, Unavailable(o) PROVE Inv'
<1> DEFINE d == [con[o] EXCEPT !.phase = "ready"]
<1>1. con[o].phase = "looked" /\ ~con[o].args.explicit /\ con[o].args.refresh = "never"
  BY DEF Unavailable, Uncached
<1>2. Good(d) /\ Grows(con[o], d)
  BY <1>1, LookedFacts, UnavailableGood
<1>3. con' = [con EXCEPT ![o] = d] /\ UNCHANGED <<cache, frames, answer>>
  BY DEF Unavailable
<1>4. /\ d.phase = "ready" /\ d.implementation_contract = con[o].implementation_contract
      /\ d.outcome = con[o].outcome /\ d.callback = con[o].callback
  BY <1>1, LookedFacts DEF ContractType
<1> HIDE DEF d
<1>5. OneChanges(o, d)
  BY <1>1, <1>2, <1>3, <1>4 DEF OneChanges
<1> QED
  BY <1>3, <1>4, <1>5, QuietStepNoCache

LEMMA UseForcedStep == ASSUME Inv, NEW o \in Object, UseForced(o) PROVE Inv'
<1> DEFINE d == [con[o] EXCEPT !.implementation = con[o].args.implementation,
                               !.phase = "starting"]
<1>1. con[o].phase = "looked" /\ ~con[o].args.explicit /\ Forced(con[o].args)
  BY DEF UseForced, Uncached
<1>2. Good(d) /\ Grows(con[o], d)
  BY <1>1, LookedFacts, UseForcedGood
<1>3. con' = [con EXCEPT ![o] = d] /\ UNCHANGED <<cache, frames, answer>>
  BY LookedFacts, <1>1 DEF UseForced, Inv, ContractType
<1>4. /\ d.implementation_contract = con[o].implementation_contract
      /\ d.outcome = con[o].outcome /\ d.callback = con[o].callback
  BY <1>1, LookedFacts DEF ContractType
<1> HIDE DEF d
<1>5. OneChanges(o, d)
  BY <1>1, <1>2, <1>3, <1>4 DEF OneChanges
<1> QED
  BY <1>3, <1>4, <1>5, QuietStepNoCache

LEMMA FetchStep == ASSUME Inv, NEW o \in Object, Fetch(o) PROVE Inv'
<1> DEFINE d == [con[o] EXCEPT !.abi_job = TRUE, !.outcome = "open", !.phase = "ready"]
<1>1. Good(con[o]) /\ con[o] \in ContractType /\ con[o].phase \in {"looked", "created"}
  BY DEF Inv, Good, Fetch, Uncached
<1>2. /\ Formed(con[o]) /\ ~con[o].args.explicit /\ con[o].outcome = "none"
      /\ \/ con[o].phase = "looked" /\ ~Forced(con[o].args)
         \/ con[o].phase = "created" /\ con[o].proxy_abi = None
  BY <1>1 DEF Good, Formed, LookupFits, ExplicitAlone, Fetch, Uncached
<1>3. Good(d) /\ Grows(con[o], d)
  BY <1>1, <1>2, FetchGood
<1>4. con' = [con EXCEPT ![o] = d] /\ UNCHANGED <<cache, frames, answer>>
  BY <1>1 DEF Fetch, Inv, ContractType
<1>5. /\ d.phase = "ready" /\ d.implementation_contract = con[o].implementation_contract
      /\ d.outcome = "open" /\ d.callback = con[o].callback
  BY <1>1 DEF ContractType
<1> HIDE DEF d
<1>6. OneChanges(o, d)
  BY <1>1, <1>2, <1>3, <1>4, <1>5 DEF OneChanges
<1> QED
  BY <1>4, <1>5, <1>6, QuietStepNoCache

LEMMA FinishCachedStep == ASSUME Inv, NEW o \in Object, FinishCached(o) PROVE Inv'
<1> DEFINE d == [con[o] EXCEPT !.phase = "ready"]
<1>1. /\ Good(con[o]) /\ con[o] \in ContractType
      /\ con[o].phase = "created" /\ con[o].proxy_abi # None
  BY DEF Inv, FinishCached
<1>2. Good(d) /\ Grows(con[o], d)
  BY <1>1, FinishCachedGood
<1>3. con' = [con EXCEPT ![o] = d] /\ UNCHANGED <<cache, frames, answer>>
  BY DEF FinishCached
<1>4. /\ d.phase = "ready" /\ d.implementation_contract = con[o].implementation_contract
      /\ d.outcome = con[o].outcome /\ d.callback = con[o].callback
  BY <1>1 DEF ContractType
<1> HIDE DEF d
<1>5. OneChanges(o, d)
  BY <1>1, <1>2, <1>3, <1>4 DEF OneChanges
<1> QED
  BY <1>3, <1>4, <1>5, QuietStepNoCache

-----------------------------------------------------------------------------
(* The lookup and its callback.                                             *)

\* Whoever has a lookup or a callback under way is at work on a Contract that is there.
LEMMA LookupFacts ==
    ASSUME Inv, NEW o \in Object, con[o].outcome # "none" \/ con[o].callback # "idle"
    PROVE  /\ Good(con[o]) /\ Formed(con[o]) /\ con[o] \in ContractType
           /\ con[o].phase = "ready" /\ ~con[o].args.explicit
           /\ con[o].args \in ArgumentType /\ con[o].args.addr \in Addr
           /\ con[o].callback # "idle" => con[o].outcome = "found"
<1>1. Good(con[o]) /\ con[o] \in ContractType /\ Formed(con[o])
  BY WhoActsIsPresent DEF Inv
<1> QED
  BY <1>1 DEF Formed, ArgumentsFit, ArgumentType, LookupFits, ExplicitAlone

LEMMA SettleStep ==
    ASSUME Inv, NEW o \in Object, NEW verdict \in Failure \union {"found"},
           Settle(o, verdict)
    PROVE  Inv'
<1> DEFINE next == IF verdict = "found" THEN "abi" ELSE "idle"
           d == [con[o] EXCEPT !.outcome = verdict, !.callback = next]
<1>1. con[o].outcome = "open"
  BY DEF Settle
<1>2. Good(d) /\ Grows(con[o], d)
  BY <1>1, LookupFacts, SettleGood
<1>3. next \in {"abi", "idle"}
  OBVIOUS
<1>4. con' = [con EXCEPT ![o] = d] /\ UNCHANGED <<cache, frames, answer>>
  BY <1>1, LookupFacts DEF Settle, Inv, ContractType
<1> HIDE DEF next
<1>5. /\ d.phase = con[o].phase /\ d.outcome = verdict /\ d.callback = next
      /\ d.implementation_contract = con[o].implementation_contract
  BY <1>1, <1>3, LookupFacts DEF ContractType
<1> HIDE DEF d
<1>6. OneChanges(o, d)
  BY <1>1, <1>2, <1>4, <1>5, LookupFacts DEF OneChanges, Failure
<1> QED
  BY <1>3, <1>4, <1>5, <1>6, QuietStepNoCache

\* A step of the callback that only moves it on.
LEMMA CallbackMoves ==
    ASSUME Inv, NEW o \in Object, con[o].callback # "idle",
           NEW next \in {"idle", "implementation", "adopt", "start", "create"},
           con[o].callback \in {"idle", "create"} => next = "idle",
           next # "idle" =>
               con[o].args.implementation = "auto" /\ ImplOf[con[o].args.addr] # None,
           next \in {"start", "create"} => con[o].implementation # None,
           NEW d, d = [con[o] EXCEPT !.callback = next], con' = [con EXCEPT ![o] = d]
    PROVE  OneChanges(o, d) /\ d.callback = next /\ d.args = con[o].args
<1>1. Good(d) /\ Grows(con[o], d)
  BY LookupFacts, CallbackGood
<1>2. /\ d.phase = con[o].phase /\ d.outcome = con[o].outcome /\ d.callback = next
      /\ d.implementation_contract = con[o].implementation_contract /\ d.args = con[o].args
  BY LookupFacts DEF ContractType
<1>3. con[o] \in ContractType
  BY LookupFacts
<1> QED
  BY <1>1, <1>2, <1>3, LookupFacts DEF OneChanges, ContractType

\* What the explorer reported is what the arguments tell.
LEMMA ReportedIsTold ==
    ASSUME Inv, NEW o \in Object, con[o].outcome # "none" \/ con[o].callback # "idle"
    PROVE  /\ Reported(o) # None =>
                  /\ con[o].args.implementation = "auto" /\ ImplOf[con[o].args.addr] # None
                  /\ Reported(o) = ImplOf[con[o].args.addr] /\ Reported(o) = Told(con[o].args)
           /\ con[o].args.implementation = "auto" => Reported(o) = ImplOf[con[o].args.addr]
           /\ Reported(o) \in {None, Told(con[o].args)}
  BY LookupFacts DEF Reported, Address, Told, Forced

LEMMA CacheAbiStep == ASSUME Inv, NEW o \in Object, CacheAbi(o) PROVE Inv'
<1> DEFINE next == IF Reported(o) = None THEN "idle" ELSE "implementation"
           d == [con[o] EXCEPT !.callback = next]
<1>1. con[o].callback = "abi"
  BY DEF CacheAbi
<1>2. next # "idle" =>
          con[o].args.implementation = "auto" /\ ImplOf[con[o].args.addr] # None
  BY <1>1, ReportedIsTold
<1>3. con' = [con EXCEPT ![o] = d] /\ UNCHANGED <<frames, answer>>
  BY DEF CacheAbi
<1>4. next \in {"idle", "implementation"}
  OBVIOUS
<1> HIDE DEF next
<1>5. OneChanges(o, d) /\ d.callback = next /\ d.args = con[o].args
  BY <1>1, <1>2, <1>3, <1>4, CallbackMoves
<1> HIDE DEF d
<1>6. con'[o] = d /\ \A x \in Object \ {o} : con'[x] = con[x]
  BY <1>3, <1>5, ContractChanges DEF Inv
<1>7. AllGrow
  BY <1>5, ContractChanges
<1>8. CacheFits'
  <2>1. Store(con[o].args.addr, "abi", Described("explorer", con[o].args.addr))
    BY DEF CacheAbi, Address
  <2>2. \A x \in Object : con'[x].callback = "implementation" =>
            \/ con[x].callback = "implementation" /\ con'[x].args = con[x].args
            \/ con'[x].args.addr = con[o].args.addr
    BY <1>5, <1>6
  <2>3. con[o].args.addr \in Addr
    BY <1>1, LookupFacts
  <2> QED
    BY <2>1, <2>2, <2>3, AbiStored
<1> QED
  BY <1>3, <1>5, <1>8, QuietStep

LEMMA CacheImplementationStep ==
    ASSUME Inv, NEW o \in Object, CacheImplementation(o)
    PROVE  Inv'
<1> DEFINE d == [con[o] EXCEPT !.callback = "adopt"]
<1>1. con[o].callback = "implementation"
  BY DEF CacheImplementation
<1>2. con[o].args.implementation = "auto" /\ ImplOf[con[o].args.addr] # None
  BY <1>1, LookupFacts DEF Formed, LookupFits
<1>3. con' = [con EXCEPT ![o] = d] /\ UNCHANGED <<frames, answer>>
  BY DEF CacheImplementation
<1>4. OneChanges(o, d) /\ d.callback = "adopt" /\ d.args = con[o].args
  BY <1>1, <1>2, <1>3, CallbackMoves
<1> HIDE DEF d
<1>5. con'[o] = d /\ \A x \in Object \ {o} : con'[x] = con[x]
  BY <1>3, <1>4, ContractChanges DEF Inv
<1>6. CacheFits'
  <2>1. con[o].args.addr \in Addr /\ cache[con[o].args.addr].abi # None
    BY <1>1, LookupFacts DEF Inv, CacheFits, Address
  <2>2. Store(con[o].args.addr, "implementation", ImplOf[con[o].args.addr])
    BY <1>1, <1>2, ReportedIsTold DEF CacheImplementation, Address
  <2>3. \A x \in Object : con'[x].callback = "implementation" =>
            con[x].callback = "implementation" /\ con'[x].args = con[x].args
    BY <1>4, <1>5
  <2> QED
    BY <2>1, <2>2, <2>3, ImplementationStored
<1> QED
  BY <1>3, <1>4, <1>6, QuietStep

LEMMA CallbackAdoptsStep == ASSUME Inv, NEW o \in Object, CallbackAdopts(o) PROVE Inv'
<1>1. con[o].callback = "adopt"
  BY DEF CallbackAdopts
<1>2. /\ con[o].args.implementation = "auto" /\ ImplOf[con[o].args.addr] # None
      /\ Reported(o) = Told(con[o].args) /\ Reported(o) # None
  <2>1. con[o].args.implementation = "auto" /\ ImplOf[con[o].args.addr] # None
    BY <1>1, LookupFacts DEF Formed, LookupFits
  <2> QED
    BY <1>1, <2>1, ReportedIsTold
<1>3. CASE con[o].implementation # None
  <2> DEFINE d == [con[o] EXCEPT !.callback = "idle"]
  <2>1. con' = [con EXCEPT ![o] = d] /\ UNCHANGED <<cache, frames, answer>>
    BY <1>3 DEF CallbackAdopts, Inv
  <2>2. OneChanges(o, d) /\ d.callback = "idle"
    BY <1>1, <2>1, CallbackMoves
  <2> HIDE DEF d
  <2> QED
    BY <2>1, <2>2, QuietStepNoCache
<1>4. CASE con[o].implementation = None
  <2> DEFINE c == [con[o] EXCEPT !.implementation = Reported(o)]
             d == [c EXCEPT !.callback = "start"]
             e == [con[o] EXCEPT !.implementation = Reported(o), !.callback = "start"]
  <2>1. Good(c) /\ Grows(con[o], c)
    BY <1>1, <1>2, <1>4, LookupFacts, AdoptGood
  <2>2. /\ c.callback = "adopt" /\ c.implementation = Reported(o) /\ c.args = con[o].args
        /\ c.phase = con[o].phase /\ c.outcome = con[o].outcome
        /\ c.implementation_contract = con[o].implementation_contract
        /\ c.proxy_abi = con[o].proxy_abi
    BY <1>1, LookupFacts DEF ContractType
  <2>3. con' = [con EXCEPT ![o] = e] /\ UNCHANGED <<cache, frames, answer>>
    BY <1>4 DEF CallbackAdopts, Inv
  <2>4. d = e
    OBVIOUS
  <2> HIDE DEF c, e
  <2>5. Good(d) /\ Grows(c, d)
    BY <1>2, <2>1, <2>2, CallbackGood
  <2>6. /\ d.callback = "start" /\ d.args = c.args /\ d.phase = c.phase
        /\ d.outcome = c.outcome /\ d.implementation_contract = c.implementation_contract
        /\ d.implementation = c.implementation /\ d.proxy_abi = c.proxy_abi
    BY <2>1 DEF Good, ContractType
  <2> HIDE DEF d
  <2>7. OneChanges(o, d)
    BY <1>1, <1>4, <2>2, <2>3, <2>4, <2>5, <2>6, LookupFacts DEF OneChanges, Grows
  <2> QED
    BY <2>3, <2>6, <2>7, QuietStepNoCache
<1> QED
  BY <1>3, <1>4

LEMMA CallbackSkipsStep == ASSUME Inv, NEW o \in Object, CallbackSkips(o) PROVE Inv'
<1> DEFINE d == [con[o] EXCEPT !.callback = "idle"]
<1>1. con' = [con EXCEPT ![o] = d] /\ UNCHANGED <<cache, frames, answer>>
  BY DEF CallbackSkips
<1>2. OneChanges(o, d) /\ d.callback = "idle"
  BY <1>1, CallbackMoves DEF CallbackSkips
<1> HIDE DEF d
<1> QED
  BY <1>1, <1>2, QuietStepNoCache

-----------------------------------------------------------------------------
(* Making and publishing the nested Contract.                               *)

\* A Contract with an implementation: its nested one will have no other.
LEMMA NestedArgumentsFit ==
    ASSUME Inv, NEW o \in Obj, con[o].implementation # None
    PROVE  /\ o \in Object /\ Formed(con[o]) /\ con[o] \in ContractType /\ Present(o)
           /\ ArgumentsFit(NestedArguments(o)) /\ Told(NestedArguments(o)) = None
           /\ con[o].implementation \in Addr /\ con[o].implementation = Told(con[o].args)
<1>1. o \in Object /\ Good(con[o])
  BY DEF Inv, Object
<1>2. con[o].phase # "absent" /\ Formed(con[o]) /\ con[o] \in ContractType
  BY <1>1 DEF Good, Absent
<1>3. /\ con[o].args \in ArgumentType /\ con[o].implementation = Told(con[o].args)
      /\ con[o].implementation \in Addr /\ ImplOf[con[o].implementation] = None
  BY <1>2 DEF Formed, ArgumentsFit, ImplementationFits
<1> DEFINE g == NestedArguments(o)
<1>4. g.addr = con[o].implementation /\ g.implementation = "auto" /\ g \in ArgumentType
  BY <1>3 DEF NestedArguments, ArgumentType
<1> HIDE DEF g
<1>5. Told(g) = None
  BY <1>3, <1>4 DEF Told, Forced
<1>6. ArgumentsFit(g)
  BY <1>4, <1>5 DEF ArgumentsFit
<1> QED
  BY <1>1, <1>2, <1>3, <1>5, <1>6 DEF g

\* An actor makes its nested Contract.
Makes(o, actor, d) ==
    /\ actor \in Actor(o) /\ ~Present(<<o, actor>>) /\ con[o].implementation # None
    /\ Good(d) /\ Grows(con[o], d) /\ d.phase # "starting"
    /\ d.implementation_contract = con[o].implementation_contract
    /\ d.outcome = con[o].outcome
    /\ IF actor = "callback" THEN d.callback = "create" /\ d.outcome = "found"
                             ELSE d.callback = con[o].callback
    /\ con' = [x \in Object |-> IF x = <<o, actor>> THEN Opened(NestedArguments(o))
                                ELSE IF x = o THEN d ELSE con[x]]

LEMMA NestedMade ==
    ASSUME Inv, NEW o \in Obj, NEW actor, NEW d, Makes(o, actor, d)
    PROVE  /\ AllGrow /\ ContractsFit' /\ <<o, actor>> \in Object /\ <<o, actor>> # o
           /\ con'[o] = d
           /\ con'[<<o, actor>>].callback = "idle" /\ con'[<<o, actor>>].outcome = "none"
           /\ \A x \in Object \ {o, <<o, actor>>} : con'[x] = con[x]
<1> DEFINE n == <<o, actor>>
           new == Opened(NestedArguments(o))
<1>1. o \in Object /\ n \in Object /\ n \notin Obj /\ n # o /\ con[n] = Absent
  BY NestedObject DEF Makes, Object, Inv, Good
<1>2. /\ ArgumentsFit(NestedArguments(o)) /\ con[o] \in ContractType
      /\ con[o].implementation = Told(con[o].args) /\ Present(o)
  BY NestedArgumentsFit DEF Makes
<1>3. /\ Good(new) /\ new.phase = "looked" /\ new.args = NestedArguments(o)
      /\ new.outcome = "none" /\ new.callback = "idle"
  BY <1>2, OpenedGood DEF Inv
<1> HIDE DEF new
<1>4. con'[n] = new /\ con'[o] = d /\ \A x \in Object \ {o, n} : con'[x] = con[x]
  BY <1>1 DEF Makes, new
<1>5. AllGrow
  <2>1. Grows(Absent, new)
    BY <1>3 DEF Grows, Absent
  <2>2. \A x \in Object : Grows(con[x], con[x])
    BY DEF Grows
  <2> QED
    BY <1>1, <1>4, <2>1, <2>2 DEF AllGrow, Makes
<1>6. \A x \in Object : Good(con'[x])
  BY <1>3, <1>4 DEF Makes, Inv
<1>7. con' \in [Object -> ContractType]
  BY <1>6 DEF Makes, Good
<1>8. ASSUME NEW q \in Obj PROVE NestFits(q)'
  <2>1. q \in Object /\ \A a \in Actor(q) : <<q, a>> \in Object \ Obj
    BY NestedObject DEF Object
  <2>2. CASE q # o
    <3>1. con'[q] = con[q] /\ \A a \in Actor(q) : con'[<<q, a>>] = con[<<q, a>>]
      BY <1>1, <1>4, <2>1, <2>2
    <3> QED
      BY <1>5, <3>1, NestKept
  <2>3. CASE q = o
    <3>1. NestFits(o)
      BY DEF Inv
    <3>2. /\ con'[o].implementation = con[o].implementation /\ con[o].implementation # None
          /\ NestedArguments(o)' = NestedArguments(o)
      BY <1>5, NestedGrows DEF Makes
    <3>3. \A a \in Actor(o) \ {actor} : con'[<<o, a>>] = con[<<o, a>>]
      BY <1>4, <2>1, <2>3
    <3>4. "new" \in Actor(o) /\ "callback" \in Actor(o)
      BY DEF Actor
    <3>5. \A a \in Actor(o) :
              Present(<<o, a>>)' =>
                  /\ con'[o].implementation # None
                  /\ con'[<<o, a>>].args = NestedArguments(o)'
      BY <1>3, <1>4, <3>1, <3>2, <3>3 DEF NestFits
    <3>6. con'[o].implementation_contract # None =>
              \E a \in Actor(o) : /\ con'[o].implementation_contract = <<o, a>>
                                  /\ con'[<<o, a>>].phase = "ready"
      BY <1>1, <1>4, <3>1, <3>3 DEF NestFits, Makes, Absent
    <3>7. con'[o].phase = "starting" => ~Present(<<o, "new">>)'
      BY <1>4 DEF Makes
    <3>8. /\ con'[o].outcome \in {"none", "open"} => ~Present(<<o, "callback">>)'
          /\ con'[o].callback \in {"abi", "implementation", "adopt", "start"} =>
                 ~Present(<<o, "callback">>)'
      BY <1>4, <3>1, <3>3, <3>4 DEF NestFits, Makes
    <3> QED
      BY <2>3, <3>5, <3>6, <3>7, <3>8 DEF NestFits
  <2> QED
    BY <2>2, <2>3
<1> QED
  BY <1>1, <1>3, <1>4, <1>5, <1>6, <1>7, <1>8 DEF ContractsFit

\* An actor publishes the one it made.
Publishes(o, actor, d) ==
    /\ actor \in Actor(o) /\ con[<<o, actor>>].phase = "ready"
    /\ con' = [con EXCEPT ![o] = d] /\ Good(d) /\ Grows(con[o], d)
    /\ d.implementation_contract = <<o, actor>> /\ d.phase # "starting"
    /\ d.outcome = con[o].outcome
    /\ d.callback \in {"abi", "implementation", "adopt", "start"} =>
           con[o].callback = d.callback

LEMMA NestedPublished ==
    ASSUME Inv, NEW o \in Obj, NEW actor, NEW d, Publishes(o, actor, d)
    PROVE  AllGrow /\ ContractsFit' /\ \A x \in Object : x # o => con'[x] = con[x]
<1>1. /\ o \in Object /\ con \in [Object -> ContractType] /\ d \in ContractType
      /\ <<o, actor>> \in Object /\ <<o, actor>> # o
  BY NestedObject DEF Publishes, Good, Inv, Object
<1>2. con'[o] = d /\ \A x \in Object \ {o} : con'[x] = con[x]
  BY <1>1 DEF Publishes
<1>3. AllGrow
  <2>1. \A x \in Object : Grows(con[x], con[x])
    BY DEF Grows
  <2> QED
    BY <1>2, <2>1 DEF AllGrow, Publishes
<1>4. con' \in [Object -> ContractType] /\ \A x \in Object : Good(con'[x])
  BY <1>1, <1>2 DEF Publishes, Inv
<1>5. ASSUME NEW q \in Obj PROVE NestFits(q)'
  <2>1. q \in Object /\ \A a \in Actor(q) : <<q, a>> \in Object \ Obj
    BY NestedObject DEF Object
  <2>2. \A a \in Actor(q) : con'[<<q, a>>] = con[<<q, a>>]
    BY <1>2, <2>1
  <2>3. CASE q # o
    <3>1. con'[q] = con[q]
      BY <1>2, <2>1, <2>3
    <3> QED
      BY <1>3, <2>2, <3>1, NestKept
  <2>4. CASE q = o
    <3>1. NestFits(o)
      BY DEF Inv
    <3>2. Present(<<o, actor>>) /\ con[o].implementation # None
      BY <3>1 DEF NestFits, Publishes
    <3>3. con'[o].implementation # None /\ NestedArguments(o)' = NestedArguments(o)
      BY <1>3, <3>2, NestedGrows
    <3>4. "new" \in Actor(o) /\ "callback" \in Actor(o)
      BY DEF Actor
    <3> QED
      BY <1>2, <2>2, <2>4, <3>1, <3>3, <3>4 DEF NestFits, Publishes
  <2> QED
    BY <2>3, <2>4
<1> QED
  BY <1>2, <1>3, <1>4, <1>5 DEF ContractsFit

\* Either of the two.
LEMMA EitherNest ==
    ASSUME Inv, NEW o \in Obj, NEW actor, NEW d,
           d.callback = con[o].callback \/ d.callback # "implementation",
           Makes(o, actor, d) \/ Publishes(o, actor, d)
    PROVE  /\ AllGrow /\ ContractsFit' /\ con'[o] = d
           /\ \A x \in Object : x # o => con'[x] = con[x] \/ x = <<o, actor>>
           /\ \A x \in Object : con'[x].callback = "implementation" =>
                                    con[x].callback = "implementation"
<1>1. o \in Object /\ con \in [Object -> ContractType]
  BY DEF Object, Inv
<1>2. CASE Makes(o, actor, d)
  <2>1. /\ AllGrow /\ ContractsFit' /\ con'[o] = d
        /\ con'[<<o, actor>>].callback = "idle"
        /\ \A x \in Object : x # o /\ x # <<o, actor>> => con'[x] = con[x]
    BY <1>2, NestedMade
  <2> QED
    BY <2>1
<1>3. CASE Publishes(o, actor, d)
  <2>1. con'[o] = d
    BY <1>1, <1>3 DEF Publishes
  <2> QED
    BY <1>3, <2>1, NestedPublished
<1> QED
  BY <1>2, <1>3

\* A constructor or a callback does it.
LEMMA QuietNest ==
    ASSUME Inv, NEW o \in Obj, NEW actor, NEW d,
           (Makes(o, actor, d) /\ actor \notin Reader) \/ Publishes(o, actor, d),
           d.callback = con[o].callback \/ d.callback # "implementation",
           UNCHANGED <<cache, frames, answer>>
    PROVE  Inv'
<1>1. /\ AllGrow /\ ContractsFit'
      /\ \A x \in Object : x # o => con'[x] = con[x] \/ x = <<o, actor>>
      /\ \A x \in Object : con'[x].callback = "implementation" =>
                               con[x].callback = "implementation"
  BY EitherNest
<1>2. CacheFits'
  BY <1>1, CacheKept
<1>3. ASSUME NEW r \in Reader PROVE Present(<<ReadOf[r], r>>)' => Present(<<ReadOf[r], r>>)
  <2>1. ReadOf[r] \in Obj /\ r \in Actor(ReadOf[r])
    BY DEF Actor
  <2>2. <<ReadOf[r], r>> \in Object /\ <<ReadOf[r], r>> # o
    BY <2>1, NestedObject
  <2>3. CASE Makes(o, actor, d) /\ actor \notin Reader
    BY <1>1, <2>2, <2>3
  <2>4. CASE Publishes(o, actor, d)
    BY <2>2, <2>4, NestedPublished
  <2> QED
    BY <2>3, <2>4
<1>4. \A r \in Reader : StackFits(r)' /\ ReaderNestFits(r)'
  BY <1>1, <1>3, StackKept, ReaderNestKept
<1> QED
  BY <1>1, <1>2, <1>4 DEF Inv, ContractsFit

LEMMA NewCreatesStep == ASSUME Inv, NEW o \in Object, NewCreates(o) PROVE Inv'
<1> DEFINE d == [con[o] EXCEPT !.phase = "creating"]
<1>1. o \in Obj /\ con[o].phase = "starting" /\ Good(con[o]) /\ con[o] \in ContractType
  BY DEF NewCreates, Inv
<1>2. con[o].implementation # None
  BY <1>1 DEF Good, Formed, ImplementationFits
<1>3. Good(d) /\ Grows(con[o], d)
  BY <1>1, CreatingGood
<1>4. /\ d.phase = "creating" /\ d.implementation_contract = con[o].implementation_contract
      /\ d.outcome = con[o].outcome /\ d.callback = con[o].callback
  BY <1>1 DEF ContractType
<1>5. con' = [con EXCEPT ![o] = d, ![<<o, "new">>] = Opened(NestedArguments(o))]
  BY <1>1 DEF NewCreates, Inv
<1> HIDE DEF d
<1>6. "new" \in Actor(o) /\ "new" \notin Reader /\ ~Present(<<o, "new">>)
  BY <1>1 DEF Actor, Inv, NestFits
<1>7. /\ <<o, "new">> \in Object /\ <<o, "new">> # o
      /\ con \in [Object -> ContractType]
  BY <1>1, <1>6, NestedObject DEF Inv
<1>8. Makes(o, "new", d)
  BY <1>1, <1>2, <1>3, <1>4, <1>5, <1>6, <1>7 DEF Makes
<1> QED
  BY <1>1, <1>4, <1>6, <1>8, QuietNest DEF NewCreates

LEMMA NewCreatedStep == ASSUME Inv, NEW o \in Object, NewCreated(o) PROVE Inv'
<1> DEFINE c == [con[o] EXCEPT !.phase = "created"]
           d == [c EXCEPT !.implementation_contract = <<o, "new">>]
<1>1. o \in Obj /\ con[o].phase = "creating" /\ Good(con[o]) /\ con[o] \in ContractType
  BY DEF NewCreated, Inv
<1>2. "new" \in Actor(o) /\ con[<<o, "new">>].phase = "ready" /\ <<o, "new">> \in Object
  BY <1>1, NestedObject DEF Actor, NewCreated
<1>3. Good(c) /\ Grows(con[o], c)
  BY <1>1, CreatedGood
<1>4. /\ c.phase = "created" /\ c.outcome = con[o].outcome /\ c.callback = con[o].callback
      /\ c.implementation = con[o].implementation /\ con[o].implementation # None
  BY <1>1 DEF ContractType, Good, Formed, ImplementationFits
<1>5. con' = [con EXCEPT ![o] = d]
  BY DEF NewCreated
<1> HIDE DEF c
<1>6. Good(d) /\ Grows(c, d)
  BY <1>2, <1>3, <1>4, PublishedGood
<1>7. /\ d.phase = c.phase /\ d.outcome = c.outcome /\ d.callback = c.callback
      /\ d.implementation_contract = <<o, "new">>
  BY <1>3 DEF Good, ContractType
<1> HIDE DEF d
<1>8. Grows(con[o], d)
  BY <1>3, <1>6 DEF Grows
<1>9. Publishes(o, "new", d)
  BY <1>2, <1>4, <1>5, <1>6, <1>7, <1>8 DEF Publishes
<1> QED
  BY <1>1, <1>4, <1>7, <1>9, QuietNest DEF NewCreated

LEMMA CallbackCreatesStep == ASSUME Inv, NEW o \in Object, CallbackCreates(o) PROVE Inv'
<1> DEFINE d == [con[o] EXCEPT !.callback = "create"]
<1>1. o \in Obj /\ con[o].callback = "start" /\ con[o] \in ContractType
  BY DEF CallbackCreates, Inv
<1>2. /\ con[o].implementation # None /\ con[o].phase = "ready" /\ con[o].outcome = "found"
      /\ con[o].args.implementation = "auto" /\ ImplOf[con[o].args.addr] # None
  BY <1>1, LookupFacts DEF Formed, LookupFits
<1>3. Good(d) /\ Grows(con[o], d)
  BY <1>1, <1>2, LookupFacts, CallbackGood
<1>4. /\ d.phase = "ready" /\ d.implementation_contract = con[o].implementation_contract
      /\ d.outcome = con[o].outcome /\ d.callback = "create"
  BY <1>1, <1>2 DEF ContractType
<1>5. con' = [con EXCEPT ![o] = d, ![<<o, "callback">>] = Opened(NestedArguments(o))]
  BY <1>1 DEF CallbackCreates, Inv
<1> HIDE DEF d
<1>6. "callback" \in Actor(o) /\ "callback" \notin Reader /\ ~Present(<<o, "callback">>)
  BY <1>1 DEF Actor, Inv, NestFits
<1>7. /\ <<o, "callback">> \in Object /\ <<o, "callback">> # o
      /\ con \in [Object -> ContractType]
  BY <1>1, <1>6, NestedObject DEF Inv
<1>8. Makes(o, "callback", d)
  BY <1>1, <1>2, <1>3, <1>4, <1>5, <1>6, <1>7 DEF Makes
<1> QED
  BY <1>1, <1>4, <1>6, <1>8, QuietNest DEF CallbackCreates

LEMMA CallbackCreatedStep == ASSUME Inv, NEW o \in Object, CallbackCreated(o) PROVE Inv'
<1> DEFINE c == [con[o] EXCEPT !.callback = "idle"]
           d == [c EXCEPT !.implementation_contract = <<o, "callback">>]
<1>1. o \in Obj /\ con[o].callback = "create" /\ con[o] \in ContractType
  BY DEF CallbackCreated, Inv
<1>2. /\ "callback" \in Actor(o) /\ <<o, "callback">> \in Object
      /\ con[<<o, "callback">>].phase = "ready"
  BY <1>1, NestedObject DEF Actor, CallbackCreated
<1>3. Good(c) /\ Grows(con[o], c)
  BY <1>1, LookupFacts, CallbackGood
<1>4. /\ c.phase = "ready" /\ c.outcome = con[o].outcome /\ c.callback = "idle"
      /\ c.implementation = con[o].implementation /\ con[o].implementation # None
  BY <1>1, LookupFacts DEF ContractType, Formed, LookupFits
<1>5. con' = [con EXCEPT ![o] = d]
  BY DEF CallbackCreated
<1> HIDE DEF c
<1>6. Good(d) /\ Grows(c, d)
  BY <1>2, <1>3, <1>4, PublishedGood
<1>7. /\ d.phase = c.phase /\ d.outcome = c.outcome /\ d.callback = c.callback
      /\ d.implementation_contract = <<o, "callback">>
  BY <1>3 DEF Good, ContractType
<1> HIDE DEF d
<1>8. Grows(con[o], d)
  BY <1>3, <1>6 DEF Grows
<1>9. Publishes(o, "callback", d)
  BY <1>2, <1>4, <1>5, <1>6, <1>7, <1>8 DEF Publishes
<1> QED
  BY <1>1, <1>4, <1>7, <1>9, QuietNest DEF CallbackCreated

-----------------------------------------------------------------------------
(* Readers.                                                                 *)

\* The frame a reader is in.
LEMMA TopFacts ==
    ASSUME Inv, NEW r \in Reader, frames[r] # <<>>
    PROVE  /\ Top(r) \in FrameType /\ Top(r).obj \in Object /\ FrameFits(Top(r))
           /\ Good(con[Top(r).obj]) /\ con[Top(r).obj] \in ContractType
           /\ Present(Top(r).obj) /\ ReadOf[r] \in Obj
           /\ Len(frames[r]) = 1 \/ Len(frames[r]) = 2
           /\ Len(frames[r]) = 1 =>
                  /\ frames[r] = <<Top(r)>> /\ Top(r) = frames[r][1]
                  /\ Top(r).obj = ReadOf[r] /\ Top(r).at # "inner"
           /\ Len(frames[r]) = 2 =>
                  /\ frames[r] = <<frames[r][1], Top(r)>>
                  /\ frames[r][1] \in FrameType /\ frames[r][1].at = "inner"
                  /\ frames[r][1].obj = ReadOf[r] /\ FrameFits(frames[r][1])
                  /\ Top(r).at \notin {"create", "inner", "overlay"}
                  /\ \E actor \in Actor(ReadOf[r]) : Top(r).obj = <<ReadOf[r], actor>>
<1>1. StackFits(r) /\ frames[r] \in Seq(FrameType) /\ ReadOf[r] \in Obj
  BY DEF Inv
<1>2. Len(frames[r]) = 1 \/ Len(frames[r]) = 2
  <2>1. Len(frames[r]) \in Nat /\ Len(frames[r]) # 0
    BY <1>1
  <2>2. Len(frames[r]) <= 2
    BY <1>1 DEF StackFits
  <2> HIDE DEF Inv
  <2> DEFINE n == Len(frames[r])
  <2>3. n \in Nat /\ n # 0 /\ n <= 2
    BY <2>1, <2>2
  <2> HIDE DEF n
  <2>4. n = 1 \/ n = 2
    BY <2>3
  <2> QED
    BY <2>4 DEF n
<1>3. Top(r) \in FrameType /\ FrameFits(Top(r))
  BY <1>1, <1>2 DEF Top, StackFits
<1>4. Top(r).obj \in Object
  BY <1>3 DEF FrameType
<1>5. Good(con[Top(r).obj]) /\ con[Top(r).obj] \in ContractType /\ Present(Top(r).obj)
  BY <1>3, <1>4 DEF Inv, FrameFits
<1>6. CASE Len(frames[r]) = 1
  <2>1. frames[r] = <<Top(r)>> /\ Top(r) = frames[r][1]
    BY <1>1, <1>6 DEF Top
  <2>2. Top(r).obj = ReadOf[r] /\ Top(r).at # "inner"
    BY <1>1, <1>6, <2>1 DEF StackFits
  <2> QED
    BY <1>1, <1>3, <1>4, <1>5, <1>6, <2>1, <2>2
<1>7. CASE Len(frames[r]) = 2
  <2>1. frames[r] = <<frames[r][1], Top(r)>> /\ Top(r) = frames[r][2]
    BY <1>1, <1>7 DEF Top
  <2>2. /\ frames[r][1] \in FrameType /\ frames[r][1].at = "inner"
        /\ frames[r][1].obj = ReadOf[r] /\ FrameFits(frames[r][1])
    BY <1>1, <1>7 DEF StackFits
  <2>3. /\ Top(r).at \notin {"create", "inner", "overlay"}
        /\ \E actor \in Actor(ReadOf[r]) : Top(r).obj = <<ReadOf[r], actor>>
    BY <1>1, <1>7, <2>1 DEF StackFits
  <2> QED
    BY <1>1, <1>3, <1>4, <1>5, <1>7, <2>1, <2>2, <2>3
<1> QED
  BY <1>2, <1>6, <1>7

\* The stacks a reader may have after a step.
LEMMA SingleFits ==
    ASSUME NEW r \in Reader, NEW f \in FrameType, frames'[r] = <<f>>, f.obj = ReadOf[r],
           FrameFits(f)', f.at # "inner",
           f.at = "overlay" => f.got \in Own(NestedArguments(ReadOf[r]))'
    PROVE  StackFits(r)'
  BY DEF StackFits

LEMMA DoubleFits ==
    ASSUME NEW r \in Reader, NEW f \in FrameType, NEW g \in FrameType,
           frames'[r] \in Seq(FrameType), Len(frames'[r]) = 2,
           frames'[r][1] = f, frames'[r][2] = g,
           f.obj = ReadOf[r], f.at = "inner", FrameFits(f)',
           \E actor \in Actor(ReadOf[r]) : g.obj = <<ReadOf[r], actor>>,
           g.at \notin {"create", "inner", "overlay"}, FrameFits(g)'
    PROVE  StackFits(r)'
  BY DEF StackFits

LEMMA FrameKept ==
    ASSUME AllGrow, NEW f \in FrameType, FrameFits(f)
    PROVE  FrameFits(f)'
<1>1. f.obj \in Object
  BY DEF FrameType
<1> QED
  BY <1>1 DEF FrameFits, AllGrow, Grows

\* A step of one reader that makes and publishes nothing.
LEMMA ReaderStep ==
    ASSUME Inv, NEW r \in Reader, NEW o \in Object, NEW d, OneChanges(o, d),
           d.callback = con[o].callback, UNCHANGED cache,
           NEW fs \in Seq(FrameType), frames' = [frames EXCEPT ![r] = fs], StackFits(r)',
           frames[r] = <<>> \/ Top(r).at # "create",
           answer' \in [Reader -> Failure \union {"none", "abi", "missing"}]
    PROVE  Inv'
<1>1. AllGrow /\ ContractsFit' /\ con'[o] = d /\ \A x \in Object \ {o} : con'[x] = con[x]
  BY ContractChanges DEF Inv, OneChanges
<1>2. CacheFits'
  BY <1>1, CacheKept
<1>3. frames \in [Reader -> Seq(FrameType)]
  BY DEF Inv
<1>4. ASSUME NEW s \in Reader, s # r PROVE StackFits(s)' /\ ReaderNestFits(s)'
  <2>1. frames'[s] = frames[s]
    BY <1>3, <1>4
  <2> QED
    BY <1>1, <2>1, StackKept, ReaderNestKept, ReaderNestsKept
<1>5. ReaderNestFits(r)'
  <2>1. ReadOf[r] \in Object /\ ReaderNestFits(r) /\ Grows(con[ReadOf[r]], con'[ReadOf[r]])
    BY <1>1 DEF Inv, AllGrow, Object
  <2>2. ~(Len(frames[r]) = 1 /\ frames[r][1].at = "create")
    BY DEF Top
  <2>3. Present(<<ReadOf[r], r>>)' => Present(<<ReadOf[r], r>>)
    BY ReaderNestsKept
  <2> QED
    BY <2>1, <2>2, <2>3 DEF ReaderNestFits, Grows
<1>6. frames' \in [Reader -> Seq(FrameType)]
  BY <1>3
<1> QED
  BY <1>1, <1>2, <1>4, <1>5, <1>6 DEF Inv, ContractsFit

LEMMA NothingChanges ==
    ASSUME Inv, NEW o \in Object, Present(o), UNCHANGED con
    PROVE  OneChanges(o, con[o])
<1>1. con' = [con EXCEPT ![o] = con[o]]
  BY DEF Inv
<1>2. con[o] \in ContractType /\ Good(con[o])
  BY DEF Inv
<1> QED
  BY <1>1, <1>2 DEF OneChanges, Grows

\* A reader goes from one place to the next on the same Contract.
LEMMA ReaderGoes ==
    ASSUME Inv, NEW r \in Reader, frames[r] # <<>>, Top(r).at # "create",
           NEW where \in {"enter", "resolve", "job", "wait", "adopt", "clear", "combine"},
           GoTo(r, where), UNCHANGED <<cache, answer>>,
           NEW d, OneChanges(Top(r).obj, d), d.callback = con[Top(r).obj].callback,
           where \in Taken => d.proxy_abi # None
    PROVE  Inv'
<1>1. PICK t \in FrameType, n \in {1, 2} :
          /\ t = Top(r) /\ t.obj \in Object /\ FrameFits(t) /\ n = Len(frames[r])
  BY TopFacts
<1>2. PICK f \in FrameType : f = [t EXCEPT !.at = where] /\ f.at = where /\ f.obj = t.obj
  <2>1. [t EXCEPT !.at = where] \in FrameType
    BY DEF FrameType
  <2>2. [t EXCEPT !.at = where].at = where /\ [t EXCEPT !.at = where].obj = t.obj
    BY DEF FrameType
  <2> QED
    BY <2>1, <2>2
<1>3. PICK fs \in Seq(FrameType) :
          fs = [frames[r] EXCEPT ![n] = f] /\ frames' = [frames EXCEPT ![r] = fs]
  <2>1. [frames[r] EXCEPT ![n] = f] \in Seq(FrameType)
    BY <1>1, <1>2 DEF Inv
  <2>2. frames' = [frames EXCEPT ![r] = [frames[r] EXCEPT ![n] = f]]
    BY <1>1, <1>2 DEF GoTo, Top
  <2> QED
    BY <2>1, <2>2
<1>4. frames'[r] = fs
  BY <1>3 DEF Inv
<1>5. AllGrow /\ con'[t.obj] = d
  BY <1>1, ContractChanges
<1>6. FrameFits(f)'
  BY <1>1, <1>2, <1>5 DEF FrameFits, AllGrow, Grows
<1>7. StackFits(r)'
  <2>1. CASE n = 1
    <3>1. frames[r] = <<t>> /\ t.obj = ReadOf[r]
      BY <1>1, <2>1, TopFacts
    <3>2. fs = <<f>>
      BY <1>3, <2>1, <3>1
    <3> QED
      BY <1>2, <1>4, <1>6, <3>1, <3>2, SingleFits
  <2>2. CASE n = 2
    <3>1. PICK e \in FrameType :
              /\ frames[r] = <<e, t>> /\ e.at = "inner" /\ e.obj = ReadOf[r]
              /\ FrameFits(e) /\ \E actor \in Actor(ReadOf[r]) : t.obj = <<ReadOf[r], actor>>
      <4>1. frames[r][1] \in FrameType
        BY <1>1, <2>2, TopFacts
      <4>2. /\ frames[r] = <<frames[r][1], t>> /\ frames[r][1].at = "inner"
            /\ frames[r][1].obj = ReadOf[r] /\ FrameFits(frames[r][1])
            /\ \E actor \in Actor(ReadOf[r]) : t.obj = <<ReadOf[r], actor>>
        BY <1>1, <2>2, TopFacts
      <4> QED
        BY <4>1, <4>2
    <3>2. fs = <<e, f>>
      BY <1>3, <2>2, <3>1
    <3>4. fs \in Seq(FrameType) /\ Len(fs) = 2 /\ fs[1] = e /\ fs[2] = f
      BY <3>2
    <3>3. FrameFits(e)'
      BY <1>5, <3>1, FrameKept
    <3> QED
      BY <1>2, <1>4, <1>6, <3>1, <3>3, <3>4, DoubleFits
  <2> QED
    BY <2>1, <2>2
<1>8. answer' \in [Reader -> Failure \union {"none", "abi", "missing"}]
  BY DEF Inv
<1> QED
  BY <1>1, <1>3, <1>7, <1>8, ReaderStep

LEMMA EmptyFits == ASSUME NEW r \in Reader, frames'[r] = <<>> PROVE StackFits(r)'
  BY DEF StackFits

\* The same place seen from the reader: where it is, the Contract it is at is ready.
LEMMA AtFacts ==
    ASSUME Inv, NEW r \in Reader, NEW where, At(r, where)
    PROVE  /\ frames[r] # <<>> /\ Top(r).at = where /\ Top(r).obj \in Object
           /\ con[Top(r).obj].phase = "ready" /\ Present(Top(r).obj)
           /\ Good(con[Top(r).obj]) /\ con[Top(r).obj] \in ContractType
           /\ Formed(con[Top(r).obj])
           /\ where \in Taken => con[Top(r).obj].proxy_abi # None
           /\ where \in {"create", "inner", "overlay"} =>
                  con[Top(r).obj].implementation # None
           /\ where \in {"create", "inner", "overlay"} => Len(frames[r]) = 1
<1>1. frames[r] # <<>> /\ Top(r).at = where
  BY DEF At
<1>2. FrameFits(Top(r)) /\ Good(con[Top(r).obj])
  BY <1>1, TopFacts
<1> QED
  BY <1>1, <1>2, TopFacts DEF FrameFits, Good

LEMMA ReadStep == ASSUME Inv, NEW r \in Reader, Read(r) PROVE Inv'
<1> DEFINE f == Enter(ReadOf[r])
<1>1. ReadOf[r] \in Obj /\ ReadOf[r] \in Object
  BY DEF Object
<1>2. con[ReadOf[r]].phase = "ready" /\ Present(ReadOf[r])
  BY DEF Read
<1>3. f \in FrameType /\ f.obj = ReadOf[r] /\ f.at = "enter"
  BY <1>1 DEF Enter, FrameType, Abi
<1>4. frames' = [frames EXCEPT ![r] = <<f>>] /\ UNCHANGED <<con, cache, answer>>
  BY DEF Read
<1> HIDE DEF f
<1>5. frames'[r] = <<f>> /\ <<f>> \in Seq(FrameType)
  BY <1>3, <1>4 DEF Inv
<1>6. FrameFits(f)'
  BY <1>2, <1>3, <1>4 DEF FrameFits, Taken, f, Enter
<1>7. StackFits(r)'
  BY <1>3, <1>5, <1>6, SingleFits DEF f, Enter
<1>8. answer' \in [Reader -> Failure \union {"none", "abi", "missing"}]
  BY <1>4 DEF Inv
<1> QED
  BY <1>1, <1>2, <1>4, <1>5, <1>7, <1>8, NothingChanges, ReaderStep DEF Read

\* The reader goes on, and no Contract changes.
LEMMA ReaderLooks ==
    ASSUME Inv, NEW r \in Reader, frames[r] # <<>>, Top(r).at # "create",
           NEW where \in {"enter", "resolve", "job", "wait", "adopt", "clear", "combine"},
           GoTo(r, where), UNCHANGED <<con, cache, answer>>,
           where \in Taken => con[Top(r).obj].proxy_abi # None
    PROVE  Inv'
<1>1. PICK o \in Object : o = Top(r).obj /\ Present(o)
  BY TopFacts
<1> QED
  BY <1>1, NothingChanges, ReaderGoes

LEMMA ResolveStep == ASSUME Inv, NEW r \in Reader, Resolve(r) PROVE Inv'
  BY AtFacts, ReaderLooks DEF Resolve, Taken

LEMMA CheckProxyStep == ASSUME Inv, NEW r \in Reader, CheckProxy(r) PROVE Inv'
<1>1. At(r, "resolve") /\ UNCHANGED <<con, cache, answer>>
  BY DEF CheckProxy
<1>2. CASE con[Top(r).obj].proxy_abi = None
  <2>1. GoTo(r, "job")
    BY <1>2 DEF CheckProxy
  <2> QED
    BY <1>1, <2>1, AtFacts, ReaderLooks DEF Taken
<1>3. CASE con[Top(r).obj].proxy_abi # None
  <2>1. GoTo(r, "combine")
    BY <1>3 DEF CheckProxy
  <2> QED
    BY <1>1, <1>3, <2>1, AtFacts, ReaderLooks
<1> QED
  BY <1>2, <1>3

LEMMA CheckJobStep == ASSUME Inv, NEW r \in Reader, CheckJob(r) PROVE Inv'
  BY AtFacts, ReaderLooks DEF CheckJob, Taken

\* A step of a reader on the record of its Contract.
LEMMA ReaderChanges ==
    ASSUME Inv, NEW r \in Reader, NEW from, At(r, from), NEW d,
           con' = [con EXCEPT ![Top(r).obj] = d], Good(d), Grows(con[Top(r).obj], d),
           d.implementation_contract = con[Top(r).obj].implementation_contract,
           d.phase = con[Top(r).obj].phase, d.outcome = con[Top(r).obj].outcome,
           d.callback = con[Top(r).obj].callback
    PROVE  OneChanges(Top(r).obj, d)
  BY AtFacts DEF OneChanges

LEMMA TakeResultStep == ASSUME Inv, NEW r \in Reader, TakeResult(r) PROVE Inv'
<1>1. PICK o \in Object : o = Top(r).obj
  BY AtFacts DEF TakeResult
<1> DEFINE d == [con[o] EXCEPT !.proxy_abi = Described("explorer", con[o].args.addr)]
<1>2. At(r, "wait") /\ con[o].outcome = "found" /\ GoTo(r, "adopt")
  BY <1>1 DEF TakeResult
<1>3. con' = [con EXCEPT ![o] = d] /\ UNCHANGED <<cache, answer>>
  BY <1>1 DEF TakeResult, Address
<1>4. Good(d) /\ Grows(con[o], d)
  BY <1>2, LookupFacts, TakeResultGood
<1>5. con[o].args.addr \in Addr /\ con[o] \in ContractType
  BY <1>2, LookupFacts
<1>6. /\ d.implementation_contract = con[o].implementation_contract
      /\ d.phase = con[o].phase /\ d.outcome = con[o].outcome
      /\ d.callback = con[o].callback /\ d.proxy_abi # None
  BY <1>5, DescribedAbi DEF ContractType
<1> HIDE DEF d
<1>7. PICK e : e = d
  OBVIOUS
<1>8. OneChanges(Top(r).obj, e)
  BY <1>1, <1>2, <1>3, <1>4, <1>6, <1>7, ReaderChanges
<1> QED
  BY <1>1, <1>2, <1>3, <1>6, <1>7, <1>8, AtFacts, ReaderGoes

LEMMA TakeNotFoundStep == ASSUME Inv, NEW r \in Reader, TakeNotFound(r) PROVE Inv'
<1>1. PICK o \in Object : o = Top(r).obj
  BY AtFacts DEF TakeNotFound
<1>2. /\ At(r, "wait") /\ con[o].outcome = "notfound" /\ con[o].implementation # None
      /\ GoTo(r, "clear") /\ UNCHANGED <<cache, answer>>
  BY <1>1 DEF TakeNotFound
<1>3. PICK d : d = [con[o] EXCEPT !.proxy_abi = {}]
  OBVIOUS
<1>4. con' = [con EXCEPT ![o] = d]
  BY <1>1, <1>3 DEF TakeNotFound, Inv
<1>5. Good(d) /\ Grows(con[o], d)
  BY <1>2, <1>3, LookupFacts, TakeNotFoundGood
<1>6. {} # None
  BY DEF Abi
<1>7. /\ d.implementation_contract = con[o].implementation_contract
      /\ d.phase = con[o].phase /\ d.outcome = con[o].outcome
      /\ d.callback = con[o].callback /\ d.proxy_abi # None
  BY <1>2, <1>3, <1>6, LookupFacts DEF ContractType
<1>8. OneChanges(Top(r).obj, d)
  BY <1>1, <1>2, <1>4, <1>5, <1>7, ReaderChanges
<1> QED
  BY <1>1, <1>2, <1>7, <1>8, AtFacts, ReaderGoes

LEMMA ReaderAdoptsStep == ASSUME Inv, NEW r \in Reader, ReaderAdopts(r) PROVE Inv'
<1>1. PICK o \in Object : o = Top(r).obj
  BY AtFacts DEF ReaderAdopts
<1>2. At(r, "adopt") /\ GoTo(r, "clear") /\ UNCHANGED <<cache, answer>>
  BY DEF ReaderAdopts
<1>3. /\ con[o] \in ContractType /\ Good(con[o]) /\ Formed(con[o])
      /\ con[o].phase = "ready" /\ con[o].proxy_abi # None /\ ~con[o].args.explicit
  BY <1>1, <1>2, AtFacts DEF Formed, ExplicitAlone, Taken
<1>4. PICK given \in {None, Told(con[o].args), con[o].implementation} :
          /\ given = IF con[o].implementation = None THEN Reported(o)
                     ELSE con[o].implementation
          /\ con[o].implementation = None => given \in {None, Told(con[o].args)}
  BY DEF Reported, Address, Told, Forced
<1>5. PICK d : d = [con[o] EXCEPT !.implementation = given]
  OBVIOUS
<1>6. con' = [con EXCEPT ![o] = d]
  BY <1>1, <1>4, <1>5 DEF ReaderAdopts, Inv
<1>7. Good(d) /\ Grows(con[o], d)
  <2>1. CASE con[o].implementation = None
    BY <1>3, <1>4, <1>5, <2>1, AdoptGood
  <2>2. CASE con[o].implementation # None
    <3>1. d = con[o]
      BY <1>3, <1>4, <1>5, <2>2 DEF ContractType
    <3> QED
      BY <1>3, <3>1 DEF Grows
  <2> QED
    BY <2>1, <2>2
<1>8. /\ d.implementation_contract = con[o].implementation_contract
      /\ d.phase = con[o].phase /\ d.outcome = con[o].outcome
      /\ d.callback = con[o].callback /\ d.proxy_abi # None
  BY <1>3, <1>5 DEF ContractType
<1>9. OneChanges(Top(r).obj, d)
  BY <1>1, <1>2, <1>6, <1>7, <1>8, ReaderChanges
<1> QED
  BY <1>1, <1>2, <1>8, <1>9, AtFacts, ReaderGoes

LEMMA ClearJobStep == ASSUME Inv, NEW r \in Reader, ClearJob(r) PROVE Inv'
<1>1. PICK o \in Object : o = Top(r).obj
  BY AtFacts DEF ClearJob
<1>2. At(r, "clear") /\ GoTo(r, "combine") /\ UNCHANGED <<cache, answer>>
  BY DEF ClearJob
<1>3. /\ con[o] \in ContractType /\ Good(con[o])
      /\ con[o].phase = "ready" /\ con[o].proxy_abi # None
  BY <1>1, <1>2, AtFacts DEF Taken
<1>4. PICK d : d = [con[o] EXCEPT !.abi_job = FALSE]
  OBVIOUS
<1>5. con' = [con EXCEPT ![o] = d]
  BY <1>1, <1>4 DEF ClearJob
<1>6. Good(d) /\ Grows(con[o], d)
  BY <1>3, <1>4, NoJobGood
<1>7. /\ d.implementation_contract = con[o].implementation_contract
      /\ d.phase = con[o].phase /\ d.outcome = con[o].outcome
      /\ d.callback = con[o].callback /\ d.proxy_abi # None
  BY <1>3, <1>4 DEF ContractType
<1>8. OneChanges(Top(r).obj, d)
  BY <1>1, <1>2, <1>5, <1>6, <1>7, ReaderChanges
<1> QED
  BY <1>1, <1>2, <1>7, <1>8, AtFacts, ReaderGoes

LEMMA InstallPlainStep == ASSUME Inv, NEW r \in Reader, InstallPlain(r) PROVE Inv'
<1>1. PICK o \in Object : o = Top(r).obj
  BY AtFacts DEF InstallPlain
<1>2. /\ At(r, "combine") /\ GoTo(r, "enter") /\ UNCHANGED <<cache, answer>>
      /\ con[o].implementation = None
  BY <1>1 DEF InstallPlain
<1>3. /\ con[o] \in ContractType /\ Good(con[o])
      /\ con[o].phase = "ready" /\ con[o].proxy_abi # None
  BY <1>1, <1>2, AtFacts DEF Taken
<1>4. PICK d : d = [con[o] EXCEPT !.abi = con[o].proxy_abi]
  OBVIOUS
<1>5. con' = [con EXCEPT ![o] = d]
  BY <1>1, <1>4 DEF InstallPlain, Install
<1>6. Good(d) /\ Grows(con[o], d)
  BY <1>2, <1>3, <1>4, InstallPlainGood
<1>7. /\ d.implementation_contract = con[o].implementation_contract
      /\ d.phase = con[o].phase /\ d.outcome = con[o].outcome
      /\ d.callback = con[o].callback
  BY <1>3, <1>4 DEF ContractType
<1>8. OneChanges(Top(r).obj, d)
  BY <1>1, <1>2, <1>5, <1>6, <1>7, ReaderChanges
<1> QED
  BY <1>1, <1>2, <1>7, <1>8, AtFacts, ReaderGoes DEF Taken

LEMMA InstallOverlayStep == ASSUME Inv, NEW r \in Reader, InstallOverlay(r) PROVE Inv'
<1>1. PICK o \in Obj, got \in Abi :
          o = Top(r).obj /\ got = Top(r).got /\ got \in Own(NestedArguments(o))
  <2>1. At(r, "overlay")
    BY DEF InstallOverlay
  <2>2. Len(frames[r]) = 1
    BY <2>1, AtFacts
  <2>3. /\ Top(r).obj = ReadOf[r] /\ Top(r) = frames[r][1] /\ frames[r][1].at = "overlay"
        /\ Top(r).got \in Abi
    BY <2>1, <2>2, AtFacts, TopFacts DEF FrameType
  <2>4. Top(r).got \in Own(NestedArguments(ReadOf[r]))
    BY <2>2, <2>3 DEF Inv, StackFits
  <2> QED
    BY <2>3, <2>4
<1>2. At(r, "overlay") /\ GoTo(r, "enter") /\ UNCHANGED <<cache, answer>>
  BY DEF InstallOverlay
<1>3. /\ con[o] \in ContractType /\ Good(con[o]) /\ con[o].phase = "ready"
      /\ con[o].proxy_abi # None /\ con[o].implementation # None
  BY <1>1, <1>2, AtFacts DEF Taken
<1>4. PICK d : d = [con[o] EXCEPT !.abi = got \union con[o].proxy_abi]
  OBVIOUS
<1>5. con' = [con EXCEPT ![o] = d]
  BY <1>1, <1>4 DEF InstallOverlay, Install, Overlay
<1>6. Good(d) /\ Grows(con[o], d)
  <2>1. NestedArguments(o) \in ArgumentType
    BY <1>3, NestedArgumentsFit DEF ArgumentsFit
  <2>2. /\ NestedArguments(o).addr = con[o].implementation
        /\ NestedArguments(o).refresh = con[o].args.refresh
    BY DEF NestedArguments
  <2> QED
    BY <1>1, <1>3, <1>4, <2>1, <2>2, InstallOverlayGood
<1>7. /\ d.implementation_contract = con[o].implementation_contract
      /\ d.phase = con[o].phase /\ d.outcome = con[o].outcome
      /\ d.callback = con[o].callback
  BY <1>3, <1>4 DEF ContractType
<1>8. OneChanges(Top(r).obj, d)
  BY <1>1, <1>2, <1>5, <1>6, <1>7, ReaderChanges
<1> QED
  BY <1>1, <1>2, <1>7, <1>8, AtFacts, ReaderGoes DEF Taken

LEMMA MissingStep == ASSUME Inv, NEW r \in Reader, Missing(r) PROVE Inv'
<1>1. PICK o \in Object : o = Top(r).obj /\ Present(o)
  BY AtFacts DEF Missing
<1>2. Top(r).at # "create" /\ frames' = [frames EXCEPT ![r] = <<>>]
  BY DEF Missing, At, Raise
<1>3. frames'[r] = <<>> /\ <<>> \in Seq(FrameType)
  BY <1>2 DEF Inv
<1>4. answer' \in [Reader -> Failure \union {"none", "abi", "missing"}]
  BY DEF Missing, Raise, Inv
<1> QED
  BY <1>1, <1>2, <1>3, <1>4, EmptyFits, NothingChanges, ReaderStep DEF Missing

LEMMA TakeFailureStep == ASSUME Inv, NEW r \in Reader, TakeFailure(r) PROVE Inv'
<1>1. PICK o \in Object : o = Top(r).obj
  BY AtFacts DEF TakeFailure
<1>2. /\ At(r, "wait") /\ con[o].outcome \in Failure /\ UNCHANGED cache
      /\ frames' = [frames EXCEPT ![r] = <<>>]
      /\ answer' = [answer EXCEPT ![r] = con[o].outcome]
  BY <1>1 DEF TakeFailure, Raise
<1>3. con[o] \in ContractType /\ Good(con[o]) /\ con[o].phase = "ready"
  BY <1>1, <1>2, AtFacts
<1>4. PICK d : d = [con[o] EXCEPT !.abi_job = FALSE]
  OBVIOUS
<1>5. con' = [con EXCEPT ![o] = d]
  BY <1>1, <1>4 DEF TakeFailure
<1>6. Good(d) /\ Grows(con[o], d)
  BY <1>2, <1>3, <1>4, NoJobGood
<1>7. /\ d.implementation_contract = con[o].implementation_contract
      /\ d.phase = con[o].phase /\ d.outcome = con[o].outcome
      /\ d.callback = con[o].callback
  BY <1>3, <1>4 DEF ContractType
<1>8. OneChanges(o, d)
  BY <1>1, <1>2, <1>5, <1>6, <1>7, ReaderChanges
<1>9. frames'[r] = <<>> /\ <<>> \in Seq(FrameType) /\ Top(r).at # "create"
  BY <1>2 DEF Inv, At
<1>10. answer' \in [Reader -> Failure \union {"none", "abi", "missing"}]
  BY <1>2 DEF Inv
<1> QED
  BY <1>2, <1>7, <1>8, <1>9, <1>10, EmptyFits, ReaderStep

\* The Contract a second frame is of has no implementation, and only its own ABI.
LEMMA NestedFacts ==
    ASSUME Inv, NEW o \in Obj, NEW actor \in Actor(o), Present(<<o, actor>>)
    PROVE  LET n == <<o, actor>> IN
           /\ con[n].implementation = None /\ con[n].implementation_contract = None
           /\ con[n].abi # None => con[n].abi \in Own(NestedArguments(o))
<1>1. PICK n \in Object : n = <<o, actor>>
  BY NestedObject
<1>2. con[o].implementation # None /\ con[n].args = NestedArguments(o)
  BY <1>1 DEF Inv, NestFits
<1>3. Formed(con[n])
  BY <1>1 DEF Inv, Good
<1>4. Told(con[n].args) = None /\ ~con[n].args.explicit
  BY <1>2, NestedArgumentsFit DEF NestedArguments
<1> QED
  BY <1>1, <1>2, <1>3, <1>4 DEF Formed, ImplementationFits, InstalledFits

LEMMA ReturnStep == ASSUME Inv, NEW r \in Reader, Return(r) PROVE Inv'
<1>1. PICK n \in Object : n = Top(r).obj /\ Present(n) /\ con[n].abi # None
  BY AtFacts DEF Return
<1>2. At(r, "enter") /\ Top(r).at # "create" /\ frames[r] # <<>> /\ UNCHANGED <<con, cache>>
  BY DEF Return, At
<1>3. OneChanges(n, con[n])
  BY <1>1, <1>2, NothingChanges
<1>4. CASE Len(frames[r]) = 1
  <2>1. frames' = [frames EXCEPT ![r] = <<>>] /\ answer' = [answer EXCEPT ![r] = "abi"]
    BY <1>4 DEF Return
  <2>2. frames'[r] = <<>> /\ <<>> \in Seq(FrameType)
    BY <2>1 DEF Inv
  <2>3. answer' \in [Reader -> Failure \union {"none", "abi", "missing"}]
    BY <2>1 DEF Inv
  <2> QED
    BY <1>2, <1>3, <2>1, <2>2, <2>3, EmptyFits, ReaderStep
<1>5. CASE Len(frames[r]) = 2
  <2>1. PICK e \in FrameType :
            e = frames[r][1] /\ e.at = "inner" /\ e.obj = ReadOf[r] /\ FrameFits(e)
    <3>1. frames[r][1] \in FrameType
      BY <1>2, <1>5, TopFacts
    <3>2. /\ frames[r][1].at = "inner" /\ frames[r][1].obj = ReadOf[r]
          /\ FrameFits(frames[r][1])
      BY <1>2, <1>5, TopFacts
    <3> QED
      BY <3>1, <3>2
  <2>2. con[n].abi \in Own(NestedArguments(ReadOf[r])) /\ con[n].abi \in Abi
    <3>1. PICK actor \in Actor(ReadOf[r]) : n = <<ReadOf[r], actor>>
      BY <1>1, <1>2, <1>5, TopFacts
    <3>2. ReadOf[r] \in Obj
      OBVIOUS
    <3>3. con[n].abi \in Abi
      BY <1>1 DEF Inv, ContractType
    <3> QED
      BY <1>1, <3>1, <3>2, <3>3, NestedFacts
  <2>3. PICK f : f = [e EXCEPT !.at = "overlay", !.got = con[n].abi]
    OBVIOUS
  <2>4. /\ f \in FrameType /\ f.at = "overlay" /\ f.got = con[n].abi /\ f.obj = ReadOf[r]
    BY <2>1, <2>2, <2>3 DEF FrameType
  <2>5. frames' = [frames EXCEPT ![r] = <<f>>] /\ UNCHANGED answer
    BY <1>1, <1>5, <2>1, <2>3 DEF Return, Inv
  <2>6. frames'[r] = <<f>> /\ <<f>> \in Seq(FrameType)
    BY <2>4, <2>5 DEF Inv
  <2>7. FrameFits(f)'
    BY <1>2, <2>1, <2>4 DEF FrameFits, Taken
  <2>8. f.got \in Own(NestedArguments(ReadOf[r]))'
    BY <1>2, <2>2, <2>4 DEF NestedArguments
  <2>9. StackFits(r)'
    BY <2>4, <2>6, <2>7, <2>8, SingleFits
  <2>10. answer' \in [Reader -> Failure \union {"none", "abi", "missing"}]
    BY <2>5 DEF Inv
  <2> QED
    BY <1>2, <1>3, <2>5, <2>6, <2>9, <2>10, ReaderStep
<1> QED
  BY <1>2, <1>4, <1>5, TopFacts

LEMMA ShortStacks ==
    ASSUME NEW t \in FrameType, NEW where
    PROVE  [<<t>> EXCEPT ![1].at = where] = <<[t EXCEPT !.at = where]>>
<1>1. PICK e : e = [t EXCEPT !.at = where]
  OBVIOUS
<1>2. [<<t>> EXCEPT ![1] = e] = <<e>>
  OBVIOUS
<1>3. <<t>>[1] = t
  OBVIOUS
<1>4. [<<t>> EXCEPT ![1].at = where] = <<e>>
  BY <1>1, <1>2, <1>3
<1> QED
  BY <1>1, <1>4

LEMMA DescendStep == ASSUME Inv, NEW r \in Reader, Descend(r) PROVE Inv'
<1>1. PICK o \in Object : o = Top(r).obj /\ Present(o)
  BY AtFacts DEF Descend
<1>2. PICK x : x = con[o].implementation_contract /\ x # None
  BY <1>1 DEF Descend
<1>3. /\ At(r, "combine") /\ frames[r] # <<>> /\ Top(r).at = "combine"
      /\ UNCHANGED <<con, cache, answer>>
  BY DEF Descend, At
<1>4. Len(frames[r]) = 1
  <2>1. SUFFICES ASSUME Len(frames[r]) = 2 PROVE FALSE
    BY <1>3, TopFacts
  <2>2. PICK actor \in Actor(ReadOf[r]) : o = <<ReadOf[r], actor>>
    BY <1>1, <1>3, <2>1, TopFacts
  <2> QED
    BY <1>1, <1>2, <2>2, NestedFacts
<1>5. PICK t \in FrameType : t = Top(r) /\ frames[r] = <<t>> /\ FrameFits(t) /\ o = ReadOf[r]
  BY <1>1, <1>3, <1>4, TopFacts
<1>6. PICK actor \in Actor(o) : x = <<o, actor>> /\ con[x].phase = "ready" /\ o \in Obj
  BY <1>2, <1>5 DEF Inv, NestFits
<1>7. PICK e, f : e = [t EXCEPT !.at = "inner"] /\ f = Enter(x)
  OBVIOUS
<1>8. e \in FrameType /\ e.at = "inner" /\ e.obj = o
  BY <1>1, <1>5, <1>7 DEF FrameType
<1>9. f \in FrameType /\ f.at = "enter" /\ f.obj = x
  <2>1. x \in Object
    BY <1>6, NestedObject
  <2> QED
    BY <1>7, <2>1 DEF Enter, FrameType, Abi
<1>10. PICK fs : fs = Append(<<e>>, f)
  OBVIOUS
<1>11. /\ fs \in Seq(FrameType) /\ Len(fs) = 2 /\ fs[1] = e /\ fs[2] = f
       /\ frames' = [frames EXCEPT ![r] = fs] /\ frames'[r] = fs
  <2>1. [frames[r] EXCEPT ![Len(frames[r])].at = "inner"] = <<e>>
    BY <1>4, <1>5, <1>7, ShortStacks
  <2>2. frames' = [frames EXCEPT ![r] = fs]
    BY <1>1, <1>2, <1>7, <1>10, <2>1 DEF Descend
  <2>3. fs \in Seq(FrameType) /\ Len(fs) = 2 /\ fs[1] = e /\ fs[2] = f
    BY <1>8, <1>9, <1>10
  <2> QED
    BY <2>2, <2>3 DEF Inv
<1>12. FrameFits(e)' /\ FrameFits(f)'
  <2>1. con[o].phase = "ready" /\ con[o].proxy_abi # None
    BY <1>1, <1>3, AtFacts DEF Taken
  <2>2. con[o].implementation # None
    BY <1>2, <1>1 DEF Inv, Good, Formed, ImplementationFits
  <2> QED
    BY <1>3, <1>6, <1>8, <1>9, <2>1, <2>2 DEF FrameFits, Taken
<1>13. StackFits(r)'
  BY <1>5, <1>6, <1>8, <1>9, <1>11, <1>12, DoubleFits
<1>14. answer' \in [Reader -> Failure \union {"none", "abi", "missing"}]
  BY <1>3 DEF Inv
<1>15. OneChanges(o, con[o])
  BY <1>1, <1>3, NothingChanges
<1> QED
  BY <1>3, <1>11, <1>13, <1>14, <1>15, ReaderStep

\* A reader makes or publishes the nested Contract, and nobody else moves.
LEMMA ReaderNests ==
    ASSUME Inv, NEW r \in Reader, NEW from \in {"combine", "create"}, At(r, from),
           Len(frames[r]) = 1, NEW where \in {"combine", "create"}, GoTo(r, where),
           UNCHANGED <<cache, answer>>, NEW o \in Obj, o = ReadOf[r],
           NEW d, d.callback = con[o].callback,
           (Makes(o, r, d) /\ where = "create") \/ Publishes(o, r, d)
    PROVE  Inv'
<1>1. o \in Object /\ con \in [Object -> ContractType]
  BY DEF Object, Inv
<1>2. /\ AllGrow /\ ContractsFit' /\ con'[o] = d
      /\ \A x \in Object : x # o => con'[x] = con[x] \/ x = <<o, r>>
  BY EitherNest
<1>3. \A x \in Object : con'[x].callback = "implementation" =>
                            con[x].callback = "implementation"
  BY EitherNest
<1>4. CacheFits'
  BY <1>2, <1>3, CacheKept
<1>5. PICK t \in FrameType :
          /\ t = Top(r) /\ frames[r] = <<t>> /\ FrameFits(t) /\ t.at = from /\ t.obj = o
  BY <1>1, AtFacts, TopFacts
<1>6. PICK f : f = [t EXCEPT !.at = where]
  OBVIOUS
<1>7. f \in FrameType /\ f.at = where /\ f.obj = o
  BY <1>1, <1>5, <1>6 DEF FrameType
<1>8. frames' = [frames EXCEPT ![r] = <<f>>]
  <2>1. [frames[r] EXCEPT ![Len(frames[r])].at = where] = <<f>>
    BY <1>5, <1>6, ShortStacks
  <2> QED
    BY <2>1 DEF GoTo
<1>9. frames'[r] = <<f>> /\ frames' \in [Reader -> Seq(FrameType)]
  BY <1>7, <1>8 DEF Inv
<1>10. FrameFits(f)'
  <2>1. con[o].phase = "ready" /\ con[o].proxy_abi # None
    BY <1>5, AtFacts DEF Taken
  <2>2. con[o].implementation # None \/ where = "combine"
    BY <1>1 DEF Publishes, Makes, Inv, NestFits
  <2> QED
    BY <1>1, <1>2, <1>7, <2>1, <2>2 DEF FrameFits, Taken, AllGrow, Grows
<1>11. StackFits(r)'
  BY <1>1, <1>7, <1>9, <1>10, SingleFits
<1>12. ReaderNestFits(r)'
  <2>1. CASE Makes(o, r, d) /\ where = "create"
    BY <1>1, <1>7, <1>9, <2>1 DEF ReaderNestFits
  <2>2. CASE Publishes(o, r, d)
    <3>1. con'[o].implementation_contract = <<o, r>> /\ <<o, r>> \in Object
      BY <1>1, <1>2, <2>2, NestedObject DEF Publishes
    <3> QED
      BY <1>1, <3>1 DEF ReaderNestFits
  <2> QED
    BY <1>1, <2>1, <2>2
<1>13. ASSUME NEW s \in Reader, s # r PROVE StackFits(s)' /\ ReaderNestFits(s)'
  <2>1. frames'[s] = frames[s]
    BY <1>8, <1>13 DEF Inv
  <2>2. ReadOf[s] \in Obj /\ <<ReadOf[s], s>> \in Object /\ <<ReadOf[s], s>> # o
    <3>1. ReadOf[s] \in Obj /\ s \in Actor(ReadOf[s])
      BY DEF Actor
    <3> QED
      BY <1>1, <3>1, NestedObject
  <2>3. con'[<<ReadOf[s], s>>] = con[<<ReadOf[s], s>>]
    BY <1>2, <1>13, <2>2
  <2> QED
    BY <1>2, <2>1, <2>3, StackKept, ReaderNestKept
<1> QED
  BY <1>2, <1>4, <1>9, <1>11, <1>12, <1>13 DEF Inv, ContractsFit

LEMMA ReaderCreatesStep == ASSUME Inv, NEW r \in Reader, ReaderCreates(r) PROVE Inv'
<1>1. PICK o \in Obj : o = Top(r).obj
  BY DEF ReaderCreates
<1>2. /\ At(r, "combine") /\ GoTo(r, "create") /\ UNCHANGED <<cache, answer>>
      /\ con[o].implementation # None /\ con[o].implementation_contract = None
      /\ con' = [con EXCEPT ![<<o, r>>] = Opened(NestedArguments(o))]
  BY <1>1 DEF ReaderCreates
<1>3. Len(frames[r]) = 1 /\ ReadOf[r] = o /\ frames[r][1].at = "combine"
  <2>1. Len(frames[r]) # 2
    <3>1. SUFFICES ASSUME Len(frames[r]) = 2 PROVE FALSE
      OBVIOUS
    <3>2. PICK actor \in Actor(ReadOf[r]) : o = <<ReadOf[r], actor>>
      BY <1>1, <1>2, <3>1, AtFacts, TopFacts
    <3> QED
      BY <3>2
  <2> QED
    BY <1>1, <1>2, <2>1, AtFacts, TopFacts
<1>4. r \in Actor(o) /\ <<o, r>> \in Object /\ <<o, r>> # o /\ o \in Object
  BY <1>3, NestedObject DEF Actor, Object
<1>5. ~Present(<<o, r>>)
  <2>1. ReaderNestFits(r)
    BY DEF Inv
  <2> QED
    BY <1>2, <1>3, <2>1 DEF ReaderNestFits
<1>6. PICK d : d = con[o]
  OBVIOUS
<1>7. /\ Good(d) /\ Grows(con[o], d) /\ d.phase = "ready"
      /\ d.implementation_contract = con[o].implementation_contract
      /\ d.outcome = con[o].outcome /\ d.callback = con[o].callback
  BY <1>1, <1>2, <1>6, AtFacts DEF Grows
<1>8. con' = [x \in Object |-> IF x = <<o, r>> THEN Opened(NestedArguments(o))
                               ELSE IF x = o THEN d ELSE con[x]]
  <2>1. con \in [Object -> ContractType]
    BY DEF Inv
  <2> QED
    BY <1>2, <1>4, <1>6, <2>1
<1>9. Makes(o, r, d)
  BY <1>2, <1>4, <1>5, <1>7, <1>8 DEF Makes
<1> QED
  BY <1>2, <1>3, <1>7, <1>9, ReaderNests

LEMMA ReaderCreatedStep == ASSUME Inv, NEW r \in Reader, ReaderCreated(r) PROVE Inv'
<1>1. Len(frames[r]) = 1 /\ Top(r).obj = ReadOf[r] /\ At(r, "create")
  BY AtFacts, TopFacts DEF ReaderCreated
<1>2. PICK o \in Obj : o = ReadOf[r] /\ o \in Object
  BY DEF Object
<1>3. /\ GoTo(r, "combine") /\ UNCHANGED <<cache, answer>>
      /\ con[<<o, r>>].phase = "ready"
      /\ con' = [con EXCEPT ![o].implementation_contract = <<o, r>>]
  BY <1>1, <1>2 DEF ReaderCreated
<1>4. r \in Actor(o) /\ <<o, r>> \in Object
  BY <1>2, NestedObject DEF Actor
<1>5. PICK d : d = [con[o] EXCEPT !.implementation_contract = <<o, r>>]
  OBVIOUS
<1>6. con[o] \in ContractType /\ con[o].implementation # None /\ con[o].phase = "ready"
  BY <1>1, <1>2, AtFacts
<1>7. Good(d) /\ Grows(con[o], d)
  <2>1. Good(con[o])
    BY <1>2 DEF Inv
  <2> QED
    BY <1>4, <1>5, <1>6, <2>1, PublishedGood
<1>8. /\ d.implementation_contract = <<o, r>> /\ d.phase = "ready"
      /\ d.outcome = con[o].outcome /\ d.callback = con[o].callback
  BY <1>5, <1>6 DEF ContractType
<1>9. con' = [con EXCEPT ![o] = d]
  BY <1>3, <1>5
<1>10. Publishes(o, r, d)
  BY <1>3, <1>4, <1>7, <1>8, <1>9 DEF Publishes
<1> QED
  BY <1>1, <1>2, <1>3, <1>8, <1>10, ReaderNests

-----------------------------------------------------------------------------
(* The specification.                                                       *)

LEMMA InitInv == ASSUME Init PROVE Inv
<1>1. con = [o \in Object |-> Absent] /\ con \in [Object -> ContractType]
  BY AbsentGood DEF Init
<1>2. \A o \in Object : con[o] = Absent /\ con[o].phase = "absent" /\ Good(con[o])
  <2>1. Absent.phase = "absent"
    BY DEF Absent
  <2> QED
    BY <1>1, <2>1, AbsentGood
<1>3. ASSUME NEW o \in Obj PROVE NestFits(o)
  <2>1. con[o] = Absent /\ \A actor \in Actor(o) : ~Present(<<o, actor>>)
    <3>1. o \in Object /\ \A actor \in Actor(o) : <<o, actor>> \in Object
      BY NestedObject DEF Object
    <3> QED
      BY <1>2, <3>1
  <2>2. "new" \in Actor(o) /\ "callback" \in Actor(o)
    BY DEF Actor
  <2> QED
    BY <2>1, <2>2 DEF NestFits, Absent
<1>4. ASSUME NEW r \in Reader PROVE StackFits(r) /\ ReaderNestFits(r)
  <2>1. frames[r] = <<>> /\ r \in Actor(ReadOf[r])
    BY DEF Init, Actor
  <2>2. ~Present(<<ReadOf[r], r>>)
    BY <1>2, <2>1, NestedObject DEF Absent
  <2> QED
    BY <2>1, <2>2 DEF StackFits, ReaderNestFits
<1>5. CacheFits
  BY <1>2 DEF Init, CacheFits, CacheIsSound, Absent
<1>6. /\ frames \in [Reader -> Seq(FrameType)]
      /\ answer \in [Reader -> Failure \union {"none", "abi", "missing"}]
  BY DEF Init
<1> QED
  BY <1>1, <1>2, <1>3, <1>4, <1>5, <1>6 DEF Inv

LEMMA RestartStep == ASSUME Inv, Restart PROVE Inv'
<1>1. con' = [o \in Object |-> Absent] /\ con' \in [Object -> ContractType]
  BY AbsentGood DEF Restart
<1>2. \A o \in Object : con'[o] = Absent /\ con'[o].phase = "absent" /\ Good(con'[o])
  <2>1. Absent.phase = "absent"
    BY DEF Absent
  <2> QED
    BY <1>1, <2>1, AbsentGood
<1>3. ASSUME NEW o \in Obj PROVE NestFits(o)'
  <2>1. con'[o] = Absent /\ \A actor \in Actor(o) : ~Present(<<o, actor>>)'
    <3>1. o \in Object /\ \A actor \in Actor(o) : <<o, actor>> \in Object
      BY NestedObject DEF Object
    <3> QED
      BY <1>2, <3>1
  <2>2. "new" \in Actor(o) /\ "callback" \in Actor(o)
    BY DEF Actor
  <2> QED
    BY <2>1, <2>2 DEF NestFits, Absent
<1>4. ASSUME NEW r \in Reader PROVE StackFits(r)' /\ ReaderNestFits(r)'
  <2>1. frames'[r] = <<>> /\ r \in Actor(ReadOf[r])
    BY DEF Restart, Actor
  <2>2. ~Present(<<ReadOf[r], r>>)'
    BY <1>2, <2>1, NestedObject DEF Absent
  <2> QED
    BY <2>1, <2>2 DEF StackFits, ReaderNestFits
<1>5. CacheFits'
  BY <1>2 DEF Restart, Inv, CacheFits, CacheIsSound, Absent
<1>6. /\ frames' \in [Reader -> Seq(FrameType)]
      /\ answer' \in [Reader -> Failure \union {"none", "abi", "missing"}]
  BY DEF Restart
<1> QED
  BY <1>1, <1>2, <1>3, <1>4, <1>5, <1>6 DEF Inv

LEMMA StutterStep == ASSUME Inv, UNCHANGED vars PROVE Inv'
<1>1. UNCHANGED <<con, cache, frames, answer>>
  BY DEF vars
<1>2. CacheFits'
  BY <1>1 DEF Inv, CacheFits, CacheIsSound, Address
<1>3. \A r \in Reader : StackFits(r)' /\ ReaderNestFits(r)'
  BY <1>1, ZenonT(60) DEF Inv, StackFits, FrameFits, ReaderNestFits, NestedArguments
<1>4. \A o \in Obj : NestFits(o)'
  BY <1>1 DEF Inv, NestFits, NestedArguments
<1> QED
  BY <1>1, <1>2, <1>3, <1>4 DEF Inv

LEMMA InvStep == Inv /\ [Next]_vars => Inv'
<1> SUFFICES ASSUME Inv, [Next]_vars PROVE Inv'
  OBVIOUS
<1>1. ASSUME NEW o \in Obj, NEW g \in Arguments[o], Construct(o, g) PROVE Inv'
  BY <1>1, ConstructStep
<1>2. ASSUME NEW o \in Object, Constructor(o) PROVE Inv'
  BY <1>2, KeepExplicitStep, FromCacheStep, UnavailableStep, UseForcedStep, FetchStep,
     FinishCachedStep, NewCreatesStep, NewCreatedStep DEF Constructor
<1>3. ASSUME NEW o \in Object, Worker(o) PROVE Inv'
  BY <1>3, SettleStep, CacheAbiStep, CacheImplementationStep, CallbackAdoptsStep,
     CallbackSkipsStep, CallbackCreatesStep, CallbackCreatedStep DEF Worker
<1>4. ASSUME NEW r \in Reader, Read(r) PROVE Inv'
  BY <1>4, ReadStep
<1>5. ASSUME NEW r \in Reader, GetAttribute(r) PROVE Inv'
  BY <1>5, ReturnStep, MissingStep, ResolveStep, CheckProxyStep, CheckJobStep,
     TakeResultStep, TakeNotFoundStep, TakeFailureStep, ReaderAdoptsStep, ClearJobStep,
     InstallPlainStep, DescendStep, InstallOverlayStep, ReaderCreatesStep,
     ReaderCreatedStep DEF GetAttribute
<1>6. CASE Restart
  BY <1>6, RestartStep
<1>7. CASE UNCHANGED vars
  BY <1>7, StutterStep
<1> QED
  BY <1>1, <1>2, <1>3, <1>4, <1>5, <1>6, <1>7 DEF Next

\* The inductive invariant holds of every reachable state, whatever the number of
\* Contracts, of threads that read one, and of restarts.
THEOREM InvHolds == Spec => []Inv
<1>1. Inv /\ [Next]_vars => Inv'
  BY InvStep
<1> QED
  BY InitInv, <1>1, PTL DEF Spec

\* The fields of a Contract, the cache and the readers' stacks keep their types; a
\* stack is never deeper than the proxy and its implementation.
THEOREM TypeCorrect == Spec => []TypeOK
<1>1. Inv => TypeOK
  BY DEF Inv, TypeOK, CacheFits, StackFits, Failure
<1> QED
  BY InvHolds, <1>1, PTL

\* The cache of AddressMetadataCache only ever holds what was said of the address
\* itself, and no implementation without the ABI, wherever the process died.
THEOREM CacheHolds == Spec => []CacheIsSound
<1>1. Inv => CacheIsSound
  BY DEF Inv, CacheFits
<1> QED
  BY InvHolds, <1>1, PTL

\* An installed ABI obeys the arguments of the constructor, whoever installed it and
\* whatever was cached: for any number of Contracts of an address and readers of each.
THEOREM ArgumentsHold == Spec => []ArgumentsAreObeyed
<1>1. ASSUME Inv PROVE ArgumentsAreObeyed
  <2> SUFFICES ASSUME NEW o \in Obj, con[o].abi # None
               PROVE  LET g == con[o].args IN
                      IF g.explicit THEN con[o].abi = Described("user", g.addr)
                      ELSE /\ Forced(g) => Covers(con[o].abi, g.implementation)
                           /\ \A a \in Addr : Covers(con[o].abi, a) =>
                                  \/ a = g.addr
                                  \/ a = g.implementation
                                  \/ g.implementation = "auto" /\ a = ImplOf[g.addr]
                           /\ g.refresh = "force" =>
                                  \A part \in con[o].abi : part[1] = "explorer"
    BY DEF ArgumentsAreObeyed
  <2>1. o \in Object /\ Good(con[o])
    BY <1>1 DEF Inv, Object
  <2>2. Formed(con[o])
    BY <2>1 DEF Good, Absent
  <2>3. CASE con[o].args.explicit
    BY <2>2, <2>3 DEF Formed, ExplicitAlone
  <2>4. CASE ~con[o].args.explicit
    <3>1. /\ \A part \in con[o].abi :
                 /\ part[2] \in {con[o].args.addr, Told(con[o].args)}
                 /\ con[o].args.refresh = "force" => part[1] = "explorer"
          /\ Forced(con[o].args) => Covers(con[o].abi, con[o].args.implementation)
      BY <2>2, <2>4 DEF Formed, InstalledFits
    <3>2. ASSUME NEW a \in Addr, Covers(con[o].abi, a)
          PROVE  a = con[o].args.addr \/ a = Told(con[o].args)
      <4>1. PICK source \in {"explorer", "user"} : <<source, a>> \in con[o].abi
        BY <3>2 DEF Covers
      <4> QED
        BY <3>1, <4>1
    <3> QED
      BY <2>4, <3>1, <3>2 DEF Told, Forced
  <2> QED
    BY <2>3, <2>4
<1> QED
  BY InvHolds, <1>1, PTL

-----------------------------------------------------------------------------
(* Contracts that one thread reads: what other actors leave alone.          *)

Kept(c, d) ==
    /\ c.phase # "absent" => d.args = c.args
    /\ c.phase = "ready" => d.phase = "ready"
    /\ c.implementation # None => d.implementation = c.implementation
    /\ c.proxy_abi # None => d.proxy_abi # None
    /\ c.outcome \in Failure => d.outcome = c.outcome

\* A Contract keeps its job, and an answer comes before anything is made of it.
Calm(c, d) ==
    /\ Kept(c, d)
    /\ c.abi_job => d.abi_job
    /\ d.outcome = "found" =>
           \/ c.outcome = "found" /\ d.abi = c.abi /\ d.proxy_abi = c.proxy_abi
           \/ d.abi = None /\ d.proxy_abi = None

LEMMA SameIsCalm == ASSUME NEW c PROVE Calm(c, c)
  BY DEF Calm, Kept

LEMMA OpenedIsCalm == ASSUME NEW g PROVE Calm(Absent, Opened(g))
<1>1. PICK d, seen, abi :
          d = Opened(g) /\ d = [Absent EXCEPT !.phase = "looked", !.args = g, !.abi = abi,
                                              !.seen = seen]
  BY DEF Opened
<1>2. d.outcome = "none"
  BY <1>1 DEF Absent
<1> QED
  BY <1>1, <1>2 DEF Calm, Kept, Absent, Failure

\* One Contract changes, calmly.
LEMMA OneIsCalm ==
    ASSUME Inv, NEW o \in Object, NEW d, con' = [con EXCEPT ![o] = d], Calm(con[o], d)
    PROVE  \A x \in Object : Calm(con[x], con'[x])
  BY SameIsCalm DEF Inv

LEMMA CalmConstruct ==
    ASSUME Inv, NEW o \in Obj, NEW g \in Arguments[o], Construct(o, g)
    PROVE  \A x \in Object : Calm(con[x], con'[x])
<1>1. o \in Object /\ con[o] = Absent
  BY DEF Object, Inv, Construct, Good
<1> QED
  BY <1>1, OpenedIsCalm, OneIsCalm DEF Construct

\* Where there is no lookup yet, the rest of the constructor is free to change.
LEMMA NoLookupIsCalm ==
    ASSUME NEW c \in ContractType, c.outcome = "none", ~c.abi_job,
           NEW d, d.outcome # "found", Kept(c, d)
    PROVE  Calm(c, d)
  BY DEF Calm

LEMMA CalmConstructor ==
    ASSUME Inv, NEW o \in Object, Constructor(o)
    PROVE  \A x \in Object : Calm(con[x], con'[x])
<1>1. PICK c \in ContractType : c = con[o] /\ Good(c) /\ con \in [Object -> ContractType]
  BY DEF Inv
<1>2. c.phase \in {"looked", "starting", "creating", "created"}
  BY <1>1 DEF Constructor, KeepExplicit, FromCache, Unavailable, UseForced, Fetch,
     FinishCached, NewCreates, NewCreated, Uncached
<1>3. c.outcome = "none" /\ ~c.abi_job /\ c.phase # "absent" /\ c.phase # "ready"
  BY <1>1, <1>2 DEF Good, Formed, LookupFits
<1>4. c.phase = "looked" => c.implementation = None /\ c.proxy_abi = None
  BY <1>1, LookedFacts
<1>5. ASSUME NEW d, con' = [con EXCEPT ![o] = d], d.outcome \in {"none", "open"},
             d.args = c.args, c.implementation # None => d.implementation = c.implementation,
             c.proxy_abi # None => d.proxy_abi # None
      PROVE  \A x \in Object : Calm(con[x], con'[x])
  <2>1. Kept(c, d)
    BY <1>3, <1>5 DEF Kept, Failure
  <2> QED
    BY <1>1, <1>3, <1>5, <2>1, NoLookupIsCalm, OneIsCalm
<1>6. CASE KeepExplicit(o) \/ Unavailable(o) \/ FinishCached(o)
  <2>1. PICK d : d = [c EXCEPT !.phase = "ready"]
    OBVIOUS
  <2>2. con' = [con EXCEPT ![o] = d]
    BY <1>1, <1>6, <2>1 DEF KeepExplicit, Unavailable, FinishCached
  <2>3. d.outcome = c.outcome /\ d.args = c.args /\ d.implementation = c.implementation
        /\ d.proxy_abi = c.proxy_abi
    BY <2>1 DEF ContractType
  <2> QED
    BY <1>3, <1>5, <2>2, <2>3
<1>7. CASE FromCache(o)
  <2>1. c.phase = "looked"
    BY <1>1, <1>7 DEF FromCache
  <2>2. PICK d : /\ d = IF CachedImplementation(o) = None
                        THEN [c EXCEPT !.abi = c.seen, !.phase = "ready"]
                        ELSE [c EXCEPT !.proxy_abi = c.seen, !.phase = "starting",
                                       !.implementation = CachedImplementation(o)]
                 /\ con' = [con EXCEPT ![o] = d]
    BY <1>1, <1>7 DEF FromCache
  <2>3. d.outcome = c.outcome /\ d.args = c.args
    BY <2>2 DEF ContractType
  <2> QED
    BY <1>3, <1>4, <1>5, <2>1, <2>2, <2>3
<1>8. CASE UseForced(o)
  <2>1. c.phase = "looked"
    BY <1>1, <1>8 DEF UseForced, Uncached
  <2>2. PICK d : /\ d = [c EXCEPT !.implementation = c.args.implementation,
                                  !.phase = "starting"]
                 /\ con' = [con EXCEPT ![o] = d]
    BY <1>1, <1>8 DEF UseForced, ContractType
  <2>3. d.outcome = c.outcome /\ d.args = c.args
    BY <2>2 DEF ContractType
  <2> QED
    BY <1>3, <1>4, <1>5, <2>1, <2>2, <2>3
<1>9. CASE Fetch(o)
  <2>1. PICK d : /\ d = [c EXCEPT !.abi_job = TRUE, !.outcome = "open", !.phase = "ready"]
                 /\ con' = [con EXCEPT ![o] = d]
    BY <1>1, <1>9 DEF Fetch, ContractType
  <2>2. d.outcome = "open" /\ d.args = c.args /\ d.implementation = c.implementation
        /\ d.proxy_abi = c.proxy_abi
    BY <2>1 DEF ContractType
  <2> QED
    BY <1>5, <2>1, <2>2
<1>10. CASE NewCreates(o)
  <2>1. PICK d : d = [c EXCEPT !.phase = "creating"]
    OBVIOUS
  <2>2. /\ d.outcome = c.outcome /\ d.args = c.args /\ d.implementation = c.implementation
        /\ d.proxy_abi = c.proxy_abi
    BY <2>1 DEF ContractType
  <2>3. Calm(c, d)
    BY <1>3, <2>2, NoLookupIsCalm DEF Kept, Failure
  <2>4. o \in Obj /\ c.phase = "starting" /\ "new" \in Actor(o)
    BY <1>1, <1>10 DEF NewCreates, Actor
  <2>5. <<o, "new">> \in Object /\ <<o, "new">> # o /\ con[<<o, "new">>] = Absent
    BY <1>1, <2>4, NestedObject DEF Inv, NestFits, Good
  <2>6. con' = [con EXCEPT ![o] = d, ![<<o, "new">>] = Opened(NestedArguments(o))]
    BY <1>1, <1>10, <2>1 DEF NewCreates
  <2>7. /\ con'[o] = d /\ con'[<<o, "new">>] = Opened(NestedArguments(o))
        /\ \A x \in Object : x # o /\ x # <<o, "new">> => con'[x] = con[x]
    BY <1>1, <2>5, <2>6
  <2> QED
    BY <1>1, <2>3, <2>5, <2>7, SameIsCalm, OpenedIsCalm
<1>11. CASE NewCreated(o)
  <2>1. PICK d : /\ d = [c EXCEPT !.phase = "created",
                                  !.implementation_contract = <<o, "new">>]
                 /\ con' = [con EXCEPT ![o] = d]
    BY <1>1, <1>11 DEF NewCreated, ContractType
  <2>2. d.outcome = c.outcome /\ d.args = c.args /\ d.implementation = c.implementation
        /\ d.proxy_abi = c.proxy_abi
    BY <2>1 DEF ContractType
  <2> QED
    BY <1>3, <1>5, <2>1, <2>2
<1> QED
  BY <1>6, <1>7, <1>8, <1>9, <1>10, <1>11 DEF Constructor

LEMMA CalmWorker ==
    ASSUME Inv, NEW o \in Object, Worker(o)
    PROVE  \A x \in Object : Calm(con[x], con'[x])
<1>1. PICK c \in ContractType : c = con[o] /\ Good(c) /\ con \in [Object -> ContractType]
  BY DEF Inv
\* A step that leaves the answer and what was made of it.
<1>2. ASSUME NEW d, d.args = c.args, d.phase = c.phase, d.outcome = c.outcome,
             d.abi_job = c.abi_job, d.abi = c.abi, d.proxy_abi = c.proxy_abi,
             c.implementation # None => d.implementation = c.implementation
      PROVE  Calm(c, d)
  BY <1>2 DEF Calm, Kept
<1>3. ASSUME NEW verdict \in Failure \union {"found"}, Settle(o, verdict)
      PROVE  \A x \in Object : Calm(con[x], con'[x])
  <2>1. c.outcome = "open" /\ c.proxy_abi = None /\ c.abi = None /\ c.phase = "ready"
    BY <1>1, <1>3, LookupFacts DEF Settle, Formed, LookupFits
  <2>2. PICK next, d : /\ d = [c EXCEPT !.outcome = verdict, !.callback = next]
                       /\ con' = [con EXCEPT ![o] = d]
    BY <1>1, <1>3 DEF Settle, ContractType
  <2>3. /\ d.args = c.args /\ d.phase = c.phase /\ d.abi_job = c.abi_job
        /\ d.implementation = c.implementation /\ d.proxy_abi = None /\ d.abi = None
    BY <2>1, <2>2 DEF ContractType
  <2>4. Calm(c, d)
    BY <2>1, <2>3 DEF Calm, Kept, Failure
  <2> QED
    BY <1>1, <2>2, <2>4, OneIsCalm
<1>4. CASE CacheAbi(o) \/ CacheImplementation(o) \/ CallbackSkips(o)
  <2>1. PICK next, d : d = [c EXCEPT !.callback = next] /\ con' = [con EXCEPT ![o] = d]
    BY <1>1, <1>4 DEF CacheAbi, CacheImplementation, CallbackSkips
  <2>2. Calm(c, d)
    BY <1>2, <2>1 DEF ContractType
  <2> QED
    BY <1>1, <2>1, <2>2, OneIsCalm
<1>5. CASE CallbackAdopts(o)
  <2>1. PICK d : /\ d = IF c.implementation = None
                        THEN [c EXCEPT !.implementation = Reported(o), !.callback = "start"]
                        ELSE [c EXCEPT !.callback = "idle"]
                 /\ con' = [con EXCEPT ![o] = d]
    BY <1>1, <1>5 DEF CallbackAdopts
  <2>2. Calm(c, d)
    <3>1. CASE c.implementation = None
      <4>1. d = [c EXCEPT !.implementation = Reported(o), !.callback = "start"]
        BY <2>1, <3>1
      <4>2. /\ d.args = c.args /\ d.phase = c.phase /\ d.outcome = c.outcome
            /\ d.abi_job = c.abi_job /\ d.abi = c.abi /\ d.proxy_abi = c.proxy_abi
        BY <4>1 DEF ContractType
      <4> QED
        BY <1>2, <3>1, <4>2
    <3>2. CASE c.implementation # None
      <4>1. d = [c EXCEPT !.callback = "idle"]
        BY <2>1, <3>2
      <4> QED
        BY <1>2, <4>1 DEF ContractType
    <3> QED
      BY <3>1, <3>2
  <2> QED
    BY <1>1, <2>1, <2>2, OneIsCalm
<1>6. CASE CallbackCreates(o)
  <2>1. o \in Obj /\ c.callback = "start" /\ "callback" \in Actor(o)
    BY <1>1, <1>6 DEF CallbackCreates, Actor
  <2>2. PICK d : d = [c EXCEPT !.callback = "create"]
    OBVIOUS
  <2>3. Calm(c, d)
    BY <1>2, <2>2 DEF ContractType
  <2>4. /\ <<o, "callback">> \in Object /\ <<o, "callback">> # o
        /\ con[<<o, "callback">>] = Absent
    <3>1. ~Present(<<o, "callback">>)
      BY <1>1, <2>1 DEF Inv, NestFits
    <3>2. <<o, "callback">> \in Object /\ <<o, "callback">> # o
      BY <2>1, NestedObject
    <3> QED
      BY <3>1, <3>2 DEF Inv, Good
  <2>5. con' = [con EXCEPT ![o] = d, ![<<o, "callback">>] = Opened(NestedArguments(o))]
    BY <1>1, <1>6, <2>2 DEF CallbackCreates
  <2>6. /\ con'[o] = d /\ con'[<<o, "callback">>] = Opened(NestedArguments(o))
        /\ \A x \in Object : x # o /\ x # <<o, "callback">> => con'[x] = con[x]
    BY <1>1, <2>4, <2>5
  <2> QED
    BY <1>1, <2>3, <2>4, <2>6, SameIsCalm, OpenedIsCalm
<1>7. CASE CallbackCreated(o)
  <2>1. PICK d : /\ d = [c EXCEPT !.callback = "idle",
                                  !.implementation_contract = <<o, "callback">>]
                 /\ con' = [con EXCEPT ![o] = d]
    BY <1>1, <1>7 DEF CallbackCreated, ContractType
  <2>2. /\ d.args = c.args /\ d.phase = c.phase /\ d.outcome = c.outcome
        /\ d.abi_job = c.abi_job /\ d.abi = c.abi /\ d.proxy_abi = c.proxy_abi
        /\ d.implementation = c.implementation
    BY <2>1 DEF ContractType
  <2>3. Calm(c, d)
    BY <1>2, <2>2
  <2> QED
    BY <1>1, <2>1, <2>3, OneIsCalm
<1> QED
  BY <1>3, <1>4, <1>5, <1>6, <1>7 DEF Worker

\* Whatever was made of an answer was there before, and so was the answer.
LEMMA CalmFound ==
    ASSUME Inv, NEW o \in Object, Calm(con[o], con'[o]), con'[o].outcome = "found",
           con'[o].proxy_abi # None \/ con'[o].abi # None
    PROVE  /\ con[o].outcome = "found" /\ con'[o].args = con[o].args
           /\ con'[o].abi = con[o].abi /\ con'[o].proxy_abi = con[o].proxy_abi
           /\ con'[o].implementation = None => con[o].implementation = None
<1>1. con[o].outcome = "found"
  BY DEF Calm
<1>2. con[o].phase = "ready"
  BY <1>1, LookupFacts
<1> QED
  BY <1>1, <1>2 DEF Calm, Kept

\* What one thread alone reads stays as it is when the others only prepare it.
LEMMA CalmStep ==
    ASSUME Inv, OneInv, \A x \in Object : Calm(con[x], con'[x]), UNCHANGED <<frames, answer>>
    PROVE  OneInv'
<1>1. \A o \in Obj : o \in Object /\ \A actor \in Actor(o) : <<o, actor>> \in Object
  BY NestedObject DEF Object
<1>2. JobIsKept'
  <2> SUFFICES ASSUME NEW r \in Reader, frames[r] # <<>>
               PROVE  /\ Top(r).at = "resolve" =>
                             con'[Top(r).obj].abi_job \/ con'[Top(r).obj].proxy_abi # None
                      /\ Top(r).at = "job" => con'[Top(r).obj].abi_job
    BY DEF JobIsKept, Top
  <2>1. PICK n \in Object : n = Top(r).obj
    BY TopFacts
  <2>2. Calm(con[n], con'[n])
    OBVIOUS
  <2> QED
    BY <2>1, <2>2 DEF OneInv, JobIsKept, Calm, Kept
<1>3. ASSUME NEW o \in Obj, con'[o].outcome = "found",
             con'[o].proxy_abi # None \/ con'[o].abi # None
      PROVE  /\ con[o].outcome = "found" /\ con'[o].args = con[o].args
             /\ con'[o].abi = con[o].abi /\ con'[o].proxy_abi = con[o].proxy_abi
             /\ con'[o].implementation = None => con[o].implementation = None
  BY <1>1, <1>3, CalmFound
<1>4. AnswerIsAdopted' /\ ProxyIsOverlaid'
  BY <1>3 DEF OneInv, AnswerIsAdopted, ProxyIsOverlaid, Address
<1>5. ASSUME NEW r \in Reader, answer[r] # "none"
      PROVE  con'[ReadOf[r]].phase = "ready" /\ con'[ReadOf[r]].args = con[ReadOf[r]].args
  <2>1. ReadOf[r] \in Obj /\ con[ReadOf[r]].phase = "ready"
    BY <1>5 DEF OneInv, AnswerIsOfContract
  <2>2. Calm(con[ReadOf[r]], con'[ReadOf[r]])
    BY <1>1, <2>1
  <2> QED
    BY <2>1, <2>2 DEF Calm, Kept
<1>6. \A x \in Object : Failed(x) => Failed(x)'
  BY DEF Failed, Calm, Kept
<1>7. AnswerIsOfContract' /\ MissingIsEarned'
  <2>1. AnswerIsOfContract'
    BY <1>5 DEF AnswerIsOfContract
  <2>2. ASSUME NEW r \in Reader, answer[r] = "missing"
        PROVE  \/ con'[ReadOf[r]].args.refresh = "never" \/ Failed(ReadOf[r])'
               \/ \E actor \in Actor(ReadOf[r]) : Failed(<<ReadOf[r], actor>>)'
    <3>1. ReadOf[r] \in Obj
      OBVIOUS
    <3> QED
      BY <1>1, <1>5, <1>6, <2>2, <3>1 DEF OneInv, MissingIsEarned
  <2> QED
    BY <2>1, <2>2 DEF MissingIsEarned
<1> QED
  BY <1>2, <1>4, <1>7 DEF OneInv

\* Two threads that read different Contracts are never at the same one.
LEMMA DifferentTops ==
    ASSUME Inv, OneReaderEach, NEW r \in Reader, NEW s \in Reader, r # s,
           frames[r] # <<>>, frames[s] # <<>>
    PROVE  Top(r).obj # Top(s).obj
<1>1. ReadOf[r] # ReadOf[s] /\ ReadOf[r] \in Obj /\ ReadOf[s] \in Obj
  BY DEF OneReaderEach
<1>2. \/ Top(r).obj = ReadOf[r]
      \/ \E actor \in Actor(ReadOf[r]) : Top(r).obj = <<ReadOf[r], actor>>
  BY TopFacts
<1>3. \/ Top(s).obj = ReadOf[s]
      \/ \E actor \in Actor(ReadOf[s]) : Top(s).obj = <<ReadOf[s], actor>>
  BY TopFacts
<1>4. /\ \A actor \in Actor(ReadOf[r]) : <<ReadOf[r], actor>> \notin Obj
      /\ \A actor \in Actor(ReadOf[s]) : <<ReadOf[s], actor>> \notin Obj
  BY <1>1, NestedObject
<1>5. \A a \in Actor(ReadOf[r]), b \in Actor(ReadOf[s]) : <<ReadOf[r], a>> # <<ReadOf[s], b>>
  BY <1>1
<1> QED
  BY <1>1, <1>2, <1>3, <1>4, <1>5

AskedForOverlay(o) ==
    /\ o \in Obj /\ con[o].outcome = "found" /\ con[o].args.implementation = "auto"
    /\ ImplOf[con[o].args.addr] # None

\* A step of the reader r, at the Contract n: it keeps the others calm, and what it
\* makes of n is right.
LEMMA OneStep ==
    ASSUME Inv, OneInv, OneReaderEach, NEW r \in Reader, NEW n \in Object, Present(n),
           \A s \in Reader : s # r => frames'[s] = frames[s] /\ answer'[s] = answer[s],
           \A x \in Object : x # n => Calm(con[x], con'[x]),
           con'[n].args = con[n].args, con'[n].outcome = con[n].outcome,
           Kept(con[n], con'[n]),
           frames[r] # <<>> => n = Top(r).obj,
           frames[r] = <<>> => UNCHANGED con /\ answer'[r] = answer[r],
           frames'[r] # <<>> =>
               /\ Top(r)'.at = "resolve" => 
                      con'[Top(r)'.obj].abi_job \/ con'[Top(r)'.obj].proxy_abi # None
               /\ Top(r)'.at = "job" => con'[Top(r)'.obj].abi_job,
           answer'[r] = "missing" =>
               answer[r] = "missing" \/ con[n].args.refresh = "never" \/ Failed(n),
           AskedForOverlay(n) =>
               /\ con'[n].proxy_abi # None /\ con'[n].implementation = None =>
                      \/ ReadOf[r] = n /\ Len(frames'[r]) = 1 /\ frames'[r][1].at = "adopt"
                      \/ con[n].proxy_abi # None /\ ~At(r, "adopt")
               /\ con'[n].abi # None => Covers(con'[n].abi, ImplOf[con[n].args.addr])
    PROVE  OneInv'
<1>1. \A o \in Obj : o \in Object /\ \A actor \in Actor(o) : <<o, actor>> \in Object
  BY NestedObject DEF Object
<1>2. \A x \in Object : Kept(con[x], con'[x])
  BY DEF Calm
<1>3. JobIsKept'
  <2> SUFFICES ASSUME NEW s \in Reader, frames'[s] # <<>>
               PROVE  /\ Top(s)'.at = "resolve" =>
                             con'[Top(s)'.obj].abi_job \/ con'[Top(s)'.obj].proxy_abi # None
                      /\ Top(s)'.at = "job" => con'[Top(s)'.obj].abi_job
    BY DEF JobIsKept
  <2>1. CASE s = r
    BY <2>1
  <2>2. CASE s # r
    <3>1. frames'[s] = frames[s] /\ frames[s] # <<>> /\ Top(s)' = Top(s)
      BY <2>2 DEF Top
    <3>2. PICK m \in Object : m = Top(s).obj
      BY <3>1, TopFacts
    <3>3. Calm(con[m], con'[m])
      <4>1. CASE frames[r] = <<>>
        BY <4>1, SameIsCalm
      <4>2. CASE frames[r] # <<>>
        BY <2>2, <3>1, <3>2, <4>2, DifferentTops
      <4> QED
        BY <4>1, <4>2
    <3> QED
      BY <3>1, <3>2, <3>3 DEF OneInv, JobIsKept, Calm, Kept
  <2> QED
    BY <2>1, <2>2
<1>4. AnswerIsAdopted'
  <2> SUFFICES ASSUME NEW o \in Obj, con'[o].outcome = "found",
                      con'[o].args.implementation = "auto",
                      ImplOf[con'[o].args.addr] # None, con'[o].proxy_abi # None,
                      con'[o].implementation = None
               PROVE  \E s \in Reader : /\ ReadOf[s] = o
                                        /\ Len(frames'[s]) = 1 /\ frames'[s][1].at = "adopt"
    BY DEF AnswerIsAdopted, Address
  <2>1. ASSUME con[o].outcome = "found", con[o].proxy_abi # None,
               con[o].implementation = None, con[o].args = con'[o].args,
               o = n => ~At(r, "adopt")
        PROVE  \E s \in Reader : /\ ReadOf[s] = o
                                 /\ Len(frames'[s]) = 1 /\ frames'[s][1].at = "adopt"
    <3>1. PICK s \in Reader : ReadOf[s] = o /\ Len(frames[s]) = 1 /\ frames[s][1].at = "adopt"
      BY <2>1 DEF OneInv, AnswerIsAdopted, Address
    <3>2. frames[s] # <<>> /\ Top(s) = frames[s][1] /\ Top(s).obj = o
      <4>1. frames[s] # <<>>
        BY <3>1
      <4> QED
        BY <3>1, <4>1, TopFacts
    <3>3. s # r
      BY <2>1, <3>1, <3>2 DEF At
    <3> QED
      BY <3>1, <3>3
  <2>2. CASE o = n
    <3>1. con[n].implementation = None
      BY <2>2 DEF Kept
    <3>2. AskedForOverlay(n)
      BY <2>2 DEF AskedForOverlay
    <3> QED
      BY <2>1, <2>2, <3>1, <3>2
  <2>3. CASE o # n
    BY <1>1, <2>1, <2>3, CalmFound
  <2> QED
    BY <2>2, <2>3
<1>5. ProxyIsOverlaid'
  <2> SUFFICES ASSUME NEW o \in Obj, con'[o].outcome = "found",
                      con'[o].args.implementation = "auto",
                      ImplOf[con'[o].args.addr] # None, con'[o].abi # None
               PROVE  Covers(con'[o].abi, ImplOf[con'[o].args.addr])
    BY DEF ProxyIsOverlaid, Address
  <2>1. CASE o = n
    BY <2>1 DEF AskedForOverlay
  <2>2. CASE o # n
    <3>1. /\ con[o].outcome = "found" /\ con'[o].args = con[o].args
          /\ con'[o].abi = con[o].abi
      BY <1>1, <2>2, CalmFound
    <3> QED
      BY <3>1 DEF OneInv, ProxyIsOverlaid, Address
  <2> QED
    BY <2>1, <2>2
<1>6. ASSUME NEW s \in Reader, answer'[s] # "none"
      PROVE  con[ReadOf[s]].phase = "ready"
  <2>1. CASE answer[s] # "none"
    BY <2>1 DEF OneInv, AnswerIsOfContract
  <2>2. CASE s = r /\ frames[r] # <<>>
    BY <2>2, TopFacts DEF FrameFits
  <2> QED
    BY <1>6, <2>1, <2>2
<1>7. ASSUME NEW s \in Reader, answer'[s] # "none"
      PROVE  con'[ReadOf[s]].phase = "ready" /\ con'[ReadOf[s]].args = con[ReadOf[s]].args
  <2>1. ReadOf[s] \in Obj /\ ReadOf[s] \in Object
    BY <1>1
  <2> QED
    BY <1>2, <1>6, <1>7, <2>1 DEF Kept
<1>8. \A x \in Object : Failed(x) => Failed(x)'
  BY <1>2 DEF Failed, Kept
<1>9. ASSUME NEW s \in Reader, answer'[s] = "missing"
      PROVE  \/ con'[ReadOf[s]].args.refresh = "never" \/ Failed(ReadOf[s])'
             \/ \E actor \in Actor(ReadOf[s]) : Failed(<<ReadOf[s], actor>>)'
  <2>1. ReadOf[s] \in Obj /\ con'[ReadOf[s]].args = con[ReadOf[s]].args
    BY <1>7, <1>9
  <2>2. CASE answer[s] = "missing"
    BY <1>1, <1>8, <2>1, <2>2 DEF OneInv, MissingIsEarned
  <2>3. CASE s = r /\ answer[s] # "missing"
    <3>1. frames[r] # <<>> /\ n = Top(r).obj
      BY <1>9, <2>3
    <3>2. con[n].args.refresh = "never" \/ Failed(n)
      BY <1>9, <2>3
    <3>3. CASE n = ReadOf[r]
      BY <1>8, <2>1, <2>3, <3>2, <3>3
    <3>4. CASE \E actor \in Actor(ReadOf[r]) : n = <<ReadOf[r], actor>>
      <4>1. PICK actor \in Actor(ReadOf[r]) : n = <<ReadOf[r], actor>>
        BY <3>4
      <4>2. con[n].args.refresh = con[ReadOf[r]].args.refresh
        <5>1. NestFits(ReadOf[r]) /\ Present(<<ReadOf[r], actor>>)
          BY <2>1, <2>3, <4>1 DEF Inv
        <5>2. con[n].args = NestedArguments(ReadOf[r])
          BY <4>1, <5>1 DEF NestFits
        <5> QED
          BY <5>2 DEF NestedArguments
      <4> QED
        BY <1>8, <2>1, <2>3, <3>2, <4>1, <4>2
    <3> QED
      BY <3>1, <3>3, <3>4, TopFacts
  <2> QED
    BY <1>9, <2>2, <2>3
<1>10. AnswerIsOfContract' /\ MissingIsEarned'
  BY <1>7, <1>9 DEF AnswerIsOfContract, MissingIsEarned
<1> QED
  BY <1>3, <1>4, <1>5, <1>10 DEF OneInv

LEMMA GoesTo ==
    ASSUME Inv, NEW r \in Reader, frames[r] # <<>>, NEW where, GoTo(r, where)
    PROVE  /\ \A s \in Reader : s # r => frames'[s] = frames[s]
           /\ frames'[r] # <<>> /\ Top(r)'.at = where /\ Top(r)'.obj = Top(r).obj
           /\ Len(frames'[r]) = Len(frames[r])
           /\ Len(frames[r]) = 1 => frames'[r][1].at = where
<1>1. PICK t \in FrameType, n \in {1, 2}, fs \in Seq(FrameType) :
          t = Top(r) /\ n = Len(frames[r]) /\ fs = frames[r] /\ t = fs[n]
  BY TopFacts DEF Inv, Top
<1>2. PICK f : f = [t EXCEPT !.at = where] /\ f.at = where /\ f.obj = t.obj
  <2>1. [t EXCEPT !.at = where].at = where /\ [t EXCEPT !.at = where].obj = t.obj
    BY DEF FrameType
  <2> QED
    BY <2>1
<1>3. PICK gs : gs = [fs EXCEPT ![n] = f]
  OBVIOUS
<1>4. frames' = [frames EXCEPT ![r] = gs]
  BY <1>1, <1>2, <1>3 DEF GoTo
<1>5. frames'[r] = gs /\ \A s \in Reader : s # r => frames'[s] = frames[s]
  BY <1>4 DEF Inv
<1>6. Len(gs) = n /\ gs[n] = f
  BY <1>1, <1>3
<1>7. gs # <<>> /\ Top(r)' = f
  BY <1>5, <1>6 DEF Top
<1> QED
  BY <1>1, <1>2, <1>5, <1>6, <1>7

\* The reader leaves every Contract as it is.
LEMMA OneLooks ==
    ASSUME Inv, OneInv, OneReaderEach, NEW r \in Reader, frames[r] # <<>>, ~At(r, "adopt"),
           UNCHANGED con,
           \A s \in Reader : s # r => frames'[s] = frames[s] /\ answer'[s] = answer[s],
           frames'[r] # <<>> =>
               /\ Top(r)'.at = "resolve" =>
                      con[Top(r)'.obj].abi_job \/ con[Top(r)'.obj].proxy_abi # None
               /\ Top(r)'.at = "job" => con[Top(r)'.obj].abi_job,
           answer'[r] = "missing" =>
               \/ answer[r] = "missing" \/ con[Top(r).obj].args.refresh = "never"
               \/ Failed(Top(r).obj)
    PROVE  OneInv'
<1>1. PICK n \in Object : n = Top(r).obj /\ Present(n)
  BY TopFacts
<1>2. \A x \in Object : Calm(con[x], con'[x]) /\ Kept(con[x], con'[x])
  BY SameIsCalm DEF Calm
<1>3. AskedForOverlay(n) => (con[n].abi # None => Covers(con[n].abi, ImplOf[con[n].args.addr]))
  BY DEF AskedForOverlay, OneInv, ProxyIsOverlaid, Address
<1> QED
  BY <1>1, <1>2, <1>3, OneStep

LEMMA OneRead ==
    ASSUME Inv, OneInv, OneReaderEach, NEW r \in Reader, Read(r)
    PROVE  OneInv'
<1>1. PICK n \in Object : n = ReadOf[r] /\ Present(n)
  BY DEF Read, Object
<1>2. /\ frames[r] = <<>> /\ UNCHANGED <<con, cache, answer>>
      /\ frames' = [frames EXCEPT ![r] = <<Enter(ReadOf[r])>>]
  BY DEF Read
<1>3. \A s \in Reader : s # r => frames'[s] = frames[s]
  BY <1>2 DEF Inv
<1>4. Top(r)'.at = "enter"
  <2>1. frames'[r] = <<Enter(ReadOf[r])>>
    BY <1>2 DEF Inv
  <2>2. Top(r)' = Enter(ReadOf[r])
    BY <2>1 DEF Top
  <2> QED
    BY <2>2 DEF Enter
<1>5. \A x \in Object : Calm(con[x], con'[x]) /\ Kept(con[x], con'[x])
  BY <1>2, SameIsCalm DEF Calm
<1>6. AskedForOverlay(n) => (con[n].abi # None => Covers(con[n].abi, ImplOf[con[n].args.addr]))
  BY DEF AskedForOverlay, OneInv, ProxyIsOverlaid, Address
<1>7. ~At(r, "adopt")
  BY <1>2 DEF At
<1> QED
  BY <1>1, <1>2, <1>3, <1>4, <1>5, <1>6, <1>7, OneStep

LEMMA OneResolve ==
    ASSUME Inv, OneInv, OneReaderEach, NEW r \in Reader, Resolve(r)
    PROVE  OneInv'
<1>1. frames[r] # <<>> /\ ~At(r, "adopt") /\ GoTo(r, "resolve")
  BY DEF Resolve, At
<1> QED
  BY <1>1, GoesTo, OneLooks DEF Resolve, Unresolvable

LEMMA OneCheckProxy ==
    ASSUME Inv, OneInv, OneReaderEach, NEW r \in Reader, CheckProxy(r)
    PROVE  OneInv'
<1>1. /\ frames[r] # <<>> /\ Top(r).at = "resolve" /\ ~At(r, "adopt")
      /\ UNCHANGED <<con, cache, answer>>
  BY DEF CheckProxy, At
<1>2. CASE con[Top(r).obj].proxy_abi = None
  <2>1. con[Top(r).obj].abi_job /\ GoTo(r, "job")
    BY <1>1, <1>2 DEF OneInv, JobIsKept, CheckProxy
  <2> QED
    BY <1>1, <2>1, GoesTo, OneLooks
<1>3. CASE con[Top(r).obj].proxy_abi # None
  <2>1. GoTo(r, "combine")
    BY <1>3 DEF CheckProxy
  <2> QED
    BY <1>1, <2>1, GoesTo, OneLooks
<1> QED
  BY <1>2, <1>3

LEMMA OneCheckJob ==
    ASSUME Inv, OneInv, OneReaderEach, NEW r \in Reader, CheckJob(r)
    PROVE  OneInv'
<1>1. /\ frames[r] # <<>> /\ ~At(r, "adopt") /\ GoTo(r, "wait")
      /\ UNCHANGED <<con, cache, answer>>
  BY DEF CheckJob, At
<1> QED
  BY <1>1, GoesTo, OneLooks

\* A ready Contract without ABI, proxy ABI or job was refused a lookup, or had one fail.
LEMMA OneMissing ==
    ASSUME Inv, OneInv, OneReaderEach, NEW r \in Reader, Missing(r)
    PROVE  OneInv'
<1>1. /\ frames[r] # <<>> /\ ~At(r, "adopt") /\ UNCHANGED con
      /\ frames' = [frames EXCEPT ![r] = <<>>] /\ answer' = [answer EXCEPT ![r] = "missing"]
  BY DEF Missing, Raise, At
<1>2. /\ frames'[r] = <<>>
      /\ \A s \in Reader : s # r => frames'[s] = frames[s] /\ answer'[s] = answer[s]
  BY <1>1 DEF Inv
<1>3. PICK n \in Object : n = Top(r).obj /\ con[n].phase = "ready" /\ Good(con[n])
  BY <1>1, TopFacts DEF FrameFits
<1>4. con[n].abi = None /\ con[n].proxy_abi = None /\ ~con[n].abi_job
  <2>1. ~(At(r, "job") /\ ~con[n].abi_job)
    BY <1>1, <1>3 DEF OneInv, JobIsKept, At
  <2> QED
    BY <1>3, <2>1 DEF Missing, Unresolvable
<1>5. ~con[n].args.explicit
  <2>1. Formed(con[n]) /\ con[n].args.addr \in Addr
    BY <1>3 DEF Good, Formed, ArgumentsFit, ArgumentType
  <2>2. Described("user", con[n].args.addr) # None
    BY <2>1, DescribedAbi
  <2> QED
    BY <1>4, <2>1, <2>2 DEF Formed, ExplicitAlone
<1>6. con[n].args.refresh = "never" \/ Failed(n)
  BY <1>3, <1>4, <1>5 DEF Good, Formed, NothingFits, Failed
<1> QED
  BY <1>1, <1>2, <1>3, <1>6, OneLooks

LEMMA OneReturn ==
    ASSUME Inv, OneInv, OneReaderEach, NEW r \in Reader, Return(r)
    PROVE  OneInv'
<1>1. frames[r] # <<>> /\ ~At(r, "adopt") /\ UNCHANGED con
  BY DEF Return, At
<1>2. CASE Len(frames[r]) = 1
  <2>1. frames' = [frames EXCEPT ![r] = <<>>] /\ answer' = [answer EXCEPT ![r] = "abi"]
    BY <1>2 DEF Return
  <2>2. /\ frames'[r] = <<>> /\ answer'[r] = "abi"
        /\ \A s \in Reader : s # r => frames'[s] = frames[s] /\ answer'[s] = answer[s]
    BY <2>1 DEF Inv
  <2> QED
    BY <1>1, <2>2, OneLooks
<1>3. CASE Len(frames[r]) # 1
  <2>1. PICK f : f = [frames[r][1] EXCEPT !.at = "overlay", !.got = con[Top(r).obj].abi]
    OBVIOUS
  <2>2. frames' = [frames EXCEPT ![r] = <<f>>] /\ UNCHANGED answer
    BY <1>3, <2>1 DEF Return
  <2>3. f.at = "overlay"
    <3>1. frames[r][1] \in FrameType
      BY <1>1, <1>3, TopFacts
    <3> QED
      BY <2>1, <3>1 DEF FrameType
  <2>4. frames'[r] = <<f>> /\ \A s \in Reader : s # r => frames'[s] = frames[s]
    BY <2>2 DEF Inv
  <2>5. Top(r)'.at = "overlay"
    BY <2>3, <2>4 DEF Top
  <2> QED
    BY <1>1, <2>2, <2>4, <2>5, OneLooks
<1> QED
  BY <1>2, <1>3

LEMMA OneDescend ==
    ASSUME Inv, OneInv, OneReaderEach, NEW r \in Reader, Descend(r)
    PROVE  OneInv'
<1>1. frames[r] # <<>> /\ ~At(r, "adopt") /\ UNCHANGED <<con, answer>>
  BY DEF Descend, At
<1>2. PICK x, gs :
          /\ gs = [frames[r] EXCEPT ![Len(frames[r])].at = "inner"]
          /\ frames' = [frames EXCEPT ![r] = Append(gs, Enter(x))]
  BY DEF Descend
<1>3. \A s \in Reader : s # r => frames'[s] = frames[s]
  BY <1>2 DEF Inv
<1>4. Top(r)'.at = "enter"
  <2>1. PICK t \in FrameType, n \in {1, 2}, fs \in Seq(FrameType) :
            t = fs[n] /\ n = Len(frames[r]) /\ fs = frames[r]
    BY <1>1, TopFacts DEF Inv, Top
  <2>2. gs = [fs EXCEPT ![n] = [t EXCEPT !.at = "inner"]]
    BY <1>2, <2>1
  <2>3. [t EXCEPT !.at = "inner"] \in FrameType
    BY DEF FrameType
  <2>4. gs \in Seq(FrameType) /\ Len(gs) = n
    BY <2>1, <2>2, <2>3
  <2>5. PICK e : e = Enter(x) /\ e.at = "enter"
    <3>1. Enter(x).at = "enter"
      BY DEF Enter
    <3> QED
      BY <3>1
  <2>6. frames'[r] = Append(gs, e)
    BY <1>2, <2>5 DEF Inv
  <2>7. Len(Append(gs, e)) = n + 1 /\ Append(gs, e)[n + 1] = e
    BY <2>4, SMTT(30)
  <2> QED
    BY <2>5, <2>6, <2>7 DEF Top
<1> QED
  BY <1>1, <1>3, <1>4, OneLooks

\* The reader writes the record of its Contract.
LEMMA OneWrites ==
    ASSUME Inv, OneInv, OneReaderEach, NEW r \in Reader, frames[r] # <<>>,
           NEW n \in Object, n = Top(r).obj, NEW d, con' = [con EXCEPT ![n] = d],
           d.args = con[n].args, d.phase = con[n].phase, d.outcome = con[n].outcome,
           con[n].implementation # None => d.implementation = con[n].implementation,
           con[n].proxy_abi # None => d.proxy_abi # None,
           \A s \in Reader : s # r => frames'[s] = frames[s] /\ answer'[s] = answer[s],
           answer'[r] = "missing" => answer[r] = "missing",
           frames'[r] # <<>> => Top(r)'.at \notin {"resolve", "job"},
           AskedForOverlay(n) =>
               /\ d.proxy_abi # None /\ d.implementation = None =>
                      \/ ReadOf[r] = n /\ Len(frames'[r]) = 1 /\ frames'[r][1].at = "adopt"
                      \/ con[n].proxy_abi # None /\ ~At(r, "adopt")
               /\ d.abi # None => Covers(d.abi, ImplOf[con[n].args.addr])
    PROVE  OneInv'
<1>1. Present(n)
  BY TopFacts
<1>2. con'[n] = d /\ \A x \in Object : x # n => con'[x] = con[x]
  BY DEF Inv
<1>3. Kept(con[n], con'[n])
  BY <1>2 DEF Kept
<1>4. \A x \in Object : x # n => Calm(con[x], con'[x])
  BY <1>2, SameIsCalm
<1> QED
  BY <1>1, <1>2, <1>3, <1>4, OneStep

\* What is installed already, for steps that leave it.
LEMMA InstalledCovers ==
    ASSUME OneInv, NEW n \in Object, AskedForOverlay(n), con[n].abi # None
    PROVE  Covers(con[n].abi, ImplOf[con[n].args.addr])
  BY DEF AskedForOverlay, OneInv, ProxyIsOverlaid, Address

LEMMA AtTop ==
    ASSUME Inv, NEW r \in Reader, NEW where, At(r, where)
    PROVE  \E n \in Object : /\ n = Top(r).obj /\ frames[r] # <<>> /\ con[n] \in ContractType
                             /\ where # "adopt" => ~At(r, "adopt")
                             /\ n \in Obj => Len(frames[r]) = 1 /\ ReadOf[r] = n
<1>1. PICK n \in Object : n = Top(r).obj /\ frames[r] # <<>> /\ con[n] \in ContractType
  BY AtFacts
<1>2. where # "adopt" => ~At(r, "adopt")
  BY DEF At
<1>3. n \in Obj => Len(frames[r]) = 1 /\ ReadOf[r] = n
  <2>1. SUFFICES ASSUME n \in Obj, Len(frames[r]) = 2 PROVE FALSE
    BY <1>1, TopFacts
  <2>2. PICK actor \in Actor(ReadOf[r]) : n = <<ReadOf[r], actor>>
    BY <1>1, <2>1, TopFacts
  <2>3. ReadOf[r] \in Obj
    OBVIOUS
  <2> QED
    BY <2>1, <2>2, <2>3, NestedObject
<1> QED
  BY <1>1, <1>2, <1>3

LEMMA OneTakeResult ==
    ASSUME Inv, OneInv, OneReaderEach, NEW r \in Reader, TakeResult(r)
    PROVE  OneInv'
<1>1. At(r, "wait") /\ GoTo(r, "adopt") /\ UNCHANGED <<cache, answer>>
  BY DEF TakeResult
<1>2. PICK n \in Object : /\ n = Top(r).obj /\ frames[r] # <<>> /\ con[n] \in ContractType
                          /\ n \in Obj => Len(frames[r]) = 1 /\ ReadOf[r] = n
  BY <1>1, AtTop
<1>3. con[n].outcome = "found" /\ con[n].args.addr \in Addr
  <2>1. con[n].outcome = "found"
    BY <1>2 DEF TakeResult
  <2> QED
    BY <2>1, LookupFacts
<1>4. PICK d : d = [con[n] EXCEPT !.proxy_abi = Described("explorer", con[n].args.addr)]
  OBVIOUS
<1>5. con' = [con EXCEPT ![n] = d]
  BY <1>2, <1>4 DEF TakeResult, Address
<1>6. /\ d.args = con[n].args /\ d.phase = con[n].phase /\ d.outcome = con[n].outcome
      /\ d.implementation = con[n].implementation /\ d.abi = con[n].abi
      /\ d.proxy_abi = Described("explorer", con[n].args.addr)
  BY <1>2, <1>4 DEF ContractType
<1>7. d.proxy_abi # None
  BY <1>3, <1>6, DescribedAbi, ZenonT(60)
<1>8. /\ \A s \in Reader : s # r => frames'[s] = frames[s]
      /\ Top(r)'.at = "adopt" /\ Len(frames'[r]) = Len(frames[r])
      /\ Len(frames[r]) = 1 => frames'[r][1].at = "adopt"
  BY <1>1, <1>2, GoesTo
<1>9. AskedForOverlay(n) =>
          ReadOf[r] = n /\ Len(frames'[r]) = 1 /\ frames'[r][1].at = "adopt"
  BY <1>2, <1>8 DEF AskedForOverlay
<1>10. AskedForOverlay(n) => (d.abi # None => Covers(d.abi, ImplOf[con[n].args.addr]))
  BY <1>6, InstalledCovers
<1> QED
  BY <1>1, <1>2, <1>5, <1>6, <1>7, <1>8, <1>9, <1>10, OneWrites

LEMMA OneTakeNotFound ==
    ASSUME Inv, OneInv, OneReaderEach, NEW r \in Reader, TakeNotFound(r)
    PROVE  OneInv'
<1>1. At(r, "wait") /\ GoTo(r, "clear") /\ UNCHANGED <<cache, answer>>
  BY DEF TakeNotFound
<1>2. PICK n \in Object : n = Top(r).obj /\ frames[r] # <<>> /\ con[n] \in ContractType
  BY <1>1, AtTop
<1>3. PICK d : d = [con[n] EXCEPT !.proxy_abi = {}]
  OBVIOUS
<1>4. con' = [con EXCEPT ![n] = d]
  BY <1>2, <1>3 DEF TakeNotFound, Inv
<1>5. /\ d.args = con[n].args /\ d.phase = con[n].phase /\ d.outcome = con[n].outcome
      /\ d.implementation = con[n].implementation /\ d.proxy_abi = {} /\ {} # None
  BY <1>2, <1>3 DEF ContractType, Abi
<1>6. ~AskedForOverlay(n)
  BY <1>2 DEF AskedForOverlay, TakeNotFound
<1>7. (\A s \in Reader : s # r => frames'[s] = frames[s]) /\ Top(r)'.at = "clear"
  BY <1>1, <1>2, GoesTo
<1> QED
  BY <1>1, <1>2, <1>4, <1>5, <1>6, <1>7, OneWrites

LEMMA OneTakeFailure ==
    ASSUME Inv, OneInv, OneReaderEach, NEW r \in Reader, TakeFailure(r)
    PROVE  OneInv'
<1>1. PICK n \in Object : n = Top(r).obj /\ frames[r] # <<>> /\ con[n] \in ContractType
  BY AtTop DEF TakeFailure
<1>2. con[n].outcome \in Failure
  BY <1>1 DEF TakeFailure
<1>3. PICK d : d = [con[n] EXCEPT !.abi_job = FALSE]
  OBVIOUS
<1>4. con' = [con EXCEPT ![n] = d]
  BY <1>1, <1>3 DEF TakeFailure
<1>5. /\ d.args = con[n].args /\ d.phase = con[n].phase /\ d.outcome = con[n].outcome
      /\ d.implementation = con[n].implementation /\ d.proxy_abi = con[n].proxy_abi
  BY <1>1, <1>3 DEF ContractType
<1>6. ~AskedForOverlay(n)
  BY <1>2 DEF AskedForOverlay, Failure
<1>7. /\ frames' = [frames EXCEPT ![r] = <<>>]
      /\ answer' = [answer EXCEPT ![r] = con[n].outcome]
  BY <1>1 DEF TakeFailure, Raise
<1>8. /\ frames'[r] = <<>> /\ answer'[r] # "missing"
      /\ \A s \in Reader : s # r => frames'[s] = frames[s] /\ answer'[s] = answer[s]
  BY <1>2, <1>7 DEF Inv, Failure
<1> QED
  BY <1>1, <1>4, <1>5, <1>6, <1>8, OneWrites

LEMMA OneReaderAdopts ==
    ASSUME Inv, OneInv, OneReaderEach, NEW r \in Reader, ReaderAdopts(r)
    PROVE  OneInv'
<1>1. At(r, "adopt") /\ GoTo(r, "clear") /\ UNCHANGED <<cache, answer>>
  BY DEF ReaderAdopts
<1>2. PICK n \in Object : n = Top(r).obj /\ frames[r] # <<>> /\ con[n] \in ContractType
  BY <1>1, AtTop
<1>3. PICK d : d = [con[n] EXCEPT !.implementation = IF con[n].implementation = None
                                                     THEN Reported(n) ELSE con[n].implementation]
  OBVIOUS
<1>4. con' = [con EXCEPT ![n] = d]
  BY <1>2, <1>3 DEF ReaderAdopts, Inv
<1>5. /\ d.args = con[n].args /\ d.phase = con[n].phase /\ d.outcome = con[n].outcome
      /\ d.proxy_abi = con[n].proxy_abi /\ d.abi = con[n].abi
      /\ d.implementation = IF con[n].implementation = None THEN Reported(n)
                            ELSE con[n].implementation
  BY <1>2, <1>3 DEF ContractType
<1>6. AskedForOverlay(n) => d.implementation # None
  BY <1>5 DEF AskedForOverlay, Reported, Address
<1>7. AskedForOverlay(n) => (d.abi # None => Covers(d.abi, ImplOf[con[n].args.addr]))
  BY <1>5, InstalledCovers
<1>8. (\A s \in Reader : s # r => frames'[s] = frames[s]) /\ Top(r)'.at = "clear"
  BY <1>1, <1>2, GoesTo
<1> QED
  BY <1>1, <1>2, <1>4, <1>5, <1>6, <1>7, <1>8, OneWrites

LEMMA OneClearJob ==
    ASSUME Inv, OneInv, OneReaderEach, NEW r \in Reader, ClearJob(r)
    PROVE  OneInv'
<1>1. At(r, "clear") /\ GoTo(r, "combine") /\ UNCHANGED <<cache, answer>>
  BY DEF ClearJob
<1>2. PICK n \in Object : /\ n = Top(r).obj /\ frames[r] # <<>> /\ con[n] \in ContractType
                          /\ ~At(r, "adopt")
  BY <1>1, AtTop
<1>3. PICK d : d = [con[n] EXCEPT !.abi_job = FALSE]
  OBVIOUS
<1>4. con' = [con EXCEPT ![n] = d]
  BY <1>2, <1>3 DEF ClearJob
<1>5. /\ d.args = con[n].args /\ d.phase = con[n].phase /\ d.outcome = con[n].outcome
      /\ d.proxy_abi = con[n].proxy_abi /\ d.abi = con[n].abi
      /\ d.implementation = con[n].implementation
  BY <1>2, <1>3 DEF ContractType
<1>6. AskedForOverlay(n) => (d.abi # None => Covers(d.abi, ImplOf[con[n].args.addr]))
  BY <1>5, InstalledCovers
<1>7. (\A s \in Reader : s # r => frames'[s] = frames[s]) /\ Top(r)'.at = "combine"
  BY <1>1, <1>2, GoesTo
<1> QED
  BY <1>1, <1>2, <1>4, <1>5, <1>6, <1>7, OneWrites

\* A proxy's ABI is installed alone only where nothing was said of an implementation: the
\* one reader has adopted what the answer said before it comes here.
LEMMA OneInstallPlain ==
    ASSUME Inv, OneInv, OneReaderEach, NEW r \in Reader, InstallPlain(r)
    PROVE  OneInv'
<1>1. At(r, "combine") /\ GoTo(r, "enter") /\ UNCHANGED <<cache, answer>>
  BY DEF InstallPlain
<1>2. PICK n \in Object : /\ n = Top(r).obj /\ frames[r] # <<>> /\ con[n] \in ContractType
                          /\ ~At(r, "adopt") /\ (n \in Obj => ReadOf[r] = n)
  BY <1>1, AtTop
<1>3. con[n].implementation = None /\ con[n].proxy_abi # None
  BY <1>1, <1>2, AtFacts DEF InstallPlain, Taken
<1>4. PICK d : d = [con[n] EXCEPT !.abi = con[n].proxy_abi]
  OBVIOUS
<1>5. con' = [con EXCEPT ![n] = d]
  BY <1>2, <1>4 DEF InstallPlain, Install
<1>6. /\ d.args = con[n].args /\ d.phase = con[n].phase /\ d.outcome = con[n].outcome
      /\ d.proxy_abi = con[n].proxy_abi /\ d.implementation = con[n].implementation
  BY <1>2, <1>4 DEF ContractType
<1>7. ~AskedForOverlay(n)
  <2>1. SUFFICES ASSUME AskedForOverlay(n) PROVE FALSE
    OBVIOUS
  <2>2. PICK s \in Reader : ReadOf[s] = n /\ Len(frames[s]) = 1 /\ frames[s][1].at = "adopt"
    BY <1>3, <2>1 DEF AskedForOverlay, OneInv, AnswerIsAdopted, Address
  <2>3. s = r
    BY <1>2, <2>1, <2>2 DEF OneReaderEach, AskedForOverlay
  <2> QED
    BY <1>2, <2>2, <2>3, TopFacts DEF At
<1>8. (\A s \in Reader : s # r => frames'[s] = frames[s]) /\ Top(r)'.at = "enter"
  BY <1>1, <1>2, GoesTo
<1> QED
  BY <1>1, <1>2, <1>5, <1>6, <1>7, <1>8, OneWrites

LEMMA OneInstallOverlay ==
    ASSUME Inv, OneInv, OneReaderEach, NEW r \in Reader, InstallOverlay(r)
    PROVE  OneInv'
<1>1. At(r, "overlay") /\ GoTo(r, "enter") /\ UNCHANGED <<cache, answer>>
  BY DEF InstallOverlay
<1>2. PICK n \in Object : /\ n = Top(r).obj /\ frames[r] # <<>> /\ con[n] \in ContractType
                          /\ ~At(r, "adopt")
  BY <1>1, AtTop
<1>3. /\ Len(frames[r]) = 1 /\ n = ReadOf[r] /\ n \in Obj
      /\ Top(r).got \in Own(NestedArguments(n))
  <2>1. Len(frames[r]) = 1
    BY <1>1, AtFacts
  <2>2. n = ReadOf[r] /\ Top(r) = frames[r][1]
    BY <1>2, <2>1, TopFacts
  <2> QED
    BY <1>1, <2>1, <2>2 DEF Inv, StackFits, At
<1>4. PICK got \in Own(NestedArguments(n)) : got = Top(r).got
  BY <1>3
<1>5. PICK d : d = [con[n] EXCEPT !.abi = got \union con[n].proxy_abi]
  OBVIOUS
<1>6. con' = [con EXCEPT ![n] = d]
  BY <1>2, <1>4, <1>5 DEF InstallOverlay, Install, Overlay
<1>7. /\ d.args = con[n].args /\ d.phase = con[n].phase /\ d.outcome = con[n].outcome
      /\ d.proxy_abi = con[n].proxy_abi /\ d.implementation = con[n].implementation
      /\ d.abi = got \union con[n].proxy_abi
  BY <1>2, <1>5 DEF ContractType
<1>8. con[n].implementation # None
  BY <1>1, <1>2, AtFacts
<1>9. Covers(got, con[n].implementation)
  <2>1. NestedArguments(n) \in ArgumentType
    BY <1>3, <1>8, NestedArgumentsFit DEF ArgumentsFit
  <2>2. Covers(got, NestedArguments(n).addr)
    BY <2>1, OwnAbi
  <2> QED
    BY <2>2 DEF NestedArguments
<1>10. AskedForOverlay(n) => con[n].implementation = ImplOf[con[n].args.addr]
  <2>1. con[n].implementation = Told(con[n].args)
    BY <1>3, <1>8, NestedArgumentsFit
  <2> QED
    BY <2>1 DEF AskedForOverlay, Told, Forced
<1>11. AskedForOverlay(n) => Covers(d.abi, ImplOf[con[n].args.addr])
  BY <1>7, <1>9, <1>10 DEF Covers
<1>12. (\A s \in Reader : s # r => frames'[s] = frames[s]) /\ Top(r)'.at = "enter"
  BY <1>1, <1>2, GoesTo
<1> QED
  BY <1>1, <1>2, <1>6, <1>7, <1>8, <1>11, <1>12, OneWrites

LEMMA OneReaderCreates ==
    ASSUME Inv, OneInv, OneReaderEach, NEW r \in Reader, ReaderCreates(r)
    PROVE  OneInv'
<1>1. At(r, "combine") /\ GoTo(r, "create") /\ UNCHANGED <<cache, answer>>
  BY DEF ReaderCreates
<1>2. PICK n \in Obj : /\ n = Top(r).obj /\ frames[r] # <<>> /\ n \in Object
                       /\ ~At(r, "adopt") /\ Len(frames[r]) = 1 /\ ReadOf[r] = n
  BY <1>1, AtTop DEF ReaderCreates
<1>3. /\ con[n].implementation # None /\ con[n].implementation_contract = None
      /\ con' = [con EXCEPT ![<<n, r>>] = Opened(NestedArguments(n))]
  BY <1>2 DEF ReaderCreates
<1>4. r \in Actor(n) /\ <<n, r>> \in Object /\ <<n, r>> # n
  BY <1>2, NestedObject DEF Actor
<1>5. con[<<n, r>>] = Absent
  <2>1. ~Present(<<n, r>>)
    <3>1. ReaderNestFits(r)
      BY DEF Inv
    <3>2. frames[r][1].at # "create"
      BY <1>1, <1>2, TopFacts DEF At
    <3> QED
      BY <1>2, <1>3, <3>1, <3>2 DEF ReaderNestFits
  <2> QED
    BY <1>4, <2>1 DEF Inv, Good
<1>6. \A x \in Object : Calm(con[x], con'[x])
  BY <1>3, <1>4, <1>5, OpenedIsCalm, OneIsCalm
<1>7. con'[n] = con[n] /\ Present(n) /\ Kept(con[n], con'[n])
  BY <1>2, <1>3, <1>4, <1>6, TopFacts DEF Inv, Calm
<1>8. AskedForOverlay(n) => (con[n].abi # None => Covers(con[n].abi, ImplOf[con[n].args.addr]))
  BY <1>2, InstalledCovers
<1>9. (\A s \in Reader : s # r => frames'[s] = frames[s]) /\ Top(r)'.at = "create"
  BY <1>1, <1>2, GoesTo
<1> QED
  BY <1>1, <1>2, <1>3, <1>6, <1>7, <1>8, <1>9, OneStep

LEMMA OneReaderCreated ==
    ASSUME Inv, OneInv, OneReaderEach, NEW r \in Reader, ReaderCreated(r)
    PROVE  OneInv'
<1>1. At(r, "create") /\ GoTo(r, "combine") /\ UNCHANGED <<cache, answer>>
  BY DEF ReaderCreated
<1>2. PICK n \in Object : /\ n = Top(r).obj /\ frames[r] # <<>> /\ con[n] \in ContractType
                          /\ ~At(r, "adopt")
  BY <1>1, AtTop
<1>3. PICK d : d = [con[n] EXCEPT !.implementation_contract = <<n, r>>]
  OBVIOUS
<1>4. con' = [con EXCEPT ![n] = d]
  BY <1>2, <1>3 DEF ReaderCreated
<1>5. /\ d.args = con[n].args /\ d.phase = con[n].phase /\ d.outcome = con[n].outcome
      /\ d.proxy_abi = con[n].proxy_abi /\ d.abi = con[n].abi
      /\ d.implementation = con[n].implementation
  BY <1>2, <1>3 DEF ContractType
<1>6. con[n].implementation # None
  BY <1>1, <1>2, AtFacts
<1>7. AskedForOverlay(n) => (d.abi # None => Covers(d.abi, ImplOf[con[n].args.addr]))
  BY <1>5, InstalledCovers
<1>8. (\A s \in Reader : s # r => frames'[s] = frames[s]) /\ Top(r)'.at = "combine"
  BY <1>1, <1>2, GoesTo
<1> QED
  BY <1>1, <1>2, <1>4, <1>5, <1>6, <1>7, <1>8, OneWrites

LEMMA OneNothing ==
    ASSUME \A o \in Obj : con[o].outcome = "none",
           \A r \in Reader : frames[r] = <<>> /\ answer[r] = "none"
    PROVE  OneInv
  BY DEF OneInv, JobIsKept, AnswerIsAdopted, AnswerIsOfContract, ProxyIsOverlaid,
         MissingIsEarned

LEMMA OneInit == ASSUME Init PROVE OneInv
<1>1. \A o \in Obj : con[o].outcome = "none"
  <2>1. Absent.outcome = "none" /\ \A o \in Obj : o \in Object
    BY DEF Absent, Object
  <2> QED
    BY <2>1 DEF Init
<1> QED
  BY <1>1, OneNothing DEF Init

LEMMA OneRestart == ASSUME Restart PROVE OneInv'
<1>1. \A o \in Obj : con'[o].outcome = "none"
  <2>1. Absent.outcome = "none" /\ \A o \in Obj : o \in Object
    BY DEF Absent, Object
  <2> QED
    BY <2>1 DEF Restart
<1>2. \A r \in Reader : frames'[r] = <<>> /\ answer'[r] = "none"
  BY DEF Restart
<1> QED
  BY <1>1, <1>2 DEF OneInv, JobIsKept, AnswerIsAdopted, AnswerIsOfContract,
     ProxyIsOverlaid, MissingIsEarned

LEMMA OneInvStep ==
    ASSUME OneReaderEach
    PROVE  Inv /\ OneInv /\ [Next]_vars => OneInv'
<1> SUFFICES ASSUME Inv, OneInv, [Next]_vars PROVE OneInv'
  OBVIOUS
<1>1. ASSUME NEW o \in Obj, NEW g \in Arguments[o], Construct(o, g) PROVE OneInv'
  BY <1>1, CalmConstruct, CalmStep DEF Construct
<1>2. ASSUME NEW o \in Object, Constructor(o) PROVE OneInv'
  <2>1. UNCHANGED <<frames, answer>>
    BY <1>2 DEF Constructor, KeepExplicit, FromCache, Unavailable, UseForced, Fetch,
       FinishCached, NewCreates, NewCreated
  <2> QED
    BY <1>2, <2>1, CalmConstructor, CalmStep
<1>3. ASSUME NEW o \in Object, Worker(o) PROVE OneInv'
  <2>1. UNCHANGED <<frames, answer>>
    BY <1>3 DEF Worker, Settle, CacheAbi, CacheImplementation, CallbackAdopts,
       CallbackSkips, CallbackCreates, CallbackCreated
  <2> QED
    BY <1>3, <2>1, CalmWorker, CalmStep
<1>4. ASSUME NEW r \in Reader, Read(r) PROVE OneInv'
  BY <1>4, OneRead
<1>5. ASSUME NEW r \in Reader, GetAttribute(r) PROVE OneInv'
  BY <1>5, OneReturn, OneMissing, OneResolve, OneCheckProxy, OneCheckJob, OneTakeResult,
     OneTakeNotFound, OneTakeFailure, OneReaderAdopts, OneClearJob, OneInstallPlain,
     OneDescend, OneInstallOverlay, OneReaderCreates, OneReaderCreated DEF GetAttribute
<1>6. CASE Restart
  BY <1>6, OneRestart
<1>7. CASE UNCHANGED vars
  <2>1. UNCHANGED <<con, frames, answer>>
    BY <1>7 DEF vars
  <2>2. \A x \in Object : Calm(con[x], con'[x])
    BY <2>1, SameIsCalm
  <2> QED
    BY <2>1, <2>2, CalmStep
<1> QED
  BY <1>1, <1>2, <1>3, <1>4, <1>5, <1>6, <1>7 DEF Next

\* Of a Contract that one thread reads, the strengthened invariant holds: the thread's
\* job is not taken away, and it adopts an implementation before it uses the answer.
THEOREM OneInvHolds == ASSUME OneReaderEach PROVE Spec => [](Inv /\ OneInv)
<1>1. Init => Inv /\ OneInv
  BY InitInv, OneInit
<1>2. (Inv /\ OneInv) /\ [Next]_vars => (Inv /\ OneInv)'
  BY InvStep, OneInvStep
<1> QED
  BY <1>1, <1>2, PTL DEF Spec

\* Whichever of the reader and the callback learns of the implementation first, the
\* proxy's ABI is never installed alone, when one thread reads each Contract.
THEOREM ProxyHolds == ASSUME OneReaderEach PROVE Spec => []ProxyIsOverlaid
<1>1. OneInv => ProxyIsOverlaid
  BY DEF OneInv
<1> QED
  BY OneInvHolds, <1>1, PTL

\* AttributeError means that explorers may not be asked or that a lookup has failed,
\* when one thread reads each Contract.
THEOREM MissingHolds == ASSUME OneReaderEach PROVE Spec => []MissingIsEarned
<1>1. OneInv => MissingIsEarned
  BY DEF OneInv
<1> QED
  BY OneInvHolds, <1>1, PTL
=============================================================================
