----------------------------- MODULE EventReads -----------------------------
(***************************************************************************)
(* Reading the events of a receipt: EventList with the cached ABIs of a    *)
(* chain, and enrich() (events.py 175-270).  The ABIs themselves come from *)
(* ContractAbi: here the cache holds those of some addresses, and a lookup *)
(* answers for more of them.                                               *)
(***************************************************************************)
EXTENDS ChainContext, EventLogs

CONSTANTS
    Address,
    AbiAt,          \* the ABI of each address of each chain
    Receipt,        \* [chain, emitted], emitted being [address, item, values] in order
    NoReading

ItemShape == [name : STRING, anonymous : BOOLEAN,
              inputs : Seq([name : STRING, type : Type, indexed : BOOLEAN])]

\* Every ABI that can be looked up is a list of event items, and contracts emit events as
\* some item says, with as many values as it has inputs.
ASSUME EventAssumption ==
    /\ \A c \in Chain, a \in Address : AbiAt[c][a] \in Seq(ItemShape) /\ AbiAt[c][a] # NoAbi
    /\ \A receipt \in Receipt :
           /\ receipt.chain \in Chain
           /\ Len(receipt.emitted) \in Nat /\ DOMAIN receipt.emitted = 1 .. Len(receipt.emitted)
           /\ \A i \in DOMAIN receipt.emitted :
                  LET emission == receipt.emitted[i]
                  IN  /\ emission.address \in Address /\ emission.item \in ItemShape
                      /\ DOMAIN emission.values = DOMAIN emission.item.inputs
                      /\ EventSignature(emission.item) # NoTopic

VARIABLE reading    \* the EventList each thread has

ReadingInit == reading = [t \in Worker |-> NoReading]

Logs(receipt) ==
    [i \in DOMAIN receipt.emitted |->
        LET emission == receipt.emitted[i]
        IN  Emitted(emission.address, emission.item, emission.values)]

\* _topic_maps: the ABIs known of chain c, none without a chain.
Known(c, have) ==
    [a \in Address |-> IF c # NoChain /\ a \in have THEN AbiAt[c][a] ELSE NoAbi]

\* EventList(logs, chain=arg); without arg Contract() takes the default chain.
ReadEvents(t, receipt, arg, have) ==
    /\ reading[t] = NoReading
    /\ LET c == Resolved(t, NoChain, arg) IN
       reading' = [reading EXCEPT ![t] =
                       [receipt |-> receipt, chain |-> arg, used |-> c, have |-> have,
                        events |-> DecodeLogs(Known(c, have), Logs(receipt))]]

\* The ABIs that are not cached are looked up, and some lookups fail.
Enrich(t) ==
    /\ reading[t] # NoReading /\ reading[t].chain # NoChain
    /\ \E have \in SUBSET Address :
           /\ reading[t].have \subseteq have
           /\ reading' = [reading EXCEPT ![t].have = have, ![t].events =
                             DecodeLogs(Known(reading[t].chain, have), Logs(reading[t].receipt))]

DropEvents(t) == reading[t] # NoReading /\ reading' = [reading EXCEPT ![t] = NoReading]

ReadingStep(t) ==
    /\ \/ \E receipt \in Receipt, arg \in Chain \union {NoChain}, have \in SUBSET Address :
              ReadEvents(t, receipt, arg, have)
       \/ Enrich(t) \/ DropEvents(t)
    /\ UNCHANGED contextVars

-----------------------------------------------------------------------------

NamesDiffer(e) ==
    \A i, j \in DOMAIN e.inputs : e.inputs[i].name = e.inputs[j].name => i = j

\* What the source takes for granted: the arguments of an event have different names, no
\* ABI has two events of one signature, and one that has the signature of an event that
\* was emitted is that event, or indexes more or fewer arguments.
EventsDiffer ==
    /\ \A c \in Chain, a \in Address : \A i, j \in DOMAIN AbiAt[c][a] :
           /\ ~AbiAt[c][a][i].anonymous /\ ~AbiAt[c][a][j].anonymous
           /\ EventSignature(AbiAt[c][a][i]) = EventSignature(AbiAt[c][a][j])
           => i = j
    /\ \A receipt \in Receipt : \A i \in DOMAIN receipt.emitted :
           LET e == receipt.emitted[i].item IN
           /\ NamesDiffer(e)
           /\ \A item \in Range(AbiAt[receipt.chain][receipt.emitted[i].address]) :
                  /\ ~item.anonymous /\ EventSignature(item) = EventSignature(e)
                  /\ Cardinality(Indexed(item)) = Cardinality(Indexed(e))
                  => item = e

\* Logs are decoded one for one and in order.  With the ABIs of the chain they were
\* emitted on, a decoded event has the name and, by name and by position, the arguments
\* that were emitted; and a log is decoded if the ABI of its address is known and
\* declares that event (events.py 168-230, abi.py 331-383).
EventsDecodeBack ==
    \A t \in Worker : reading[t] # NoReading /\ reading[t].used = reading[t].receipt.chain =>
        LET emitted == reading[t].receipt.emitted
            events == reading[t].events
        IN  /\ Len(events) = Len(emitted)
            /\ \A i \in DOMAIN events :
                   LET e == emitted[i].item IN
                   /\ events[i].kind = "event" =>
                          /\ events[i].name = e.name
                          /\ events[i].values =
                                 [k \in DOMAIN e.inputs |->
                                     [name |-> e.inputs[k].name,
                                      value |-> AsLogged(e.inputs[k], emitted[i].values[k])]]
                   /\ /\ emitted[i].address \in reading[t].have /\ ~e.anonymous
                      /\ e \in Range(AbiAt[reading[t].used][emitted[i].address])
                      => events[i].kind = "event"
=============================================================================
