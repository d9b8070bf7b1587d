------------------------------ MODULE EventLogs ------------------------------
(***************************************************************************)
(* Decoding logs into events: decode_event (abi.py 331-383) and EventList  *)
(* (events.py 168-235).                                                    *)
(*                                                                         *)
(* A log has an address, its first topic (an event signature or NoTopic),  *)
(* the other topics and the values in its data.  A value is a word, or the *)
(* hash of one.  An ABI is a sequence of event items; one that is not      *)
(* known is NoAbi.                                                         *)
(***************************************************************************)
EXTENDS AbiTypes

CONSTANTS NoTopic, NoAbi

Word(x) == [word |-> x, hashed |-> FALSE]
Hash(x) == [word |-> x, hashed |-> TRUE]

\* The places of the indexed arguments, and of those in the data.
Indexed(e) == {i \in DOMAIN e.inputs : e.inputs[i].indexed}
InData(e) == {i \in DOMAIN e.inputs : ~e.inputs[i].indexed}

\* Variant: arrays are overlooked.
IsDynamic_Base(type) == type.base \in {"string", "tuple"} \/ (type.base = "bytes" /\ type.size = 0)

\* _is_dynamic_indexed_type: as a topic such a value is its hash.
IsDynamic(type) ==
    \/ type.dims # <<>>
    \/ type.base \in {"string", "tuple"} \/ (type.base = "bytes" /\ type.size = 0)

\* values[name] = value: a later value under a name replaces the earlier one in its place.
PutValue(values, name, value) ==
    IF \E i \in DOMAIN values : values[i].name = name
    THEN [i \in DOMAIN values |->
              IF values[i].name = name THEN [name |-> name, value |-> value] ELSE values[i]]
    ELSE Append(values, [name |-> name, value |-> value])

\* The topic of an indexed argument: decoded, or as it is when it is a hash.
FromTopic(type, topic) == IF IsDynamic(type) THEN Hash(topic.word) ELSE Word(topic.word)

\* Whether the log has the shape this item says its events have.
Fitting(e, log) ==
    /\ ~e.anonymous /\ log.topic = EventSignature(e)
    /\ Len(log.topics) = Cardinality(Indexed(e)) /\ Len(log.data) = Cardinality(InData(e))

\* One step of decode_event: an indexed input is taken from the topics, another one from
\* the data, each in order.
Take(log, got, input) ==
    IF input.indexed
    THEN [topic |-> got.topic + 1, datum |-> got.datum,
          values |-> PutValue(got.values, input.name, FromTopic(input.type, log.topics[got.topic]))]
    ELSE [topic |-> got.topic, datum |-> got.datum + 1,
          values |-> PutValue(got.values, input.name, log.data[got.datum])]

\* decode_event walks the inputs.
DecodeEvent(e, log) ==
    LET Walked[n \in 0 .. Len(e.inputs)] ==
            IF n = 0 THEN [topic |-> 1, datum |-> 1, values |-> <<>>]
            ELSE Take(log, Walked[n - 1], e.inputs[n])
    IN  Walked[Len(e.inputs)].values

\* _topic_maps: the last event item with a topic wins; anonymous ones have none.
ItemFor(abi, topic) ==
    LET Matches == {i \in DOMAIN abi : ~abi[i].anonymous /\ EventSignature(abi[i]) = topic}
    IN  {abi[i] : i \in {j \in Matches : \A k \in Matches : k <= j}}

Undecoded(kind_) == [kind |-> kind_, name |-> NoTopic, values |-> <<>>]

\* One log, given the ABIs known by address.
DecodeLog(known, log) ==
    IF known[log.address] = NoAbi THEN Undecoded("abi_missing")
    ELSE LET Items == IF log.topic = NoTopic THEN {} ELSE ItemFor(known[log.address], log.topic)
         IN  IF Items = {} THEN Undecoded("topic_missing")
             ELSE LET e == CHOOSE item \in Items : TRUE IN
                  IF Fitting(e, log)
                  THEN [kind |-> "event", name |-> e.name, values |-> DecodeEvent(e, log)]
                  ELSE [Undecoded("malformed") EXCEPT !.name = e.name]

DecodeLogs(known, logs) == [i \in DOMAIN logs |-> DecodeLog(known, logs[i])]

-----------------------------------------------------------------------------
(* What a contract emits (external), which is what one expects to read.     *)

\* How a log holds an argument: an indexed one of a dynamic type as its hash.
AsLogged(input, value) ==
    IF /\ input.indexed
       /\ input.type.dims # <<>> \/ input.type.base \in {"string", "tuple"}
          \/ input.type = ScalarType("bytes", 0)
    THEN Hash(value) ELSE Word(value)

\* The k-th of some places.
Nth(places, k) == CHOOSE i \in places : Cardinality({j \in places : j <= i}) = k

\* The values are given in the order of the inputs.
Emitted(address, e, values) ==
    LET Logged(places) ==
            [k \in 1 .. Cardinality(places) |->
                AsLogged(e.inputs[Nth(places, k)], values[Nth(places, k)])]
    IN  [address |-> address,
         topic   |-> IF e.anonymous THEN NoTopic ELSE EventSignature(e),
         topics  |-> Logged(Indexed(e)),
         data    |-> Logged(InData(e))]
=============================================================================
