------------------------------ MODULE AbiTypes ------------------------------
(***************************************************************************)
(* What abi.py and contract.py decide about types: which Python values are *)
(* arguments of an ABI type and as what, how functions and events are      *)
(* signed, and which overload a call means.  The encoding proper is        *)
(* eth.codecs, so a coerced argument stands for its encoding.              *)
(*                                                                         *)
(* A type has a base, a size in bits or bytes (0 for none), the sizes of   *)
(* its array suffixes from left to right, and the components of a tuple.   *)
(* A Python value is a record of how it reads: its py type and, where it   *)
(* reads as one, the number, text, bytes or address it stands for.         *)
(***************************************************************************)
EXTENDS Integers, SequencesExt

CONSTANTS
    Refused,        \* ABITypeError, ABIValueError, ValueError
    AnySize,        \* the size of [], None in the code
    Type,           \* the types that occur, with those they are made of
    PyValue         \* the Python values that occur, with the items of the lists among them

ScalarType(base_, size_) == [base |-> base_, size |-> size_, dims |-> <<>>, parts |-> <<>>]
Tuple(parts_) == [ScalarType("tuple", 0) EXCEPT !.parts = parts_]
ArrayOf(type, dims_) == [type EXCEPT !.dims = @ \o dims_]

\* Variant: the suffixes are read from the left.
Outermost_Left(dims) == [size |-> Head(dims), inner |-> Tail(dims)]

\* The dimension that says how long an array value is, and those of its elements.
Outermost(dims) == [size |-> Last(dims), inner |-> Front(dims)]

ElementType(type) == [type EXCEPT !.dims = Outermost(@).inner]

\* What a value of a type is made of.
Components(type) == IF type.dims # <<>> THEN {ElementType(type)} ELSE Range(type.parts)

\* Types are finite trees: going down from one, one arrives at the bottom.
ASSUME TypeAssumption ==
    /\ Type \subseteq [base : STRING, size : Nat, dims : Seq(Nat \union {AnySize}), parts : Seq(Type)]
    /\ \A type \in Type :
           /\ Components(type) \subseteq Type
           /\ type.base \in {"uint", "int"} => type.size > 0
           /\ type.base # "tuple" => type.parts = <<>>
    /\ \A S \in SUBSET Type : S # {} => \E type \in S : Components(type) \intersect S = {}

\* How values read.
ASSUME PyValueAssumption ==
    \A v \in PyValue :
        /\ v.items \in Seq(PyValue)
        /\ v.num # Refused => v.num \in Int /\ v.py \in {"int", "float", "str", "bool"}
        /\ v.bytes # Refused => v.py \in {"bytes", "str"}
        /\ v.address # Refused => v.py \in {"str", "Account", "Contract"}
        /\ v.py = "bool" => v.truth # Refused
        /\ v.py = "str" => v.text # Refused

-----------------------------------------------------------------------------
(* Coercion.                                                                *)

Lowest(type) == IF type.base = "int" THEN -(2 ^ (type.size - 1)) ELSE 0
Highest(type) == IF type.base = "int" THEN 2 ^ (type.size - 1) - 1 ELSE 2 ^ type.size - 1

\* Variant: a bool is an int, as in Python.
CoerceInt_Bool(type, v) ==
    IF v.num # Refused /\ v.num \in Lowest(type) .. Highest(type) THEN v.num ELSE Refused

\* ints, integral floats, decimal and hexadecimal strings, but no bools.  Types are those
\* Solidity has, so the checks of the type itself (178-179, and 149-151 for bytes) pass.
CoerceInt(type, v) ==
    IF /\ v.py \in {"int", "float", "str"}
       /\ v.num # Refused /\ v.num \in Lowest(type) .. Highest(type)
    THEN v.num ELSE Refused

\* bytes or 0x-prefixed strings of whole bytes; bytesN takes exactly N of them.
CoerceBytes(type, v) ==
    IF /\ v.py \in {"bytes", "str"} /\ v.bytes # Refused
       /\ type.size = 0 \/ Len(v.bytes) = type.size
    THEN v.bytes ELSE Refused

CoerceScalar(type, v) ==
    CASE type.base = "address" ->
             IF v.py \in {"str", "Account", "Contract"} THEN v.address ELSE Refused
      [] type.base = "bool"    -> IF v.py = "bool" THEN v.truth ELSE Refused
      [] type.base = "string"  -> IF v.py = "str" THEN v.text ELSE Refused
      [] type.base = "bytes"   -> CoerceBytes(type, v)
      [] type.base \in {"uint", "int"} -> CoerceInt(type, v)
      [] OTHER                 -> Refused       \* unsupported: fixed, function

\* All of the words, or none if one of them was refused.
Whole(words) == IF \E i \in DOMAIN words : words[i] = Refused THEN Refused ELSE words

\* One word, or Refused.
CoerceValue[type \in Type] ==
    [v \in PyValue |->
        IF type.dims # <<>>
        THEN LET outer == Outermost(type.dims) IN
             IF v.py = "list" /\ outer.size \in {AnySize, Len(v.items)}
             THEN Whole([i \in 1 .. Len(v.items) |->
                            CoerceValue[ElementType(type)][v.items[i]]])
             ELSE Refused
        ELSE IF type.base = "tuple"
        THEN IF v.py = "list" /\ Len(v.items) = Len(type.parts)
             THEN Whole([i \in 1 .. Len(v.items) |->
                            CoerceValue[type.parts[i]][v.items[i]]])
             ELSE Refused
        ELSE CoerceScalar(type, v)]

CoerceArgs(types, values) ==
    IF Len(types) # Len(values) THEN Refused
    ELSE Whole([i \in 1 .. Len(types) |-> CoerceValue[types[i]][values[i]]])

-----------------------------------------------------------------------------
(* Signatures and selectors.  A selector is the signature it is the hash of.*)

RawType(type) == [type EXCEPT !.parts = <<>>]      \* item["type"]: "tuple", "tuple[2]"

ItemType[type \in Type] ==
    [type EXCEPT !.parts = [i \in DOMAIN type.parts |-> ItemType[type.parts[i]]]]

\* function_signature, and so function_selector and overlay_abi, join the raw types.
FunctionSignature(f) ==
    [name |-> f.name, types |-> [i \in DOMAIN f.inputs |-> RawType(f.inputs[i])]]

\* event_signature, and so event_topic.
EventSignature(e) ==
    [name |-> e.name, types |-> [i \in DOMAIN e.inputs |-> ItemType[e.inputs[i].type]]]

\* What a contract dispatches on: the types with tuples spelled out.
CanonicalSignature(f) ==
    [name |-> f.name, types |-> [i \in DOMAIN f.inputs |-> ItemType[f.inputs[i]]]]

-----------------------------------------------------------------------------
(* The function a call means.                                               *)

\* _install_abi keeps the functions of one name together, in order: their places in the ABI.
Overloads(abi, name_) == {i \in DOMAIN abi : abi[i].name = name_}

\* _method_class: view and pure functions are called, others are sent.
Reads(f) ==
    IF f.mutability = "unstated" THEN f.constant ELSE f.mutability \in {"view", "pure"}

First(S) == {i \in S : \A k \in S : i <= k}
Only(S) == {i \in S : S = {i}}

OfArity(abi, places, n) == {i \in places : Len(abi[i].inputs) = n}

\* Variant: the first overload of the right arity is taken.
ByArguments_First(abi, places, values) ==
    {abi[i] : i \in First(OfArity(abi, places, Len(values)))}

\* A lone method is called with whatever it is given; among several the arity decides,
\* if it can.
ByArguments(abi, places, values) ==
    {abi[i] : i \in IF Only(places) # {} THEN places
                    ELSE Only(OfArity(abi, places, Len(values)))}

\* OverloadedMethod.__getitem__: the first overload with these raw input types.  A lone
\* method has no overloads to choose from.
ByKey(abi, places, key) ==
    {abi[i] : i \in First({j \in places : Only(places) = {}
                                         /\ FunctionSignature(abi[j]).types = key})}

-----------------------------------------------------------------------------
(* Reference: what a value means as an ABI type.                            *)

\* The sequences with one element of each set.
Products(sets) ==
    {s \in [DOMAIN sets -> UNION Range(sets)] : \A i \in DOMAIN sets : s[i] \in sets[i]}

MeaningAsScalar(type, v) ==
    CASE type.base = "bool"    -> IF v.py = "bool" THEN {v.truth} ELSE {}
      [] type.base = "address" -> {v.address} \ {Refused}
      [] type.base = "string"  -> IF v.py = "str" THEN {v.text} ELSE {}
      [] type.base = "bytes"   -> {b \in {v.bytes} \ {Refused} : type.size \in {0, Len(b)}}
      [] type.base = "uint"    ->
             {n \in {v.num} \ {Refused} : v.py # "bool" /\ n >= 0 /\ n < 2 ^ type.size}
      [] type.base = "int"     ->
             {n \in {v.num} \ {Refused} : /\ v.py # "bool"
                                          /\ n >= -(2 ^ (type.size - 1))
                                          /\ n < 2 ^ (type.size - 1)}
      [] OTHER                 -> {}

\* The one word v stands for as a value of the type, or none.  T[n] is n Ts, T[] any
\* number of them.
Meaning[type \in Type] ==
    [v \in PyValue |->
        LET n == type.dims[Len(type.dims)]
            T == [type EXCEPT !.dims = SubSeq(@, 1, Len(@) - 1)]
        IN  IF type.dims = <<>> /\ type.base # "tuple" THEN MeaningAsScalar(type, v)
            ELSE IF \/ v.py # "list"
                    \/ type.dims # <<>> /\ n # AnySize /\ Len(v.items) # n
                    \/ type.dims = <<>> /\ Len(v.items) # Len(type.parts)
            THEN {}
            ELSE Products([i \in DOMAIN v.items |->
                     IF type.dims # <<>> THEN Meaning[T][v.items[i]]
                     ELSE Meaning[type.parts[i]][v.items[i]]])]

\* The argument lists the values stand for: one or none.
Meanings(types, values) ==
    IF Len(types) # Len(values) THEN {}
    ELSE Products([i \in DOMAIN types |-> Meaning[types[i]][values[i]]])
=============================================================================
