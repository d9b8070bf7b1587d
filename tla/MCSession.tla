------------------------------ MODULE MCSession ------------------------------
(***************************************************************************)
(* Two threads share two context managers, of two chains; one thread works *)
(* and nests contexts, the other one enters and leaves.                    *)
(***************************************************************************)
EXTENDS Session

CONSTANTS t1, t2, c1, c2, strict, plain, alice, bob, token, other

\* Contexts: one makes c1 the default chain, strictly, the other one makes it c2.
Owner == (strict :> c1) @@ (plain :> c2)
Depth == (t1 :> 2) @@ (t2 :> 1)

-----------------------------------------------------------------------------
(* Calls.                                                                   *)

Uint8 == ScalarType("uint", 8)
Int8 == ScalarType("int", 8)
Addr == ScalarType("address", 0)
Bytes2 == ScalarType("bytes", 2)
Bytes == ScalarType("bytes", 0)
Matrix == ArrayOf(Uint8, <<2, AnySize>>)            \* uint8[2][]
Bool == ScalarType("bool", 0)
Point == Tuple(<<Uint8, Bool>>)

\* Those above, and uint8[2] and uint8[] that Matrix, read from the right or from the left,
\* is made of.
SomeTypes == {Uint8, Int8, Bool, Addr, Bytes2, Bytes, Point, Matrix,
              ArrayOf(Uint8, <<2>>), ArrayOf(Uint8, <<AnySize>>)}

Function(name_, inputs_, mutability_) ==
    [name |-> name_, inputs |-> inputs_, mutability |-> mutability_, constant |-> FALSE]

Plain == <<
    Function("get", <<Uint8>>, "view"),
    Function("get", <<Int8>>, "pure"),
    Function("get", <<Addr, Matrix>>, "nonpayable"),
    Function("set", <<Matrix>>, "payable"),
    Function("set", <<>>, "unstated"),
    Function("tag", <<Bytes2>>, "nonpayable"),
    Function("own", <<Addr>>, "view")>>

WithTuples == <<Function("plot", <<Point>>, "nonpayable"), Function("plot", <<>>, "view")>>

PyNothing == [py |-> "none", num |-> Refused, truth |-> Refused, text |-> Refused,
              bytes |-> Refused, address |-> Refused, items |-> <<>>]
PyInt(n) == [PyNothing EXCEPT !.py = "int", !.num = n]
PyFloat(n) == [PyNothing EXCEPT !.py = "float", !.num = n]
PyBool(b) == [PyNothing EXCEPT !.py = "bool", !.truth = b, !.num = IF b THEN 1 ELSE 0]
PyBytes(s) == [PyNothing EXCEPT !.py = "bytes", !.bytes = s]
PyList(s) == [PyNothing EXCEPT !.py = "list", !.items = s]
PyAddress(a) == [PyNothing EXCEPT !.py = "str", !.text = a, !.address = a]
PyDigits(n) == [PyNothing EXCEPT !.py = "str", !.text = n, !.num = n]     \* "255"

Row(a, b) == PyList(<<PyInt(a), PyInt(b)>>)
Three == PyList(<<Row(1, 2), Row(3, 4), Row(5, 6)>>)
Ragged == PyList(<<PyList(<<PyInt(1), PyInt(2), PyInt(3)>>), Row(4, 5)>>)

Call(name_, key_, values_) == [name |-> name_, key |-> key_, values |-> values_]

PlainAsks == {
    Call("get", NoKey, <<PyInt(7)>>),                       \* ambiguous
    Call("get", NoKey, <<PyAddress(alice), Three>>),
    Call("get", NoKey, <<>>),
    Call("get", <<Int8>>, <<PyInt(-128)>>), Call("get", <<Int8>>, <<PyInt(128)>>),
    Call("get", <<Uint8>>, <<PyDigits(255)>>), Call("get", <<Uint8>>, <<PyBool(TRUE)>>),
    Call("set", NoKey, <<Three>>), Call("set", NoKey, <<Ragged>>), Call("set", NoKey, <<>>),
    Call("set", <<>>, <<Three>>),
    Call("tag", NoKey, <<PyBytes(<<1, 2>>)>>), Call("tag", NoKey, <<PyBytes(<<1>>)>>),
    Call("own", NoKey, <<PyAddress(bob)>>), Call("own", NoKey, <<PyFloat(1)>>)}

TupleAsks == {Call("plot", NoKey, <<PyList(<<PyInt(1), PyBool(FALSE)>>)>>)}

Items(values) == UNION {Range(v.items) : v \in values}
SomeValues ==
    LET given == UNION {Range(ask.values) : ask \in PlainAsks \union TupleAsks}
    IN  given \union Items(given) \union Items(Items(given))

-----------------------------------------------------------------------------
(* Fees.                                                                    *)

Fee(price, cap_, tip_) == [gasPrice |-> price, cap |-> cap_, tip |-> tip_]
SomeFees == {Fee(NoFee, NoFee, NoFee), Fee(NoFee, NoFee, 130), Fee(47, NoFee, NoFee),
             Fee(0, NoFee, NoFee)}
SomeQuotes == {[tip |-> 1, base |-> 7], [tip |-> 150, base |-> 333]}
SomeIncrements == {<<1, 1>>, DefaultIncrement, <<2, 1>>}

-----------------------------------------------------------------------------
(* Events.                                                                  *)

Input(name_, type_, indexed_) == [name |-> name_, type |-> type_, indexed |-> indexed_]
Item(name_, inputs_) == [name |-> name_, inputs |-> inputs_, anonymous |-> FALSE]

Transfer20 == Item("Transfer", <<Input("from", Addr, TRUE), Input("to", Addr, TRUE),
                                 Input("value", Uint8, FALSE)>>)
Transfer721 == Item("Transfer", <<Input("from", Addr, TRUE), Input("to", Addr, TRUE),
                                  Input("value", Uint8, TRUE)>>)
Batch == Item("Batch", <<Input("memo", Bytes, FALSE), Input("amounts", Matrix, TRUE),
                         Input("note", Uint8, FALSE), Input("who", Addr, TRUE)>>)
Silent == [Item("Silent", <<Input("who", Addr, FALSE)>>) EXCEPT !.anonymous = TRUE]

Abis == (c1 :> ((token :> <<Transfer20, Batch, Silent>>) @@ (other :> <<Transfer721>>)))
     @@ (c2 :> ((token :> <<Transfer721>>) @@ (other :> <<>>)))

Emits(address_, item_, values_) == [address |-> address_, item |-> item_, values |-> values_]

Receipts == {
    [chain |-> c1, emitted |-> <<Emits(token, Batch, <<"memo", "amounts", "note", alice>>),
                                 Emits(other, Transfer721, <<alice, bob, 3>>),
                                 Emits(token, Transfer20, <<bob, alice, 4>>)>>],
    [chain |-> c1, emitted |-> <<Emits(token, Silent, <<bob>>), Emits(other, Transfer20, <<alice, bob, 5>>)>>],
    [chain |-> c2, emitted |-> <<Emits(token, Transfer721, <<bob, bob, 6>>)>>]}

\* The instance is one of those that the theorems about calls and events are about.
ASSUME SignaturesDiffer /\ EventsDiffer
=============================================================================
