----------------------------- MODULE MethodCalls -----------------------------
(***************************************************************************)
(* Calling methods of a contract (contract.py 282-647): which function a   *)
(* call means, what is sent for it and where to, or that it is refused.    *)
(* A Contract is bound to its chain when it is made.                       *)
(***************************************************************************)
EXTENDS ChainContext, AbiTypes

CONSTANTS
    Abi,            \* the functions of the contract
    Ask,            \* [name, key, values]: contract.name[key](*values)
    Manner,         \* "direct", "call", "estimate" or "transact": how it is called
    NoKey, NoCall

\* [name, inputs, mutability, constant]
ASSUME CallAssumption ==
    /\ DOMAIN Abi = 1 .. Len(Abi)
    /\ \A i \in DOMAIN Abi : Abi[i].inputs \in Seq(Type)
    /\ \A ask \in Ask : ask.values \in Seq(PyValue)

VARIABLE call       \* the call each thread is making

CallInit == call = [t \in Worker |-> NoCall]

Chosen(ask) ==
    LET places == Overloads(Abi, ask.name)
    IN  IF ask.key = NoKey THEN ByArguments(Abi, places, ask.values)
        ELSE ByKey(Abi, places, ask.key)

\* ContractCall and ContractTx differ in what calling them means.
Method(manner, f) ==
    IF manner # "direct" THEN manner ELSE IF Reads(f) THEN "call" ELSE "transact"

\* At most one request: everything is checked before anything is sent.
Requests(t, ask, manner, bound, c) ==
    {[method |-> Method(manner, f), chain |-> d, function |-> f,
      selector |-> FunctionSignature(f), words |-> CoerceArgs(f.inputs, ask.values)] :
        f \in {g \in Chosen(ask) : CoerceArgs(g.inputs, ask.values) # Refused},
        d \in Reached(t, bound, c)}

\* decode_calldata: what function f reads in a request, if the selector is its own.
DecodeInput(f, request) == IF request.selector = FunctionSignature(f) THEN request.words ELSE Refused

Invoke(t, ask, manner, bound, c) ==
    /\ call[t] = NoCall
    /\ call' = [call EXCEPT ![t] = [ask |-> ask, chain |-> c, open |-> Reached(t, bound, c) # {},
                                    requests |-> Requests(t, ask, manner, bound, c)]]

EndCall(t) == call[t] # NoCall /\ call' = [call EXCEPT ![t] = NoCall]

CallStep(t) ==
    /\ \/ \E ask \in Ask, manner \in Manner, bound \in Chain \union {NoChain}, c \in Chain :
              Invoke(t, ask, manner, bound, c)
       \/ EndCall(t)
    /\ UNCHANGED contextVars

-----------------------------------------------------------------------------

\* What the source takes for granted: no two functions of the contract have one name and
\* the same raw input types.
SignaturesDiffer ==
    \A i, j \in DOMAIN Abi : FunctionSignature(Abi[i]) = FunctionSignature(Abi[j]) => i = j

Named(name_) == {f \in Range(Abi) : f.name = name_}

\* A request is for a function of the name called, on the contract's chain, carries what
\* the values stand for as its arguments, and without a key no other function of the
\* name could have been meant; no other function of the contract decodes it.  A call
\* whose values stand for arguments of the only function of that name is sent (abi.py
\* 57-223, 446-473, contract.py 465-511).
CallIsExact ==
    \A t \in Worker : call[t] # NoCall =>
        LET ask == call[t].ask
            Meant(f) == Meanings(f.inputs, ask.values)
        IN  /\ \A r \in call[t].requests :
                   /\ r.function \in Named(ask.name) /\ r.chain = call[t].chain
                   /\ Meant(r.function) = {r.words}
                   /\ \A f \in Range(Abi) :
                          DecodeInput(f, r) = (IF f = r.function THEN r.words ELSE Refused)
                   /\ ask.key = NoKey =>
                          \A f \in Named(ask.name) \ {r.function} : Meant(f) = {}
            /\ \A f \in Named(ask.name) :
                   call[t].open /\ ask.key = NoKey /\ Named(ask.name) = {f} /\ Meant(f) # {}
                   => call[t].requests # {}

\* A request carries the selector of the function it means (abi.py 387).
SelectorIsCanonical ==
    \A t \in Worker : call[t] # NoCall =>
        \A r \in call[t].requests : r.selector = CanonicalSignature(r.function)
=============================================================================
