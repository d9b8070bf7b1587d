--------------------------- MODULE AbiTypesProofs ---------------------------
(* Proofs about AbiTypes and its uses, for any types, values and functions:   *)
(* what a value is coerced to, what a call means, and what an event reads as. *)
EXTENDS MethodCalls, EventReads, FiniteSetTheorems, WellFoundedInduction, TLAPS

\* A refusal is an exception, not a list of words.
NoListIsRefused == \A S : Refused \notin Seq(S)

-----------------------------------------------------------------------------
(* The recursive definitions are what they say.                             *)

CoerceBody(c, Coerce, type) ==
    [v \in PyValue |->
        IF type.dims # <<>>
        THEN LET outer == Outermost(type.dims) IN
             IF v.py = "list" /\ outer.size \in {AnySize, Len(v.items)}
             THEN Whole([i \in 1 .. Len(v.items) |-> Coerce[ElementType(type)][v.items[i]]])
             ELSE Refused
        ELSE IF type.base = "tuple"
        THEN IF v.py = "list" /\ Len(v.items) = Len(type.parts)
             THEN Whole([i \in 1 .. Len(v.items) |-> Coerce[type.parts[i]][v.items[i]]])
             ELSE Refused
        ELSE CoerceScalar(type, v)]

MeaningBody(c, Mean, type) ==
    [v \in PyValue |->
        LET n == type.dims[Len(type.dims)]
            T == [type EXCEPT !.dims = SubSeq(@, 1, Len(@) - 1)]
        IN  IF type.dims = <<>> /\ type.base # "tuple" THEN MeaningAsScalar(type, v)
            ELSE IF \/ v.py # "list"
                    \/ type.dims # <<>> /\ n # AnySize /\ Len(v.items) # n
                    \/ type.dims = <<>> /\ Len(v.items) # Len(type.parts)
            THEN {}
            ELSE Products([i \in DOMAIN v.items |->
                     IF type.dims # <<>> THEN Mean[T][v.items[i]]
                     ELSE Mean[type.parts[i]][v.items[i]]])]

\* Both go down the types, and have no parameters.
TypesOf(c) == Type
NoParameters == <<>>

Coercing == INSTANCE WellFoundedRecursion
                WITH Node <- TypesOf, Below <- Components, Body <- CoerceBody
Meant == INSTANCE WellFoundedRecursion
                WITH Node <- TypesOf, Below <- Components, Body <- MeaningBody

LEMMA PartsBelow ==
  ASSUME NEW type \in Type
  PROVE  /\ type.dims # <<>> => /\ ElementType(type) \in Components(type)
                                /\ ElementType(type) \in Type
                                /\ ElementType(type) =
                                       [type EXCEPT !.dims = SubSeq(@, 1, Len(@) - 1)]
         /\ type.dims = <<>> => \A i \in 1 .. Len(type.parts) :
                type.parts[i] \in Components(type) /\ type.parts[i] \in Type
<1>1. type.parts \in Seq(Type) /\ type.dims \in Seq(Nat \union {AnySize})
  BY TypeAssumption
<1>2. Components(type) \subseteq Type
  BY TypeAssumption
<1>3. CASE type.dims # <<>>
  BY <1>2, <1>3 DEF Components, ElementType, Outermost, Front
<1>4. CASE type.dims = <<>>
  <2>1. Components(type) = Range(type.parts)
    BY <1>4 DEF Components
  <2>2. \A i \in 1 .. Len(type.parts) : type.parts[i] \in Range(type.parts)
    BY <1>1 DEF Range
  <2> QED BY <1>2, <1>4, <2>1, <2>2
<1> QED BY <1>3, <1>4

LEMMA TypesAreTrees ==
  /\ Coercing!Closed(NoParameters) /\ Coercing!WellFounded(NoParameters)
  /\ Meant!Closed(NoParameters) /\ Meant!WellFounded(NoParameters)
BY TypeAssumption
   DEF Coercing!Closed, Coercing!WellFounded, Meant!Closed, Meant!WellFounded, TypesOf

LEMMA CoerceIsLocal == Coercing!Local(NoParameters)
<1> SUFFICES ASSUME NEW f, NEW g, NEW type \in Type, \A y \in Components(type) : f[y] = g[y]
             PROVE  CoerceBody(NoParameters, f, type) = CoerceBody(NoParameters, g, type)
  BY DEF Coercing!Local, TypesOf
<1>1. CASE type.dims # <<>>
  <2>1. f[ElementType(type)] = g[ElementType(type)]
    BY <1>1, PartsBelow
  <2> QED BY <1>1, <2>1 DEF CoerceBody
<1>2. CASE type.dims = <<>>
  <2>1. \A i \in 1 .. Len(type.parts) : f[type.parts[i]] = g[type.parts[i]]
    BY <1>2, PartsBelow
  <2>2. \A v \in PyValue : Len(v.items) = Len(type.parts) =>
            [i \in 1 .. Len(v.items) |-> f[type.parts[i]][v.items[i]]] =
                [i \in 1 .. Len(v.items) |-> g[type.parts[i]][v.items[i]]]
    BY <2>1
  <2>3. \A v \in PyValue : CoerceBody(NoParameters, f, type)[v] = CoerceBody(NoParameters, g, type)[v]
    BY <1>2, <2>2 DEF CoerceBody
  <2> QED BY <2>3 DEF CoerceBody
<1> QED BY <1>1, <1>2

LEMMA MeaningIsLocal == Meant!Local(NoParameters)
<1> SUFFICES ASSUME NEW f, NEW g, NEW type \in Type, \A y \in Components(type) : f[y] = g[y]
             PROVE  MeaningBody(NoParameters, f, type) = MeaningBody(NoParameters, g, type)
  BY DEF Meant!Local, TypesOf
<1> DEFINE T == [type EXCEPT !.dims = SubSeq(@, 1, Len(@) - 1)]
<1>1. CASE type.dims # <<>>
  <2>1. f[T] = g[T]
    BY <1>1, PartsBelow
  <2>2. \A v \in PyValue : MeaningBody(NoParameters, f, type)[v] = MeaningBody(NoParameters, g, type)[v]
    BY <1>1, <2>1 DEF MeaningBody
  <2> QED BY <2>2 DEF MeaningBody
<1>2. CASE type.dims = <<>>
  <2>1. \A i \in 1 .. Len(type.parts) : f[type.parts[i]] = g[type.parts[i]]
    BY <1>2, PartsBelow
  <2>2. \A v \in PyValue : Len(v.items) = Len(type.parts) =>
            [i \in DOMAIN v.items |-> f[type.parts[i]][v.items[i]]] =
                [i \in DOMAIN v.items |-> g[type.parts[i]][v.items[i]]]
    <3>1. \A v \in PyValue : DOMAIN v.items = 1 .. Len(v.items)
      BY PyValueAssumption
    <3> QED BY <2>1, <3>1
  <2>3. \A v \in PyValue : MeaningBody(NoParameters, f, type)[v] = MeaningBody(NoParameters, g, type)[v]
    BY <1>2, <2>2 DEF MeaningBody
  <2> QED BY <2>3 DEF MeaningBody
<1> QED BY <1>1, <1>2

LEMMA CoerceDefined == CoerceValue = [type \in Type |-> CoerceBody(NoParameters, CoerceValue, type)]
<1>1. CoerceValue = CHOOSE g : g = [type \in Type |-> CoerceBody(NoParameters, g, type)]
  BY DEF CoerceValue, CoerceBody
<1> HIDE DEF CoerceValue
<1> QED BY <1>1, TypesAreTrees, CoerceIsLocal, Coercing!Recursion DEF TypesOf

LEMMA MeaningDefined == Meaning = [type \in Type |-> MeaningBody(NoParameters, Meaning, type)]
<1>1. Meaning = CHOOSE g : g = [type \in Type |-> MeaningBody(NoParameters, g, type)]
  BY DEF Meaning, MeaningBody
<1> HIDE DEF Meaning
<1> QED BY <1>1, TypesAreTrees, MeaningIsLocal, Meant!Recursion DEF TypesOf

LEMMA CoerceAt ==
  ASSUME NEW type \in Type, NEW v \in PyValue
  PROVE  CoerceValue[type][v] = CoerceBody(NoParameters, CoerceValue, type)[v]
<1>1. CoerceValue[type] = CoerceBody(NoParameters, CoerceValue, type)
  BY CoerceDefined
<1> QED BY <1>1

LEMMA MeaningAt ==
  ASSUME NEW type \in Type, NEW v \in PyValue
  PROVE  Meaning[type][v] = MeaningBody(NoParameters, Meaning, type)[v]
<1>1. Meaning[type] = MeaningBody(NoParameters, Meaning, type)
  BY MeaningDefined
<1> QED BY <1>1

-----------------------------------------------------------------------------
(* Coercion yields the word a value stands for, or refuses.                 *)

\* A word, or a refusal, is all a set of meanings holds.
Agrees(word, meanings) == meanings = IF word = Refused THEN {} ELSE {word}

LEMMA ListAgrees ==
  ASSUME NoListIsRefused, NEW n \in Nat,
         NEW words, words = [i \in 1 .. n |-> words[i]],
         NEW sets, sets = [i \in 1 .. n |-> sets[i]],
         \A i \in 1 .. n : Agrees(words[i], sets[i])
  PROVE  Agrees(Whole(words), Products(sets))
<1>1. DOMAIN words = 1 .. n /\ DOMAIN sets = 1 .. n
  OBVIOUS
<1>2. CASE \E i \in 1 .. n : words[i] = Refused
  <2>1. PICK i \in 1 .. n : words[i] = Refused
    BY <1>2
  <2>2. sets[i] = {}
    BY <2>1 DEF Agrees
  <2>3. Products(sets) = {}
    BY <1>1, <2>2 DEF Products
  <2>4. Whole(words) = Refused
    BY <1>1, <1>2 DEF Whole
  <2> QED BY <2>3, <2>4 DEF Agrees
<1>3. CASE \A i \in 1 .. n : words[i] # Refused
  <2>1. \A i \in 1 .. n : sets[i] = {words[i]}
    BY <1>3 DEF Agrees
  <2>2. Whole(words) = words
    BY <1>1, <1>3 DEF Whole
  <2>3. words # Refused
    <3> DEFINE S == {words[i] : i \in 1 .. n}
    <3>1. words \in [1 .. n -> S]
      OBVIOUS
    <3> HIDE DEF S
    <3>2. words \in Seq(S)
      BY <3>1
    <3> QED BY <3>2 DEF NoListIsRefused
  <2>4. words \in [DOMAIN sets -> UNION Range(sets)]
    <3>1. \A i \in 1 .. n : words[i] \in UNION Range(sets)
      BY <1>1, <2>1 DEF Range
    <3> QED BY <1>1, <3>1
  <2>5. \A s \in [DOMAIN sets -> UNION Range(sets)] :
            (\A i \in DOMAIN sets : s[i] \in sets[i]) => s = words
    BY <1>1, <2>1
  <2>6. Products(sets) = {words}
    BY <1>1, <2>1, <2>4, <2>5 DEF Products
  <2> QED BY <2>2, <2>3, <2>6 DEF Agrees
<1> QED BY <1>2, <1>3

LEMMA NumberAgrees ==
  ASSUME NEW type \in Type, type.base \in {"uint", "int"}, NEW v \in PyValue
  PROVE  Agrees(CoerceInt(type, v), MeaningAsScalar(type, v))
<1>1. type.size \in Nat /\ type.size > 0
  BY TypeAssumption
<1>2. 2 ^ type.size \in Int /\ 2 ^ (type.size - 1) \in Int
  BY <1>1
<1>3. CASE v.num = Refused
  BY <1>3 DEF Agrees, CoerceInt, MeaningAsScalar
<1>4. CASE v.num # Refused
  <2>1. v.num \in Int /\ v.py \in {"int", "float", "str", "bool"}
    BY <1>4, PyValueAssumption
  <2>2. /\ Lowest(type) \in Int /\ Highest(type) \in Int
        /\ CoerceInt(type, v) = IF /\ v.py # "bool"
                                   /\ v.num >= Lowest(type) /\ v.num <= Highest(type)
                                THEN v.num ELSE Refused
    <3>1. Lowest(type) \in Int /\ Highest(type) \in Int
      BY <1>2 DEF Lowest, Highest
    <3> QED BY <1>4, <2>1, <3>1 DEF CoerceInt
  <2>3. CASE type.base = "uint"
    <3>1. Lowest(type) = 0 /\ Highest(type) = 2 ^ type.size - 1
      BY <2>3 DEF Lowest, Highest
    <3>2. MeaningAsScalar(type, v) =
              {n \in {v.num} \ {Refused} : v.py # "bool" /\ n >= 0 /\ n < 2 ^ type.size}
      BY <2>3 DEF MeaningAsScalar
    <3>3. v.num < 2 ^ type.size <=> v.num <= 2 ^ type.size - 1
      BY <1>2, <2>1
    <3> QED BY <1>4, <2>2, <3>1, <3>2, <3>3 DEF Agrees
  <2>4. CASE type.base = "int"
    <3> DEFINE half == 2 ^ (type.size - 1)
    <3>1. Lowest(type) = -half /\ Highest(type) = half - 1
      BY <2>4 DEF Lowest, Highest
    <3>2. MeaningAsScalar(type, v) =
              {n \in {v.num} \ {Refused} : v.py # "bool" /\ n >= -half /\ n < half}
      BY <2>4 DEF MeaningAsScalar
    <3>3. v.num < half <=> v.num <= half - 1
      BY <1>2, <2>1
    <3> HIDE DEF half
    <3> QED BY <1>4, <2>2, <3>1, <3>2, <3>3 DEF Agrees
  <2> QED BY <2>3, <2>4
<1> QED BY <1>3, <1>4

LEMMA ScalarAgrees ==
  ASSUME NEW type \in Type, NEW v \in PyValue
  PROVE  Agrees(CoerceScalar(type, v), MeaningAsScalar(type, v))
<1> USE PyValueAssumption DEF Agrees
<1>1. CASE type.base = "address"
  BY <1>1 DEF CoerceScalar, MeaningAsScalar
<1>2. CASE type.base = "bool"
  BY <1>2 DEF CoerceScalar, MeaningAsScalar
<1>3. CASE type.base = "string"
  BY <1>3 DEF CoerceScalar, MeaningAsScalar
<1>4. CASE type.base = "bytes"
  BY <1>4 DEF CoerceScalar, MeaningAsScalar, CoerceBytes
<1>5. CASE type.base \in {"uint", "int"}
  BY <1>5, NumberAgrees DEF CoerceScalar
<1>6. CASE type.base \notin {"address", "bool", "string", "bytes", "uint", "int"}
  BY <1>6 DEF CoerceScalar, MeaningAsScalar
<1> QED BY <1>1, <1>2, <1>3, <1>4, <1>5, <1>6

\* A value is accepted as an ABI type, however nested, if and only if it stands for
\* something of that type, and then it is coerced to just that.
THEOREM CoercionIsExact ==
  ASSUME NoListIsRefused, NEW type \in Type, NEW v \in PyValue
  PROVE  Agrees(CoerceValue[type][v], Meaning[type][v])
<1> DEFINE Agreed(t) == \A w \in PyValue : Agrees(CoerceValue[t][w], Meaning[t][w])
           S == {t \in Type : ~Agreed(t)}
<1>1. SUFFICES ASSUME S # {} PROVE FALSE
  OBVIOUS
<1>2. PICK low \in S : Components(low) \intersect S = {}
  BY <1>1, TypeAssumption
<1>3. low \in Type /\ \A t \in Components(low) : t \in Type => Agreed(t)
  BY <1>2
<1>4. Agreed(low)
  <2> SUFFICES ASSUME NEW w \in PyValue
               PROVE  Agrees(CoerceBody(NoParameters, CoerceValue, low)[w], MeaningBody(NoParameters, Meaning, low)[w])
    BY <1>3, CoerceAt, MeaningAt
  <2>1. w.items \in Seq(PyValue) /\ low.dims \in Seq(Nat \union {AnySize})
    BY <1>3, PyValueAssumption, TypeAssumption
  <2>2. /\ Len(w.items) \in Nat /\ DOMAIN w.items = 1 .. Len(w.items)
        /\ \A i \in 1 .. Len(w.items) : w.items[i] \in PyValue
    BY <2>1
  <2>3. CASE low.dims # <<>>
    <3> DEFINE T == ElementType(low)
               n == low.dims[Len(low.dims)]
               words == [i \in 1 .. Len(w.items) |-> CoerceValue[T][w.items[i]]]
               sets == [i \in 1 .. Len(w.items) |-> Meaning[T][w.items[i]]]
    <3>1. T \in Components(low) /\ T \in Type
          /\ T = [low EXCEPT !.dims = SubSeq(@, 1, Len(@) - 1)]
      BY <1>3, <2>3, PartsBelow
    <3>2. Agreed(T)
      BY <1>3, <3>1
    <3>3. \A i \in 1 .. Len(w.items) : Agrees(words[i], sets[i])
      BY <2>2, <3>2
    <3>4. Agrees(Whole(words), Products(sets))
      BY <2>2, <3>3, ListAgrees
    <3>5. Outermost(low.dims).size = n
      BY DEF Outermost, Last
    <3>6. CoerceBody(NoParameters, CoerceValue, low)[w] =
              IF w.py = "list" /\ n \in {AnySize, Len(w.items)} THEN Whole(words) ELSE Refused
      BY <2>3, <3>5 DEF CoerceBody
    <3>7. MeaningBody(NoParameters, Meaning, low)[w] =
              IF w.py # "list" \/ (n # AnySize /\ Len(w.items) # n) THEN {} ELSE Products(sets)
      BY <2>2, <2>3, <3>1 DEF MeaningBody
    <3> HIDE DEF words, sets
    <3> QED BY <3>4, <3>6, <3>7 DEF Agrees
  <2>4. CASE low.dims = <<>> /\ low.base = "tuple"
    <3> DEFINE words == [i \in 1 .. Len(w.items) |-> CoerceValue[low.parts[i]][w.items[i]]]
               sets == [i \in 1 .. Len(w.items) |-> Meaning[low.parts[i]][w.items[i]]]
    <3>1. \A i \in 1 .. Len(low.parts) :
              low.parts[i] \in Components(low) /\ low.parts[i] \in Type
      BY <1>3, <2>4, PartsBelow
    <3>2. ASSUME Len(w.items) = Len(low.parts)
          PROVE  \A i \in 1 .. Len(w.items) : Agrees(words[i], sets[i])
      BY <1>3, <2>2, <3>1, <3>2
    <3>3. ASSUME Len(w.items) = Len(low.parts)
          PROVE  Agrees(Whole(words), Products(sets))
      BY <2>2, <3>2, <3>3, ListAgrees
    <3>4. CoerceBody(NoParameters, CoerceValue, low)[w] =
              IF w.py = "list" /\ Len(w.items) = Len(low.parts) THEN Whole(words) ELSE Refused
      BY <2>4 DEF CoerceBody
    <3>5. MeaningBody(NoParameters, Meaning, low)[w] =
              IF w.py # "list" \/ Len(w.items) # Len(low.parts) THEN {} ELSE Products(sets)
      BY <2>2, <2>4 DEF MeaningBody
    <3> HIDE DEF words, sets
    <3> QED BY <3>3, <3>4, <3>5 DEF Agrees
  <2>5. CASE low.dims = <<>> /\ low.base # "tuple"
    BY <1>3, <2>5, ScalarAgrees DEF CoerceBody, MeaningBody
  <2> QED BY <2>3, <2>4, <2>5
<1> QED BY <1>2, <1>4

\* The same of the arguments of a call.
LEMMA ArgumentsAgree ==
  ASSUME NoListIsRefused, NEW types \in Seq(Type), NEW values \in Seq(PyValue)
  PROVE  Agrees(CoerceArgs(types, values), Meanings(types, values))
<1>1. CASE Len(types) # Len(values)
  BY <1>1 DEF CoerceArgs, Meanings, Agrees
<1>2. CASE Len(types) = Len(values)
  <2> DEFINE words == [i \in 1 .. Len(types) |-> CoerceValue[types[i]][values[i]]]
             sets == [i \in 1 .. Len(types) |-> Meaning[types[i]][values[i]]]
  <2>1. \A i \in 1 .. Len(types) : types[i] \in Type /\ values[i] \in PyValue
    BY <1>2
  <2>2. \A i \in 1 .. Len(types) : Agrees(words[i], sets[i])
    BY <2>1, CoercionIsExact
  <2>3. Agrees(Whole(words), Products(sets))
    <3>1. /\ Len(types) \in Nat
          /\ words = [i \in 1 .. Len(types) |-> words[i]]
          /\ sets = [i \in 1 .. Len(types) |-> sets[i]]
      OBVIOUS
    <3> HIDE DEF words, sets
    <3> QED BY <2>2, <3>1, ListAgrees
  <2>4. CoerceArgs(types, values) = Whole(words) /\ Meanings(types, values) = Products(sets)
    BY <1>2 DEF CoerceArgs, Meanings
  <2> QED BY <2>3, <2>4
<1> QED BY <1>1, <1>2

-----------------------------------------------------------------------------
(* What a call means.                                                       *)

\* Without a key there is no other function of the name that takes as many arguments,
\* or none at all.
LEMMA ChosenByArguments ==
  ASSUME NEW ask \in Ask, ask.key = NoKey, NEW f \in Chosen(ask)
  PROVE  /\ f \in Named(ask.name)
         /\ \A g \in Named(ask.name) \ {f} : Len(g.inputs) # Len(ask.values)
<1> DEFINE places == Overloads(Abi, ask.name)
           fitting == OfArity(Abi, places, Len(ask.values))
<1>1. \A g \in Named(ask.name) : \E i \in places : g = Abi[i]
  BY DEF Named, Range, Overloads
<1>2. \A i \in places : Abi[i] \in Named(ask.name)
  BY DEF Named, Range, Overloads
<1>3. f \in ByArguments(Abi, places, ask.values)
  BY DEF Chosen
<1>4. CASE Only(places) # {}
  <2>1. PICK i \in places : places = {i}
    BY <1>4 DEF Only
  <2>2. f = Abi[i]
    BY <1>3, <1>4, <2>1 DEF ByArguments
  <2> HIDE DEF places
  <2> QED BY <1>1, <1>2, <2>1, <2>2
<1>5. CASE Only(places) = {}
  <2>1. PICK i \in Only(fitting) : f = Abi[i]
    BY <1>3, <1>5 DEF ByArguments
  <2>2. i \in places /\ fitting = {i}
    BY <2>1 DEF Only, OfArity
  <2>3. \A j \in places : Len(Abi[j].inputs) = Len(ask.values) => j = i
    BY <2>2 DEF OfArity
  <2> HIDE DEF places
  <2> QED BY <1>1, <1>2, <2>1, <2>2, <2>3
<1> QED BY <1>4, <1>5

\* A key chooses among the functions of the name.
LEMMA ChosenIsNamed ==
  ASSUME NEW ask \in Ask, NEW f \in Chosen(ask)
  PROVE  f \in Named(ask.name)
<1>1. CASE ask.key = NoKey
  BY <1>1, ChosenByArguments
<1>2. CASE ask.key # NoKey
  <2>1. f \in ByKey(Abi, Overloads(Abi, ask.name), ask.key)
    BY <1>2 DEF Chosen
  <2>2. PICK i \in Overloads(Abi, ask.name) : f = Abi[i]
    BY <2>1 DEF ByKey, First
  <2> QED BY <2>2 DEF Overloads, Named, Range
<1> QED BY <1>1, <1>2

\* The only function of a name is meant.
LEMMA LoneIsChosen ==
  ASSUME SignaturesDiffer, NEW ask \in Ask, ask.key = NoKey, NEW f, Named(ask.name) = {f}
  PROVE  f \in Chosen(ask)
<1> DEFINE places == Overloads(Abi, ask.name)
<1>1. \A i \in places : Abi[i] = f
  BY DEF Named, Range, Overloads
<1>2. PICK i \in places : Abi[i] = f
  BY DEF Named, Range, Overloads
<1>3. \A j \in places : j = i
  BY <1>1, <1>2 DEF SignaturesDiffer, Overloads
<1>4. Only(places) = {i}
  BY <1>2, <1>3 DEF Only
<1>5. f \in ByArguments(Abi, places, ask.values)
  <2> HIDE DEF places
  <2> QED BY <1>2, <1>4 DEF ByArguments
<1> QED BY <1>5 DEF Chosen

\* A call with an argument for its chain goes to that chain or nowhere.
LEMMA ReachesItsChain ==
  ASSUME NEW t, NEW bound \in Chain \union {NoChain}, NEW c \in Chain,
         NEW d \in Reached(t, bound, c)
  PROVE  d = c
BY ChainAssumption DEF Reached, Resolved

\* What is noted of a call.
Noted(t, ask, manner, bound, c) ==
    [ask |-> ask, chain |-> c, open |-> Reached(t, bound, c) # {},
     requests |-> Requests(t, ask, manner, bound, c)]

ExactRequest(c, r) ==
    /\ r.function \in Named(c.ask.name) /\ r.chain = c.chain
    /\ Meanings(r.function.inputs, c.ask.values) = {r.words}
    /\ \A f \in Range(Abi) :
           DecodeInput(f, r) = (IF f = r.function THEN r.words ELSE Refused)
    /\ c.ask.key = NoKey =>
           \A f \in Named(c.ask.name) \ {r.function} : Meanings(f.inputs, c.ask.values) = {}

ExactCall(c) ==
    /\ \A r \in c.requests : ExactRequest(c, r)
    /\ \A f \in Named(c.ask.name) :
           /\ c.open /\ c.ask.key = NoKey /\ Named(c.ask.name) = {f}
           /\ Meanings(f.inputs, c.ask.values) # {}
           => c.requests # {}

LEMMA ArgumentsOfCall ==
  ASSUME NoListIsRefused, NEW ask \in Ask, NEW f \in Range(Abi)
  PROVE  Agrees(CoerceArgs(f.inputs, ask.values), Meanings(f.inputs, ask.values))
<1>1. f.inputs \in Seq(Type) /\ ask.values \in Seq(PyValue)
  BY CallAssumption DEF Range
<1> QED BY <1>1, ArgumentsAgree

\* Whatever is called, with whatever values and default chain, the call is exact.
THEOREM CallsAreExact ==
  ASSUME NoListIsRefused, SignaturesDiffer,
         NEW t, NEW ask \in Ask, NEW manner, NEW bound \in Chain \union {NoChain}, NEW c \in Chain
  PROVE  ExactCall(Noted(t, ask, manner, bound, c))
<1> DEFINE n == Noted(t, ask, manner, bound, c)
           Words(f) == CoerceArgs(f.inputs, ask.values)
<1>1. \A f \in Named(ask.name) : f \in Range(Abi)
  BY DEF Named
<1>2. ASSUME NEW r \in Requests(t, ask, manner, bound, c)
      PROVE  ExactRequest(n, r)
  <2>1. PICK f \in Chosen(ask), d \in Reached(t, bound, c) :
            /\ Words(f) # Refused
            /\ r = [method |-> Method(manner, f), chain |-> d, function |-> f,
                    selector |-> FunctionSignature(f), words |-> Words(f)]
    BY <1>2 DEF Requests
  <2>2. /\ r.function = f /\ r.chain = d /\ r.words = Words(f)
        /\ r.selector = FunctionSignature(f)
    BY <2>1
  <2>3. f \in Named(ask.name) /\ d = c
    BY <2>1, ChosenIsNamed, ReachesItsChain
  <2>4. Meanings(f.inputs, ask.values) = {r.words}
    BY <1>1, <2>1, <2>2, <2>3, ArgumentsOfCall DEF Agrees
  <2>5. \A g \in Range(Abi) :
            DecodeInput(g, r) = (IF g = r.function THEN r.words ELSE Refused)
    <3>1. \A g \in Range(Abi) : FunctionSignature(g) = FunctionSignature(f) => g = f
      BY <1>1, <2>3 DEF SignaturesDiffer, Range
    <3> QED BY <2>2, <3>1 DEF DecodeInput
  <2>6. ask.key = NoKey => \A g \in Named(ask.name) \ {f} : Meanings(g.inputs, ask.values) = {}
    BY <2>1, ChosenByArguments DEF Meanings
  <2>7. n.ask = ask /\ n.chain = c
    BY DEF Noted
  <2> HIDE DEF n
  <2> QED BY <2>2, <2>3, <2>4, <2>5, <2>6, <2>7 DEF ExactRequest
<1>3. ASSUME NEW f \in Named(ask.name), Reached(t, bound, c) # {}, ask.key = NoKey,
             Named(ask.name) = {f}, Meanings(f.inputs, ask.values) # {}
      PROVE  Requests(t, ask, manner, bound, c) # {}
  <2>1. f \in Chosen(ask)
    BY <1>3, LoneIsChosen
  <2>2. Words(f) # Refused
    BY <1>1, <1>3, ArgumentsOfCall DEF Agrees
  <2>3. PICK d \in Reached(t, bound, c) : TRUE
    BY <1>3
  <2> DEFINE r == [method |-> Method(manner, f), chain |-> d, function |-> f,
                   selector |-> FunctionSignature(f), words |-> Words(f)]
  <2>4. r \in Requests(t, ask, manner, bound, c)
    BY <2>1, <2>2, <2>3 DEF Requests
  <2> QED BY <2>4
<1>4. /\ n.ask = ask /\ n.open = (Reached(t, bound, c) # {})
      /\ n.requests = Requests(t, ask, manner, bound, c)
  BY DEF Noted
<1>5. \A r \in n.requests : ExactRequest(n, r)
  BY <1>2, <1>4
<1>6. ASSUME NEW f \in Named(n.ask.name), n.open, n.ask.key = NoKey, Named(n.ask.name) = {f},
             Meanings(f.inputs, n.ask.values) # {}
      PROVE  n.requests # {}
  <2> HIDE DEF n
  <2> QED BY <1>3, <1>4, <1>6
<1> QED BY <1>5, <1>6 DEF ExactCall

-----------------------------------------------------------------------------
(* Selectors.                                                               *)

\* Spelling out goes down the members of structs, whether in arrays or not.
Parts(type) == Range(type.parts)
ItemBody(c, Item, type) == [type EXCEPT !.parts = [i \in DOMAIN type.parts |-> Item[type.parts[i]]]]

Spelling == INSTANCE WellFoundedRecursion
                WITH Node <- TypesOf, Below <- Parts, Body <- ItemBody

\* Taking elements away from arrays first, one arrives at the bottom also by members alone.
LEMMA PartsAreTrees == Spelling!Closed(NoParameters) /\ Spelling!WellFounded(NoParameters)
<1>1. ASSUME NEW type \in Type PROVE type.parts \in Seq(Type)
  BY TypeAssumption
<1>2. Spelling!Closed(NoParameters)
  <2> SUFFICES ASSUME NEW type \in Type PROVE Range(type.parts) \subseteq Type
    BY DEF Spelling!Closed, TypesOf, Parts
  <2> DEFINE parts == type.parts
  <2>1. parts \in Seq(Type)
    BY <1>1
  <2> HIDE DEF parts
  <2>2. Range(parts) \subseteq Type
    BY <2>1 DEF Range
  <2> QED BY <2>2 DEF parts
<1>3. ASSUME NEW S \in SUBSET Type, S # {}
      PROVE  \E x \in S : Parts(x) \intersect S = {}
  <2> DEFINE B == {t \in Type : \E x \in S : t.parts = x.parts}
  <2>1. S \subseteq B /\ B \in SUBSET Type /\ B # {}
    BY <1>3
  <2>2. PICK b \in B : Components(b) \intersect B = {}
    <3> HIDE DEF B
    <3> QED BY <2>1, TypeAssumption
  <2>3. b.dims = <<>>
    <3> SUFFICES ASSUME b.dims # <<>> PROVE FALSE
      OBVIOUS
    <3>1. /\ ElementType(b) \in Components(b) /\ ElementType(b) \in Type
          /\ ElementType(b) = [b EXCEPT !.dims = SubSeq(@, 1, Len(@) - 1)]
      BY PartsBelow
    <3>2. b \in [base : STRING, size : Nat, dims : Seq(Nat \union {AnySize}), parts : Seq(Type)]
      BY TypeAssumption
    <3>3. ElementType(b).parts = b.parts
      BY <3>1, <3>2
    <3> QED BY <2>2, <3>1, <3>3
  <2>4. PICK x \in S : b.parts = x.parts
    BY <2>2
  <2>5. Components(b) = Parts(x)
    BY <2>3, <2>4 DEF Components, Parts
  <2> HIDE DEF B
  <2> QED BY <2>1, <2>2, <2>5
<1> QED BY <1>2, <1>3 DEF Spelling!WellFounded, TypesOf

LEMMA SpellingIsLocal == Spelling!Local(NoParameters)
<1> SUFFICES ASSUME NEW f, NEW g, NEW type \in Type, \A y \in Parts(type) : f[y] = g[y]
             PROVE  ItemBody(NoParameters, f, type) = ItemBody(NoParameters, g, type)
  BY DEF Spelling!Local, TypesOf
<1>1. \A i \in DOMAIN type.parts : f[type.parts[i]] = g[type.parts[i]]
  BY DEF Parts, Range
<1> QED BY <1>1 DEF ItemBody

LEMMA ItemTypeDefined ==
  \A type \in Type :
      ItemType[type] = [type EXCEPT !.parts = [i \in DOMAIN type.parts |-> ItemType[type.parts[i]]]]
<1>1. ItemType = CHOOSE g : g = [type \in Type |-> ItemBody(NoParameters, g, type)]
  BY DEF ItemType, ItemBody
<1> HIDE DEF ItemType
<1>2. ItemType = [type \in Type |-> ItemBody(NoParameters, ItemType, type)]
  BY <1>1, PartsAreTrees, SpellingIsLocal, Spelling!Recursion DEF TypesOf
<1>3. \A type \in Type : ItemType[type] = ItemBody(NoParameters, ItemType, type)
  BY <1>2
<1> QED BY <1>3 DEF ItemBody

\* The selector of a function is the one contracts dispatch on if and only if no argument
\* of it is a struct, or an array of structs.
THEOREM SelectorsWithoutStructs ==
  ASSUME NEW f \in Range(Abi)
  PROVE  FunctionSignature(f) = CanonicalSignature(f)
         <=> \A i \in DOMAIN f.inputs : f.inputs[i].parts = <<>>
<1>1. f.inputs \in Seq(Type)
  BY CallAssumption DEF Range
<1>2. ASSUME NEW type \in Type
      PROVE  RawType(type) = ItemType[type] <=> type.parts = <<>>
  <2> DEFINE items == [i \in DOMAIN type.parts |-> ItemType[type.parts[i]]]
  <2>1. /\ type \in [base : STRING, size : Nat, dims : Seq(Nat \union {AnySize}), parts : Seq(Type)]
        /\ ItemType[type] = [type EXCEPT !.parts = items]
    BY ItemTypeDefined, TypeAssumption
  <2>2. RawType(type).parts = <<>> /\ ItemType[type].parts = items
    <3> HIDE DEF items
    <3> QED BY <2>1 DEF RawType
  <2>3. items = <<>> => type.parts = <<>>
    <3> DEFINE parts == type.parts
    <3>1. parts \in Seq(Type) /\ DOMAIN items = DOMAIN parts
      BY <2>1
    <3> HIDE DEF parts, items
    <3>2. items = <<>> => parts = <<>>
      BY <3>1
    <3> QED BY <3>2 DEF parts
  <2>4. type.parts = <<>> => items = <<>>
    OBVIOUS
  <2> HIDE DEF items
  <2> QED BY <2>1, <2>2, <2>3, <2>4 DEF RawType
<1>3. \A i \in DOMAIN f.inputs : f.inputs[i] \in Type
  <2> DEFINE inputs == f.inputs
  <2>1. inputs \in Seq(Type)
    BY <1>1
  <2> HIDE DEF inputs
  <2>2. \A i \in DOMAIN inputs : inputs[i] \in Type
    BY <2>1
  <2> QED BY <2>2 DEF inputs
<1> DEFINE Raw == [i \in DOMAIN f.inputs |-> RawType(f.inputs[i])]
           Canonical == [i \in DOMAIN f.inputs |-> ItemType[f.inputs[i]]]
<1>4. Raw = Canonical <=> \A i \in DOMAIN f.inputs : RawType(f.inputs[i]) = ItemType[f.inputs[i]]
  <2>1. ASSUME Raw = Canonical, NEW i \in DOMAIN f.inputs
        PROVE  RawType(f.inputs[i]) = ItemType[f.inputs[i]]
    <3>1. Raw[i] = RawType(f.inputs[i]) /\ Canonical[i] = ItemType[f.inputs[i]]
      BY <2>1
    <3> HIDE DEF Raw, Canonical
    <3> QED BY <2>1, <3>1
  <2> QED BY <2>1
<1>5. FunctionSignature(f) = CanonicalSignature(f) <=> Raw = Canonical
  <2>1. /\ FunctionSignature(f) = [name |-> f.name, types |-> Raw]
        /\ CanonicalSignature(f) = [name |-> f.name, types |-> Canonical]
    BY DEF FunctionSignature, CanonicalSignature
  <2> HIDE DEF Raw, Canonical
  <2> QED BY <2>1
<1> QED BY <1>2, <1>3, <1>4, <1>5

-----------------------------------------------------------------------------
(* Places among the inputs of an event.                                      *)

\* How many of some places come up to n.
Rank(places, n) == Cardinality({j \in places : j <= n})

\* A set of places that is not empty has a first one.
LEMMA FirstPlace ==
  ASSUME NEW S \in SUBSET Nat, S # {}
  PROVE  \E x \in S : \A y \in S : x <= y
<1>1. PICK x \in S : \A y \in S : ~(<<y, x>> \in OpToRel(<, Nat))
  BY NatLessThanWellFounded, WFMin
<1>2. \A y \in S : x \in Nat /\ y \in Nat /\ ~(y < x)
  BY <1>1 DEF OpToRel
<1>3. \A y \in S : x <= y
  BY <1>2
<1> QED BY <1>3

LEMMA PlacesAreFinite ==
  ASSUME NEW n \in Nat, NEW places \in SUBSET (1 .. n)
  PROVE  /\ IsFiniteSet(places) /\ Cardinality(places) \in Nat
         /\ \A k : IsFiniteSet({j \in places : j <= k}) /\ Rank(places, k) \in Nat
                  /\ Rank(places, k) <= Cardinality(places)
<1>1. IsFiniteSet(1 .. n)
  BY FS_Interval
<1>2. IsFiniteSet(places)
  BY <1>1, FS_Subset
<1>3. \A k : {j \in places : j <= k} \in SUBSET places
  OBVIOUS
<1> QED BY <1>2, <1>3, FS_Subset, FS_CardinalityType DEF Rank

\* The place of a rank is the one that has it.
LEMMA NthPlace ==
  ASSUME NEW n \in Nat, NEW places \in SUBSET (1 .. n), NEW i \in places
  PROVE  Rank(places, i) \in 1 .. Cardinality(places) /\ Nth(places, Rank(places, i)) = i
<1> DEFINE Upto(k) == {j \in places : j <= k}
<1>0. \A k \in places : k \in Int
  OBVIOUS
<1>1. \A k \in places : k \in Int /\ k \in Upto(k)
  BY <1>0
<1>2. \A k \in places : IsFiniteSet(Upto(k)) /\ Cardinality(Upto(k)) = Rank(places, k)
  BY PlacesAreFinite DEF Rank
<1>3. Rank(places, i) \in 1 .. Cardinality(places)
  <2>1. Rank(places, i) # 0
    BY <1>1, <1>2, FS_EmptySet
  <2>2. /\ Rank(places, i) \in Nat /\ Cardinality(places) \in Nat
        /\ Rank(places, i) <= Cardinality(places)
    BY PlacesAreFinite
  <2> QED BY <2>1, <2>2
<1>4. ASSUME NEW k \in places, Rank(places, k) = Rank(places, i)
      PROVE  k = i
  <2>1. CASE k <= i
    <3>1. Upto(k) \in SUBSET Upto(i)
      <4>1. \A j \in places : j <= k => j <= i
        BY <1>0, <2>1
      <4> QED BY <4>1
    <3>2. Upto(i) = Upto(k)
      BY <1>2, <1>4, <3>1, FS_Subset
    <3> QED BY <1>1, <2>1, <3>2
  <2>2. CASE i <= k
    <3>1. Upto(i) \in SUBSET Upto(k)
      <4>1. \A j \in places : j <= i => j <= k
        BY <1>0, <2>2
      <4> QED BY <4>1
    <3>2. Upto(i) = Upto(k)
      BY <1>2, <1>4, <3>1, FS_Subset
    <3> QED BY <1>1, <2>2, <3>2
  <2> QED BY <1>1, <2>1, <2>2
<1> QED BY <1>3, <1>4 DEF Nth, Rank

\* Ranks count up.
LEMMA RankCounts ==
  ASSUME NEW n \in Nat, NEW places \in SUBSET (1 .. n)
  PROVE  /\ Rank(places, 0) = 0
         /\ \A i \in 1 .. n : Rank(places, i) = IF i \in places THEN Rank(places, i - 1) + 1
                                                ELSE Rank(places, i - 1)
<1>1. Rank(places, 0) = 0
  <2>1. \A j \in places : ~(j <= 0)
    <3>1. \A j \in 1 .. n : ~(j <= 0)
      OBVIOUS
    <3> QED BY <3>1
  <2>2. {j \in places : j <= 0} = {}
    BY <2>1
  <2> QED BY <2>2, FS_EmptySet DEF Rank
<1>2. ASSUME NEW i \in 1 .. n
      PROVE  Rank(places, i) = IF i \in places THEN Rank(places, i - 1) + 1
                               ELSE Rank(places, i - 1)
  <2> DEFINE before == {j \in places : j <= i - 1}
             upto == {j \in places : j <= i}
  <2>1. IsFiniteSet(before)
    BY PlacesAreFinite
  <2>0. \A j \in places : j \in Int
    OBVIOUS
  <2>2. i \notin before /\ upto = IF i \in places THEN before \union {i} ELSE before
    <3>1. \A j \in places : j <= i <=> j <= i - 1 \/ j = i
      BY <2>0
    <3>2. ~(i <= i - 1) /\ i <= i
      OBVIOUS
    <3> QED BY <3>1, <3>2
  <2>3. Rank(places, i) = Cardinality(upto) /\ Rank(places, i - 1) = Cardinality(before)
    BY DEF Rank
  <2> HIDE DEF before, upto
  <2> QED BY <2>1, <2>2, <2>3, FS_AddElement
<1> QED BY <1>1, <1>2

-----------------------------------------------------------------------------
(* Decoding an event.                                                        *)

\* The walk of decode_event over some inputs, of a log.
StepsOf(c) == 0 .. Len(c.inputs)
Before(n) == {n - 1} \intersect Nat
WalkBody(c, Walked, n) ==
    IF n = 0 THEN [topic |-> 1, datum |-> 1, values |-> <<>>]
    ELSE Take(c.log, Walked[n - 1], c.inputs[n])
Walk(c) == CHOOSE w : w = [n \in StepsOf(c) |-> WalkBody(c, w, n)]

Walking == INSTANCE WellFoundedRecursion
               WITH Node <- StepsOf, Below <- Before, Body <- WalkBody

LEMMA StepsAreOrdered ==
  ASSUME NEW c, Len(c.inputs) \in Nat
  PROVE  Walking!Closed(c) /\ Walking!WellFounded(c)
<1>1. Walking!Closed(c)
  BY DEF Walking!Closed, StepsOf, Before
<1>2. ASSUME NEW S \in SUBSET StepsOf(c), S # {}
      PROVE  \E n \in S : Before(n) \intersect S = {}
  <2>1. S \in SUBSET Nat
    BY DEF StepsOf
  <2>2. PICK n \in S : \A k \in S : n <= k
    BY <1>2, <2>1, FirstPlace
  <2> QED BY <2>1, <2>2 DEF Before
<1> QED BY <1>1, <1>2 DEF Walking!WellFounded

LEMMA WalkIsLocal ==
  ASSUME NEW c, Len(c.inputs) \in Nat
  PROVE  Walking!Local(c)
<1> SUFFICES ASSUME NEW f, NEW g, NEW n \in StepsOf(c), \A k \in Before(n) : f[k] = g[k]
             PROVE  WalkBody(c, f, n) = WalkBody(c, g, n)
  BY DEF Walking!Local
<1>1. n # 0 => f[n - 1] = g[n - 1]
  BY DEF StepsOf, Before
<1> QED BY <1>1 DEF WalkBody

LEMMA WalkSteps ==
  ASSUME NEW c, Len(c.inputs) \in Nat
  PROVE  \A n \in 0 .. Len(c.inputs) : Walk(c)[n] = WalkBody(c, Walk(c), n)
<1>1. Walk(c) = [n \in StepsOf(c) |-> WalkBody(c, Walk(c), n)]
  BY StepsAreOrdered, WalkIsLocal, Walking!Recursion DEF Walk
<1> HIDE DEF Walk
<1> QED BY <1>1 DEF StepsOf

LEMMA DecodeWalks ==
  ASSUME NEW e, NEW log
  PROVE  DecodeEvent(e, log) = Walk([inputs |-> e.inputs, log |-> log])[Len(e.inputs)].values
BY DEF DecodeEvent, Walk, WalkBody, StepsOf

\* The first n values under their names; one whose name is new comes last.
Listed(n, Names, Values) == [k \in 1 .. n |-> [name |-> Names[k], value |-> Values[k]]]

LEMMA PutNewValue ==
  ASSUME NEW n \in Nat, NEW Names, NEW Values, \A k \in 1 .. n : Names[k] # Names[n + 1]
  PROVE  PutValue(Listed(n, Names, Values), Names[n + 1], Values[n + 1]) =
         Listed(n + 1, Names, Values)
<1> DEFINE held == Listed(n, Names, Values)
           x == [name |-> Names[n + 1], value |-> Values[n + 1]]
           All == {held[k] : k \in 1 .. n} \union {x}
<1>1. /\ held = [k \in 1 .. n |-> held[k]]
      /\ \A k \in 1 .. n : held[k] = [name |-> Names[k], value |-> Values[k]]
  BY DEF Listed
<1>2. PutValue(held, Names[n + 1], Values[n + 1]) = Append(held, x)
  <2>1. \A k \in DOMAIN held : held[k].name # Names[n + 1]
    BY <1>1
  <2> HIDE DEF held
  <2> QED BY <2>1 DEF PutValue
<1>3. x \in All /\ held \in [1 .. n -> All]
  <2> HIDE DEF held
  <2> QED BY <1>1
<1> DEFINE all == Append(held, x)
<1>4. all \in Seq(All) /\ Len(all) = n + 1
      /\ \A k \in 1 .. n + 1 : all[k] = IF k = n + 1 THEN x ELSE held[k]
  <2> HIDE DEF held, All, x
  <2>1. held \in Seq(All) /\ Len(held) = n
    BY <1>3
  <2> QED BY <1>3, <2>1
<1>5. all = [k \in 1 .. n + 1 |-> all[k]]
  <2> HIDE DEF all
  <2>1. all = [k \in 1 .. Len(all) |-> all[k]]
    BY <1>4
  <2> QED BY <1>4, <2>1
<1>6. \A k \in 1 .. n + 1 : all[k] = [name |-> Names[k], value |-> Values[k]]
  <2> SUFFICES ASSUME NEW k \in 1 .. n + 1
               PROVE  all[k] = [name |-> Names[k], value |-> Values[k]]
    OBVIOUS
  <2>1. k = n + 1 \/ k \in 1 .. n
    OBVIOUS
  <2> HIDE DEF all, held
  <2> QED BY <1>1, <1>4, <2>1
<1> HIDE DEF all, held
<1>7. all = Listed(n + 1, Names, Values)
  BY <1>5, <1>6 DEF Listed
<1> QED BY <1>2, <1>7 DEF all, held

\* What an event is decoded to: its arguments in order, under their names.
Arguments(e, values, n) ==
    [k \in 1 .. n |->
        [name |-> e.inputs[k].name, value |-> AsLogged(e.inputs[k], values[k])]]

\* A topic is read as it was logged.
LEMMA TopicReads ==
  ASSUME NEW type \in Type, NEW input, input.type = type, input.indexed, NEW value
  PROVE  FromTopic(type, AsLogged(input, value)) = AsLogged(input, value)
<1>1. /\ AsLogged(input, value).word = value
      /\ AsLogged(input, value) \in {Word(value), Hash(value)}
  BY DEF AsLogged, Word, Hash
<1>2. type.base = "bytes" /\ type.size = 0 /\ type.dims = <<>> <=> type = ScalarType("bytes", 0)
  <2>1. /\ type \in [base : STRING, size : Nat, dims : Seq(Nat \union {AnySize}), parts : Seq(Type)]
        /\ type.base # "tuple" => type.parts = <<>>
    BY TypeAssumption
  <2> QED BY <2>1 DEF ScalarType
<1>3. IsDynamic(type) <=> AsLogged(input, value) = Hash(value)
  BY <1>2 DEF IsDynamic, AsLogged, Word, Hash
<1> QED BY <1>1, <1>3 DEF FromTopic

\* After n inputs the walk has the first n arguments, and is at the topic and the datum of
\* the next ones.
WalkedTo(e, values, n) ==
    [topic |-> Rank(Indexed(e), n) + 1, datum |-> Rank(InData(e), n) + 1,
     values |-> Arguments(e, values, n)]

\* Decoding what was emitted gives back the arguments, each under its name and in its
\* place, with hashes for the indexed ones of dynamic types.
THEOREM DecodingInverts ==
  ASSUME NEW e \in ItemShape, NamesDiffer(e), NEW address, NEW values
  PROVE  DecodeEvent(e, Emitted(address, e, values)) = Arguments(e, values, Len(e.inputs))
<1> DEFINE N == Len(e.inputs)
           log == Emitted(address, e, values)
           c == [inputs |-> e.inputs, log |-> log]
           I == Indexed(e)
           D == InData(e)
           W == Walk(c)
           S == {n \in 0 .. N : W[n] = WalkedTo(e, values, n)}
<1>1. /\ N \in Nat /\ DOMAIN e.inputs = 1 .. N
      /\ \A k \in 1 .. N : e.inputs[k].type \in Type /\ e.inputs[k].indexed \in BOOLEAN
  <2>1. e.inputs \in Seq([name : STRING, type : Type, indexed : BOOLEAN])
    BY DEF ItemShape
  <2> DEFINE inputs == e.inputs
             Input == [name : STRING, type : Type, indexed : BOOLEAN]
  <2>4. inputs \in Seq(Input)
    BY <2>1
  <2>5. \A input \in Input : input.type \in Type /\ input.indexed \in BOOLEAN
    OBVIOUS
  <2> HIDE DEF inputs, Input
  <2>2. /\ Len(inputs) \in Nat /\ DOMAIN inputs = 1 .. Len(inputs)
        /\ \A k \in 1 .. Len(inputs) : inputs[k] \in Input
    BY <2>4
  <2>3. \A k \in 1 .. Len(inputs) : inputs[k].type \in Type /\ inputs[k].indexed \in BOOLEAN
    BY <2>2, <2>5
  <2> QED BY <2>2, <2>3 DEF inputs
<1>2. I \in SUBSET (1 .. N) /\ D \in SUBSET (1 .. N)
  BY <1>1 DEF Indexed, InData
<1>3. \A i \in I : /\ Rank(I, i) \in 1 .. Cardinality(I)
                    /\ log.topics[Rank(I, i)] = AsLogged(e.inputs[i], values[i])
  <2>1. log.topics = [k \in 1 .. Cardinality(I) |->
                         AsLogged(e.inputs[Nth(I, k)], values[Nth(I, k)])]
    BY DEF Emitted
  <2> HIDE DEF log, I
  <2> QED BY <1>1, <1>2, <2>1, NthPlace
<1>4. \A i \in D : /\ Rank(D, i) \in 1 .. Cardinality(D)
                    /\ log.data[Rank(D, i)] = AsLogged(e.inputs[i], values[i])
  <2>1. log.data = [k \in 1 .. Cardinality(D) |->
                         AsLogged(e.inputs[Nth(D, k)], values[Nth(D, k)])]
    BY DEF Emitted
  <2> HIDE DEF log, D
  <2> QED BY <1>1, <1>2, <2>1, NthPlace
<1>5. c.inputs = e.inputs /\ c.log = log
  OBVIOUS
<1>11. /\ Rank(I, 0) = 0 /\ Rank(D, 0) = 0
       /\ \A n \in 1 .. N : Rank(I, n) = IF n \in I THEN Rank(I, n - 1) + 1 ELSE Rank(I, n - 1)
       /\ \A n \in 1 .. N : Rank(D, n) = IF n \in D THEN Rank(D, n - 1) + 1 ELSE Rank(D, n - 1)
  <2> HIDE DEF I, D, N
  <2> QED BY <1>1, <1>2, RankCounts
<1>6. \A n \in 0 .. N : W[n] = WalkBody(c, W, n)
  BY <1>1, <1>5, WalkSteps
<1> HIDE DEF c, log, I, D
<1>7. W[0] = WalkedTo(e, values, 0)
  <2>1. W[0] = [topic |-> 1, datum |-> 1, values |-> <<>>]
    BY <1>1, <1>6 DEF WalkBody
  <2>2. Arguments(e, values, 0) = <<>>
    BY DEF Arguments
  <2> QED BY <1>11, <2>1, <2>2 DEF WalkedTo, I, D
<1>8. ASSUME NEW n \in 1 .. N, W[n - 1] = WalkedTo(e, values, n - 1)
      PROVE  W[n] = WalkedTo(e, values, n)
  <2> DEFINE got == WalkedTo(e, values, n - 1)
             input == e.inputs[n]
             argument == AsLogged(input, values[n])
  <2>1. W[n] = Take(log, got, input)
    BY <1>1, <1>5, <1>6, <1>8 DEF WalkBody
  <2>2. /\ got.topic = Rank(I, n - 1) + 1 /\ got.datum = Rank(D, n - 1) + 1
        /\ got.values = Arguments(e, values, n - 1)
    BY DEF WalkedTo, I, D
  <2>3. PutValue(got.values, input.name, argument) = Arguments(e, values, n)
    <3> DEFINE Names == [k \in 1 .. N |-> e.inputs[k].name]
               Values == [k \in 1 .. N |-> AsLogged(e.inputs[k], values[k])]
               m == n - 1
    <3>1. m \in Nat /\ m + 1 = n /\ 1 .. m \subseteq 1 .. N /\ n \in 1 .. N
      BY <1>1
    <3>2. \A k \in 1 .. m : Names[k] # Names[n]
      BY <1>1, <3>1 DEF NamesDiffer
    <3>3. Arguments(e, values, m) = Listed(m, Names, Values)
      BY <3>1 DEF Arguments, Listed
    <3>4. Arguments(e, values, n) = Listed(n, Names, Values)
      BY <1>1 DEF Arguments, Listed
    <3>5. Names[n] = input.name /\ Values[n] = argument
      BY <3>1
    <3>6. got.values = Arguments(e, values, m)
      BY <2>2
    <3> HIDE DEF Names, Values, input, argument, m, got
    <3>7. PutValue(Listed(m, Names, Values), Names[m + 1], Values[m + 1]) =
              Listed(m + 1, Names, Values)
      BY <3>1, <3>2, PutNewValue
    <3> QED BY <3>1, <3>3, <3>4, <3>5, <3>6, <3>7
  <2>4. CASE input.indexed
    <3>1. n \in I /\ n \notin D
      BY <1>1, <2>4 DEF Indexed, InData, I, D
    <3>2. Rank(I, n) = Rank(I, n - 1) + 1 /\ Rank(D, n) = Rank(D, n - 1)
      BY <1>11, <3>1
    <3>3. FromTopic(input.type, log.topics[got.topic]) = argument
      <4>1. log.topics[got.topic] = argument
        BY <1>3, <2>2, <3>1, <3>2
      <4> QED BY <1>1, <2>4, <4>1, TopicReads
    <3>4. W[n] = [topic |-> got.topic + 1, datum |-> got.datum,
                  values |-> PutValue(got.values, input.name, argument)]
      BY <2>1, <2>4, <3>3 DEF Take
    <3> HIDE DEF got, input, argument
    <3> QED BY <2>2, <2>3, <3>2, <3>4 DEF WalkedTo, I, D
  <2>5. CASE ~input.indexed
    <3>1. n \in D /\ n \notin I
      BY <1>1, <2>5 DEF Indexed, InData, I, D
    <3>2. Rank(D, n) = Rank(D, n - 1) + 1 /\ Rank(I, n) = Rank(I, n - 1)
      BY <1>11, <3>1
    <3>3. log.data[got.datum] = argument
      BY <1>4, <2>2, <3>1, <3>2
    <3>4. W[n] = [topic |-> got.topic, datum |-> got.datum + 1,
                  values |-> PutValue(got.values, input.name, argument)]
      BY <2>1, <2>5, <3>3 DEF Take
    <3> HIDE DEF got, input, argument
    <3> QED BY <2>2, <2>3, <3>2, <3>4 DEF WalkedTo, I, D
  <2> QED BY <2>4, <2>5
<1>9. S = 0 .. N
  <2>1. StepsOf(c) = 0 .. N /\ S \in SUBSET StepsOf(c)
    BY <1>5 DEF StepsOf
  <2>2. ASSUME NEW n \in StepsOf(c), Before(n) \subseteq S PROVE n \in S
    <3>1. CASE n = 0
      BY <1>1, <1>7, <3>1
    <3>2. CASE n # 0
      <4>1. n \in 1 .. N /\ n - 1 \in S
        BY <1>1, <2>1, <2>2, <3>2 DEF Before
      <4> QED BY <1>8, <4>1
    <3> QED BY <3>1, <3>2
  <2>3. Walking!Closed(c) /\ Walking!WellFounded(c)
    BY <1>1, <1>5, StepsAreOrdered
  <2> HIDE DEF S
  <2> QED BY <2>1, <2>2, <2>3, Walking!Induction
<1>10. W[N] = WalkedTo(e, values, N)
  BY <1>1, <1>9
<1>12. DecodeEvent(e, log) = W[N].values
  BY DecodeWalks DEF c
<1>13. W[N].values = Arguments(e, values, N)
  BY <1>10 DEF WalkedTo
<1> QED BY <1>12, <1>13 DEF log

LEMMA LengthOf ==
  ASSUME NEW n \in Nat, NEW f, f = [k \in 1 .. n |-> f[k]]
  PROVE  Len(f) = n
<1> DEFINE All == {f[k] : k \in 1 .. n}
<1>1. f \in [1 .. n -> All]
  OBVIOUS
<1> HIDE DEF All
<1> QED BY <1>1

\* The items whose signature a log has: one of them is taken, if there is one.
LEMMA ItemsHaveTheTopic ==
  ASSUME NEW abi, NEW topic
  PROVE  /\ \A item \in ItemFor(abi, topic) :
               item \in Range(abi) /\ ~item.anonymous /\ EventSignature(item) = topic
         /\ \A j \in DOMAIN abi :
               /\ j \in Nat /\ ~abi[j].anonymous /\ EventSignature(abi[j]) = topic
               /\ \A k \in DOMAIN abi : ~abi[k].anonymous /\ EventSignature(abi[k]) = topic => k = j
               => ItemFor(abi, topic) = {abi[j]}
<1> DEFINE Matches == {i \in DOMAIN abi : ~abi[i].anonymous /\ EventSignature(abi[i]) = topic}
<1>1. ItemFor(abi, topic) = {abi[i] : i \in {j \in Matches : \A k \in Matches : k <= j}}
  BY DEF ItemFor
<1>2. \A item \in ItemFor(abi, topic) :
         item \in Range(abi) /\ ~item.anonymous /\ EventSignature(item) = topic
  BY <1>1 DEF Range
<1>3. ASSUME NEW j \in DOMAIN abi, j \in Nat, ~abi[j].anonymous, EventSignature(abi[j]) = topic,
             \A k \in DOMAIN abi : ~abi[k].anonymous /\ EventSignature(abi[k]) = topic => k = j
      PROVE  ItemFor(abi, topic) = {abi[j]}
  <2>1. Matches = {j}
    BY <1>3
  <2>2. j <= j
    BY <1>3
  <2> HIDE DEF Matches
  <2>3. {i \in Matches : \A k \in Matches : k <= i} = {j}
    BY <2>1, <2>2
  <2> QED BY <1>1, <2>3
<1> QED BY <1>2, <1>3

\* A log of a chain, decoded with the ABIs of that chain.
THEOREM LogsDecodeBack ==
  ASSUME EventsDiffer, NEW receipt \in Receipt, NEW have, NEW i \in DOMAIN receipt.emitted
  PROVE  LET emission == receipt.emitted[i]
             e == emission.item
             event == DecodeLog(Known(receipt.chain, have), Logs(receipt)[i])
         IN  /\ event.kind = "event" =>
                    /\ event.name = e.name
                    /\ event.values = Arguments(e, emission.values, Len(e.inputs))
             /\ /\ emission.address \in have /\ ~e.anonymous
                /\ e \in Range(AbiAt[receipt.chain][emission.address])
                => event.kind = "event"
<1> DEFINE emission == receipt.emitted[i]
           e == emission.item
           a == emission.address
           abi == AbiAt[receipt.chain][a]
           known == Known(receipt.chain, have)
           log == Emitted(a, e, emission.values)
           event == DecodeLog(known, log)
           Items == ItemFor(abi, log.topic)
           Chosen_ == CHOOSE item \in Items : TRUE
<1>1. /\ receipt.chain \in Chain /\ a \in Address /\ e \in ItemShape
      /\ EventSignature(e) # NoTopic /\ abi \in Seq(ItemShape) /\ abi # NoAbi
  BY EventAssumption
<1>2. Logs(receipt)[i] = log
  BY DEF Logs
<1>3. known[log.address] = IF a \in have THEN abi ELSE NoAbi
  <2>1. log.address = a
    BY DEF Emitted
  <2>2. receipt.chain # NoChain
    BY <1>1, ChainAssumption
  <2> HIDE DEF log
  <2> QED BY <1>1, <2>1, <2>2 DEF Known
<1>4. log.topic = IF e.anonymous THEN NoTopic ELSE EventSignature(e)
  BY DEF Emitted
<1>5. Len(log.topics) = Cardinality(Indexed(e)) /\ Len(log.data) = Cardinality(InData(e))
  <2>1. Len(e.inputs) \in Nat /\ DOMAIN e.inputs = 1 .. Len(e.inputs)
    <3>1. e.inputs \in Seq([name : STRING, type : Type, indexed : BOOLEAN])
      BY <1>1 DEF ItemShape
    <3> HIDE DEF e
    <3> QED BY <3>1
  <2>2. Cardinality(Indexed(e)) \in Nat /\ Cardinality(InData(e)) \in Nat
    <3>1. Indexed(e) \in SUBSET (1 .. Len(e.inputs)) /\ InData(e) \in SUBSET (1 .. Len(e.inputs))
      BY <2>1 DEF Indexed, InData
    <3> HIDE DEF e
    <3> QED BY <2>1, <3>1, PlacesAreFinite
  <2>3. /\ log.topics = [k \in 1 .. Cardinality(Indexed(e)) |-> log.topics[k]]
        /\ log.data = [k \in 1 .. Cardinality(InData(e)) |-> log.data[k]]
    BY DEF Emitted
  <2> HIDE DEF log, e
  <2> QED BY <2>2, <2>3, LengthOf
<1> DEFINE topic == log.topic
<1>6. event = IF a \in have
              THEN IF topic = NoTopic \/ Items = {} THEN Undecoded("topic_missing")
                   ELSE IF Fitting(Chosen_, log)
                   THEN [kind |-> "event", name |-> Chosen_.name,
                         values |-> DecodeEvent(Chosen_, log)]
                   ELSE [Undecoded("malformed") EXCEPT !.name = Chosen_.name]
              ELSE Undecoded("abi_missing")
  <2>1. topic = NoTopic => event = IF a \in have THEN Undecoded("topic_missing")
                                   ELSE Undecoded("abi_missing")
    <3> HIDE DEF log, known, abi
    <3> QED BY <1>1, <1>3 DEF DecodeLog
  <2>2. topic # NoTopic =>
            event = IF a \in have
                    THEN IF Items = {} THEN Undecoded("topic_missing")
                         ELSE IF Fitting(Chosen_, log)
                         THEN [kind |-> "event", name |-> Chosen_.name,
                               values |-> DecodeEvent(Chosen_, log)]
                         ELSE [Undecoded("malformed") EXCEPT !.name = Chosen_.name]
                    ELSE Undecoded("abi_missing")
    <3> HIDE DEF log, known, abi
    <3> QED BY <1>1, <1>3 DEF DecodeLog
  <2> HIDE DEF event, Items, Chosen_, topic
  <2> QED BY <2>1, <2>2
<1>7. Items # {} => /\ Chosen_ \in Items /\ Chosen_ \in Range(abi) /\ ~Chosen_.anonymous
                    /\ EventSignature(Chosen_) = topic
  <2> HIDE DEF log, abi
  <2> QED BY ItemsHaveTheTopic
<1>8. DecodeEvent(e, log) = Arguments(e, emission.values, Len(e.inputs))
  <2>1. NamesDiffer(e)
    BY DEF EventsDiffer
  <2> HIDE DEF emission
  <2> QED BY <1>1, <2>1, DecodingInverts
<1>9. \A item \in Range(abi) :
          /\ ~item.anonymous /\ EventSignature(item) = EventSignature(e)
          /\ Cardinality(Indexed(item)) = Cardinality(Indexed(e))
          => item = e
  BY DEF EventsDiffer
<1>10. ASSUME event.kind = "event"
       PROVE  event.name = e.name /\ event.values = Arguments(e, emission.values, Len(e.inputs))
  <2>1. a \in have /\ topic # NoTopic /\ Items # {} /\ Fitting(Chosen_, log)
    <3> HIDE DEF event, Items, Chosen_, topic, log, abi
    <3> QED BY <1>6, <1>10 DEF Undecoded
  <2>2. event = [kind |-> "event", name |-> Chosen_.name, values |-> DecodeEvent(Chosen_, log)]
    <3> HIDE DEF event, Items, Chosen_, topic, log, abi
    <3> QED BY <1>6, <2>1
  <2>3. topic = EventSignature(e)
    <3> HIDE DEF log
    <3> QED BY <1>4, <2>1
  <2>4. Cardinality(Indexed(Chosen_)) = Cardinality(Indexed(e))
    <3> HIDE DEF log, e, Chosen_
    <3> QED BY <1>5, <2>1 DEF Fitting
  <2>5. Chosen_ = e
    <3> HIDE DEF Chosen_, Items, topic, abi, e
    <3> QED BY <1>7, <1>9, <2>1, <2>3, <2>4
  <2> HIDE DEF event, Chosen_, log, e, emission
  <2> QED BY <1>8, <2>2, <2>5
<1>11. ASSUME a \in have, ~e.anonymous, e \in Range(abi)
       PROVE  event.kind = "event"
  <2>1. topic = EventSignature(e) /\ topic # NoTopic
    <3> HIDE DEF log
    <3> QED BY <1>1, <1>4, <1>11
  <2>2. PICK j \in DOMAIN abi : abi[j] = e
    BY <1>11 DEF Range
  <2>3. \A k \in DOMAIN abi : ~abi[k].anonymous /\ EventSignature(abi[k]) = topic => k = j
    <3>1. \A k, l \in DOMAIN abi :
              /\ ~abi[k].anonymous /\ ~abi[l].anonymous
              /\ EventSignature(abi[k]) = EventSignature(abi[l])
              => k = l
      BY <1>1 DEF EventsDiffer
    <3> HIDE DEF abi, topic, e
    <3> QED BY <1>11, <2>1, <2>2, <3>1
  <2>4. j \in Nat
    <3> HIDE DEF abi
    <3> QED BY <1>1, <2>2
  <2>5. Items = {e}
    <3> HIDE DEF abi, e, log
    <3> QED BY <1>11, <2>1, <2>2, <2>3, <2>4, ItemsHaveTheTopic
  <2>6. Chosen_ = e
    <3> HIDE DEF Items, e
    <3> QED BY <2>5
  <2>7. Fitting(e, log)
    <3> HIDE DEF e, log
    <3> QED BY <1>5, <1>11, <2>1 DEF Fitting
  <2>8. event = [kind |-> "event", name |-> e.name, values |-> DecodeEvent(e, log)]
    <3> HIDE DEF event, Items, Chosen_, topic, log, abi, e
    <3> QED BY <1>6, <1>11, <2>1, <2>5, <2>6, <2>7
  <2> HIDE DEF event
  <2> QED BY <2>8
<1> QED BY <1>2, <1>10, <1>11

\* With the ABIs of whatever chain, a log that is decoded as an event has the name and the
\* types that were emitted; without a chain no log is decoded.
LEMMA LogsKeepTheirName ==
  ASSUME NEW receipt \in Receipt, NEW c \in Chain \union {NoChain}, NEW have,
         NEW i \in DOMAIN receipt.emitted
  PROVE  LET e == receipt.emitted[i].item
             event == DecodeLog(Known(c, have), Logs(receipt)[i])
         IN  event.kind = "event" => event.name = e.name /\ ~e.anonymous /\ c # NoChain
<1> DEFINE emission == receipt.emitted[i]
           e == emission.item
           a == emission.address
           known == Known(c, have)
           log == Emitted(a, e, emission.values)
           Items == ItemFor(known[a], log.topic)
           Chosen_ == CHOOSE item \in Items : TRUE
<1>1. a \in Address /\ EventSignature(e) # NoTopic
  BY EventAssumption
<1>2. Logs(receipt)[i] = log /\ log.address = a
  BY DEF Logs, Emitted
<1>3. log.topic = IF e.anonymous THEN NoTopic ELSE EventSignature(e)
  BY DEF Emitted
<1>4. SUFFICES ASSUME DecodeLog(known, log).kind = "event"
               PROVE  DecodeLog(known, log).name = e.name /\ ~e.anonymous /\ c # NoChain
  BY <1>2
<1>5. /\ known[a] # NoAbi /\ log.topic # NoTopic /\ Items # {}
      /\ DecodeLog(known, log) =
             [kind |-> "event", name |-> Chosen_.name, values |-> DecodeEvent(Chosen_, log)]
  <2> DEFINE event == DecodeLog(known, log)
  <2>1. event = IF known[a] = NoAbi THEN Undecoded("abi_missing")
                ELSE IF log.topic = NoTopic \/ Items = {} THEN Undecoded("topic_missing")
                ELSE IF Fitting(Chosen_, log)
                THEN [kind |-> "event", name |-> Chosen_.name, values |-> DecodeEvent(Chosen_, log)]
                ELSE [Undecoded("malformed") EXCEPT !.name = Chosen_.name]
    <3>1. CASE log.topic = NoTopic
      <4> HIDE DEF log, known
      <4> QED BY <1>2, <3>1 DEF DecodeLog
    <3>2. CASE log.topic # NoTopic
      <4> HIDE DEF log, known
      <4> QED BY <1>2, <3>2 DEF DecodeLog
    <3> QED BY <3>1, <3>2
  <2> HIDE DEF event, log, known, Items, Chosen_
  <2>2. event.kind = "event"
    BY <1>4 DEF event
  <2>3. known[a] # NoAbi /\ log.topic # NoTopic /\ Items # {} /\ Fitting(Chosen_, log)
    BY <2>1, <2>2 DEF Undecoded
  <2>4. event = [kind |-> "event", name |-> Chosen_.name, values |-> DecodeEvent(Chosen_, log)]
    BY <2>1, <2>3
  <2> QED BY <2>3, <2>4 DEF event
<1>6. c # NoChain
  BY <1>1, <1>5 DEF Known
<1>7. EventSignature(Chosen_) = log.topic
  <2>1. Chosen_ \in Items
    BY <1>5
  <2> HIDE DEF log, known, Chosen_
  <2> QED BY <2>1, ItemsHaveTheTopic
<1>8. Chosen_.name = e.name /\ ~e.anonymous
  <2>1. ~e.anonymous /\ EventSignature(Chosen_) = EventSignature(e)
    <3> HIDE DEF log, Chosen_, e
    <3> QED BY <1>3, <1>5, <1>7
  <2>2. \A x : EventSignature(x).name = x.name
    BY DEF EventSignature
  <2> HIDE DEF Chosen_, e
  <2> QED BY <2>1, <2>2
<1>9. DecodeLog(known, log).name = Chosen_.name
  <2> HIDE DEF log, known, Chosen_
  <2> QED BY <1>5
<1> HIDE DEF log, known, Chosen_, e
<1> QED BY <1>6, <1>8, <1>9
=============================================================================
