------------------------ MODULE WellFoundedRecursion ------------------------
(***************************************************************************)
(* Functions defined by recursion on a well-founded structure exist: what  *)
(* proofs need of a recursive definition.  A node is defined from the      *)
(* nodes below it, in a context c, the parameters of the definition.       *)
(***************************************************************************)
EXTENDS TLAPS

CONSTANTS Node(_), Below(_), Body(_, _, _)

Closed(c) == \A x \in Node(c) : Below(x) \subseteq Node(c)

WellFounded(c) == \A S \in SUBSET Node(c) : S # {} => \E x \in S : Below(x) \intersect S = {}

\* What Body says of a node depends only on what it is told of those below it.
Local(c) ==
    \A f, g : \A x \in Node(c) : (\A y \in Below(x) : f[y] = g[y]) => Body(c, f, x) = Body(c, g, x)

\* A function that obeys Body as far as it goes.
Attempt(c, g) ==
    /\ DOMAIN g \subseteq Node(c)
    /\ \A x \in DOMAIN g : Below(x) \subseteq DOMAIN g
    /\ g = [x \in DOMAIN g |-> Body(c, g, x)]

\* Two attempts agree where they are both defined: there is no lowest difference.
LEMMA AttemptsAgree ==
  ASSUME NEW c, WellFounded(c), Local(c),
         NEW g, Attempt(c, g), NEW h, Attempt(c, h), NEW x \in DOMAIN g \intersect DOMAIN h
  PROVE  g[x] = h[x]
<1> DEFINE S == {y \in DOMAIN g \intersect DOMAIN h : g[y] # h[y]}
<1>1. SUFFICES ASSUME S # {} PROVE FALSE
  OBVIOUS
<1>2. S \in SUBSET Node(c)
  BY DEF Attempt
<1>3. PICK y \in S : Below(y) \intersect S = {}
  BY <1>1, <1>2 DEF WellFounded
<1>4. y \in Node(c) /\ y \in DOMAIN g /\ y \in DOMAIN h /\ g[y] # h[y]
  BY <1>2, <1>3
<1>5. \A z \in Below(y) : g[z] = h[z]
  BY <1>3, <1>4 DEF Attempt
<1>6. Body(c, g, y) = Body(c, h, y)
  BY <1>4, <1>5 DEF Local
<1>7. g[y] = Body(c, g, y) /\ h[y] = Body(c, h, y)
  BY <1>4 DEF Attempt
<1> QED BY <1>4, <1>6, <1>7

AttemptAt(c, x) == CHOOSE g : Attempt(c, g) /\ x \in DOMAIN g

\* Every node is within the reach of an attempt: there is no lowest node that is not.
LEMMA AttemptsReach ==
  ASSUME NEW c, Closed(c), WellFounded(c), Local(c), NEW x \in Node(c)
  PROVE  Attempt(c, AttemptAt(c, x)) /\ x \in DOMAIN AttemptAt(c, x)
<1> DEFINE Reached(y) == \E g : Attempt(c, g) /\ y \in DOMAIN g
           S == {y \in Node(c) : ~Reached(y)}
<1>1. ASSUME S # {} PROVE FALSE
  <2>1. PICK low \in S : Below(low) \intersect S = {}
    BY <1>1 DEF WellFounded
  <2>2. \A y \in Below(low) : Attempt(c, AttemptAt(c, y)) /\ y \in DOMAIN AttemptAt(c, y)
    BY <2>1 DEF Closed, AttemptAt
  <2> DEFINE Under == UNION {DOMAIN AttemptAt(c, y) : y \in Below(low)}
             Via(z) == CHOOSE y \in Below(low) : z \in DOMAIN AttemptAt(c, y)
             under == [z \in Under |-> AttemptAt(c, Via(z))[z]]
             g == [z \in Under \union {low} |->
                       IF z \in Under THEN under[z] ELSE Body(c, under, low)]
  <2>3. \A z \in Under : Via(z) \in Below(low) /\ z \in DOMAIN AttemptAt(c, Via(z))
    OBVIOUS
  <2>4. \A z \in Under : z \in Node(c) /\ Below(z) \subseteq Under
    BY <2>2, <2>3 DEF Attempt
  <2>5. \A y \in Below(low) : \A z \in DOMAIN AttemptAt(c, y) : under[z] = AttemptAt(c, y)[z]
    BY <2>2, <2>3, AttemptsAgree
  <2>6. \A z \in Under : under[z] = Body(c, under, z)
    <3> SUFFICES ASSUME NEW z \in Under PROVE under[z] = Body(c, under, z)
      OBVIOUS
    <3> DEFINE y == Via(z)
               h == AttemptAt(c, y)
    <3>1. y \in Below(low) /\ Attempt(c, h) /\ z \in DOMAIN h
      BY <2>2, <2>3
    <3>2. h[z] = Body(c, h, z) /\ Below(z) \subseteq DOMAIN h
      BY <3>1 DEF Attempt
    <3>3. \A w \in Below(z) : under[w] = h[w]
      BY <2>5, <3>1, <3>2
    <3>4. z \in Node(c)
      BY <2>4
    <3>5. Body(c, h, z) = Body(c, under, z)
      <4> HIDE DEF under, h
      <4> QED BY <3>3, <3>4 DEF Local
    <3>6. under[z] = h[z]
      BY <2>5, <3>1
    <3> QED BY <3>2, <3>5, <3>6
  <2>7. Below(low) \subseteq Under
    BY <2>2
  <2>8. DOMAIN g = Under \union {low} /\ \A z \in Under : g[z] = under[z]
    OBVIOUS
  <2>9. low \in Node(c) /\ ~Reached(low)
    BY <2>1
  <2>10. low \notin Under
    <3> SUFFICES ASSUME low \in Under PROVE FALSE
      OBVIOUS
    <3>1. Via(low) \in Below(low) /\ low \in DOMAIN AttemptAt(c, Via(low))
      BY <2>3
    <3> QED BY <2>2, <2>9, <3>1
  <2>11. g[low] = Body(c, under, low)
    BY <2>10
  <2>12. \A z \in DOMAIN g : z \in Node(c) /\ Below(z) \subseteq Under
    BY <2>4, <2>7, <2>8, <2>9
  <2>13. \A z \in DOMAIN g : Body(c, g, z) = Body(c, under, z)
    <3> HIDE DEF g, under, Under
    <3> QED BY <2>8, <2>12 DEF Local
  <2>14. \A z \in DOMAIN g : g[z] = Body(c, g, z)
    <3> HIDE DEF g, under, Under
    <3> QED BY <2>6, <2>8, <2>11, <2>13
  <2>15. g = [z \in DOMAIN g |-> g[z]]
    OBVIOUS
  <2>16. Attempt(c, g)
    <3>1. DOMAIN g \subseteq Node(c) /\ \A z \in DOMAIN g : Below(z) \subseteq DOMAIN g
      <4> HIDE DEF g, under, Under
      <4> QED BY <2>8, <2>12
    <3> HIDE DEF g, under, Under
    <3>2. g = [z \in DOMAIN g |-> Body(c, g, z)]
      BY <2>14, <2>15
    <3> QED BY <3>1, <3>2 DEF Attempt
  <2>17. low \in DOMAIN g
    BY <2>8
  <2> HIDE DEF g
  <2> QED BY <2>9, <2>16, <2>17
<1> QED BY <1>1 DEF AttemptAt

\* What holds of a node if it holds of those below it holds of every node.
LEMMA Induction ==
  ASSUME NEW c, WellFounded(c), NEW S \in SUBSET Node(c),
         \A x \in Node(c) : Below(x) \subseteq S => x \in S,
         Closed(c)
  PROVE  S = Node(c)
<1> DEFINE Rest == Node(c) \ S
<1>1. SUFFICES ASSUME Rest # {} PROVE FALSE
  OBVIOUS
<1>2. PICK x \in Rest : Below(x) \intersect Rest = {}
  BY <1>1 DEF WellFounded
<1> QED BY <1>2 DEF Closed

\* Read as a definition, Body defines a function of the nodes.
LEMMA Recursion ==
  ASSUME NEW c, Closed(c), WellFounded(c), Local(c),
         NEW f, f = CHOOSE g : g = [x \in Node(c) |-> Body(c, g, x)]
  PROVE  f = [x \in Node(c) |-> Body(c, f, x)]
<1> DEFINE h == [x \in Node(c) |-> AttemptAt(c, x)[x]]
<1>1. ASSUME NEW x \in Node(c) PROVE h[x] = Body(c, h, x)
  <2> DEFINE g == AttemptAt(c, x)
  <2>1. Attempt(c, g) /\ x \in DOMAIN g
    BY AttemptsReach
  <2>2. g[x] = Body(c, g, x) /\ Below(x) \subseteq DOMAIN g /\ Below(x) \subseteq Node(c)
    BY <2>1 DEF Attempt, Closed
  <2>3. \A y \in Below(x) : h[y] = g[y]
    BY <2>1, <2>2, AttemptsReach, AttemptsAgree
  <2>4. Body(c, h, x) = Body(c, g, x)
    <3> HIDE DEF h, g
    <3> QED BY <2>3 DEF Local
  <2> QED BY <2>2, <2>4
<1>2. h = [x \in Node(c) |-> h[x]]
  OBVIOUS
<1>3. h = [x \in Node(c) |-> Body(c, h, x)]
  <2> HIDE DEF h
  <2> QED BY <1>1, <1>2
<1> HIDE DEF h
<1> QED BY <1>3
=============================================================================
