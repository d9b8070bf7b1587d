------------------------- MODULE ChainContextProofs -------------------------
(* Proofs about ChainContext, for any threads, chains and managers.         *)
EXTENDS ChainContext, SequenceTheorems, TLAPS

\* A manager still has what an entry of it found, until it is entered again.
Remembered(t) ==
    \A i \in 1 .. Len(stack[t]) :
        ~stack[t][i].again => previous[stack[t][i].manager] = stack[t][i].found

\* Only the innermost manager can be strict.
StrictIsInnermost(t) ==
    \A i \in 1 .. Len(stack[t]) : i < Len(stack[t]) => stack[t][i].manager \notin Strict

\* What a strict manager set stays the default until it is left.
StrictIsSet(t) ==
    stack[t] # <<>> /\ Innermost(t).manager \in Strict =>
        default[t] = Setting(Innermost(t).manager)

ContextInv ==
    /\ ContextTypeOK
    /\ \A t \in Thread : Remembered(t) /\ StrictIsInnermost(t) /\ StrictIsSet(t)

Entry == [manager : Manager, found : DefaultType, again : BOOLEAN]

LEMMA SettingType == ASSUME NEW m \in Manager PROVE Setting(m) \in DefaultType
  BY ManagerAssumption DEF Setting, DefaultType

LEMMA SettingStrict == ASSUME NEW m \in Manager PROVE Setting(m).strict <=> m \in Strict
  BY DEF Setting

\* What a thread that is inside something is inside of.
LEMMA InnermostEntry ==
  ASSUME NEW s \in Seq(Entry), s # <<>>
  PROVE  Len(s) \in Nat \ {0} /\ s[Len(s)] \in Entry
<1>1. Len(s) \in Nat \ {0}
  BY EmptySeq
<1> QED BY <1>1

\* Marking the entries of a manager changes nothing else of them.
LEMMA Marked ==
  ASSUME NEW s \in Seq(Entry), NEW m \in Manager
  PROVE  /\ EnteredAgain(s, m) \in Seq(Entry)
         /\ Len(EnteredAgain(s, m)) = Len(s)
         /\ \A i \in 1 .. Len(s) :
                /\ EnteredAgain(s, m)[i].manager = s[i].manager
                /\ EnteredAgain(s, m)[i].found = s[i].found
                /\ EnteredAgain(s, m)[i].again <=> s[i].again \/ s[i].manager = m
<1> DEFINE n == Len(s)
           e(i) == [s[i] EXCEPT !.again = @ \/ s[i].manager = m]
<1>1. n \in Nat
  BY LenProperties
<1>2. ASSUME NEW i \in 1 .. n
      PROVE  /\ e(i) \in Entry
             /\ e(i).manager = s[i].manager /\ e(i).found = s[i].found
             /\ e(i).again <=> s[i].again \/ s[i].manager = m
  <2>1. s[i] \in Entry
    BY ElementOfSeq
  <2>2. (s[i].again \/ s[i].manager = m) \in BOOLEAN
    BY <2>1 DEF Entry
  <2> QED BY <2>1, <2>2 DEF Entry
<1>3. EnteredAgain(s, m) = [i \in 1 .. n |-> e(i)]
  BY DEF EnteredAgain
<1> HIDE DEF e, n
<1>4. EnteredAgain(s, m) \in Seq(Entry) /\ Len(EnteredAgain(s, m)) = n
  BY <1>1, <1>2, <1>3
<1> QED BY <1>2, <1>3, <1>4 DEF n

LEMMA InitInv == ContextInit => ContextInv
  BY DEF ContextInit, ContextInv, ContextTypeOK, Remembered, StrictIsInnermost, StrictIsSet,
         Unset, DefaultType

\* Entering marks the entries of its manager, and puts one on top unless it is refused.
LEMMA EnterInv ==
  ASSUME ContextInv, NEW t \in Thread, NEW m \in Manager, Enter(t, m)
  PROVE  ContextInv'
<1> DEFINE marked == [u \in Thread |-> EnteredAgain(stack[u], m)]
           top == [manager |-> m, found |-> default[t], again |-> FALSE]
<1>1. /\ ContextTypeOK
      /\ \A u \in Thread : Remembered(u) /\ StrictIsInnermost(u) /\ StrictIsSet(u)
  BY DEF ContextInv
<1>2. /\ \A u \in Thread : stack[u] \in Seq(Entry) /\ Len(stack[u]) \in Nat
      /\ default[t] \in DefaultType /\ top \in Entry
  <2>1. \A u \in Thread : stack[u] \in Seq(Entry)
    BY <1>1 DEF ContextTypeOK, Entry
  <2> QED BY <1>1, <2>1, LenProperties DEF ContextTypeOK, Entry
<1>3. previous' = [previous EXCEPT ![m] = default[t]] /\ previous' \in [Manager -> DefaultType]
  BY <1>1, <1>2 DEF Enter, ContextTypeOK
<1>4. ASSUME NEW u \in Thread
      PROVE  /\ marked[u] \in Seq(Entry) /\ Len(marked[u]) = Len(stack[u])
             /\ marked[u] = <<>> <=> stack[u] = <<>>
             /\ \A i \in 1 .. Len(stack[u]) :
                    /\ marked[u][i].manager = stack[u][i].manager
                    /\ ~marked[u][i].again =>
                           previous'[marked[u][i].manager] = marked[u][i].found
  <2>1. /\ marked[u] \in Seq(Entry) /\ Len(marked[u]) = Len(stack[u])
        /\ \A i \in 1 .. Len(stack[u]) :
               /\ marked[u][i].manager = stack[u][i].manager
               /\ marked[u][i].found = stack[u][i].found
               /\ marked[u][i].again <=> stack[u][i].again \/ stack[u][i].manager = m
    BY <1>2, Marked
  <2>2. marked[u] = <<>> <=> stack[u] = <<>>
    BY <1>2, <2>1, EmptySeq
  <2>3. ASSUME NEW i \in 1 .. Len(stack[u]), ~marked[u][i].again
        PROVE  previous'[marked[u][i].manager] = marked[u][i].found
    <3>1. ~stack[u][i].again /\ stack[u][i].manager # m
      BY <2>1, <2>3
    <3>2. previous[stack[u][i].manager] = stack[u][i].found
      BY <1>1, <3>1 DEF Remembered
    <3>3. stack[u][i].manager \in Manager
      <4>1. stack[u] \in Seq(Entry)
        BY <1>2
      <4>2. stack[u][i] \in Entry
        BY <4>1, ElementOfSeq
      <4> QED BY <4>2 DEF Entry
    <3> QED BY <1>1, <1>3, <2>1, <3>1, <3>2, <3>3 DEF ContextTypeOK
  <2> QED BY <2>1, <2>2, <2>3
<1>5. marked \in [Thread -> Seq(Entry)]
  BY <1>4
<1> HIDE DEF marked, top
\* A stack that is only marked keeps the invariant, if its default does not change.
<1>6. ASSUME NEW u \in Thread, stack'[u] = marked[u], default'[u] = default[u]
      PROVE  Remembered(u)' /\ StrictIsInnermost(u)' /\ StrictIsSet(u)'
  <2>1. Remembered(u)'
    BY <1>4, <1>6 DEF Remembered
  <2>2. StrictIsInnermost(u)'
    BY <1>1, <1>4, <1>6 DEF StrictIsInnermost
  <2>3. StrictIsSet(u)'
    <3>1. stack[u] # <<>> => Len(stack[u]) \in 1 .. Len(stack[u])
      BY <1>2, InnermostEntry
    <3> QED BY <1>1, <1>4, <1>6, <3>1 DEF StrictIsSet, Innermost
  <2> QED BY <2>1, <2>2, <2>3
<1>7. CASE EntryRefused(t, m)
  <2>1. stack' = marked /\ default' = default
    BY <1>7 DEF Enter, marked
  <2>2. ContextTypeOK'
    BY <1>1, <1>3, <1>5, <2>1 DEF ContextTypeOK, Entry
  <2> QED BY <1>6, <2>1, <2>2 DEF ContextInv
<1>8. CASE ~EntryRefused(t, m)
  <2> DEFINE n == Len(stack[t])
  <2>1. /\ default' = [default EXCEPT ![t] = Setting(m)]
        /\ stack' = [marked EXCEPT ![t] = Append(@, top)]
    BY <1>8 DEF Enter, marked, top
  <2>2. /\ stack'[t] = Append(marked[t], top)
        /\ n \in Nat /\ Len(stack'[t]) = n + 1
        /\ stack'[t][n + 1] = top
        /\ \A i \in 1 .. n : stack'[t][i] = marked[t][i]
        /\ stack'[t] \in Seq(Entry)
    <3>1. stack'[t] = Append(marked[t], top)
      BY <1>5, <2>1
    <3> QED BY <1>2, <1>4, <3>1, AppendProperties
  <2>3. default'[t] = Setting(m)
    BY <1>1, <2>1 DEF ContextTypeOK
  <2>4. ContextTypeOK'
    <3>1. stack' \in [Thread -> Seq(Entry)]
      BY <1>5, <2>1, <2>2
    <3> QED BY <1>1, <1>3, <2>1, <3>1, SettingType DEF ContextTypeOK, Entry
  <2>5. \A u \in Thread : u # t => Remembered(u)' /\ StrictIsInnermost(u)' /\ StrictIsSet(u)'
    BY <1>1, <1>5, <1>6, <2>1 DEF ContextTypeOK
  <2> HIDE DEF n
  <2>6. \A i \in 1 .. n + 1 : i = n + 1 \/ i \in 1 .. n
    BY <2>2
  <2>7. top.manager = m /\ top.found = default[t] /\ previous'[m] = default[t]
    BY <1>1, <1>3 DEF top, ContextTypeOK
  <2>8. Remembered(t)'
    BY <1>4, <2>2, <2>6, <2>7 DEF Remembered, n
  <2>9. n > 0 => stack[t][n].manager \notin Strict
    <3>1. ~default[t].strict
      BY <1>8 DEF EntryRefused
    <3>2. n > 0 => stack[t] # <<>> /\ stack[t][n].manager \in Manager
      <4>1. stack[t] \in Seq(Entry) /\ (n > 0 => stack[t] # <<>>)
        BY <1>2 DEF n
      <4>2. stack[t] # <<>> => stack[t][n] \in Entry
        BY <4>1, InnermostEntry DEF n
      <4> QED BY <4>1, <4>2 DEF Entry
    <3> QED BY <1>1, <3>1, <3>2, SettingStrict DEF StrictIsSet, Innermost, n
  <2>10. StrictIsInnermost(t)'
    <3>1. \A i \in 1 .. n : i < n \/ (i = n /\ n > 0)
      BY <2>2
    <3> QED BY <1>1, <1>4, <2>2, <2>6, <2>9, <3>1 DEF StrictIsInnermost, n
  <2>11. StrictIsSet(t)'
    BY <2>2, <2>3, <2>7 DEF StrictIsSet, Innermost
  <2> QED BY <2>4, <2>5, <2>8, <2>10, <2>11 DEF ContextInv
<1> QED BY <1>7, <1>8

\* Leaving takes the top entry away and puts back what its manager remembers.
LEMMA LeaveInv ==
  ASSUME ContextInv, NEW t \in Thread, Leave(t)
  PROVE  /\ ContextInv'
         /\ ~Innermost(t).again => default'[t] = Innermost(t).found
<1> DEFINE n == Len(stack[t])
<1>1. /\ ContextTypeOK
      /\ \A u \in Thread : Remembered(u) /\ StrictIsInnermost(u) /\ StrictIsSet(u)
  BY DEF ContextInv
<1>2. stack[t] \in Seq(Entry) /\ n \in Nat \ {0} /\ stack[t][n] \in Entry
  <2>1. stack[t] \in Seq(Entry) /\ stack[t] # <<>>
    BY <1>1 DEF Leave, ContextTypeOK, Entry
  <2> QED BY <2>1, InnermostEntry
<1>3. /\ stack' = [stack EXCEPT ![t] = SubSeq(@, 1, Len(@) - 1)]
      /\ default' = [default EXCEPT ![t] = previous[stack[t][n].manager]]
      /\ previous' = previous
  BY DEF Leave, Innermost
<1>4. /\ stack'[t] \in Seq(Entry) /\ Len(stack'[t]) = n - 1
      /\ \A i \in 1 .. n - 1 : stack'[t][i] = stack[t][i]
      /\ \A u \in Thread : u # t => stack'[u] = stack[u] /\ default'[u] = default[u]
  <2>1. stack'[t] = SubSeq(stack[t], 1, n - 1)
    BY <1>1, <1>3 DEF ContextTypeOK
  <2>2. n \in Int /\ \A i \in 1 .. n - 1 : stack[t][i] \in Entry
    BY <1>2
  <2>3. /\ stack'[t] \in Seq(Entry)
        /\ Len(stack'[t]) = IF 1 <= n - 1 THEN n - 1 - 1 + 1 ELSE 0
        /\ \A i \in 1 .. n - 1 - 1 + 1 : stack'[t][i] = stack[t][1 + i - 1]
    <3> HIDE DEF n
    <3> QED BY <2>1, <2>2, SubSeqProperties
  <2>4. \A u \in Thread : u # t => stack'[u] = stack[u] /\ default'[u] = default[u]
    BY <1>1, <1>3 DEF ContextTypeOK
  <2> HIDE DEF n
  <2>5. Len(stack'[t]) = n - 1
    BY <1>2, <2>3
  <2>6. \A i \in 1 .. n - 1 : stack'[t][i] = stack[t][i]
    BY <1>2, <2>3
  <2> QED BY <2>3, <2>4, <2>5, <2>6
<1>5. ContextTypeOK'
  <2>1. stack' \in [Thread -> Seq(Entry)]
    BY <1>1, <1>3, <1>4 DEF ContextTypeOK, Entry
  <2>2. previous[stack[t][n].manager] \in DefaultType
    BY <1>1, <1>2 DEF ContextTypeOK, Entry
  <2> QED BY <1>1, <1>3, <2>1, <2>2 DEF ContextTypeOK, Entry
<1>6. \A u \in Thread : u # t => Remembered(u)' /\ StrictIsInnermost(u)' /\ StrictIsSet(u)'
  BY <1>1, <1>3, <1>4 DEF Remembered, StrictIsInnermost, StrictIsSet, Innermost
<1>7. Len(stack[t]) = n
  OBVIOUS
<1> HIDE DEF n
<1>8. \A i \in 1 .. n - 1 : i \in 1 .. n /\ i < n
  BY <1>2
<1>9. Remembered(t)' /\ StrictIsInnermost(t)'
  BY <1>1, <1>3, <1>4, <1>7, <1>8 DEF Remembered, StrictIsInnermost
<1>10. StrictIsSet(t)'
  <2>1. stack'[t] # <<>> => n - 1 \in 1 .. n - 1
    BY <1>2, <1>4, InnermostEntry
  <2>2. stack'[t] # <<>> => stack'[t][n - 1].manager \notin Strict
    BY <1>1, <1>4, <1>7, <1>8, <2>1 DEF StrictIsInnermost
  <2> QED BY <1>4, <2>2 DEF StrictIsSet, Innermost
<1>11. ~Innermost(t).again => default'[t] = Innermost(t).found
  <2>1. n \in 1 .. n
    BY <1>2
  <2> QED BY <1>1, <1>3, <1>7, <2>1 DEF Remembered, Innermost, ContextTypeOK
<1> QED BY <1>5, <1>6, <1>9, <1>10, <1>11 DEF ContextInv

LEMMA StepInv == ContextInv /\ [\E t \in Thread : ContextStep(t)]_contextVars => ContextInv'
<1>1. ASSUME ContextInv, UNCHANGED contextVars PROVE ContextInv'
  BY <1>1 DEF contextVars, ContextInv, ContextTypeOK, Remembered, StrictIsInnermost,
              StrictIsSet, Innermost
<1>2. ASSUME ContextInv, NEW t \in Thread, ContextStep(t) PROVE ContextInv'
  BY <1>2, EnterInv, LeaveInv DEF ContextStep
<1> QED BY <1>1, <1>2

\* The invariant holds of any threads that enter, are refused and leave contexts.
THEOREM Invariance == ContextSpec => []ContextInv
  BY InitInv, StepInv, PTL DEF ContextSpec

\* Every variable keeps its type.
THEOREM TypeCorrect == ContextSpec => []ContextTypeOK
<1>1. ContextInv => ContextTypeOK
  BY DEF ContextInv
<1> QED BY <1>1, Invariance, PTL

\* Leaving a context restores what entering it found, unless its manager was entered, or
\* refused, again in between.
THEOREM ContextsRestore == ContextSpec => LeavingRestores
<1>1. ContextInv /\ [\E t \in Thread : ContextStep(t)]_contextVars =>
          [\A t \in Thread :
               Len(stack'[t]) < Len(stack[t]) /\ ~Innermost(t).again =>
                   default'[t] = Innermost(t).found]_contextVars
  <2> SUFFICES ASSUME ContextInv, NEW u \in Thread, ContextStep(u), NEW t \in Thread,
                      Len(stack'[t]) < Len(stack[t]), ~Innermost(t).again
               PROVE  default'[t] = Innermost(t).found
    BY DEF contextVars
  <2>1. /\ stack \in [Thread -> Seq(Entry)] /\ stack[t] \in Seq(Entry)
        /\ Len(stack[t]) \in Nat
    BY LenProperties DEF ContextInv, ContextTypeOK, Entry
  <2>2. CASE Leave(u)
    <3>1. t # u => stack'[t] = stack[t]
      BY <2>1, <2>2 DEF Leave
    <3>2. t = u
      BY <2>1, <3>1
    <3> QED BY <2>2, <3>2, LeaveInv
  <2>3. CASE \E m \in Manager : Enter(u, m)
    <3>1. PICK m \in Manager : Enter(u, m)
      BY <2>3
    <3> DEFINE s == EnteredAgain(stack[t], m)
    <3>2. s \in Seq(Entry) /\ Len(s) = Len(stack[t])
      BY <2>1, Marked
    <3>3. stack'[t] = s \/ \E e \in Entry : stack'[t] = Append(s, e)
      <4>1. [manager |-> m, found |-> default[u], again |-> FALSE] \in Entry
        BY DEF ContextInv, ContextTypeOK, Entry
      <4> QED BY <3>1, <4>1 DEF Enter
    <3> HIDE DEF s
    <3>4. \A e \in Entry : Len(Append(s, e)) = Len(s) + 1
      BY <3>2
    <3> QED BY <2>1, <3>2, <3>3, <3>4
  <2> QED BY <2>2, <2>3 DEF ContextStep
<1> QED BY <1>1, Invariance, PTL DEF ContextSpec, LeavingRestores

\* A thread inside a strict context reaches no other chain.
THEOREM StrictHolds == ContextSpec => []StrictIsConfined
<1>1. ContextInv => StrictIsConfined
  <2> SUFFICES ASSUME ContextInv, NEW t \in Thread,
                      NEW m \in Managers(t) \intersect Strict,
                      NEW bound \in Chain \union {NoChain}, NEW arg \in Chain \union {NoChain},
                      NEW c \in Reached(t, bound, arg)
               PROVE  c = ChainOf[m]
    BY DEF StrictIsConfined
  <2>1. PICK i \in 1 .. Len(stack[t]) : stack[t][i].manager = m
    BY DEF Managers
  <2>2. stack[t] \in Seq(Entry) /\ Len(stack[t]) \in Nat
    BY LenProperties DEF ContextInv, ContextTypeOK, Entry
  <2>3. i = Len(stack[t]) /\ stack[t] # <<>>
    BY <2>1, <2>2, EmptySeq DEF ContextInv, StrictIsInnermost
  <2>4. default[t] = Setting(m)
    BY <2>1, <2>3 DEF ContextInv, StrictIsSet, Innermost
  <2>5. default[t].strict /\ default[t].chain = ChainOf[m]
    BY <2>4, SettingStrict, ManagerAssumption DEF Setting
  <2>6. ChainOf[m] \in Chain
    BY ManagerAssumption
  <2> QED BY <2>5, <2>6, ChainAssumption DEF Reached, Permitted
<1> QED BY <1>1, Invariance, PTL
=============================================================================
