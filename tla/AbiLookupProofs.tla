-------------------------- MODULE AbiLookupProofs --------------------------
(***************************************************************************)
(* Theorems about AbiLookup, for any callers, requests and explorers: an   *)
(* open job is never lost, a finished one keeps its outcome, the pending   *)
(* table knows the newest lookup, and callbacks run at most once.          *)
(*                                                                         *)
(* The common inductive invariant says which jobs exist and where the      *)
(* worker is with the job it has taken (Control); NeverLost, CallsHold and *)
(* PendingIsLatest are inductive relative to it.                           *)
(***************************************************************************)
EXTENDS AbiLookup, SequenceTheorems, FiniteSetTheorems, TLAPS

\* A caller's own job exists once it has asked, and nobody's before.
CallersHold ==
    \A c \in Caller :
        /\ at[c] = "idle" => outcome[c] = "absent"
        /\ at[c] # "idle" => outcome[mine[c]] # "absent"

\* Only jobs that exist are in the tables and in the queue.
JobsExist ==
    /\ \A k \in Key : pending[k] # None => outcome[pending[k]] # "absent"
    /\ \A k \in Key : latest[k] # None => outcome[latest[k]] # "absent"
    /\ \A p \in Priority : \A i \in 1 .. Len(queue[p]) : outcome[queue[p][i]] # "absent"

Running == {"partition", "ask", "sleep", "settle"}

\* The worker runs an open job, and tidies up after one that is done.
WorkerHolds ==
    /\ w.pc \notin {"off", "get"} => w.job \in Job /\ outcome[w.job] # "absent"
    /\ w.pc \in Running => outcome[w.job] = "open"
    /\ w.pc = "call" => outcome[w.job] = "found"
    /\ w.pc \in {"record", "pop"} => outcome[w.job] \in Failure

Control == CallersHold /\ JobsExist /\ WorkerHolds

-----------------------------------------------------------------------------
(* Sequences.                                                               *)

Holds(s, x) == \E i \in 1 .. Len(s) : s[i] = x

\* An appended entry joins the others.
LEMMA AppendHolds ==
    ASSUME NEW S, NEW s \in Seq(S), NEW e \in S, NEW x
    PROVE  /\ Append(s, e) \in Seq(S)
           /\ Holds(s, x) => Holds(Append(s, e), x)
           /\ Holds(Append(s, e), e)
           /\ \A i \in 1 .. Len(Append(s, e)) :
                  Append(s, e)[i] = e \/ \E k \in 1 .. Len(s) : Append(s, e)[i] = s[k]
<1>1. /\ Append(s, e) \in Seq(S) /\ Len(Append(s, e)) = Len(s) + 1 /\ Len(s) \in Nat
      /\ \A i \in 1 .. Len(s) : Append(s, e)[i] = s[i]
      /\ Append(s, e)[Len(s) + 1] = e
  OBVIOUS
<1>2. \A i \in 1 .. Len(s) : i \in 1 .. Len(Append(s, e))
  BY <1>1
<1>3. Holds(s, x) => Holds(Append(s, e), x)
  BY <1>1, <1>2 DEF Holds
<1>4. Len(s) + 1 \in 1 .. Len(Append(s, e))
  BY <1>1
<1>5. Holds(Append(s, e), e)
  BY <1>1, <1>4 DEF Holds
<1>6. \A i \in 1 .. Len(Append(s, e)) : i \in 1 .. Len(s) \/ i = Len(s) + 1
  BY <1>1
<1> QED
  BY <1>1, <1>3, <1>5, <1>6

\* Taking the first entry leaves the others.
LEMMA TailHolds ==
    ASSUME NEW S, NEW s \in Seq(S), s # <<>>, NEW x
    PROVE  /\ Head(s) \in S /\ Tail(s) \in Seq(S)
           /\ \E k \in 1 .. Len(s) : Head(s) = s[k]
           /\ Holds(s, x) /\ x # Head(s) => Holds(Tail(s), x)
           /\ \A i \in 1 .. Len(Tail(s)) : \E k \in 1 .. Len(s) : Tail(s)[i] = s[k]
<1>1. /\ Head(s) \in S /\ Tail(s) \in Seq(S) /\ Head(s) = s[1]
      /\ Len(s) \in Nat /\ Len(s) >= 1 /\ Len(Tail(s)) = Len(s) - 1
  OBVIOUS
<1>2. \A i \in 1 .. Len(Tail(s)) : Tail(s)[i] = s[i + 1] /\ i + 1 \in 1 .. Len(s)
  BY <1>1
<1>3. ASSUME NEW i \in 1 .. Len(s), s[i] # Head(s)
      PROVE  i - 1 \in 1 .. Len(Tail(s)) /\ Tail(s)[i - 1] = s[i]
  <2>1. i # 1
    BY <1>1, <1>3
  <2>2. i - 1 \in 1 .. Len(Tail(s)) /\ (i - 1) + 1 = i
    BY <1>1, <2>1
  <2> QED
    BY <1>2, <2>2
<1>4. Holds(s, x) /\ x # Head(s) => Holds(Tail(s), x)
  BY <1>3 DEF Holds
<1>5. 1 \in 1 .. Len(s)
  BY <1>1
<1> QED
  BY <1>1, <1>2, <1>4, <1>5

-----------------------------------------------------------------------------
(* Types.                                                                   *)

USE NoneAssumption, AsksAssumption, ProviderAssumption
    DEF Job, Provider, Priority, Failure

\* The initial state has its types.
LEMMA TypeInit == Init => TypeOK
<1> SUFFICES ASSUME Init PROVE TypeOK
  OBVIOUS
<1>1. \A pc_ \in {"off", "get"} : Unoccupied(pc_) \in WorkerState
  BY DEF WorkerState, Unoccupied
<1>2. w \in WorkerState /\ negative \subseteq Key
  BY <1>1 DEF Init
<1> QED
  BY <1>2 DEF Init, TypeOK

\* Every step of a caller, of the worker and of time keeps the types, given that the
\* worker has a job where it uses one.
LEMMA TypeStep == TypeOK /\ WorkerHolds /\ [Next]_vars => TypeOK'
<1> SUFFICES ASSUME TypeOK, WorkerHolds, [Next]_vars PROVE TypeOK'
  OBVIOUS
<1> USE DEF TypeOK, WorkerState, callerVars, jobVars, tableVars, GoTo, Take, KeyOf, Unoccupied
<1>1. ASSUME NEW c \in Caller, FetchShared(c) PROVE TypeOK'
  BY <1>1 DEF FetchShared, Shareable
<1>2. ASSUME NEW c \in Caller, FetchNegative(c) PROVE TypeOK'
  BY <1>2 DEF FetchNegative
<1>3. ASSUME NEW c \in Caller, FetchNew(c) PROVE TypeOK'
  BY <1>3 DEF FetchNew
<1>4. ASSUME NEW c \in Caller, Attach(c) PROVE TypeOK'
  BY <1>4 DEF Attach
<1>5. ASSUME NEW c \in Caller, KeepPriority(c) PROVE TypeOK'
  BY <1>5 DEF KeepPriority
<1>6. ASSUME NEW c \in Caller, RaiseShared(c) PROVE TypeOK'
  BY <1>6 DEF RaiseShared, Raise
<1>7. ASSUME NEW c \in Caller, Put(c) PROVE TypeOK'
  <2>1. mine[c] \in Job /\ priority[mine[c]] \in Priority
    BY <1>7 DEF Put
  <2>2. Append(queue[priority[mine[c]]], mine[c]) \in Seq(Job)
    BY <2>1, AppendHolds
  <2> QED
    BY <1>7, <2>1, <2>2 DEF Put
<1>8. ASSUME NEW c \in Caller, Wait(c) PROVE TypeOK'
  BY <1>8 DEF Wait
<1>9. ASSUME NEW c \in Caller, RaiseToWait(c) PROVE TypeOK'
  BY <1>9 DEF RaiseToWait, Raise
<1>10. ASSUME Get PROVE TypeOK'
  <2>1. Urgent \in Priority /\ queue[Urgent] # <<>>
    BY <1>10 DEF Get, Urgent
  <2>2. Head(queue[Urgent]) \in Job /\ Tail(queue[Urgent]) \in Seq(Job)
    BY <2>1, TailHolds
  <2> QED
    BY <1>10, <2>1, <2>2 DEF Get
<1>11. ASSUME Skip PROVE TypeOK'
  BY <1>11 DEF Skip
<1>12. ASSUME Start PROVE TypeOK'
  BY <1>12 DEF Start
<1>13. ASSUME Partition PROVE TypeOK'
  BY <1>13 DEF Partition
<1>14. ASSUME NEW v \in {"found", "error"}, AskEnds(v) PROVE TypeOK'
  BY <1>14 DEF AskEnds
<1>15. ASSUME NEW a \in Failure, AskFailed(a) PROVE TypeOK'
  <2>1. PICK p \in w.ready :
            /\ limited' = IF a = "limited" THEN limited \union {p} ELSE limited
            /\ w' = [w EXCEPT !.ready = @ \ {p}, !.said = Append(@, a)]
    BY <1>15 DEF AskFailed
  <2>2. w.ready \ {p} \subseteq Provider /\ Append(w.said, a) \in Seq(Failure)
    OBVIOUS
  <2>3. w' = [[w EXCEPT !.ready = w.ready \ {p}] EXCEPT !.said = Append(w.said, a)]
    BY <2>1
  <2>4. w' \in WorkerState
    BY <2>2, <2>3
  <2>5. limited' \subseteq Provider
    BY <2>1
  <2> HIDE DEF WorkerState
  <2> QED
    BY <1>15, <2>4, <2>5 DEF AskFailed
<1>16. ASSUME Sleep PROVE TypeOK'
  BY <1>16 DEF Sleep
<1>17. ASSUME AwakeFromSleep PROVE TypeOK'
  BY <1>17 DEF AwakeFromSleep
<1>18. ASSUME GiveUp PROVE TypeOK'
  <2>1. PICK v \in Failure : w' = [w EXCEPT !.pc = "settle", !.verdict = v]
    BY <1>18 DEF GiveUp
  <2>2. w' \in WorkerState
    BY <2>1
  <2> HIDE DEF WorkerState
  <2> QED
    BY <1>18, <2>2 DEF GiveUp
<1>19. ASSUME Settle PROVE TypeOK'
  <2>1. w.job \in Job /\ w.verdict \in Failure \union {"found"}
    BY <1>19 DEF Settle, WorkerHolds
  <2>2. w' \in WorkerState
    BY <1>19, <2>1 DEF Settle
  <2> HIDE DEF WorkerState
  <2> QED
    BY <1>19, <2>1, <2>2 DEF Settle
<1>20. ASSUME NEW c \in Caller, Call(c) PROVE TypeOK'
  <2>1. told' \in [Caller -> Nat]
    BY <1>20 DEF Call
  <2>2. w.toCall \ {c} \subseteq Caller /\ w' = [w EXCEPT !.toCall = w.toCall \ {c}]
    BY <1>20 DEF Call
  <2>3. w' \in WorkerState
    BY <2>2
  <2> HIDE DEF WorkerState
  <2> QED
    BY <1>20, <2>1, <2>3 DEF Call
<1>21. ASSUME Record PROVE TypeOK'
  <2>1. w' \in WorkerState /\ KeyOf(w.job) \in Key
    BY <1>21 DEF Record, WorkerHolds
  <2> HIDE DEF WorkerState, KeyOf
  <2> QED
    BY <1>21, <2>1 DEF Record
<1>22. ASSUME Pop PROVE TypeOK'
  BY <1>22 DEF Pop, Finished, WorkerHolds
<1>23. ASSUME NEW p \in Provider, CooldownEnds(p) PROVE TypeOK'
  BY <1>23 DEF CooldownEnds
<1>24. ASSUME NEW k \in Key, NegativeExpires(k) PROVE TypeOK'
  BY <1>24 DEF NegativeExpires
<1>25. ASSUME UNCHANGED vars PROVE TypeOK'
  BY <1>25 DEF vars
<1> QED
  BY <1>1, <1>2, <1>3, <1>4, <1>5, <1>6, <1>7, <1>8, <1>9, <1>10, <1>11, <1>12, <1>13,
     <1>14, <1>15, <1>16, <1>17, <1>18, <1>19, <1>20, <1>21, <1>22, <1>23, <1>24, <1>25
     DEF Next, Fetch, Proceed, Work, Hear

-----------------------------------------------------------------------------
(* Control.                                                                 *)

\* Initially nobody has a job and the worker does not run.
LEMMA ControlInit == Init => Control
  BY DEF Init, Control, CallersHold, JobsExist, WorkerHolds, Unoccupied, Running

\* A caller that has asked holds a job that exists; a job exists only once its caller
\* has asked.
LEMMA CallersStep == TypeOK /\ Control /\ [Next]_vars => CallersHold'
<1> SUFFICES ASSUME TypeOK, Control, [Next]_vars PROVE CallersHold'
  OBVIOUS
<1> USE DEF TypeOK, WorkerState, Control, CallersHold, WorkerHolds, Running, callerVars,
            jobVars, tableVars, GoTo, Take, KeyOf, Unoccupied, Done
<1>1. ASSUME NEW c \in Caller, FetchShared(c) PROVE CallersHold'
  BY <1>1 DEF FetchShared, Shareable, JobsExist
<1>2. ASSUME NEW c \in Caller, FetchNegative(c) PROVE CallersHold'
  BY <1>2 DEF FetchNegative
<1>3. ASSUME NEW c \in Caller, FetchNew(c) PROVE CallersHold'
  BY <1>3 DEF FetchNew
<1>4. ASSUME NEW c \in Caller, Attach(c) PROVE CallersHold'
  BY <1>4 DEF Attach
<1>5. ASSUME NEW c \in Caller, KeepPriority(c) PROVE CallersHold'
  BY <1>5 DEF KeepPriority
<1>6. ASSUME NEW c \in Caller, RaiseShared(c) PROVE CallersHold'
  BY <1>6 DEF RaiseShared, Raise
<1>7. ASSUME NEW c \in Caller, Put(c) PROVE CallersHold'
  BY <1>7 DEF Put
<1>8. ASSUME NEW c \in Caller, Wait(c) PROVE CallersHold'
  BY <1>8 DEF Wait
<1>9. ASSUME NEW c \in Caller, RaiseToWait(c) PROVE CallersHold'
  BY <1>9 DEF RaiseToWait, Raise
<1>10. ASSUME Get PROVE CallersHold'
  BY <1>10 DEF Get
<1>11. ASSUME Skip PROVE CallersHold'
  BY <1>11 DEF Skip
<1>12. ASSUME Start PROVE CallersHold'
  BY <1>12 DEF Start
<1>13. ASSUME Partition PROVE CallersHold'
  BY <1>13 DEF Partition
<1>14. ASSUME NEW v \in {"found", "error"}, AskEnds(v) PROVE CallersHold'
  BY <1>14 DEF AskEnds
<1>15. ASSUME NEW a \in Failure, AskFailed(a) PROVE CallersHold'
  BY <1>15 DEF AskFailed
<1>16. ASSUME Sleep PROVE CallersHold'
  BY <1>16 DEF Sleep
<1>17. ASSUME AwakeFromSleep PROVE CallersHold'
  BY <1>17 DEF AwakeFromSleep
<1>18. ASSUME GiveUp PROVE CallersHold'
  BY <1>18 DEF GiveUp
<1>19. ASSUME Settle PROVE CallersHold'
  BY <1>19 DEF Settle
<1>20. ASSUME NEW c \in Caller, Call(c) PROVE CallersHold'
  BY <1>20 DEF Call
<1>21. ASSUME Record PROVE CallersHold'
  BY <1>21 DEF Record
<1>22. ASSUME Pop PROVE CallersHold'
  BY <1>22 DEF Pop, Finished
<1>23. ASSUME NEW p \in Provider, CooldownEnds(p) PROVE CallersHold'
  BY <1>23 DEF CooldownEnds
<1>24. ASSUME NEW k \in Key, NegativeExpires(k) PROVE CallersHold'
  BY <1>24 DEF NegativeExpires
<1>25. ASSUME UNCHANGED vars PROVE CallersHold'
  BY <1>25 DEF vars
<1> QED
  BY <1>1, <1>2, <1>3, <1>4, <1>5, <1>6, <1>7, <1>8, <1>9, <1>10, <1>11, <1>12, <1>13,
     <1>14, <1>15, <1>16, <1>17, <1>18, <1>19, <1>20, <1>21, <1>22, <1>23, <1>24, <1>25
     DEF Next, Fetch, Proceed, Work, Hear

\* No table and no queue entry names a job that does not exist.
LEMMA JobsStep == TypeOK /\ Control /\ [Next]_vars => JobsExist'
<1> SUFFICES ASSUME TypeOK, Control, [Next]_vars PROVE JobsExist'
  OBVIOUS
<1> USE DEF TypeOK, WorkerState, Control, JobsExist, CallersHold, WorkerHolds, Running,
            callerVars, jobVars, tableVars, GoTo, Take, KeyOf, Unoccupied, Done
<1>1. ASSUME NEW c \in Caller, FetchShared(c) PROVE JobsExist'
  BY <1>1 DEF FetchShared
<1>2. ASSUME NEW c \in Caller, FetchNegative(c) PROVE JobsExist'
  BY <1>2 DEF FetchNegative
<1>3. ASSUME NEW c \in Caller, FetchNew(c) PROVE JobsExist'
  BY <1>3 DEF FetchNew
<1>4. ASSUME NEW c \in Caller, Attach(c) PROVE JobsExist'
  BY <1>4 DEF Attach
<1>5. ASSUME NEW c \in Caller, KeepPriority(c) PROVE JobsExist'
  BY <1>5 DEF KeepPriority
<1>6. ASSUME NEW c \in Caller, RaiseShared(c) PROVE JobsExist'
  BY <1>6 DEF RaiseShared, Raise
<1>7. ASSUME NEW c \in Caller, Put(c) PROVE JobsExist'
  <2> DEFINE q == queue[priority[mine[c]]]
  <2>1. q \in Seq(Job) /\ mine[c] \in Job /\ outcome[mine[c]] # "absent"
    BY <1>7 DEF Put
  <2>2. \A k \in 1 .. Len(q) : outcome[q[k]] # "absent"
    <3>1. priority[mine[c]] \in Priority
      BY <2>1
    <3> QED
      BY <3>1
  <2> HIDE DEF q
  <2>3. \A i \in 1 .. Len(Append(q, mine[c])) :
            Append(q, mine[c])[i] = mine[c]
              \/ \E k \in 1 .. Len(q) : Append(q, mine[c])[i] = q[k]
    BY <2>1, AppendHolds
  <2>4. \A i \in 1 .. Len(Append(q, mine[c])) :
            outcome[Append(q, mine[c])[i]] # "absent"
    BY <2>1, <2>2, <2>3
  <2> QED
    BY <1>7, <2>4 DEF Put, q
<1>8. ASSUME NEW c \in Caller, Wait(c) PROVE JobsExist'
  BY <1>8 DEF Wait
<1>9. ASSUME NEW c \in Caller, RaiseToWait(c) PROVE JobsExist'
  BY <1>9 DEF RaiseToWait, Raise
<1>10. ASSUME Get PROVE JobsExist'
  <2>1. Urgent \in Priority /\ queue[Urgent] \in Seq(Job) /\ queue[Urgent] # <<>>
    BY <1>10 DEF Get, Urgent
  <2>2. \A k \in 1 .. Len(queue[Urgent]) : outcome[queue[Urgent][k]] # "absent"
    BY <2>1
  <2>3. \A i \in 1 .. Len(Tail(queue[Urgent])) :
            \E k \in 1 .. Len(queue[Urgent]) : Tail(queue[Urgent])[i] = queue[Urgent][k]
    <3> DEFINE q == queue[Urgent]
    <3> HIDE DEF q
    <3>1. q \in Seq(Job) /\ q # <<>>
      BY <2>1 DEF q
    <3>2. \A i \in 1 .. Len(Tail(q)) : \E k \in 1 .. Len(q) : Tail(q)[i] = q[k]
      BY <3>1, TailHolds
    <3> QED
      BY <3>2 DEF q
  <2>4. \A i \in 1 .. Len(Tail(queue[Urgent])) : outcome[Tail(queue[Urgent])[i]] # "absent"
    BY <2>2, <2>3
  <2> QED
    BY <1>10, <2>1, <2>4 DEF Get
<1>11. ASSUME Skip PROVE JobsExist'
  BY <1>11 DEF Skip
<1>12. ASSUME Start PROVE JobsExist'
  BY <1>12 DEF Start
<1>13. ASSUME Partition PROVE JobsExist'
  BY <1>13 DEF Partition
<1>14. ASSUME NEW v \in {"found", "error"}, AskEnds(v) PROVE JobsExist'
  BY <1>14 DEF AskEnds
<1>15. ASSUME NEW a \in Failure, AskFailed(a) PROVE JobsExist'
  BY <1>15 DEF AskFailed
<1>16. ASSUME Sleep PROVE JobsExist'
  BY <1>16 DEF Sleep
<1>17. ASSUME AwakeFromSleep PROVE JobsExist'
  BY <1>17 DEF AwakeFromSleep
<1>18. ASSUME GiveUp PROVE JobsExist'
  BY <1>18 DEF GiveUp
<1>19. ASSUME Settle PROVE JobsExist'
  BY <1>19 DEF Settle
<1>20. ASSUME NEW c \in Caller, Call(c) PROVE JobsExist'
  BY <1>20 DEF Call
<1>21. ASSUME Record PROVE JobsExist'
  BY <1>21 DEF Record
<1>22. ASSUME Pop PROVE JobsExist'
  BY <1>22 DEF Pop, Finished
<1>23. ASSUME NEW p \in Provider, CooldownEnds(p) PROVE JobsExist'
  BY <1>23 DEF CooldownEnds
<1>24. ASSUME NEW k \in Key, NegativeExpires(k) PROVE JobsExist'
  BY <1>24 DEF NegativeExpires
<1>25. ASSUME UNCHANGED vars PROVE JobsExist'
  BY <1>25 DEF vars
<1> QED
  BY <1>1, <1>2, <1>3, <1>4, <1>5, <1>6, <1>7, <1>8, <1>9, <1>10, <1>11, <1>12, <1>13,
     <1>14, <1>15, <1>16, <1>17, <1>18, <1>19, <1>20, <1>21, <1>22, <1>23, <1>24, <1>25
     DEF Next, Fetch, Proceed, Work, Hear

\* The worker starts only open jobs and is alone in finishing them.
LEMMA WorkerStep == TypeOK /\ Control /\ [Next]_vars => WorkerHolds'
<1> SUFFICES ASSUME TypeOK, Control, [Next]_vars PROVE WorkerHolds'
  OBVIOUS
<1> USE DEF TypeOK, WorkerState, Control, CallersHold, WorkerHolds, Running, callerVars,
            jobVars, tableVars, GoTo, Take, KeyOf, Unoccupied, Done
<1>1. ASSUME NEW c \in Caller, FetchShared(c) PROVE WorkerHolds'
  BY <1>1 DEF FetchShared
<1>2. ASSUME NEW c \in Caller, FetchNegative(c) PROVE WorkerHolds'
  BY <1>2 DEF FetchNegative
<1>3. ASSUME NEW c \in Caller, FetchNew(c) PROVE WorkerHolds'
  BY <1>3 DEF FetchNew
<1>4. ASSUME NEW c \in Caller, Attach(c) PROVE WorkerHolds'
  BY <1>4 DEF Attach
<1>5. ASSUME NEW c \in Caller, KeepPriority(c) PROVE WorkerHolds'
  BY <1>5 DEF KeepPriority
<1>6. ASSUME NEW c \in Caller, RaiseShared(c) PROVE WorkerHolds'
  BY <1>6 DEF RaiseShared, Raise
<1>7. ASSUME NEW c \in Caller, Put(c) PROVE WorkerHolds'
  BY <1>7 DEF Put
<1>8. ASSUME NEW c \in Caller, Wait(c) PROVE WorkerHolds'
  BY <1>8 DEF Wait
<1>9. ASSUME NEW c \in Caller, RaiseToWait(c) PROVE WorkerHolds'
  BY <1>9 DEF RaiseToWait, Raise
<1>10. ASSUME Get PROVE WorkerHolds'
  <2>1. Urgent \in Priority /\ queue[Urgent] \in Seq(Job) /\ queue[Urgent] # <<>>
    BY <1>10 DEF Get, Urgent
  <2>2. \A k \in 1 .. Len(queue[Urgent]) : outcome[queue[Urgent][k]] # "absent"
    BY <2>1 DEF JobsExist
  <2>3. Head(queue[Urgent]) \in Job
        /\ \E k \in 1 .. Len(queue[Urgent]) : Head(queue[Urgent]) = queue[Urgent][k]
    <3> DEFINE q == queue[Urgent]
    <3> HIDE DEF q
    <3>1. q \in Seq(Job) /\ q # <<>>
      BY <2>1 DEF q
    <3>2. Head(q) \in Job /\ \E k \in 1 .. Len(q) : Head(q) = q[k]
      BY <3>1, TailHolds
    <3> QED
      BY <3>2 DEF q
  <2>4. Head(queue[Urgent]) \in Job /\ outcome[Head(queue[Urgent])] # "absent"
    BY <2>2, <2>3
  <2> QED
    BY <1>10, <2>4 DEF Get
<1>11. ASSUME Skip PROVE WorkerHolds'
  BY <1>11 DEF Skip
<1>12. ASSUME Start PROVE WorkerHolds'
  BY <1>12 DEF Start, StaleEntry
<1>13. ASSUME Partition PROVE WorkerHolds'
  BY <1>13 DEF Partition
<1>14. ASSUME NEW v \in {"found", "error"}, AskEnds(v) PROVE WorkerHolds'
  BY <1>14 DEF AskEnds
<1>15. ASSUME NEW a \in Failure, AskFailed(a) PROVE WorkerHolds'
  BY <1>15 DEF AskFailed
<1>16. ASSUME Sleep PROVE WorkerHolds'
  BY <1>16 DEF Sleep
<1>17. ASSUME AwakeFromSleep PROVE WorkerHolds'
  BY <1>17 DEF AwakeFromSleep
<1>18. ASSUME GiveUp PROVE WorkerHolds'
  BY <1>18 DEF GiveUp
<1>19. ASSUME Settle PROVE WorkerHolds'
  BY <1>19 DEF Settle
<1>20. ASSUME NEW c \in Caller, Call(c) PROVE WorkerHolds'
  BY <1>20 DEF Call
<1>21. ASSUME Record PROVE WorkerHolds'
  BY <1>21 DEF Record
<1>22. ASSUME Pop PROVE WorkerHolds'
  BY <1>22 DEF Pop, Finished
<1>23. ASSUME NEW p \in Provider, CooldownEnds(p) PROVE WorkerHolds'
  BY <1>23 DEF CooldownEnds
<1>24. ASSUME NEW k \in Key, NegativeExpires(k) PROVE WorkerHolds'
  BY <1>24 DEF NegativeExpires
<1>25. ASSUME UNCHANGED vars PROVE WorkerHolds'
  BY <1>25 DEF vars
<1> QED
  BY <1>1, <1>2, <1>3, <1>4, <1>5, <1>6, <1>7, <1>8, <1>9, <1>10, <1>11, <1>12, <1>13,
     <1>14, <1>15, <1>16, <1>17, <1>18, <1>19, <1>20, <1>21, <1>22, <1>23, <1>24, <1>25
     DEF Next, Fetch, Proceed, Work, Hear

Base == TypeOK /\ Control

\* The types and the control invariant hold in every reachable state.
THEOREM BaseCorrect == Spec => []Base
<1>1. Init => Base
  BY TypeInit, ControlInit DEF Base
<1>2. Base /\ [Next]_vars => Base'
  BY TypeStep, CallersStep, JobsStep, WorkerStep DEF Base, Control
<1> QED
  BY <1>1, <1>2, PTL DEF Spec

\* Every variable keeps its type: the queue holds jobs, the worker's locals are what
\* _fetch_abi and _run_job expect.
THEOREM TypeCorrect == Spec => []TypeOK
<1>1. Base => TypeOK
  BY DEF Base
<1> QED
  BY BaseCorrect, <1>1, PTL

-----------------------------------------------------------------------------
(* A finished job keeps its outcome, and the newest lookup stays findable.  *)

\* Only open jobs are settled, and a new job takes the place of no other.
LEMMA StickStep == Base /\ [Next]_vars => \A j \in Job : Done(j) => outcome'[j] = outcome[j]
<1> SUFFICES ASSUME Base, [Next]_vars PROVE \A j \in Job : Done(j) => outcome'[j] = outcome[j]
  OBVIOUS
<1> USE DEF Base, TypeOK, WorkerState, Control, CallersHold, WorkerHolds, Running, callerVars,
            jobVars, tableVars, GoTo, Take, KeyOf, Unoccupied, Done
<1>1. ASSUME NEW c \in Caller, FetchShared(c) PROVE \A j \in Job : Done(j) => outcome'[j] = outcome[j]
  BY <1>1 DEF FetchShared
<1>2. ASSUME NEW c \in Caller, FetchNegative(c) PROVE \A j \in Job : Done(j) => outcome'[j] = outcome[j]
  BY <1>2 DEF FetchNegative
<1>3. ASSUME NEW c \in Caller, FetchNew(c) PROVE \A j \in Job : Done(j) => outcome'[j] = outcome[j]
  BY <1>3 DEF FetchNew
<1>4. ASSUME NEW c \in Caller, Attach(c) PROVE \A j \in Job : Done(j) => outcome'[j] = outcome[j]
  BY <1>4 DEF Attach
<1>5. ASSUME NEW c \in Caller, KeepPriority(c) PROVE \A j \in Job : Done(j) => outcome'[j] = outcome[j]
  BY <1>5 DEF KeepPriority
<1>6. ASSUME NEW c \in Caller, RaiseShared(c) PROVE \A j \in Job : Done(j) => outcome'[j] = outcome[j]
  BY <1>6 DEF RaiseShared, Raise
<1>7. ASSUME NEW c \in Caller, Put(c) PROVE \A j \in Job : Done(j) => outcome'[j] = outcome[j]
  BY <1>7 DEF Put
<1>8. ASSUME NEW c \in Caller, Wait(c) PROVE \A j \in Job : Done(j) => outcome'[j] = outcome[j]
  BY <1>8 DEF Wait
<1>9. ASSUME NEW c \in Caller, RaiseToWait(c) PROVE \A j \in Job : Done(j) => outcome'[j] = outcome[j]
  BY <1>9 DEF RaiseToWait, Raise
<1>10. ASSUME Get PROVE \A j \in Job : Done(j) => outcome'[j] = outcome[j]
  BY <1>10 DEF Get
<1>11. ASSUME Skip PROVE \A j \in Job : Done(j) => outcome'[j] = outcome[j]
  BY <1>11 DEF Skip
<1>12. ASSUME Start PROVE \A j \in Job : Done(j) => outcome'[j] = outcome[j]
  BY <1>12 DEF Start
<1>13. ASSUME Partition PROVE \A j \in Job : Done(j) => outcome'[j] = outcome[j]
  BY <1>13 DEF Partition
<1>14. ASSUME NEW v \in {"found", "error"}, AskEnds(v) PROVE \A j \in Job : Done(j) => outcome'[j] = outcome[j]
  BY <1>14 DEF AskEnds
<1>15. ASSUME NEW a \in Failure, AskFailed(a) PROVE \A j \in Job : Done(j) => outcome'[j] = outcome[j]
  BY <1>15 DEF AskFailed
<1>16. ASSUME Sleep PROVE \A j \in Job : Done(j) => outcome'[j] = outcome[j]
  BY <1>16 DEF Sleep
<1>17. ASSUME AwakeFromSleep PROVE \A j \in Job : Done(j) => outcome'[j] = outcome[j]
  BY <1>17 DEF AwakeFromSleep
<1>18. ASSUME GiveUp PROVE \A j \in Job : Done(j) => outcome'[j] = outcome[j]
  BY <1>18 DEF GiveUp
<1>19. ASSUME Settle PROVE \A j \in Job : Done(j) => outcome'[j] = outcome[j]
  BY <1>19 DEF Settle
<1>20. ASSUME NEW c \in Caller, Call(c) PROVE \A j \in Job : Done(j) => outcome'[j] = outcome[j]
  BY <1>20 DEF Call
<1>21. ASSUME Record PROVE \A j \in Job : Done(j) => outcome'[j] = outcome[j]
  BY <1>21 DEF Record
<1>22. ASSUME Pop PROVE \A j \in Job : Done(j) => outcome'[j] = outcome[j]
  BY <1>22 DEF Pop, Finished
<1>23. ASSUME NEW p \in Provider, CooldownEnds(p) PROVE \A j \in Job : Done(j) => outcome'[j] = outcome[j]
  BY <1>23 DEF CooldownEnds
<1>24. ASSUME NEW k \in Key, NegativeExpires(k) PROVE \A j \in Job : Done(j) => outcome'[j] = outcome[j]
  BY <1>24 DEF NegativeExpires
<1>25. ASSUME UNCHANGED vars PROVE \A j \in Job : Done(j) => outcome'[j] = outcome[j]
  BY <1>25 DEF vars
<1> QED
  BY <1>1, <1>2, <1>3, <1>4, <1>5, <1>6, <1>7, <1>8, <1>9, <1>10, <1>11, <1>12, <1>13,
     <1>14, <1>15, <1>16, <1>17, <1>18, <1>19, <1>20, <1>21, <1>22, <1>23, <1>24, <1>25
     DEF Next, Fetch, Proceed, Work, Hear

\* What the waiters of a finished lookup were given does not change: stale queue entries
\* are skipped.
THEOREM OutcomeFinal == Spec => OutcomeSticks
<1>1. Base /\ [Next]_vars => [\A j \in Job : Done(j) => outcome'[j] = outcome[j]]_vars
  BY StickStep
<1> QED
  BY BaseCorrect, <1>1, PTL DEF Spec, OutcomeSticks

\* The end of a superseded lookup leaves the entry of its successor in place.
LEMMA PendingStep == Base /\ PendingIsLatest /\ [Next]_vars => PendingIsLatest'
<1> SUFFICES ASSUME Base, PendingIsLatest, [Next]_vars PROVE PendingIsLatest'
  OBVIOUS
<1> USE DEF Base, TypeOK, WorkerState, Control, CallersHold, WorkerHolds, Running, callerVars,
            jobVars, tableVars, GoTo, Take, KeyOf, Unoccupied, Done,
            PendingIsLatest, JobsExist
<1>1. ASSUME NEW c \in Caller, FetchShared(c) PROVE PendingIsLatest'
  BY <1>1 DEF FetchShared
<1>2. ASSUME NEW c \in Caller, FetchNegative(c) PROVE PendingIsLatest'
  BY <1>2 DEF FetchNegative
<1>3. ASSUME NEW c \in Caller, FetchNew(c) PROVE PendingIsLatest'
  BY <1>3 DEF FetchNew
<1>4. ASSUME NEW c \in Caller, Attach(c) PROVE PendingIsLatest'
  BY <1>4 DEF Attach
<1>5. ASSUME NEW c \in Caller, KeepPriority(c) PROVE PendingIsLatest'
  BY <1>5 DEF KeepPriority
<1>6. ASSUME NEW c \in Caller, RaiseShared(c) PROVE PendingIsLatest'
  BY <1>6 DEF RaiseShared, Raise
<1>7. ASSUME NEW c \in Caller, Put(c) PROVE PendingIsLatest'
  BY <1>7 DEF Put
<1>8. ASSUME NEW c \in Caller, Wait(c) PROVE PendingIsLatest'
  BY <1>8 DEF Wait
<1>9. ASSUME NEW c \in Caller, RaiseToWait(c) PROVE PendingIsLatest'
  BY <1>9 DEF RaiseToWait, Raise
<1>10. ASSUME Get PROVE PendingIsLatest'
  BY <1>10 DEF Get
<1>11. ASSUME Skip PROVE PendingIsLatest'
  BY <1>11 DEF Skip
<1>12. ASSUME Start PROVE PendingIsLatest'
  BY <1>12 DEF Start
<1>13. ASSUME Partition PROVE PendingIsLatest'
  BY <1>13 DEF Partition
<1>14. ASSUME NEW v \in {"found", "error"}, AskEnds(v) PROVE PendingIsLatest'
  BY <1>14 DEF AskEnds
<1>15. ASSUME NEW a \in Failure, AskFailed(a) PROVE PendingIsLatest'
  BY <1>15 DEF AskFailed
<1>16. ASSUME Sleep PROVE PendingIsLatest'
  BY <1>16 DEF Sleep
<1>17. ASSUME AwakeFromSleep PROVE PendingIsLatest'
  BY <1>17 DEF AwakeFromSleep
<1>18. ASSUME GiveUp PROVE PendingIsLatest'
  BY <1>18 DEF GiveUp
<1>19. ASSUME Settle PROVE PendingIsLatest'
  BY <1>19 DEF Settle
<1>20. ASSUME NEW c \in Caller, Call(c) PROVE PendingIsLatest'
  BY <1>20 DEF Call
<1>21. ASSUME Record PROVE PendingIsLatest'
  BY <1>21 DEF Record
<1>22. ASSUME Pop PROVE PendingIsLatest'
  BY <1>22 DEF Pop, Finished
<1>23. ASSUME NEW p \in Provider, CooldownEnds(p) PROVE PendingIsLatest'
  BY <1>23 DEF CooldownEnds
<1>24. ASSUME NEW k \in Key, NegativeExpires(k) PROVE PendingIsLatest'
  BY <1>24 DEF NegativeExpires
<1>25. ASSUME UNCHANGED vars PROVE PendingIsLatest'
  BY <1>25 DEF vars
<1> QED
  BY <1>1, <1>2, <1>3, <1>4, <1>5, <1>6, <1>7, <1>8, <1>9, <1>10, <1>11, <1>12, <1>13,
     <1>14, <1>15, <1>16, <1>17, <1>18, <1>19, <1>20, <1>21, <1>22, <1>23, <1>24, <1>25
     DEF Next, Fetch, Proceed, Work, Hear

\* While the newest lookup of a key is running, the pending table names it.
THEOREM NewestIsShared == Spec => []PendingIsLatest
<1>1. Init => PendingIsLatest
  BY DEF Init, PendingIsLatest
<1>2. Base /\ PendingIsLatest /\ [Next]_vars => PendingIsLatest'
  BY PendingStep
<1> QED
  BY BaseCorrect, <1>1, <1>2, PTL DEF Spec

-----------------------------------------------------------------------------
(* An open job is never lost.                                               *)

\* NeverLost for one job, with the queue's entries seen through Holds.
InHand(j) ==
    \/ Holds(queue[priority[j]], j)
    \/ w.job = j /\ w.pc \in Running
    \/ w.job = j /\ w.pc = "check" /\ w.prio = priority[j]
    \/ \E c \in Caller : at[c] = "put" /\ mine[c] = j

Accounted(j) == outcome[j] = "open" => InHand(j)


\* Whoever takes an open job's entry out of the queue, or makes it stale, either has the
\* job in hand or is about to queue it again.
LEMMA AccountedStep ==
    ASSUME Base, NEW j \in Job, Accounted(j), [Next]_vars
    PROVE  Accounted(j)'
<1> USE DEF Base, TypeOK, WorkerState, Control, CallersHold, WorkerHolds, Running, callerVars,
            jobVars, tableVars, GoTo, Take, KeyOf, Unoccupied, Done,
            Accounted, InHand
<1>1. ASSUME NEW c \in Caller, FetchShared(c) PROVE Accounted(j)'
  BY <1>1 DEF FetchShared
<1>2. ASSUME NEW c \in Caller, FetchNegative(c) PROVE Accounted(j)'
  BY <1>2 DEF FetchNegative
<1>3. ASSUME NEW c \in Caller, FetchNew(c) PROVE Accounted(j)'
  BY <1>3 DEF FetchNew
<1>4. ASSUME NEW c \in Caller, Attach(c) PROVE Accounted(j)'
  BY <1>4 DEF Attach
<1>5. ASSUME NEW c \in Caller, KeepPriority(c) PROVE Accounted(j)'
  BY <1>5 DEF KeepPriority
<1>6. ASSUME NEW c \in Caller, RaiseShared(c) PROVE Accounted(j)'
  BY <1>6 DEF RaiseShared, Raise
<1>7. ASSUME NEW c \in Caller, Put(c) PROVE Accounted(j)'
  <2> DEFINE m == mine[c]
             q == queue[priority[m]]
  <2>1. m \in Job /\ priority[m] \in Priority /\ q \in Seq(Job)
    BY <1>7 DEF Put
  <2>2. queue'[priority[m]] = Append(q, m)
        /\ \A p \in Priority : p # priority[m] => queue'[p] = queue[p]
    BY <1>7, <2>1 DEF Put
  <2>3. Holds(Append(q, m), m) /\ (Holds(q, j) => Holds(Append(q, m), j))
    <3> HIDE DEF q, m
    <3> QED
      BY <2>1, AppendHolds
  <2>4. \A p \in Priority :
            Holds(queue[p], j) \/ (j = m /\ p = priority[m]) => Holds(queue'[p], j)
    <3>1. Holds(queue[priority[m]], j) \/ j = m => Holds(queue'[priority[m]], j)
      <4> HIDE DEF m, Holds
      <4> QED
        BY <2>2, <2>3
    <3>2. \A p \in Priority : p # priority[m] => queue'[p] = queue[p]
      BY <2>2
    <3> HIDE DEF m
    <3> QED
      BY <3>1, <3>2
  <2>5. priority[j] \in Priority /\ priority'[j] = priority[j]
    BY <1>7 DEF Put
  <2> QED
    BY <1>7, <2>4, <2>5 DEF Put
<1>8. ASSUME NEW c \in Caller, Wait(c) PROVE Accounted(j)'
  BY <1>8 DEF Wait
<1>9. ASSUME NEW c \in Caller, RaiseToWait(c) PROVE Accounted(j)'
  BY <1>9 DEF RaiseToWait, Raise
<1>10. ASSUME Get PROVE Accounted(j)'
  <2> DEFINE u == Urgent
             q == queue[u]
  <2>1. u \in Priority /\ q \in Seq(Job) /\ q # <<>>
    BY <1>10 DEF Get, Urgent
  <2>2. queue'[u] = Tail(q) /\ \A p \in Priority : p # u => queue'[p] = queue[p]
    BY <1>10, <2>1 DEF Get
  <2>3. Holds(q, j) /\ j # Head(q) => Holds(Tail(q), j)
    <3> HIDE DEF q, u
    <3> QED
      BY <2>1, TailHolds
  <2>4. \A p \in Priority :
            Holds(queue[p], j) /\ ~(j = Head(q) /\ p = u) => Holds(queue'[p], j)
    <3> HIDE DEF u
    <3> QED
      BY <2>2, <2>3
  <2>5. priority[j] \in Priority /\ priority'[j] = priority[j]
    BY <1>10 DEF Get
  <2>6. w.pc = "get" /\ w'.pc = "check" /\ w'.prio = u /\ w'.job = Head(q)
    BY <1>10 DEF Get
  <2> HIDE DEF u, q
  <2> QED
    BY <1>10, <2>4, <2>5, <2>6 DEF Get
<1>11. ASSUME Skip PROVE Accounted(j)'
  BY <1>11 DEF Skip, StaleEntry
<1>12. ASSUME Start PROVE Accounted(j)'
  BY <1>12 DEF Start, StaleEntry
<1>13. ASSUME Partition PROVE Accounted(j)'
  BY <1>13 DEF Partition
<1>14. ASSUME NEW v \in {"found", "error"}, AskEnds(v) PROVE Accounted(j)'
  BY <1>14 DEF AskEnds
<1>15. ASSUME NEW a \in Failure, AskFailed(a) PROVE Accounted(j)'
  BY <1>15 DEF AskFailed
<1>16. ASSUME Sleep PROVE Accounted(j)'
  BY <1>16 DEF Sleep
<1>17. ASSUME AwakeFromSleep PROVE Accounted(j)'
  BY <1>17 DEF AwakeFromSleep
<1>18. ASSUME GiveUp PROVE Accounted(j)'
  BY <1>18 DEF GiveUp
<1>19. ASSUME Settle PROVE Accounted(j)'
  BY <1>19 DEF Settle
<1>20. ASSUME NEW c \in Caller, Call(c) PROVE Accounted(j)'
  BY <1>20 DEF Call
<1>21. ASSUME Record PROVE Accounted(j)'
  BY <1>21 DEF Record
<1>22. ASSUME Pop PROVE Accounted(j)'
  BY <1>22 DEF Pop, Finished
<1>23. ASSUME NEW p \in Provider, CooldownEnds(p) PROVE Accounted(j)'
  BY <1>23 DEF CooldownEnds
<1>24. ASSUME NEW k \in Key, NegativeExpires(k) PROVE Accounted(j)'
  BY <1>24 DEF NegativeExpires
<1>25. ASSUME UNCHANGED vars PROVE Accounted(j)'
  BY <1>25 DEF vars
<1> QED
  BY <1>1, <1>2, <1>3, <1>4, <1>5, <1>6, <1>7, <1>8, <1>9, <1>10, <1>11, <1>12, <1>13,
     <1>14, <1>15, <1>16, <1>17, <1>18, <1>19, <1>20, <1>21, <1>22, <1>23, <1>24, <1>25
     DEF Next, Fetch, Proceed, Work, Hear

\* The same for all jobs.
LEMMA LostForm == NeverLost <=> \A j \in Job : Accounted(j)
  BY DEF NeverLost, Accounted, InHand, Holds, Running

\* An open job is queued at its priority, in the worker's hands or about to be queued:
\* raising its priority while the worker looks at it loses nothing.
THEOREM JobsNeverLost == Spec => []NeverLost
<1>1. Init => NeverLost
  BY DEF Init, NeverLost
<1>2. Base /\ NeverLost /\ [Next]_vars => NeverLost'
  <2> SUFFICES ASSUME Base, NeverLost, [Next]_vars PROVE NeverLost'
    OBVIOUS
  <2>1. \A j \in Job : Accounted(j)
    BY LostForm
  <2>2. \A j \in Job : Accounted(j)'
    BY <2>1, AccountedStep
  <2>3. (\A j \in Job : Accounted(j))' => NeverLost'
    BY LostForm, PTL
  <2> QED
    BY <2>2, <2>3
<1> QED
  BY BaseCorrect, <1>1, <1>2, PTL DEF Spec

-----------------------------------------------------------------------------
(* Callbacks.                                                               *)

Uncalled(c) == told[c] = 0 /\ at[c] \notin {"idle", "attach"}

\* A callback waits in the job its caller holds while the job is open, then in the
\* worker's hands, and has not run before.
CallsHold ==
    /\ \A j \in Job : \A c \in callbacks[j] : mine[c] = j /\ ~Done(j) /\ Uncalled(c)
    /\ \A c \in w.toCall : w.pc = "call" /\ mine[c] = w.job /\ Uncalled(c)
    /\ \A c \in Caller : at[c] \in {"idle", "attach"} => told[c] = 0

\* A callback is registered only while the job is open and handed over once, when the job
\* succeeds.
LEMMA CallsStep == Base /\ CallsHold /\ CalledOnce /\ [Next]_vars => CallsHold'
<1> SUFFICES ASSUME Base, CallsHold, CalledOnce, [Next]_vars PROVE CallsHold'
  OBVIOUS
<1> USE DEF Base, TypeOK, WorkerState, Control, CallersHold, WorkerHolds, Running, callerVars,
            jobVars, tableVars, GoTo, Take, KeyOf, Unoccupied, Done,
            CallsHold, CalledOnce, Uncalled
<1>1. ASSUME NEW c \in Caller, FetchShared(c) PROVE CallsHold'
  BY <1>1 DEF FetchShared
<1>2. ASSUME NEW c \in Caller, FetchNegative(c) PROVE CallsHold'
  BY <1>2 DEF FetchNegative
<1>3. ASSUME NEW c \in Caller, FetchNew(c) PROVE CallsHold'
  BY <1>3 DEF FetchNew
<1>4. ASSUME NEW c \in Caller, Attach(c) PROVE CallsHold'
  BY <1>4 DEF Attach
<1>5. ASSUME NEW c \in Caller, KeepPriority(c) PROVE CallsHold'
  BY <1>5 DEF KeepPriority
<1>6. ASSUME NEW c \in Caller, RaiseShared(c) PROVE CallsHold'
  BY <1>6 DEF RaiseShared, Raise
<1>7. ASSUME NEW c \in Caller, Put(c) PROVE CallsHold'
  BY <1>7 DEF Put
<1>8. ASSUME NEW c \in Caller, Wait(c) PROVE CallsHold'
  BY <1>8 DEF Wait
<1>9. ASSUME NEW c \in Caller, RaiseToWait(c) PROVE CallsHold'
  BY <1>9 DEF RaiseToWait, Raise
<1>10. ASSUME Get PROVE CallsHold'
  BY <1>10 DEF Get
<1>11. ASSUME Skip PROVE CallsHold'
  BY <1>11 DEF Skip
<1>12. ASSUME Start PROVE CallsHold'
  BY <1>12 DEF Start
<1>13. ASSUME Partition PROVE CallsHold'
  BY <1>13 DEF Partition
<1>14. ASSUME NEW v \in {"found", "error"}, AskEnds(v) PROVE CallsHold'
  BY <1>14 DEF AskEnds
<1>15. ASSUME NEW a \in Failure, AskFailed(a) PROVE CallsHold'
  BY <1>15 DEF AskFailed
<1>16. ASSUME Sleep PROVE CallsHold'
  BY <1>16 DEF Sleep
<1>17. ASSUME AwakeFromSleep PROVE CallsHold'
  BY <1>17 DEF AwakeFromSleep
<1>18. ASSUME GiveUp PROVE CallsHold'
  BY <1>18 DEF GiveUp
<1>19. ASSUME Settle PROVE CallsHold'
  BY <1>19 DEF Settle
<1>20. ASSUME NEW c \in Caller, Call(c) PROVE CallsHold'
  BY <1>20 DEF Call
<1>21. ASSUME Record PROVE CallsHold'
  BY <1>21 DEF Record
<1>22. ASSUME Pop PROVE CallsHold'
  BY <1>22 DEF Pop, Finished
<1>23. ASSUME NEW p \in Provider, CooldownEnds(p) PROVE CallsHold'
  BY <1>23 DEF CooldownEnds
<1>24. ASSUME NEW k \in Key, NegativeExpires(k) PROVE CallsHold'
  BY <1>24 DEF NegativeExpires
<1>25. ASSUME UNCHANGED vars PROVE CallsHold'
  BY <1>25 DEF vars
<1> QED
  BY <1>1, <1>2, <1>3, <1>4, <1>5, <1>6, <1>7, <1>8, <1>9, <1>10, <1>11, <1>12, <1>13,
     <1>14, <1>15, <1>16, <1>17, <1>18, <1>19, <1>20, <1>21, <1>22, <1>23, <1>24, <1>25
     DEF Next, Fetch, Proceed, Work, Hear

\* It runs only when it is handed over, or at once by its own caller.
LEMMA OnceStep == Base /\ CallsHold /\ CalledOnce /\ [Next]_vars => CalledOnce'
<1> SUFFICES ASSUME Base, CallsHold, CalledOnce, [Next]_vars PROVE CalledOnce'
  OBVIOUS
<1> USE DEF Base, TypeOK, WorkerState, Control, CallersHold, WorkerHolds, Running, callerVars,
            jobVars, tableVars, GoTo, Take, KeyOf, Unoccupied, Done,
            CallsHold, CalledOnce, Uncalled
<1>1. ASSUME NEW c \in Caller, FetchShared(c) PROVE CalledOnce'
  BY <1>1 DEF FetchShared
<1>2. ASSUME NEW c \in Caller, FetchNegative(c) PROVE CalledOnce'
  BY <1>2 DEF FetchNegative
<1>3. ASSUME NEW c \in Caller, FetchNew(c) PROVE CalledOnce'
  BY <1>3 DEF FetchNew
<1>4. ASSUME NEW c \in Caller, Attach(c) PROVE CalledOnce'
  BY <1>4 DEF Attach
<1>5. ASSUME NEW c \in Caller, KeepPriority(c) PROVE CalledOnce'
  BY <1>5 DEF KeepPriority
<1>6. ASSUME NEW c \in Caller, RaiseShared(c) PROVE CalledOnce'
  BY <1>6 DEF RaiseShared, Raise
<1>7. ASSUME NEW c \in Caller, Put(c) PROVE CalledOnce'
  BY <1>7 DEF Put
<1>8. ASSUME NEW c \in Caller, Wait(c) PROVE CalledOnce'
  BY <1>8 DEF Wait
<1>9. ASSUME NEW c \in Caller, RaiseToWait(c) PROVE CalledOnce'
  BY <1>9 DEF RaiseToWait, Raise
<1>10. ASSUME Get PROVE CalledOnce'
  BY <1>10 DEF Get
<1>11. ASSUME Skip PROVE CalledOnce'
  BY <1>11 DEF Skip
<1>12. ASSUME Start PROVE CalledOnce'
  BY <1>12 DEF Start
<1>13. ASSUME Partition PROVE CalledOnce'
  BY <1>13 DEF Partition
<1>14. ASSUME NEW v \in {"found", "error"}, AskEnds(v) PROVE CalledOnce'
  BY <1>14 DEF AskEnds
<1>15. ASSUME NEW a \in Failure, AskFailed(a) PROVE CalledOnce'
  BY <1>15 DEF AskFailed
<1>16. ASSUME Sleep PROVE CalledOnce'
  BY <1>16 DEF Sleep
<1>17. ASSUME AwakeFromSleep PROVE CalledOnce'
  BY <1>17 DEF AwakeFromSleep
<1>18. ASSUME GiveUp PROVE CalledOnce'
  BY <1>18 DEF GiveUp
<1>19. ASSUME Settle PROVE CalledOnce'
  BY <1>19 DEF Settle
<1>20. ASSUME NEW c \in Caller, Call(c) PROVE CalledOnce'
  BY <1>20 DEF Call
<1>21. ASSUME Record PROVE CalledOnce'
  BY <1>21 DEF Record
<1>22. ASSUME Pop PROVE CalledOnce'
  BY <1>22 DEF Pop, Finished
<1>23. ASSUME NEW p \in Provider, CooldownEnds(p) PROVE CalledOnce'
  BY <1>23 DEF CooldownEnds
<1>24. ASSUME NEW k \in Key, NegativeExpires(k) PROVE CalledOnce'
  BY <1>24 DEF NegativeExpires
<1>25. ASSUME UNCHANGED vars PROVE CalledOnce'
  BY <1>25 DEF vars
<1> QED
  BY <1>1, <1>2, <1>3, <1>4, <1>5, <1>6, <1>7, <1>8, <1>9, <1>10, <1>11, <1>12, <1>13,
     <1>14, <1>15, <1>16, <1>17, <1>18, <1>19, <1>20, <1>21, <1>22, <1>23, <1>24, <1>25
     DEF Next, Fetch, Proceed, Work, Hear

\* An on_success callback runs at most once and only after a success, also when it is
\* attached while the worker is finishing the job.
THEOREM CallbackRunsOnce == Spec => []CalledOnce
<1> DEFINE Inv == CallsHold /\ CalledOnce
<1>1. Init => Inv
  BY DEF Init, CallsHold, CalledOnce, Uncalled, Unoccupied
<1>2. Base /\ Inv /\ [Next]_vars => Inv'
  BY CallsStep, OnceStep
<1>3. Inv => CalledOnce
  OBVIOUS
<1> QED
  BY BaseCorrect, <1>1, <1>2, <1>3, PTL DEF Spec

-----------------------------------------------------------------------------
(* What is remembered as not found.                                         *)

\* The explorers that still have to answer are those that have not yet.
AskedAll ==
    /\ w.pc \in {"off", "get", "check"} => w.said = <<>> /\ w.ready = {} /\ w.left = {}
    /\ w.pc = "partition" => w.ready = {}
    /\ w.pc = "sleep" => w.ready = {}
    /\ w.pc \in {"partition", "ask", "sleep"} =>
           /\ w.ready \intersect w.left = {}
           /\ Cardinality(w.ready \union w.left) + Len(w.said) = NumProviders
    /\ w.pc \in {"settle", "record", "pop"} /\ w.verdict = "notfound" =>
           Len(w.said) = NumProviders /\ \A i \in 1 .. Len(w.said) : w.said[i] = "notfound"
    /\ w.pc = "call" => w.verdict = "found"

LEMMA AskedStep == Base /\ AskedAll /\ [Next]_vars => AskedAll'
<1> SUFFICES ASSUME Base, AskedAll, [Next]_vars PROVE AskedAll'
  OBVIOUS
<1>0. /\ w \in WorkerState /\ w.said \in Seq(Failure) /\ Len(w.said) \in Nat
      /\ w.ready \subseteq Provider /\ w.left \subseteq Provider
      /\ IsFiniteSet(Provider) /\ Cardinality(Provider) = NumProviders
  <2>1. w \in WorkerState
    BY DEF Base, TypeOK
  <2>2. Cardinality(Provider) = NumProviders /\ IsFiniteSet(Provider)
    BY FS_Interval
  <2> QED
    BY <2>1, <2>2 DEF WorkerState
<1>1. CASE UNCHANGED w
  BY <1>1 DEF AskedAll
<1>2. CASE w' \in {Unoccupied("off"), Unoccupied("get")}
  BY <1>2 DEF AskedAll, Unoccupied
<1>3. ASSUME Get PROVE AskedAll'
  BY <1>0, <1>3 DEF AskedAll, Get, WorkerState
<1>4. ASSUME Start PROVE AskedAll'
  <2>1. /\ w.said = <<>> /\ w.ready = {} /\ w' = [w EXCEPT !.pc = "partition", !.left = Provider]
    BY <1>4 DEF AskedAll, Start
  <2>2. /\ w'.pc = "partition" /\ w'.said = <<>> /\ w'.ready = {} /\ w'.left = Provider
    BY <1>0, <2>1 DEF WorkerState
  <2>3. Cardinality(w'.ready \union w'.left) + Len(w'.said) = NumProviders
    BY <1>0, <2>2
  <2> HIDE DEF Provider
  <2> QED
    BY <2>2, <2>3 DEF AskedAll
<1>5. ASSUME Partition PROVE AskedAll'
  <2>1. /\ w.ready = {} /\ Cardinality(w.ready \union w.left) + Len(w.said) = NumProviders
    BY <1>5 DEF AskedAll, Partition
  <2>2. /\ w'.pc = "ask" /\ w'.said = w.said
        /\ w'.ready = w.left \ limited /\ w'.left = w.left \intersect limited
    BY <1>0, <1>5 DEF Partition, WorkerState
  <2>3. /\ w'.ready \union w'.left = w.ready \union w.left
        /\ w'.ready \intersect w'.left = {}
    BY <2>1, <2>2
  <2> QED
    BY <2>1, <2>2, <2>3 DEF AskedAll
<1>6. ASSUME NEW v \in {"found", "error"}, AskEnds(v) PROVE AskedAll'
  BY <1>0, <1>6 DEF AskedAll, AskEnds, WorkerState
<1>7. ASSUME NEW a \in Failure, AskFailed(a) PROVE AskedAll'
  <2>1. PICK p \in w.ready : w' = [w EXCEPT !.ready = @ \ {p}, !.said = Append(@, a)]
    BY <1>7 DEF AskFailed
  <2>2. /\ w.pc = "ask" /\ w'.pc = "ask" /\ w'.left = w.left /\ w'.ready = w.ready \ {p}
        /\ w'.said = Append(w.said, a)
    BY <1>0, <1>7, <2>1 DEF AskFailed, WorkerState
  <2> DEFINE S == w.ready \union w.left
  <2>3. w.ready \intersect w.left = {} /\ Cardinality(S) + Len(w.said) = NumProviders
    BY <2>2 DEF AskedAll
  <2>4. w'.ready \union w'.left = S \ {p} /\ p \in S /\ w'.ready \intersect w'.left = {}
    BY <2>1, <2>2, <2>3
  <2>5. IsFiniteSet(S)
    BY <1>0, FS_Subset
  <2>6. Cardinality(S \ {p}) = Cardinality(S) - 1 /\ Cardinality(S) \in Nat
    BY <2>4, <2>5, FS_RemoveElement, FS_CardinalityType
  <2>7. Len(w'.said) = Len(w.said) + 1
    BY <1>0, <2>2
  <2> HIDE DEF S
  <2>8. Cardinality(w'.ready \union w'.left) + Len(w'.said) = NumProviders
    <3>1. Cardinality(w'.ready \union w'.left) = Cardinality(S \ {p})
      BY <2>4
    <3>2. \A m, n \in Nat : m + n = NumProviders => (m - 1) + (n + 1) = NumProviders
      OBVIOUS
    <3> QED
      BY <1>0, <2>3, <2>6, <2>7, <3>1, <3>2
  <2> QED
    BY <2>2, <2>4, <2>8 DEF AskedAll
<1>8. ASSUME Sleep PROVE AskedAll'
  BY <1>0, <1>8 DEF AskedAll, Sleep, WorkerState
<1>9. ASSUME AwakeFromSleep PROVE AskedAll'
  BY <1>0, <1>9 DEF AskedAll, AwakeFromSleep, WorkerState
<1>10. ASSUME GiveUp PROVE AskedAll'
  <2>1. PICK v \in Failure :
            IsVerdict(v, w.said) /\ w' = [w EXCEPT !.pc = "settle", !.verdict = v]
    BY <1>10 DEF GiveUp
  <2>2. w'.pc = "settle" /\ w'.verdict = v /\ w'.said = w.said
    BY <1>0, <2>1 DEF WorkerState
  <2>3. Len(w.said) = NumProviders
    <3>1. Cardinality({}) + Len(w.said) = NumProviders
      BY <1>10 DEF GiveUp, AskedAll
    <3> QED
      BY <1>0, <3>1, FS_EmptySet
  <2>4. v = "notfound" => \A i \in 1 .. Len(w.said) : w.said[i] = "notfound"
    BY <2>1 DEF IsVerdict
  <2> QED
    BY <2>2, <2>3, <2>4 DEF AskedAll
<1>11. ASSUME Settle PROVE AskedAll'
  BY <1>0, <1>11 DEF AskedAll, Settle, WorkerState
<1>12. ASSUME NEW c \in Caller, Call(c) PROVE AskedAll'
  BY <1>0, <1>12 DEF AskedAll, Call, WorkerState
<1>13. ASSUME Record PROVE AskedAll'
  BY <1>0, <1>13 DEF AskedAll, Record, WorkerState
<1>14. ASSUME NEW c \in Caller, Fetch(c) \/ Proceed(c) \/ RaiseToWait(c)
       PROVE  w' \in {w, Unoccupied("get")}
  BY <1>14 DEF Fetch, Proceed, FetchShared, FetchNegative, FetchNew, Attach, KeepPriority,
               RaiseShared, RaiseToWait, Raise, Put, Wait
<1>15. ASSUME Skip \/ Pop PROVE w' = Unoccupied("get")
  BY <1>15 DEF Skip, Pop
<1>16. ASSUME \/ \E p \in Provider : CooldownEnds(p)
              \/ \E k \in Key : NegativeExpires(k)
              \/ UNCHANGED vars
       PROVE  UNCHANGED w
  BY <1>16 DEF CooldownEnds, NegativeExpires, vars
<1> QED
  BY <1>1, <1>2, <1>3, <1>4, <1>5, <1>6, <1>7, <1>8, <1>9, <1>10, <1>11, <1>12, <1>13, <1>14,
     <1>15, <1>16 DEF Next, Work, Hear

\* The pending table never names an older lookup than the newest of its key.
PendingIsNewest == \A k \in Key : pending[k] # None => pending[k] = latest[k]

LEMMA NewestStep == Base /\ PendingIsNewest /\ [Next]_vars => PendingIsNewest'
<1> SUFFICES ASSUME Base, PendingIsNewest, [Next]_vars PROVE PendingIsNewest'
  OBVIOUS
<1>0. pending \in [Key -> Job \union {None}] /\ latest \in [Key -> Job \union {None}]
  BY DEF Base, TypeOK
<1>1. CASE UNCHANGED <<pending, latest>>
  BY <1>1 DEF PendingIsNewest
<1>2. ASSUME NEW c \in Caller, FetchNew(c) PROVE PendingIsNewest'
  BY <1>0, <1>2 DEF PendingIsNewest, FetchNew
<1>3. ASSUME Pop PROVE PendingIsNewest'
  BY <1>0, <1>3 DEF PendingIsNewest, Pop, KeyOf
<1>4. ASSUME NEW c \in Caller, Fetch(c) \/ Proceed(c) \/ RaiseToWait(c), ~FetchNew(c)
      PROVE  UNCHANGED <<pending, latest>>
  BY <1>4 DEF Fetch, Proceed, FetchShared, FetchNegative, Attach, KeepPriority, RaiseShared,
              RaiseToWait, Raise, Put, Wait, tableVars
<1>5. ASSUME Work, ~Pop PROVE UNCHANGED <<pending, latest>>
  BY <1>5 DEF Work, Hear, Get, Skip, Start, Partition, AskEnds, AskFailed, Sleep,
              AwakeFromSleep, GiveUp, Settle, Call, Record, tableVars
<1>6. ASSUME \/ \E p \in Provider : CooldownEnds(p)
             \/ \E k \in Key : NegativeExpires(k)
             \/ UNCHANGED vars
      PROVE  UNCHANGED <<pending, latest>>
  BY <1>6 DEF CooldownEnds, NegativeExpires, vars, tableVars
<1> QED
  BY <1>1, <1>2, <1>3, <1>4, <1>5, <1>6 DEF Next

\* Only Record adds to the negative cache.
LEMMA OnlyRecordRemembers ==
    ASSUME [Next]_vars, ~(negative' \subseteq negative)
    PROVE  Record
<1>1. ASSUME NEW c \in Caller, Fetch(c) \/ Proceed(c) \/ RaiseToWait(c)
      PROVE  negative' = negative
  BY <1>1 DEF Fetch, Proceed, FetchShared, FetchNegative, FetchNew, Attach, KeepPriority,
              RaiseShared, RaiseToWait, Raise, Put, Wait, tableVars
<1>2. ASSUME Work, ~Record PROVE negative' = negative
  BY <1>2 DEF Work, Hear, Get, Skip, Start, Partition, AskEnds, AskFailed, Sleep,
              AwakeFromSleep, GiveUp, Settle, Call, Pop, tableVars
<1>3. ASSUME \/ \E p \in Provider : CooldownEnds(p)
             \/ \E k \in Key : NegativeExpires(k)
             \/ UNCHANGED vars
      PROVE  negative' \subseteq negative
  BY <1>3 DEF CooldownEnds, NegativeExpires, vars, tableVars
<1> QED
  BY <1>1, <1>2, <1>3 DEF Next

\* "Not found" is remembered on the word of every explorer only, by the newest lookup of
\* the key that nobody forced, for any callers and explorers.
THEOREM NegativesAreEarned == Spec => NegativeIsEarned
<1> DEFINE Inv == AskedAll /\ PendingIsNewest
           Earned == \A k \in negative' \ negative :
                         /\ latest[k] = w.job /\ ~Asks[w.job].forced
                         /\ w.said = [i \in 1 .. NumProviders |-> "notfound"]
<1>1. Init => Inv
  BY DEF Init, AskedAll, PendingIsNewest, Unoccupied
<1>2. Base /\ Inv /\ [Next]_vars => Inv'
  BY AskedStep, NewestStep
<1>3. Base /\ Inv /\ [Next]_vars => [Earned]_vars
  <2> SUFFICES ASSUME Base, Inv, Next, NEW k \in negative' \ negative
               PROVE  /\ latest[k] = w.job /\ ~Asks[w.job].forced
                      /\ w.said = [i \in 1 .. NumProviders |-> "notfound"]
    BY DEF vars, tableVars
  <2>1. Record
    BY OnlyRecordRemembers
  <2>2. /\ k = KeyOf(w.job) /\ pending[k] = w.job /\ ~Asks[w.job].forced
        /\ w.verdict = "notfound" /\ w.pc = "record"
    BY <2>1 DEF Record
  <2>3. w.job \in Job /\ k \in Key /\ w.said \in Seq(Failure)
    BY <2>1, <2>2 DEF Record, Base, Control, WorkerHolds, TypeOK, WorkerState, KeyOf
  <2>4. latest[k] = w.job
    BY <2>2, <2>3 DEF PendingIsNewest
  <2>5. /\ Len(w.said) = NumProviders
        /\ \A i \in 1 .. Len(w.said) : w.said[i] = "notfound"
    BY <2>2 DEF AskedAll
  <2>6. w.said = [i \in 1 .. NumProviders |-> "notfound"]
    BY <2>3, <2>5
  <2> QED
    BY <2>2, <2>4, <2>6
<1> HIDE DEF Inv, Earned
<1>4. Spec => [][Earned]_vars
  BY BaseCorrect, <1>1, <1>2, <1>3, PTL DEF Spec
<1> QED
  BY <1>4 DEF NegativeIsEarned, Earned
=============================================================================
