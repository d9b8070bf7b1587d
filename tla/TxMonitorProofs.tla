--------------------------- MODULE TxMonitorProofs ---------------------------
(* Machine-checked proofs about TxMonitor, for every finite set of           *)
(* transactions, every assignment of slots and every batch size, and about   *)
(* TxReaders, for any callers of any transactions.                           *)
EXTENDS TxReaders, TLAPS, FiniteSetTheorems

-----------------------------------------------------------------------------
(* Control.  Where the monitor thread stands determines which of the locals  *)
(* of _poll_once and _poll_batch are live; without it not even the types are *)
(* inductive.                                                                *)

Resting == {"idle", "poll", "sleep", "clear"}
Asking  == {"askTx", "askReceipt", "askNonce"}

Control ==
    /\ pc \in Resting => snapshot = {}
    /\ pc \in Resting \union {"batch"} => batch = {}
    /\ pc \in Resting \union Asking \union {"batch", "apply"} => cur = NoTx
    /\ pc \in Asking => todo = batch
    /\ pc \in {"putReceipt", "putStatus", "finalize", "revert", "initialize"} =>
           cur \in todo
    /\ pc \in {"putReceipt", "putStatus"} => gotReceipt[cur] \in Mined

USE TxAssumption, SlotAssumption, KindAssumption
    DEF Mined, TxStatus, Stages, MayBeUnseen, Resting, Asking

-----------------------------------------------------------------------------
(* Type correctness.                                                         *)

\* The initial state has its types and rests.
LEMMA TypeInit == Init => TypeOK /\ Control
<1> SUFFICES ASSUME Init PROVE TypeOK /\ Control
  OBVIOUS
<1> USE DEF Init, NoAnswers
<1>1. TypeOK
  BY DEF TypeOK
<1>2. Control
  BY DEF Control
<1> QED
  BY <1>1, <1>2

\* Every step of the chain, of a caller, of the monitor and of a resolver thread
\* preserves the type invariant.
LEMMA TypeStep == TypeOK /\ Control /\ [Next]_vars => TypeOK'
<1> SUFFICES ASSUME TypeOK, Control, [Next]_vars PROVE TypeOK'
  OBVIOUS
<1> USE DEF TypeOK, Control,
            chainVars, recordVars, revertVars, objectVars, watchVars, threadVars,
            sweepVars, batchVars, answerVars
<1>1. ASSUME NEW t \in Tx, Broadcast(t) PROVE TypeOK'
  BY <1>1 DEF Broadcast
<1>2. ASSUME NEW t \in Tx, Evict(t) PROVE TypeOK'
  BY <1>2 DEF Evict
<1>3. ASSUME NEW t \in Tx, Transact(t) PROVE TypeOK'
  BY <1>3 DEF Transact
<1>4. ASSUME NEW t \in Tx, Construct(t) PROVE TypeOK'
  BY <1>4 DEF Construct
<1>5. ASSUME NEW t \in Tx, Signal(t) PROVE TypeOK'
  BY <1>5 DEF Signal
<1>6. ASSUME NEW t \in Tx, Release(t) PROVE TypeOK'
  BY <1>6 DEF Release
<1>7. ASSUME NEW t \in Tx, ResolveRevert(t) PROVE TypeOK'
  BY <1>7 DEF ResolveRevert
<1>8. ASSUME NEW t \in Tx, ApplyReceipt(t) PROVE TypeOK'
  BY <1>8 DEF ApplyReceipt, Handle, Raises
<1>9. ASSUME NEW t \in Tx, ApplyPending(t) PROVE TypeOK'
  BY <1>9 DEF ApplyPending, Handle, Raises
<1>10. ASSUME NEW t \in Tx, ApplyReplaced(t) PROVE TypeOK'
  BY <1>10 DEF ApplyReplaced, Handle
<1>11. ASSUME NEW t \in Tx, ApplyDropped(t) PROVE TypeOK'
  BY <1>11 DEF ApplyDropped, Handle
<1>12. ASSUME NEW t \in Tx, ApplyUnseen(t) PROVE TypeOK'
  BY <1>12 DEF ApplyUnseen, Handle
<1>13. ASSUME NEW t \in Tx, CallFails(t) PROVE TypeOK'
  BY <1>13 DEF CallFails, AbortBatch, ForgetBatch
<1>14. ASSUME NEW t \in Tx, NEW outcome \in Mined, Mine(t, outcome)
       PROVE  TypeOK'
  BY <1>14 DEF Mine, SameSlot
<1>15. ASSUME NEW s \in Slot, Supersede(s) PROVE TypeOK'
  BY <1>15 DEF Supersede
<1>16. CASE Snapshot
  BY <1>16 DEF Snapshot
<1>17. CASE StartBatch
  BY <1>17 DEF StartBatch
<1>18. CASE EndPoll
  BY <1>18 DEF EndPoll
<1>19. CASE AskTx
  BY <1>19 DEF AskTx, TxAnswer
<1>20. CASE AskReceipt
  BY <1>20 DEF AskReceipt, ReceiptAnswer
<1>21. CASE AskNonce
  BY <1>21 DEF AskNonce
<1>22. CASE PutReceipt
  BY <1>22 DEF PutReceipt
<1>23. CASE PutStatus
  BY <1>23 DEF PutStatus
<1>24. CASE Finalize
  BY <1>24 DEF Finalize, FinalizeThen
<1>25. CASE StartRevert
  BY <1>25 DEF StartRevert
<1>26. CASE Initialize
  BY <1>26 DEF Initialize
<1>27. CASE Remove
  BY <1>27 DEF Remove, RemoveFromWatched, ForgetBatch
<1>28. CASE Awake
  BY <1>28 DEF Awake
<1>29. CASE Clear
  BY <1>29 DEF Clear
<1>30. CASE BatchFails
  BY <1>30 DEF BatchFails, AbortBatch, ForgetBatch
<1>31. CASE UNCHANGED vars
  BY <1>31 DEF vars
<1> QED
  BY <1>1, <1>2, <1>3, <1>4, <1>5, <1>6, <1>7, <1>8, <1>9, <1>10,
     <1>11, <1>12, <1>13, <1>14, <1>15, <1>16, <1>17, <1>18, <1>19, <1>20,
     <1>21, <1>22, <1>23, <1>24, <1>25, <1>26, <1>27, <1>28, <1>29, <1>30,
     <1>31
     DEF Next, Chain, Callers, Poll, Apply, Faults, Replace

\* Every step leaves the monitor thread's locals consistent with its program counter.
LEMMA ControlStep == TypeOK /\ Control /\ [Next]_vars => Control'
<1> SUFFICES ASSUME TypeOK, Control, [Next]_vars PROVE Control'
  OBVIOUS
<1> USE DEF TypeOK, Control,
            chainVars, recordVars, revertVars, objectVars, watchVars, threadVars,
            sweepVars, batchVars, answerVars
<1>1. ASSUME NEW t \in Tx, Broadcast(t) PROVE Control'
  BY <1>1 DEF Broadcast
<1>2. ASSUME NEW t \in Tx, Evict(t) PROVE Control'
  BY <1>2 DEF Evict
<1>3. ASSUME NEW t \in Tx, Transact(t) PROVE Control'
  BY <1>3 DEF Transact
<1>4. ASSUME NEW t \in Tx, Construct(t) PROVE Control'
  BY <1>4 DEF Construct
<1>5. ASSUME NEW t \in Tx, Signal(t) PROVE Control'
  BY <1>5 DEF Signal
<1>6. ASSUME NEW t \in Tx, Release(t) PROVE Control'
  BY <1>6 DEF Release
<1>7. ASSUME NEW t \in Tx, ResolveRevert(t) PROVE Control'
  BY <1>7 DEF ResolveRevert
<1>8. ASSUME NEW t \in Tx, ApplyReceipt(t) PROVE Control'
  BY <1>8 DEF ApplyReceipt, Handle, Raises
<1>9. ASSUME NEW t \in Tx, ApplyPending(t) PROVE Control'
  BY <1>9 DEF ApplyPending, Handle, Raises
<1>10. ASSUME NEW t \in Tx, ApplyReplaced(t) PROVE Control'
  BY <1>10 DEF ApplyReplaced, Handle
<1>11. ASSUME NEW t \in Tx, ApplyDropped(t) PROVE Control'
  BY <1>11 DEF ApplyDropped, Handle
<1>12. ASSUME NEW t \in Tx, ApplyUnseen(t) PROVE Control'
  BY <1>12 DEF ApplyUnseen, Handle
<1>13. ASSUME NEW t \in Tx, CallFails(t) PROVE Control'
  BY <1>13 DEF CallFails, AbortBatch, ForgetBatch
<1>14. ASSUME NEW t \in Tx, NEW outcome \in Mined, Mine(t, outcome)
       PROVE  Control'
  BY <1>14 DEF Mine, SameSlot
<1>15. ASSUME NEW s \in Slot, Supersede(s) PROVE Control'
  BY <1>15 DEF Supersede
<1>16. CASE Snapshot
  BY <1>16 DEF Snapshot
<1>17. CASE StartBatch
  BY <1>17 DEF StartBatch
<1>18. CASE EndPoll
  BY <1>18 DEF EndPoll
<1>19. CASE AskTx
  BY <1>19 DEF AskTx, TxAnswer
<1>20. CASE AskReceipt
  BY <1>20 DEF AskReceipt, ReceiptAnswer
<1>21. CASE AskNonce
  BY <1>21 DEF AskNonce
<1>22. CASE PutReceipt
  BY <1>22 DEF PutReceipt
<1>23. CASE PutStatus
  BY <1>23 DEF PutStatus
<1>24. CASE Finalize
  BY <1>24 DEF Finalize, FinalizeThen
<1>25. CASE StartRevert
  BY <1>25 DEF StartRevert
<1>26. CASE Initialize
  BY <1>26 DEF Initialize
<1>27. CASE Remove
  BY <1>27 DEF Remove, RemoveFromWatched, ForgetBatch
<1>28. CASE Awake
  BY <1>28 DEF Awake
<1>29. CASE Clear
  BY <1>29 DEF Clear
<1>30. CASE BatchFails
  BY <1>30 DEF BatchFails, AbortBatch, ForgetBatch
<1>31. CASE UNCHANGED vars
  BY <1>31 DEF vars
<1> QED
  BY <1>1, <1>2, <1>3, <1>4, <1>5, <1>6, <1>7, <1>8, <1>9, <1>10,
     <1>11, <1>12, <1>13, <1>14, <1>15, <1>16, <1>17, <1>18, <1>19, <1>20,
     <1>21, <1>22, <1>23, <1>24, <1>25, <1>26, <1>27, <1>28, <1>29, <1>30,
     <1>31
     DEF Next, Chain, Callers, Poll, Apply, Faults, Replace

\* In every reachable state every variable of TxMonitor has its type.
THEOREM TypeCorrect == Spec => []TypeOK
<1>1. TypeOK /\ Control /\ [Next]_vars => (TypeOK /\ Control)'
  BY TypeStep, ControlStep
<1> QED
  BY TypeInit, <1>1, PTL DEF Spec

\* The monitor's locals match the place its thread has reached: the inductive invariant
\* of _poll_once and _poll_batch that the later proofs start from.
THEOREM ControlCorrect == Spec => [](TypeOK /\ Control)
<1>1. TypeOK /\ Control /\ [Next]_vars => (TypeOK /\ Control)'
  BY TypeStep, ControlStep
<1> QED
  BY TypeInit, <1>1, PTL DEF Spec

-----------------------------------------------------------------------------
(* Truth.  The chain only moves forward: an outcome and a consumed nonce are  *)
(* never taken back, so an answer stays true while it waits to be applied.    *)

AnswersHold ==
    /\ \A t \in Tx : place[t] \in Mined => SlotOf[t] \in used
    /\ \A t \in Tx : gotReceipt[t] \in Mined => place[t] = gotReceipt[t]
    /\ \A s \in Slot : gotNonce[s] = "used" => s \in used
    /\ pc = "putStatus" => receipt[cur] = gotReceipt[cur]

\* The initial state claims nothing.
LEMMA TruthInit == Init => AnswersHold /\ Truthful
  BY DEF Init, NoAnswers, AnswersHold, Truthful

\* No step falsifies an answer that waits to be applied.
LEMMA AnswersStep == TypeOK /\ Control /\ AnswersHold /\ [Next]_vars => AnswersHold'
<1> SUFFICES ASSUME TypeOK, Control, AnswersHold, [Next]_vars PROVE AnswersHold'
  OBVIOUS
<1> USE DEF TypeOK, Control, AnswersHold,
            chainVars, recordVars, revertVars, objectVars, watchVars, threadVars,
            sweepVars, batchVars, answerVars
<1>1. ASSUME NEW t \in Tx, Broadcast(t) PROVE AnswersHold'
  BY <1>1 DEF Broadcast
<1>2. ASSUME NEW t \in Tx, Evict(t) PROVE AnswersHold'
  BY <1>2 DEF Evict
<1>3. ASSUME NEW t \in Tx, Transact(t) PROVE AnswersHold'
  BY <1>3 DEF Transact
<1>4. ASSUME NEW t \in Tx, Construct(t) PROVE AnswersHold'
  BY <1>4 DEF Construct
<1>5. ASSUME NEW t \in Tx, Signal(t) PROVE AnswersHold'
  BY <1>5 DEF Signal
<1>6. ASSUME NEW t \in Tx, Release(t) PROVE AnswersHold'
  BY <1>6 DEF Release
<1>7. ASSUME NEW t \in Tx, ResolveRevert(t) PROVE AnswersHold'
  BY <1>7 DEF ResolveRevert
<1>8. ASSUME NEW t \in Tx, ApplyReceipt(t) PROVE AnswersHold'
  BY <1>8 DEF ApplyReceipt, Handle, Raises
<1>9. ASSUME NEW t \in Tx, ApplyPending(t) PROVE AnswersHold'
  BY <1>9 DEF ApplyPending, Handle, Raises
<1>10. ASSUME NEW t \in Tx, ApplyReplaced(t) PROVE AnswersHold'
  BY <1>10 DEF ApplyReplaced, Handle
<1>11. ASSUME NEW t \in Tx, ApplyDropped(t) PROVE AnswersHold'
  BY <1>11 DEF ApplyDropped, Handle
<1>12. ASSUME NEW t \in Tx, ApplyUnseen(t) PROVE AnswersHold'
  BY <1>12 DEF ApplyUnseen, Handle
<1>13. ASSUME NEW t \in Tx, CallFails(t) PROVE AnswersHold'
  BY <1>13 DEF CallFails, AbortBatch, ForgetBatch
<1>14. ASSUME NEW t \in Tx, NEW outcome \in Mined, Mine(t, outcome)
       PROVE  AnswersHold'
  BY <1>14 DEF Mine, SameSlot
<1>15. ASSUME NEW s \in Slot, Supersede(s) PROVE AnswersHold'
  BY <1>15 DEF Supersede
<1>16. CASE Snapshot
  BY <1>16 DEF Snapshot
<1>17. CASE StartBatch
  BY <1>17 DEF StartBatch
<1>18. CASE EndPoll
  BY <1>18 DEF EndPoll
<1>19. CASE AskTx
  BY <1>19 DEF AskTx, TxAnswer
<1>20. CASE AskReceipt
  BY <1>20 DEF AskReceipt, ReceiptAnswer
<1>21. CASE AskNonce
  BY <1>21 DEF AskNonce
<1>22. CASE PutReceipt
  BY <1>22 DEF PutReceipt
<1>23. CASE PutStatus
  BY <1>23 DEF PutStatus
<1>24. CASE Finalize
  BY <1>24 DEF Finalize, FinalizeThen
<1>25. CASE StartRevert
  BY <1>25 DEF StartRevert
<1>26. CASE Initialize
  BY <1>26 DEF Initialize
<1>27. CASE Remove
  BY <1>27 DEF Remove, RemoveFromWatched, ForgetBatch
<1>28. CASE Awake
  BY <1>28 DEF Awake
<1>29. CASE Clear
  BY <1>29 DEF Clear
<1>30. CASE BatchFails
  BY <1>30 DEF BatchFails, AbortBatch, ForgetBatch
<1>31. CASE UNCHANGED vars
  BY <1>31 DEF vars
<1> QED
  BY <1>1, <1>2, <1>3, <1>4, <1>5, <1>6, <1>7, <1>8, <1>9, <1>10,
     <1>11, <1>12, <1>13, <1>14, <1>15, <1>16, <1>17, <1>18, <1>19, <1>20,
     <1>21, <1>22, <1>23, <1>24, <1>25, <1>26, <1>27, <1>28, <1>29, <1>30,
     <1>31
     DEF Next, Chain, Callers, Poll, Apply, Faults, Replace

\* No step makes a status false, and none records a false one.
LEMMA TruthStep ==
    TypeOK /\ Control /\ AnswersHold /\ Truthful /\ [Next]_vars => Truthful'
<1> SUFFICES ASSUME TypeOK, Control, AnswersHold, Truthful, [Next]_vars PROVE Truthful'
  OBVIOUS
<1> USE DEF TypeOK, Control, AnswersHold, Truthful,
            chainVars, recordVars, revertVars, objectVars, watchVars, threadVars,
            sweepVars, batchVars, answerVars
<1>1. ASSUME NEW t \in Tx, Broadcast(t) PROVE Truthful'
  BY <1>1 DEF Broadcast
<1>2. ASSUME NEW t \in Tx, Evict(t) PROVE Truthful'
  BY <1>2 DEF Evict
<1>3. ASSUME NEW t \in Tx, Transact(t) PROVE Truthful'
  BY <1>3 DEF Transact
<1>4. ASSUME NEW t \in Tx, Construct(t) PROVE Truthful'
  BY <1>4 DEF Construct
<1>5. ASSUME NEW t \in Tx, Signal(t) PROVE Truthful'
  BY <1>5 DEF Signal
<1>6. ASSUME NEW t \in Tx, Release(t) PROVE Truthful'
  BY <1>6 DEF Release
<1>7. ASSUME NEW t \in Tx, ResolveRevert(t) PROVE Truthful'
  BY <1>7 DEF ResolveRevert
<1>8. ASSUME NEW t \in Tx, ApplyReceipt(t) PROVE Truthful'
  BY <1>8 DEF ApplyReceipt, Handle, Raises
<1>9. ASSUME NEW t \in Tx, ApplyPending(t) PROVE Truthful'
  BY <1>9 DEF ApplyPending, Handle, Raises
<1>10. ASSUME NEW t \in Tx, ApplyReplaced(t) PROVE Truthful'
  BY <1>10 DEF ApplyReplaced, Handle, Neither, NonceAdvanced
<1>11. ASSUME NEW t \in Tx, ApplyDropped(t) PROVE Truthful'
  BY <1>11 DEF ApplyDropped, Handle, Neither, NonceAdvanced
<1>12. ASSUME NEW t \in Tx, ApplyUnseen(t) PROVE Truthful'
  BY <1>12 DEF ApplyUnseen, Handle, Neither, NonceAdvanced
<1>13. ASSUME NEW t \in Tx, CallFails(t) PROVE Truthful'
  BY <1>13 DEF CallFails, AbortBatch, ForgetBatch
<1>14. ASSUME NEW t \in Tx, NEW outcome \in Mined, Mine(t, outcome)
       PROVE  Truthful'
  BY <1>14 DEF Mine, SameSlot
<1>15. ASSUME NEW s \in Slot, Supersede(s) PROVE Truthful'
  BY <1>15 DEF Supersede
<1>16. CASE Snapshot
  BY <1>16 DEF Snapshot
<1>17. CASE StartBatch
  BY <1>17 DEF StartBatch
<1>18. CASE EndPoll
  BY <1>18 DEF EndPoll
<1>19. CASE AskTx
  BY <1>19 DEF AskTx, TxAnswer
<1>20. CASE AskReceipt
  BY <1>20 DEF AskReceipt, ReceiptAnswer
<1>21. CASE AskNonce
  BY <1>21 DEF AskNonce
<1>22. CASE PutReceipt
  BY <1>22 DEF PutReceipt
<1>23. CASE PutStatus
  BY <1>23 DEF PutStatus
<1>24. CASE Finalize
  BY <1>24 DEF Finalize, FinalizeThen
<1>25. CASE StartRevert
  BY <1>25 DEF StartRevert
<1>26. CASE Initialize
  BY <1>26 DEF Initialize
<1>27. CASE Remove
  BY <1>27 DEF Remove, RemoveFromWatched, ForgetBatch
<1>28. CASE Awake
  BY <1>28 DEF Awake
<1>29. CASE Clear
  BY <1>29 DEF Clear
<1>30. CASE BatchFails
  BY <1>30 DEF BatchFails, AbortBatch, ForgetBatch
<1>31. CASE UNCHANGED vars
  BY <1>31 DEF vars
<1> QED
  BY <1>1, <1>2, <1>3, <1>4, <1>5, <1>6, <1>7, <1>8, <1>9, <1>10,
     <1>11, <1>12, <1>13, <1>14, <1>15, <1>16, <1>17, <1>18, <1>19, <1>20,
     <1>21, <1>22, <1>23, <1>24, <1>25, <1>26, <1>27, <1>28, <1>29, <1>30,
     <1>31
     DEF Next, Chain, Callers, Poll, Apply, Faults, Replace

\* Whatever fails and however stale an answer is when it is applied, a final status
\* an object shows is true of the chain.
THEOREM StatusIsTruthful == Spec => []Truthful
<1> DEFINE IInv == TypeOK /\ Control /\ AnswersHold /\ Truthful
<1>1. Init => IInv
  BY TypeInit, TruthInit
<1>2. IInv /\ [Next]_vars => IInv'
  BY TypeStep, ControlStep, AnswersStep, TruthStep
<1>3. IInv => Truthful
  OBVIOUS
<1> QED
  BY <1>1, <1>2, <1>3, PTL DEF Spec

-----------------------------------------------------------------------------
(* No transaction is forgotten.                                              *)

\* A step keeps every held, open object in _watched: only finalized members leave,
\* and a live member cannot fall out of the WeakSet.
LEMMA WatchedStep == TypeOK /\ NeverAbandoned /\ [Next]_vars => NeverAbandoned'
<1> SUFFICES ASSUME TypeOK, NeverAbandoned, [Next]_vars PROVE NeverAbandoned'
  OBVIOUS
<1> USE DEF TypeOK, NeverAbandoned,
            chainVars, recordVars, revertVars, objectVars, watchVars, threadVars,
            sweepVars, batchVars, answerVars
<1>1. ASSUME NEW t \in Tx, Broadcast(t) PROVE NeverAbandoned'
  BY <1>1 DEF Broadcast
<1>2. ASSUME NEW t \in Tx, Evict(t) PROVE NeverAbandoned'
  BY <1>2 DEF Evict
<1>3. ASSUME NEW t \in Tx, Transact(t) PROVE NeverAbandoned'
  BY <1>3 DEF Transact
<1>4. ASSUME NEW t \in Tx, Construct(t) PROVE NeverAbandoned'
  BY <1>4 DEF Construct
<1>5. ASSUME NEW t \in Tx, Signal(t) PROVE NeverAbandoned'
  BY <1>5 DEF Signal
<1>6. ASSUME NEW t \in Tx, Release(t) PROVE NeverAbandoned'
  BY <1>6 DEF Release
<1>7. ASSUME NEW t \in Tx, ResolveRevert(t) PROVE NeverAbandoned'
  BY <1>7 DEF ResolveRevert
<1>8. ASSUME NEW t \in Tx, ApplyReceipt(t) PROVE NeverAbandoned'
  BY <1>8 DEF ApplyReceipt, Handle, Raises
<1>9. ASSUME NEW t \in Tx, ApplyPending(t) PROVE NeverAbandoned'
  BY <1>9 DEF ApplyPending, Handle, Raises
<1>10. ASSUME NEW t \in Tx, ApplyReplaced(t) PROVE NeverAbandoned'
  BY <1>10 DEF ApplyReplaced, Handle
<1>11. ASSUME NEW t \in Tx, ApplyDropped(t) PROVE NeverAbandoned'
  BY <1>11 DEF ApplyDropped, Handle
<1>12. ASSUME NEW t \in Tx, ApplyUnseen(t) PROVE NeverAbandoned'
  BY <1>12 DEF ApplyUnseen, Handle
<1>13. ASSUME NEW t \in Tx, CallFails(t) PROVE NeverAbandoned'
  BY <1>13 DEF CallFails, AbortBatch, ForgetBatch
<1>14. ASSUME NEW t \in Tx, NEW outcome \in Mined, Mine(t, outcome)
       PROVE  NeverAbandoned'
  BY <1>14 DEF Mine, SameSlot
<1>15. ASSUME NEW s \in Slot, Supersede(s) PROVE NeverAbandoned'
  BY <1>15 DEF Supersede
<1>16. CASE Snapshot
  BY <1>16 DEF Snapshot, Alive
<1>17. CASE StartBatch
  BY <1>17 DEF StartBatch
<1>18. CASE EndPoll
  BY <1>18 DEF EndPoll
<1>19. CASE AskTx
  BY <1>19 DEF AskTx, TxAnswer
<1>20. CASE AskReceipt
  BY <1>20 DEF AskReceipt, ReceiptAnswer
<1>21. CASE AskNonce
  BY <1>21 DEF AskNonce
<1>22. CASE PutReceipt
  BY <1>22 DEF PutReceipt
<1>23. CASE PutStatus
  BY <1>23 DEF PutStatus
<1>24. CASE Finalize
  BY <1>24 DEF Finalize, FinalizeThen
<1>25. CASE StartRevert
  BY <1>25 DEF StartRevert
<1>26. CASE Initialize
  BY <1>26 DEF Initialize
<1>27. CASE Remove
  BY <1>27 DEF Remove, RemoveFromWatched, ForgetBatch
<1>28. CASE Awake
  BY <1>28 DEF Awake
<1>29. CASE Clear
  BY <1>29 DEF Clear
<1>30. CASE BatchFails
  BY <1>30 DEF BatchFails, AbortBatch, ForgetBatch
<1>31. CASE UNCHANGED vars
  BY <1>31 DEF vars
<1> QED
  BY <1>1, <1>2, <1>3, <1>4, <1>5, <1>6, <1>7, <1>8, <1>9, <1>10,
     <1>11, <1>12, <1>13, <1>14, <1>15, <1>16, <1>17, <1>18, <1>19, <1>20,
     <1>21, <1>22, <1>23, <1>24, <1>25, <1>26, <1>27, <1>28, <1>29, <1>30,
     <1>31
     DEF Next, Chain, Callers, Poll, Apply, Faults, Replace

\* A transaction somebody holds is watched until it is finalized.
THEOREM HeldIsWatched == Spec => []NeverAbandoned
<1>1. Init => NeverAbandoned
  BY DEF Init, NeverAbandoned
<1>2. TypeOK /\ NeverAbandoned /\ [Next]_vars => NeverAbandoned'
  BY WatchedStep
<1> QED
  BY TypeCorrect, <1>1, <1>2, PTL DEF Spec

-----------------------------------------------------------------------------
(* No wake-up is lost.                                                       *)

WakePending ==
    \/ wake
    \/ pc \in {"clear", "poll"}
    \/ (watched \intersect held) \ signalling \subseteq polled

\* Between the snapshot and the next clear, an object nobody polled yet has its
\* signal pending.
LEMMA WakeStep == TypeOK /\ WakePending /\ [Next]_vars => WakePending'
<1> SUFFICES ASSUME TypeOK, WakePending, [Next]_vars PROVE WakePending'
  OBVIOUS
<1> USE DEF TypeOK, WakePending,
            chainVars, recordVars, revertVars, objectVars, watchVars, threadVars,
            sweepVars, batchVars, answerVars
<1>1. ASSUME NEW t \in Tx, Broadcast(t) PROVE WakePending'
  BY <1>1 DEF Broadcast
<1>2. ASSUME NEW t \in Tx, Evict(t) PROVE WakePending'
  BY <1>2 DEF Evict
<1>3. ASSUME NEW t \in Tx, Transact(t) PROVE WakePending'
  BY <1>3 DEF Transact
<1>4. ASSUME NEW t \in Tx, Construct(t) PROVE WakePending'
  BY <1>4 DEF Construct
<1>5. ASSUME NEW t \in Tx, Signal(t) PROVE WakePending'
  BY <1>5 DEF Signal
<1>6. ASSUME NEW t \in Tx, Release(t) PROVE WakePending'
  BY <1>6 DEF Release
<1>7. ASSUME NEW t \in Tx, ResolveRevert(t) PROVE WakePending'
  BY <1>7 DEF ResolveRevert
<1>8. ASSUME NEW t \in Tx, ApplyReceipt(t) PROVE WakePending'
  BY <1>8 DEF ApplyReceipt, Handle, Raises
<1>9. ASSUME NEW t \in Tx, ApplyPending(t) PROVE WakePending'
  BY <1>9 DEF ApplyPending, Handle, Raises
<1>10. ASSUME NEW t \in Tx, ApplyReplaced(t) PROVE WakePending'
  BY <1>10 DEF ApplyReplaced, Handle
<1>11. ASSUME NEW t \in Tx, ApplyDropped(t) PROVE WakePending'
  BY <1>11 DEF ApplyDropped, Handle
<1>12. ASSUME NEW t \in Tx, ApplyUnseen(t) PROVE WakePending'
  BY <1>12 DEF ApplyUnseen, Handle
<1>13. ASSUME NEW t \in Tx, CallFails(t) PROVE WakePending'
  BY <1>13 DEF CallFails, AbortBatch, ForgetBatch
<1>14. ASSUME NEW t \in Tx, NEW outcome \in Mined, Mine(t, outcome)
       PROVE  WakePending'
  BY <1>14 DEF Mine, SameSlot
<1>15. ASSUME NEW s \in Slot, Supersede(s) PROVE WakePending'
  BY <1>15 DEF Supersede
<1>16. CASE Snapshot
  BY <1>16 DEF Snapshot, Alive
<1>17. CASE StartBatch
  BY <1>17 DEF StartBatch
<1>18. CASE EndPoll
  BY <1>18 DEF EndPoll
<1>19. CASE AskTx
  BY <1>19 DEF AskTx, TxAnswer
<1>20. CASE AskReceipt
  BY <1>20 DEF AskReceipt, ReceiptAnswer
<1>21. CASE AskNonce
  BY <1>21 DEF AskNonce
<1>22. CASE PutReceipt
  BY <1>22 DEF PutReceipt
<1>23. CASE PutStatus
  BY <1>23 DEF PutStatus
<1>24. CASE Finalize
  BY <1>24 DEF Finalize, FinalizeThen
<1>25. CASE StartRevert
  BY <1>25 DEF StartRevert
<1>26. CASE Initialize
  BY <1>26 DEF Initialize
<1>27. CASE Remove
  BY <1>27 DEF Remove, RemoveFromWatched, ForgetBatch
<1>28. CASE Awake
  BY <1>28 DEF Awake
<1>29. CASE Clear
  BY <1>29 DEF Clear
<1>30. CASE BatchFails
  BY <1>30 DEF BatchFails, AbortBatch, ForgetBatch
<1>31. CASE UNCHANGED vars
  BY <1>31 DEF vars
<1> QED
  BY <1>1, <1>2, <1>3, <1>4, <1>5, <1>6, <1>7, <1>8, <1>9, <1>10,
     <1>11, <1>12, <1>13, <1>14, <1>15, <1>16, <1>17, <1>18, <1>19, <1>20,
     <1>21, <1>22, <1>23, <1>24, <1>25, <1>26, <1>27, <1>28, <1>29, <1>30,
     <1>31
     DEF Next, Chain, Callers, Poll, Apply, Faults, Replace

\* The monitor never sleeps out POLL_INTERVAL on an object it has not polled once.
THEOREM NoWakeIsLost == Spec => []NoLostWake
<1>1. Init => WakePending
  BY DEF Init, WakePending
<1>2. TypeOK /\ WakePending /\ [Next]_vars => WakePending'
  BY WakeStep
<1>3. WakePending => NoLostWake
  BY DEF WakePending, NoLostWake
<1> QED
  BY TypeCorrect, <1>1, <1>2, <1>3, PTL DEF Spec

-----------------------------------------------------------------------------
(* Batch size.                                                               *)

SmallBatch == IsFiniteSet(batch) /\ Cardinality(batch) <= TransactionsPerBatch

\* There are at most as many distinct senders to ask about as objects in a batch.
LEMMA FewSlots ==
    ASSUME NEW b \in SUBSET Tx, IsFiniteSet(b)
    PROVE  /\ IsFiniteSet(AskedSlots(b))
           /\ Cardinality(AskedSlots(b)) <= Cardinality(b)
<1> DEFINE seen == {u \in b : txdict[u] # "none"}
<1>1. IsFiniteSet(seen) /\ Cardinality(seen) <= Cardinality(b)
  BY FS_Subset
<1>2. AskedSlots(b) = {SlotOf[t] : t \in seen}
  BY DEF AskedSlots
<1>3. IsFiniteSet(AskedSlots(b)) /\ Cardinality(AskedSlots(b)) <= Cardinality(seen)
  <2> DEFINE f == [t \in seen |-> SlotOf[t]]
  <2>1. f \in Surjection(seen, AskedSlots(b))
    BY <1>2 DEF Surjection
  <2> QED
    BY <1>1, <2>1, FS_Surjection
<1>4. /\ Cardinality(b) \in Nat /\ Cardinality(seen) \in Nat
      /\ Cardinality(AskedSlots(b)) \in Nat
  BY <1>1, <1>3, FS_CardinalityType
<1> QED
  BY <1>1, <1>3, <1>4

\* Three calls for each transaction of a full batch fit in MAX_BATCH_SIZE.
LEMMA ThreeCallsEach ==
    3 * TransactionsPerBatch <= MaxBatchSize /\ TransactionsPerBatch \in Nat
  BY BatchAssumption DEF TransactionsPerBatch

\* A batch is only ever formed by StartBatch and only ever emptied elsewhere.
LEMMA SmallBatchStep == TypeOK /\ SmallBatch /\ [Next]_vars => SmallBatch'
<1> SUFFICES ASSUME TypeOK, SmallBatch, [Next]_vars PROVE SmallBatch'
  OBVIOUS
<1>1. UNCHANGED batch \/ batch' = {} \/ StartBatch
  BY DEF Next, vars, Chain, Callers, Poll, Apply, Faults, Replace, batchVars, threadVars,
         Broadcast, Evict, Mine, Supersede, Transact, Construct, Signal, Release,
         ResolveRevert, Snapshot, EndPoll, AskTx, AskReceipt, AskNonce,
         ApplyReceipt, ApplyPending, ApplyReplaced, ApplyDropped, ApplyUnseen,
         PutReceipt, PutStatus, Finalize, StartRevert, Initialize, Remove,
         RemoveFromWatched, FinalizeThen, ForgetBatch, Awake, Clear,
         BatchFails, CallFails, AbortBatch
<1>2. CASE UNCHANGED batch
  BY <1>2 DEF SmallBatch, TransactionsPerBatch
<1>3. CASE batch' = {}
  BY <1>3, FS_EmptySet, ThreeCallsEach DEF SmallBatch, TransactionsPerBatch
<1>4. CASE StartBatch
  <2>1. batch' \subseteq Tx /\ Cardinality(batch') <= TransactionsPerBatch
    BY <1>4 DEF StartBatch, TypeOK
  <2>2. IsFiniteSet(batch')
    BY <2>1, FS_Subset, TxAssumption
  <2> QED
    BY <2>1, <2>2 DEF SmallBatch, TransactionsPerBatch
<1> QED
  BY <1>1, <1>2, <1>3, <1>4

\* No batch request exceeds MAX_BATCH_SIZE calls, whatever MAX_BATCH_SIZE >= 3 is
\* and however many senders the batch has.
THEOREM BatchAlwaysFits == Spec => []BatchFits
<1>1. Init => SmallBatch
  BY FS_EmptySet, ThreeCallsEach DEF Init, SmallBatch
<1>2. TypeOK /\ SmallBatch /\ [Next]_vars => SmallBatch'
  BY SmallBatchStep
<1>3. TypeOK /\ SmallBatch => BatchFits
  <2> SUFFICES ASSUME TypeOK, SmallBatch PROVE BatchFits
    OBVIOUS
  <2>1. batch \in SUBSET Tx /\ IsFiniteSet(batch)
    BY DEF TypeOK, SmallBatch
  <2>2. /\ Cardinality(AskedSlots(batch)) <= Cardinality(batch)
        /\ Cardinality(AskedSlots(batch)) \in Nat /\ Cardinality(batch) \in Nat
    BY <2>1, FewSlots, FS_CardinalityType
  <2> QED
    BY <2>2, ThreeCallsEach, BatchAssumption DEF SmallBatch, BatchFits
<1> QED
  BY TypeCorrect, <1>1, <1>2, <1>3, PTL DEF Spec

-----------------------------------------------------------------------------
(* Finality.  As long as single calls of a batch do not fail, a finalized     *)
(* object is never handled again: it is removed with its batch before the     *)
(* next snapshot.  An aborted loop would break exactly this.                  *)

NoErrors ==
    /\ \A t \in Tx : gotTx[t] # "error" /\ gotReceipt[t] # "error"
    /\ \A s \in Slot : gotNonce[s] # "error"

\* Finalized objects are behind the monitor: not in the rest of the sweep, not in
\* the rest of the loop, and watched only until their own batch ends.
Behind ==
    /\ finalized \subseteq made
    /\ batch \intersect rest = {}
    /\ finalized \intersect rest = {}
    /\ finalized \intersect (todo \ {cur}) = {}
    /\ watched \intersect finalized \subseteq batch
    /\ cur \in finalized => pc \in {"revert", "initialize"}

\* What an object holds before, while and after it is finalized.
Outcome(t) ==
    \/ receipt[t] # "none" /\ status[t] = receipt[t]
    \/ receipt[t] = "none" /\ status[t] = "REPLACED"
    \/ GivenUp(t)

Stored ==
    \A t \in Tx :
        /\ t \in finalized => Outcome(t)
        /\ t = cur /\ pc = "finalize" => Outcome(t)
        /\ receipt[t] # "none" =>
               t \in finalized \/ (t = cur /\ pc \in {"putStatus", "finalize"})
        /\ status[t] \in Mined \union {"REPLACED"} =>
               t \in finalized \/ (t = cur /\ pc = "finalize")
        /\ t \notin made => receipt[t] = "none" /\ status[t] = "UNSEEN"

FaultFree == NoErrors /\ Behind /\ Stored

USE DEF Failing

\* Without call failures no answer is an error.
LEMMA NoErrorsStep == ~CallCanFail /\ TypeOK /\ NoErrors /\ [Next]_vars => NoErrors'
<1> SUFFICES ASSUME ~CallCanFail, TypeOK, NoErrors, [Next]_vars PROVE NoErrors'
  OBVIOUS
<1> USE DEF TypeOK, NoErrors,
            chainVars, recordVars, revertVars, objectVars, watchVars, threadVars,
            sweepVars, batchVars, answerVars
<1>1. ASSUME NEW t \in Tx, Broadcast(t) PROVE NoErrors'
  BY <1>1 DEF Broadcast
<1>2. ASSUME NEW t \in Tx, Evict(t) PROVE NoErrors'
  BY <1>2 DEF Evict
<1>3. ASSUME NEW t \in Tx, Transact(t) PROVE NoErrors'
  BY <1>3 DEF Transact
<1>4. ASSUME NEW t \in Tx, Construct(t) PROVE NoErrors'
  BY <1>4 DEF Construct
<1>5. ASSUME NEW t \in Tx, Signal(t) PROVE NoErrors'
  BY <1>5 DEF Signal
<1>6. ASSUME NEW t \in Tx, Release(t) PROVE NoErrors'
  BY <1>6 DEF Release
<1>7. ASSUME NEW t \in Tx, ResolveRevert(t) PROVE NoErrors'
  BY <1>7 DEF ResolveRevert
<1>8. ASSUME NEW t \in Tx, ApplyReceipt(t) PROVE NoErrors'
  BY <1>8 DEF ApplyReceipt, Handle, Raises
<1>9. ASSUME NEW t \in Tx, ApplyPending(t) PROVE NoErrors'
  BY <1>9 DEF ApplyPending, Handle, Raises
<1>10. ASSUME NEW t \in Tx, ApplyReplaced(t) PROVE NoErrors'
  BY <1>10 DEF ApplyReplaced, Handle
<1>11. ASSUME NEW t \in Tx, ApplyDropped(t) PROVE NoErrors'
  BY <1>11 DEF ApplyDropped, Handle
<1>12. ASSUME NEW t \in Tx, ApplyUnseen(t) PROVE NoErrors'
  BY <1>12 DEF ApplyUnseen, Handle
<1>13. ASSUME NEW t \in Tx, CallFails(t) PROVE NoErrors'
  BY <1>13 DEF CallFails, AbortBatch, ForgetBatch
<1>14. ASSUME NEW t \in Tx, NEW outcome \in Mined, Mine(t, outcome)
       PROVE  NoErrors'
  BY <1>14 DEF Mine, SameSlot
<1>15. ASSUME NEW s \in Slot, Supersede(s) PROVE NoErrors'
  BY <1>15 DEF Supersede
<1>16. CASE Snapshot
  BY <1>16 DEF Snapshot
<1>17. CASE StartBatch
  BY <1>17 DEF StartBatch
<1>18. CASE EndPoll
  BY <1>18 DEF EndPoll
<1>19. CASE AskTx
  BY <1>19 DEF AskTx, TxAnswer
<1>20. CASE AskReceipt
  BY <1>20 DEF AskReceipt, ReceiptAnswer
<1>21. CASE AskNonce
  BY <1>21 DEF AskNonce
<1>22. CASE PutReceipt
  BY <1>22 DEF PutReceipt
<1>23. CASE PutStatus
  BY <1>23 DEF PutStatus
<1>24. CASE Finalize
  BY <1>24 DEF Finalize, FinalizeThen
<1>25. CASE StartRevert
  BY <1>25 DEF StartRevert
<1>26. CASE Initialize
  BY <1>26 DEF Initialize
<1>27. CASE Remove
  BY <1>27 DEF Remove, RemoveFromWatched, ForgetBatch
<1>28. CASE Awake
  BY <1>28 DEF Awake
<1>29. CASE Clear
  BY <1>29 DEF Clear
<1>30. CASE BatchFails
  BY <1>30 DEF BatchFails, AbortBatch, ForgetBatch
<1>31. CASE UNCHANGED vars
  BY <1>31 DEF vars
<1> QED
  BY <1>1, <1>2, <1>3, <1>4, <1>5, <1>6, <1>7, <1>8, <1>9, <1>10,
     <1>11, <1>12, <1>13, <1>14, <1>15, <1>16, <1>17, <1>18, <1>19, <1>20,
     <1>21, <1>22, <1>23, <1>24, <1>25, <1>26, <1>27, <1>28, <1>29, <1>30,
     <1>31
     DEF Next, Chain, Callers, Poll, Apply, Faults, Replace

\* A finalized object is never put back in front of the monitor.
LEMMA BehindStep ==
    TypeOK /\ Control /\ NoErrors /\ Behind /\ [Next]_vars => Behind'
<1> SUFFICES ASSUME TypeOK, Control, NoErrors, Behind, [Next]_vars PROVE Behind'
  OBVIOUS
<1> USE DEF TypeOK, Control, Behind,
            chainVars, recordVars, revertVars, objectVars, watchVars, threadVars,
            sweepVars, batchVars, answerVars
<1>1. ASSUME NEW t \in Tx, Broadcast(t) PROVE Behind'
  BY <1>1 DEF Broadcast
<1>2. ASSUME NEW t \in Tx, Evict(t) PROVE Behind'
  BY <1>2 DEF Evict
<1>3. ASSUME NEW t \in Tx, Transact(t) PROVE Behind'
  BY <1>3 DEF Transact
<1>4. ASSUME NEW t \in Tx, Construct(t) PROVE Behind'
  BY <1>4 DEF Construct
<1>5. ASSUME NEW t \in Tx, Signal(t) PROVE Behind'
  BY <1>5 DEF Signal
<1>6. ASSUME NEW t \in Tx, Release(t) PROVE Behind'
  BY <1>6 DEF Release
<1>7. ASSUME NEW t \in Tx, ResolveRevert(t) PROVE Behind'
  BY <1>7 DEF ResolveRevert
<1>8. ASSUME NEW t \in Tx, ApplyReceipt(t) PROVE Behind'
  BY <1>8 DEF ApplyReceipt, Handle, Raises
<1>9. ASSUME NEW t \in Tx, ApplyPending(t) PROVE Behind'
  BY <1>9 DEF ApplyPending, Handle, Raises
<1>10. ASSUME NEW t \in Tx, ApplyReplaced(t) PROVE Behind'
  BY <1>10 DEF ApplyReplaced, Handle
<1>11. ASSUME NEW t \in Tx, ApplyDropped(t) PROVE Behind'
  BY <1>11 DEF ApplyDropped, Handle
<1>12. ASSUME NEW t \in Tx, ApplyUnseen(t) PROVE Behind'
  BY <1>12 DEF ApplyUnseen, Handle
<1>13. ASSUME NEW t \in Tx, CallFails(t) PROVE Behind'
  BY <1>13 DEF CallFails, AbortBatch, ForgetBatch, Raises, NoErrors
<1>14. ASSUME NEW t \in Tx, NEW outcome \in Mined, Mine(t, outcome)
       PROVE  Behind'
  BY <1>14 DEF Mine, SameSlot
<1>15. ASSUME NEW s \in Slot, Supersede(s) PROVE Behind'
  BY <1>15 DEF Supersede
<1>16. CASE Snapshot
  BY <1>16 DEF Snapshot, Alive
<1>17. CASE StartBatch
  BY <1>17 DEF StartBatch
<1>18. CASE EndPoll
  BY <1>18 DEF EndPoll
<1>19. CASE AskTx
  BY <1>19 DEF AskTx, TxAnswer
<1>20. CASE AskReceipt
  BY <1>20 DEF AskReceipt, ReceiptAnswer
<1>21. CASE AskNonce
  BY <1>21 DEF AskNonce
<1>22. CASE PutReceipt
  BY <1>22 DEF PutReceipt
<1>23. CASE PutStatus
  BY <1>23 DEF PutStatus
<1>24. CASE Finalize
  BY <1>24 DEF Finalize, FinalizeThen
<1>25. CASE StartRevert
  BY <1>25 DEF StartRevert
<1>26. CASE Initialize
  BY <1>26 DEF Initialize
<1>27. CASE Remove
  BY <1>27 DEF Remove, RemoveFromWatched, ForgetBatch
<1>28. CASE Awake
  BY <1>28 DEF Awake
<1>29. CASE Clear
  BY <1>29 DEF Clear
<1>30. CASE BatchFails
  BY <1>30 DEF BatchFails, AbortBatch, ForgetBatch
<1>31. CASE UNCHANGED vars
  BY <1>31 DEF vars
<1> QED
  BY <1>1, <1>2, <1>3, <1>4, <1>5, <1>6, <1>7, <1>8, <1>9, <1>10,
     <1>11, <1>12, <1>13, <1>14, <1>15, <1>16, <1>17, <1>18, <1>19, <1>20,
     <1>21, <1>22, <1>23, <1>24, <1>25, <1>26, <1>27, <1>28, <1>29, <1>30,
     <1>31
     DEF Next, Chain, Callers, Poll, Apply, Faults, Replace

\* An outcome is complete before it is announced and is never overwritten after.
LEMMA StoredStep ==
    TypeOK /\ Control /\ AnswersHold /\ NoErrors /\ Behind /\ Stored /\ [Next]_vars
        => Stored'
<1> SUFFICES ASSUME TypeOK, Control, AnswersHold, NoErrors, Behind, Stored, [Next]_vars
             PROVE  Stored'
  OBVIOUS
<1> USE DEF TypeOK, Control, Behind, Stored, Outcome, GivenUp, 
            chainVars, recordVars, revertVars, objectVars, watchVars, threadVars,
            sweepVars, batchVars, answerVars
<1>1. ASSUME NEW t \in Tx, Broadcast(t) PROVE Stored'
  BY <1>1 DEF Broadcast
<1>2. ASSUME NEW t \in Tx, Evict(t) PROVE Stored'
  BY <1>2 DEF Evict
<1>3. ASSUME NEW t \in Tx, Transact(t) PROVE Stored'
  BY <1>3 DEF Transact
<1>4. ASSUME NEW t \in Tx, Construct(t) PROVE Stored'
  BY <1>4 DEF Construct
<1>5. ASSUME NEW t \in Tx, Signal(t) PROVE Stored'
  BY <1>5 DEF Signal
<1>6. ASSUME NEW t \in Tx, Release(t) PROVE Stored'
  BY <1>6 DEF Release
<1>7. ASSUME NEW t \in Tx, ResolveRevert(t) PROVE Stored'
  BY <1>7 DEF ResolveRevert
<1>8. ASSUME NEW t \in Tx, ApplyReceipt(t) PROVE Stored'
  BY <1>8 DEF ApplyReceipt, Handle, Raises
<1>9. ASSUME NEW t \in Tx, ApplyPending(t) PROVE Stored'
  BY <1>9 DEF ApplyPending, Handle, Raises
<1>10. ASSUME NEW t \in Tx, ApplyReplaced(t) PROVE Stored'
  BY <1>10 DEF ApplyReplaced, Handle, Neither, NonceAdvanced
<1>11. ASSUME NEW t \in Tx, ApplyDropped(t) PROVE Stored'
  BY <1>11 DEF ApplyDropped, Handle, Neither, NonceAdvanced
<1>12. ASSUME NEW t \in Tx, ApplyUnseen(t) PROVE Stored'
  BY <1>12 DEF ApplyUnseen, Handle, Neither, NonceAdvanced
<1>13. ASSUME NEW t \in Tx, CallFails(t) PROVE Stored'
  BY <1>13 DEF CallFails, AbortBatch, ForgetBatch, Raises, NoErrors
<1>14. ASSUME NEW t \in Tx, NEW outcome \in Mined, Mine(t, outcome)
       PROVE  Stored'
  BY <1>14 DEF Mine, SameSlot
<1>15. ASSUME NEW s \in Slot, Supersede(s) PROVE Stored'
  BY <1>15 DEF Supersede
<1>16. CASE Snapshot
  BY <1>16 DEF Snapshot
<1>17. CASE StartBatch
  BY <1>17 DEF StartBatch
<1>18. CASE EndPoll
  BY <1>18 DEF EndPoll
<1>19. CASE AskTx
  BY <1>19 DEF AskTx, TxAnswer
<1>20. CASE AskReceipt
  BY <1>20 DEF AskReceipt, ReceiptAnswer
<1>21. CASE AskNonce
  BY <1>21 DEF AskNonce
<1>22. CASE PutReceipt
  BY <1>22 DEF PutReceipt
<1>23. CASE PutStatus
  BY <1>23 DEF PutStatus, AnswersHold
<1>24. CASE Finalize
  BY <1>24 DEF Finalize, FinalizeThen
<1>25. CASE StartRevert
  BY <1>25 DEF StartRevert
<1>26. CASE Initialize
  BY <1>26 DEF Initialize
<1>27. CASE Remove
  BY <1>27 DEF Remove, RemoveFromWatched, ForgetBatch
<1>28. CASE Awake
  BY <1>28 DEF Awake
<1>29. CASE Clear
  BY <1>29 DEF Clear
<1>30. CASE BatchFails
  BY <1>30 DEF BatchFails, AbortBatch, ForgetBatch
<1>31. CASE UNCHANGED vars
  BY <1>31 DEF vars
<1> QED
  BY <1>1, <1>2, <1>3, <1>4, <1>5, <1>6, <1>7, <1>8, <1>9, <1>10,
     <1>11, <1>12, <1>13, <1>14, <1>15, <1>16, <1>17, <1>18, <1>19, <1>20,
     <1>21, <1>22, <1>23, <1>24, <1>25, <1>26, <1>27, <1>28, <1>29, <1>30,
     <1>31
     DEF Next, Chain, Callers, Poll, Apply, Faults, Replace

\* The initial state satisfies the invariant of finality.
LEMMA FaultFreeInit == Init => FaultFree
  BY DEF Init, NoAnswers, FaultFree, NoErrors, Behind, Stored, Outcome

\* Without call failures the invariant of finality holds throughout.
LEMMA FaultFreeCorrect ==
    ~CallCanFail /\ Spec => [](TypeOK /\ Control /\ AnswersHold /\ FaultFree)
<1> SUFFICES ASSUME ~CallCanFail
             PROVE  Spec => [](TypeOK /\ Control /\ AnswersHold /\ FaultFree)
  OBVIOUS
<1> DEFINE IInv == TypeOK /\ Control /\ AnswersHold /\ FaultFree
<1>1. Init => IInv
  BY TypeInit, TruthInit, FaultFreeInit
<1>2. IInv /\ [Next]_vars => IInv'
  BY TypeStep, ControlStep, AnswersStep, NoErrorsStep, BehindStep, StoredStep DEF FaultFree
<1> QED
  BY <1>1, <1>2, PTL DEF Spec

\* When wait() returns, the outcome is complete.
THEOREM OutcomeIsComplete == ~CallCanFail /\ Spec => []OutcomeBeforeFinal
<1>1. FaultFree /\ TypeOK => OutcomeBeforeFinal
  BY DEF FaultFree, TypeOK, Stored, Outcome, OutcomeBeforeFinal
<1> QED
  BY FaultFreeCorrect, <1>1, PTL

\* What a finalized transaction shows never changes.
THEOREM FinalityHolds == ~CallCanFail /\ Spec => FinalizedIsStable
<1> DEFINE Stable == \A t \in finalized : ObservedStatus(t)' = ObservedStatus(t)
<1>1. TypeOK /\ Control /\ FaultFree /\ [Next]_vars => [Stable]_vars
  <2> SUFFICES ASSUME TypeOK, Control, FaultFree, [Next]_vars PROVE Stable
    OBVIOUS
  <2> USE DEF TypeOK, Control, FaultFree, Behind, ObservedStatus,
            chainVars, recordVars, revertVars, objectVars, watchVars, threadVars,
            sweepVars, batchVars, answerVars
  <2>1. ASSUME NEW t \in Tx, Broadcast(t) PROVE Stable
    BY <2>1 DEF Broadcast
  <2>2. ASSUME NEW t \in Tx, Evict(t) PROVE Stable
    BY <2>2 DEF Evict
  <2>3. ASSUME NEW t \in Tx, Transact(t) PROVE Stable
    BY <2>3 DEF Transact
  <2>4. ASSUME NEW t \in Tx, Construct(t) PROVE Stable
    BY <2>4 DEF Construct
  <2>5. ASSUME NEW t \in Tx, Signal(t) PROVE Stable
    BY <2>5 DEF Signal
  <2>6. ASSUME NEW t \in Tx, Release(t) PROVE Stable
    BY <2>6 DEF Release
  <2>7. ASSUME NEW t \in Tx, ResolveRevert(t) PROVE Stable
    BY <2>7 DEF ResolveRevert
  <2>8. ASSUME NEW t \in Tx, ApplyReceipt(t) PROVE Stable
    BY <2>8 DEF ApplyReceipt, Handle, Raises
  <2>9. ASSUME NEW t \in Tx, ApplyPending(t) PROVE Stable
    BY <2>9 DEF ApplyPending, Handle, Raises
  <2>10. ASSUME NEW t \in Tx, ApplyReplaced(t) PROVE Stable
    BY <2>10 DEF ApplyReplaced, Handle
  <2>11. ASSUME NEW t \in Tx, ApplyDropped(t) PROVE Stable
    BY <2>11 DEF ApplyDropped, Handle
  <2>12. ASSUME NEW t \in Tx, ApplyUnseen(t) PROVE Stable
    BY <2>12 DEF ApplyUnseen, Handle
  <2>13. ASSUME NEW t \in Tx, CallFails(t) PROVE Stable
    BY <2>13 DEF CallFails, AbortBatch, ForgetBatch
  <2>14. ASSUME NEW t \in Tx, NEW outcome \in Mined, Mine(t, outcome)
         PROVE  Stable
    BY <2>14 DEF Mine, SameSlot
  <2>15. ASSUME NEW s \in Slot, Supersede(s) PROVE Stable
    BY <2>15 DEF Supersede
  <2>16. CASE Snapshot
    BY <2>16 DEF Snapshot
  <2>17. CASE StartBatch
    BY <2>17 DEF StartBatch
  <2>18. CASE EndPoll
    BY <2>18 DEF EndPoll
  <2>19. CASE AskTx
    BY <2>19 DEF AskTx, TxAnswer
  <2>20. CASE AskReceipt
    BY <2>20 DEF AskReceipt, ReceiptAnswer
  <2>21. CASE AskNonce
    BY <2>21 DEF AskNonce
  <2>22. CASE PutReceipt
    BY <2>22 DEF PutReceipt
  <2>23. CASE PutStatus
    BY <2>23 DEF PutStatus
  <2>24. CASE Finalize
    BY <2>24 DEF Finalize, FinalizeThen
  <2>25. CASE StartRevert
    BY <2>25 DEF StartRevert
  <2>26. CASE Initialize
    BY <2>26 DEF Initialize
  <2>27. CASE Remove
    BY <2>27 DEF Remove, RemoveFromWatched, ForgetBatch
  <2>28. CASE Awake
    BY <2>28 DEF Awake
  <2>29. CASE Clear
    BY <2>29 DEF Clear
  <2>30. CASE BatchFails
    BY <2>30 DEF BatchFails, AbortBatch, ForgetBatch
  <2>31. CASE UNCHANGED vars
    BY <2>31 DEF vars
  <2> QED
    BY <2>1, <2>2, <2>3, <2>4, <2>5, <2>6, <2>7, <2>8, <2>9, <2>10,
       <2>11, <2>12, <2>13, <2>14, <2>15, <2>16, <2>17, <2>18, <2>19, <2>20,
       <2>21, <2>22, <2>23, <2>24, <2>25, <2>26, <2>27, <2>28, <2>29, <2>30,
       <2>31
       DEF Next, Chain, Callers, Poll, Apply, Faults, Replace
<1> QED
  BY FaultFreeCorrect, <1>1, PTL DEF Spec, FinalizedIsStable

-----------------------------------------------------------------------------
(* The revert reason.                                                        *)

RevertInv ==
    /\ resolving \union revertReady \subseteq finalized
    /\ pc = "revert" => cur \in finalized \ (resolving \union revertReady)
                        /\ gotReceipt[cur] = "REVERTED"

\* A resolver is started right after its transaction was finalized, and a
\* transaction is finalized once.
LEMMA RevertStep ==
    TypeOK /\ Control /\ FaultFree /\ RevertInv /\ [Next]_vars => RevertInv'
<1> SUFFICES ASSUME TypeOK, Control, FaultFree, RevertInv, [Next]_vars
             PROVE  RevertInv'
  OBVIOUS
<1> USE DEF TypeOK, Control, FaultFree, Behind, RevertInv,
            chainVars, recordVars, revertVars, objectVars, watchVars, threadVars,
            sweepVars, batchVars, answerVars
<1>1. ASSUME NEW t \in Tx, Broadcast(t) PROVE RevertInv'
  BY <1>1 DEF Broadcast
<1>2. ASSUME NEW t \in Tx, Evict(t) PROVE RevertInv'
  BY <1>2 DEF Evict
<1>3. ASSUME NEW t \in Tx, Transact(t) PROVE RevertInv'
  BY <1>3 DEF Transact
<1>4. ASSUME NEW t \in Tx, Construct(t) PROVE RevertInv'
  BY <1>4 DEF Construct
<1>5. ASSUME NEW t \in Tx, Signal(t) PROVE RevertInv'
  BY <1>5 DEF Signal
<1>6. ASSUME NEW t \in Tx, Release(t) PROVE RevertInv'
  BY <1>6 DEF Release
<1>7. ASSUME NEW t \in Tx, ResolveRevert(t) PROVE RevertInv'
  BY <1>7 DEF ResolveRevert
<1>8. ASSUME NEW t \in Tx, ApplyReceipt(t) PROVE RevertInv'
  BY <1>8 DEF ApplyReceipt, Handle, Raises
<1>9. ASSUME NEW t \in Tx, ApplyPending(t) PROVE RevertInv'
  BY <1>9 DEF ApplyPending, Handle, Raises
<1>10. ASSUME NEW t \in Tx, ApplyReplaced(t) PROVE RevertInv'
  BY <1>10 DEF ApplyReplaced, Handle
<1>11. ASSUME NEW t \in Tx, ApplyDropped(t) PROVE RevertInv'
  BY <1>11 DEF ApplyDropped, Handle
<1>12. ASSUME NEW t \in Tx, ApplyUnseen(t) PROVE RevertInv'
  BY <1>12 DEF ApplyUnseen, Handle
<1>13. ASSUME NEW t \in Tx, CallFails(t) PROVE RevertInv'
  BY <1>13 DEF CallFails, AbortBatch, ForgetBatch
<1>14. ASSUME NEW t \in Tx, NEW outcome \in Mined, Mine(t, outcome)
       PROVE  RevertInv'
  BY <1>14 DEF Mine, SameSlot
<1>15. ASSUME NEW s \in Slot, Supersede(s) PROVE RevertInv'
  BY <1>15 DEF Supersede
<1>16. CASE Snapshot
  BY <1>16 DEF Snapshot
<1>17. CASE StartBatch
  BY <1>17 DEF StartBatch
<1>18. CASE EndPoll
  BY <1>18 DEF EndPoll
<1>19. CASE AskTx
  BY <1>19 DEF AskTx, TxAnswer
<1>20. CASE AskReceipt
  BY <1>20 DEF AskReceipt, ReceiptAnswer
<1>21. CASE AskNonce
  BY <1>21 DEF AskNonce
<1>22. CASE PutReceipt
  BY <1>22 DEF PutReceipt
<1>23. CASE PutStatus
  BY <1>23 DEF PutStatus
<1>24. CASE Finalize
  BY <1>24 DEF Finalize, FinalizeThen
<1>25. CASE StartRevert
  BY <1>25 DEF StartRevert
<1>26. CASE Initialize
  BY <1>26 DEF Initialize
<1>27. CASE Remove
  BY <1>27 DEF Remove, RemoveFromWatched, ForgetBatch
<1>28. CASE Awake
  BY <1>28 DEF Awake
<1>29. CASE Clear
  BY <1>29 DEF Clear
<1>30. CASE BatchFails
  BY <1>30 DEF BatchFails, AbortBatch, ForgetBatch
<1>31. CASE UNCHANGED vars
  BY <1>31 DEF vars
<1> QED
  BY <1>1, <1>2, <1>3, <1>4, <1>5, <1>6, <1>7, <1>8, <1>9, <1>10,
     <1>11, <1>12, <1>13, <1>14, <1>15, <1>16, <1>17, <1>18, <1>19, <1>20,
     <1>21, <1>22, <1>23, <1>24, <1>25, <1>26, <1>27, <1>28, <1>29, <1>30,
     <1>31
     DEF Next, Chain, Callers, Poll, Apply, Faults, Replace

\* The revert reason is resolved only for a reverted transaction, and once.
THEOREM RevertIsResolvedOnce == ~CallCanFail /\ Spec => RevertResolvedOnce
<1> DEFINE Once == \A t \in Tx : t \in resolving' \ resolving =>
                                     t \notin revertReady /\ place[t] = "REVERTED"
<1>1. Init => RevertInv
  BY DEF Init, RevertInv
<1>2. TypeOK /\ Control /\ FaultFree /\ RevertInv /\ [Next]_vars => RevertInv'
  BY RevertStep
<1>3. TypeOK /\ Control /\ AnswersHold /\ RevertInv /\ [Next]_vars => [Once]_vars
  <2> SUFFICES ASSUME TypeOK, Control, AnswersHold, RevertInv, [Next]_vars PROVE Once
    OBVIOUS
  <2>1. UNCHANGED resolving \/ resolving' \subseteq resolving \/ StartRevert
    BY DEF Next, vars, Chain, Callers, Poll, Apply, Faults, Replace, revertVars, objectVars,
           Broadcast, Evict, Mine, Supersede, Transact, Construct, Signal, Release,
           ResolveRevert, Snapshot, StartBatch, EndPoll, AskTx, AskReceipt, AskNonce,
           ApplyReceipt, ApplyPending, ApplyReplaced, ApplyDropped, ApplyUnseen,
           PutReceipt, PutStatus, Finalize, FinalizeThen, Initialize, Remove, RemoveFromWatched,
           Awake, Clear, BatchFails, CallFails, AbortBatch
  <2>2. CASE StartRevert
    BY <2>2 DEF StartRevert, TypeOK, AnswersHold, RevertInv
  <2> QED
    BY <2>1, <2>2
<1> QED
  BY FaultFreeCorrect, <1>1, <1>2, <1>3, PTL DEF Spec, RevertResolvedOnce

-----------------------------------------------------------------------------
(* Refinement.  Without call failures each step of the monitor is a step of   *)
(* TxLifecycle, the life cycle promised to callers, or invisible there.       *)

\* An object whose sender is known without having been seeded has been seen, or
\* its receipt is just being recorded.
SeenBefore ==
    \A t \in Tx \ Seeded :
        txdict[t] # "none" /\ status[t] = "UNSEEN" =>
            t = cur /\ pc \in {"putReceipt", "putStatus"}

\* Sender data arrives together with PENDING or with a receipt.
LEMMA SeenStep == TypeOK /\ Control /\ SeenBefore /\ [Next]_vars => SeenBefore'
<1> SUFFICES ASSUME TypeOK, Control, SeenBefore, [Next]_vars PROVE SeenBefore'
  OBVIOUS
<1> USE DEF TypeOK, Control, SeenBefore,
            chainVars, recordVars, revertVars, objectVars, watchVars, threadVars,
            sweepVars, batchVars, answerVars
<1>1. ASSUME NEW t \in Tx, Broadcast(t) PROVE SeenBefore'
  BY <1>1 DEF Broadcast
<1>2. ASSUME NEW t \in Tx, Evict(t) PROVE SeenBefore'
  BY <1>2 DEF Evict
<1>3. ASSUME NEW t \in Tx, Transact(t) PROVE SeenBefore'
  BY <1>3 DEF Transact
<1>4. ASSUME NEW t \in Tx, Construct(t) PROVE SeenBefore'
  BY <1>4 DEF Construct
<1>5. ASSUME NEW t \in Tx, Signal(t) PROVE SeenBefore'
  BY <1>5 DEF Signal
<1>6. ASSUME NEW t \in Tx, Release(t) PROVE SeenBefore'
  BY <1>6 DEF Release
<1>7. ASSUME NEW t \in Tx, ResolveRevert(t) PROVE SeenBefore'
  BY <1>7 DEF ResolveRevert
<1>8. ASSUME NEW t \in Tx, ApplyReceipt(t) PROVE SeenBefore'
  BY <1>8 DEF ApplyReceipt, Handle, Raises
<1>9. ASSUME NEW t \in Tx, ApplyPending(t) PROVE SeenBefore'
  BY <1>9 DEF ApplyPending, Handle, Raises
<1>10. ASSUME NEW t \in Tx, ApplyReplaced(t) PROVE SeenBefore'
  BY <1>10 DEF ApplyReplaced, Handle
<1>11. ASSUME NEW t \in Tx, ApplyDropped(t) PROVE SeenBefore'
  BY <1>11 DEF ApplyDropped, Handle
<1>12. ASSUME NEW t \in Tx, ApplyUnseen(t) PROVE SeenBefore'
  BY <1>12 DEF ApplyUnseen, Handle
<1>13. ASSUME NEW t \in Tx, CallFails(t) PROVE SeenBefore'
  BY <1>13 DEF CallFails, AbortBatch, ForgetBatch
<1>14. ASSUME NEW t \in Tx, NEW outcome \in Mined, Mine(t, outcome)
       PROVE  SeenBefore'
  BY <1>14 DEF Mine, SameSlot
<1>15. ASSUME NEW s \in Slot, Supersede(s) PROVE SeenBefore'
  BY <1>15 DEF Supersede
<1>16. CASE Snapshot
  BY <1>16 DEF Snapshot
<1>17. CASE StartBatch
  BY <1>17 DEF StartBatch
<1>18. CASE EndPoll
  BY <1>18 DEF EndPoll
<1>19. CASE AskTx
  BY <1>19 DEF AskTx, TxAnswer
<1>20. CASE AskReceipt
  BY <1>20 DEF AskReceipt, ReceiptAnswer
<1>21. CASE AskNonce
  BY <1>21 DEF AskNonce
<1>22. CASE PutReceipt
  BY <1>22 DEF PutReceipt
<1>23. CASE PutStatus
  BY <1>23 DEF PutStatus
<1>24. CASE Finalize
  BY <1>24 DEF Finalize, FinalizeThen, FinalizeThen
<1>25. CASE StartRevert
  BY <1>25 DEF StartRevert
<1>26. CASE Initialize
  BY <1>26 DEF Initialize
<1>27. CASE Remove
  BY <1>27 DEF Remove, RemoveFromWatched, ForgetBatch
<1>28. CASE Awake
  BY <1>28 DEF Awake
<1>29. CASE Clear
  BY <1>29 DEF Clear
<1>30. CASE BatchFails
  BY <1>30 DEF BatchFails, AbortBatch, ForgetBatch
<1>31. CASE UNCHANGED vars
  BY <1>31 DEF vars
<1> QED
  BY <1>1, <1>2, <1>3, <1>4, <1>5, <1>6, <1>7, <1>8, <1>9, <1>10,
     <1>11, <1>12, <1>13, <1>14, <1>15, <1>16, <1>17, <1>18, <1>19, <1>20,
     <1>21, <1>22, <1>23, <1>24, <1>25, <1>26, <1>27, <1>28, <1>29, <1>30,
     <1>31
     DEF Next, Chain, Callers, Poll, Apply, Faults, Replace

-----------------------------------------------------------------------------
RefinementInv == TypeOK /\ Control /\ AnswersHold /\ FaultFree /\ SeenBefore

\* A step that leaves these four variables alone is invisible to callers.
LEMMA Invisible ==
    UNCHANGED <<made, receipt, status, finalized>> => UNCHANGED Lifecycle!vars
  BY DEF Lifecycle!vars, Public, GivenUp, ObservedStatus

\* A step that changes what one object shows, and nothing else, in the terms of
\* TxLifecycle.
LEMMA ShowOne ==
    ASSUME NEW t \in Tx, NEW s, Public(t)' = s,
           \A u \in Tx \ {t} : Public(u)' = Public(u)
    PROVE  Lifecycle!Show(t, s)
  BY DEF Lifecycle!Show

\* A step of the life cycle of one transaction.
LEMMA OneStep ==
    ASSUME NEW t \in Tx,
           \/ Lifecycle!Track(t) \/ Lifecycle!See(t) \/ Lifecycle!Drop(t)
           \/ Lifecycle!Mined(t) \/ Lifecycle!Replaced(t) \/ Lifecycle!Announce(t)
           \/ Lifecycle!GiveUp(t)
    PROVE  Lifecycle!Next
  BY DEF Lifecycle!Next

\* The initial states correspond.
LEMMA RefinementInit == Init => Lifecycle!Init
  BY DEF Init, Lifecycle!Init, Public

\* Every step of the implementation is a step of the life cycle or a stutter.
LEMMA RefinementStep ==
    RefinementInv /\ [Next]_vars => [Lifecycle!Next]_(Lifecycle!vars)
<1> SUFFICES ASSUME RefinementInv, [Next]_vars
             PROVE  [Lifecycle!Next]_(Lifecycle!vars)
  OBVIOUS
<1> USE DEF RefinementInv, TypeOK, FaultFree, Behind, Stored, Outcome, Public, GivenUp,
            ObservedStatus, objectVars, recordVars
<1>1. ASSUME NEW t \in Tx, Construct(t)
      PROVE  Lifecycle!Next
  <2>1. Public(t) = "absent" /\ Public(t)' = "UNSEEN"
    BY <1>1 DEF Construct
  <2>2. \A u \in Tx \ {t} : Public(u)' = Public(u)
    BY <1>1 DEF Construct
  <2>3. Lifecycle!Show(t, "UNSEEN")
    BY <2>1, <2>2, ShowOne
  <2>4. Lifecycle!Track(t)
    BY <1>1, <2>1, <2>3 DEF Construct, Lifecycle!Track
  <2> QED
    BY <2>4, OneStep
<1>2. CASE PutReceipt
  <2>1. cur \in Tx /\ cur \in made /\ cur \notin finalized /\ receipt[cur] = "none"
    BY <1>2 DEF PutReceipt, Control
  <2>2. PICK t \in Tx : t = cur
    BY <2>1
  <2>3. /\ Public(t) \in {"UNSEEN", "PENDING", "DROPPED"}
        /\ Public(t)' \in Mined
    BY <1>2, <2>1, <2>2 DEF PutReceipt, Control
  <2>4. \A u \in Tx \ {t} : Public(u)' = Public(u)
    BY <1>2, <2>2 DEF PutReceipt
  <2>5. PICK outcome \in Mined : Public(t)' = outcome
    BY <2>3
  <2>6. Lifecycle!Show(t, outcome)
    BY <2>4, <2>5, ShowOne
  <2>7. Lifecycle!Mined(t)
    BY <1>2, <2>3, <2>6 DEF PutReceipt, Lifecycle!Mined, Lifecycle!Open
  <2> QED
    BY <2>7, OneStep
<1>3. CASE PutStatus
  <2>1. /\ cur \in Tx /\ cur \notin finalized /\ receipt[cur] = gotReceipt[cur]
        /\ gotReceipt[cur] \in Mined
    BY <1>3 DEF PutStatus, Control, AnswersHold
  <2> QED
    BY <1>3, <2>1 DEF PutStatus, Lifecycle!vars
<1>4. ASSUME NEW t \in Tx, ApplyPending(t)
      PROVE  [Lifecycle!Next]_(Lifecycle!vars)
  <2>1. t \in made /\ t \notin finalized /\ receipt[t] = "none"
    BY <1>4 DEF ApplyPending, Handle, Control
  <2>2. CASE status[t] = "PENDING"
    BY <1>4, <2>1, <2>2 DEF ApplyPending, Lifecycle!vars
  <2>3. CASE status[t] # "PENDING"
    <3>1. Public(t) \in {"UNSEEN", "DROPPED"} /\ Public(t)' = "PENDING"
      BY <1>4, <2>1, <2>3 DEF ApplyPending, Handle, Control
    <3>2. \A u \in Tx \ {t} : Public(u)' = Public(u)
      BY <1>4 DEF ApplyPending
    <3>3. Lifecycle!Show(t, "PENDING")
      BY <3>1, <3>2, ShowOne
    <3>4. Lifecycle!See(t)
      BY <1>4, <3>1, <3>3 DEF ApplyPending, Lifecycle!See
    <3> QED
      BY <3>4, OneStep
  <2> QED
    BY <2>2, <2>3
<1>5. ASSUME NEW t \in Tx, ApplyReplaced(t)
      PROVE  Lifecycle!Next
  <2>1. t \in made /\ t \notin finalized /\ receipt[t] = "none" /\ cur = NoTx
    BY <1>5 DEF ApplyReplaced, Handle, Control
  <2>2. status[t] = "UNSEEN" => t \in Seeded
    BY <1>5, <2>1 DEF ApplyReplaced, Handle, NonceAdvanced, SeenBefore
  <2>3. Public(t) \in {"UNSEEN", "PENDING", "DROPPED"} /\ Public(t)' = "REPLACED"
    BY <1>5, <2>1 DEF ApplyReplaced, Handle
  <2>4. \A u \in Tx \ {t} : Public(u)' = Public(u)
    BY <1>5 DEF ApplyReplaced
  <2>5. Lifecycle!Show(t, "REPLACED")
    BY <2>3, <2>4, ShowOne
  <2>6. Public(t) = status[t]
    BY <2>1
  <2>7. Lifecycle!Replaced(t)
    BY <1>5, <2>2, <2>3, <2>5, <2>6 DEF ApplyReplaced, Lifecycle!Replaced, Lifecycle!Open
  <2> QED
    BY <2>7, OneStep
<1>6. ASSUME NEW t \in Tx, ApplyDropped(t)
      PROVE  [Lifecycle!Next]_(Lifecycle!vars)
  <2>1. t \in made /\ t \notin finalized /\ receipt[t] = "none" /\ cur = NoTx
    BY <1>6 DEF ApplyDropped, Handle, Control
  <2>2. CASE status[t] = "DROPPED"
    BY <1>6, <2>1, <2>2 DEF ApplyDropped, Lifecycle!vars
  <2>3. CASE status[t] # "DROPPED"
    <3>1. Public(t) = "PENDING" /\ Public(t)' = "DROPPED"
      BY <1>6, <2>1, <2>3 DEF ApplyDropped, Handle
    <3>2. \A u \in Tx \ {t} : Public(u)' = Public(u)
      BY <1>6 DEF ApplyDropped
    <3>3. Lifecycle!Show(t, "DROPPED")
      BY <3>1, <3>2, ShowOne
    <3>4. Lifecycle!Drop(t)
      BY <1>6, <3>1, <3>3 DEF ApplyDropped, Lifecycle!Drop
    <3> QED
      BY <3>4, OneStep
  <2> QED
    BY <2>2, <2>3
<1>7. CASE Finalize
  <2>1. cur \in Tx /\ cur \in made /\ cur \notin finalized /\ Outcome(cur)
    BY <1>7 DEF Finalize, FinalizeThen, Control
  <2>2. PICK t \in Tx : t = cur
    BY <2>1
  <2>3. \A u \in Tx \ {t} : Public(u)' = Public(u)
    BY <1>7, <2>2 DEF Finalize, FinalizeThen
  <2>4. CASE GivenUp(t)
    <3>1. Public(t) = "UNSEEN" /\ Public(t)' = "NOTFOUND"
      BY <1>7, <2>1, <2>2, <2>4 DEF Finalize, FinalizeThen
    <3>2. Lifecycle!Show(t, "NOTFOUND")
      BY <2>3, <3>1, ShowOne
    <3>3. Lifecycle!GiveUp(t)
      BY <1>7, <2>2, <2>4, <3>1, <3>2 DEF Finalize, FinalizeThen, Lifecycle!GiveUp
    <3> QED
      BY <3>3, OneStep
  <2>5. CASE ~GivenUp(t)
    <3>1. Lifecycle!Announce(t)
      BY <1>7, <2>1, <2>2, <2>5 DEF Finalize, FinalizeThen, Lifecycle!Announce
    <3> QED
      BY <3>1, OneStep
  <2> QED
    BY <2>4, <2>5
<1>8. \/ UNCHANGED <<made, receipt, status, finalized>>
      \/ \E t \in Tx : \/ Construct(t) \/ ApplyPending(t) \/ ApplyReplaced(t)
                       \/ ApplyDropped(t)
      \/ PutReceipt \/ PutStatus \/ Finalize
  BY DEF Next, vars, Chain, Callers, Poll, Apply, Faults, Replace, recordVars, objectVars,
         Broadcast, Evict, Mine, Supersede, Transact, Signal, Release, ResolveRevert,
         Snapshot, StartBatch, EndPoll, AskTx, AskReceipt, AskNonce, ApplyReceipt,
         ApplyUnseen, StartRevert, Initialize, Remove, RemoveFromWatched, Awake, Clear,
         BatchFails, CallFails, AbortBatch
<1> QED
  BY <1>1, <1>2, <1>3, <1>4, <1>5, <1>6, <1>7, <1>8, Invisible

\* Without call failures the monitor implements the promised life cycle, for any
\* number of transactions, any slots and any batch size.
THEOREM MonitorImplementsLifecycle == ~CallCanFail /\ Spec => ImplementsLifecycle
<1>1. Init => SeenBefore
  BY DEF Init, SeenBefore
<1>2. TypeOK /\ Control /\ SeenBefore /\ [Next]_vars => SeenBefore'
  BY SeenStep
<1>3. ~CallCanFail /\ Spec => []RefinementInv
  BY FaultFreeCorrect, <1>1, <1>2, PTL DEF Spec, RefinementInv
<1> QED
  BY <1>3, RefinementInit, RefinementStep, PTL DEF Spec, ImplementsLifecycle, Lifecycle!Spec

-----------------------------------------------------------------------------
(* Readers.  What a caller was told of a settled transaction is true and is  *)
(* what it is told again.  As for the monitor's own finality, no call of a   *)
(* batch may fail.                                                           *)

USE TxAssumption, SlotAssumption, KindAssumption, ReaderAssumption
    DEF Mined, TxStatus, Stages, MayBeUnseen, Resting, Asking, Failing

MonitorInv == TypeOK /\ Control /\ AnswersHold /\ FaultFree

-----------------------------------------------------------------------------
(* What the monitor leaves to a reader between two of its accesses.          *)

\* Only these steps write what a reader reads.
LEMMA Writers ==
    [Next]_vars =>
        \/ UNCHANGED <<receipt, status>>
        \/ \E t \in Tx : ApplyPending(t) \/ ApplyReplaced(t) \/ ApplyDropped(t)
        \/ PutReceipt \/ PutStatus
  BY DEF Next, vars, Chain, Callers, Poll, Apply, Faults, Replace, recordVars, objectVars,
         Broadcast, Evict, Mine, Supersede, Transact, Construct, Signal, Release,
         ResolveRevert, Snapshot, StartBatch, EndPoll, AskTx, AskReceipt, AskNonce,
         ApplyReceipt, ApplyUnseen, Finalize, FinalizeThen, StartRevert, Initialize,
         Remove, RemoveFromWatched, Awake, Clear, BatchFails, CallFails, AbortBatch

\* Neither event is ever cleared.
LEMMA EventsStay ==
    [Next]_vars => initialized \subseteq initialized' /\ finalized \subseteq finalized'
  BY DEF Next, vars, Chain, Callers, Poll, Apply, Faults, Replace, recordVars, objectVars,
         Broadcast, Evict, Mine, Supersede, Transact, Construct, Signal, Release,
         ResolveRevert, Snapshot, StartBatch, EndPoll, AskTx, AskReceipt, AskNonce,
         ApplyReceipt, ApplyPending, ApplyReplaced, ApplyDropped, ApplyUnseen, PutReceipt,
         PutStatus, Finalize, FinalizeThen, StartRevert, Initialize, Remove,
         RemoveFromWatched, Awake, Clear, BatchFails, CallFails, AbortBatch

\* A receipt, REPLACED and the record of a finalized transaction are never
\* overwritten, even before wait() returns.
LEMMA SettledStays ==
    ASSUME MonitorInv, [Next]_vars, NEW t \in Tx
    PROVE  /\ receipt[t] # "none" => receipt'[t] = receipt[t]
           /\ status[t] = "REPLACED" => status'[t] = "REPLACED"
           /\ t \in finalized => receipt'[t] = receipt[t] /\ status'[t] = status[t]
<1> USE DEF MonitorInv, TypeOK, Control, FaultFree, Behind, Stored, Outcome
<1>1. ASSUME NEW u \in Tx, ApplyPending(u) \/ ApplyReplaced(u) \/ ApplyDropped(u)
      PROVE  /\ receipt' = receipt /\ status' = [status EXCEPT ![u] = status'[u]]
             /\ u \notin finalized /\ status[u] # "REPLACED"
  BY <1>1 DEF ApplyPending, ApplyReplaced, ApplyDropped, Handle
<1>2. ASSUME PutReceipt
      PROVE  /\ status' = status /\ receipt' = [receipt EXCEPT ![cur] = receipt'[cur]]
             /\ cur \notin finalized /\ receipt[cur] = "none"
  BY <1>2 DEF PutReceipt
<1>3. ASSUME PutStatus
      PROVE  /\ receipt' = receipt /\ status' = [status EXCEPT ![cur] = status'[cur]]
             /\ cur \notin finalized /\ status[cur] # "REPLACED"
  BY <1>3 DEF PutStatus
<1> QED
  BY <1>1, <1>2, <1>3, Writers

-----------------------------------------------------------------------------
(* The not-found verdict.                                                    *)

\* An object that has been through its first update and still shows UNSEEN, though
\* nobody asked to keep watching it, has been given up.
Verdict ==
    \A t \in Tx \ MayBeUnseen :
        /\ status[t] = "UNSEEN"
        /\ t \in initialized \/ (t = cur /\ pc \in {"revert", "initialize"})
        => t \in finalized

\* _initialized is set last, after the verdict.
LEMMA VerdictStep == MonitorInv /\ Verdict /\ [Next]_vars => Verdict'
<1> SUFFICES ASSUME MonitorInv, Verdict, [Next]_vars PROVE Verdict'
  OBVIOUS
<1> USE DEF MonitorInv, TypeOK, Control, Verdict, chainVars, recordVars, revertVars,
            objectVars, watchVars, threadVars, sweepVars, batchVars, answerVars
<1>1. ASSUME NEW t \in Tx, Construct(t) PROVE Verdict'
  BY <1>1 DEF Construct
<1>2. ASSUME NEW t \in Tx, ApplyPending(t) PROVE Verdict'
  BY <1>2 DEF ApplyPending, Handle
<1>3. ASSUME NEW t \in Tx, ApplyReplaced(t) PROVE Verdict'
  BY <1>3 DEF ApplyReplaced, Handle
<1>4. ASSUME NEW t \in Tx, ApplyDropped(t) PROVE Verdict'
  BY <1>4 DEF ApplyDropped, Handle
<1>5. ASSUME NEW t \in Tx, ApplyUnseen(t) PROVE Verdict'
  BY <1>5 DEF ApplyUnseen, Handle
<1>6. CASE PutStatus
  BY <1>6 DEF PutStatus
<1>7. CASE Finalize
  BY <1>7 DEF Finalize, FinalizeThen
<1>8. CASE StartRevert
  BY <1>8 DEF StartRevert
<1>9. CASE Initialize
  BY <1>9 DEF Initialize
<1>10. \/ /\ UNCHANGED <<status, initialized, finalized>>
          /\ UNCHANGED <<cur, pc>> \/ pc' \notin {"revert", "initialize"}
       \/ \E t \in Tx : \/ Construct(t) \/ ApplyPending(t) \/ ApplyReplaced(t)
                        \/ ApplyDropped(t) \/ ApplyUnseen(t)
       \/ PutStatus \/ Finalize \/ StartRevert \/ Initialize
  BY DEF Next, vars, Chain, Callers, Poll, Apply, Faults, Replace,
         Broadcast, Evict, Mine, Supersede, Transact, Signal, Release, ResolveRevert,
         Snapshot, StartBatch, EndPoll, AskTx, AskReceipt, AskNonce, ApplyReceipt,
         PutReceipt, Remove, RemoveFromWatched, Awake, Clear, BatchFails, CallFails,
         AbortBatch
<1> QED
  BY <1>1, <1>2, <1>3, <1>4, <1>5, <1>6, <1>7, <1>8, <1>9, <1>10

-----------------------------------------------------------------------------
(* The readers.                                                              *)

\* What a reader was told binds its next read at every place of the getter: a mined
\* answer has its receipt, so the read never gets past it; a not-found answer is
\* repeated by the check, so the read never gets past that.
ReaderInv ==
    /\ at \in [Reader -> {"out", "await", "check", "receipt", "status"}]
    /\ DOMAIN shown = Reader
    /\ \A r \in Reader :
           /\ at[r] = "check" => ReadOf[r] \in initialized
           /\ shown[r] \in Mined =>
                  receipt[ReadOf[r]] = shown[r] /\ at[r] # "status"
           /\ shown[r] = "REPLACED" => status[ReadOf[r]] = "REPLACED"
           /\ shown[r] = "NOTFOUND" =>
                  /\ GivenUp(ReadOf[r]) /\ ReadOf[r] \in finalized
                  /\ at[r] \notin {"receipt", "status"}

\* The monitor's steps keep what the readers were told.
LEMMA MonitorKeepsReaders ==
    MonitorInv /\ ReaderInv /\ [Next]_vars /\ UNCHANGED readerVars => ReaderInv'
<1> SUFFICES ASSUME MonitorInv, ReaderInv, [Next]_vars, UNCHANGED readerVars
             PROVE  ReaderInv'
  OBVIOUS
<1> USE DEF ReaderInv, readerVars
<1>1. \A t \in Tx :
          /\ receipt[t] # "none" => receipt'[t] = receipt[t]
          /\ status[t] = "REPLACED" => status'[t] = "REPLACED"
          /\ t \in finalized => receipt'[t] = receipt[t] /\ status'[t] = status[t]
  BY SettledStays
<1> QED
  BY <1>1, EventsStay DEF GivenUp

\* One access of a reader; the monitor stands still.
LEMMA ReadStep ==
    ASSUME MonitorInv, Truthful, Verdict, ReaderInv, NEW r \in Reader, Read(r)
    PROVE  /\ ReaderInv'
           /\ shown[r] \in Mined \union {"REPLACED", "NOTFOUND"} => shown'[r] = shown[r]
           /\ \A q \in Reader \ {r} : shown'[q] = shown[q]
<1> DEFINE t == ReadOf[r]
           Settled == shown[r] \in Mined \union {"REPLACED", "NOTFOUND"}
                         => shown'[r] = shown[r]
           Others == \A q \in Reader \ {r} : shown'[q] = shown[q]
<1>1. t \in Tx /\ (t \notin finalized \/ Outcome(t))
  BY DEF MonitorInv, FaultFree, Stored
<1> USE DEF ReaderInv, GoTo, Answer, GivenUp
<1>2. CASE Begin(r)
  BY <1>2 DEF Begin, vars, objectVars, recordVars
<1>3. CASE Awaited(r)
  BY <1>3 DEF Awaited, vars, objectVars, recordVars
<1>4. CASE CheckSeen(r)
  BY <1>1, <1>4 DEF CheckSeen, Verdict, Outcome, MonitorInv, TypeOK,
                    vars, objectVars, recordVars
<1>5. CASE ReadReceipt(r)
  BY <1>1, <1>5 DEF ReadReceipt, MonitorInv, TypeOK, FaultFree, Stored, Outcome,
                    vars, objectVars, recordVars
<1>6. CASE ReadStatus(r)
  BY <1>1, <1>6 DEF ReadStatus, MonitorInv, TypeOK, Truthful, vars, objectVars, recordVars
<1> QED
  BY <1>2, <1>3, <1>4, <1>5, <1>6 DEF Read

-----------------------------------------------------------------------------
CallerInv == MonitorInv /\ Truthful /\ Verdict /\ ReaderInv

LEMMA CallerInit == ReaderInit => CallerInv
<1> SUFFICES ASSUME ReaderInit PROVE CallerInv
  OBVIOUS
<1>1. MonitorInv /\ Truthful
  BY TypeInit, TruthInit, FaultFreeInit DEF ReaderInit, MonitorInv
<1>2. Verdict /\ ReaderInv
  BY DEF ReaderInit, Init, Verdict, ReaderInv
<1> QED
  BY <1>1, <1>2 DEF CallerInv

LEMMA CallerStep == ~CallCanFail /\ CallerInv /\ [ReaderNext]_allVars => CallerInv'
<1> SUFFICES ASSUME ~CallCanFail, CallerInv, [ReaderNext]_allVars PROVE CallerInv'
  OBVIOUS
<1>1. ASSUME [Next]_vars PROVE (MonitorInv /\ Truthful /\ Verdict)'
  BY <1>1, TypeStep, ControlStep, AnswersStep, TruthStep, NoErrorsStep, BehindStep, StoredStep,
     VerdictStep
     DEF CallerInv, MonitorInv, FaultFree
<1>2. ASSUME [Next]_vars, UNCHANGED readerVars PROVE CallerInv'
  BY <1>1, <1>2, MonitorKeepsReaders DEF CallerInv
<1>3. ASSUME NEW r \in Reader, Read(r) PROVE CallerInv'
  <2>1. UNCHANGED vars
    BY <1>3 DEF Read, Begin, Awaited, CheckSeen, ReadReceipt, ReadStatus
  <2> QED
    BY <1>1, <1>3, <2>1, ReadStep DEF CallerInv
<1> QED
  BY <1>2, <1>3 DEF ReaderNext, allVars

LEMMA CallerCorrect == ~CallCanFail /\ ReaderSpec => []CallerInv
<1> SUFFICES ASSUME ~CallCanFail PROVE ReaderSpec => []CallerInv
  OBVIOUS
<1> QED
  BY CallerInit, CallerStep, PTL DEF ReaderSpec

\* What a caller was told last of a settled transaction is true, however its read
\* interleaved with the monitor's assignments.
THEOREM AnswersTrue == ~CallCanFail /\ ReaderSpec => []AnswersAreTrue
<1>1. CallerInv => AnswersAreTrue
  BY DEF CallerInv, ReaderInv, Truthful, AnswersAreTrue
<1> QED
  BY <1>1, CallerCorrect, PTL

\* A caller that was given a settled answer is given it again, by every later read.
THEOREM AnswersSettle == ~CallCanFail /\ ReaderSpec => AnswersSettleOnce
<1> DEFINE Once == \A r \in Reader :
                       shown[r] \in Mined \union {"REPLACED", "NOTFOUND"} =>
                           shown'[r] = shown[r]
<1>1. CallerInv /\ [ReaderNext]_allVars => [Once]_allVars
  <2> SUFFICES ASSUME CallerInv, [ReaderNext]_allVars PROVE Once
    OBVIOUS
  <2>1. ASSUME UNCHANGED readerVars PROVE Once
    BY <2>1 DEF readerVars
  <2>2. ASSUME NEW r \in Reader, Read(r) PROVE Once
    BY <2>2, ReadStep DEF CallerInv
  <2> QED
    BY <2>1, <2>2 DEF ReaderNext, allVars
<1> QED
  BY <1>1, CallerCorrect, PTL DEF ReaderSpec, AnswersSettleOnce

-----------------------------------------------------------------------------
(* Mined answers, whatever fails.  With call failures the monitor may handle  *)
(* an object again that it has finalized, and the theorems above are false;   *)
(* but it can only write the same receipt again, and a receipt is read first. *)

ReceiptInv == TypeOK /\ Control /\ AnswersHold /\ Truthful

\* A caller is past the check only when the object shows more than UNSEEN, or was
\* asked to keep watching; neither is taken back.
SeenInv ==
    /\ at \in [Reader -> {"out", "await", "check", "receipt", "status"}]
    /\ DOMAIN shown = Reader
    /\ \A r \in Reader :
           /\ at[r] \in {"receipt", "status"} \/ shown[r] \in Mined =>
                  status[ReadOf[r]] # "UNSEEN" \/ ReadOf[r] \in MayBeUnseen
           /\ shown[r] \in Mined =>
                  receipt[ReadOf[r]] = shown[r] /\ at[r] # "status"

\* A receipt is never changed, and no object becomes UNSEEN again.
LEMMA ReceiptStays ==
    ASSUME ReceiptInv, [Next]_vars, NEW t \in Tx
    PROVE  /\ receipt[t] # "none" => receipt'[t] = receipt[t]
           /\ status[t] # "UNSEEN" => status'[t] # "UNSEEN"
<1> USE DEF ReceiptInv, TypeOK, Control, AnswersHold, Truthful
<1>1. ASSUME NEW u \in Tx, ApplyPending(u) \/ ApplyReplaced(u) \/ ApplyDropped(u)
      PROVE  receipt' = receipt /\ (status[t] # "UNSEEN" => status'[t] # "UNSEEN")
  BY <1>1 DEF ApplyPending, ApplyReplaced, ApplyDropped, Handle
<1>2. ASSUME PutReceipt
      PROVE  /\ status' = status
             /\ receipt[t] # "none" => receipt'[t] = receipt[t]
  BY <1>2 DEF PutReceipt
<1>3. ASSUME PutStatus
      PROVE  receipt' = receipt /\ (status[t] # "UNSEEN" => status'[t] # "UNSEEN")
  BY <1>3 DEF PutStatus
<1> QED
  BY <1>1, <1>2, <1>3, Writers

LEMMA SeenReadStep ==
    ASSUME ReceiptInv, SeenInv, NEW r \in Reader, Read(r)
    PROVE  /\ SeenInv'
           /\ shown[r] \in Mined => shown'[r] = shown[r]
           /\ \A q \in Reader \ {r} : shown'[q] = shown[q]
<1> USE DEF SeenInv, ReceiptInv, TypeOK, GoTo, Answer, vars, objectVars, recordVars
<1>1. CASE Begin(r)
  BY <1>1 DEF Begin
<1>2. CASE Awaited(r)
  BY <1>2 DEF Awaited
<1>3. CASE CheckSeen(r)
  BY <1>3 DEF CheckSeen
<1>4. CASE ReadReceipt(r)
  BY <1>4 DEF ReadReceipt
<1>5. CASE ReadStatus(r)
  BY <1>5 DEF ReadStatus, Truthful
<1> QED
  BY <1>1, <1>2, <1>3, <1>4, <1>5 DEF Read

LEMMA SeenCorrect == ReaderSpec => [](ReceiptInv /\ SeenInv)
<1>1. ReaderInit => ReceiptInv /\ SeenInv
  <2>1. ReaderInit => ReceiptInv
    BY TypeInit, TruthInit DEF ReaderInit, ReceiptInv
  <2> QED
    BY <2>1 DEF ReaderInit, SeenInv
<1>2. ASSUME ReceiptInv, [Next]_vars PROVE ReceiptInv'
  BY <1>2, TypeStep, ControlStep, AnswersStep, TruthStep DEF ReceiptInv
<1>3. ASSUME ReceiptInv, SeenInv, [Next]_vars, UNCHANGED readerVars
      PROVE  (ReceiptInv /\ SeenInv)'
  <2>1. \A t \in Tx :
            /\ receipt[t] # "none" => receipt'[t] = receipt[t]
            /\ status[t] # "UNSEEN" => status'[t] # "UNSEEN"
    BY <1>3, ReceiptStays
  <2>2. SeenInv'
    BY <1>3, <2>1 DEF SeenInv, readerVars
  <2> QED
    BY <1>2, <1>3, <2>2
<1>4. ASSUME ReceiptInv, SeenInv, NEW r \in Reader, Read(r)
      PROVE  (ReceiptInv /\ SeenInv)'
  <2>1. UNCHANGED vars
    BY <1>4 DEF Read, Begin, Awaited, CheckSeen, ReadReceipt, ReadStatus
  <2> QED
    BY <1>2, <1>4, <2>1, SeenReadStep
<1>5. ReceiptInv /\ SeenInv /\ [ReaderNext]_allVars => (ReceiptInv /\ SeenInv)'
  BY <1>3, <1>4 DEF ReaderNext, allVars
<1> QED
  BY <1>1, <1>5, PTL DEF ReaderSpec

\* CONFIRMED and REVERTED are the outcome on the chain and are never taken back by a
\* later read, even when batches and single calls fail.
THEOREM MinedAnswersAreFinal ==
    ReaderSpec =>
        /\ [](\A r \in Reader : shown[r] \in Mined => place[ReadOf[r]] = shown[r])
        /\ [][\A r \in Reader : shown[r] \in Mined => shown'[r] = shown[r]]_allVars
<1> DEFINE Correct == \A r \in Reader : shown[r] \in Mined => place[ReadOf[r]] = shown[r]
           Stay == \A r \in Reader : shown[r] \in Mined => shown'[r] = shown[r]
<1>1. ReceiptInv /\ SeenInv => Correct
  BY DEF ReceiptInv, SeenInv, Truthful
<1>2. ReceiptInv /\ SeenInv /\ [ReaderNext]_allVars => [Stay]_allVars
  <2> SUFFICES ASSUME ReceiptInv, SeenInv, [ReaderNext]_allVars PROVE Stay
    OBVIOUS
  <2>1. ASSUME UNCHANGED readerVars PROVE Stay
    BY <2>1 DEF readerVars
  <2>2. ASSUME NEW r \in Reader, Read(r) PROVE Stay
    BY <2>2, SeenReadStep
  <2> QED
    BY <2>1, <2>2 DEF ReaderNext, allVars
<1> QED
  BY <1>1, <1>2, SeenCorrect, PTL DEF ReaderSpec
=============================================================================
