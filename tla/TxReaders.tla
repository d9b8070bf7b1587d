----------------------------- MODULE TxReaders -----------------------------
(***************************************************************************)
(* Callers that read a Transaction while the monitor writes it             *)
(* (transaction.py, the tx_property getters).  A read is several field     *)
(* accesses, and the monitor may run between any two of them: first wait   *)
(* for _initialized, then look at _status for the not-found verdict, then  *)
(* at _receipt, and only without one at _status again.                     *)
(*                                                                         *)
(* Each Reader keeps asking one transaction for its status; shown is the   *)
(* last answer it got.                                                     *)
(***************************************************************************)
EXTENDS TxMonitor

CONSTANTS
    Reader,         \* calling threads
    ReadOf          \* the transaction each reader asks

ASSUME ReaderAssumption == ReadOf \in [Reader -> Tx]

VARIABLES
    at,             \* where each reader is in the getter
    shown           \* the last answer of each reader

readerVars == <<at, shown>>
allVars == <<vars, readerVars>>

ReaderInit ==
    /\ Init
    /\ at = [r \in Reader |-> "out"]
    /\ shown = [r \in Reader |-> "nothing"]

GoTo(r, where) == at' = [at EXCEPT ![r] = where]
Answer(r, value) == shown' = [shown EXCEPT ![r] = value] /\ GoTo(r, "out")

\* tx.status
Begin(r) ==
    /\ at[r] = "out" /\ ReadOf[r] \in held
    /\ GoTo(r, "await") /\ UNCHANGED <<shown, vars>>

\* Variant: the not-found check does not wait for the first update.
Awaited_Never(r) ==
    /\ at[r] = "await"
    /\ GoTo(r, "check") /\ UNCHANGED <<shown, vars>>

\* _initialized.wait() returns.
Awaited(r) ==
    /\ at[r] = "await" /\ ReadOf[r] \in initialized
    /\ GoTo(r, "check") /\ UNCHANGED <<shown, vars>>

\* Raise TransactionNotFound, or go on.
CheckSeen(r) ==
    /\ at[r] = "check"
    /\ LET t == ReadOf[r] IN
       IF status[t] = "UNSEEN" /\ t \notin MayBeUnseen
       THEN Answer(r, "NOTFOUND")
       ELSE GoTo(r, "receipt") /\ UNCHANGED shown
    /\ UNCHANGED vars

ReadReceipt(r) ==
    /\ at[r] = "receipt"
    /\ IF receipt[ReadOf[r]] # "none"
       THEN Answer(r, receipt[ReadOf[r]])
       ELSE GoTo(r, "status") /\ UNCHANGED shown
    /\ UNCHANGED vars

ReadStatus(r) ==
    /\ at[r] = "status"
    /\ Answer(r, status[ReadOf[r]])
    /\ UNCHANGED vars

Read(r) == Begin(r) \/ Awaited(r) \/ CheckSeen(r) \/ ReadReceipt(r) \/ ReadStatus(r)

ReaderNext ==
    \/ \E r \in Reader : Read(r)
    \/ Next /\ UNCHANGED readerVars

ReaderSpec == ReaderInit /\ [][ReaderNext]_allVars

-----------------------------------------------------------------------------
\* Once a caller was given a settled answer (mined, replaced, or the exception
\* TransactionNotFound) every later answer it gets is the same, although each read
\* is several field accesses interleaved with the monitor's assignments
\* (transaction.py _await_initial_update and status).
AnswersSettleOnce ==
    [][\A r \in Reader :
           shown[r] \in Mined \union {"REPLACED", "NOTFOUND"} =>
               shown'[r] = shown[r]]_allVars

\* A caller is never told a status of another object's life: whatever it was shown
\* last, TransactionNotFound and REPLACED are still what the object stands at, and
\* a mined answer is the outcome on the chain.
AnswersAreTrue ==
    \A r \in Reader :
        /\ shown[r] \in Mined => place[ReadOf[r]] = shown[r]
        /\ shown[r] = "REPLACED" => status[ReadOf[r]] = "REPLACED"
        /\ shown[r] = "NOTFOUND" => GivenUp(ReadOf[r]) /\ ReadOf[r] \in finalized

=============================================================================
