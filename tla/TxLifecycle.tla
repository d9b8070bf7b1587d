---------------------------- MODULE TxLifecycle ----------------------------
(***************************************************************************)
(* What a Transaction object promises the code that holds it, with no      *)
(* monitor, node or thread in sight (README "Transaction lifecycle",       *)
(* TxStatus and the public methods of transaction.py).                     *)
(*                                                                         *)
(* A transaction starts UNSEEN, may appear and disappear any number of     *)
(* times, and settles once: mined, replaced, or given up as not found.     *)
(* A settled status never changes, and wait() returns only after it.       *)
(***************************************************************************)
CONSTANTS
    Tx,             \* Transaction objects
    Seeded,         \* built by transact(), their sender and nonce are known
    MayBeUnseen     \* objects that keep watching a hash nobody has seen

VARIABLES
    public,         \* the status each object shows; "absent" before it exists
    done            \* objects whose wait() returns

vars == <<public, done>>

Open    == {"UNSEEN", "PENDING", "DROPPED"}
Settled == {"CONFIRMED", "REVERTED", "REPLACED", "NOTFOUND"}

TypeOK ==
    /\ public \in [Tx -> Open \union Settled \union {"absent"}]
    /\ done \subseteq Tx

Init ==
    /\ public = [t \in Tx |-> "absent"]
    /\ done = {}

Show(t, s) == public' = [public EXCEPT ![t] = s]

Track(t) ==
    /\ public[t] = "absent"
    /\ Show(t, "UNSEEN") /\ UNCHANGED done

See(t) ==
    /\ public[t] \in {"UNSEEN", "DROPPED"}
    /\ Show(t, "PENDING") /\ UNCHANGED done

Drop(t) ==
    /\ public[t] = "PENDING"
    /\ Show(t, "DROPPED") /\ UNCHANGED done

\* A receipt settles any open transaction.
Mined(t) ==
    /\ public[t] \in Open
    /\ \E s \in {"CONFIRMED", "REVERTED"} : Show(t, s)
    /\ UNCHANGED done

\* Only a transaction whose sender is known can be declared replaced.
Replaced(t) ==
    /\ public[t] \in Open
    /\ public[t] = "UNSEEN" => t \in Seeded
    /\ Show(t, "REPLACED") /\ UNCHANGED done

\* wait() starts returning once the status has settled.
Announce(t) ==
    /\ public[t] \in {"CONFIRMED", "REVERTED", "REPLACED"}
    /\ done' = done \union {t} /\ UNCHANGED public

\* The not-found verdict and the end of wait() are one step.
GiveUp(t) ==
    /\ public[t] = "UNSEEN" /\ t \notin MayBeUnseen
    /\ Show(t, "NOTFOUND") /\ done' = done \union {t}

Next == \E t \in Tx :
    \/ Track(t) \/ See(t) \/ Drop(t) \/ Mined(t) \/ Replaced(t)
    \/ Announce(t) \/ GiveUp(t)

Spec == Init /\ [][Next]_vars
=============================================================================
