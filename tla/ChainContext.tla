---------------------------- MODULE ChainContext ----------------------------
(***************************************************************************)
(* The default chain of a thread and the context managers that set it      *)
(* (chain.py 17-44, 279-307), and how whatever talks to a chain finds the  *)
(* chain it may talk to: Account._resolve_chain (account.py 419-436) and   *)
(* the check of strict mode in Chain.w3 (chain.py 168-170).                *)
(*                                                                         *)
(* A manager is one object made by as_default().  The with statement calls *)
(* __exit__ for every __enter__ that returned, last in first out, also     *)
(* when its body raises.  Any thread may use a manager again, also one that is  *)
(* entered; a manager remembers one default only, the one it found last.   *)
(***************************************************************************)
EXTENDS Naturals, Sequences

CONSTANTS
    Thread, Chain,
    Worker,         \* the threads that do more than entering and leaving contexts
    NoChain,        \* None
    Manager,        \* _DefaultChainContext objects
    ChainOf,        \* the chain each of them makes the default one
    Strict,         \* those made with strict=True
    MaxDepth        \* bound: how many contexts each thread nests

ASSUME ChainAssumption   == NoChain \notin Chain /\ Worker \subseteq Thread
ASSUME ManagerAssumption == ChainOf \in [Manager -> Chain] /\ Strict \subseteq Manager

VARIABLES
    default,        \* _thread_local: default_chain and default_chain_strict
    previous,       \* _previous of each manager
    stack           \* the managers each thread is inside, and (history) the default
                    \* found by each entry and whether its manager was entered again

contextVars == <<default, previous, stack>>

DefaultType == [chain : Chain \union {NoChain}, strict : BOOLEAN]
Unset == [chain |-> NoChain, strict |-> FALSE]
Setting(m) == [chain |-> ChainOf[m], strict |-> m \in Strict]

ContextTypeOK ==
    /\ default \in [Thread -> DefaultType]
    /\ previous \in [Manager -> DefaultType]
    /\ stack \in [Thread -> Seq([manager : Manager, found : DefaultType, again : BOOLEAN])]

ContextInit ==
    /\ default = [t \in Thread |-> Unset]
    /\ previous = [m \in Manager |-> Unset]
    /\ stack = [t \in Thread |-> <<>>]

Managers(t) == {stack[t][i].manager : i \in 1 .. Len(stack[t])}

\* Variant: only a strict manager looks at the default it replaces.
EntryRefused_Lax(t, m) ==
    m \in Strict /\ default[t].chain \notin {NoChain, ChainOf[m]}

\* Inside strict mode nothing may be nested, and a strict manager may not change chains.
EntryRefused(t, m) ==
    \/ default[t].strict
    \/ m \in Strict /\ default[t].chain \notin {NoChain, ChainOf[m]}

\* History: every entry of m that is not left yet is marked.
EnteredAgain(entries, m) ==
    [i \in 1 .. Len(entries) |->
        [entries[i] EXCEPT !.again = @ \/ entries[i].manager = m]]

\* __enter__.  The default is noted before the checks, also by an entry that is refused;
\* what an earlier entry of the manager noted is lost.
Enter(t, m) ==
    /\ previous' = [previous EXCEPT ![m] = default[t]]
    /\ LET marked == [u \in Thread |-> EnteredAgain(stack[u], m)]
           entry == [manager |-> m, found |-> default[t], again |-> FALSE]
       IN  IF EntryRefused(t, m) THEN stack' = marked /\ UNCHANGED default
           ELSE /\ Len(stack[t]) < MaxDepth[t]
                /\ default' = [default EXCEPT ![t] = Setting(m)]
                /\ stack' = [marked EXCEPT ![t] = Append(@, entry)]

Innermost(t) == stack[t][Len(stack[t])]

\* Variant: leaving clears the default instead of restoring it.
Leave_Clears(t) ==
    /\ stack[t] # <<>>
    /\ default' = [default EXCEPT ![t] = Unset]
    /\ stack' = [stack EXCEPT ![t] = SubSeq(@, 1, Len(@) - 1)]
    /\ UNCHANGED previous

\* __exit__ of the innermost manager.
Leave(t) ==
    /\ stack[t] # <<>>
    /\ default' = [default EXCEPT ![t] = previous[Innermost(t).manager]]
    /\ stack' = [stack EXCEPT ![t] = SubSeq(@, 1, Len(@) - 1)]
    /\ UNCHANGED previous

ContextStep(t) == (\E m \in Manager : Enter(t, m)) \/ Leave(t)

ContextSpec == ContextInit /\ [][\E t \in Thread : ContextStep(t)]_contextVars

-----------------------------------------------------------------------------
(* Finding a chain.                                                         *)

\* Chain.w3: in strict mode only the default chain hands out its client.
Permitted(t, c) == default[t].strict => default[t].chain \in {NoChain, c}

\* Account._resolve_chain of an account bound by on(), or not (NoChain), and its chain
\* argument; NoChain is NoActiveChain or ChainMismatch.
Resolved(t, bound, arg) ==
    IF bound = NoChain THEN IF arg = NoChain THEN default[t].chain ELSE arg
    ELSE IF arg \in {NoChain, bound} THEN bound ELSE NoChain

\* The chain a request of such an account is sent to: one or none.
Reached(t, bound, arg) ==
    {c \in {Resolved(t, bound, arg)} \ {NoChain} : Permitted(t, c)}

-----------------------------------------------------------------------------
(* Properties.                                                              *)

\* Leaving a context puts back the default chain and strictness that entering it found,
\* however contexts are nested, refused and reused in between (chain.py 286-287), unless
\* somebody entered, or was refused, the same manager once more before it was left.
LeavingRestores ==
    [][\A t \in Thread :
           Len(stack'[t]) < Len(stack[t]) /\ ~Innermost(t).again =>
               default'[t] = Innermost(t).found]_contextVars

\* Whoever is anywhere inside a strict context reaches no other chain, through bound or
\* unbound accounts, with or without an argument (chain.py 160-162).
StrictIsConfined ==
    \A t \in Thread : \A m \in Managers(t) \intersect Strict :
        \A bound, arg \in Chain \union {NoChain} :
            Reached(t, bound, arg) \subseteq {ChainOf[m]}
=============================================================================
