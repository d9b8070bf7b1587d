--------------------------- MODULE MCContractAbi ---------------------------
(* Instances of ContractAbi for TLC: a proxy p with implementation i.       *)
EXTENDS ContractAbi, TLC

CONSTANTS p, i, o1, o2, r1

Implementations == (p :> i) @@ (i :> None)

\* One thread reads the first Contract; the second one shares its cache entries.
ReadsFirst == r1 :> o1

Args(implementation_, refresh_) ==
    [addr |-> p, explicit |-> FALSE, implementation |-> implementation_,
     refresh |-> refresh_]

Default == Args("auto", "default")
Explicit == [Default EXCEPT !.explicit = TRUE]

\* Every kind of Contract at the address of the proxy, next to a default or an
\* explicit one.
AllArguments ==
    (o1 :> {Default, Explicit, Args("auto", "force"), Args("off", "never"),
            Args(i, "default")})
        @@ (o2 :> {Default, Explicit})

DefaultArguments == (o1 :> {Default}) @@ (o2 :> {Default})
=============================================================================
