-------------------------------- MODULE Bids --------------------------------
(***************************************************************************)
(* A transaction and its replacements: Account.transact (account.py        *)
(* 300-386) and Transaction.replace (transaction.py 290-324).  What the    *)
(* monitor does with them is TxMonitor; here it only replaces the data     *)
(* that was signed by the data the node shows.                             *)
(***************************************************************************)
EXTENDS ChainContext, Fees

CONSTANTS
    FeeArgs,            \* fee arguments of transact()
    Quotes,             \* what chains suggest
    Increments,         \* fractions <<n, d>>: arguments of replace()
    MaxReplacements     \* bound

DefaultIncrement == <<9, 8>>
FeeType == [gasPrice : Nat \union {NoFee}, cap : Nat \union {NoFee}, tip : Nat \union {NoFee}]

\* A transaction is legacy or not: the two kinds of arguments exclude each other.
ASSUME BidAssumption ==
    /\ FeeArgs \subseteq {args \in FeeType : NoFee \in {args.gasPrice, args.cap}
                                            /\ NoFee \in {args.gasPrice, args.tip}}
    /\ Quotes \subseteq [tip : Nat, base : Nat]
    /\ Increments \subseteq Nat \X (Nat \ {0}) /\ DefaultIncrement \in Increments
    /\ MaxReplacements \in Nat

VARIABLE bid            \* the last of them each thread sent

NoBid == [chain |-> NoChain, fees |-> [gasPrice |-> NoFee, cap |-> NoFee, tip |-> NoFee],
          shown |-> FALSE, replaced |-> 0, increment |-> DefaultIncrement]

BidTypeOK ==
    bid \in [Worker -> [chain : Chain \union {NoChain}, fees : FeeType, shown : BOOLEAN,
                       replaced : 0 .. MaxReplacements, increment : Increments]]

BidInit == bid = [t \in Worker |-> NoBid]

Transact(t, bound, arg, args, quote) ==
    /\ bid[t] = NoBid
    /\ \E c \in Reached(t, bound, arg) :
           bid' = [bid EXCEPT ![t] = [NoBid EXCEPT !.chain = c, !.fees = Filled(args, quote)]]

\* _transaction: the signed dict until the monitor has polled.
Data(b) == IF b.shown THEN AsShown(b.fees) ELSE b.fees

Show(t) ==
    /\ bid[t] # NoBid /\ ~bid[t].shown
    /\ bid' = [bid EXCEPT ![t].shown = TRUE]

\* The sender is an Account bound to the chain, and transact() is given that chain too.
Replace(t, increment, quote) ==
    /\ bid[t] # NoBid /\ bid[t].replaced < MaxReplacements
    /\ \E c \in Reached(t, bid[t].chain, bid[t].chain) :
           bid' = [bid EXCEPT ![t] =
                       [chain |-> c, fees |-> Filled(Bumped(Data(@), increment), quote),
                        shown |-> FALSE, replaced |-> @.replaced + 1, increment |-> increment]]

ForgetBid(t) == bid[t] # NoBid /\ bid' = [bid EXCEPT ![t] = NoBid]

BidStep(t) ==
    /\ \/ \E quote \in Quotes :
              \/ \E bound, arg \in Chain \union {NoChain}, args \in FeeArgs :
                     Transact(t, bound, arg, args, quote)
              \/ \E increment \in Increments : Replace(t, increment, quote)
       \/ Show(t) \/ ForgetBid(t)
    /\ UNCHANGED contextVars

BidSpec ==
    ContextInit /\ BidInit
    /\ [][\/ \E t \in Thread : ContextStep(t) /\ UNCHANGED bid
          \/ \E t \in Worker : BidStep(t)]_<<contextVars, bid>>

-----------------------------------------------------------------------------

\* What nodes ask of a replacement: a tenth more.
Outbids(new, old) == new * 10 >= old * 11

\* A replacement goes to the same chain and offers more, both at most and to the miner,
\* whatever the increment and however the fees are rounded and turned into another type
\* on the way; with the default increment enough for nodes to accept it, unless it is a
\* legacy price of a few wei (transaction.py 291, 327-328).
FeesOutbid ==
    [][\A t \in Worker : bid'[t].replaced > bid[t].replaced =>
           LET new == bid'[t].fees
               old == bid[t].fees
           IN  /\ bid'[t].chain = bid[t].chain
               /\ OfferedCap(new) >= OfferedTip(new)
               /\ OfferedCap(new) > OfferedCap(old) /\ OfferedTip(new) > OfferedTip(old)
               /\ bid'[t].increment = DefaultIncrement /\ OfferedTip(old) >= 40 =>
                      /\ Outbids(OfferedCap(new), OfferedCap(old))
                      /\ Outbids(OfferedTip(new), OfferedTip(old))]_bid
=============================================================================
