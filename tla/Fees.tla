-------------------------------- MODULE Fees --------------------------------
(***************************************************************************)
(* The fees of a transaction: the defaults of Account.transact             *)
(* (account.py 342-364) and the bump of Transaction.replace                *)
(* (transaction.py 318-328).  Fees are [gasPrice, cap, tip], the cap and   *)
(* tip being max_fee_per_gas and max_priority_fee_per_gas; a legacy        *)
(* transaction has a gas price only.  Amounts are small integers, and the  *)
(* float product of a bump is rounded down.                                *)
(***************************************************************************)
EXTENDS Naturals

CONSTANT NoFee      \* None

ASSUME NoFeeAssumption == NoFee \notin Nat

MinimumTip == 100

Larger(a, b) == IF a > b THEN a ELSE b

Given(fee, quote) == IF fee = NoFee THEN quote ELSE fee

\* Missing fees come from the chain (quoted tip, base fee and a quarter), the tip is
\* raised to its floor and the cap to the tip.  A given gas price makes it legacy.
Filled(args, quote) ==
    IF args.gasPrice # NoFee THEN args
    ELSE LET tip == Larger(Given(args.tip, quote.tip), MinimumTip) IN
         [args EXCEPT !.tip = tip,
                      !.cap = Larger(Given(args.cap, (quote.base * 5) \div 4), tip)]

\* Variant: the product alone, which a small fee or increment leaves where it was.
BumpFee_Product(fee, increment) == (fee * increment[1]) \div increment[2]

BumpFee(fee, increment) == Larger((fee * increment[1]) \div increment[2], fee + 1)

\* The fee arguments replace() passes to transact(), from the transaction data it has.
Bumped(data, increment) ==
    IF data.gasPrice # NoFee
    THEN [gasPrice |-> BumpFee(data.gasPrice, increment), cap |-> NoFee, tip |-> NoFee]
    ELSE [gasPrice |-> NoFee, cap |-> BumpFee(data.cap, increment),
          tip |-> BumpFee(data.tip, increment)]

\* The data a node shows of a pending transaction: it has a gasPrice in any case.
AsShown(data) == IF data.gasPrice # NoFee THEN data ELSE [data EXCEPT !.gasPrice = data.cap]

\* What a transaction signed with these fees offers at most, to anybody and to the miner.
OfferedCap(fees) == IF fees.gasPrice # NoFee THEN fees.gasPrice ELSE fees.cap
OfferedTip(fees) == IF fees.gasPrice # NoFee THEN fees.gasPrice ELSE fees.tip
=============================================================================
