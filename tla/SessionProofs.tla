---------------------------- MODULE SessionProofs ----------------------------
(* Proofs about Session: about its parts, BlockFeed and Bids, each with the   *)
(* contexts of its threads, and about the whole, which is shown to be an      *)
(* implementation of each of them.                                            *)
EXTENDS Session, ChainContextProofs, AbiTypesProofs

-----------------------------------------------------------------------------
(* Feeds, for any lag of the nodes, buffers and chain height.                *)

Returned == [block : Nat, found : BOOLEAN]

\* The blocks returned are consecutive, and were there with enough of a buffer.
Exact(f) ==
    /\ \A i \in 1 .. Len(f.got) : f.got[i].block = f.got[1].block + i - 1
    /\ f.buffer >= Lag => \A i \in 1 .. Len(f.got) : f.got[i].found

\* Nothing is returned before the generator runs.
Fresh(f) == f.stage \in {"none", "made", "indexed"} => f.got = <<>>

\* A running generator goes on where it stopped.
Continues(f) ==
    f.stage \in {"polling", "draining", "suspended"} /\ f.got # <<>> =>
        f.got[Len(f.got)].block = f.last

\* What a poll made due is the buffer behind the tip, which only grows.
DueIsBehind(f) ==
    f.stage \in {"draining", "suspended"} => f.current = 0 \/ f.current + f.buffer <= f.tip

Good(f) == f \in FeedType /\ Exact(f) /\ Fresh(f) /\ Continues(f) /\ DueIsBehind(f)

FeedInv == feed \in [Worker -> FeedType] /\ \A t \in Worker : Good(feed[t])

LEMMA BehindBounds ==
  ASSUME NEW h \in Nat, NEW b \in Nat
  PROVE  Behind(h, b) \in Nat /\ (Behind(h, b) = 0 \/ Behind(h, b) + b <= h)
  BY DEF Behind

LEMMA HeightsAreNat ==
  ASSUME FeedInv, NEW t \in Worker, NEW h \in Heights(t)
  PROVE  h \in Nat /\ h <= feed[t].tip /\ h + Lag >= feed[t].tip
  BY DEF FeedInv, FeedType, Heights

\* A step that gives one thread a good feed keeps the invariant.
LEMMA OneFeed ==
  ASSUME FeedInv, NEW t \in Worker, NEW f, Good(f), feed' = [feed EXCEPT ![t] = f]
  PROVE  FeedInv'
  BY DEF FeedInv, Good

\* Only the stage changes, and not to one with more to say.
LEMMA StageOnly ==
  ASSUME NEW f \in FeedType, Good(f), NEW s \in FeedStages,
         \/ s = "ended"
         \/ f.stage \in {"draining", "suspended"} /\ s = "polling"
  PROVE  Good([f EXCEPT !.stage = s])
  BY DEF Good, FeedType, Exact, Fresh, Continues, DueIsBehind

\* A block whose number a node's height allows is appended.
LEMMA Appended ==
  ASSUME NEW f \in FeedType, Good(f), NEW h \in Nat, h <= f.tip, h + Lag >= f.tip,
         f.stage \in {"draining", "suspended"}, f.current > f.last
  PROVE  Good([f EXCEPT !.stage = "suspended", !.last = f.last + 1,
                        !.got = Append(@, [block |-> f.last + 1, found |-> f.last + 1 <= h])])
<1> DEFINE e == [block |-> f.last + 1, found |-> f.last + 1 <= h]
           g == [f EXCEPT !.stage = "suspended", !.last = f.last + 1, !.got = Append(@, e)]
<1>1. e \in Returned /\ f.got \in Seq(Returned) /\ f.last \in Nat /\ f.current \in Nat
      /\ f.buffer \in Nat /\ f.tip \in Nat
  BY DEF FeedType, Returned
<1>2. /\ g.got = Append(f.got, e) /\ g.stage = "suspended" /\ g.last = f.last + 1
      /\ g.buffer = f.buffer /\ g.current = f.current /\ g.tip = f.tip /\ g.chain = f.chain
  BY DEF FeedType
<1>3. /\ Len(g.got) = Len(f.got) + 1 /\ Len(f.got) \in Nat
      /\ \A i \in 1 .. Len(f.got) : g.got[i] = f.got[i]
      /\ g.got[Len(f.got) + 1] = e
      /\ Append(f.got, e) \in Seq(Returned)
  BY <1>1, <1>2, AppendProperties, LenProperties
<1>4. g \in FeedType
  BY <1>1, <1>3 DEF FeedType, FeedStages, Returned
<1>5. f.buffer >= Lag => e.found
  <2>1. f.current + f.buffer <= f.tip
    BY <1>1 DEF Good, DueIsBehind
  <2>2. f.buffer >= Lag => f.last + 1 <= h
    BY <1>1, <2>1, FeedAssumption
  <2> QED BY <2>2
<1>6. \A i \in 1 .. Len(g.got) : g.got[i].block = g.got[1].block + i - 1
  <2>1. CASE f.got = <<>>
    <3>1. Len(g.got) = 1
      BY <1>3, <2>1
    <3>2. g.got[1].block \in Nat
      BY <1>1, <1>3, <2>1
    <3> QED BY <3>1, <3>2
  <2>2. CASE f.got # <<>>
    <3>1. Len(f.got) >= 1
      BY <1>1, <1>3, <2>2, EmptySeq
    <3>2. g.got[1] = f.got[1] /\ f.got[1].block \in Nat
      <4>1. f.got[1] \in Returned
        BY <1>1, <1>3, <3>1, ElementOfSeq
      <4> QED BY <1>3, <3>1, <4>1 DEF Returned
    <3>3. f.got[Len(f.got)].block = f.last
      BY <2>2 DEF Good, Continues
    <3>4. \A i \in 1 .. Len(f.got) : f.got[i].block = f.got[1].block + i - 1
      BY DEF Good, Exact
    <3>5. f.last = f.got[1].block + Len(f.got) - 1
      BY <1>3, <3>1, <3>3, <3>4
    <3>6. g.got[Len(f.got) + 1].block = f.last + 1
      BY <1>3
    <3>7. f.last + 1 = g.got[1].block + (Len(f.got) + 1) - 1
      <4>1. f.last = g.got[1].block + Len(f.got) - 1
        BY <3>2, <3>5
      <4> HIDE DEF g
      <4> QED BY <1>1, <1>3, <3>2, <4>1
    <3>8. \A i \in 1 .. Len(f.got) : g.got[i].block = g.got[1].block + i - 1
      BY <1>3, <3>2, <3>4
    <3> QED BY <1>3, <3>6, <3>7, <3>8
  <2> QED BY <2>1, <2>2
<1>7. Exact(g)
  BY <1>2, <1>3, <1>5, <1>6 DEF Good, Exact
<1> QED BY <1>2, <1>3, <1>4, <1>7 DEF Good, Fresh, Continues, DueIsBehind

\* A generator or a deferred block that was just made.
LEMMA Prepared ==
  ASSUME NEW s \in {"none", "made", "indexed"}, NEW c \in Chain \union {NoChain},
         NEW tip \in Nat, NEW buffer \in Nat, NEW low \in Nat
  PROVE  Good(NewFeed(s, c, tip, buffer, low))
<1> DEFINE f == NewFeed(s, c, tip, buffer, low)
<1>1. f \in FeedType
  BY DEF NewFeed, FeedType, FeedStages
<1>2. f.stage = s /\ f.got = <<>>
  BY DEF NewFeed
<1> HIDE DEF f
<1>3. Good(f)
  BY <1>1, <1>2 DEF Good, Exact, Fresh, Continues, DueIsBehind
<1> QED BY <1>3 DEF f

LEMMA NoFeedGood == NoFeed \in FeedType /\ Good(NoFeed)
  BY Prepared DEF NoFeed, Good

LEMMA FeedStepInv ==
  ASSUME FeedInv, NEW t \in Worker, FeedStep(t)
  PROVE  FeedInv'
<1> DEFINE f == feed[t]
<1>0. f \in FeedType /\ Good(f) /\ feed \in [Worker -> FeedType]
  BY DEF FeedInv
<1>1. ASSUME NEW c \in Chain, NEW buffer \in Buffer, Follow(t, c, buffer)
      PROVE  FeedInv'
  <2>1. PICK tip \in 0 .. MaxTip :
            feed' = [feed EXCEPT ![t] = NewFeed("made", c, tip, buffer, 0)]
    BY <1>1 DEF Follow
  <2>2. tip \in Nat /\ buffer \in Nat
    BY FeedAssumption
  <2> QED BY <2>1, <2>2, Prepared, OneFeed
<1>2. ASSUME NEW c \in Chain, NEW buffer \in Buffer, Index(t, c, buffer)
      PROVE  FeedInv'
  <2>1. PICK tip \in 0 .. MaxTip :
            feed' = [feed EXCEPT ![t] = NewFeed("indexed", c, tip, buffer, Behind(tip, Lag))]
    BY <1>2 DEF Index
  <2>2. tip \in Nat /\ buffer \in Nat
    BY FeedAssumption
  <2>3. Behind(tip, Lag) \in Nat
    BY <2>2, BehindBounds, FeedAssumption
  <2> QED BY <2>1, <2>2, <2>3, Prepared, OneFeed
<1>3. ASSUME Ended(t) PROVE FeedInv'
  <2>1. feed' = [feed EXCEPT ![t] = [f EXCEPT !.stage = "ended"]]
    BY <1>0, <1>3 DEF Ended
  <2> QED BY <1>0, <2>1, StageOnly, OneFeed DEF FeedStages
<1>4. CASE Begin(t)
  <2>1. CASE Open(t)
    <3>1. PICK h \in Heights(t) :
              feed' = [feed EXCEPT ![t].stage = "polling", ![t].last = Behind(h, f.buffer)]
      BY <1>4, <2>1 DEF Begin
    <3>2. Behind(h, f.buffer) \in Nat
      BY <1>0, HeightsAreNat, BehindBounds DEF FeedType
    <3>3. feed' = [feed EXCEPT ![t] = [f EXCEPT !.stage = "polling", !.last = Behind(h, f.buffer)]]
      BY <1>0, <3>1
    <3>4. f.got = <<>>
      BY <1>0, <1>4 DEF Begin, Good, Fresh
    <3>5. Good([f EXCEPT !.stage = "polling", !.last = Behind(h, f.buffer)])
      BY <1>0, <3>2, <3>4 DEF Good, FeedType, FeedStages, Exact, Fresh, Continues, DueIsBehind
    <3> QED BY <3>3, <3>5, OneFeed
  <2> QED BY <1>3, <1>4, <2>1 DEF Begin
<1>5. CASE Poll(t)
  <2>1. CASE Open(t)
    <3>1. PICK h \in Heights(t) :
              feed' = [feed EXCEPT ![t].stage = "draining", ![t].current = Behind(h, f.buffer)]
      BY <1>5, <2>1 DEF Poll
    <3> DEFINE n == Behind(h, f.buffer)
    <3>2. h \in Nat /\ h <= f.tip /\ f.tip \in Nat /\ f.buffer \in Nat
      BY <1>0, HeightsAreNat DEF FeedType
    <3>3. n \in Nat /\ (n = 0 \/ n + f.buffer <= h)
      BY <3>2, BehindBounds
    <3>4. n = 0 \/ n + f.buffer <= f.tip
      BY <3>2, <3>3
    <3>5. feed' = [feed EXCEPT ![t] = [f EXCEPT !.stage = "draining", !.current = n]]
      BY <1>0, <3>1
    <3>6. f.stage = "polling"
      BY <1>5 DEF Poll
    <3> HIDE DEF n
    <3>7. Good([f EXCEPT !.stage = "draining", !.current = n])
      BY <1>0, <3>3, <3>4, <3>6
         DEF Good, FeedType, FeedStages, Exact, Fresh, Continues, DueIsBehind
    <3> QED BY <3>5, <3>7, OneFeed
  <2> QED BY <1>3, <1>5, <2>1 DEF Poll
<1>6. CASE Yield(t)
  <2>1. CASE Open(t)
    <3>1. PICK h \in Heights(t) :
              feed' = [feed EXCEPT ![t].stage = "suspended", ![t].last = f.last + 1,
                           ![t].got = Append(@, [block |-> f.last + 1, found |-> f.last + 1 <= h])]
      BY <1>6, <2>1 DEF Yield, Got
    <3>2. feed' = [feed EXCEPT ![t] =
                      [f EXCEPT !.stage = "suspended", !.last = f.last + 1,
                          !.got = Append(@, [block |-> f.last + 1, found |-> f.last + 1 <= h])]]
      BY <1>0, <3>1
    <3>3. h \in Nat /\ h <= f.tip /\ h + Lag >= f.tip
      BY HeightsAreNat
    <3>4. f.stage \in {"draining", "suspended"} /\ f.current > f.last
      BY <1>6 DEF Yield, Pending
    <3> QED BY <1>0, <3>2, <3>3, <3>4, Appended, OneFeed
  <2> QED BY <1>3, <1>6, <2>1 DEF Yield
<1>7. CASE Sleep(t)
  <2>1. feed' = [feed EXCEPT ![t] = [f EXCEPT !.stage = "polling"]]
    BY <1>0, <1>7 DEF Sleep
  <2>2. Good([f EXCEPT !.stage = "polling"])
    BY <1>0, <1>7, StageOnly DEF Sleep, FeedStages
  <2> QED BY <2>1, <2>2, OneFeed
<1>8. CASE UseIndex(t)
  <2>1. PICK height \in f.current .. f.tip :
            IF height < f.buffer \/ ~Open(t) THEN Ended(t)
            ELSE \E h \in Heights(t) :
                     feed' = [feed EXCEPT ![t].stage = "ended", ![t].got =
                                  <<[block |-> height - f.buffer,
                                     found |-> height - f.buffer <= h]>>]
    BY <1>8 DEF UseIndex
  <2>2. CASE ~(height < f.buffer \/ ~Open(t))
    <3>1. PICK h \in Heights(t) :
              feed' = [feed EXCEPT ![t].stage = "ended", ![t].got =
                           <<[block |-> height - f.buffer, found |-> height - f.buffer <= h]>>]
      BY <2>1, <2>2
    <3> DEFINE e == [block |-> height - f.buffer, found |-> height - f.buffer <= h]
               g == [f EXCEPT !.stage = "ended", !.got = <<e>>]
    <3>2. feed' = [feed EXCEPT ![t] = g]
      BY <1>0, <3>1
    <3>3. h \in Nat /\ h + Lag >= f.tip /\ f.tip \in Nat /\ f.buffer \in Nat /\ f.current \in Nat
      BY <1>0, HeightsAreNat DEF FeedType
    <3>4. e \in Returned /\ (f.buffer >= Lag => e.found)
      <4>1. height \in Int /\ height <= f.tip /\ height >= f.buffer
        BY <2>2, <3>3
      <4>2. height - f.buffer \in Nat
        BY <3>3, <4>1
      <4>3. f.buffer >= Lag => height - f.buffer <= h
        BY <3>3, <4>1, FeedAssumption
      <4>4. e.found = (height - f.buffer <= h) /\ e \in Returned
        BY <4>2 DEF Returned
      <4> QED BY <4>3, <4>4
    <3>5. /\ g.got = <<e>> /\ g.stage = "ended" /\ g.buffer = f.buffer
          /\ Len(g.got) = 1 /\ g.got[1] = e
      BY <1>0 DEF FeedType
    <3>6. g \in FeedType
      <4>1. <<e>> \in Seq(Returned)
        BY <3>4
      <4> HIDE DEF e
      <4> QED BY <1>0, <4>1 DEF FeedType, FeedStages, Returned
    <3>7. Exact(g)
      BY <3>4, <3>5 DEF Exact, Returned
    <3>8. Good(g)
      BY <3>5, <3>6, <3>7 DEF Good, Fresh, Continues, DueIsBehind
    <3> QED BY <3>2, <3>8, OneFeed
  <2> QED BY <1>3, <2>1, <2>2
<1>9. CASE DropFeed(t)
  BY <1>9, NoFeedGood, OneFeed DEF DropFeed
<1>10. CASE Grow(t)
  <2>1. feed' = [feed EXCEPT ![t] = [f EXCEPT !.tip = f.tip + 1]]
    BY <1>0, <1>10 DEF Grow
  <2> DEFINE g == [f EXCEPT !.tip = f.tip + 1]
  <2>2. g \in FeedType
    <3>1. f \in FeedType /\ f.tip + 1 \in Nat
      BY <1>0 DEF FeedType
    <3> HIDE DEF f
    <3> QED BY <3>1 DEF FeedType
  <2>3. /\ g.got = f.got /\ g.stage = f.stage /\ g.last = f.last
        /\ g.buffer = f.buffer /\ g.current = f.current /\ g.tip = f.tip + 1
    BY <1>0 DEF FeedType
  <2>4. f.tip \in Nat /\ f.current \in Nat /\ f.buffer \in Nat
    BY <1>0 DEF FeedType
  <2> HIDE DEF g
  <2>5. Good(g)
    BY <1>0, <2>2, <2>3, <2>4 DEF Good, Exact, Fresh, Continues, DueIsBehind
  <2> QED BY <2>1, <2>5, OneFeed DEF g
<1> QED
  BY <1>1, <1>2, <1>4, <1>5, <1>6, <1>7, <1>8, <1>9, <1>10 DEF FeedStep

LEMMA FeedInvariance == FeedSpec => []FeedInv
<1>1. FeedInit => FeedInv
  BY NoFeedGood DEF FeedInit, FeedInv
<1>2. FeedInv /\ UNCHANGED feed => FeedInv'
  BY DEF FeedInv
<1>3. FeedInv /\ [\/ \E t \in Thread : ~Running(t) /\ ContextStep(t) /\ UNCHANGED feed
                  \/ \E t \in Worker : FeedStep(t)]_<<contextVars, feed>> => FeedInv'
  BY <1>2, FeedStepInv
<1> QED BY <1>1, <1>3, PTL DEF FeedSpec

\* Every feed and index keeps its type.
THEOREM FeedTypeCorrect == FeedSpec => []FeedTypeOK
<1>1. FeedInv => FeedTypeOK
  BY DEF FeedInv, FeedTypeOK
<1> QED BY <1>1, FeedInvariance, PTL

\* However far the nodes lag and whatever heights they report, a feed returns every block
\* once and in order, and with a buffer of the lag only blocks that every node has.
THEOREM FeedIsExact == FeedSpec => []BlocksAreThere
<1>1. FeedInv => BlocksAreThere
  BY DEF FeedInv, Good, Exact, BlocksAreThere
<1> QED BY <1>1, FeedInvariance, PTL

-----------------------------------------------------------------------------
(* Bids, for any fees, quotes and increments.                                *)

\* The fees of a transaction that was signed.
Signed(fees) ==
    \/ fees.gasPrice \in Nat
    \/ /\ fees.gasPrice = NoFee /\ fees.cap \in Nat /\ fees.tip \in Nat
       /\ fees.tip >= MinimumTip /\ fees.cap >= fees.tip

BidInv ==
    /\ BidTypeOK
    /\ \A t \in Worker :
           bid[t] = NoBid \/ (bid[t].chain # NoChain /\ Signed(bid[t].fees))

\* A bump exceeds what it bumps, however small the increment.
LEMMA BumpExceeds ==
  ASSUME NEW fee \in Nat, NEW increment \in Increments
  PROVE  BumpFee(fee, increment) \in Nat /\ BumpFee(fee, increment) > fee
<1> DEFINE product == (fee * increment[1]) \div increment[2]
<1>1. increment[1] \in Nat /\ increment[2] \in Nat \ {0}
  BY BidAssumption
<1>2. fee * increment[1] \in Nat
  BY <1>1
<1>3. \A n \in Nat, d \in Nat \ {0} : n \div d \in Nat
  OBVIOUS
<1>4. product \in Nat
  BY <1>1, <1>2, <1>3
<1> HIDE DEF product
<1>5. Larger(product, fee + 1) \in Nat /\ Larger(product, fee + 1) > fee
  BY <1>4 DEF Larger
<1> QED BY <1>5 DEF BumpFee, product

\* The default increment gives a tenth more, from 40 wei on.
LEMMA BumpOutbids ==
  ASSUME NEW fee \in Nat, fee >= 40
  PROVE  Outbids(BumpFee(fee, DefaultIncrement), fee)
<1> DEFINE product == (fee * 9) \div 8
<1>1. product \in Nat /\ product * 8 + 7 >= fee * 9
  OBVIOUS
<1>2. product * 10 >= fee * 11
  BY <1>1
<1>3. BumpFee(fee, DefaultIncrement) = Larger(product, fee + 1)
  BY DEF BumpFee, DefaultIncrement
<1> HIDE DEF product
<1>4. Larger(product, fee + 1) \in Nat /\ Larger(product, fee + 1) >= product
  BY <1>1 DEF Larger
<1> QED BY <1>1, <1>2, <1>3, <1>4 DEF Outbids

LEMMA FilledIsSigned ==
  ASSUME NEW args \in FeeArgs, NEW quote \in Quotes
  PROVE  Filled(args, quote) \in FeeType /\ Signed(Filled(args, quote))
<1>1. args \in FeeType /\ quote.tip \in Nat /\ quote.base \in Nat
  BY BidAssumption
<1>2. CASE args.gasPrice # NoFee
  BY <1>1, <1>2 DEF Filled, Signed, FeeType
<1>3. CASE args.gasPrice = NoFee
  <2> DEFINE tip == Larger(Given(args.tip, quote.tip), MinimumTip)
             cap == Larger(Given(args.cap, (quote.base * 5) \div 4), tip)
  <2>1. tip \in Nat /\ tip >= MinimumTip
    BY <1>1 DEF Larger, Given, MinimumTip, FeeType
  <2>2. (quote.base * 5) \div 4 \in Nat
    BY <1>1
  <2> HIDE DEF tip
  <2>3. Given(args.cap, (quote.base * 5) \div 4) \in Nat
    BY <1>1, <2>2 DEF Given, FeeType
  <2>4. cap \in Nat /\ cap >= tip
    BY <2>1, <2>3 DEF Larger
  <2>5. Filled(args, quote) = [args EXCEPT !.tip = tip, !.cap = cap]
    BY <1>3 DEF Filled, tip
  <2> HIDE DEF cap
  <2> QED BY <1>1, <1>3, <2>1, <2>4, <2>5 DEF Signed, FeeType
<1> QED BY <1>2, <1>3

\* What a replacement offers, of any kind of transaction.
LEMMA Replacement ==
  ASSUME NEW old \in FeeType, Signed(old), NEW shown \in BOOLEAN,
         NEW increment \in Increments, NEW quote \in Quotes,
         NEW new, new = Filled(Bumped(IF shown THEN AsShown(old) ELSE old, increment), quote)
  PROVE  /\ new \in FeeType /\ Signed(new)
         /\ OfferedCap(new) >= OfferedTip(new)
         /\ OfferedCap(new) > OfferedCap(old) /\ OfferedTip(new) > OfferedTip(old)
         /\ increment = DefaultIncrement /\ OfferedTip(old) >= 40 =>
                /\ Outbids(OfferedCap(new), OfferedCap(old))
                /\ Outbids(OfferedTip(new), OfferedTip(old))
<1> DEFINE data == IF shown THEN AsShown(old) ELSE old
           price == BumpFee(data.gasPrice, increment)
           cap == BumpFee(old.cap, increment)
           tip == BumpFee(old.tip, increment)
<1>1. CASE old.gasPrice \in Nat
  <2>1. data = old /\ old.gasPrice # NoFee
    BY <1>1, NoFeeAssumption DEF AsShown
  <2>2. price \in Nat /\ price > old.gasPrice
    BY <1>1, <2>1, BumpExceeds
  <2>3. new = [gasPrice |-> price, cap |-> NoFee, tip |-> NoFee]
    BY <2>1, <2>2, NoFeeAssumption DEF Bumped, Filled
  <2>4. increment = DefaultIncrement /\ old.gasPrice >= 40 => Outbids(price, old.gasPrice)
    BY <1>1, <2>1, BumpOutbids
  <2> HIDE DEF price
  <2> QED BY <1>1, <2>1, <2>2, <2>3, <2>4, NoFeeAssumption
          DEF FeeType, Signed, OfferedCap, OfferedTip
<1>2. CASE old.gasPrice \notin Nat
  <2>1. /\ old.gasPrice = NoFee /\ old.cap \in Nat /\ old.tip \in Nat
        /\ old.tip >= MinimumTip /\ old.cap >= old.tip
    BY <1>2 DEF Signed
  <2>2. OfferedCap(old) = old.cap /\ OfferedTip(old) = old.tip
    BY <2>1 DEF OfferedCap, OfferedTip
  <2>3. CASE shown
    <3>1. data.gasPrice = old.cap /\ data.gasPrice # NoFee
      BY <2>1, <2>3, NoFeeAssumption DEF AsShown, FeeType
    <3>2. price \in Nat /\ price > old.cap
      BY <2>1, <3>1, BumpExceeds
    <3>3. new = [gasPrice |-> price, cap |-> NoFee, tip |-> NoFee]
      BY <3>1, <3>2, NoFeeAssumption DEF Bumped, Filled
    <3>4. increment = DefaultIncrement /\ old.tip >= 40 =>
              Outbids(price, old.cap) /\ Outbids(price, old.tip)
      <4>1. increment = DefaultIncrement /\ old.tip >= 40 => Outbids(price, old.cap)
        BY <2>1, <3>1, BumpOutbids
      <4> HIDE DEF price
      <4> QED BY <2>1, <3>2, <4>1 DEF Outbids
    <3> HIDE DEF price
    <3>5. OfferedCap(new) = price /\ OfferedTip(new) = price
      BY <3>2, <3>3, NoFeeAssumption DEF OfferedCap, OfferedTip
    <3>6. new \in FeeType /\ Signed(new)
      BY <3>2, <3>3 DEF FeeType, Signed
    <3> QED BY <2>1, <2>2, <3>2, <3>4, <3>5, <3>6
  <2>4. CASE ~shown
    <3>1. /\ cap \in Nat /\ cap > old.cap
          /\ tip \in Nat /\ tip > old.tip
      BY <2>1, BumpExceeds
    <3>2. Bumped(data, increment) = [gasPrice |-> NoFee, cap |-> cap, tip |-> tip]
      BY <2>1, <2>4 DEF Bumped
    <3>3. increment = DefaultIncrement /\ old.tip >= 40 =>
              Outbids(cap, old.cap) /\ Outbids(tip, old.tip)
      BY <2>1, BumpOutbids
    <3>0. new = Filled([gasPrice |-> NoFee, cap |-> cap, tip |-> tip], quote)
      BY <3>2
    <3> HIDE DEF cap, tip, data
    <3>4. cap # NoFee /\ tip # NoFee /\ tip >= MinimumTip
      BY <2>1, <3>1, NoFeeAssumption DEF MinimumTip
    <3>5. Larger(tip, MinimumTip) = tip
      BY <3>1, <3>4 DEF Larger, MinimumTip
    <3> DEFINE top == Larger(cap, tip)
    <3>6. new = [gasPrice |-> NoFee, cap |-> top, tip |-> tip]
      <4> DEFINE args == [gasPrice |-> NoFee, cap |-> cap, tip |-> tip]
      <4>1. args.gasPrice = NoFee /\ args.cap = cap /\ args.tip = tip
        OBVIOUS
      <4>2. Given(args.cap, (quote.base * 5) \div 4) = cap /\ Given(args.tip, quote.tip) = tip
        BY <3>4, <4>1 DEF Given
      <4>3. new = [args EXCEPT !.tip = tip, !.cap = top]
        BY <3>0, <3>5, <4>1, <4>2 DEF Filled
      <4> QED BY <4>3
    <3>7. top \in Nat /\ top >= cap /\ top >= tip
      BY <3>1 DEF Larger
    <3> HIDE DEF top
    <3>8. OfferedCap(new) = top /\ OfferedTip(new) = tip
      BY <3>6 DEF OfferedCap, OfferedTip
    <3>9. increment = DefaultIncrement /\ old.tip >= 40 => Outbids(top, old.cap)
      BY <2>1, <3>1, <3>3, <3>7 DEF Outbids
    <3>10. new \in FeeType /\ Signed(new)
      BY <3>1, <3>4, <3>6, <3>7 DEF FeeType, Signed
    <3> QED BY <2>1, <2>2, <3>1, <3>3, <3>7, <3>8, <3>9, <3>10
  <2> QED BY <2>3, <2>4
<1> QED BY <1>1, <1>2

LEMMA ReachedIsBound ==
  ASSUME NEW t \in Thread, NEW bound, bound # NoChain
  PROVE  Reached(t, bound, bound) \subseteq {bound}
  BY DEF Reached, Resolved

LEMMA ReachedIsChain ==
  ASSUME NEW t \in Thread, NEW bound \in Chain \union {NoChain}, NEW arg \in Chain \union {NoChain},
         default[t].chain \in Chain \union {NoChain}
  PROVE  Reached(t, bound, arg) \subseteq Chain
  BY DEF Reached, Resolved

\* A replacement is what Replacement says it is.
LEMMA ReplaceOutbids ==
  ASSUME BidInv, ContextTypeOK, NEW t \in Worker, NEW increment \in Increments,
         NEW quote \in Quotes, Replace(t, increment, quote)
  PROVE  LET new == bid'[t].fees
             old == bid[t].fees
         IN  /\ bid'[t].chain = bid[t].chain /\ bid'[t].chain # NoChain
             /\ bid'[t].increment = increment
             /\ new \in FeeType /\ Signed(new)
             /\ OfferedCap(new) >= OfferedTip(new)
             /\ OfferedCap(new) > OfferedCap(old) /\ OfferedTip(new) > OfferedTip(old)
             /\ increment = DefaultIncrement /\ OfferedTip(old) >= 40 =>
                    /\ Outbids(OfferedCap(new), OfferedCap(old))
                    /\ Outbids(OfferedTip(new), OfferedTip(old))
<1> DEFINE old == bid[t].fees
           new == Filled(Bumped(Data(bid[t]), increment), quote)
<1>1. /\ bid \in [Worker -> [chain : Chain \union {NoChain}, fees : FeeType, shown : BOOLEAN,
                            replaced : 0 .. MaxReplacements, increment : Increments]]
      /\ bid[t].chain # NoChain /\ Signed(old)
  BY DEF BidInv, BidTypeOK, Replace
<1>2. PICK c \in Reached(t, bid[t].chain, bid[t].chain) :
          bid' = [bid EXCEPT ![t] = [chain |-> c, fees |-> new, shown |-> FALSE,
                                     replaced |-> bid[t].replaced + 1,
                                     increment |-> increment]]
  BY DEF Replace
<1>3. c = bid[t].chain
  BY <1>1, <1>2, ReachedIsBound, ChainAssumption
<1>4. bid'[t].fees = new /\ bid'[t].chain = c /\ bid'[t].increment = increment
  BY <1>1, <1>2
<1>5. new = Filled(Bumped(IF bid[t].shown THEN AsShown(old) ELSE old, increment), quote)
  BY DEF Data
<1>6. old \in FeeType /\ bid[t].shown \in BOOLEAN
  BY <1>1
<1> HIDE DEF old, new
<1>7. /\ new \in FeeType /\ Signed(new)
      /\ OfferedCap(new) >= OfferedTip(new)
      /\ OfferedCap(new) > OfferedCap(old) /\ OfferedTip(new) > OfferedTip(old)
      /\ increment = DefaultIncrement /\ OfferedTip(old) >= 40 =>
             /\ Outbids(OfferedCap(new), OfferedCap(old))
             /\ Outbids(OfferedTip(new), OfferedTip(old))
  BY <1>1, <1>5, <1>6, Replacement
<1> QED BY <1>1, <1>3, <1>4, <1>7 DEF old

LEMMA BidStepInv ==
  ASSUME BidInv, ContextTypeOK, NEW t \in Worker, BidStep(t)
  PROVE  BidInv'
<1> DEFINE BidType == [chain : Chain \union {NoChain}, fees : FeeType, shown : BOOLEAN,
                    replaced : 0 .. MaxReplacements, increment : Increments]
<1>1. bid \in [Worker -> BidType] /\ bid[t] \in BidType
  BY DEF BidInv, BidTypeOK
<1>2. NoBid \in BidType
  BY BidAssumption DEF NoBid, FeeType
<1>3. ASSUME NEW b \in BidType, bid' = [bid EXCEPT ![t] = b],
             b = NoBid \/ (b.chain # NoChain /\ Signed(b.fees))
      PROVE  BidInv'
  <2>1. \A u \in Worker : bid'[u] = IF u = t THEN b ELSE bid[u]
    BY <1>1, <1>3
  <2>2. bid' \in [Worker -> BidType]
    BY <1>1, <1>3
  <2>3. \A u \in Worker :
            bid'[u] = NoBid \/ (bid'[u].chain # NoChain /\ Signed(bid'[u].fees))
    BY <1>3, <2>1 DEF BidInv
  <2> QED BY <2>2, <2>3 DEF BidInv, BidTypeOK
<1>4. ASSUME NEW quote \in Quotes, NEW bound \in Chain \union {NoChain},
             NEW arg \in Chain \union {NoChain}, NEW args \in FeeArgs,
             Transact(t, bound, arg, args, quote)
      PROVE  BidInv'
  <2>1. PICK c \in Reached(t, bound, arg) :
            bid' = [bid EXCEPT ![t] = [NoBid EXCEPT !.chain = c, !.fees = Filled(args, quote)]]
    BY <1>4 DEF Transact
  <2> DEFINE b == [NoBid EXCEPT !.chain = c, !.fees = Filled(args, quote)]
  <2>2. t \in Thread /\ default[t].chain \in Chain \union {NoChain}
    BY ChainAssumption DEF ContextTypeOK, DefaultType
  <2>3. c \in Chain
    BY <2>1, <2>2, ReachedIsChain
  <2>4. Filled(args, quote) \in FeeType /\ Signed(Filled(args, quote))
    BY FilledIsSigned
  <2>5. b \in BidType
    BY <1>2, <2>3, <2>4
  <2>6. b.chain = c /\ b.fees = Filled(args, quote)
    BY DEF NoBid
  <2> HIDE DEF b
  <2>7. b.chain # NoChain
    BY <2>3, <2>6, ChainAssumption
  <2>8. bid' = [bid EXCEPT ![t] = b]
    BY <2>1 DEF b
  <2> QED BY <1>3, <2>4, <2>5, <2>6, <2>7, <2>8
<1>5. ASSUME NEW quote \in Quotes, NEW increment \in Increments, Replace(t, increment, quote)
      PROVE  BidInv'
  <2> DEFINE fees == Filled(Bumped(Data(bid[t]), increment), quote)
  <2>1. PICK c \in Reached(t, bid[t].chain, bid[t].chain) :
            bid' = [bid EXCEPT ![t] = [chain |-> c, fees |-> fees, shown |-> FALSE,
                                       replaced |-> bid[t].replaced + 1,
                                       increment |-> increment]]
    BY <1>5 DEF Replace
  <2> DEFINE b == [chain |-> c, fees |-> fees, shown |-> FALSE,
                   replaced |-> bid[t].replaced + 1, increment |-> increment]
  <2>2. bid'[t] = b
    BY <1>1, <2>1
  <2>3. b.chain = bid[t].chain /\ b.chain # NoChain /\ b.fees \in FeeType /\ Signed(b.fees)
    BY <1>5, <2>2, ReplaceOutbids
  <2>4. bid[t].replaced + 1 \in 0 .. MaxReplacements
    BY <1>1, <1>5, BidAssumption DEF Replace
  <2>5. b.chain \in Chain \union {NoChain}
    BY <1>1, <2>3
  <2> HIDE DEF fees
  <2>6. b \in BidType
    BY <2>3, <2>4, <2>5
  <2> QED BY <1>3, <2>1, <2>3, <2>6
<1>6. CASE Show(t)
  <2>1. bid' = [bid EXCEPT ![t] = [bid[t] EXCEPT !.shown = TRUE]]
    BY <1>1, <1>6 DEF Show
  <2> DEFINE b == [bid[t] EXCEPT !.shown = TRUE]
  <2>2. b \in BidType /\ b.chain = bid[t].chain /\ b.fees = bid[t].fees
    BY <1>1
  <2>3. bid[t].chain # NoChain /\ Signed(bid[t].fees)
    BY <1>6 DEF Show, BidInv
  <2> HIDE DEF b
  <2>4. b.chain # NoChain /\ Signed(b.fees)
    BY <2>2, <2>3
  <2>5. bid' = [bid EXCEPT ![t] = b]
    BY <2>1 DEF b
  <2> QED BY <1>3, <2>2, <2>4, <2>5
<1>7. CASE ForgetBid(t)
  BY <1>2, <1>3, <1>7 DEF ForgetBid
<1> QED BY <1>4, <1>5, <1>6, <1>7 DEF BidStep

BidNext ==
    \/ \E t \in Thread : ContextStep(t) /\ UNCHANGED bid
    \/ \E t \in Worker : BidStep(t)

LEMMA BidInvariance == BidSpec => [](ContextInv /\ BidInv)
<1>1. BidInit => BidInv
  <2>1. NoBid \in [chain : Chain \union {NoChain}, fees : FeeType, shown : BOOLEAN,
                   replaced : 0 .. MaxReplacements, increment : Increments]
    BY BidAssumption DEF NoBid, FeeType
  <2> QED BY <2>1 DEF BidInit, BidInv, BidTypeOK
<1>2. BidInv /\ UNCHANGED bid => BidInv'
  BY DEF BidInv, BidTypeOK
<1>3. [BidNext]_<<contextVars, bid>> => [\E t \in Thread : ContextStep(t)]_contextVars
  BY DEF BidNext, BidStep
<1>4. ContextInv => ContextTypeOK
  BY DEF ContextInv
<1>5. ContextInv /\ BidInv /\ [BidNext]_<<contextVars, bid>> => ContextInv' /\ BidInv'
  <2>1. ContextInv /\ BidInv /\ [BidNext]_<<contextVars, bid>> => BidInv'
    BY <1>2, <1>4, BidStepInv DEF BidNext
  <2> QED BY <1>3, <2>1, StepInv
<1>6. BidSpec => ContextInit /\ BidInit /\ [][BidNext]_<<contextVars, bid>>
  BY DEF BidSpec, BidNext
<1> QED BY <1>1, <1>5, <1>6, InitInv, PTL

\* A replacement outbids what it replaces, for any fees, quotes and increments.
THEOREM ReplacementsOutbid == BidSpec => FeesOutbid
<1> DEFINE Outbid(t) ==
        bid'[t].replaced > bid[t].replaced =>
            LET new == bid'[t].fees
                old == bid[t].fees
            IN  /\ bid'[t].chain = bid[t].chain
                /\ OfferedCap(new) >= OfferedTip(new)
                /\ OfferedCap(new) > OfferedCap(old) /\ OfferedTip(new) > OfferedTip(old)
                /\ bid'[t].increment = DefaultIncrement /\ OfferedTip(old) >= 40 =>
                       /\ Outbids(OfferedCap(new), OfferedCap(old))
                       /\ Outbids(OfferedTip(new), OfferedTip(old))
<1>1. ASSUME ContextTypeOK, BidInv, [BidNext]_<<contextVars, bid>>, NEW t \in Worker
      PROVE  Outbid(t)
  <2>1. /\ \A u \in Worker : bid[u].replaced \in Nat
        /\ bid \in [Worker -> [chain : Chain \union {NoChain}, fees : FeeType, shown : BOOLEAN,
                              replaced : 0 .. MaxReplacements, increment : Increments]]
    BY <1>1, BidAssumption DEF BidInv, BidTypeOK
  <2>2. CASE bid'[t].replaced = bid[t].replaced
    BY <2>1, <2>2
  <2>3. CASE bid'[t].replaced = 0
    BY <2>1, <2>3
  <2>4. ASSUME NEW quote \in Quotes, NEW increment \in Increments, Replace(t, increment, quote)
        PROVE  Outbid(t)
    BY <1>1, <2>4, ReplaceOutbids
  <2>5. ASSUME NEW u \in Worker, BidStep(u), u # t
        PROVE  bid'[t] = bid[t]
    BY <2>1, <2>5 DEF BidStep, Transact, Show, Replace, ForgetBid
  <2>6. ASSUME BidStep(t)
        PROVE  Outbid(t)
    <3>1. ASSUME NEW quote \in Quotes, NEW bound, NEW arg, NEW args,
                 Transact(t, bound, arg, args, quote)
          PROVE  bid'[t].replaced = 0
      BY <2>1, <3>1 DEF Transact, NoBid
    <3>2. Show(t) => bid'[t].replaced = bid[t].replaced
      BY <2>1 DEF Show
    <3>3. ForgetBid(t) => bid'[t].replaced = 0
      BY <2>1 DEF ForgetBid, NoBid
    <3> HIDE DEF Outbid
    <3> QED BY <2>2, <2>3, <2>4, <2>6, <3>1, <3>2, <3>3 DEF BidStep
  <2>7. CASE UNCHANGED bid
    BY <2>2, <2>7
  <2> HIDE DEF Outbid
  <2> QED BY <1>1, <2>2, <2>5, <2>6, <2>7 DEF BidNext
<1>2. ContextInv /\ BidInv /\ [BidNext]_<<contextVars, bid>>
      => [\A t \in Worker : Outbid(t)]_bid
  <2> HIDE DEF Outbid
  <2> QED BY <1>1 DEF ContextInv
<1> HIDE DEF Outbid
<1>3. BidSpec => [][BidNext]_<<contextVars, bid>>
  BY DEF BidSpec, BidNext
<1>4. BidSpec => [][\A t \in Worker : Outbid(t)]_bid
  BY <1>2, <1>3, BidInvariance, PTL
<1> QED BY <1>4 DEF FeesOutbid, Outbid

-----------------------------------------------------------------------------
(* The whole.                                                                *)

FeedNext ==
    \/ \E t \in Thread : ~Running(t) /\ ContextStep(t) /\ UNCHANGED feed
    \/ \E t \in Worker : FeedStep(t)

\* A step of the session is a step of each part or leaves the part as it is.
LEMMA SessionSteps ==
  ASSUME [Next]_sessionVars
  PROVE  /\ [\E t \in Thread : ContextStep(t)]_contextVars
         /\ [FeedNext]_<<contextVars, feed>>
         /\ [BidNext]_<<contextVars, bid>>
<1>1. CASE UNCHANGED sessionVars
  BY <1>1 DEF sessionVars, contextVars
<1>2. ASSUME NEW t \in Thread, MayChangeContext(t), ContextStep(t),
             UNCHANGED <<feed, call, bid, reading>>
      PROVE  FeedNext /\ BidNext
  BY <1>2 DEF MayChangeContext, FeedNext, BidNext
<1>3. ASSUME NEW t \in Worker, FeedStep(t) \/ BidStep(t) \/ CallStep(t) \/ ReadingStep(t)
      PROVE  UNCHANGED contextVars
  BY <1>3 DEF FeedStep, BidStep, CallStep, ReadingStep
<1>4. CASE Next
  BY <1>2, <1>3, <1>4 DEF Next, FeedNext, BidNext
<1> QED BY <1>1, <1>4

\* A session implements its parts: whatever else its threads do, their contexts, feeds and
\* bids behave as they do on their own.
THEOREM SessionImplements == Spec => ContextSpec /\ FeedSpec /\ BidSpec
<1>1. Init => ContextInit /\ FeedInit /\ BidInit
  BY DEF Init
<1>2. FeedSpec <=> ContextInit /\ FeedInit /\ [][FeedNext]_<<contextVars, feed>>
  BY DEF FeedSpec, FeedNext
<1>3. BidSpec <=> ContextInit /\ BidInit /\ [][BidNext]_<<contextVars, bid>>
  BY DEF BidSpec, BidNext
<1> QED BY <1>1, <1>2, <1>3, SessionSteps, PTL DEF Spec, ContextSpec

\* What holds of the parts holds of a session: strict contexts confine their threads and
\* feeds return every block, whatever the threads do meanwhile.
THEOREM SessionIsSafe == Spec => [](StrictIsConfined /\ BlocksAreThere)
BY SessionImplements, StrictHolds, FeedIsExact, PTL

\* Leaving a context restores what entering it found unless its manager was entered again,
\* and replacements outbid what they replace, whatever the threads do in between.
THEOREM SessionSteady == Spec => LeavingRestores /\ FeesOutbid
BY SessionImplements, ContextsRestore, ReplacementsOutbid

LEMMA SessionParts == Spec => [](ContextTypeOK /\ FeedTypeOK /\ BidTypeOK)
<1>1. BidInv => BidTypeOK
  BY DEF BidInv
<1> QED BY <1>1, SessionImplements, TypeCorrect, FeedTypeCorrect, BidInvariance, PTL

-----------------------------------------------------------------------------
(* Calls and readings.                                                       *)

\* Of the steps of a session, only making and ending calls touches calls.
LEMMA CallSteps ==
  ASSUME call = [t \in Worker |-> call[t]], [Next]_sessionVars
  PROVE  /\ call' = [t \in Worker |-> call'[t]]
         /\ \A t \in Worker :
                \/ call'[t] \in {call[t], NoCall}
                \/ \E ask \in Ask, manner \in Manner, bound \in Chain \union {NoChain}, c \in Chain :
                       call'[t] = Noted(t, ask, manner, bound, c)
<1>1. CASE UNCHANGED call
  BY <1>1
<1>2. ASSUME NEW t \in Worker, CallStep(t)
      PROVE  \E new : /\ call' = [call EXCEPT ![t] = new]
                      /\ \/ new = NoCall
                         \/ \E ask \in Ask, manner \in Manner,
                              bound \in Chain \union {NoChain}, c \in Chain :
                                new = Noted(t, ask, manner, bound, c)
  <2>1. CASE EndCall(t)
    BY <2>1 DEF EndCall
  <2>2. ASSUME NEW ask \in Ask, NEW manner \in Manner, NEW bound \in Chain \union {NoChain},
               NEW c \in Chain, Invoke(t, ask, manner, bound, c)
        PROVE  call' = [call EXCEPT ![t] = Noted(t, ask, manner, bound, c)]
    BY <2>2 DEF Invoke, Noted
  <2>3. CASE \E ask \in Ask, manner \in Manner, bound \in Chain \union {NoChain}, c \in Chain :
                 Invoke(t, ask, manner, bound, c)
    <3>1. PICK ask \in Ask, manner \in Manner, bound \in Chain \union {NoChain}, c \in Chain :
              Invoke(t, ask, manner, bound, c)
      BY <2>3
    <3> DEFINE new == Noted(t, ask, manner, bound, c)
    <3>2. call' = [call EXCEPT ![t] = new]
      BY <2>2, <3>1
    <3>3. \E a \in Ask, m \in Manner, b \in Chain \union {NoChain}, d \in Chain :
              new = Noted(t, a, m, b, d)
      BY <3>1
    <3> HIDE DEF new
    <3> QED BY <3>2, <3>3
  <2> QED BY <1>2, <2>1, <2>3 DEF CallStep
<1>3. ASSUME NEW t \in Worker, CallStep(t)
      PROVE  /\ call' = [u \in Worker |-> call'[u]]
             /\ \A u \in Worker :
                    \/ call'[u] \in {call[u], NoCall}
                    \/ \E ask \in Ask, manner \in Manner, bound \in Chain \union {NoChain}, c \in Chain :
                           call'[u] = Noted(u, ask, manner, bound, c)
  <2>1. PICK new : /\ call' = [call EXCEPT ![t] = new]
                   /\ \/ new = NoCall
                      \/ \E ask \in Ask, manner \in Manner,
                           bound \in Chain \union {NoChain}, c \in Chain :
                             new = Noted(t, ask, manner, bound, c)
    BY <1>2, <1>3
  <2>2. /\ call' = [u \in Worker |-> call'[u]] /\ call'[t] = new
        /\ \A u \in Worker : u # t => call'[u] = call[u]
    BY <2>1
  <2> QED BY <2>1, <2>2
<1>4. UNCHANGED call \/ \E t \in Worker : CallStep(t)
  BY DEF Next, sessionVars
<1> QED BY <1>1, <1>3, <1>4

\* What a reading holds.
ReadingOf(receipt, arg, used, have) ==
    [receipt |-> receipt, chain |-> arg, used |-> used, have |-> have,
     events |-> DecodeLogs(Known(used, have), Logs(receipt))]

IsReading(r) ==
    \E receipt \in Receipt, arg \in Chain \union {NoChain}, used \in Chain \union {NoChain},
      have \in SUBSET Address :
        r = ReadingOf(receipt, arg, used, have) /\ (arg # NoChain => used = arg)

ReadingInv ==
    /\ reading = [t \in Worker |-> reading[t]]
    /\ \A t \in Worker : reading[t] = NoReading \/ IsReading(reading[t])

\* Events are decoded once more with more ABIs, but always those of one chain.
LEMMA ReadingStepInv ==
  ASSUME ContextTypeOK, ReadingInv, NEW t \in Worker, ReadingStep(t)
  PROVE  ReadingInv'
<1>1. ASSUME NEW r, reading' = [reading EXCEPT ![t] = r], r = NoReading \/ IsReading(r)
      PROVE  ReadingInv'
  <2>1. /\ reading' = [u \in Worker |-> reading'[u]] /\ reading'[t] = r
        /\ \A u \in Worker : u # t => reading'[u] = reading[u]
    BY <1>1 DEF ReadingInv
  <2>2. \A u \in Worker : reading'[u] = NoReading \/ IsReading(reading'[u])
    BY <1>1, <2>1 DEF ReadingInv
  <2> QED BY <2>1, <2>2 DEF ReadingInv, IsReading, ReadingOf
<1>2. ASSUME NEW receipt \in Receipt, NEW arg \in Chain \union {NoChain},
             NEW have \in SUBSET Address, ReadEvents(t, receipt, arg, have)
      PROVE  ReadingInv'
  <2> DEFINE used == Resolved(t, NoChain, arg)
  <2>1. used \in Chain \union {NoChain} /\ (arg # NoChain => used = arg)
    BY ChainAssumption DEF Resolved, ContextTypeOK, DefaultType
  <2>2. reading' = [reading EXCEPT ![t] = ReadingOf(receipt, arg, used, have)]
    BY <1>2 DEF ReadEvents, ReadingOf
  <2> HIDE DEF used
  <2>3. IsReading(ReadingOf(receipt, arg, used, have))
    BY <2>1 DEF IsReading
  <2> QED BY <1>1, <2>2, <2>3
<1>3. CASE Enrich(t)
  <2>1. PICK have \in SUBSET Address :
            reading' = [reading EXCEPT ![t].have = have, ![t].events =
                            DecodeLogs(Known(reading[t].chain, have), Logs(reading[t].receipt))]
    BY <1>3 DEF Enrich
  <2>2. PICK receipt \in Receipt, arg \in Chain \union {NoChain},
             used \in Chain \union {NoChain}, had \in SUBSET Address :
            reading[t] = ReadingOf(receipt, arg, used, had) /\ (arg # NoChain => used = arg)
    BY <1>3 DEF Enrich, ReadingInv, IsReading
  <2>3. reading[t].chain = arg /\ reading[t].receipt = receipt /\ arg # NoChain
    BY <1>3, <2>2 DEF Enrich, ReadingOf
  <2>4. reading' = [reading EXCEPT ![t] = ReadingOf(receipt, arg, arg, have)]
    <3> DEFINE old == DecodeLogs(Known(used, had), Logs(receipt))
               new == DecodeLogs(Known(arg, have), Logs(receipt))
    <3>1. used = arg
      BY <2>2, <2>3
    <3>2. reading[t] = [receipt |-> receipt, chain |-> arg, used |-> arg, have |-> had,
                        events |-> old]
      BY <2>2, <3>1 DEF ReadingOf
    <3>3. reading' = [reading EXCEPT ![t].have = have, ![t].events = new]
      BY <2>1, <2>3
    <3>4. ReadingOf(receipt, arg, arg, have) =
              [receipt |-> receipt, chain |-> arg, used |-> arg, have |-> have, events |-> new]
      BY DEF ReadingOf
    <3> HIDE DEF old, new
    <3>5. reading = [u \in Worker |-> reading[u]]
      BY DEF ReadingInv
    <3>6. /\ reading' = [u \in Worker |-> reading'[u]]
          /\ \A u \in Worker : u # t => reading'[u] = reading[u]
      BY <3>3, <3>5
    <3>7. reading'[t] = [receipt |-> receipt, chain |-> arg, used |-> arg,
                         have |-> have, events |-> new]
      <4> DEFINE mid == [reading EXCEPT ![t].have = have]
      <4>1. mid = [u \in Worker |-> mid[u]] /\ mid[t] = [reading[t] EXCEPT !.have = have]
        BY <3>5
      <4>2. reading' = [mid EXCEPT ![t].events = new]
        BY <3>3
      <4> HIDE DEF mid
      <4>3. reading'[t] = [mid[t] EXCEPT !.events = new]
        BY <4>1, <4>2
      <4>4. mid[t] = [receipt |-> receipt, chain |-> arg, used |-> arg, have |-> have,
                      events |-> old]
        BY <3>2, <4>1
      <4> QED BY <4>3, <4>4
    <3>8. ASSUME NEW r, reading'[t] = r PROVE reading' = [reading EXCEPT ![t] = r]
      BY <3>5, <3>6, <3>8
    <3> QED BY <3>4, <3>7, <3>8
  <2>5. IsReading(ReadingOf(receipt, arg, arg, have))
    BY DEF IsReading
  <2> QED BY <1>1, <2>4, <2>5
<1>4. CASE DropEvents(t)
  BY <1>1, <1>4 DEF DropEvents
<1> QED BY <1>2, <1>3, <1>4 DEF ReadingStep

LEMMA ReadingInvariance == Spec => [](ContextTypeOK /\ ReadingInv)
<1>1. Init => ReadingInv
  BY DEF Init, ReadingInit, ReadingInv
<1>2. ReadingInv /\ UNCHANGED reading => ReadingInv'
  BY DEF ReadingInv, IsReading, ReadingOf
<1>3. [Next]_sessionVars => UNCHANGED reading \/ \E t \in Worker : ReadingStep(t)
  BY DEF Next, sessionVars
<1>4. ContextTypeOK /\ ReadingInv /\ [Next]_sessionVars => ReadingInv'
  BY <1>2, <1>3, ReadingStepInv
<1> QED BY <1>1, <1>4, SessionParts, PTL DEF Spec

\* The requests of a call go to chains.
CallTypeInv ==
    /\ call = [t \in Worker |-> call[t]]
    /\ \A t \in Worker : call[t] = NoCall \/ \A r \in call[t].requests : r.chain \in Chain

LEMMA CallTypeInvariance == Spec => []CallTypeInv
<1>1. Init => CallTypeInv
  BY DEF Init, CallInit, CallTypeInv
<1>2. ASSUME NEW t, NEW ask \in Ask, NEW manner, NEW bound \in Chain \union {NoChain}, NEW c \in Chain
      PROVE  \A r \in Noted(t, ask, manner, bound, c).requests : r.chain \in Chain
  BY ReachesItsChain DEF Noted, Requests
<1>3. CallTypeInv /\ [Next]_sessionVars => CallTypeInv'
  BY <1>2, CallSteps DEF CallTypeInv
<1> QED BY <1>1, <1>3, PTL DEF Spec

\* Everything has its type, in sessions of any number of threads.
THEOREM SessionTypeCorrect == Spec => []TypeOK
<1>1. ASSUME ReadingInv, NEW t \in Worker, reading[t] # NoReading, NEW i \in DOMAIN reading[t].events
      PROVE  reading[t].events[i].kind \in {"event", "malformed", "abi_missing", "topic_missing"}
  <2>1. PICK receipt, used, have :
            reading[t].events = DecodeLogs(Known(used, have), Logs(receipt))
    BY <1>1 DEF ReadingInv, IsReading, ReadingOf
  <2>2. i \in DOMAIN Logs(receipt) /\
        reading[t].events[i] = DecodeLog(Known(used, have), Logs(receipt)[i])
    BY <1>1, <2>1 DEF DecodeLogs
  <2> QED BY <2>2 DEF DecodeLog, Undecoded
<1>2. ContextTypeOK /\ FeedTypeOK /\ BidTypeOK /\ ReadingInv /\ CallTypeInv => TypeOK
  BY <1>1 DEF TypeOK, CallTypeInv
<1> QED BY <1>2, SessionParts, ReadingInvariance, CallTypeInvariance, PTL

CallInv ==
    /\ call = [t \in Worker |-> call[t]]
    /\ \A t \in Worker : call[t] = NoCall \/ ExactCall(call[t])

\* In any session of a contract whose functions differ in their signatures, every call is
\* exact.
THEOREM SessionCallsAreExact == NoListIsRefused /\ SignaturesDiffer => (Spec => []CallIsExact)
<1> SUFFICES ASSUME NoListIsRefused, SignaturesDiffer PROVE Spec => []CallIsExact
  OBVIOUS
<1>1. Init => CallInv
  BY DEF Init, CallInit, CallInv
<1>2. CallInv /\ [Next]_sessionVars => CallInv'
  <2> SUFFICES ASSUME CallInv, [Next]_sessionVars PROVE CallInv'
    OBVIOUS
  <2>1. /\ call' = [t \in Worker |-> call'[t]]
        /\ \A t \in Worker :
                \/ call'[t] \in {call[t], NoCall}
                \/ \E ask \in Ask, manner \in Manner, bound \in Chain \union {NoChain}, c \in Chain :
                       call'[t] = Noted(t, ask, manner, bound, c)
    BY CallSteps DEF CallInv
  <2>2. \A t \in Worker : call'[t] = NoCall \/ ExactCall(call'[t])
    BY <2>1, CallsAreExact DEF CallInv
  <2>3. \A t \in Worker : ExactCall(call'[t]) <=> ExactCall(call[t])'
    BY DEF ExactCall, ExactRequest
  <2> QED BY <2>1, <2>2, <2>3 DEF CallInv
<1>3. CallInv => CallIsExact
  <2> SUFFICES ASSUME CallInv, NEW t \in Worker, call[t] # NoCall
               PROVE  ExactCall(call[t])
    BY DEF CallIsExact, ExactCall, ExactRequest
  <2> QED BY DEF CallInv
<1> QED BY <1>1, <1>2, <1>3, PTL DEF Spec

\* In any session, the events read with the ABIs of the chain that emitted them are those
\* that were emitted.
THEOREM SessionEventsDecodeBack == EventsDiffer => (Spec => []EventsDecodeBack)
<1> SUFFICES ASSUME EventsDiffer PROVE Spec => []EventsDecodeBack
  OBVIOUS
<1>1. ASSUME ReadingInv, NEW t \in Worker, reading[t] # NoReading,
             reading[t].used = reading[t].receipt.chain
      PROVE  LET emitted == reading[t].receipt.emitted
                 events == reading[t].events
             IN  /\ Len(events) = Len(emitted)
                 /\ \A i \in DOMAIN events :
                        LET e == emitted[i].item IN
                        /\ events[i].kind = "event" =>
                               /\ events[i].name = e.name
                               /\ events[i].values =
                                      Arguments(e, emitted[i].values, Len(e.inputs))
                        /\ DOMAIN e.inputs = 1 .. Len(e.inputs)
                        /\ /\ emitted[i].address \in reading[t].have /\ ~e.anonymous
                           /\ e \in Range(AbiAt[reading[t].used][emitted[i].address])
                           => events[i].kind = "event"
  <2>1. PICK receipt \in Receipt, arg \in Chain \union {NoChain},
             used \in Chain \union {NoChain}, have \in SUBSET Address :
            reading[t] = ReadingOf(receipt, arg, used, have)
    BY <1>1 DEF ReadingInv, IsReading
  <2> DEFINE emitted == receipt.emitted
             events == DecodeLogs(Known(receipt.chain, have), Logs(receipt))
  <2>2. /\ reading[t].receipt.emitted = emitted /\ reading[t].events = events
        /\ reading[t].used = receipt.chain /\ reading[t].have = have
    BY <1>1, <2>1 DEF ReadingOf
  <2>3. /\ Len(emitted) \in Nat /\ DOMAIN emitted = 1 .. Len(emitted)
        /\ events = [i \in DOMAIN emitted |->
                        DecodeLog(Known(receipt.chain, have), Logs(receipt)[i])]
    BY EventAssumption DEF DecodeLogs, Logs
  <2>4. Len(events) = Len(emitted)
    <3> HIDE DEF emitted
    <3>1. events = [i \in 1 .. Len(emitted) |-> events[i]]
      BY <2>3
    <3> HIDE DEF events
    <3> QED BY <2>3, <3>1, LengthOf
  <2>5. \A i \in DOMAIN emitted :
            LET e == emitted[i].item IN
            /\ events[i].kind = "event" =>
                   /\ events[i].name = e.name
                   /\ events[i].values = Arguments(e, emitted[i].values, Len(e.inputs))
            /\ /\ emitted[i].address \in have /\ ~e.anonymous
               /\ e \in Range(AbiAt[receipt.chain][emitted[i].address])
               => events[i].kind = "event"
    <3> SUFFICES ASSUME NEW i \in DOMAIN receipt.emitted
                 PROVE  LET e == emitted[i].item IN
                        /\ events[i].kind = "event" =>
                               /\ events[i].name = e.name
                               /\ events[i].values = Arguments(e, emitted[i].values, Len(e.inputs))
                        /\ /\ emitted[i].address \in have /\ ~e.anonymous
                           /\ e \in Range(AbiAt[receipt.chain][emitted[i].address])
                           => events[i].kind = "event"
      OBVIOUS
    <3>1. events[i] = DecodeLog(Known(receipt.chain, have), Logs(receipt)[i])
      BY <2>3
    <3> DEFINE event == DecodeLog(Known(receipt.chain, have), Logs(receipt)[i])
               emission == receipt.emitted[i]
    <3>2. /\ event.kind = "event" =>
                 /\ event.name = emission.item.name
                 /\ event.values = Arguments(emission.item, emission.values, Len(emission.item.inputs))
          /\ /\ emission.address \in have /\ ~emission.item.anonymous
             /\ emission.item \in Range(AbiAt[receipt.chain][emission.address])
             => event.kind = "event"
      BY LogsDecodeBack
    <3>3. events[i] = event /\ emitted[i] = emission
      BY <3>1
    <3> HIDE DEF events, emitted, event, emission
    <3> QED BY <3>2, <3>3
  <2>6. \A i \in DOMAIN emitted : DOMAIN emitted[i].item.inputs = 1 .. Len(emitted[i].item.inputs)
    <3>1. \A e \in ItemShape : DOMAIN e.inputs = 1 .. Len(e.inputs)
      <4> SUFFICES ASSUME NEW e \in ItemShape PROVE DOMAIN e.inputs = 1 .. Len(e.inputs)
        OBVIOUS
      <4>1. e.inputs \in Seq([name : STRING, type : Type, indexed : BOOLEAN])
        BY DEF ItemShape
      <4> QED BY <4>1
    <3>2. \A i \in DOMAIN emitted : emitted[i].item \in ItemShape
      BY EventAssumption
    <3> QED BY <3>1, <3>2
  <2>7. DOMAIN events = DOMAIN emitted
    BY <2>3
  <2> HIDE DEF emitted, events
  <2> QED BY <2>2, <2>4, <2>5, <2>6, <2>7
<1>2. ReadingInv => EventsDecodeBack
  BY <1>1 DEF EventsDecodeBack, Arguments
<1> QED BY <1>2, ReadingInvariance, PTL

\* Whatever chain a receipt is read with, and however its events are declared there: logs
\* are decoded one for one and in order, and none as an event of another name.
EventsKeepTheirName ==
    \A t \in Worker : reading[t] # NoReading =>
        LET emitted == reading[t].receipt.emitted
            events == reading[t].events
        IN  /\ DOMAIN events = DOMAIN emitted
            /\ \A i \in DOMAIN events : events[i].kind = "event" =>
                   /\ events[i].name = emitted[i].item.name /\ ~emitted[i].item.anonymous
                   /\ reading[t].used # NoChain

\* So it is in any session: EventList never takes a log for another event by its ABIs.
THEOREM SessionEventsKeepTheirName == Spec => []EventsKeepTheirName
<1>1. ASSUME ReadingInv, NEW t \in Worker, reading[t] # NoReading
      PROVE  /\ DOMAIN reading[t].events = DOMAIN reading[t].receipt.emitted
             /\ \A i \in DOMAIN reading[t].events : reading[t].events[i].kind = "event" =>
                    /\ reading[t].events[i].name = reading[t].receipt.emitted[i].item.name
                    /\ ~reading[t].receipt.emitted[i].item.anonymous
                    /\ reading[t].used # NoChain
  <2>1. PICK receipt \in Receipt, arg \in Chain \union {NoChain},
             used \in Chain \union {NoChain}, have \in SUBSET Address :
            reading[t] = ReadingOf(receipt, arg, used, have)
    BY <1>1 DEF ReadingInv, IsReading
  <2> DEFINE events == DecodeLogs(Known(used, have), Logs(receipt))
  <2>2. /\ reading[t].receipt = receipt /\ reading[t].events = events /\ reading[t].used = used
    BY <2>1 DEF ReadingOf
  <2>3. events = [i \in DOMAIN receipt.emitted |-> DecodeLog(Known(used, have), Logs(receipt)[i])]
    BY DEF DecodeLogs, Logs
  <2>4. \A i \in DOMAIN receipt.emitted : events[i].kind = "event" =>
            /\ events[i].name = receipt.emitted[i].item.name
            /\ ~receipt.emitted[i].item.anonymous /\ used # NoChain
    <3> HIDE DEF events
    <3> QED BY <2>3, LogsKeepTheirName
  <2>5. DOMAIN events = DOMAIN receipt.emitted
    BY <2>3
  <2> HIDE DEF events
  <2> QED BY <2>2, <2>4, <2>5
<1>2. ReadingInv => EventsKeepTheirName
  BY <1>1 DEF EventsKeepTheirName
<1> QED BY <1>2, ReadingInvariance, PTL

\* No function of the contract takes a struct, or an array of structs.
NoStructs ==
    \A f \in Range(Abi) : \A i \in DOMAIN f.inputs : f.inputs[i].parts = <<>>

CanonicalInv ==
    /\ call = [t \in Worker |-> call[t]]
    /\ \A t \in Worker : call[t] = NoCall
           \/ \A r \in call[t].requests : r.selector = CanonicalSignature(r.function)

\* Then what is sent for a function is dispatched to that function, in any session; and
\* SelectorsWithoutStructs says that one struct is enough to spoil it (abi.py 397).
THEOREM SessionSelectorsAreCanonical == NoStructs => (Spec => []SelectorIsCanonical)
<1> SUFFICES ASSUME NoStructs PROVE Spec => []SelectorIsCanonical
  OBVIOUS
<1>1. Init => CanonicalInv
  BY DEF Init, CallInit, CanonicalInv
<1>2. ASSUME NEW t, NEW ask \in Ask, NEW manner, NEW bound, NEW c
      PROVE  \A r \in Noted(t, ask, manner, bound, c).requests :
                 r.selector = CanonicalSignature(r.function)
  <2> SUFFICES ASSUME NEW r \in Requests(t, ask, manner, bound, c)
               PROVE  r.selector = CanonicalSignature(r.function)
    BY DEF Noted
  <2>1. PICK f \in Chosen(ask) : r.function = f /\ r.selector = FunctionSignature(f)
    BY DEF Requests
  <2>2. f \in Range(Abi)
    BY ChosenIsNamed DEF Named
  <2> QED BY <2>1, <2>2, SelectorsWithoutStructs DEF NoStructs
<1>3. CanonicalInv /\ [Next]_sessionVars => CanonicalInv'
  BY <1>2, CallSteps DEF CanonicalInv
<1>4. CanonicalInv => SelectorIsCanonical
  BY DEF CanonicalInv, SelectorIsCanonical
<1> QED BY <1>1, <1>3, <1>4, PTL DEF Spec
=============================================================================
