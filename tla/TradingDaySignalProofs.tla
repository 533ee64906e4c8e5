------------------------ MODULE TradingDaySignalProofs ------------------------
(***************************************************************************)
(* The theorem that a row of scan_results says "retest" exactly when a bar *)
(* finished before the row's own had closed above the range: what the bars *)
(* of a formed opening range are, which bars can still change, and what    *)
(* the Scanner concludes from them.                                        *)
(***************************************************************************)
EXTENDS TradingDayProofs, WellFoundedInduction

\* b starts with the three bars of the opening range
Ranged(b) ==
  /\ b \in Seq(Bar) /\ Len(b) >= 3
  /\ \A i \in 1 .. 3 : b[i].slot = i - 1
  /\ \A i \in 4 .. Len(b) : b[i].slot > 2

\* b starts with the first and the last of them only
Gapped(b) ==
  /\ b \in Seq(Bar) /\ Len(b) >= 2
  /\ b[1].slot = 0 /\ b[2].slot = 2
  /\ \A i \in 3 .. Len(b) : b[i].slot > 2

\* The range is over, with or without all of its bars.
RangeTaken == slot >= 3 /\ (Ranged(bars) \/ Gapped(bars))

\* A row comes from a formed range, and no bar older than it can change.
RowConfirmed ==
  row # NoSignal =>
    /\ Ranged(bars) /\ row.slot \in Nat /\ row.slot <= slot
    /\ row.model = "retest" <=> \E i \in Confirming(bars) : bars[i].slot < row.slot

SignalInv == BarsInOrder /\ RangeTaken /\ RowConfirmed

-----------------------------------------------------------------------------
(* Sets of numbers.                                                        *)

\* A set of natural numbers has a least one.
LEMMA Least ==
  ASSUME NEW S, S \subseteq Nat, S # {}
  PROVE  Min(S) \in S /\ \A y \in S : Min(S) <= y
<1> DEFINE Below == {ss \in Nat \X Nat : ss[1] < ss[2]}
<1>1. Below = OpToRel(<, Nat)
  BY Zenon DEF OpToRel
<1>2. IsWellFoundedOn(Below, Nat)
  BY <1>1, NatLessThanWellFounded, Zenon
<1>3. \A x, y \in Nat : y < x => <<y, x>> \in Below
  OBVIOUS
<1> HIDE DEF Below
<1>4. PICK x \in S : \A y \in S : ~(<<y, x>> \in Below)
  BY <1>2, WFMin
<1>5. ASSUME NEW y \in S
      PROVE  x <= y
  <2>1. x \in Nat /\ y \in Nat
    OBVIOUS
  <2>2. ~(y < x)
    BY <1>3, <1>4, <2>1, Zenon
  <2> QED
    BY <2>1, <2>2
<1> QED
  BY <1>5 DEF Min

-----------------------------------------------------------------------------
(* The opening range.                                                      *)

\* With its three bars the range is those, and is formed.
LEMMA RangeOf ==
  ASSUME NEW b, Ranged(b)
  PROVE  /\ DOMAIN b = 1 .. Len(b) /\ Len(b) \in Nat
         /\ RangeBars(b) = 1 .. 3 /\ Max(RangeBars(b)) = 3
<1>1. DOMAIN b = 1 .. Len(b) /\ Len(b) \in Nat /\ Len(b) >= 3
  BY DEF Ranged
<1>2. RangeBars(b) = 1 .. 3
  <2>1. ASSUME NEW i \in 1 .. Len(b)
        PROVE  b[i].slot \in 0 .. 2 <=> i \in 1 .. 3
    <3>1. CASE i \in 1 .. 3
      <4>1. b[i].slot = i - 1
        BY <3>1 DEF Ranged
      <4> QED
        BY <3>1, <4>1
    <3>2. CASE i \in 4 .. Len(b)
      <4>1. b[i].slot > 2 /\ b[i] \in Bar
        BY <3>2 DEF Ranged
      <4>2. b[i].slot \in Nat
        BY <4>1 DEF Bar
      <4> QED
        BY <3>2, <4>1, <4>2
    <3> QED
      BY <1>1, <3>1, <3>2
  <2> QED
    BY <1>1, <2>1 DEF RangeBars, OpeningRange
<1>3. Max(1 .. 3) = 3
  <2>1. 3 \in 1 .. 3 /\ \A y \in 1 .. 3 : 3 >= y
    OBVIOUS
  <2>2. \A x \in 1 .. 3 : (\A y \in 1 .. 3 : x >= y) => x = 3
    OBVIOUS
  <2> QED
    BY <2>1, <2>2 DEF Max
<1> QED
  BY <1>1, <1>2, <1>3

\* Without the one in the middle it is never formed.
LEMMA NeverFormed ==
  ASSUME NEW b, Gapped(b)
  PROVE  ~RangeFormed(b)
<1>1. DOMAIN b = 1 .. Len(b) /\ Len(b) \in Nat /\ Len(b) >= 2
  BY DEF Gapped
<1>2. RangeBars(b) = {1} \union {2}
  <2>1. ASSUME NEW i \in 1 .. Len(b)
        PROVE  b[i].slot \in 0 .. 2 <=> i \in {1, 2}
    <3>1. CASE i \in {1, 2}
      BY <3>1 DEF Gapped
    <3>2. CASE i \in 3 .. Len(b)
      <4>1. b[i].slot > 2 /\ b[i] \in Bar
        BY <3>2 DEF Gapped
      <4>2. b[i].slot \in Nat
        BY <4>1 DEF Bar
      <4> QED
        BY <3>2, <4>1, <4>2
    <3> QED
      BY <1>1, <3>1, <3>2
  <2> QED
    BY <1>1, <2>1 DEF RangeBars, OpeningRange
<1>3. Cardinality({1} \union {2}) = 2
  <2>1. IsFiniteSet({1}) /\ Cardinality({1}) = 1 /\ 2 \notin {1}
    BY FS_Singleton
  <2> QED
    BY <2>1, FS_AddElement
<1> QED
  BY <1>2, <1>3 DEF RangeFormed

\* Bars that confirm come after the range.
LEMMA ConfirmingAfter ==
  ASSUME NEW b, Ranged(b)
  PROVE  Confirming(b) = {i \in 4 .. Len(b) : b[i].close > RangeHigh(b)}
<1>1. DOMAIN b = 1 .. Len(b) /\ Len(b) \in Nat /\ Max(RangeBars(b)) = 3
  BY RangeOf
<1>2. \A i \in 1 .. Len(b) : i > 3 <=> i \in 4 .. Len(b)
  BY <1>1
<1>3. 4 .. Len(b) \subseteq 1 .. Len(b)
  BY <1>1
<1> QED
  BY <1>1, <1>2, <1>3 DEF Confirming
-----------------------------------------------------------------------------
(* The row.                                                                *)

\* The bar that broke the range is the first that confirms.
LEMMA FirstOfConfirming ==
  ASSUME NEW b, Ranged(b), Confirming(b) # {}
  PROVE  /\ FirstConfirms(b) \in Confirming(b) /\ FirstConfirms(b) \in 1 .. Len(b)
         /\ \A i \in Confirming(b) : FirstConfirms(b) <= i
<1>1. Confirming(b) \subseteq 1 .. Len(b) /\ Confirming(b) \subseteq Nat
  <2>1. DOMAIN b = 1 .. Len(b) /\ Len(b) \in Nat
    BY RangeOf
  <2> QED
    BY <2>1 DEF Confirming
<1>2. /\ Min(Confirming(b)) \in Confirming(b)
      /\ \A i \in Confirming(b) : Min(Confirming(b)) <= i
  BY <1>1, Least
<1> QED
  BY <1>1, <1>2, Zenon DEF FirstConfirms

\* What the Scanner concludes while the last bar is in progress: a retest when
\* a bar before it confirmed, a breakout when it is the first itself.
LEMMA Concluded ==
  ASSUME BarsInOrder, RangeTaken,
         NEW signal, signal = evaluate_orb_entry(bars), signal # NoSignal
  PROVE  /\ Ranged(bars) /\ signal.slot = Last.slot
         /\ signal.model = "retest" <=> \E i \in Confirming(bars) : bars[i].slot < signal.slot
<1> DEFINE n == Len(bars)
<1>1. Confirming(bars) # {} /\ RangeFormed(bars)
  BY DEF evaluate_orb_entry
<1>2. Ranged(bars)
  BY <1>1, NeverFormed DEF RangeTaken
<1>3. \/ Breakout(bars) /\ signal = SignalOf(bars, "breakout")
      \/ Retest(bars) /\ signal = SignalOf(bars, "retest")
  BY <1>1 DEF evaluate_orb_entry
<1>4. \A model \in {"breakout", "retest"} :
        SignalOf(bars, model).slot = Last.slot /\ SignalOf(bars, model).model = model
  BY DEF SignalOf, Last
<1>5. /\ FirstConfirms(bars) \in Confirming(bars) /\ FirstConfirms(bars) \in 1 .. n
      /\ \A i \in Confirming(bars) : FirstConfirms(bars) <= i
  BY <1>1, <1>2, FirstOfConfirming
<1>6. n \in Nat /\ n \in 1 .. n /\ Last = bars[n]
  BY DEF BarsInOrder, Last
<1>7. Confirming(bars) \subseteq 1 .. n
  BY <1>2, RangeOf DEF Confirming
<1>8. \A i \in 1 .. n : bars[i].slot \in Nat
  <2>1. \A i \in 1 .. n : bars[i] \in Bar
    BY DEF BarsInOrder
  <2> QED
    BY <2>1 DEF Bar
<1>9. signal.slot = Last.slot
  BY <1>3, <1>4
<1>10. CASE Breakout(bars) /\ signal = SignalOf(bars, "breakout")
  <2>1. signal.model # "retest"
    BY <1>4, <1>10
  <2>2. \A i \in Confirming(bars) : i = n
    BY <1>5, <1>6, <1>7, <1>10 DEF Breakout
  <2>3. ~\E i \in Confirming(bars) : bars[i].slot < signal.slot
    BY <1>6, <1>8, <1>9, <2>2
  <2> QED
    BY <1>2, <1>9, <2>1, <2>3
<1>11. CASE Retest(bars) /\ signal = SignalOf(bars, "retest")
  <2>1. signal.model = "retest"
    BY <1>4, <1>11
  <2>2. FirstConfirms(bars) < n
    BY <1>11 DEF Retest
  <2>3. bars[FirstConfirms(bars)].slot < bars[n].slot
    BY <1>5, <1>6, <2>2 DEF BarsInOrder
  <2> QED
    BY <1>2, <1>5, <1>6, <1>9, <2>1, <2>3
<1> QED
  BY <1>3, <1>10, <1>11

-----------------------------------------------------------------------------
(* The bars that no longer change.                                         *)

\* Trades change or add a bar of the present slot, and no other.
LEMMA EarlierBarsStay ==
  ASSUME DayAssumption, BarsInOrder, NEW p \in Prices, FirstTrade(p) \/ Trade(p)
  PROVE  /\ slot' = slot /\ bars' \in Seq(Bar) /\ Len(bars') \in Nat /\ Len(bars') >= Len(bars)
         /\ \A i \in 1 .. Len(bars) : bars[i].slot < slot => bars'[i] = bars[i]
         /\ \A i \in 1 .. Len(bars') :
              bars'[i].slot = slot \/ (i \in 1 .. Len(bars) /\ bars'[i] = bars[i])
<1>1. bars \in Seq(Bar) /\ Len(bars) \in Nat /\ Len(bars) \in 1 .. Len(bars) /\ slot \in Nat
  BY DEF BarsInOrder
<1>2. bars' \in Seq(Bar)
  BY BarsStep DEF BarsInOrder, Next, Market
<1>3. CASE FirstTrade(p)
  <2>1. bars' = Append(bars, Flat(slot, p)) /\ slot' = slot
    BY <1>3 DEF FirstTrade
  <2>2. Flat(slot, p).slot = slot
    BY DEF Flat
  <2>3. /\ Len(bars') = Len(bars) + 1 /\ bars'[Len(bars) + 1] = Flat(slot, p)
        /\ \A i \in 1 .. Len(bars) : bars'[i] = bars[i]
    BY <1>1, <2>1
  <2>4. \A i \in 1 .. Len(bars') : i \in 1 .. Len(bars) \/ i = Len(bars) + 1
    BY <1>1, <2>3
  <2> QED
    BY <1>1, <1>2, <2>1, <2>2, <2>3, <2>4
<1>4. CASE Trade(p)
  <2> DEFINE n == Len(bars)
             b == [bars[n] EXCEPT !.close = p, !.high = Max({@, p}), !.low = Min({@, p})]
  <2>1. bars[n].slot = slot /\ slot' = slot
    BY <1>4 DEF Trade, Last
  <2>2. bars[n] \in Bar
    BY <1>1
  <2>3. b \in Bar /\ b.slot = slot
    BY <2>1, <2>2, BarTraded
  <2>4. bars' = [bars EXCEPT ![n] = b]
    BY <1>1, <1>4, <2>2 DEF Trade, Bar
  <2> HIDE DEF b
  <2>5. Len(bars') = n /\ bars'[n] = b /\ \A i \in 1 .. n : i # n => bars'[i] = bars[i]
    BY <1>1, <2>3, <2>4
  <2>6. ~(slot < slot)
    BY <1>1
  <2> QED
    BY <1>1, <1>2, <2>1, <2>3, <2>5, <2>6
<1> QED
  BY <1>3, <1>4

\* So a formed range stays as it is, and what confirmed before time t, at most
\* the present, is what confirms before t now.
LEMMA EarlierConfirm ==
  ASSUME DayAssumption, BarsInOrder, slot >= 3, Ranged(bars),
         NEW p \in Prices, FirstTrade(p) \/ Trade(p),
         NEW t \in Nat, t <= slot
  PROVE  /\ Ranged(bars')
         /\ (\E i \in Confirming(bars') : bars'[i].slot < t)
              <=> \E i \in Confirming(bars) : bars[i].slot < t
<1>1. /\ slot' = slot /\ bars' \in Seq(Bar) /\ Len(bars') \in Nat /\ Len(bars') >= Len(bars)
      /\ \A i \in 1 .. Len(bars) : bars[i].slot < slot => bars'[i] = bars[i]
      /\ \A i \in 1 .. Len(bars') :
           bars'[i].slot = slot \/ (i \in 1 .. Len(bars) /\ bars'[i] = bars[i])
  BY EarlierBarsStay
<1>2. /\ Len(bars) \in Nat /\ Len(bars) >= 3 /\ slot \in Nat
      /\ \A i \in 1 .. 3 : bars[i].slot = i - 1
      /\ \A i \in 4 .. Len(bars) : bars[i].slot > 2
  BY DEF Ranged, BarsInOrder
<1>3. \A i \in 1 .. 3 : bars'[i] = bars[i]
  <2>1. \A i \in 1 .. 3 : i \in 1 .. Len(bars) /\ bars[i].slot < slot
    BY <1>2
  <2> QED
    BY <1>1, <2>1
<1>4. Ranged(bars')
  <2>1. ASSUME NEW i \in 4 .. Len(bars')
        PROVE  bars'[i].slot > 2
    <3>1. i \in 1 .. Len(bars')
      BY <1>1
    <3>2. CASE bars'[i].slot = slot
      BY <1>2, <3>2
    <3>3. CASE i \in 1 .. Len(bars) /\ bars'[i] = bars[i]
      BY <1>2, <3>3
    <3> QED
      BY <1>1, <3>1, <3>2, <3>3
  <2>2. Len(bars') >= 3
    BY <1>1, <1>2
  <2>3. \A i \in 1 .. 3 : bars'[i].slot = i - 1
    BY <1>2, <1>3
  <2> QED
    BY <1>1, <2>1, <2>2, <2>3 DEF Ranged
<1>5. RangeHigh(bars') = RangeHigh(bars)
  <2>1. RangeBars(bars') = 1 .. 3 /\ RangeBars(bars) = 1 .. 3
    BY <1>4, RangeOf
  <2>2. {bars'[i].high : i \in RangeBars(bars')} = {bars[i].high : i \in RangeBars(bars)}
    BY <1>3, <2>1
  <2> QED
    BY <2>2 DEF RangeHigh
<1> DEFINE high == RangeHigh(bars)
<1>6. /\ Confirming(bars) = {i \in 4 .. Len(bars) : bars[i].close > high}
      /\ Confirming(bars') = {i \in 4 .. Len(bars') : bars'[i].close > high}
  BY <1>4, <1>5, ConfirmingAfter
<1> HIDE DEF high
<1>7. ASSUME NEW i \in Confirming(bars), bars[i].slot < t
      PROVE  i \in Confirming(bars') /\ bars'[i].slot < t
  <2>1. i \in 4 .. Len(bars) /\ bars[i].close > high
    BY <1>6
  <2>2. bars[i] \in Bar
    BY <1>2, <2>1 DEF Ranged
  <2>3. bars[i].slot \in Nat
    BY <2>2 DEF Bar
  <2>4. i \in 1 .. Len(bars) /\ i \in 4 .. Len(bars') /\ bars[i].slot < slot
    BY <1>1, <1>2, <1>7, <2>1, <2>3
  <2>5. bars'[i] = bars[i]
    BY <1>1, <2>4
  <2> QED
    BY <1>6, <1>7, <2>1, <2>4, <2>5
<1>8. ASSUME NEW i \in Confirming(bars'), bars'[i].slot < t
      PROVE  i \in Confirming(bars) /\ bars[i].slot < t
  <2>1. i \in 4 .. Len(bars') /\ bars'[i].close > high /\ i \in 1 .. Len(bars')
    BY <1>1, <1>6
  <2>2. bars'[i].slot # slot
    BY <1>2, <1>8
  <2>3. i \in 1 .. Len(bars) /\ bars'[i] = bars[i]
    BY <1>1, <2>1, <2>2
  <2>4. i \in 4 .. Len(bars)
    BY <1>2, <2>1, <2>3
  <2> QED
    BY <1>6, <1>8, <2>1, <2>3, <2>4
<1> QED
  BY <1>4, <1>7, <1>8

\* Neither do trades ever form a range that has a gap.
LEMMA GapStays ==
  ASSUME DayAssumption, BarsInOrder, slot >= 3, Gapped(bars),
         NEW p \in Prices, FirstTrade(p) \/ Trade(p)
  PROVE  Gapped(bars')
<1>1. /\ bars' \in Seq(Bar) /\ Len(bars') \in Nat /\ Len(bars') >= Len(bars)
      /\ \A i \in 1 .. Len(bars) : bars[i].slot < slot => bars'[i] = bars[i]
      /\ \A i \in 1 .. Len(bars') :
           bars'[i].slot = slot \/ (i \in 1 .. Len(bars) /\ bars'[i] = bars[i])
  BY EarlierBarsStay
<1>2. /\ Len(bars) \in Nat /\ Len(bars) >= 2 /\ slot \in Nat
      /\ bars[1].slot = 0 /\ bars[2].slot = 2
      /\ \A i \in 3 .. Len(bars) : bars[i].slot > 2
  BY DEF Gapped, BarsInOrder
<1>3. bars'[1] = bars[1] /\ bars'[2] = bars[2]
  <2>1. 1 \in 1 .. Len(bars) /\ bars[1].slot < slot /\ 2 \in 1 .. Len(bars) /\ bars[2].slot < slot
    BY <1>2
  <2> QED
    BY <1>1, <2>1
<1>4. ASSUME NEW i \in 3 .. Len(bars')
      PROVE  bars'[i].slot > 2
  <2>1. i \in 1 .. Len(bars')
    BY <1>1
  <2>2. CASE bars'[i].slot = slot
    BY <1>2, <2>2
  <2>3. CASE i \in 1 .. Len(bars) /\ bars'[i] = bars[i]
    BY <1>2, <2>3
  <2> QED
    BY <1>1, <2>1, <2>2, <2>3
<1>5. Len(bars') >= 2
  BY <1>1, <1>2
<1> QED
  BY <1>1, <1>2, <1>3, <1>4, <1>5 DEF Gapped

-----------------------------------------------------------------------------
(* The theorem.                                                            *)

\* The day is taken up when the range is over.
LEMMA SignalInit ==
  ASSUME StrategyAssumption, DayAssumption, Init
  PROVE  SignalInv
<1>1. BarsInOrder
  BY Initially DEF IInv
<1>2. RangeTaken
  <2>1. PICK high \in Prices, last \in Prices, gaps \in BOOLEAN :
          bars = IF gaps THEN <<Flat(0, high), Flat(2, last)>>
                         ELSE <<Flat(0, high), Flat(1, last), Flat(2, last)>>
    BY DEF Init
  <2>2. \A p \in Prices : Flat(0, p).slot = 0 /\ Flat(1, p).slot = 1 /\ Flat(2, p).slot = 2
    BY DEF Flat
  <2>3. bars \in Seq(Bar)
    BY <1>1 DEF BarsInOrder
  <2>4. CASE gaps
    <3>1. Len(bars) = 2 /\ bars[1] = Flat(0, high) /\ bars[2] = Flat(2, last)
      BY <2>1, <2>4
    <3>2. Gapped(bars)
      BY <2>2, <2>3, <3>1 DEF Gapped
    <3> QED
      BY <3>2 DEF RangeTaken, Init
  <2>5. CASE ~gaps
    <3>1. /\ Len(bars) = 3 /\ bars[1] = Flat(0, high) /\ bars[2] = Flat(1, last)
          /\ bars[3] = Flat(2, last)
      BY <2>1, <2>5
    <3>2. \A i \in 1 .. 3 : i = 1 \/ i = 2 \/ i = 3
      OBVIOUS
    <3>3. \A i \in 1 .. 3 : bars[i].slot = i - 1
      BY <2>2, <3>1, <3>2
    <3>4. Ranged(bars)
      BY <2>3, <3>1, <3>3 DEF Ranged
    <3> QED
      BY <3>4 DEF RangeTaken, Init
  <2> QED
    BY <2>4, <2>5
<1>3. RowConfirmed
  BY DEF Init, RowConfirmed
<1> QED
  BY <1>1, <1>2, <1>3 DEF SignalInv

\* Neither trades, time nor the Scanner make a row name the wrong model.
LEMMA SignalStep ==
  ASSUME DayAssumption, SignalInv, [Next]_vars
  PROVE  SignalInv'
<1>1. BarsInOrder /\ RangeTaken /\ RowConfirmed
  BY DEF SignalInv
<1>2. BarsInOrder'
  BY <1>1, BarsStep
<1>3. slot \in Nat /\ slot >= 3 /\ Last.slot \in Nat /\ Last.slot <= slot
  <2>1. Last \in Bar /\ Last = bars[Len(bars)] /\ Len(bars) \in 1 .. Len(bars)
    BY <1>1, LastBar DEF BarsInOrder
  <2>2. Last.slot \in Nat
    BY <2>1 DEF Bar
  <2> QED
    BY <1>1, <2>1, <2>2 DEF BarsInOrder, RangeTaken
<1> SUFFICES RangeTaken' /\ RowConfirmed'
  BY <1>2 DEF SignalInv
<1>4. ASSUME NEW p \in Prices, FirstTrade(p) \/ Trade(p)
      PROVE  RangeTaken' /\ RowConfirmed'
  <2>1. row' = row /\ slot' = slot
    BY <1>4 DEF FirstTrade, Trade, signalled
  <2>2. RangeTaken'
    <3>1. CASE Ranged(bars)
      BY <1>1, <1>3, <1>4, <2>1, <3>1, EarlierConfirm, 0 \in Nat DEF RangeTaken
    <3>2. CASE Gapped(bars)
      BY <1>1, <1>3, <1>4, <2>1, <3>2, GapStays DEF RangeTaken
    <3> QED
      BY <1>1, <3>1, <3>2 DEF RangeTaken
  <2>3. ASSUME row # NoSignal
        PROVE  /\ Ranged(bars')
               /\ row.model = "retest" <=> \E i \in Confirming(bars') : bars'[i].slot < row.slot
    <3>1. /\ Ranged(bars) /\ row.slot \in Nat /\ row.slot <= slot
          /\ row.model = "retest" <=> \E i \in Confirming(bars) : bars[i].slot < row.slot
      BY <1>1, <2>3 DEF RowConfirmed
    <3>2. /\ Ranged(bars')
          /\ (\E i \in Confirming(bars') : bars'[i].slot < row.slot)
               <=> \E i \in Confirming(bars) : bars[i].slot < row.slot
      BY <1>1, <1>3, <1>4, <3>1, EarlierConfirm
    <3> QED
      BY <3>1, <3>2
  <2> QED
    BY <1>1, <2>1, <2>2, <2>3 DEF RowConfirmed
<1>5. CASE SlotPasses
  <2>1. slot' = slot + 1 /\ bars' = bars /\ (row' = NoSignal \/ row' = row)
    BY <1>5 DEF SlotPasses, signalled
  <2>2. RangeTaken'
    BY <1>1, <1>3, <2>1 DEF RangeTaken
  <2>3. row # NoSignal /\ row' = row => row'.slot \in Nat /\ row'.slot <= slot'
    BY <1>1, <1>3, <2>1 DEF RowConfirmed
  <2> QED
    BY <1>1, <2>1, <2>2, <2>3 DEF RowConfirmed
<1>6. CASE Scan
  <2>1. /\ slot' = slot /\ bars' = bars
        /\ row' = NoSignal \/ row' = evaluate_orb_entry(bars)
    BY <1>6 DEF Scan
  <2>2. row' # NoSignal =>
          /\ Ranged(bars) /\ row'.slot = Last.slot
          /\ row'.model = "retest" <=> \E i \in Confirming(bars) : bars[i].slot < row'.slot
    BY <1>1, <2>1, Concluded
  <2> QED
    BY <1>1, <1>3, <2>1, <2>2 DEF RangeTaken, RowConfirmed
<1>7. CASE UNCHANGED <<slot, bars, row>>
  BY <1>1, <1>7 DEF RangeTaken, RowConfirmed
<1> QED
  BY <1>4, <1>5, <1>6, <1>7 DEF Next, vars, signalled, Market, Executor, StopFills, EntryFilled,
     EntryRecovered, Enter, StopOut, Manage, ManageHold, ManagePrice, ManageBars, PlaceStop, ForceClose

\* Although the Scanner evaluates a bar every minute while it may still fall
\* back, a row says "retest" exactly when a bar finished before the row's own
\* had closed above the opening range, and says so as long as it is kept.
THEOREM ConfirmedWhenFinished == Spec => []RetestNeedsFinishedBreak
<1>1. Init => SignalInv
  BY SignalInit, StrategyAssumption, DayAssumption
<1>2. SignalInv /\ [Next]_vars => SignalInv'
  BY SignalStep, DayAssumption
<1>3. SignalInv => RetestNeedsFinishedBreak
  BY DEF SignalInv, RowConfirmed, RetestNeedsFinishedBreak
<1> QED
  BY <1>1, <1>2, <1>3, PTL DEF Spec

=============================================================================
