--------------------------- MODULE TradingDayProofs ---------------------------
(***************************************************************************)
(* Theorems about TradingDay, for any prices, percentages, portfolio, entry*)
(* window and length of the day.                                           *)
(***************************************************************************)
EXTENDS TradingDay, FiniteSetTheorems, TLAPS

\* Bars follow each other, prices within one are in order, and there is always
\* a last bar and one before it.
BarsInOrder ==
  /\ bars \in Seq(Bar) /\ Len(bars) >= 2 /\ slot \in Nat
  /\ \A i \in 1 .. Len(bars) :
       bars[i].low <= bars[i].close /\ bars[i].close <= bars[i].high /\ bars[i].slot <= slot
  /\ \A i, j \in 1 .. Len(bars) : i < j => bars[i].slot < bars[j].slot

\* A row asks for a stop below its price.
RowMakesSense ==
  /\ row = NoSignal \/ (row.price \in Prices /\ row.stop \in Int /\ row.stop < row.price)
  /\ row.model \in {"none", "breakout", "retest"}
  /\ written \in Nat /\ written <= slot

\* A position is within the size its signal allowed; its entry price is the
\* signal's or the price paid, and its stop has never been lowered.
DealKept ==
  Open =>
    /\ pos.qty * (deal.signal - pos.initial) <= Percent(Portfolio, MaxRiskPct)
    /\ pos.qty * deal.signal <= Percent(Portfolio, MaxPositionPct)
    /\ pos.initial < deal.signal /\ pos.entry \in {deal.signal, deal.paid}
    /\ pos.stop >= HardStop(pos.entry, pos.initial)

\* What was seen of the price was traded since the purchase; only a managed
\* position trails, and only a trailing one has its bars asked for.
ExcursionTraded ==
  /\ Open => pos.mfe <= deal.best /\ Last.close <= deal.best
  /\ pos.trail => /\ Open /\ Managed(pos)
                  /\ (deal.best - pos.entry) * Whole >= TriggerR * (pos.entry - pos.initial)
  /\ ~Managed(pos) /\ Open => pos.stop = HardStop(pos.entry, pos.initial)
  /\ step # "idle" => Open
  /\ step \in {"bars", "place"} => pos.trail

\* A stop about to be placed is a price the row may be trailed to, and was
\* traded no later than the market was last that high.
TargetKept ==
  step = "place" => TrailsTo(pos, target) /\ target \in Prices /\ target <= deal.top

Typed ==
  /\ pos \in Position /\ deal \in Deal /\ step \in Steps
  /\ resting \in BOOLEAN /\ target \in Nat

\* what concerns the position
Kept == Typed /\ DealKept /\ ExcursionTraded /\ TargetKept

IInv == BarsInOrder /\ RowMakesSense /\ Kept

-----------------------------------------------------------------------------
(* Arithmetic.                                                             *)

\* The higher of two prices.
LEMMA HigherOf ==
  ASSUME NEW a \in Nat, NEW b \in Nat
  PROVE  /\ Higher(a, b) \in Nat /\ Higher(a, b) >= a /\ Higher(a, b) >= b
         /\ Higher(a, b) \in {a, b}
BY DEF Higher

\* The larger and the smaller of two numbers.
LEMMA OfTwo ==
  ASSUME NEW a \in Int, NEW b \in Int
  PROVE  /\ Max({a, b}) = IF a >= b THEN a ELSE b
         /\ Min({a, b}) = IF a <= b THEN a ELSE b
<1>1. Max({a, b}) = IF a >= b THEN a ELSE b
  <2> DEFINE m == IF a >= b THEN a ELSE b
  <2>1. m \in {a, b} /\ \A y \in {a, b} : m >= y
    OBVIOUS
  <2>2. \A x \in {a, b} : (\A y \in {a, b} : x >= y) => x = m
    OBVIOUS
  <2> HIDE DEF m
  <2> QED
    BY <2>1, <2>2 DEF Max
<1>2. Min({a, b}) = IF a <= b THEN a ELSE b
  <2> DEFINE m == IF a <= b THEN a ELSE b
  <2>1. m \in {a, b} /\ \A y \in {a, b} : m =< y
    OBVIOUS
  <2>2. \A x \in {a, b} : (\A y \in {a, b} : x =< y) => x = m
    OBVIOUS
  <2> HIDE DEF m
  <2> QED
    BY <2>1, <2>2 DEF Min
<1> QED
  BY <1>1, <1>2

\* A percentage, rounded down.
LEMMA PercentBounds ==
  ASSUME NEW n \in Int, NEW p \in Nat
  PROVE  /\ Percent(n, p) \in Int
         /\ Percent(n, p) * Whole <= n * p
         /\ n * p < Percent(n, p) * Whole + Whole
<1> USE DEF Whole
<1> DEFINE m == n * p
<1>1. m \in Int
  OBVIOUS
<1> HIDE DEF m
<1>2. m \div Whole \in Int /\ (m \div Whole) * Whole <= m /\ m < (m \div Whole) * Whole + Whole
  BY <1>1
<1> QED
  BY <1>2 DEF m, Percent

\* The whole or more of a number that is not negative is no less.
LEMMA PercentWidens ==
  ASSUME NEW n \in Nat, NEW p \in Nat, p >= Whole
  PROVE  Percent(n, p) \in Nat /\ Percent(n, p) >= n
<1> USE DEF Whole
<1>1. n * p >= n * Whole
  <2>1. p - Whole \in Nat /\ n * (p - Whole) \in Nat
    OBVIOUS
  <2>2. n * p = n * Whole + n * (p - Whole)
    OBVIOUS
  <2> QED
    BY <2>1, <2>2
<1>2. n * p < Percent(n, p) * Whole + Whole /\ Percent(n, p) \in Int
  BY PercentBounds
<1>3. n * p \in Int
  OBVIOUS
<1> DEFINE m == n * p
<1> HIDE DEF m
<1>4. m >= n * Whole /\ m < Percent(n, p) * Whole + Whole /\ m \in Int
  BY <1>1, <1>2, <1>3 DEF m
<1> QED
  BY <1>2, <1>4

\* A percentage of what is not positive is not positive.
LEMMA PercentOfLoss ==
  ASSUME NEW n \in Int, n <= 0, NEW p \in Nat
  PROVE  Percent(n, p) \in Int /\ Percent(n, p) <= 0
<1> USE DEF Whole
<1>1. n * p <= 0 /\ n * p \in Int
  <2>1. -n \in Nat /\ (-n) * p \in Nat /\ (-n) * p = -(n * p)
    OBVIOUS
  <2> QED
    BY <2>1
<1> DEFINE m == n * p
<1>2. Percent(n, p) * Whole <= m /\ m <= 0 /\ m \in Int /\ Percent(n, p) \in Int
  BY <1>1, PercentBounds
<1> HIDE DEF m
<1> QED
  BY <1>2

\* How many times a price fits into an amount.
LEMMA Fits ==
  ASSUME NEW a \in Nat, NEW b \in Nat \ {0}
  PROVE  a \div b \in Nat /\ (a \div b) * b <= a
OBVIOUS

\* The floor and the multiplier leave every stop below its price.
LEMMA StopBelowPrice ==
  ASSUME StrategyAssumption, DayAssumption, NEW price \in Prices, NEW low \in Prices
  PROVE  LET stop == Widened(price, Floored(price, low)) IN stop \in Int /\ stop < price
<1> DEFINE floor == price - Percent(price, MinStopPct)
<1>1. price \in Nat /\ low \in Nat /\ MinStopPct \in Nat /\ RMultiplier \in Nat /\ RMultiplier >= Whole
  BY DEF StrategyAssumption, DayAssumption
<1>2. floor \in Int /\ floor < price
  <2>1. Percent(price, MinStopPct) >= 1
    BY DEF DayAssumption
  <2>2. Percent(price, MinStopPct) \in Int
    BY <1>1, PercentBounds
  <2> QED
    BY <1>1, <2>1, <2>2
<1>3. Floored(price, low) = Min({low, floor})
  BY DEF Floored
<1> HIDE DEF floor
<1>4. Min({low, floor}) = IF low <= floor THEN low ELSE floor
  BY <1>1, <1>2, low \in Int, OfTwo, Zenon
<1>5. Floored(price, low) \in Int /\ Floored(price, low) < price
  BY <1>1, <1>2, <1>3, <1>4
<1> DEFINE n == price - Floored(price, low)
<1>6. n \in Nat /\ n >= 1
  BY <1>1, <1>5
<1>7. Widened(price, Floored(price, low)) = price - Percent(n, RMultiplier)
  BY DEF Widened
<1> HIDE DEF n
<1>8. Percent(n, RMultiplier) \in Nat /\ Percent(n, RMultiplier) >= n
  BY <1>1, <1>6, PercentWidens
<1> QED
  BY <1>1, <1>6, <1>7, <1>8

\* A size is a number of shares, within the risk and within the value allowed.
LEMMA SizeAllowed ==
  ASSUME StrategyAssumption, DayAssumption,
         NEW price \in Prices, NEW stop \in Int, stop < price,
         NEW signal, signal.price = price, signal.stop = stop
  PROVE  /\ Size(signal) \in Nat
         /\ Size(signal) * (price - stop) <= Percent(Portfolio, MaxRiskPct)
         /\ Size(signal) * price <= Percent(Portfolio, MaxPositionPct)
<1> DEFINE risk == Percent(Portfolio, MaxRiskPct)
           value == Percent(Portfolio, MaxPositionPct)
           r == price - stop
           a == risk \div r
           b == value \div price
<1>1. risk \in Nat /\ value \in Nat
  <2>1. ASSUME NEW q \in Nat
        PROVE  Percent(Portfolio, q) \in Nat
    <3>1. Portfolio * q \in Nat
      BY DEF StrategyAssumption
    <3> DEFINE m == Portfolio * q
    <3> HIDE DEF m
    <3>2. m \in Nat => m \div Whole \in Nat
      BY DEF Whole
    <3> QED
      BY <3>1, <3>2 DEF Percent, m
  <2> QED
    BY <2>1 DEF StrategyAssumption
<1>2. r \in Nat \ {0} /\ price \in Nat \ {0}
  <2>1. \A q \in Prices : q \in Nat /\ q > 0
    BY DEF DayAssumption
  <2> QED
    BY <2>1
<1> HIDE DEF risk, value, r
<1>3. a \in Nat /\ a * r <= risk /\ b \in Nat /\ b * price <= value
  BY <1>1, <1>2, Fits
<1>4. Size(signal) = Min({a, b})
  BY DEF Size, risk, value, r
<1> HIDE DEF a, b
<1>5. Size(signal) \in Nat /\ Size(signal) <= a /\ Size(signal) <= b
  <2>1. Min({a, b}) = IF a <= b THEN a ELSE b
    BY <1>3, a \in Int, b \in Int, OfTwo, Zenon
  <2> QED
    BY <1>3, <1>4, <2>1
<1>6. \A m, n, k \in Nat : m <= n => m * k <= n * k
  <2> SUFFICES ASSUME NEW m \in Nat, NEW n \in Nat, NEW k \in Nat, m <= n
               PROVE  m * k <= n * k
    OBVIOUS
  <2>1. n - m \in Nat /\ (n - m) * k \in Nat /\ n * k = m * k + (n - m) * k
    OBVIOUS
  <2> QED
    BY <2>1
<1>7. Size(signal) * r <= a * r /\ Size(signal) * price <= b * price
  BY <1>2, <1>3, <1>5, <1>6
<1>8. /\ Size(signal) * r \in Int /\ a * r \in Int /\ Size(signal) * price \in Int /\ b * price \in Int
  BY <1>2, <1>3, <1>5
<1>9. Size(signal) * r <= risk /\ Size(signal) * price <= value
  <2> DEFINE x == Size(signal) * r
             y == a * r
             z == Size(signal) * price
             w == b * price
  <2>1. x \in Int /\ y \in Int /\ z \in Int /\ w \in Int /\ x <= y /\ y <= risk /\ z <= w /\ w <= value
    BY <1>3, <1>7, <1>8
  <2> HIDE DEF x, y, z, w
  <2>2. x <= risk /\ z <= value
    BY <1>1, <2>1
  <2> QED
    BY <2>2 DEF x, z
<1> QED
  BY <1>5, <1>9 DEF risk, value, r

\* A hard stop lies at most HardStopR times the risk below the fill, and not
\* below a fill that is at or below initial_stop.
LEMMA HardStopBounds ==
  ASSUME StrategyAssumption, NEW fill \in Int, NEW initial \in Int
  PROVE  /\ HardStop(fill, initial) \in Int
         /\ (fill - HardStop(fill, initial)) * Whole <= (fill - initial) * HardStopR
         /\ fill <= initial => HardStop(fill, initial) >= fill
<1> USE DEF Whole
<1> DEFINE n == fill - initial
<1>1. n \in Int /\ HardStopR \in Nat
  BY DEF StrategyAssumption
<1>2. HardStop(fill, initial) = fill - Percent(n, HardStopR)
  BY DEF HardStop
<1>3. Percent(n, HardStopR) \in Int /\ Percent(n, HardStopR) * Whole <= n * HardStopR
  BY <1>1, PercentBounds
<1>4. fill <= initial => n <= 0
  OBVIOUS
<1>5. n <= 0 => Percent(n, HardStopR) <= 0
  BY <1>1, PercentOfLoss
<1> QED
  <2> HIDE DEF n
  <2>1. fill - HardStop(fill, initial) = Percent(n, HardStopR)
    BY <1>2, <1>3
  <2>2. (fill - HardStop(fill, initial)) * Whole <= n * HardStopR
    BY <1>3, <2>1
  <2>3. HardStop(fill, initial) \in Int /\ (fill <= initial => HardStop(fill, initial) >= fill)
    BY <1>2, <1>3, <1>4, <1>5
  <2> QED
    BY <2>2, <2>3 DEF n

-----------------------------------------------------------------------------
(* The bars.                                                               *)

\* A trade leaves the prices within its bar in order.
LEMMA BarTraded ==
  ASSUME DayAssumption, NEW old \in Bar, NEW p \in Prices,
         NEW b, b = [old EXCEPT !.close = p, !.high = Max({@, p}), !.low = Min({@, p})]
  PROVE  b \in Bar /\ b.slot = old.slot /\ b.low <= b.close /\ b.close <= b.high
<1>1. old.high \in Prices /\ old.low \in Prices /\ Prices \subseteq Int
  BY DEF Bar, DayAssumption
<1>2. /\ Max({old.high, p}) = IF old.high >= p THEN old.high ELSE p
      /\ Min({old.low, p}) = IF old.low <= p THEN old.low ELSE p
  BY <1>1, old.high \in Int, old.low \in Int, p \in Int, OfTwo, Zenon
<1> DEFINE hi == Max({old.high, p})
           lo == Min({old.low, p})
<1>3. hi \in Prices /\ lo \in Prices /\ lo <= p /\ p <= hi
  BY <1>1, <1>2
<1>4. b = [old EXCEPT !.close = p, !.high = hi, !.low = lo]
  OBVIOUS
<1> HIDE DEF hi, lo
<1>5. b \in Bar /\ b.slot = old.slot /\ b.low = lo /\ b.high = hi /\ b.close = p
  BY <1>3, <1>4 DEF Bar
<1> QED
  BY <1>3, <1>5

\* What trades do to the last bar, or add after it, keeps bars in order.
LEMMA BarsStep ==
  ASSUME DayAssumption, BarsInOrder, [Next]_vars
  PROVE  BarsInOrder'
<1> USE DEF BarsInOrder
<1>1. /\ bars \in Seq(Bar) /\ Len(bars) \in Nat /\ Len(bars) >= 2 /\ slot \in Nat
      /\ \A i \in 1 .. Len(bars) : bars[i] \in Bar /\ bars[i].slot \in Nat
      /\ Prices \subseteq Int
  <2>1. bars \in Seq(Bar) /\ Len(bars) \in Nat /\ Len(bars) >= 2 /\ slot \in Nat
    OBVIOUS
  <2>2. \A i \in 1 .. Len(bars) : bars[i] \in Bar
    BY <2>1
  <2>3. \A x \in Bar : x.slot \in Nat
    BY DEF Bar
  <2>4. Prices \subseteq Int
    BY DEF DayAssumption
  <2> QED
    BY <2>1, <2>2, <2>3, <2>4
<1>2. CASE UNCHANGED bars /\ slot' \in {slot, slot + 1}
  <2>1. slot' \in Nat /\ slot' >= slot
    BY <1>1, <1>2
  <2> QED
    BY <1>1, <1>2, <2>1
<1>3. ASSUME NEW p \in Prices, FirstTrade(p)
      PROVE  BarsInOrder'
  <2> DEFINE b == Flat(slot, p)
  <2>1. b \in Bar /\ b.slot = slot /\ b.low <= b.close /\ b.close <= b.high
    BY <1>1 DEF Flat, Bar
  <2>2. bars' = Append(bars, b) /\ bars[Len(bars)].slot < slot /\ slot' = slot
    BY <1>3 DEF FirstTrade, Last
  <2> HIDE DEF b
  <2>3. /\ bars' \in Seq(Bar) /\ Len(bars') = Len(bars) + 1
        /\ \A i \in 1 .. Len(bars) : bars'[i] = bars[i]
        /\ bars'[Len(bars) + 1] = b
    BY <1>1, <2>1, <2>2
  <2>4. \A i \in 1 .. Len(bars) : bars[i].slot < slot
    <3>1. \A i \in 1 .. Len(bars) : i = Len(bars) \/ i < Len(bars)
      BY <1>1
    <3>2. Len(bars) \in 1 .. Len(bars)
      BY <1>1
    <3>3. \A i \in 1 .. Len(bars) : i < Len(bars) => bars[i].slot < bars[Len(bars)].slot
      BY <3>2
    <3> QED
      BY <1>1, <2>2, <3>1, <3>2, <3>3
  <2>5. \A i \in 1 .. Len(bars') : i \in 1 .. Len(bars) \/ i = Len(bars) + 1
    BY <1>1, <2>3
  <2>6. \A i \in 1 .. Len(bars') :
          bars'[i].low <= bars'[i].close /\ bars'[i].close <= bars'[i].high /\ bars'[i].slot <= slot
    BY <1>1, <2>1, <2>3, <2>5
  <2>7. \A i, j \in 1 .. Len(bars') : i < j => bars'[i].slot < bars'[j].slot
    <3> SUFFICES ASSUME NEW i \in 1 .. Len(bars'), NEW j \in 1 .. Len(bars'), i < j
                 PROVE  bars'[i].slot < bars'[j].slot
      OBVIOUS
    <3>1. i \in 1 .. Len(bars)
      BY <1>1, <2>3
    <3>2. CASE j = Len(bars) + 1
      BY <2>1, <2>3, <2>4, <3>1, <3>2
    <3>3. CASE j \in 1 .. Len(bars)
      BY <2>3, <3>1, <3>3
    <3> QED
      BY <2>5, <3>2, <3>3
  <2> QED
    BY <1>1, <2>2, <2>3, <2>6, <2>7
<1>4. ASSUME NEW p \in Prices, Trade(p)
      PROVE  BarsInOrder'
  <2> DEFINE n == Len(bars)
             old == bars[n]
             b == [old EXCEPT !.close = p, !.high = Max({@, p}), !.low = Min({@, p})]
  <2>1. old \in Bar /\ n \in 1 .. n /\ n \in Nat
    BY <1>1
  <2>3. b \in Bar /\ b.slot = old.slot /\ b.low <= b.close /\ b.close <= b.high
    BY <2>1, BarTraded
  <2>4. bars' = [bars EXCEPT ![n] = b] /\ slot' = slot
    BY <1>1, <1>4, <2>1 DEF Trade, Bar
  <2> HIDE DEF b
  <2>5. /\ bars' \in Seq(Bar) /\ Len(bars') = n /\ bars'[n] = b
        /\ \A i \in 1 .. n : i # n => bars'[i] = bars[i]
    BY <1>1, <2>1, <2>3, <2>4
  <2>6. \A i \in 1 .. n : bars'[i].slot = bars[i].slot
    BY <2>3, <2>5
  <2> QED
    BY <1>1, <2>3, <2>4, <2>5, <2>6
<1> QED
  BY <1>2, <1>3, <1>4 DEF Next, vars, Market, Executor, SlotPasses, StopFills, Scan, EntryFilled,
     EntryRecovered, Enter, StopOut, Manage, ManageHold, ManagePrice, ManageBars, PlaceStop, ForceClose

-----------------------------------------------------------------------------
(* The row.                                                                *)

\* The last bar exists and is a bar.
LEMMA LastBar ==
  ASSUME DayAssumption, BarsInOrder
  PROVE  /\ Last \in Bar /\ Last = bars[Len(bars)] /\ Last.close \in Prices /\ Last.low \in Prices
         /\ Last.low <= Last.close
         /\ Prices \subseteq Nat /\ Prices \subseteq Int
<1>1. Len(bars) \in 1 .. Len(bars) /\ bars \in Seq(Bar)
  BY DEF BarsInOrder
<1>2. Last \in Bar /\ Last = bars[Len(bars)] /\ Last.low <= Last.close
  BY <1>1 DEF BarsInOrder, Last
<1>3. \A x \in Bar : x.close \in Prices /\ x.low \in Prices
  BY DEF Bar
<1> QED
  BY <1>2, <1>3 DEF DayAssumption

\* Whatever the bars are, a signal asks for a stop below its price.
LEMMA RowStep ==
  ASSUME StrategyAssumption, DayAssumption, BarsInOrder, RowMakesSense, [Next]_vars
  PROVE  RowMakesSense'
<1> DEFINE Sense(r) == /\ r = NoSignal \/ (r.price \in Prices /\ r.stop \in Int /\ r.stop < r.price)
                       /\ r.model \in {"none", "breakout", "retest"}
<1>1. Sense(NoSignal)
  BY DEF NoSignal
<1>2. ASSUME NEW model \in {"breakout", "retest"}
      PROVE  Sense(SignalOf(bars, model))
  <2> DEFINE stop == Widened(Last.close, Floored(Last.close, Last.low))
  <2>1. stop \in Int /\ stop < Last.close
    BY LastBar, StopBelowPrice, Zenon
  <2>2. SignalOf(bars, model) = [model |-> model, price |-> Last.close, slot |-> Last.slot, stop |-> stop]
    BY LastBar DEF SignalOf
  <2> HIDE DEF stop
  <2> QED
    BY LastBar, <2>1, <2>2
<1>3. Sense(evaluate_orb_entry(bars))
  <2> HIDE DEF Sense
  <2> QED
    BY <1>1, <1>2 DEF evaluate_orb_entry
<1>4. Sense(row)
  BY DEF RowMakesSense
<1> HIDE DEF Sense
<1>5. Sense(row') /\ written' \in {0, written, slot} /\ slot' \in {slot, slot + 1}
  BY <1>1, <1>3, <1>4 DEF Next, vars, signalled, Market, Executor, SlotPasses, StopFills, FirstTrade,
     Trade, Scan, EntryFilled, EntryRecovered, Enter, StopOut, Manage, ManageHold, ManagePrice,
     ManageBars, PlaceStop, ForceClose
<1>6. written' \in Nat /\ written' <= slot'
  BY <1>5 DEF RowMakesSense, BarsInOrder
<1> QED
  BY <1>5, <1>6 DEF Sense, RowMakesSense

-----------------------------------------------------------------------------
(* The position.                                                           *)

\* Fewer shares than a size are within the risk and the value it is.
LEMMA FewerAllowed ==
  ASSUME NEW size \in Nat, NEW qty \in 1 .. size, NEW r \in Nat, NEW most \in Int, size * r <= most
  PROVE  qty * r <= most
<1>1. size - qty \in Nat /\ (size - qty) * r \in Nat /\ size * r = qty * r + (size - qty) * r
  OBVIOUS
<1> DEFINE x == qty * r
           y == (size - qty) * r
           z == size * r
<1>2. x \in Int /\ y \in Nat /\ z \in Int /\ z = x + y /\ z <= most
  BY <1>1
<1> HIDE DEF x, y, z
<1>3. x <= most
  BY <1>2
<1> QED
  BY <1>3 DEF x

\* An entry of any kind is within its limits and starts without an excursion.
LEMMA EnterStep ==
  ASSUME StrategyAssumption, DayAssumption, BarsInOrder, RowMakesSense, Kept,
         NEW entry \in {row.price, Last.close}, NEW qty \in 1 .. Size(row), Buys, Enter(qty, entry)
  PROVE  Kept'
<1>1. row.price \in Prices /\ row.stop \in Int /\ row.stop < row.price
  BY DEF Buys, RowMakesSense
<1>2. /\ Size(row) \in Nat
      /\ Size(row) * (row.price - row.stop) <= Percent(Portfolio, MaxRiskPct)
      /\ Size(row) * row.price <= Percent(Portfolio, MaxPositionPct)
  BY <1>1, SizeAllowed, Zenon
<1>3. /\ Last.close \in Nat /\ row.price \in Nat /\ entry \in Nat
      /\ row.price \in Int /\ Last.close \in Int /\ entry \in Int
  BY <1>1, LastBar
<1>4. HardStop(entry, row.stop) \in Int
  BY <1>1, <1>3, HardStopBounds
<1> DEFINE best == Higher(entry, Last.close)
           hard == HardStop(entry, row.stop)
<1>6. /\ pos' = [qty |-> qty, entry |-> entry, initial |-> row.stop,
                 stop |-> hard, mfe |-> entry, trail |-> FALSE]
      /\ deal' = [signal |-> row.price, paid |-> Last.close, top |-> 0, best |-> best]
      /\ resting' = TRUE /\ bars' = bars /\ step' = step /\ target' = target /\ ~Open
  BY DEF Buys, Enter, managing
<1>7. best \in Nat /\ best >= entry /\ best >= Last.close /\ hard \in Int /\ qty \in Nat /\ qty > 0
  <2>1. best \in Nat /\ best >= entry /\ best >= Last.close
    BY <1>3, HigherOf
  <2>2. qty \in Nat /\ qty > 0
    BY <1>2
  <2> QED
    BY <1>4, <2>1, <2>2
<1>5. step = "idle" /\ target \in Nat
  BY <1>6 DEF Kept, Typed, ExcursionTraded
<1> HIDE DEF best
<1>8. /\ pos'.qty = qty /\ pos'.entry = entry /\ pos'.initial = row.stop /\ pos'.stop = hard
      /\ pos'.mfe = entry /\ pos'.trail = FALSE
      /\ deal'.signal = row.price /\ deal'.paid = Last.close /\ deal'.best = best
      /\ Last' = Last
  BY <1>6 DEF Last
<1>9. pos' \in Position /\ deal' \in Deal
  <2> HIDE DEF hard
  <2> QED
    BY <1>1, <1>3, <1>6, <1>7 DEF Position, Deal
<1>10. DealKept'
  <2>1. HardStop(pos'.entry, pos'.initial) = hard
    BY <1>8
  <2>2. row.price - row.stop \in Nat
    BY <1>1, <1>3
  <2>4. Percent(Portfolio, MaxRiskPct) \in Int /\ Percent(Portfolio, MaxPositionPct) \in Int
    <3>1. Portfolio \in Int /\ MaxRiskPct \in Nat /\ MaxPositionPct \in Nat
      BY DEF StrategyAssumption
    <3> QED
      BY <3>1, PercentBounds
  <2>3. /\ pos'.qty * (deal'.signal - pos'.initial) <= Percent(Portfolio, MaxRiskPct)
        /\ pos'.qty * deal'.signal <= Percent(Portfolio, MaxPositionPct)
    BY <1>2, <1>3, <1>8, <2>2, <2>4, FewerAllowed
  <2> HIDE DEF hard
  <2> QED
    BY <1>1, <1>7, <1>8, <2>1, <2>3 DEF DealKept
<1>11. ExcursionTraded' /\ TargetKept'
  <2>1. HardStop(pos'.entry, pos'.initial) = hard
    BY <1>8
  <2> HIDE DEF hard
  <2> QED
    BY <1>5, <1>6, <1>7, <1>8, <2>1 DEF ExcursionTraded, TargetKept
<1> QED
  BY <1>5, <1>6, <1>9, <1>10, <1>11 DEF Kept, Typed

\* A trade can only raise the best price since the purchase.
LEMMA TradeStep ==
  ASSUME StrategyAssumption, DayAssumption, BarsInOrder, BarsInOrder', Kept,
         NEW p \in Prices, FirstTrade(p) \/ Trade(p)
  PROVE  Kept'
<1>1. Last'.close = p
  <2>1. CASE FirstTrade(p)
    <3>1. bars' = Append(bars, Flat(slot, p))
      BY <2>1 DEF FirstTrade
    <3>2. Len(bars') = Len(bars) + 1 /\ bars'[Len(bars) + 1] = Flat(slot, p)
      BY <3>1 DEF BarsInOrder
    <3> QED
      BY <3>2 DEF Flat, Last
  <2>2. CASE Trade(p)
    <3> DEFINE b == [bars[Len(bars)] EXCEPT !.close = p, !.high = Max({@, p}), !.low = Min({@, p})]
    <3>1. Len(bars) \in DOMAIN bars /\ bars[Len(bars)] \in Bar
      BY DEF BarsInOrder
    <3>2. bars' = [bars EXCEPT ![Len(bars)] = b]
      BY <2>2, <3>1 DEF Trade, Bar
    <3>3. ASSUME NEW x \in Bar, NEW h, NEW l, NEW y, y = [x EXCEPT !.close = p, !.high = h, !.low = l]
          PROVE  y.close = p
      BY <3>3 DEF Bar
    <3>4. b.close = p
      BY <3>1, <3>3
    <3> HIDE DEF b
    <3>5. Len(bars') = Len(bars) /\ bars'[Len(bars)] = b
      BY <3>1, <3>2 DEF BarsInOrder
    <3> QED
      BY <3>4, <3>5 DEF Last
  <2> QED
    BY <2>1, <2>2
<1>2. /\ pos' = pos /\ step' = step /\ target' = target /\ resting' = resting /\ p \in Nat
      /\ deal' = [deal EXCEPT !.best = IF Open THEN Higher(p, @) ELSE @,
                              !.top = IF step = "place" THEN Higher(p, @) ELSE @]
  BY DEF FirstTrade, Trade, Traded, managing, DayAssumption
<1> DEFINE best == IF Open THEN Higher(p, deal.best) ELSE deal.best
           top == IF step = "place" THEN Higher(p, deal.top) ELSE deal.top
<1>6. /\ deal \in Deal /\ deal.best \in Nat /\ deal.top \in Nat
      /\ best \in Nat /\ best >= deal.best /\ (Open => best >= p)
      /\ top \in Nat /\ top >= deal.top
  BY <1>2, HigherOf DEF Kept, Typed, Deal
<1>7. deal' = [deal EXCEPT !.best = best, !.top = top]
  BY <1>2
<1> HIDE DEF best, top
<1>3. /\ deal' \in Deal /\ deal'.signal = deal.signal /\ deal'.paid = deal.paid
      /\ deal.best \in Nat /\ deal'.best \in Nat /\ deal'.best >= deal.best
      /\ deal'.top \in Nat /\ deal'.top >= deal.top /\ deal.top \in Nat
      /\ Open => deal'.best >= p
  BY <1>6, <1>7 DEF Deal
<1>4. DealKept'
  BY <1>2, <1>3 DEF Kept, DealKept, Open
<1>5. ExcursionTraded'
  <2>1. pos.mfe \in Nat /\ pos.entry \in Nat /\ pos.initial \in Int
    BY DEF Kept, Typed, Position
  <2> DEFINE trigger == TriggerR * (pos.entry - pos.initial)
  <2>2. trigger \in Int
    BY <2>1 DEF StrategyAssumption
  <2>3. pos.trail => (deal.best - pos.entry) * Whole >= trigger
    BY DEF Kept, ExcursionTraded
  <2> HIDE DEF trigger
  <2>4. pos.trail => (deal'.best - pos.entry) * Whole >= trigger
    BY <1>3, <2>1, <2>2, <2>3 DEF Whole
  <2>5. Open => pos.mfe <= deal'.best /\ Last'.close <= deal'.best
    BY <1>1, <1>3, <2>1 DEF Kept, ExcursionTraded
  <2> QED
    BY <1>2, <2>4, <2>5 DEF trigger, Kept, ExcursionTraded, Open
<1>8. TargetKept'
  BY <1>2, <1>3 DEF Kept, Typed, TargetKept, TrailsTo
<1> QED
  BY <1>2, <1>3, <1>4, <1>5, <1>8 DEF Kept, Typed

\* The excursion is what was traded, and starts trailing only a managed position.
LEMMA ManagePriceStep ==
  ASSUME StrategyAssumption, DayAssumption, BarsInOrder, Kept, ManagePrice
  PROVE  Kept'
<1> DEFINE price == current_price(bars)
           m == Higher(price, pos.mfe)
<1>1. pos \in Position /\ pos.mfe \in Nat /\ pos.entry \in Nat /\ pos.initial \in Int /\ price \in Nat
  BY LastBar DEF Kept, Typed, Position, current_price
<1>2. m \in Nat /\ m \in {price, pos.mfe}
  BY <1>1, HigherOf
<1>3. price = Last.close /\ deal.best \in Nat /\ Open /\ Managed(pos)
  BY LastBar DEF current_price, Kept, Typed, Deal, ManagePrice, ExcursionTraded
<1>4. m \in Nat /\ m <= deal.best
  BY <1>1, <1>2, <1>3 DEF Kept, ExcursionTraded
<1> DEFINE seen == [pos EXCEPT !.mfe = m]
<1>5. /\ \/ /\ pos.trail \/ TriggerReached(seen)
            /\ pos' = [seen EXCEPT !.trail = TRUE] /\ step' = "bars"
         \/ pos' = seen /\ step' = "idle"
      /\ deal' = deal /\ bars' = bars /\ resting' = resting /\ target' = target
  BY DEF ManagePrice
<1> HIDE DEF price, m
<1>6. /\ seen \in Position /\ seen.mfe = m /\ seen.qty = pos.qty /\ seen.entry = pos.entry
      /\ seen.initial = pos.initial /\ seen.stop = pos.stop /\ seen.trail = pos.trail
  BY <1>1, <1>4 DEF Position
<1> HIDE DEF seen
<1>7. ASSUME NEW y, y = [seen EXCEPT !.trail = TRUE]
      PROVE  /\ y \in Position /\ y.trail = TRUE /\ y.mfe = m /\ y.qty = pos.qty
             /\ y.entry = pos.entry /\ y.initial = pos.initial /\ y.stop = pos.stop
  BY <1>6, <1>7 DEF Position
<1>8. /\ pos' \in Position /\ pos'.mfe = m /\ pos'.qty = pos.qty /\ pos'.entry = pos.entry
      /\ pos'.initial = pos.initial /\ pos'.stop = pos.stop
      /\ step' \in {"idle", "bars"} /\ (step' = "bars" => pos'.trail)
      /\ pos'.trail => pos.trail \/ TriggerReached(seen)
  BY <1>5, <1>6, <1>7
<1>9. DealKept'
  BY <1>5, <1>8 DEF Kept, DealKept, Open
<1>11. TargetKept'
  BY <1>8 DEF TargetKept
<1>10. ExcursionTraded'
  <2> DEFINE trigger == TriggerR * (pos.entry - pos.initial)
  <2>1. trigger \in Int
    BY <1>1 DEF StrategyAssumption
  <2>2. pos.trail => (deal.best - pos.entry) * Whole >= trigger
    BY DEF Kept, ExcursionTraded
  <2>3. TriggerReached(seen) => (m - pos.entry) * Whole >= trigger
    BY <1>6 DEF TriggerReached
  <2> HIDE DEF trigger
  <2>4. pos'.trail => (deal.best - pos.entry) * Whole >= trigger
    BY <1>1, <1>3, <1>4, <1>8, <2>1, <2>2, <2>3 DEF Whole
  <2>5. Last' = Last /\ Last.close <= deal.best
    BY <1>3, <1>5 DEF Last, Kept, ExcursionTraded
  <2> QED
    BY <1>3, <1>4, <1>5, <1>8, <2>4, <2>5 DEF trigger, ExcursionTraded, Open, Managed
<1> QED
  BY <1>5, <1>8, <1>9, <1>10, <1>11 DEF Kept, Typed, Steps

\* The lower of two lows is no higher than the last price.
LEMMA SwingLowBounds ==
  ASSUME DayAssumption, BarsInOrder
  PROVE  /\ SwingLow(bars) \in Prices /\ SwingLow(bars) \in Int
         /\ SwingLow(bars) <= Last.close
<1>1. Len(bars) - 1 \in 1 .. Len(bars) /\ bars \in Seq(Bar)
  BY DEF BarsInOrder
<1>2. bars[Len(bars) - 1].low \in Prices
  <2>1. bars[Len(bars) - 1] \in Bar
    BY <1>1
  <2> QED
    BY <2>1 DEF Bar
<1> DEFINE a == Last.low
           b == bars[Len(bars) - 1].low
<1>3. a \in Prices /\ b \in Prices /\ a \in Int /\ b \in Int
  BY <1>2, LastBar
<1>4. Min({a, b}) = IF a <= b THEN a ELSE b
  BY <1>3, OfTwo, Zenon
<1>5. SwingLow(bars) = Min({a, b})
  BY LastBar DEF SwingLow
<1>6. Last.close \in Int /\ a <= Last.close
  BY LastBar
<1> HIDE DEF a, b
<1> QED
  BY <1>3, <1>4, <1>5, <1>6

\* What the bars decide on is a price the row may be trailed to, and no higher
\* than the last one.
LEMMA ManageBarsStep ==
  ASSUME DayAssumption, BarsInOrder, Kept, ManageBars
  PROVE  Kept'
<1>1. /\ pos' = pos /\ bars' = bars /\ resting' = resting /\ Last' = Last /\ Open /\ pos.trail
      /\ deal \in Deal
  BY DEF ManageBars, Last, Kept, Typed, ExcursionTraded
<1>2. CASE step' = "idle" /\ target' = target /\ deal' = deal
  BY <1>1, <1>2 DEF Kept, Typed, Steps, DealKept, ExcursionTraded, TargetKept, Open
<1>3. CASE /\ TrailsTo(pos, SwingLow(bars)) /\ step' = "place" /\ target' = SwingLow(bars)
           /\ deal' = [deal EXCEPT !.top = Last.close]
  <2>1. SwingLow(bars) \in Prices /\ SwingLow(bars) \in Nat /\ SwingLow(bars) <= Last.close
    BY SwingLowBounds DEF DayAssumption
  <2>2. /\ deal' \in Deal /\ deal'.signal = deal.signal /\ deal'.paid = deal.paid
        /\ deal'.best = deal.best /\ deal'.top = Last.close
    BY <1>1, <1>3, LastBar DEF Deal
  <2>3. DealKept' /\ ExcursionTraded'
    BY <1>1, <1>3, <2>2 DEF Kept, DealKept, ExcursionTraded, Open
  <2>4. TargetKept'
    BY <1>1, <1>3, <2>1, <2>2 DEF TargetKept
  <2> QED
    BY <1>1, <1>3, <2>1, <2>2, <2>3, <2>4 DEF Kept, Typed, Steps
<1> QED
  BY <1>2, <1>3 DEF ManageBars

\* Trailing only raises the stop, and only of a position that trails.
LEMMA PlaceStopStep ==
  ASSUME StrategyAssumption, DayAssumption, BarsInOrder, Kept, PlaceStop
  PROVE  Kept'
<1>1. /\ pos \in Position /\ pos.stop \in Int /\ pos.entry \in Int /\ pos.initial \in Int
      /\ target \in Int /\ deal \in Deal
  BY DEF Kept, Typed, Position
<1>2. Open /\ pos.trail /\ Managed(pos) /\ target > pos.stop
  BY DEF PlaceStop, Kept, ExcursionTraded, TargetKept, TrailsTo
<1>3. HardStop(pos.entry, pos.initial) \in Int
  BY <1>1, HardStopBounds
<1>4. /\ pos' \in Position /\ pos'.stop = target /\ pos'.mfe = pos.mfe /\ pos'.qty = pos.qty
      /\ pos'.entry = pos.entry /\ pos'.initial = pos.initial /\ pos'.trail = pos.trail
  BY <1>1 DEF PlaceStop, Position
<1>5. /\ deal' \in Deal /\ deal'.signal = deal.signal /\ deal'.paid = deal.paid
      /\ deal'.best = deal.best
  BY <1>1 DEF PlaceStop, Deal
<1>6. Last' = Last /\ step' = "idle" /\ resting' = TRUE /\ target' = 0
  BY DEF PlaceStop, Last
<1>7. DealKept'
  <2> DEFINE hard == HardStop(pos.entry, pos.initial)
  <2>1. HardStop(pos'.entry, pos'.initial) = hard /\ pos.stop >= hard
    BY <1>2, <1>4 DEF Kept, DealKept
  <2> HIDE DEF hard
  <2>2. pos'.stop >= hard
    BY <1>1, <1>2, <1>3, <1>4, <2>1 DEF hard
  <2> QED
    BY <1>2, <1>4, <1>5, <2>1, <2>2 DEF Kept, DealKept
<1>8. ExcursionTraded' /\ TargetKept'
  BY <1>2, <1>4, <1>5, <1>6 DEF Kept, ExcursionTraded, TargetKept, Open, Managed
<1> QED
  BY <1>4, <1>5, <1>6, <1>7, <1>8 DEF Kept, Typed, Steps

\* Nothing is left of a position that is sold.
LEMMA SoldStep ==
  ASSUME StrategyAssumption, DayAssumption, Kept, StopOut \/ ForceClose
  PROVE  Kept'
<1>1. /\ pos' = NoPosition /\ deal' = NoDeal /\ step' = "idle" /\ resting' = FALSE
      /\ target' = target
  BY DEF StopOut, ForceClose, Gone, managing
<1>2. /\ pos' \in Position /\ deal' \in Deal /\ ~Open' /\ pos'.trail = FALSE
  BY <1>1 DEF NoPosition, NoDeal, Position, Deal, Open
<1> QED
  BY <1>1, <1>2 DEF Kept, Typed, Steps, DealKept, ExcursionTraded, TargetKept

\* The clock, the Scanner, a stop that fills and a step of manage_position
\* that only asks leave the position alone.
LEMMA OtherStep ==
  ASSUME Kept, SlotPasses \/ Scan \/ StopFills \/ Manage \/ ManageHold \/ UNCHANGED vars
  PROVE  Kept'
<1>1. /\ pos' = pos /\ deal' = deal /\ Last' = Last /\ target' = target
      /\ resting' \in BOOLEAN
      /\ \/ step' = step
         \/ step' = "idle"
         \/ step' = "price" /\ Open
  BY DEF SlotPasses, Scan, StopFills, Manage, ManageHold, vars, managing, Last, Kept, Typed
<1> QED
  BY <1>1 DEF Kept, Typed, Steps, DealKept, ExcursionTraded, TargetKept, Open

-----------------------------------------------------------------------------
(* The invariant.                                                          *)

\* The day opens with its range and nothing else.
LEMMA Initially ==
  ASSUME StrategyAssumption, DayAssumption, Init
  PROVE  IInv
<1>1. PICK high \in Prices, last \in Prices :
        bars \in {<<Flat(0, high), Flat(2, last)>>, <<Flat(0, high), Flat(1, last), Flat(2, last)>>}
  BY DEF Init
<1>2. \A s \in 0 .. 2, p \in Prices :
        /\ Flat(s, p) \in Bar /\ Flat(s, p).slot = s
        /\ Flat(s, p).low <= Flat(s, p).close /\ Flat(s, p).close <= Flat(s, p).high
  BY DEF Flat, Bar, DayAssumption
<1> DEFINE a == Flat(0, high)
           b == Flat(1, last)
           c == Flat(2, last)
<1>3. /\ a \in Bar /\ a.slot = 0 /\ a.low <= a.close /\ a.close <= a.high
      /\ b \in Bar /\ b.slot = 1 /\ b.low <= b.close /\ b.close <= b.high
      /\ c \in Bar /\ c.slot = 2 /\ c.low <= c.close /\ c.close <= c.high
  BY <1>2
<1>4. slot = 3
  BY DEF Init
<1> HIDE DEF a, b, c
<1>5. BarsInOrder
  <2>1. CASE bars = <<a, c>>
    BY <1>3, <1>4, <2>1 DEF BarsInOrder
  <2>2. CASE bars = <<a, b, c>>
    BY <1>3, <1>4, <2>2 DEF BarsInOrder
  <2> QED
    BY <1>1, <2>1, <2>2 DEF a, b, c
<1>6. RowMakesSense
  BY <1>4 DEF Init, RowMakesSense, NoSignal
<1>7. /\ pos \in Position /\ deal \in Deal /\ step = "idle" /\ ~Open /\ pos.trail = FALSE
      /\ resting \in BOOLEAN /\ target \in Nat
  <2>1. pos = NoPosition /\ deal = NoDeal /\ step = "idle" /\ resting = FALSE /\ target = 0
    BY DEF Init
  <2>2. NoPosition \in Position /\ NoPosition.trail = FALSE /\ ~(NoPosition.qty > 0)
    BY DEF NoPosition, Position
  <2>3. NoDeal \in Deal
    BY DEF NoDeal, Deal
  <2> QED
    BY <2>1, <2>2, <2>3 DEF Open
<1> QED
  BY <1>5, <1>6, <1>7 DEF IInv, Kept, Typed, Steps, DealKept, ExcursionTraded, TargetKept

\* No step of the market, of the Scanner or of the Executor leaves it.
LEMMA Inductively ==
  ASSUME StrategyAssumption, DayAssumption, IInv, [Next]_vars
  PROVE  IInv'
<1>1. BarsInOrder /\ RowMakesSense /\ Kept
  BY DEF IInv
<1>2. BarsInOrder'
  BY <1>1, BarsStep
<1>3. RowMakesSense'
  BY <1>1, RowStep
<1>4. Kept'
  <2>1. ASSUME NEW p \in Prices, FirstTrade(p) \/ Trade(p)
        PROVE  Kept'
    BY <1>1, <1>2, <2>1, TradeStep
  <2>2. CASE EntryFilled
    <3>1. Buys /\ Size(row) \in Int /\ Size(row) >= 1 /\ Enter(Size(row), row.price)
      <4>1. row.price \in Prices /\ row.stop \in Int /\ row.stop < row.price
        BY <1>1, <2>2 DEF EntryFilled, Buys, RowMakesSense
      <4>2. Size(row) \in Nat
        BY <4>1, SizeAllowed, Zenon
      <4> QED
        BY <2>2, <4>2 DEF EntryFilled
    <3>2. Size(row) \in 1 .. Size(row)
      BY <3>1
    <3> QED
      BY <1>1, <3>1, <3>2, EnterStep
  <2>8. CASE EntryRecovered
    <3>1. PICK qty \in 1 .. Size(row) : Enter(qty, Last.close)
      BY <2>8 DEF EntryRecovered
    <3>2. Buys
      BY <2>8 DEF EntryRecovered
    <3> QED
      BY <1>1, <3>1, <3>2, EnterStep
  <2>3. CASE ManagePrice
    BY <1>1, <2>3, ManagePriceStep
  <2>4. CASE ManageBars
    BY <1>1, <2>4, ManageBarsStep
  <2>7. CASE PlaceStop
    BY <1>1, <2>7, PlaceStopStep
  <2>5. CASE StopOut \/ ForceClose
    BY <1>1, <2>5, SoldStep
  <2>6. CASE SlotPasses \/ Scan \/ StopFills \/ Manage \/ ManageHold \/ UNCHANGED vars
    BY <1>1, <2>6, OtherStep
  <2> QED
    BY <2>1, <2>2, <2>3, <2>4, <2>5, <2>6, <2>7, <2>8 DEF Next, Market, Executor
<1> QED
  BY <1>2, <1>3, <1>4 DEF IInv

\* The invariant of the whole day.
LEMMA Always == Spec => []IInv
<1>1. Init => IInv
  BY Initially, StrategyAssumption, DayAssumption
<1>2. IInv /\ [Next]_vars => IInv'
  BY Inductively, StrategyAssumption, DayAssumption
<1> QED
  BY <1>1, <1>2, PTL DEF Spec

\* Any fraction of a position costs at its stop at most hard_stop_R times its
\* share of the risk and of what the fill cost beyond the signal's price.
LEMMA LossPerShare ==
  ASSUME StrategyAssumption, NEW signal \in Int, NEW paid \in Int, NEW initial \in Int, NEW stop \in Int,
         NEW beyond \in Nat, beyond >= paid - signal,
         NEW entry \in {signal, paid}, stop >= HardStop(entry, initial)
  PROVE  (paid - stop) * Whole <= HardStopR * (signal - initial + beyond)
<1> USE DEF Whole
<1> DEFINE n == signal - initial
           e == entry - initial
           hard == HardStop(entry, initial)
<1>1. n \in Int /\ e \in Int /\ HardStopR \in Nat /\ HardStopR >= Whole /\ entry \in Int
  BY DEF StrategyAssumption
<1>2. hard \in Int /\ (entry - hard) * Whole <= e * HardStopR
  BY <1>1, HardStopBounds
<1>3. e = entry - initial /\ n = signal - initial /\ stop >= hard
  OBVIOUS
<1> HIDE DEF hard, n, e
<1>4. (entry - stop) * Whole <= e * HardStopR
  <2> DEFINE m == e * HardStopR
  <2>1. m \in Int /\ (entry - hard) * Whole <= m
    BY <1>1, <1>2
  <2> HIDE DEF m
  <2>2. (entry - stop) * Whole <= m
    BY <1>1, <1>2, <1>3, <2>1
  <2> QED
    BY <2>2 DEF m
<1>5. ASSUME NEW x \in Int, x <= beyond
      PROVE  x * Whole <= beyond * HardStopR
  <2>1. x * Whole <= beyond * Whole
    BY <1>5
  <2>2. HardStopR - Whole \in Nat /\ beyond * (HardStopR - Whole) \in Nat
    BY <1>1
  <2>3. beyond * HardStopR = beyond * Whole + beyond * (HardStopR - Whole)
    BY <1>1
  <2> QED
    BY <1>1, <2>1, <2>2, <2>3
<1>6. HardStopR * (n + beyond) = n * HardStopR + beyond * HardStopR
  BY <1>1
<1>7. CASE entry = signal
  <2> DEFINE m == n * HardStopR
             b == beyond * HardStopR
  <2>1. m \in Int /\ b \in Int /\ (signal - stop) * Whole <= m /\ (paid - signal) * Whole <= b
    <3>1. e = n
      BY <1>3, <1>7
    <3>2. paid - signal \in Int /\ paid - signal <= beyond
      OBVIOUS
    <3>3. (paid - signal) * Whole <= beyond * HardStopR
      BY <1>5, <3>2
    <3> QED
      BY <1>1, <1>4, <1>7, <3>1, <3>3
  <2>2. HardStopR * (n + beyond) = m + b
    BY <1>6
  <2> HIDE DEF m, b
  <2>3. (paid - stop) * Whole <= m + b
    BY <2>1
  <2> QED
    BY <1>3, <2>2, <2>3
<1>8. CASE entry = paid
  <2>1. e <= n + beyond
    BY <1>1, <1>3, <1>8
  <2>2. e * HardStopR <= (n + beyond) * HardStopR
    <3>1. n + beyond - e \in Nat /\ (n + beyond - e) * HardStopR \in Nat
      BY <1>1, <2>1
    <3>2. (n + beyond) * HardStopR = e * HardStopR + (n + beyond - e) * HardStopR
      BY <1>1
    <3> QED
      BY <1>1, <3>1, <3>2
  <2> DEFINE m == e * HardStopR
             k == (n + beyond) * HardStopR
  <2>3. m \in Int /\ k \in Int /\ (paid - stop) * Whole <= m /\ m <= k
    BY <1>1, <1>4, <1>8, <2>2
  <2>4. HardStopR * (n + beyond) = k
    BY <1>1
  <2> HIDE DEF m, k
  <2>5. (paid - stop) * Whole <= k
    BY <2>3
  <2> QED
    BY <1>3, <2>4, <2>5
<1> QED
  BY <1>7, <1>8

\* The same of a whole position, whose risk was bounded when it was sized.
LEMMA LossOfPosition ==
  ASSUME StrategyAssumption, NEW signal \in Int, NEW paid \in Int, NEW initial \in Int, NEW stop \in Int,
         NEW beyond \in Nat, NEW qty \in Nat, NEW risk \in Int,
         (paid - stop) * Whole <= HardStopR * (signal - initial + beyond),
         qty * (signal - initial) <= risk
  PROVE  qty * (paid - stop) * Whole <= HardStopR * (risk + qty * beyond)
<1> USE DEF Whole
<1> DEFINE n == signal - initial
           x == (paid - stop) * Whole
           y == HardStopR * (n + beyond)
           z == qty * n
           w == qty * beyond
<1>1. n \in Int /\ x \in Int /\ HardStopR \in Nat /\ y \in Int /\ z \in Int /\ w \in Int /\ x <= y
  <2>1. HardStopR \in Nat
    BY DEF StrategyAssumption
  <2> QED
    BY <2>1
<1>2. qty * x <= qty * y
  <2> HIDE DEF x, y
  <2>1. y - x \in Nat /\ qty * (y - x) \in Nat
    BY <1>1
  <2>2. qty * y = qty * x + qty * (y - x)
    BY <1>1
  <2> QED
    BY <1>1, <2>1, <2>2
<1>3. qty * (paid - stop) * Whole = qty * x
  OBVIOUS
<1> HIDE DEF n
<1>4. qty * y = HardStopR * (z + w)
  <2>1. qty * (n + beyond) = z + w
    BY <1>1
  <2>2. qty * (HardStopR * (n + beyond)) = HardStopR * (qty * (n + beyond))
    BY <1>1
  <2> QED
    BY <2>1, <2>2
<1>5. z <= risk
  BY DEF n
<1> HIDE DEF x, y, z, w
<1>6. HardStopR * (z + w) <= HardStopR * (risk + w)
  <2>1. risk - z \in Nat /\ HardStopR * (risk - z) \in Nat
    BY <1>1, <1>5
  <2>2. HardStopR * (risk + w) = HardStopR * (z + w) + HardStopR * (risk - z)
    BY <1>1
  <2> QED
    BY <1>1, <2>1, <2>2
<1>7. qty * x <= HardStopR * (risk + w)
  <2>1. qty * x \in Int /\ qty * y \in Int /\ HardStopR * (z + w) \in Int /\ HardStopR * (risk + w) \in Int
    BY <1>1
  <2> DEFINE a == qty * x
             b == qty * y
             c == HardStopR * (z + w)
             d == HardStopR * (risk + w)
  <2>2. a \in Int /\ b \in Int /\ c \in Int /\ d \in Int /\ a <= b /\ b = c /\ c <= d
    BY <1>2, <1>4, <1>6, <2>1
  <2> HIDE DEF a, b, c, d
  <2>3. a <= d
    BY <2>2
  <2> QED
    BY <2>3 DEF a, d
<1> QED
  BY <1>3, <1>7 DEF w

-----------------------------------------------------------------------------
(* The theorems.                                                           *)

\* Every variable keeps its type, whatever the market does: prices within a
\* bar stay in order, and a row's stop lies below its price.
THEOREM DayTypeCorrect == Spec => []TypeOK
<1>1. IInv => TypeOK
  <2> SUFFICES ASSUME IInv PROVE TypeOK
    OBVIOUS
  <2>1. bars \in Seq(Bar) => DOMAIN bars = 1 .. Len(bars)
    OBVIOUS
  <2> QED
    BY <2>1 DEF TypeOK, IInv, Kept, Typed, BarsInOrder, RowMakesSense, ExcursionTraded
<1> QED
  BY <1>1, Always, PTL

\* The loss at the stop is bounded by hard_stop_R times the risk allowed and
\* what the fill cost beyond the signal's price, for any percentages, any
\* hard_stop_R and multiplier of at least 1, and any prices fine enough for the
\* floor to lower a stop: entry_scan's sizes, the stop
\* that follows whichever entry price was kept and all that manage_position
\* did since agree.
THEOREM LossLimited == Spec => []LossBounded
<1>1. IInv => LossBounded
  <2> SUFFICES ASSUME IInv, Open
               PROVE  LossBounded
    BY DEF LossBounded
  <2> DEFINE risk == Percent(Portfolio, MaxRiskPct)
             beyond == Max({0, deal.paid - deal.signal})
  <2>1. /\ pos.qty \in Nat /\ pos.initial \in Int /\ pos.stop \in Int
        /\ deal.signal \in Int /\ deal.paid \in Int
    BY DEF IInv, Kept, Typed, Position, Deal
  <2>2. /\ pos.qty * (deal.signal - pos.initial) <= risk
        /\ pos.qty * deal.signal <= Percent(Portfolio, MaxPositionPct)
        /\ pos.entry \in {deal.signal, deal.paid} /\ pos.stop >= HardStop(pos.entry, pos.initial)
    BY DEF IInv, Kept, DealKept
  <2>3. beyond \in Nat /\ beyond >= deal.paid - deal.signal
    <3> DEFINE d == deal.paid - deal.signal
    <3>1. d \in Int
      BY <2>1
    <3> HIDE DEF d
    <3>2. Max({0, d}) = IF 0 >= d THEN 0 ELSE d
      BY <3>1, 0 \in Int, OfTwo, Zenon
    <3>3. Max({0, d}) \in Nat /\ Max({0, d}) >= d
      BY <3>1, <3>2
    <3> QED
      BY <3>3 DEF d
  <2>4. risk \in Int
    BY PercentBounds, StrategyAssumption DEF StrategyAssumption
  <2> HIDE DEF risk, beyond
  <2>5. (deal.paid - pos.stop) * Whole <= HardStopR * (deal.signal - pos.initial + beyond)
    BY <2>1, <2>2, <2>3, LossPerShare, StrategyAssumption
  <2>6. pos.qty * (deal.paid - pos.stop) * Whole <= HardStopR * (risk + pos.qty * beyond)
    BY <2>1, <2>2, <2>3, <2>4, <2>5, LossOfPosition, StrategyAssumption
  <2> QED
    BY <2>2, <2>6 DEF LossBounded, risk, beyond
<1> QED
  BY <1>1, Always, PTL

\* Nothing trails without a price, traded since the purchase, that cleared
\* the trigger.
THEOREM NoEarlyTrailing == Spec => []TrailingEarned
<1>1. IInv => TrailingEarned
  BY DEF IInv, Kept, ExcursionTraded, TrailingEarned
<1> QED
  BY <1>1, Always, PTL

\* What manage_position refuses to manage has its stop at or above what was
\* paid, for any multiplier of the hard stop.
THEOREM NeverUnmanagedBelow == Spec => []UnmanagedSoldAtOnce
<1>1. IInv => UnmanagedSoldAtOnce
  <2> SUFFICES ASSUME IInv, Open, ~Managed(pos)
               PROVE  pos.stop >= deal.paid /\ ~pos.trail
    BY DEF UnmanagedSoldAtOnce
  <2>1. /\ pos.initial \in Int /\ pos.entry \in Int /\ deal.signal \in Int /\ deal.paid \in Int
    BY DEF IInv, Kept, Typed, Position, Deal
  <2>2. /\ pos.initial < deal.signal /\ pos.entry \in {deal.signal, deal.paid}
        /\ pos.stop = HardStop(pos.entry, pos.initial)
    BY DEF IInv, Kept, DealKept, ExcursionTraded
  <2>3. pos.entry <= pos.initial
    BY <2>1 DEF Managed
  <2>4. pos.entry = deal.paid
    BY <2>1, <2>2, <2>3
  <2>5. HardStop(pos.entry, pos.initial) >= pos.entry
    BY <2>1, <2>3, HardStopBounds, StrategyAssumption
  <2>6. ~pos.trail
    BY DEF IInv, Kept, ExcursionTraded
  <2> QED
    BY <2>2, <2>4, <2>5, <2>6
<1> QED
  BY <1>1, Always, PTL

\* A stop is only ever raised to a price no higher than the last of the bars
\* that decided it, or than one traded since: between the bars and the order
\* the market may fall through it, and nothing else makes it too high.
THEOREM StopsTrailBelow == Spec => RaisedStopHadRoom
<1>1. ASSUME IInv, [Next]_vars
      PROVE  [Open /\ pos'.qty > 0 /\ pos'.stop # pos.stop => pos'.stop <= deal.top]_vars
  <2> SUFFICES ASSUME Open, pos'.qty > 0, pos'.stop # pos.stop
               PROVE  pos'.stop <= deal.top
    OBVIOUS
  <2>1. pos \in Position
    BY <1>1 DEF IInv, Kept, Typed
  <2>2. ~ManagePrice
    <3> SUFFICES ASSUME ManagePrice PROVE FALSE
      OBVIOUS
    <3> DEFINE m == Higher(current_price(bars), pos.mfe)
    <3> DEFINE seen == [pos EXCEPT !.mfe = m]
    <3>1. seen.stop = pos.stop /\ [seen EXCEPT !.trail = TRUE].stop = seen.stop
      BY <2>1 DEF Position
    <3>2. pos' = seen \/ pos' = [seen EXCEPT !.trail = TRUE]
      BY DEF ManagePrice
    <3> HIDE DEF seen
    <3> QED
      BY <3>1, <3>2
  <2>3. CASE PlaceStop
    <3>1. step = "place" /\ pos'.stop = target
      BY <2>1, <2>3 DEF PlaceStop, Position
    <3> QED
      BY <1>1, <3>1 DEF IInv, Kept, TargetKept
  <2>4. ~(StopOut \/ ForceClose)
    BY DEF StopOut, ForceClose, Gone, NoPosition
  <2>5. ~(EntryFilled \/ EntryRecovered)
    BY DEF EntryFilled, EntryRecovered, Buys
  <2>6. ~(\/ Scan \/ SlotPasses \/ StopFills \/ Manage \/ ManageHold \/ ManageBars \/ UNCHANGED vars
          \/ \E p \in Prices : FirstTrade(p) \/ Trade(p))
    BY DEF Scan, SlotPasses, StopFills, Manage, ManageHold, ManageBars, vars, FirstTrade, Trade
  <2> QED
    BY <1>1, <2>2, <2>3, <2>4, <2>5, <2>6 DEF Next, Market, Executor
<1> QED
  BY <1>1, Always, PTL DEF Spec, RaisedStopHadRoom

-----------------------------------------------------------------------------
(* The position implements the ledger.                                     *)

\* the rung of price p above an initial stop
Level(initial, p) ==
  IF p <= initial THEN 0 ELSE 1 + Cardinality({q \in Prices : initial < q /\ q <= p})

Entry == [open |-> Open, stop |-> IF Open THEN Level(pos.initial, pos.stop) ELSE 0, trail |-> pos.trail]
Book == [s \in {1} |-> Entry]

\* The instance's Cardinality is the usual one.
LEMMA LedgerCardinality == \A S : Ledger!Cardinality(S) = Cardinality(S)
BY DEF Cardinality, Ledger!Cardinality

\* The ledger's book is this one, now and after a step.
LEMMA LedgerBook ==
  /\ [s \in {1} |-> [open |-> Open, stop |-> IF Open THEN Rung(pos.stop) ELSE 0, trail |-> pos.trail]] = Book
  /\ [s \in {1} |-> [open |-> Open, stop |-> IF Open THEN Rung(pos.stop) ELSE 0, trail |-> pos.trail]]' = Book'
BY DEF Book, Entry, Level, Rung

\* Every price has a rung of the ledger, and a price traded above another and
\* above the initial stop has a higher one.
LEMMA Rungs ==
  ASSUME DayAssumption, NEW initial \in Int, NEW p \in Int
  PROVE  /\ Level(initial, p) \in 0 .. Cardinality(Prices) + 1
         /\ \A low \in Prices : low > initial /\ low > p =>
              Level(initial, low) > Level(initial, p) /\ Level(initial, low) > 1
<1> DEFINE Above(x) == {q \in Prices : initial < q /\ q <= x}
<1>1. /\ IsFiniteSet(Prices) /\ Cardinality(Prices) \in Nat /\ Prices \subseteq Int
  BY FS_CardinalityType DEF DayAssumption
<1>2. ASSUME NEW x
      PROVE  /\ IsFiniteSet(Above(x)) /\ Cardinality(Above(x)) \in Nat
             /\ Cardinality(Above(x)) <= Cardinality(Prices)
  <2>1. Above(x) \in SUBSET Prices
    OBVIOUS
  <2> HIDE DEF Above
  <2> QED
    BY <1>1, <2>1, FS_Subset, FS_CardinalityType
<1>3. ASSUME NEW low \in Prices, low > initial, low > p
      PROVE  Level(initial, low) > Level(initial, p) /\ Level(initial, low) > 1
  <2>1. low \in Above(low) /\ low \notin Above(p) /\ Above(p) \in SUBSET Above(low)
        /\ ~(low <= initial)
    <3>1. low \in Int /\ ~(low <= initial) /\ ~(low <= p) /\ low <= low
      BY <1>1, <1>3
    <3>2. low \in Above(low) /\ low \notin Above(p)
      BY <1>3, <3>1
    <3>3. \A q \in Prices : q <= p => q <= low
      BY <1>1, <1>3
    <3> QED
      BY <3>1, <3>2, <3>3
  <2>2. Level(initial, low) = 1 + Cardinality(Above(low))
    BY <2>1 DEF Level
  <2>3. Level(initial, p) = IF p <= initial THEN 0 ELSE 1 + Cardinality(Above(p))
    BY DEF Level
  <2> HIDE DEF Above
  <2>4. Cardinality(Above(low)) # 0
    BY <1>2, <2>1, FS_EmptySet
  <2>5. Cardinality(Above(p)) <= Cardinality(Above(low)) /\ Cardinality(Above(p)) # Cardinality(Above(low))
    BY <1>2, <2>1, FS_Subset
  <2> QED
    BY <1>2, <2>2, <2>3, <2>4, <2>5
<1>4. Level(initial, p) \in 0 .. Cardinality(Prices) + 1
  <2>1. Level(initial, p) = IF p <= initial THEN 0 ELSE 1 + Cardinality(Above(p))
    BY DEF Level
  <2> HIDE DEF Above
  <2> QED
    BY <1>1, <1>2, <2>1
<1> QED
  BY <1>3, <1>4

\* Every step of the day is one of the ledger, or leaves it as it is.
LEMMA LedgerStep ==
  ASSUME StrategyAssumption, DayAssumption, IInv, [Next]_vars
  PROVE  [Ledger!Next]_(Ledger!vars)
<1>1. /\ pos \in Position /\ pos.qty \in Nat /\ pos.stop \in Int /\ pos.initial \in Int
      /\ pos.trail \in BOOLEAN /\ (Open \in BOOLEAN)
      /\ pos' \in Position /\ pos'.stop \in Int /\ pos'.initial \in Int /\ pos'.trail \in BOOLEAN
  BY Inductively DEF IInv, Kept, Typed, Position, Open
<1>2. Ledger!Levels = 0 .. Cardinality(Prices) + 1
  BY DEF Ledger!Levels
<1>3. CASE pos' = pos
  BY <1>3 DEF Ledger!vars, Open, Rung
<1>4. CASE EntryFilled \/ EntryRecovered
  <2>1. ~Open /\ pos'.qty >= 1 /\ pos'.trail = FALSE
    <3>1. ASSUME NEW qty, NEW entry, Enter(qty, entry)
          PROVE  pos'.qty = qty /\ pos'.trail = FALSE
      BY <3>1 DEF Enter
    <3>2. CASE EntryFilled
      BY <3>1, <3>2 DEF EntryFilled, Buys
    <3>3. CASE EntryRecovered
      <4>1. PICK qty \in 1 .. Size(row) : Enter(qty, Last.close)
        BY <3>3 DEF EntryRecovered
      <4>2. pos'.qty = qty /\ pos'.trail = FALSE
        BY <3>1, <4>1, Zenon
      <4>3. qty >= 1
        OBVIOUS
      <4>4. ~Open
        BY <3>3 DEF EntryRecovered, Buys
      <4> QED
        BY <4>2, <4>3, <4>4
    <3> QED
      BY <1>4, <3>2, <3>3
  <2>2. Entry' = [open |-> TRUE, stop |-> Level(pos'.initial, pos'.stop), trail |-> FALSE]
    <3>1. Open' = TRUE
      BY <1>1, <2>1 DEF Open, Position
    <3> QED
      BY <2>1, <3>1, Zenon DEF Entry
  <2>3. Level(pos'.initial, pos'.stop) \in Ledger!Levels
    BY <1>1, <1>2, Rungs
  <2>4. Ledger!OpenSymbols = {}
    BY <2>1 DEF Ledger!OpenSymbols
  <2>5. Cardinality(Ledger!OpenSymbols) < 1
    BY <2>4, FS_EmptySet
  <2>6. Book' = [Book EXCEPT ![1] = [open |-> TRUE, stop |-> Level(pos'.initial, pos'.stop), trail |-> FALSE]]
    BY <2>2 DEF Book
  <2>7. ~Book[1].open
    BY <2>1, Zenon DEF Book, Entry
  <2>8. Ledger!Open(1)
    BY <2>3, <2>5, <2>6, <2>7, LedgerCardinality, LedgerBook, Zenon DEF Ledger!Open
  <2> QED
    BY <2>8 DEF Ledger!Next
<1>5. CASE ManagePrice /\ pos' # pos
  <2>1. Open = TRUE /\ Open' = TRUE /\ pos'.initial = pos.initial /\ pos'.stop = pos.stop
    <3> DEFINE m == Higher(current_price(bars), pos.mfe)
               seen == [pos EXCEPT !.mfe = m]
    <3>1. /\ seen.qty = pos.qty /\ seen.initial = pos.initial /\ seen.stop = pos.stop
          /\ [seen EXCEPT !.trail = TRUE].qty = seen.qty
          /\ [seen EXCEPT !.trail = TRUE].initial = seen.initial
          /\ [seen EXCEPT !.trail = TRUE].stop = seen.stop
      BY <1>1 DEF Position
    <3>2. Open /\ (pos' = seen \/ pos' = [seen EXCEPT !.trail = TRUE])
      BY <1>5 DEF ManagePrice, IInv, Kept, ExcursionTraded
    <3> HIDE DEF m, seen
    <3> QED
      BY <1>1, <3>1, <3>2 DEF Open
  <2>2. /\ Entry = [open |-> TRUE, stop |-> Level(pos.initial, pos.stop), trail |-> pos.trail]
        /\ Entry' = [open |-> TRUE, stop |-> Level(pos.initial, pos.stop), trail |-> pos'.trail]
    BY <2>1, Zenon DEF Entry
  <2>3. CASE pos'.trail = pos.trail
    <3>1. Book' = Book
      BY <2>2, <2>3, Zenon DEF Book
    <3> QED
      BY <3>1, LedgerBook, Zenon DEF Ledger!vars
  <2>4. CASE pos'.trail = TRUE
    <3>1. Book' = [Book EXCEPT ![1].trail = TRUE] /\ Book[1].open
      BY <2>2, <2>4 DEF Book
    <3>2. Ledger!StartTrailing(1)
      BY <3>1, LedgerBook, Zenon DEF Ledger!StartTrailing
    <3> QED
      BY <3>2 DEF Ledger!Next
  <2>5. pos'.trail = pos.trail \/ pos'.trail = TRUE
    <3>1. pos.trail => pos'.trail
      BY <1>1, <1>5 DEF ManagePrice, Position
    <3> QED
      BY <1>1, <3>1
  <2> QED
    BY <2>3, <2>4, <2>5
<1>6. CASE PlaceStop
  <2> DEFINE low == target
  <2>1. /\ Open = TRUE /\ pos.trail = TRUE /\ low > pos.initial /\ low > pos.stop
        /\ pos' = [pos EXCEPT !.stop = low]
    <3>1. Open /\ pos.trail /\ TrailsTo(pos, target)
      BY <1>6 DEF PlaceStop, IInv, Kept, ExcursionTraded, TargetKept
    <3>2. Open = TRUE /\ pos.trail = TRUE
      BY <1>1, <3>1
    <3> QED
      BY <1>6, <3>1, <3>2 DEF PlaceStop, TrailsTo
  <2>2. low \in Prices
    BY <1>6 DEF PlaceStop, IInv, Kept, TargetKept
  <2> HIDE DEF low
  <2>3. pos'.qty = pos.qty /\ pos'.initial = pos.initial /\ pos'.stop = low /\ pos'.trail = TRUE
    BY <1>1, <2>1 DEF Position
  <2>4. Open' = TRUE
    BY <2>1, <2>3 DEF Open
  <2> DEFINE old == Level(pos.initial, pos.stop)
             new == Level(pos.initial, low)
  <2>5. /\ Entry = [open |-> TRUE, stop |-> old, trail |-> TRUE]
        /\ Entry' = [open |-> TRUE, stop |-> new, trail |-> TRUE]
    BY <2>1, <2>3, <2>4, Zenon DEF Entry
  <2>6. new > old /\ new > 1 /\ new \in Ledger!Levels
    <3>1. low \in Int
      BY <2>2 DEF DayAssumption
    <3> QED
      BY <1>1, <1>2, <2>1, <2>2, <3>1, Rungs
  <2> HIDE DEF old, new
  <2>7. /\ Book[1].open /\ Book[1].stop = old
        /\ Book' = [Book EXCEPT ![1].stop = new, ![1].trail = TRUE]
    BY <2>5 DEF Book
  <2>8. Ledger!RaiseStop(1)
    BY <2>6, <2>7, LedgerBook, Zenon DEF Ledger!RaiseStop
  <2> QED
    BY <2>8 DEF Ledger!Next
<1>7. CASE StopOut \/ ForceClose
  <2>1. Open = TRUE /\ Open' = FALSE /\ pos'.trail = FALSE
    <3>1. Open /\ pos' = NoPosition
      BY <1>7 DEF StopOut, ForceClose, Gone
    <3> QED
      BY <1>1, <3>1 DEF NoPosition, Open
  <2>2. Entry' = Ledger!Flat
    BY <2>1, Zenon DEF Entry, Ledger!Flat
  <2>3. Book' = [Book EXCEPT ![1] = Ledger!Flat]
    BY <2>2 DEF Book
  <2>4. Book[1].open
    BY <2>1 DEF Book, Entry
  <2>5. Ledger!Close(1)
    BY <2>3, <2>4, LedgerBook, Zenon DEF Ledger!Close
  <2> QED
    BY <2>5 DEF Ledger!Next
<1> QED
  BY <1>3, <1>4, <1>5, <1>6, <1>7 DEF Next, Market, Executor, Scan, SlotPasses, FirstTrade, Trade,
     StopFills, Manage, ManageHold, ManageBars, vars

\* With real prices, sizes and triggers the position is one of the abstract
\* book's: opened when there is none, its stop raised only while it trails, and
\* closed whole.
THEOREM DayImplementsLedger == Spec => DayLedgerSpec
<1>1. ASSUME Init PROVE Ledger!Init
  <2>1. Open = FALSE /\ pos.trail = FALSE
    BY <1>1 DEF Init, Open, NoPosition
  <2>2. Entry = Ledger!Flat
    BY <2>1, Zenon DEF Entry, Ledger!Flat
  <2> QED
    BY <2>2, LedgerBook, Zenon DEF Book, Ledger!Init
<1>2. IInv /\ [Next]_vars => [Ledger!Next]_(Ledger!vars)
  BY LedgerStep, StrategyAssumption, DayAssumption
<1> QED
  BY <1>1, <1>2, Always, PTL DEF Spec, DayLedgerSpec, Ledger!Spec

=============================================================================
