----------------------------- MODULE TradingDay -----------------------------
(***************************************************************************)
(* One symbol through one day: trades build the five-minute bars, the      *)
(* Scanner evaluates them while the last one is in progress, the Executor  *)
(* buys on the row the Scanner left and then manages the position from     *)
(* prices it asks for once a minute, and the broker sells at the stop.     *)
(*                                                                         *)
(* This module is about the numbers, so what Executor treats step by step  *)
(* and share by share is one action here: an entry with its order and its  *)
(* stop, the force close.  What stays apart is everything the market may   *)
(* do in between: between the Scanner's look and the order, between the    *)
(* price and the bars manage_position asks for, between those and the stop *)
(* it places, and between the price of a signal and the price paid.  The   *)
(* row's stop may fill between any two of these steps.                     *)
(* Failures are Executor's.                                                *)
(***************************************************************************)
EXTENDS OrbStrategy

CONSTANTS
  Prices,       \* bound: prices traded at
  EntrySlots,   \* the five minutes of the entry window
  CloseSlot     \* force_close_et; bound: the day ends there

\* prices are fine enough for the floor of a stop to lie below every one
ASSUME DayAssumption ==
  /\ IsFiniteSet(Prices) /\ Prices \subseteq Nat \ {0} /\ CloseSlot \in Nat
  /\ \A p \in Prices : Percent(p, MinStopPct) >= 1
  /\ EntrySlots \subseteq 0 .. CloseSlot - 1

VARIABLES
  slot,     \* the five minutes the clock is in
  bars,     \* the day's bars, in order
  row,      \* the symbol's passing row of scan_results, or NoSignal
  written,  \* the slot that row was written in
  pos,      \* its row of positions, or NoPosition
  resting,  \* the stop order that row names has not filled
  step,     \* what run_cycle waits for, see Steps
  target,   \* the stop manage_position is about to place
  deal      \* history: what the signal asked, what was paid, the best price
            \* since, and the highest since the bars were downloaded

signalled == <<row, written>>
managing == <<step, target>>
vars == <<slot, bars, signalled, pos, resting, managing, deal>>

\* no cycle, or another symbol's turn; the stop-outs were read and the price is
\* asked for; the bars are; the old stop is cancelled and a new one placed
Steps == {"idle", "price", "bars", "place"}

Bar == [slot : Nat, open : Prices, high : Prices, low : Prices, close : Prices]
Flat(s, p) == [slot |-> s, open |-> p, high |-> p, low |-> p, close |-> p]

NoPosition == [qty |-> 0, entry |-> 0, initial |-> 0, stop |-> 0, mfe |-> 0, trail |-> FALSE]
Position == [qty : Nat, entry : Nat, initial : Int, stop : Int, mfe : Nat, trail : BOOLEAN]
Open == pos.qty > 0

NoDeal == [signal |-> 0, paid |-> 0, best |-> 0, top |-> 0]
Deal == [signal : Nat, paid : Nat, best : Nat, top : Nat]

Last == bars[Len(bars)]

\* The day is taken up at 9:45, with or without all bars of the range; only
\* how high the range went and how high its last bar did can matter.
Init ==
  /\ slot = 3
  /\ \E high, last \in Prices, gaps \in BOOLEAN :
       /\ last <= high
       /\ bars = IF gaps THEN <<Flat(0, high), Flat(2, last)>>
                         ELSE <<Flat(0, high), Flat(1, last), Flat(2, last)>>
  /\ row = NoSignal /\ written = 0
  /\ pos = NoPosition /\ resting = FALSE /\ step = "idle" /\ target = 0
  /\ deal = NoDeal

-----------------------------------------------------------------------------
(* The market.                                                             *)

Higher(a, b) == IF a > b THEN a ELSE b

Traded(p) ==
  deal' = [deal EXCEPT !.best = IF Open THEN Higher(p, @) ELSE @,
                       !.top = IF step = "place" THEN Higher(p, @) ELSE @]

\* the first trade of a five-minute slot, and every later one
FirstTrade(p) ==
  /\ Last.slot < slot
  /\ bars' = Append(bars, Flat(slot, p))
  /\ Traded(p)
  /\ UNCHANGED <<slot, signalled, pos, resting, managing>>

Trade(p) ==
  /\ Last.slot = slot
  /\ bars' = [bars EXCEPT ![Len(bars)].close = p,
                          ![Len(bars)].high = Max({@, p}), ![Len(bars)].low = Min({@, p})]
  /\ Traded(p)
  /\ UNCHANGED <<slot, signalled, pos, resting, managing>>

\* A row is read for at most two minutes: none outlives the slot after the one
\* it was written in.
SlotPasses ==
  /\ slot < CloseSlot
  /\ slot' = slot + 1
  /\ IF written < slot THEN row' = NoSignal /\ written' = 0 ELSE UNCHANGED signalled
  /\ UNCHANGED <<bars, pos, resting, managing, deal>>

\* at any time, also while manage_position works on the row: a cancel is only
\* a request
StopFills ==
  /\ Open /\ resting /\ Last.close <= pos.stop
  /\ resting' = FALSE
  /\ UNCHANGED <<slot, bars, signalled, pos, managing, deal>>

-----------------------------------------------------------------------------
(* The Scanner.                                                            *)

\* the filters pass or fail, or the row is dropped for its age
Scan ==
  /\ row' \in {evaluate_orb_entry(bars), NoSignal}
  /\ written' = IF row' = NoSignal THEN 0 ELSE slot
  /\ UNCHANGED <<slot, bars, pos, resting, managing, deal>>

-----------------------------------------------------------------------------
(* The Executor.                                                           *)

Buys == row # NoSignal /\ ~Open /\ slot \in EntrySlots

\* the order fills at the market, whatever the entry price kept
Enter(qty, entry) ==
  /\ pos' = [qty |-> qty, entry |-> entry, initial |-> row.stop,
             stop |-> HardStop(entry, row.stop), mfe |-> entry, trail |-> FALSE]
  /\ resting' = TRUE
  /\ deal' = [signal |-> row.price, paid |-> Last.close, top |-> 0,
              best |-> Higher(entry, Last.close)]
  /\ UNCHANGED <<slot, bars, signalled, managing>>

\* trade_exec exits 0: the order's size and the signal's price are kept
EntryFilled == Buys /\ Size(row) >= 1 /\ Enter(Size(row), row.price)

\* a delayed fill recovered: what the broker shows of it, at its average cost
EntryRecovered == Buys /\ \E qty \in 1 .. Size(row) : Enter(qty, Last.close)

Gone == pos' = NoPosition /\ resting' = FALSE /\ deal' = NoDeal

\* check_stop_outs: the stop the row names shows a fill
StopOut ==
  /\ Open /\ step = "idle" /\ ~resting
  /\ Gone
  /\ UNCHANGED <<slot, bars, signalled, managing>>

Manage ==
  /\ Open /\ step = "idle" /\ resting
  /\ step' = "price"
  /\ UNCHANGED <<slot, bars, signalled, pos, resting, target, deal>>

\* no price, or no risk to measure it by
ManageHold ==
  /\ step = "price"
  /\ step' = "idle"
  /\ UNCHANGED <<slot, bars, signalled, pos, resting, target, deal>>

\* mfe and trail_activated follow the last price in the place of the best
ManagePriceForgets ==
  /\ step = "price" /\ Managed(pos)
  /\ LET seen == [pos EXCEPT !.mfe = current_price(bars)] IN
     /\ pos' = [seen EXCEPT !.trail = TriggerReached(seen)]
     /\ step' = IF TriggerReached(seen) THEN "bars" ELSE "idle"
  /\ UNCHANGED <<slot, bars, signalled, resting, target, deal>>

\* the price decides whether bars are asked for
ManagePrice ==
  /\ step = "price" /\ Managed(pos)
  /\ LET seen == [pos EXCEPT !.mfe = Higher(current_price(bars), @)] IN
     IF pos.trail \/ TriggerReached(seen)
       THEN pos' = [seen EXCEPT !.trail = TRUE] /\ step' = "bars"
       ELSE pos' = seen /\ step' = "idle"
  /\ UNCHANGED <<slot, bars, signalled, resting, target, deal>>

\* the second request: the bars have moved on and say where to trail to, or
\* are not to be had, or the stop is to stay where it is
ManageBars ==
  /\ step = "bars"
  /\ \/ /\ TrailsTo(pos, SwingLow(bars))
        /\ step' = "place" /\ target' = SwingLow(bars)
        /\ deal' = [deal EXCEPT !.top = Last.close]
     \/ step' = "idle" /\ UNCHANGED <<target, deal>>
  /\ UNCHANGED <<slot, bars, signalled, pos, resting>>

\* the old stop cancelled, the contract looked up, the new stop placed: the
\* row names an order that has not filled, whatever the old one did
PlaceStop ==
  /\ step = "place"
  /\ pos' = [pos EXCEPT !.stop = target]
  /\ resting' = TRUE
  /\ step' = "idle" /\ target' = 0
  /\ deal' = [deal EXCEPT !.top = 0]
  /\ UNCHANGED <<slot, bars, signalled>>

ForceClose ==
  /\ Open /\ step = "idle" /\ slot = CloseSlot
  /\ Gone
  /\ UNCHANGED <<slot, bars, signalled, managing>>

-----------------------------------------------------------------------------
Market == SlotPasses \/ StopFills \/ \E p \in Prices : FirstTrade(p) \/ Trade(p)
Executor ==
  \/ EntryFilled \/ EntryRecovered \/ StopOut \/ Manage \/ ManageHold \/ ManagePrice
  \/ ManageBars \/ PlaceStop \/ ForceClose

Next == Market \/ Scan \/ Executor

Spec == Init /\ [][Next]_vars

-----------------------------------------------------------------------------
(* Properties.                                                             *)

\* Every variable stays within its type; a row's stop is below its price,
\* prices within a bar are in order, and only a position can be managed.
TypeOK ==
  /\ slot \in Nat
  /\ bars \in Seq(Bar)
  /\ \A i \in DOMAIN bars :
       bars[i].low <= bars[i].close /\ bars[i].close <= bars[i].high /\ bars[i].slot <= slot
  /\ row.model \in {"none", "breakout", "retest"}
  /\ row # NoSignal => row.stop < row.price
  /\ written \in Nat /\ written <= slot
  /\ pos \in Position /\ resting \in BOOLEAN
  /\ step \in Steps /\ (step # "idle" => Open) /\ (step \in {"bars", "place"} => pos.trail)
  /\ target \in Nat
  /\ deal \in Deal

\* A row says "retest" exactly when a bar finished before the row's own closed
\* above the opening range, and "breakout" exactly when none had: a bar that was
\* above the range for some minutes and fell back leaves nothing behind for
\* later rows, although every minute of it was evaluated.  (That a breakout's
\* own bar may still fall back is not excluded: the row is bought as it is.)
RetestNeedsFinishedBreak ==
  row # NoSignal =>
    (row.model = "retest" <=> \E i \in Confirming(bars) : bars[i].slot < row.slot)

\* However far the market moves between a signal and its fill, what is lost
\* at the stop is at most hard_stop_R times the risk the user allows plus what
\* the fill cost beyond the signal's price, and what the shares were meant to
\* cost is within the share of the portfolio allowed.
LossBounded ==
  Open =>
    /\ pos.qty * (deal.paid - pos.stop) * Whole <=
         HardStopR * (Percent(Portfolio, MaxRiskPct) + pos.qty * Max({0, deal.paid - deal.signal}))
    /\ pos.qty * deal.signal <= Percent(Portfolio, MaxPositionPct)

\* Trailing starts only after a price, traded since the purchase, cleared
\* trailing_trigger_R; what the bar did before the purchase does not count.
TrailingEarned ==
  pos.trail => (deal.best - pos.entry) * Whole >= TriggerR * (pos.entry - pos.initial)

\* A fill recovered at or below initial_stop is never managed, so its stop
\* order must not wait below: it stands at or above the price paid.
UnmanagedSoldAtOnce ==
  Open /\ ~Managed(pos) => pos.stop >= deal.paid /\ ~pos.trail

\* A stop is never raised to above the last price of the very bars that decided
\* it, nor above all that was traded since, also when the bar in progress has
\* fallen through the low of the one before: it is triggered as it is placed
\* only if the market falls through it within the requests in between.
RaisedStopHadRoom ==
  [][Open /\ pos'.qty > 0 /\ pos'.stop # pos.stop => pos'.stop <= deal.top]_vars

-----------------------------------------------------------------------------
\* Prices seen as the rungs of the abstract book: below the initial stop 0,
\* then one rung for every price it could trail to.
Rung(p) == IF p <= pos.initial THEN 0
           ELSE 1 + Cardinality({q \in Prices : pos.initial < q /\ q <= p})

Ledger == INSTANCE PositionLedger WITH
  Symbols <- {1}, MaxConcurrent <- 1, MaxTrades <- 0, MaxLevel <- Cardinality(Prices) + 1,
  book <- [s \in {1} |-> [open |-> Open, stop |-> IF Open THEN Rung(pos.stop) ELSE 0,
                          trail |-> pos.trail]],
  used <- 0

\* With real prices, sizes and triggers in the place of Executor's free
\* choices, the position is still one of the abstract book's.
DayLedgerSpec == Ledger!Spec

=============================================================================
