---------------------------- MODULE OrbStrategy ----------------------------
(***************************************************************************)
(* The arithmetic of the one strategy, ORB Long v4.2: when strategy.py     *)
(* sees an entry in the bars of a day, the stop it asks for, how many      *)
(* shares entry_scan makes of it, where the hard stop goes, and when       *)
(* position_mgmt.py starts to trail and how far.                           *)
(*                                                                         *)
(* A bar is a five-minute bar; its slot counts the five minutes from 9:30. *)
(* Bars without a trade do not exist, and the last bar may still be in     *)
(* progress.  Prices are integers; percentages, and multiples of a risk,   *)
(* are in ten-thousandths.                                                 *)
(* Pre-market bars are left out (they enter no comparison below), and so   *)
(* are the indicators: volatility_ok and confluence_ok are a free choice   *)
(* of whoever evaluates.                                                   *)
(***************************************************************************)
EXTENDS Integers, Sequences, FiniteSetsExt

CONSTANTS
  MinStopPct,    \* risk.min_stop_distance_pct
  RMultiplier,   \* risk.initial_stop_r_multiplier
  HardStopR,     \* exit.hard_stop_R
  TriggerR,      \* exit.trailing_trigger_R
  Portfolio,     \* user_settings.portfolio_value
  MaxRiskPct,    \* user_settings.max_risk_pct
  MaxPositionPct \* risk.max_position_size_pct_of_portfolio

\* a hundred percent, and one R
Whole == 10000

ASSUME StrategyAssumption ==
  /\ MinStopPct \in Nat /\ MaxPositionPct \in Nat /\ MaxRiskPct \in Nat
  /\ RMultiplier \in Nat /\ RMultiplier >= Whole
  /\ HardStopR \in Nat /\ HardStopR >= Whole
  /\ TriggerR \in Nat /\ Portfolio \in Nat

OpeningRange == 0 .. 2   \* 9:30, 9:35 and 9:40

Percent(n, p) == (n * p) \div Whole

-----------------------------------------------------------------------------
(* Entries.                                                                *)

\* positions in the day's bars of those that form the opening range
RangeBars(bars) == {i \in DOMAIN bars : bars[i].slot \in OpeningRange}

\* a bar nobody traded in is missing, and the range is then never formed
RangeFormed(bars) == Cardinality(RangeBars(bars)) >= 3
RangeHigh(bars) == Max({bars[i].high : i \in RangeBars(bars)})

\* bars after the range, finished or not, that close above it
Confirming(bars) ==
  {i \in DOMAIN bars : i > Max(RangeBars(bars)) /\ bars[i].close > RangeHigh(bars)}

LastConfirms(bars) == Max(Confirming(bars))

\* confirm_ts: as of now, the bar that broke the range
FirstConfirms(bars) == Min(Confirming(bars))

Breakout(bars) ==
  /\ FirstConfirms(bars) = Len(bars)
  /\ bars[Len(bars)].low > bars[Len(bars) - 1].high

Retest(bars) ==
  LET bar == bars[Len(bars)] IN
  /\ FirstConfirms(bars) < Len(bars)
  /\ bar.low <= RangeHigh(bars) /\ bar.close > RangeHigh(bars) /\ bar.close > bar.open

Unfloored(price, stop) == stop

\* _apply_min_stop_distance: only ever lowers a stop
Floored(price, stop) == Min({stop, price - Percent(price, MinStopPct)})

\* _apply_stop_r_multiplier
Widened(price, stop) == price - Percent(price - stop, RMultiplier)

NoSignal == [model |-> "none", price |-> 0, stop |-> 0, slot |-> 0]

\* a passing row, as of the last bar's present state
SignalOf(bars, model) ==
  LET bar == bars[Len(bars)] IN
  [model |-> model, price |-> bar.close, slot |-> bar.slot,
   stop |-> Widened(bar.close, Floored(bar.close, bar.low))]

\* What the bars say, provided the volatility and confluence filters pass.
\* (The floor keeps every stop below its price, so price - stop > 0 always.)
evaluate_orb_entry(bars) ==
  IF ~RangeFormed(bars) \/ Confirming(bars) = {} THEN NoSignal
  ELSE IF Breakout(bars) THEN SignalOf(bars, "breakout")
  ELSE IF Retest(bars) THEN SignalOf(bars, "retest")
  ELSE NoSignal

-----------------------------------------------------------------------------
(* Sizes and stops.                                                        *)

SizeByRiskOnly(signal) == Percent(Portfolio, MaxRiskPct) \div (signal.price - signal.stop)

\* entry_scan: by the distance to the initial stop, and by the value bought
Size(signal) ==
  Min({Percent(Portfolio, MaxRiskPct) \div (signal.price - signal.stop),
       Percent(Portfolio, MaxPositionPct) \div signal.price})

HardStopBelow(fill, initial) ==
  fill - Percent(IF fill > initial THEN fill - initial ELSE initial - fill, HardStopR)

\* the stop order placed at entry
HardStop(fill, initial) == fill - Percent(fill - initial, HardStopR)

-----------------------------------------------------------------------------
(* Managing a position.                                                    *)

\* manage_position leaves a position without risk alone
Managed(pos) == pos.entry > pos.initial

\* trailing_activation_decision
TriggerReached(pos) == (pos.mfe - pos.entry) * Whole >= TriggerR * (pos.entry - pos.initial)

\* the highest price of the last bar in the place of the last price
BarHigh(bars) == bars[Len(bars)].high

\* current_price: the close so far of the last bar
current_price(bars) == bars[Len(bars)].close

FinishedLow(bars) == bars[Len(bars) - 1].low

\* low_of_last_n_bars(bars, 2), the last of which may be in progress
SwingLow(bars) == Min({bars[Len(bars)].low, bars[Len(bars) - 1].low})

\* trailing_stop_decision: trail the stop to the candidate
TrailsTo(pos, candidate) == candidate > pos.initial /\ candidate > pos.stop

=============================================================================
