------------------------------ MODULE Executor ------------------------------
(***************************************************************************)
(* One user's Executor (executor.py), the trade_exec.py subprocess it      *)
(* spawns for every market order, the rows of the database they share, and *)
(* the broker account behind the user's own Gateway.                       *)
(*                                                                         *)
(* One run_cycle visits, in this order, the rows whose stop order has      *)
(* filled, every open position, and then either the entry candidates or    *)
(* (after force_close_et) every position again.  Between any two steps of  *)
(* that walk the broker, the clock, the dashboard and a failure may act.   *)
(*                                                                         *)
(* Executor is the only writer of its user's positions rows, so the list   *)
(* run_cycle carries in memory equals the table except for the one row     *)
(* being worked on; that row is `job'.                                     *)
(*                                                                         *)
(* Prices are kept only as the rung a stop stands on: HardStop below the   *)
(* signal's initial_stop, InitialStop, and the swing-low rungs above it.   *)
(* Left out, because no step ever reads them back: execution_log,          *)
(* executor_status, notifications, r_multiple/mfe/mae (their one effect,   *)
(* clearing the trailing trigger, is a choice) and hold_overnight, which   *)
(* no code sets to TRUE.                                                   *)
(*                                                                         *)
(* A market order, and the cancel of a stop order, are requests: the       *)
(* account changes in steps of the broker's own.  Orders and cancels of a  *)
(* symbol reach the broker in the order they were sent, unless the cancel  *)
(* fails (see "cancel").                                                   *)
(***************************************************************************)
EXTENDS Integers, FiniteSets

CONSTANTS
  Symbols,        \* tickers, numbered: the queries are ORDER BY symbol
  MaxConcurrent,  \* rules.risk.max_concurrent_positions
  MaxTrades,      \* user_settings.max_trades_per_day
  Lot,            \* bound: most shares one entry is sized to
  MaxLevel,       \* bound: highest rung a trailing stop reaches
  MaxOrders,      \* bound: stop orders one symbol's rows, job and fills name at once
  DateChange,     \* the time of day that ends with the server's midnight
  Faults,         \* which failures may happen, see FaultKinds
  MaxFaults       \* bound: how many failures happen

FaultKinds ==
  { "race",      \* a stop fills while a cycle is running
    "cancel",    \* a cancel is never sent, is refused, or is overtaken by later orders
    "outage",    \* a fill is over an hour old before the next cycle reads it
    "late",      \* a market order still works at trade_exec's 20 s deadline
    "timeout",   \* subprocess.run gives up on trade_exec after 40 s
    "crash",     \* a process dies, or a step of the cycle raises
    "deadstop",  \* the broker refuses a stop order after it was placed
    "partial" }  \* a stop order fills share by share

ASSUME ConstantsAssumption ==
  /\ Symbols \subseteq Nat /\ IsFiniteSet(Symbols)
  /\ MaxConcurrent \in Nat /\ MaxTrades \in Nat
  /\ Lot \in Nat \ {0}
  /\ MaxLevel \in Nat \ {0}
  /\ MaxOrders \in Nat
  /\ DateChange \in 0 .. 4
  /\ Faults \subseteq FaultKinds
  /\ MaxFaults \in Nat

VARIABLES
  \* tradingbotmulti.db, the rows of this user
  positions,      \* positions: symbol -> row, NoRow when there is none
  entriesToday,   \* Filled BUY rows of trades dated today
  enabled,        \* user_settings.trading_enabled
  \* the broker account
  shares,         \* symbol -> shares held, negative when short
  stops,          \* live stop orders
  fills,          \* ids of stop orders ib.fills() still shows from the last hour
  strays,         \* market orders still working that no process waits for
  \* the executor process
  pc,             \* the step the cycle is at, "rest" between cycles
  status,         \* what time_gate said when the cycle began
  todo,           \* symbols the running loop has still to visit
  job,            \* the row being worked on, and the loop to return to
  child,          \* the trade_exec subprocess and its market order
  view,           \* ib.positions() as this connection last received it
  \* the surroundings
  tod,            \* time of day, see TimesOfDay
  budget,         \* failures that may still happen
  happened        \* kinds of the failures that did happen; no step reads it

db      == <<positions, entriesToday, enabled>>
broker  == <<shares, stops, fills, strays>>
process == <<pc, status, todo, job, child, view>>
failures == <<budget, happened>>
vars    == <<db, broker, process, tod, failures>>

-----------------------------------------------------------------------------
HardStop == 0      \* fill - hard_stop_R * risk, below initial_stop
InitialStop == 1
Levels == 0 .. MaxLevel

\* A broker order id.  The ids of a symbol are numbered on their own, and a
\* number nothing refers to any more is taken again, so that TLC sees equal
\* accounts as equal; no two orders that matter ever share an id.
OrderId == Symbols \X (1 .. MaxOrders)
NoId == <<0, 0>>

\* qty = 0 stands for no row at all: a row always has qty >= 1.
NoRow == [qty |-> 0, stop |-> 0, id |-> NoId, trail |-> FALSE]
Row == [qty : Nat, stop : Levels, id : OrderId \union {NoId}, trail : BOOLEAN]

Loops == {"manage", "entries", "close"}
NoJob == [sym |-> 0, back |-> "manage", row |-> NoRow]
Job == [sym : Symbols \union {0}, back : Loops, row : Row]

Sides == {"BUY", "SELL"}

\* how far the cancel of a live stop order has got: not asked for, on its way,
\* or given up on - the broker may still act on it, or never do
Asks == {"none", "sent", "late"}
StopOrder == [id : OrderId, sym : Symbols, qty : Nat, level : Levels, ask : Asks]
MarketOrder == [side : Sides, sym : Symbols, qty : Nat, no : Nat]

Steps == {"rest", "stopouts"} \union Loops \union {"trade", "place", "save"}
ChildStates == {"none", "working", "filled", "refused", "exit0", "exit1"}

\* before 9:35 or after 16:00, before the entry window, in it, after it, and
\* from force_close_et on
TimesOfDay == 0 .. 4

ClosedTooEarly == IF tod \in {0, 4} THEN "closed" ELSE "ok"

time_gate == IF tod = 0 THEN "closed" ELSE IF tod = 4 THEN "force_close" ELSE "ok"

within_entry_window == tod = 2

Tracked == {s \in Symbols : positions[s].qty > 0}
LiveIds == {o.id : o \in stops}
RowIds == {positions[s].id : s \in Symbols}
IdsInUse == LiveIds \union RowIds \union fills \union {job.row.id}

IsFirst(s, S) == s \in S /\ \A t \in S : s <= t

\* the next order of symbol s gets number n
IsNextOrder(s, n) ==
  /\ <<s, n>> \notin IdsInUse
  /\ \A m \in 1 .. n - 1 : <<s, m>> \in IdsInUse

\* a failure of this kind happens in this step
Fault(kind) ==
  /\ kind \in Faults /\ budget > 0
  /\ budget' = budget - 1 /\ happened' = happened \union {kind}
NoFault == UNCHANGED failures

-----------------------------------------------------------------------------
(* The decisions of position_mgmt.py and entry_scan.                       *)

TrailingStopsLooser(row) == {level \in Levels : level > InitialStop}
TrailingStopsOnLow(row) == {level \in Levels : level > row.stop}

\* swing-low candidates trailing_stop_decision answers "trail_stop" to
TrailingStops(row) == {level \in Levels : level > InitialStop /\ level > row.stop}

CapReachedOffByOne == Cardinality(Tracked) > MaxConcurrent \/ entriesToday >= MaxTrades
CapReachedNoQuota == Cardinality(Tracked) >= MaxConcurrent

CapReached == Cardinality(Tracked) >= MaxConcurrent \/ entriesToday >= MaxTrades

HeldAtBroker(seen) == {s \in Symbols : seen[s] # 0}

\* held_symbols: what the connection shows, and what the rows say
HeldSymbols(seen) == {s \in Symbols : seen[s] # 0} \union Tracked

EntrySizesUnchecked == 0 .. Lot

\* sizes that pass "if size < 1: continue"
EntrySizes == 1 .. Lot

\* ib.positions() is a cache; whether it has caught up with the account by
\* the time it is read is the library's timing
BrokerViews == {view, shares}

Abs(n) == IF n < 0 THEN -n ELSE n

-----------------------------------------------------------------------------
(* Helpers of the cycle.                                                   *)

Init ==
  /\ positions = [s \in Symbols |-> NoRow]
  /\ entriesToday = 0
  /\ enabled = TRUE
  /\ shares = [s \in Symbols |-> 0]
  /\ stops = {} /\ fills = {} /\ strays = {}
  /\ pc = "rest" /\ status = "closed" /\ todo = {} /\ job = NoJob
  /\ child = "none"
  /\ view = [s \in Symbols |-> 0]
  /\ tod = 0
  /\ budget = MaxFaults /\ happened = {}

CancelNothing(s) == UNCHANGED stops

\* _cancel_stop: a request nobody waits for, and none at all when the order is
\* no longer among the connection's trades
CancelStop(s) ==
  stops' = {IF o.id = positions[s].id THEN [o EXCEPT !.ask = "sent"] ELSE o : o \in stops}

\* what is sent for symbol s from now on finds its cancels dealt with
CancelsSettled(s) == \A o \in stops : o.sym = s => o.ask # "sent"

Visited(s) == todo' = todo \ {s}

\* The cycle is over: its connection and everything it held in memory is
\* gone.  Fills of orders no row refers to will not be looked up again.
Rest ==
  /\ pc' = "rest" /\ status' = "closed" /\ todo' = {} /\ job' = NoJob
  /\ child' = "none"
  /\ view' = [s \in Symbols |-> 0]
  /\ fills' = fills \intersect RowIds

SideOfJob == IF job.back = "entries" THEN "BUY" ELSE "SELL"
Signed(side, qty) == IF side = "BUY" THEN qty ELSE -qty

\* spawn trade_exec.py for job j, which returns to the loop at j.back
Spawn(j) == pc' = "trade" /\ child' = "working" /\ job' = j

\* go and place the stop of row r before saving it
GoPlace(s, back, r) == pc' = "place" /\ job' = [sym |-> s, back |-> back, row |-> r]

-----------------------------------------------------------------------------
(* run_cycle, steps 1 and 2: stop-outs, then every open position.          *)

StoppedOutNever == {}
StoppedOutFirst == {s \in Tracked : IsFirst(s, {t \in Tracked : positions[t].id \in fills})}

\* rows whose stop order shows a fill of the last hour
StoppedOut == {s \in Tracked : positions[s].id \in fills}

Connect ==
  /\ pc = "rest" /\ time_gate # "closed"
  /\ status' = time_gate
  /\ view' = shares
  /\ pc' = "stopouts" /\ todo' = StoppedOut
  /\ UNCHANGED <<db, broker, job, child, tod, failures>>

StopOutCancelling(s) ==
  /\ pc = "stopouts" /\ IsFirst(s, todo)
  /\ positions' = [positions EXCEPT ![s] = NoRow]
  /\ CancelStop(s)
  /\ Visited(s)
  /\ UNCHANGED <<entriesToday, enabled, shares, fills, strays, pc, status, job, child, view, tod, failures>>

StopOut(s) ==
  /\ pc = "stopouts" /\ IsFirst(s, todo)
  /\ positions' = [positions EXCEPT ![s] = NoRow]
  /\ Visited(s)
  /\ UNCHANGED <<entriesToday, enabled, broker, pc, status, job, child, view, tod, failures>>

BeginManage ==
  /\ pc = "stopouts" /\ todo = {}
  /\ pc' = "manage" /\ todo' = Tracked
  /\ UNCHANGED <<db, broker, status, job, child, view, tod, failures>>

\* no price, or no risk to measure it by
ManageHold(s) ==
  /\ pc = "manage" /\ IsFirst(s, todo)
  /\ Visited(s)
  /\ UNCHANGED <<db, broker, pc, status, job, child, view, tod, failures>>

\* the stop stays where it is; the trailing trigger may have been cleared
ManageSave(s) ==
  /\ pc = "manage" /\ IsFirst(s, todo)
  /\ \E cleared \in BOOLEAN :
       positions' = [positions EXCEPT ![s].trail = @ \/ cleared]
  /\ Visited(s)
  /\ UNCHANGED <<entriesToday, enabled, broker, pc, status, job, child, view, tod, failures>>

\* trailing (just activated, or active): the old stop is to be cancelled,
\* PlaceStop and Upsert follow
ManageTrail(s) ==
  /\ pc = "manage" /\ IsFirst(s, todo)
  /\ \E level \in TrailingStops(positions[s]) :
       GoPlace(s, "manage", [positions[s] EXCEPT !.stop = level, !.trail = TRUE])
  /\ CancelStop(s)
  /\ UNCHANGED <<db, shares, fills, strays, status, todo, child, view, tod, failures>>

\* _place_stop; its ib.sleep(1) also lets the connection catch up
PlaceStop ==
  /\ pc = "place" /\ CancelsSettled(job.sym)
  /\ \E n \in 1 .. MaxOrders :
       /\ IsNextOrder(job.sym, n)
       /\ job' = [job EXCEPT !.row.id = <<job.sym, n>>]
       /\ \/ /\ stops' = stops \union
                   {[id |-> <<job.sym, n>>, sym |-> job.sym, qty |-> job.row.qty,
                     level |-> job.row.stop, ask |-> "none"]}
             /\ NoFault
          \/ Fault("deadstop") /\ UNCHANGED stops
  /\ view' = shares
  /\ pc' = "save"
  /\ UNCHANGED <<db, shares, fills, strays, status, todo, child, tod>>

\* upsert_position, and on to the next row of the loop
Upsert ==
  /\ pc = "save"
  /\ positions' = [positions EXCEPT ![job.sym] = job.row]
  /\ Visited(job.sym)
  /\ pc' = job.back /\ job' = NoJob
  /\ UNCHANGED <<entriesToday, enabled, broker, status, child, view, tod, failures>>

-----------------------------------------------------------------------------
(* run_cycle, steps 3 and 4: entries.                                      *)

EntriesOpen == enabled /\ within_entry_window /\ ~CapReached

SkipEntries ==
  /\ pc = "manage" /\ todo = {} /\ status = "ok" /\ ~EntriesOpen
  /\ Rest
  /\ UNCHANGED <<db, shares, stops, strays, tod, failures>>

\* any set of passing, fresh scan rows may be waiting
BeginEntries ==
  /\ pc = "manage" /\ todo = {} /\ status = "ok" /\ EntriesOpen
  /\ pc' = "entries"
  /\ \E seen \in BrokerViews, rows \in SUBSET Symbols : todo' = rows \ HeldSymbols(seen)
  /\ UNCHANGED <<db, broker, status, job, child, view, tod, failures>>

EntryBuy(s) ==
  /\ pc = "entries" /\ IsFirst(s, todo) /\ ~CapReached
  /\ \E size \in EntrySizes :
       Spawn([sym |-> s, back |-> "entries", row |-> [NoRow EXCEPT !.qty = size]])
  /\ UNCHANGED <<db, broker, status, todo, view, tod, failures>>

EntryFilled ==
  /\ pc = "trade" /\ job.back = "entries" /\ child = "exit0"
  /\ GoPlace(job.sym, "entries", [job.row EXCEPT !.stop = HardStop])
  /\ child' = "none"
  /\ UNCHANGED <<db, broker, status, todo, view, tod, failures>>

\* trade_exec failed: whatever position the connection shows is taken over,
\* at its average cost, which need not lie above initial_stop
EntryRecovered ==
  /\ pc = "trade" /\ job.back = "entries" /\ child = "exit1"
  /\ \E seen \in BrokerViews, level \in Levels :
       /\ seen[job.sym] # 0
       /\ GoPlace(job.sym, "entries", [job.row EXCEPT !.qty = Abs(seen[job.sym]), !.stop = level])
  /\ child' = "none"
  /\ UNCHANGED <<db, broker, status, todo, view, tod, failures>>

EntryRefused ==
  /\ pc = "trade" /\ job.back = "entries" /\ child = "exit1"
  /\ \E seen \in BrokerViews : seen[job.sym] = 0
  /\ Visited(job.sym)
  /\ pc' = "entries" /\ job' = NoJob /\ child' = "none"
  /\ UNCHANGED <<db, broker, status, view, tod, failures>>

EndEntries ==
  /\ pc = "entries" /\ (todo = {} \/ CapReached)
  /\ Rest
  /\ UNCHANGED <<db, shares, stops, strays, tod, failures>>

-----------------------------------------------------------------------------
(* run_cycle, step 5: force_close_all.                                     *)

BeginClose ==
  /\ pc = "manage" /\ todo = {} /\ status = "force_close"
  /\ pc' = "close" /\ todo' = Tracked
  /\ UNCHANGED <<db, broker, status, job, child, view, tod, failures>>

CloseSell(s) ==
  /\ pc = "close" /\ IsFirst(s, todo)
  /\ CancelStop(s)
  /\ Spawn([sym |-> s, back |-> "close", row |-> positions[s]])
  /\ UNCHANGED <<db, shares, fills, strays, status, todo, view, tod, failures>>

ClosedAnyway(seen) == TRUE

\* closed: trade_exec said so, or the connection shows no position
Closed(seen) == child = "exit0" \/ seen[job.sym] = 0

CloseConfirmed ==
  /\ pc = "trade" /\ job.back = "close" /\ child \in {"exit0", "exit1"}
  /\ \E seen \in BrokerViews : Closed(seen)
  /\ positions' = [positions EXCEPT ![job.sym] = NoRow]
  /\ Visited(job.sym)
  /\ pc' = "close" /\ job' = NoJob /\ child' = "none"
  /\ UNCHANGED <<entriesToday, enabled, broker, status, view, tod, failures>>

\* still holding: the stop is re-armed where it was, PlaceStop and Upsert follow
CloseFailedUnarmed ==
  /\ pc = "trade" /\ job.back = "close" /\ child = "exit1"
  /\ \E seen \in BrokerViews : ~Closed(seen)
  /\ Visited(job.sym)
  /\ pc' = "close" /\ job' = NoJob /\ child' = "none"
  /\ UNCHANGED <<db, broker, status, view, tod, failures>>

CloseFailed ==
  /\ pc = "trade" /\ job.back = "close" /\ child = "exit1"
  /\ \E seen \in BrokerViews : ~Closed(seen)
  /\ GoPlace(job.sym, "close", job.row)
  /\ child' = "none"
  /\ UNCHANGED <<db, broker, status, todo, view, tod, failures>>

EndClose ==
  /\ pc = "close" /\ todo = {}
  /\ Rest
  /\ UNCHANGED <<db, shares, stops, strays, tod, failures>>

-----------------------------------------------------------------------------
(* trade_exec.py: place one market order, wait for it, record it, exit.    *)

Deliver(side, s, qty) == shares' = [shares EXCEPT ![s] = @ + Signed(side, qty)]

OrderFills ==
  /\ child = "working" /\ CancelsSettled(job.sym)
  /\ Deliver(SideOfJob, job.sym, job.row.qty)
  /\ child' = "filled"
  /\ UNCHANGED <<db, stops, fills, strays, pc, status, todo, job, view, tod, failures>>

\* rejected or cancelled, or never placed because connecting failed
OrderRefused ==
  /\ child = "working"
  /\ child' = "refused"
  /\ UNCHANGED <<db, broker, pc, status, todo, job, view, tod, failures>>

\* the trades row of a Filled BUY is what count_todays_entries counts
CountEntry == IF SideOfJob = "BUY" THEN entriesToday' = entriesToday + 1
                                   ELSE UNCHANGED entriesToday

RecordFilled ==
  /\ child = "filled"
  /\ CountEntry
  /\ child' = "exit0"
  /\ UNCHANGED <<positions, enabled, broker, pc, status, todo, job, view, tod, failures>>

RecordRefused ==
  /\ child = "refused"
  /\ child' = "exit1"
  /\ UNCHANGED <<db, broker, pc, status, todo, job, view, tod, failures>>

\* The process lets go of an order of which `done' shares were delivered.
\* Every such step spends budget, so `no' tells two equal orders apart.
LetGo(done) ==
  strays' = strays \union
              {[side |-> SideOfJob, sym |-> job.sym, qty |-> job.row.qty - done, no |-> budget]}

\* isDone() is still false at SETTLED_STATUSES_TIMEOUT: exit 1, order working
RecordLate ==
  /\ child = "working" /\ CancelsSettled(job.sym) /\ Fault("late")
  /\ \E done \in 0 .. job.row.qty - 1 :
       Deliver(SideOfJob, job.sym, done) /\ LetGo(done)
  /\ child' = "exit1"
  /\ UNCHANGED <<db, stops, fills, pc, status, todo, job, view, tod>>

\* the connection raises while the order works: exit 1, nothing recorded
TradeExecDies ==
  /\ child = "working" /\ Fault("crash")
  /\ LetGo(0)
  /\ child' = "exit1"
  /\ UNCHANGED <<db, shares, stops, fills, pc, status, todo, job, view, tod>>

\* exit 1 although the order filled: the trades insert raises, or the fill is
\* recorded and then shows no price, or disconnecting raises
FillMisreported ==
  /\ child = "filled" /\ Fault("crash")
  /\ CountEntry \/ UNCHANGED entriesToday
  /\ child' = "exit1"
  /\ UNCHANGED <<positions, enabled, broker, pc, status, todo, job, view, tod>>

-----------------------------------------------------------------------------
(* The broker, the clock, the dashboard, failures.                         *)

\* fills of orders that neither a row nor the running cycle names are not kept
Noticed(id) == IF id \in RowIds \union {job.row.id} THEN {id} ELSE {}

\* a stop order may fill until its cancel takes effect
StopFills(o) ==
  /\ IF pc = "rest" THEN NoFault ELSE Fault("race")
  /\ Deliver("SELL", o.sym, o.qty)
  /\ stops' = stops \ {o}
  /\ fills' = fills \union Noticed(o.id)
  /\ UNCHANGED <<db, strays, process, tod>>

\* between cycles or within one: the rest of the order stays live
StopFillsPartly(o) ==
  /\ o.qty > 1 /\ Fault("partial")
  /\ Deliver("SELL", o.sym, 1)
  /\ stops' = (stops \ {o}) \union {[o EXCEPT !.qty = @ - 1]}
  /\ fills' = fills \union Noticed(o.id)
  /\ UNCHANGED <<db, strays, process, tod>>

\* the broker acts on a cancel, in time or late
CancelTakes(o) ==
  /\ o.ask # "none"
  /\ stops' = stops \ {o}
  /\ UNCHANGED <<db, shares, fills, strays, process, tod, failures>>

\* the order stays live beside what is sent next
CancelFails(o) ==
  /\ o.ask = "sent" /\ Fault("cancel")
  /\ stops' = (stops \ {o}) \union {[o EXCEPT !.ask = "late"]}
  /\ UNCHANGED <<db, shares, fills, strays, process, tod>>

StrayFills(o) ==
  /\ Deliver(o.side, o.sym, o.qty)
  /\ strays' = strays \ {o}
  /\ UNCHANGED <<db, stops, fills, process, tod, failures>>

StrayDies(o) ==
  /\ strays' = strays \ {o}
  /\ UNCHANGED <<db, shares, stops, fills, process, tod, failures>>

FillsUnread == fills \intersect RowIds # {}

\* the cycles of a whole hour are missed: no Gateway, no approval, no process
HourPasses ==
  /\ pc = "rest" /\ FillsUnread /\ Fault("outage")
  /\ fills' = {}
  /\ UNCHANGED <<db, shares, stops, strays, process, tod>>

\* From one time of day to the next.  At the close, market orders (DAY) die
\* and the day's fills age; without an outage every one has been read.  No
\* cycle lasts overnight.  The count of entries goes by the server's own date.
Tick ==
  /\ tod' = (tod + 1) % 5
  /\ IF tod = 4
       THEN /\ IF FillsUnread THEN Fault("outage") ELSE NoFault
            /\ fills' = {} /\ strays' = {}
       ELSE NoFault /\ UNCHANGED <<fills, strays>>
  /\ tod = 0 => pc = "rest"
  /\ entriesToday' = IF tod = DateChange THEN 0 ELSE entriesToday
  /\ UNCHANGED <<positions, enabled, shares, stops, process>>

ToggleTrading ==
  /\ enabled' = ~enabled
  /\ UNCHANGED <<positions, entriesToday, broker, process, tod, failures>>

\* The cycle raises, or the process dies.  A market order already sent goes
\* on without anyone waiting for it.
Abort ==
  /\ pc # "rest"
  /\ Fault("crash") \/ (pc = "trade" /\ child \in {"working", "filled"} /\ Fault("timeout"))
  /\ Rest
  /\ IF child = "working" THEN LetGo(0) \/ UNCHANGED strays ELSE UNCHANGED strays
  /\ UNCHANGED <<db, shares, stops, tod>>

-----------------------------------------------------------------------------
CycleStep ==
  \/ Connect \/ BeginManage \/ PlaceStop \/ Upsert
  \/ SkipEntries \/ BeginEntries \/ EntryFilled \/ EntryRecovered \/ EntryRefused \/ EndEntries
  \/ BeginClose \/ CloseConfirmed \/ CloseFailed \/ EndClose
  \/ \E s \in Symbols : StopOut(s) \/ ManageHold(s) \/ ManageSave(s) \/ ManageTrail(s)
                        \/ EntryBuy(s) \/ CloseSell(s)

TradeExecStep ==
  \/ OrderFills \/ OrderRefused \/ RecordFilled \/ RecordRefused
  \/ RecordLate \/ TradeExecDies \/ FillMisreported

BrokerStep ==
  \/ \E o \in stops : StopFills(o) \/ StopFillsPartly(o) \/ CancelTakes(o) \/ CancelFails(o)
  \/ \E o \in strays : StrayFills(o) \/ StrayDies(o)

Next == CycleStep \/ TradeExecStep \/ BrokerStep \/ HourPasses \/ Tick \/ ToggleTrading \/ Abort

Spec == Init /\ [][Next]_vars

\* a cancel on its way is dealt with
CancelDealtWith == \E o \in stops : o.ask = "sent" /\ (CancelTakes(o) \/ CancelFails(o))

\* main runs cycle after cycle and every subprocess ends by itself; the broker
\* deals with the cancels it is sent, and not for ever only after the market
\* order behind them failed; a liquid market does not refuse the same market
\* order for ever.  Nothing is assumed of cancels that failed, the clock, the
\* user or the failures.
FairSpec ==
  /\ Spec
  /\ WF_vars(CycleStep) /\ WF_vars(TradeExecStep)
  /\ WF_vars(CancelDealtWith)
  /\ SF_vars(child = "working" /\ CancelDealtWith) /\ SF_vars(OrderFills)

-----------------------------------------------------------------------------
(* Properties.                                                             *)

\* Every variable stays within its type; a job whose stop is about to be
\* placed or saved names a symbol and at least one share, and only a job
\* that runs trade_exec has a child.
TypeOK ==
  /\ positions \in [Symbols -> Row]
  /\ entriesToday \in Nat
  /\ enabled \in BOOLEAN
  /\ shares \in [Symbols -> Int]
  /\ stops \subseteq StopOrder
  /\ fills \subseteq OrderId
  /\ strays \subseteq MarketOrder
  /\ pc \in Steps
  /\ status \in {"closed", "ok", "force_close"}
  /\ todo \subseteq Symbols
  /\ job \in Job
  /\ pc \in {"trade", "place", "save"} => job.sym \in Symbols /\ job.row.qty > 0
  /\ child \in ChildStates
  /\ child # "none" => pc = "trade"
  /\ view \in [Symbols -> Int]
  /\ tod \in TimesOfDay
  /\ budget \in Nat /\ happened \subseteq FaultKinds

\* Whatever fails, the user never has more than max_concurrent_positions
\* rows (entry_scan's two checks), although the row is written two broker
\* calls and a subprocess after the check.
AtMostMaxConcurrent == Cardinality(Tracked) <= MaxConcurrent

\* Whatever fails, no more than max_trades_per_day entries of one day are
\* recorded, although trade_exec, not the process that checks the quota,
\* records them.
DailyQuota == entriesToday <= MaxTrades

\* As long as a symbol keeps its row, its stop_price never goes down and
\* trailing, once active, stays active (trailing_stop_decision: "never
\* loosens an already-better stop"), aborted and repeated cycles included.
StopNeverLoosens ==
  [][\A s \in Symbols :
       positions[s].qty > 0 /\ positions'[s].qty > 0 =>
         /\ positions'[s].stop >= positions[s].stop
         /\ positions[s].trail => positions'[s].trail]_positions

\* order o protects the row of s the way the row says, and is to stay
ProtectedBy(s, o) ==
  /\ o.id = positions[s].id /\ o.sym = s /\ o.ask = "none"
  /\ o.qty = positions[s].qty /\ o.level = positions[s].stop

\* What happened so far is of these kinds.
Only(kinds) == happened \subseteq kinds

\* Without failures, between cycles, the database and the broker agree: every
\* row stands for shares held under exactly one live stop order, its own, at
\* its stop_price - or for a stop-out the next cycle will read; nothing is
\* held or live for a symbol without a row; no market order is still working.
RestConsistent ==
  pc = "rest" /\ Only({}) =>
    /\ strays = {}
    /\ \A s \in Symbols :
         LET own == {o \in stops : o.sym = s} IN
         IF s \in Tracked /\ positions[s].id \notin fills
           THEN /\ shares[s] = positions[s].qty
                /\ Cardinality(own) = 1 /\ \A o \in own : ProtectedBy(s, o)
           ELSE shares[s] = 0 /\ own = {}

\* After step 1 of a tick no row is left whose stop had filled by the time
\* the cycle connected: everything managed or force-closed next is held
\* ("Stop-outs - always").
NoPhantomAfterStopOuts ==
  pc = "manage" /\ todo = Tracked =>
    \A s \in todo : view[s] >= positions[s].qty

\* That holds as long as stops fill whole, between cycles, and are read
\* within the hour, also when stop orders are refused.
NoPhantomUnlessMissed == Only({"deadstop"}) => NoPhantomAfterStopOuts

\* A share held between cycles always has a row and, under the id the row
\* stores, a live stop order that covers it and that nobody asked to cancel -
\* also when stops fill in the middle of a cycle, old ones beside their
\* replacements after a failed cancel, and when fills go unread.
HeldSharesProtected ==
  pc = "rest" /\ Only({"race", "cancel", "outage"}) =>
    \A s \in Symbols : shares[s] > 0 =>
      /\ shares[s] <= positions[s].qty
      /\ \E o \in stops :
           o.id = positions[s].id /\ o.sym = s /\ o.ask = "none" /\ o.qty >= shares[s]

\* A refused stop order costs the protection, not the row: between cycles no
\* more is held than the rows say, so the force close will sell it.
RefusedStopKeepsRow ==
  pc = "rest" /\ Only({"race", "cancel", "outage", "deadstop"}) =>
    \A s \in Symbols : shares[s] <= positions[s].qty

\* A stop order that fills in part costs the row, not the protection: at every
\* moment some live stop order that nobody asked to cancel covers what is held,
\* except of the one symbol whose stop is just being replaced, or whose market
\* order is on its way.
PartialFillKeepsStop ==
  Only({"race", "cancel", "outage", "partial"}) =>
    \A s \in Symbols : shares[s] > 0 =>
      \/ pc \in {"trade", "place"} /\ s = job.sym
      \/ \E o \in stops : o.sym = s /\ o.ask = "none" /\ o.qty >= shares[s]

\* Every live stop order that nobody asked to cancel is the one its symbol's
\* row stores, or the one just placed and about to be stored, unless a cycle
\* dies between the two or one execution of several removes the row.  An order
\* that could sell shares nobody tracks any more, or a second one for the same
\* position, is therefore one whose cancel failed or has yet to take effect.
StopsAreOwned ==
  Only(FaultKinds \ {"crash", "partial"}) =>
    \A o \in stops : o.ask = "none" =>
      \/ o.sym \in Tracked /\ positions[o.sym].id = o.id
      \/ pc = "save" /\ job.sym = o.sym /\ job.row.id = o.id

\* force_close_all drops a row only when nothing is held any more, also when
\* its stop fills, whole or in part, after the cancel was asked for, or the
\* cancel fails, or the sale is refused and the connection's view of the
\* account lags behind; only shares that an order nobody waited for delivered
\* can be left.
ClosedMeansNotHeld ==
  [][\A s \in Symbols :
       Only(FaultKinds \ {"late", "timeout", "crash"})
         /\ pc = "trade" /\ positions[s].qty > 0 /\ positions'[s].qty = 0 =>
         shares[s] <= 0]_vars

\* The account makes whole round trips: as long as stops fill whole, between
\* cycles, and are read within the hour, a symbol's shares are bought from none,
\* at most the size entry_scan computed, while fewer than
\* max_concurrent_positions symbols are held, and are sold all at once, by its
\* stop or the force close but never by both.
WholeRoundTrips ==
  [][Only({"deadstop"})' =>
       \A s \in Symbols : shares'[s] # shares[s] =>
         \/ /\ shares[s] = 0 /\ shares'[s] \in 1 .. Lot
            /\ Cardinality(HeldAtBroker(shares)) < MaxConcurrent
         \/ shares[s] > 0 /\ shares'[s] = 0]_vars

\* The strategy is long_only: the account is never short.
NeverShort == \A s \in Symbols : shares[s] >= 0

\* Between cycles, shares that are held have a row ("a non-zero exit tells
\* the caller no position was opened").
HeldSharesTracked ==
  pc = "rest" => \A s \in Symbols : shares[s] > 0 => s \in Tracked

\* "will retry next cycle": as long as the clock stays in the force-close
\* window every row is eventually gone, also after crashes, timeouts, late
\* fills, missed hours and refused stops inside the window; and its shares are
\* gone with it, unless an order nobody waited for, or the rest of a stop order
\* that filled in part, is behind them.
ForceCloseFlattens ==
  \A s \in Symbols :
    (tod = 4 /\ s \in Tracked) ~>
      \/ tod # 4
      \/ s \notin Tracked /\ (Only({"race", "outage", "deadstop"}) => shares[s] <= 0)

\* A stop-out leads to its row being removed, as long as the trading day
\* lasts, whatever crashes, times out or arrives late meanwhile.
StopOutsNoticed ==
  \A s \in Symbols :
    (s \in Tracked /\ positions[s].id \in fills) ~>
      \/ tod = 0 \/ s \notin Tracked
      \/ ~Only(FaultKinds \ {"race", "outage", "partial"})

-----------------------------------------------------------------------------
\* The two tables, seen as the abstract book.
Ledger == INSTANCE PositionLedger WITH
  book <- [s \in Symbols |-> [open |-> positions[s].qty > 0,
                              stop |-> positions[s].stop,
                              trail |-> positions[s].trail]],
  used <- entriesToday

\* Whatever fails, the tables implement the ledger: every row is opened
\* within the cap, rises only by a tightening of its stop and is closed
\* whole, and every counted entry is within the quota.
LedgerSpec == Ledger!Spec

=============================================================================
