# A verification project for TradingBotMulti

TradingBotMulti trades one fixed strategy (ORB Long v4.2) for several users,
each through their own Interactive Brokers (IBKR) account. This directory holds
TLA+ modules translated from its source, TLC configurations that model-check
them, and TLAPS proofs of the main theorems. `PROJECT.json` maps every
definition to the lines it stands for and lists runs, mutants, findings,
hazards and theorems. Paths below are relative to the repository.

## 1. The system

Four kinds of processes run on one server and share one SQLite file
(`src/db.py`, WAL mode, one short transaction per call) and nothing else:

| component | source | state it keeps | operations |
|---|---|---|---|
| Executor, one per user | `executor.py`, `src/position_mgmt.py` | rows of `positions`; within a cycle a list of them, a broker connection and its caches | every minute `run_cycle`: stop-outs, manage and trail, entries, force close |
| trade_exec | `trade_exec.py`, `src/ibkr_client.py` | one market order; a row of `trades` | a subprocess per market order: place, wait up to 20 s, record, exit 0 or 1 |
| Scanner, one | `scanner.py`, `src/strategy.py`, `src/market_data.py` | `scan_results`, `scan_status` | every minute `run_scan_tick`: gap filter, evaluate survivors, upsert, trim |
| Dashboard, one, a thread per request | `web/app.py`, `web/auth.py` | users, credentials, settings, sessions | login, account administration, settings, connect, resume, disconnect, status |
| Gateway provisioning | `src/gateway_provisioning.py`, `src/systemd_util.py`, `deploy/` | `user_gateway`, `config-<id>-live.ini`, two systemd units per user | assign a port, write the ini file, start and stop units |
| Gateway, one per user | IBKR's program (external) | the login, the account, live orders | listens on the port its ini file names |

How they interact: the Scanner writes rows the Executors read, with only the
time stamp of a row to say how old it is. An Executor starts a `trade_exec`
process for every market order and learns its outcome from the exit code and
from its own connection's cached view of the account; the broker fills stop
orders whenever it likes. The dashboard starts and stops an Executor and its
Gateway through systemd, and toggles `trading_enabled` under a running cycle.
Both the dashboard and the Executor assign ports, and both create rows of
`user_settings`.

What is hard in it: the broker acts between any two steps of a cycle; a market
order has two timeouts (20 s in the child, 40 s in the parent) and may fill
after either; a crash between two of cancel / place / save is never repaired by
start-up code; a cancelled stop may fill or stay live, since nobody waits for
the cancel; caps are checked by one process and counted from rows another
one writes; freshness depends on clocks and on the length of ticks; signals are
evaluated on bars that still change, and prices are asked for twice; requests
interleave between the statements of `get_or_assign_gateway_port`, between the
systemctl calls of connect and disconnect, and between the check that admits
them and the row they write.

What makes each part correct:

* **Executor**: every share held has a row and a live stop order under the id
  the row stores; no live order without an owner that was not asked to go; a row goes only when its
  shares are gone; caps and quota hold whatever fails; stops only rise;
  stop-outs are noticed and the force close empties the book.
* **Strategy arithmetic**: what can be lost at the stop is bounded by the
  configured risk, a retest needs a break by a finished bar, trailing is earned
  by prices traded since the purchase, a stop is raised to no more than what
  the market was at when the bars were read or has been at since.
* **Scanner and board**: no order follows a stale signal, a live signal does
  not expire, rows of symbols that no longer qualify go.
* **Provisioning**: an Executor reaches its own user's account only, and finds
  its Gateway when that is up; a port is permanent.
* **Accounts**: a name is one user; settings and engines keep to their users;
  rights are those of the moment; the last admin goes only by their own doing,
  or by a request of somebody who was an admin when it was admitted (so two
  admins who delete each other at once may both succeed).

## 2. The modules

| module | models |
|---|---|
| `Executor` | `executor.py`, `trade_exec.py`, `ibkr_client.py`, `position_mgmt.py`, the tables `positions` and `trades`, the broker account |
| `PositionLedger` | the abstract specification the two tables implement; `Executor` and `TradingDay` refine it |
| `OrbStrategy` | the arithmetic of `strategy.py`, of `entry_scan`'s sizes and of `position_mgmt.py`, as operators |
| `TradingDay` | one symbol's day: bars that grow, the Scanner's verdicts, the Executor's purchase and trailing, with those operators |
| `ScanBoard` | `scanner.py`, the table `scan_results`, and `entry_scan`'s reading of it, with a clock |
| `PortRegistry` | the abstract specification `user_gateway` and its callers implement; `Gateway` refines it |
| `Gateway` | the dashboard's request threads, `gateway_provisioning.py`, `user_gateway` and the systemd units |
| `Accounts` | `web/auth.py`, the handlers of `web/app.py` that change users and settings, `users`, `user_settings`, and what an Executor reads of them |
| `ExecutorProofs`, `ExecutorAccountProofs` | the theorems about `Executor`: its tables, and the tables against the account |
| `TradingDayProofs`, `TradingDaySignalProofs` | the theorems about `TradingDay`: risk and trailing, and the signals |
| `ScanBoardProofs`, `GatewayProofs`, `AccountsProofs` | the theorems about the other components |
| `MCExecutor`, `MCTradingDay`, `MCScanBoard`, `MCGateway`, `MCAccounts` | instances for TLC |

### Executor

`pc` is the step `run_cycle` is at; `"rest"` is the sleep of `main`. Loops over
positions or candidates keep the symbols they have still to visit in `todo`,
visited in the order of the queries' `ORDER BY symbol`. A step that talks to the
broker, to the child or to the database is one action, and the broker, the
clock, the user or a failure may act before the next:

| code | actions |
|---|---|
| `run_cycle` up to reading the rows | `Connect` |
| `check_stop_outs` | `StopOut` per row whose stop shows a fill |
| `manage_position` | `ManageHold`, `ManageSave`, or `ManageTrail`, `PlaceStop`, `Upsert` |
| `entry_scan` | `BeginEntries`, `EntryBuy`, the child, then `EntryFilled` or `EntryRecovered` with `PlaceStop` and `Upsert`, or `EntryRefused`; `EndEntries`, `SkipEntries` |
| `force_close_all` | `BeginClose`, `CloseSell`, the child, then `CloseConfirmed`, or `CloseFailed` with `PlaceStop` and `Upsert`; `EndClose` |
| `trade_exec.py` | `OrderFills`, `OrderRefused`, `RecordFilled`, `RecordRefused`, `RecordLate`, `TradeExecDies`, `FillMisreported` |
| the exception handler, a dead process | `Abort` |
| the broker | `StopFills`, `StopFillsPartly`, `CancelTakes`, `CancelFails`, `StrayFills`, `StrayDies` |
| surroundings | `Tick` (time of day), `HourPasses`, `ToggleTrading` |

An Executor is the only writer of its user's rows, so its list in memory equals
the table except for the row being worked on, which is `job`. Prices are the
rung a stop stands on; whether the trailing trigger is cleared, how an entry is
sized and where the swing low lies are free choices within the guards of the
code (`TradingDay` has the numbers). `ib.positions()` is either the view last
received or the account as it is (`BrokerViews`). A failed connection is a cycle
that does nothing. Order ids are numbered per symbol and a forgotten one is used
again, which keeps the state space finite without letting two orders that matter
share one.

A cancel is a request. `_cancel_stop` returns at once, so `CancelStop` only
marks the order (`ask = "sent"`); it stays live, and may fill, until the broker
takes the cancel (`CancelTakes`). What the code sends next about the same symbol,
a stop (`PlaceStop`) or the child's market order (`OrderFills`, `RecordLate`),
reaches the broker after that (`CancelsSettled`): `_place_stop` asks for the
contract on the same connection first and waits for the answer, and
`trade_exec.py` has to start, connect and ask before it sends. That is an
assumption about IBKR, so the failure `cancel` breaks it: the cancel was never
sent (`_find_order` found nothing), or was refused, or was overtaken; the old
order is then live beside what follows (`ask = "late"`) until it fills or goes.

Failures have kinds (`FaultKinds`), each cfg enables some, and `MaxFaults`
bounds how many happen: `race` (a stop fills during a cycle, before its cancel
or after it), `cancel` (a cancel without effect), `outage` (a fill
is over an hour old when next looked for), `late` (an order outlives the child's
deadline), `timeout` (the parent's 40 s), `crash`, `deadstop` (a refused stop
order), `partial` (a stop order fills share by share). The variable `happened`
is history, the kinds met so far; `Only(kinds)` in a property says which ones it
tolerates, so that one run with every kind of failure checks each property under
all the failures the code survives. One time of day stands for each window of
`time_gate` and `_within_entry_window`. No cycle spans the night. The count of
entries goes by the server's own date (`count_todays_entries`), so it starts
anew with whichever time of day `DateChange` says; the theorems hold for each.

### OrbStrategy and TradingDay

Prices are integers; percentages and multiples of a risk are counted in
ten-thousandths (`Whole`), so the shipped `min_stop_distance_pct` of 0.25 is 25.
A bar is numbered by its five minutes (`slot`). `TradingDay` gives the market
every freedom between the steps of the program: `FirstTrade` and `Trade` build
the bars, of which the last is always in progress, slots may pass without a
trade (their bar is then missing), and everything else looks at whatever the
bars are then: `Scan`, the purchase, and the three requests of
`manage_position`, which are `ManagePrice` (the last price, MFE and the trigger),
`ManageBars` (the bars and the decision) and `PlaceStop` (cancel, contract, new
order, row), with the market moving between each two. The old stop may fill
(`StopFills`) at any of these points; `resting` says whether the order the row
names still stands, and `StopOut` is step 1 of a later cycle. The fill is at the
last price while the entry price kept is the signal's (`EntryFilled`) or, after
a recovery, the fill's, for whatever number of shares the broker shows
(`EntryRecovered`). A row serves in the slot it was written in and the next,
which contains the two minutes it is read for. What else `Executor` treats step
by step (an entry with its orders, the force close) is one action here, and
failures are left to it. `deal` is history: the signal's price, the price paid,
the best price since, and the highest since the bars were downloaded.

### ScanBoard

`now` is Eastern Time, in units of 30 seconds in the configurations. A tick of
the Scanner takes up to `ScanTime`, an order with its stop up to `EntryTime`;
both are assumptions (yfinance is called without a timeout). A row has the stamp
the code writes, `now + ZoneLead`, and, for the properties only, when its data
was looked at. `Evaluate` gives any verdict, or none. `TickRaises`,
`ScannerDies` and `ScannerRestarts` happen anywhere in a tick, `MaxFaults` times.
A dead Scanner need not come back. `main` sleeps what is left of the interval
and `MinPause` at least, also after a tick that overran (`NextWake`); it is a
second in the code and a whole unit in the configurations, which is worse.
`trimmed` is history: which symbols the last complete trim kept, and when.

### Gateway

A request is a record with the step its thread is at; each transaction, file
write and systemctl call is one step, so that two requests, or a request and an
Executor's own port lookup, interleave as the server's threads do. A unit is
stopped, logging in, or up; it listens on the port its ini file named when it
was started. `Requires=` makes `StartExecutor` start the Gateway and
`StopGateway` stop the Executor along with it, so a click on "start" in the
middle of a disconnect is undone by systemd, not by the order of disconnect's
own stops; no property is stated about that order. Any systemctl call may fail or be given up on
after it took effect. `CarefulAdmin` is a rule for the operator, not code: users
are deleted only while their Gateway is stopped and no request of theirs runs.

`PortRegistry` is what `get_or_assign_gateway_port` promises, as one step: `Look`
hands out the user's port, `Assign` a free one where there is none. `Gateway`
implements it with three statements a call (`LookPort`, `PickPort`, `InsertPort`
or `InsertFails`); the step that counts is the SELECT that finds a row, or the
INSERT. A thread's entry in `handed` is the port a connect works with until it
answers (`HandedTo`).

### Accounts

A request passes `admit` (the cookie's name is looked up: `require_user` or
`require_admin`), for some operations `check` (the name is free, the target's
row is read), and `write`; each is a transaction, and any other request or an
engine may act in between. `CheckSetup` and `CheckName` come before a password
is hashed, which takes long. `ReadTarget` and `SetActive` are the two halves of
`toggle_active`. `HasOwner` is the foreign key with which a late write for a
deleted user fails. An engine is the process of `executor@<id>`: it reads its
user once (`EngineStarts`), and in a cycle the settings once (`ReadSettings`),
some time after the cycle began. Two variables are history: `entitled` in a
request (its author might have changed `users` at some time since it came in)
and `trading` in an engine (trading was enabled at some time in this cycle).

## 3. The runs

| run | instance | distinct states | shows |
|---|---|---|---|
| `faulty` | 2 symbols, 1 slot, lots of 2, 1 failure of any kind | 3.4 M | caps, quota, ratchet of stops, a stop filled in part, no orphaned stops, rows go only with their shares, whole round trips, refinement of `PositionLedger` |
| `account` | 2 symbols, 2 slots, lots of 2, 1 failure of the four kinds its properties tolerate | 6.3 M | database and broker agree at rest and after step 1; held shares protected; a refused stop keeps its row |
| `recovery` | 1 symbol, lots of 2, 1 failure of any kind, fair | 0.3 M | the force close's retry and the noticing of stop-outs survive failures |
| `day` | 3 prices, the range and three slots | 1.5 M | signals, sizes, hard stop, trailing with real numbers; refinement of `PositionLedger` |
| `scan_board` | 2 symbols, 1 fault, 7 units of 30 s | 6.0 M | age of signals, freshness of the board, no verdict older than the trim that dropped its symbol |
| `gateway` | 2 users, 2 threads, 3 ports | 0.4 M | own account only, own port, permanent ports, refinement of `PortRegistry` |
| `accounts` | 2 names, 3 ids, 2 threads, 1 engine | 1.8 M | names, settings, engines and rights under interleaved requests |
| `race_short`, `late_fill`, `outage_phantom`, `stale_zone`, `gateway_delete` | small | - | the disagreements of section 5 |

Why the bounds are enough.

* `Executor`: two symbols give the loops an order, one that is being worked on
  and one that is not; a cap of 1 makes them compete for the slot, a cap of 2
  lets both be held. `Lot = 2` lets orders fill in part, in every passing run.
  Three rungs (two in `account` and `recovery`) above the hard stop let a
  trailing stop be raised twice, or from the initial stop. One failure at every
  point is what the hazards need. `account` leaves out the kinds of failure all
  of its properties exclude (`ToleratedFaults` in `MCExecutor`): after one of
  those they say nothing. `DateChange` is the entry window itself in `faulty`,
  so that the count may start anew in the middle of an entry. `MaxOrders` is large enough for
  `PlaceStop` to find a free number in every reachable state of these instances
  (`\E n \in 1 .. MaxOrders : IsNextOrder(job.sym, n)` whenever `pc = "place"`,
  checked when the bounds were set).
* `TradingDay`: three prices leave room for a range, a break of it and a fall
  back, with a stop below the lowest price or between two; the percentages are
  chosen so that floor, multiplier, hard stop and trigger all bite on them (the
  floor is 25 % there, since it has to move a stop by a price of three; the
  theorems have any that is no less than the smallest price difference). Entries are
  made in the second slot after the range, so that a confirming bar may be
  finished or not, and there is one more slot to manage in.
* `ScanBoard`: the day is long enough for a tick, its death, a restart and two
  ticks of another. `MaxAge` is three units, 90 s, tighter than the shipped two
  minutes, and just what an interval of 60 s and a tick of 30 s need. The two
  bounds it checks are tight: with one less in either
  conclusion TLC finds a counterexample.
* `Gateway`: three ports for two users leave one to collide on; the collisions
  of interest need two threads.
* `Accounts`: two names may collide, three ids let a deleted user's name be
  given to another, `Engines = {2}` follows the engine of a user who can be
  deleted and come back under another id, and `MaxBusy = 2` lets two of requests
  and cycles overlap.

Every theorem of section 4 holds for any bounds.

Each property has a mutant: a plausible mistake in one mapped definition (a
dropped guard, a wrong bound, a skipped cancel, a missing UNIQUE) under which
TLC finds the property violated.

Deadlock is checked in every run: nothing in this system ever has to stop.

Fairness. `FairSpec` assumes weak fairness of the cycle's steps (`main` loops
for ever, and every call in a cycle has a timeout or returns), weak fairness of
the child's steps (it waits at most 20 s), weak fairness of `CancelDealtWith`
(the broker answers a cancel one way or the other; that it does so also while a
child waits, and not each time only after its market order failed, is the strong
fairness of the same step with `child = "working"`), and strong fairness of
`OrderFills`: a liquid market does not refuse the same market order for ever.
Nothing is assumed of cancels that failed, the clock, the user, the broker's
stops or the failures, so the liveness properties end with "or the window is
over". The other modules state only
safety.

What the code does not survive, as the properties say with `Only`:
`RestConsistent` needs that nothing failed; `HeldSharesProtected` stands races,
cancels without effect and missed hours, not a refused stop
(`RefusedStopKeepsRow` says what is left then) nor a stop filled in part
(`PartialFillKeepsStop`); `StopsAreOwned` stands everything but a death between
placing and saving and a partial fill, and says nothing of an order whose cancel
was asked for: if that cancel fails, the order is live beside its replacement or
after its row is gone, and when it fills the account is short (another way into
`race_short`); `ClosedMeansNotHeld` stands everything but orders nobody waited
for, also a stop that fills between its cancel and the sale; `WholeRoundTrips`
and `NoPhantomUnlessMissed` a refused stop only, for the rest of the program
takes it that stops fill whole, between cycles, and are read within the hour
(`race_short` and `outage_phantom` show what else may happen). A crash between
cancel and place, or a refused stop, leaves shares without a stop and the code
has nothing against it.

## 4. The proofs

Seven modules of theorems, each for every value of the constants and from the
named assumptions of its module alone (`Spec` without fairness). None of the
invariants is inductive alone; each module strengthens them (to `IInv`, in the
two that build on another to `AccountInv` and `SignalInv`), shows that the
initial states satisfy the strengthening and every action preserves it, and
derives the properties from it. Every invariant and action property of the
passing runs is stated by a theorem.

`ExecutorProofs`: `TypeCorrect`, `ConcurrencyCapped` (`AtMostMaxConcurrent`),
`QuotaKept` (`DailyQuota`), `StopsOnlyTighten` (`StopNeverLoosens`) and
`ImplementsLedger` (`Spec => LedgerSpec`), under any failures. That the cap
holds when a row is written depends on the slot having been free when the order
was sent and on nobody taking it since; that a trailing stop rises depends on
the row in the table being the one the job started from. `IInv` says so:

* `RowsWhole`: a row without shares is no row at all;
* `VisitsRows`: the loops over positions have only existing rows left to visit,
  the loop over candidates only symbols without one, and the job's symbol is the
  one being visited;
* `JobTightens`: a job outside entries keeps the stop, or raises it with trailing on;
* `JobHasSlot`: while an entry is under way fewer than the cap are tracked, and
  while its child may still record it, fewer than the quota are counted;

together with `TypeOK`, `AtMostMaxConcurrent` and `DailyQuota`. The refinement
maps a row to an entry of the book; `OneRowChanges` and `CountChanges` reduce a
step of the Executor to at most one row or the count, and `LedgerStep` names the
ledger's action.

`ExecutorAccountProofs` relates the tables to the broker's account, that is, to
what nobody but the broker changes between two steps: `StopsOwned`
(`StopsAreOwned`), `HeldProtected` (`HeldSharesProtected`),
`RefusedStopsKeepRows` (`RefusedStopKeepsRow`), `PartialFillsKeepStops`
(`PartialFillKeepsStop`), `RestIsConsistent` (`RestConsistent`), `NoPhantomRows`
(`NoPhantomUnlessMissed`), `ClosedRowsNotHeld` (`ClosedMeansNotHeld`),
`RoundTrips` (`WholeRoundTrips`) and `LongOnly`. What holds of the account
depends on what has failed so far, so `AccountInv` is `IInv`, `IdsBySymbol`, and
parts that hold as long as `Only` some kinds of failure happened:

| part | says | survives |
|---|---|---|
| `WithinClaims` | no more is held than the tables or the step in progress say (`Claim`), and a connection does not show less than is held while a sale depends on it | everything but orders nobody waits for: late fills, the parent's timeout, a death (`Awaited`) |
| `StopsMatchRows` | the live stops nobody asked to cancel are those of the rows, id, size and price, but for the row in hand | everything but a death and fills in part (`Orderly`) |
| `OrdersWhole` | no live stop shows a fill, and one that a row names is of the row's size | the same (`Orderly`) |
| `Covered` | what is held has a live stop that is to stay, but for the symbol whose stop is replaced or traded | races, failed cancels, missed hours, fills in part (`Armed`) |
| `FilledMeansGone` | a stop that shows a fill has sold all there was | races, failed cancels, missed hours, refused stops (`Whole`) |
| `Exact` | holdings, rows, views and unread fills agree share for share, and a cancel is under way only for the row in hand (`Settled`) | refused stops (`Timely`) |

A kind that happened is never forgotten (`HappenedGrows`), so each part is proved
over the steps whose failures it survives, from itself and the wider parts. The
sets differ because the code differs: a refused stop leaves `Exact` true, since
the row stays, and `Covered` false; a race makes a view show more than is held,
which `WithinClaims` allows and `Exact` does not. `RoundTrips` needs one more
fact, `LotInHand`: the order on its way is at most what `entry_scan` computed.
`LongOnly` is the other side of `race_short`: to go short it takes at least one
of the failures that `Timely` leaves out.

`TradingDayProofs`: `DayTypeCorrect`, `LossLimited` (`LossBounded`),
`NoEarlyTrailing` (`TrailingEarned`), `NeverUnmanagedBelow`
(`UnmanagedSoldAtOnce`), `StopsTrailBelow` (`RaisedStopHadRoom`) and
`DayImplementsLedger` (`Spec => DayLedgerSpec`), for any prices, portfolio and
percentages, down to hundredths of a percent. What they assume of the
percentages is what the arithmetic needs: multiplier and hard stop of at least
one R, and prices fine enough for the floor to move a stop below every one of
them (`DayAssumption`; in cents, 0.25 % does from four dollars up). They rest on
lemmas about the arithmetic:
`StopBelowPrice` (floor and multiplier leave every stop below its price),
`SizeAllowed` (a size is within both limits), `HardStopBounds`, and
`LossPerShare` with `LossOfPosition`, which carry the bound from one share to
the position although the entry price kept is the signal's or the fill's. `IInv`
is `BarsInOrder` (there are always two bars, in order, with prices in order),
`RowMakesSense`, `DealKept` (the size is what the signal allowed and the stop
has not been lowered), `ExcursionTraded` (what was seen of the price was
traded since the purchase, and only managed positions trail) and `TargetKept` (a
stop about to be placed was decided from bars that were at least as high). For
the refinement
`Rungs` shows that a higher swing low is a higher rung of the book.

`TradingDaySignalProofs`: `ConfirmedWhenFinished` (`RetestNeedsFinishedBreak`), for
any prices and any number of bars, missing ones included. `SignalInv` adds to
`BarsInOrder` that the opening range is over and does not change any more, formed
of its three bars or never (`RangeTaken`), and that a row comes from a formed
range and is no newer than the bar in progress (`RowConfirmed`). Only the last
bar changes (`EarlierBarsStay`, `EarlierConfirm`), which is why what finished
bars say of a row stays true. That a set of bars has a first one (`Least`) rests
on the library's well-founded induction.

`ScanBoardProofs`: `BoardTypeCorrect`, `SignalAge` (`SignalAgeBounded`),
`BoardFresh` (`BoardStaysFresh`), `DroppedGone` (`DroppedSymbolsGone`), for any
symbols, durations and failures, and `StaleRowsIgnored`: with `ZoneLead = 0`, a
server in Eastern Time, `DeadScannerIgnored` does hold, so the zone alone is
behind `stale_zone`. `IInv`
dates everything: verdicts of the tick (`VerdictsOfTick`), the length of ticks
(`TicksInTime`) and of the entry loop (`LoopInTime`: every row tried costs at
most `EntryTime`), that a tick under way began after the last trim and so writes
nothing older (`TrimsInOrder`), and, while nothing fails, the stamps of what was
written last (`WrittenInTime`). The precondition of `BoardStaysFresh` comes from this proof:
that an interval and a tick fit into `MaxAge` is not enough where ticks may
overrun the interval, since then two whole ticks and the pause lie between two
writes.

`GatewayProofs`: `GatewayTypeCorrect` and `PortsPermanent` for any admin, and
`OwnAccountOnly` (`OwnAccount`) and `GatewayOnOwnPort` (`OwnPort`) under
`CarefulAdmin`, for any number of users, threads and ports. `IInv` is that
ports are distinct and that a request which is about to insert has picked one;
the careful invariant adds that whatever runs belongs to a user who exists and
that files, Gateways and requests carry no port but their user's.
`ImplementsRegistry` (`Spec => RegistrySpec`), for any admin, reduces a step to
its thread's own entry (`OnlyItsEntry`, `HandedBecomes`) and to the registry's
actions (`RegistryActions`).

`AccountsProofs`: `AccountsTypeCorrect`, `UniqueNames` (`NamesUnique`),
`SettingsKept` (`SettingsFollowUsers`), `EngineOwned` (`EngineKeepsItsUser`),
`PausePrompt` (`PauseIsPrompt`), `RightsOfTheMoment` (`DemotionIsPrompt`) and
`LastAdmin` (`LastAdminLost`). `IInv` adds that an admitted request is entitled
and a waiting one as soon as it could be admitted (`RequestsInOrder`), that ids
of engines were given (`EnginesGiven`: with `AUTOINCREMENT` this is why an
engine never meets a namesake) and that a cycle under way has had the chance to
see trading enabled (`CycleSees`).

Only model-checked: the liveness properties of `recovery`,
`ForceCloseFlattens` and `StopOutsNoticed`; fairness and ENABLED are out of the
prover's reach. Nothing is proved by induction over data, and no module with a
theorem has a RECURSIVE operator.

## 5. Where code and words disagree

Each is a run whose property TLC violates; the trace is the demonstration.

* `race_short`: the account can end short although the strategy is long only: a
  stop fills between the stop-out check and the market SELL of the same shares,
  which a cancel nobody waits for does not prevent. Without any such fill,
  failed cancel, late order or death it cannot (`LongOnly`).
* `late_fill`: exit 1 does not mean "no position was opened": the order may fill
  after the deadline and after the one look at the account.
* `outage_phantom`: stop-outs are not "always" checked: fills over an hour old
  are skipped, and their rows stay.
* `stale_zone`: the two-minute rule against a dead Scanner works only where
  local time is Eastern Time; east of it rows stay fresh for hours. Where local
  time is Eastern Time it does work (`StaleRowsIgnored`).
* `gateway_delete`: deleting a user leaves their units running and frees their
  port, so that another user's Executor can reach their account.

Smaller ones are listed as hazards, with the property that says what still
holds: the entry price kept is the signal's although the comment at
`executor.py:322` speaks of the actual fill (`LossBounded` has the slippage in
its bound); the last admin can switch themself off (`LastAdminLost`); a breakout
whose own bar falls back within the minutes its row is read is bought all the
same (`RetestNeedsFinishedBreak` is about later rows only).

## 6. Not modelled

* The indicators of `strategy.py` (RSI, EMA, VWAP, ATR, RVOL): they only drop
  candidates, so a free verdict covers every one they can give. Pre-market bars
  enter no comparison that is modelled.
* Downloads: yfinance may serve old bars as new; the models take the last bar as
  it is at the request, or a failure. The prior close and the list of tickers
  only choose candidates.
* `es_filter.py`: switched off; it would only drop candidates.
* `hold_overnight`: no code sets it to TRUE.
* `execution_log`, `executor_status`, `scan_status`, `scan_log`, notifications:
  nothing but the pages reads them. `user_settings.connected` is in `Gateway`
  but only shown, so no property is about it.
* `secrets_store.py`, password hashing, the signature of a cookie, page
  templates, the deployment workflow (a deployment is a restart of the Scanner
  in `ScanBoard`).
* What the credentials in an ini file say: the account behind a user's Gateway
  is that user's by definition.
* Ids shared between the broker's clients and the time-in-force of stop orders:
  listed as hazards with the reason.

## 7. Plan

1. `Executor`, `PositionLedger` and their proofs - done: the trading of real
   shares comes first.
2. `ScanBoard`, `Gateway` and `PortRegistry`, checked and proved - done.
3. `Accounts`, checked and proved - done.
4. `OrbStrategy` and `TradingDay`, checked and proved - done.
5. A composition of `ScanBoard` with several users' readers, and an abstract
   specification of the board (what a reader may conclude from a row) that
   `ScanBoard` implements.
6. Theorems of every invariant and action property of the passing runs - done,
   `Executor`'s account and `TradingDay`'s signals last.
