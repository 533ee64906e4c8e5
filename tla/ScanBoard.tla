------------------------------ MODULE ScanBoard ------------------------------
(***************************************************************************)
(* The shared signal board: the one Scanner (scanner.py) writes a row of   *)
(* scan_results per surviving symbol, and a user's Executor (entry_scan)   *)
(* turns fresh passing rows into orders.  Nothing synchronises the two but *)
(* the clock, so the clock is what this module is about: `now' is Eastern  *)
(* Time, and it advances while a tick evaluates its symbols and while an   *)
(* order is being placed.                                                  *)
(*                                                                         *)
(* generated_at is the server's local time, stamped when the rows are      *)
(* written; entry_scan reads it as Eastern Time.  A row also carries       *)
(* `seen', when its market data was looked at: no code keeps that, it is   *)
(* there to say how old a signal really is.                                *)
(*                                                                         *)
(* Left out: scan_status and scan_log (only the dashboard reads them), the *)
(* row's price and stop, and the orders in which candidates are evaluated  *)
(* and tried (any order here).                                             *)
(***************************************************************************)
EXTENDS Integers, FiniteSets

CONSTANTS
  Symbols,
  Interval,     \* SCAN_INTERVAL_SECONDS
  MinPause,     \* least pause between two ticks
  MaxAge,       \* SCAN_RESULT_MAX_AGE_MINUTES
  ScanTime,     \* bound: longest a tick of the Scanner takes
  EntryTime,    \* bound: longest one candidate's order and stop take
  MaxEntries,   \* how many entries the user's caps still allow
  EarliestEntry, LatestEntry,  \* time_filter: from and until when entries are made
  ZoneLead,     \* server local time minus Eastern Time
  DayEnd,       \* bound: the clock stops here
  MaxFaults     \* bound: crashes and exceptions of the Scanner

ASSUME ConstantsAssumption ==
  /\ Interval \in Nat /\ MinPause \in Nat /\ MaxAge \in Nat /\ ScanTime \in Nat /\ EntryTime \in Nat
  /\ MaxEntries \in Nat /\ ZoneLead \in Nat /\ MaxFaults \in Nat
  /\ EarliestEntry \in Nat /\ LatestEntry \in Nat /\ DayEnd \in Nat
  /\ IsFiniteSet(Symbols)

VARIABLES
  now,           \* Eastern Time
  scan_results,  \* symbol -> row, NoRow when there is none
  \* the Scanner
  phase,         \* where run_scan_tick is
  started,       \* when the tick began
  wake,          \* when the next one is due
  survivors,     \* universe_symbols of the tick
  todo,          \* survivors still to evaluate
  results,       \* symbol -> this tick's verdict, NoRow when there is none
  written,       \* history: the symbols the last replace_scan_results wrote
  trimmed,       \* history: what the last trim that had survivors kept, and when
  \* one user's entry_scan
  step,          \* where it is
  now_et,        \* the time it took at its start
  rows,          \* the fresh scan_rows it has still to try
  signal,        \* the row an order is being placed for
  since,         \* when that order was begun
  held,          \* symbols entered today
  budget         \* faults that may still happen

tick     == <<phase, started, wake, survivors, todo, results>>
scanner  == <<tick, written, trimmed>>
executor == <<step, now_et, rows, signal, since, held>>
vars     == <<now, scan_results, scanner, executor, budget>>

NoRow == [pass |-> FALSE, stamp |-> -1, seen |-> -1]
Row == [pass : BOOLEAN, stamp : Int, seen : Int]
Candidate == [sym : Symbols, stamp : Int, seen : Int]
NoSignal == [sym |-> 0, stamp |-> 0, seen |-> 0]

Phases == {"sleep", "evaluate", "trim", "down"}
ScanSteps == {"rest", "loop", "buy"}

NoResults == [s \in Symbols |-> NoRow]

Later(a, b) == IF a > b THEN a ELSE b

Fault == budget > 0 /\ budget' = budget - 1

Init ==
  /\ now = 0
  /\ scan_results = [s \in Symbols |-> NoRow]
  /\ phase = "sleep" /\ started = 0 /\ wake = 0
  /\ survivors = {} /\ todo = {} /\ written = {}
  /\ trimmed = [kept |-> Symbols, at |-> 0]
  /\ results = NoResults
  /\ step = "rest" /\ now_et = 0 /\ rows = {} /\ signal = NoSignal /\ since = 0
  /\ held = {}
  /\ budget = MaxFaults

-----------------------------------------------------------------------------
(* The Scanner: run_scan_tick, repeated by main.                           *)

InScanWindow == now <= LatestEntry

NextWakeFullInterval == now + Interval

\* main sleeps what is left of the interval, and a second at least, whatever
\* became of the tick
NextWake == Later(started + Interval, now + MinPause)

\* run_scan_tick is left, and everything local to it is gone
TickOver(p) ==
  /\ phase' = p /\ started' = 0
  /\ survivors' = {} /\ todo' = {} /\ results' = NoResults

TickIdle ==
  /\ phase = "sleep" /\ now >= wake /\ ~InScanWindow
  /\ wake' = now + Interval
  /\ UNCHANGED <<now, scan_results, phase, started, survivors, todo, results, written, trimmed, executor, budget>>

\* every ticker is evaluated, whether it survived the prefilter or not
TickBeginsUnfiltered ==
  /\ phase = "sleep" /\ now >= wake /\ InScanWindow
  /\ started' = now
  /\ survivors' \in SUBSET Symbols /\ todo' = Symbols
  /\ phase' = "evaluate" /\ wake' = 0
  /\ UNCHANGED <<now, scan_results, results, written, trimmed, executor, budget>>

\* _gap_prefilter leaves any set of symbols
TickBegins ==
  /\ phase = "sleep" /\ now >= wake /\ InScanWindow
  /\ started' = now
  /\ \E gapping \in SUBSET Symbols : survivors' = gapping /\ todo' = gapping
  /\ phase' = "evaluate" /\ wake' = 0
  /\ UNCHANGED <<now, scan_results, results, written, trimmed, executor, budget>>

\* pass, fail, or no result at all: not evaluable yet, or the fetch raised
Evaluate(s) ==
  /\ phase = "evaluate" /\ s \in todo
  /\ \/ \E pass \in BOOLEAN :
          results' = [results EXCEPT ![s] = [pass |-> pass, stamp |-> -1, seen |-> now]]
     \/ UNCHANGED results
  /\ todo' = todo \ {s}
  /\ UNCHANGED <<now, scan_results, phase, started, wake, survivors, written, trimmed, executor, budget>>

Evaluated == {s \in Symbols : results[s].seen >= 0}

\* replace_scan_results: one upsert per result, all in one transaction
Replace ==
  /\ phase = "evaluate" /\ todo = {}
  /\ scan_results' = [s \in Symbols |->
       IF s \in Evaluated THEN [results[s] EXCEPT !.stamp = now + ZoneLead]
                          ELSE scan_results[s]]
  /\ written' = Evaluated
  /\ phase' = "trim"
  /\ UNCHANGED <<now, started, wake, survivors, todo, results, trimmed, executor, budget>>

DroppedUnlessErrors == IF Evaluated # survivors THEN {} ELSE Symbols \ survivors

\* nothing is dropped when no symbol survived
Dropped == IF survivors = {} THEN {} ELSE Symbols \ survivors

\* trim_stale_scan_results, a transaction of its own, ends the tick
Trim ==
  /\ phase = "trim"
  /\ scan_results' = [s \in Symbols |-> IF s \in Dropped THEN NoRow ELSE scan_results[s]]
  /\ trimmed' = IF survivors = {} THEN trimmed ELSE [kept |-> survivors, at |-> now]
  /\ TickOver("sleep") /\ wake' = NextWake
  /\ UNCHANGED <<now, written, executor, budget>>

\* the download, or a write to the database, raises: main carries on
TickRaises ==
  /\ phase \in {"evaluate", "trim"} /\ Fault
  /\ TickOver("sleep") /\ wake' = NextWake
  /\ UNCHANGED <<now, scan_results, written, trimmed, executor>>

\* killed, or restarted by a deployment, at any point of the tick
ScannerDies ==
  /\ phase # "down" /\ Fault
  /\ TickOver("down") /\ wake' = 0
  /\ UNCHANGED <<now, scan_results, written, trimmed, executor>>

ScannerRestarts ==
  /\ phase = "down"
  /\ phase' = "sleep" /\ wake' = now
  /\ UNCHANGED <<now, scan_results, started, survivors, todo, results, written, trimmed, executor, budget>>

-----------------------------------------------------------------------------
(* One user's entry_scan.                                                  *)

CapReached == Cardinality(held) >= MaxEntries

FreshAnyAge(row) == TRUE

\* generated_at.replace(tzinfo=ET) against the time entry_scan took
Fresh(row) == now - row.stamp <= MaxAge

\* The time is taken once and the passing rows are read once, right after it;
\* which rows are fresh is settled with that, whenever the loop gets to them.
BeginScan ==
  /\ step = "rest" /\ EarliestEntry <= now /\ now < LatestEntry /\ ~CapReached
  /\ now_et' = now
  /\ rows' = {[sym |-> s, stamp |-> scan_results[s].stamp, seen |-> scan_results[s].seen] :
                s \in {t \in Symbols \ held : scan_results[t].pass /\ Fresh(scan_results[t])}}
  /\ step' = "loop"
  /\ UNCHANGED <<now, scan_results, scanner, signal, since, held, budget>>

Order(row) ==
  /\ step = "loop" /\ ~CapReached
  /\ rows' = rows \ {row}
  /\ signal' = row /\ since' = now
  /\ step' = "buy"
  /\ UNCHANGED <<now, scan_results, scanner, now_et, held, budget>>

\* filled and stopped, or refused
OrderDone ==
  /\ step = "buy"
  /\ held' \in {held, held \union {signal.sym}}
  /\ signal' = NoSignal /\ since' = 0
  /\ step' = "loop"
  /\ UNCHANGED <<now, scan_results, scanner, now_et, rows, budget>>

EndScan ==
  /\ step = "loop" /\ (rows = {} \/ CapReached)
  /\ rows' = {} /\ now_et' = 0
  /\ step' = "rest"
  /\ UNCHANGED <<now, scan_results, scanner, signal, since, held, budget>>

-----------------------------------------------------------------------------
\* Time passes unless a step is overdue.  A dead Scanner is never overdue.
ScannerHasTime ==
  CASE phase = "sleep" -> now < wake
    [] phase = "down" -> TRUE
    [] OTHER -> now < started + ScanTime

ExecutorHasTime ==
  CASE step = "rest" -> TRUE
    [] step = "buy" -> now < since + EntryTime
    [] OTHER -> FALSE

Tick ==
  /\ now < DayEnd /\ ScannerHasTime /\ ExecutorHasTime
  /\ now' = now + 1
  /\ UNCHANGED <<scan_results, scanner, executor, budget>>

ScannerStep ==
  \/ TickIdle \/ TickBegins \/ Replace \/ Trim
  \/ TickRaises \/ ScannerDies \/ ScannerRestarts
  \/ \E s \in Symbols : Evaluate(s)

ExecutorStep ==
  \/ BeginScan \/ OrderDone \/ EndScan
  \/ \E row \in rows : Order(row)

\* nothing is looked at beyond the end of the day
DayOver == now = DayEnd /\ UNCHANGED vars

Next == ScannerStep \/ ExecutorStep \/ Tick \/ DayOver

Spec == Init /\ [][Next]_vars

-----------------------------------------------------------------------------
(* Properties.                                                             *)

\* Every variable stays within its type, and no recorded time is in the future.
TypeOK ==
  /\ now \in Nat
  /\ scan_results \in [Symbols -> Row]
  /\ phase \in Phases
  /\ started \in Nat /\ wake \in Nat
  /\ survivors \subseteq Symbols /\ todo \subseteq survivors /\ written \subseteq Symbols
  /\ results \in [Symbols -> Row]
  /\ step \in ScanSteps
  /\ now_et \in Nat /\ since \in Nat
  /\ rows \subseteq Candidate
  /\ signal \in Candidate \union {NoSignal}
  /\ held \subseteq Symbols
  /\ trimmed.kept \subseteq Symbols /\ trimmed.at \in Nat /\ trimmed.at <= now
  /\ budget \in Nat
  /\ started <= now /\ now_et <= now /\ since <= now

\* How old the market data behind an order can be when the order is begun, on
\* a server in Eastern Time and with a Scanner that may die and restart:
\* MaxAge, plus the tick that evaluated it before the stamp, plus the orders
\* placed since the loop took its time.  (The documents promise MaxAge.)
SignalAgeBounded ==
  ZoneLead = 0 /\ step = "buy" =>
    since - signal.seen <= MaxAge + ScanTime + (Cardinality(Symbols) - 1) * EntryTime

\* As long as the Scanner does not fail, what its last tick wrote never gets
\* too old before the next tick has written, so that a signal which keeps
\* passing is never ignored for its age - if a tick fits into MaxAge together
\* with the interval, or with another tick that overruns it and the pause.
BoardStaysFresh ==
  budget = MaxFaults /\ now <= LatestEntry
  /\ Later(Interval, ScanTime + MinPause) + ScanTime <= MaxAge =>
    \A s \in written : now + ZoneLead - scan_results[s].stamp <= MaxAge

\* A symbol that the last complete tick dropped from the universe has no row but
\* one evaluated since, by a tick that got as far as writing it: whichever ticks
\* raise or die, before, between or after their two transactions, no older
\* verdict on it is left for an entry_scan to buy.
DroppedSymbolsGone ==
  \A s \in Symbols \ trimmed.kept :
    scan_results[s] # NoRow => scan_results[s].seen >= trimmed.at

\* "ignoring any row whose generated_at is too stale (>2 minutes) so a
\* dead/stuck Scanner can't drive a stale entry": no order follows a row that
\* was written more than MaxAge before entry_scan began.
DeadScannerIgnored ==
  step = "buy" => now_et - (signal.stamp - ZoneLead) <= MaxAge

=============================================================================
