--------------------------- MODULE ScanBoardProofs ---------------------------
(***************************************************************************)
(* Theorems about ScanBoard, for any symbols, intervals, durations, zone   *)
(* and number of failures.                                                 *)
(***************************************************************************)
EXTENDS ScanBoard, FiniteSetTheorems, TLAPS

\* A verdict of this tick was reached during it, about a survivor.
VerdictsOfTick ==
  \A s \in Symbols : results[s].seen >= 0 =>
    /\ phase \in {"evaluate", "trim"} /\ s \in survivors
    /\ started <= results[s].seen /\ results[s].seen <= now

\* A tick takes up to ScanTime and a sleep ends when the next tick is due.
TicksInTime ==
  /\ phase \in {"evaluate", "trim"} => now <= started + ScanTime
  /\ phase = "sleep" => now <= wake

\* The stamp of a row is at most a tick later than what it says was seen.
RowsOfTicks ==
  \A s \in Symbols : scan_results[s].pass =>
    scan_results[s].stamp - ZoneLead - scan_results[s].seen <= ScanTime

\* What entry_scan read was fresh when it began.
FreshCandidate(row) ==
  /\ now_et - row.stamp <= MaxAge
  /\ row.stamp - ZoneLead - row.seen <= ScanTime

CandidatesFresh ==
  /\ \A row \in rows : FreshCandidate(row)
  /\ step = "buy" => signal \in Candidate /\ FreshCandidate(signal)

\* Every row tried so far has taken entry_scan up to EntryTime.
LoopInTime ==
  /\ IsFiniteSet(rows)
  /\ step = "loop" =>
       now - now_et <= (Cardinality(Symbols) - Cardinality(rows)) * EntryTime
  /\ step = "buy" =>
       /\ since - now_et <= (Cardinality(Symbols) - Cardinality(rows) - 1) * EntryTime
       /\ now <= since + EntryTime

\* Without failures, what the last tick wrote dates from that tick, and the
\* next one begins in time.
Written(s) == scan_results[s].stamp - ZoneLead
Pause == Later(Interval, ScanTime + MinPause)

WrittenInTime ==
  /\ budget <= MaxFaults
  /\ budget = MaxFaults =>
       /\ phase # "down"
       /\ phase = "trim" => written \subseteq survivors
       /\ \A s \in written :
            /\ phase = "trim" => started <= Written(s)
            /\ phase = "evaluate" => started <= Written(s) + Pause
            /\ phase = "sleep" /\ now <= LatestEntry => wake <= Written(s) + Pause

\* A tick that still runs began after the last trim, so that what it writes is
\* newer; and of what a trim drops nothing older comes back.
TrimsInOrder ==
  /\ phase \in {"evaluate", "trim"} => trimmed.at <= started
  /\ DroppedSymbolsGone

IInv ==
  /\ TypeOK /\ VerdictsOfTick /\ TicksInTime /\ RowsOfTicks
  /\ CandidatesFresh /\ LoopInTime /\ WrittenInTime /\ TrimsInOrder

-----------------------------------------------------------------------------
\* Rows are records of their type, and the empty board has none.
LEMMA NoRowTypes ==
  /\ NoRow \in Row /\ NoResults \in [Symbols -> Row]
  /\ ~NoRow.pass /\ NoRow.seen = -1
BY DEF NoRow, Row, NoResults

\* Time stands still but for Tick, which keeps to the deadlines.
LEMMA TimeStep ==
  ASSUME ConstantsAssumption, TypeOK, [Next]_vars
  PROVE  \/ now' = now
         \/ /\ now' = now + 1 /\ ScannerHasTime /\ ExecutorHasTime
            /\ UNCHANGED <<scan_results, scanner, executor, budget>>
BY DEF Next, vars, Tick, DayOver, ScannerStep, ExecutorStep, TickIdle, TickBegins, Replace, Trim,
   TickRaises, ScannerDies, ScannerRestarts, Evaluate, BeginScan, OrderDone, EndScan, Order

\* Every step keeps the type invariant.
LEMMA TypeStep ==
  ASSUME ConstantsAssumption, TypeOK, CandidatesFresh, [Next]_vars
  PROVE  TypeOK'
<1> USE DEF tick, scanner, executor
<1>1. /\ now \in Nat /\ scan_results \in [Symbols -> Row] /\ results \in [Symbols -> Row]
      /\ started \in Nat /\ wake \in Nat /\ now_et \in Nat /\ since \in Nat /\ budget \in Nat
      /\ Interval \in Nat /\ ZoneLead \in Nat
      /\ survivors \subseteq Symbols /\ todo \subseteq survivors /\ written \subseteq Symbols
      /\ rows \subseteq Candidate /\ signal \in Candidate \union {NoSignal} /\ held \subseteq Symbols
      /\ phase \in Phases /\ step \in ScanSteps
      /\ started <= now /\ now_et <= now /\ since <= now /\ MinPause \in Nat
      /\ trimmed.kept \subseteq Symbols /\ trimmed.at \in Nat /\ trimmed.at <= now
  BY DEF TypeOK, ConstantsAssumption
<1>2. CASE UNCHANGED vars
  BY <1>1, <1>2 DEF vars, TypeOK
<1>3. CASE Tick
  BY <1>1, <1>3 DEF Tick, TypeOK
<1>4. CASE TickIdle \/ TickBegins \/ ScannerRestarts
  BY <1>1, <1>4 DEF TickIdle, TickBegins, ScannerRestarts, TypeOK, Phases
<1>5. ASSUME NEW s \in Symbols, Evaluate(s)
      PROVE  TypeOK'
  <2>1. \A pass \in BOOLEAN : [pass |-> pass, stamp |-> -1, seen |-> now] \in Row
    BY <1>1 DEF Row
  <2>2. results' \in [Symbols -> Row]
    BY <1>1, <1>5, <2>1 DEF Evaluate
  <2> QED
    BY <1>1, <1>5, <2>2 DEF Evaluate, TypeOK
<1>6. CASE Replace
  <2>1. \A s \in Symbols : [results[s] EXCEPT !.stamp = now + ZoneLead] \in Row
    BY <1>1 DEF Row
  <2>2. scan_results' \in [Symbols -> Row]
    BY <1>1, <1>6, <2>1 DEF Replace
  <2> QED
    BY <1>1, <1>6, <2>2 DEF Replace, Evaluated, TypeOK, Phases
<1>7. NextWake \in Nat
  BY <1>1 DEF NextWake, Later
<1>8. CASE Trim
  <2>1. trimmed' \in {trimmed, [kept |-> survivors, at |-> now]} /\ now' = now
    BY <1>8 DEF Trim
  <2>2. trimmed'.kept \subseteq Symbols /\ trimmed'.at \in Nat /\ trimmed'.at <= now'
    BY <1>1, <2>1
  <2> QED
    BY <1>1, <1>7, <1>8, <2>2, NoRowTypes DEF Trim, TickOver, TypeOK, Phases
<1>9. CASE TickRaises \/ ScannerDies
  BY <1>1, <1>7, <1>9, NoRowTypes DEF TickRaises, ScannerDies, Fault, TickOver, TypeOK, Phases
<1>10. CASE BeginScan
  <2>1. \A s \in Symbols : [sym |-> s, stamp |-> scan_results[s].stamp, seen |-> scan_results[s].seen]
                             \in Candidate
    BY <1>1 DEF Row, Candidate
  <2>2. rows' \subseteq Candidate
    BY <1>10, <2>1 DEF BeginScan
  <2> QED
    BY <1>1, <1>10, <2>2 DEF BeginScan, TypeOK, ScanSteps
<1>11. ASSUME NEW row \in rows, Order(row)
       PROVE  TypeOK'
  BY <1>1, <1>11 DEF Order, TypeOK, ScanSteps
<1>12. CASE OrderDone
  <2>1. step = "buy" /\ held' \subseteq held \union {signal.sym}
    BY <1>12 DEF OrderDone
  <2>2. held' \subseteq Symbols
    BY <1>1, <2>1 DEF Candidate, CandidatesFresh
  <2> QED
    BY <1>1, <1>12, <2>2 DEF OrderDone, TypeOK, ScanSteps
<1>13. CASE EndScan
  BY <1>1, <1>13 DEF EndScan, TypeOK, ScanSteps
<1> QED
  BY <1>2, <1>3, <1>4, <1>5, <1>6, <1>8, <1>9, <1>10, <1>11, <1>12, <1>13
     DEF Next, ScannerStep, ExecutorStep, DayOver

\* Verdicts belong to the tick, and ticks and sleeps end in time.
LEMMA TickStep ==
  ASSUME ConstantsAssumption, TypeOK, VerdictsOfTick, TicksInTime, [Next]_vars
  PROVE  VerdictsOfTick' /\ TicksInTime'
<1> USE DEF VerdictsOfTick, TicksInTime, tick, scanner, executor
<1>1. /\ now \in Nat /\ results \in [Symbols -> Row] /\ started \in Nat /\ wake \in Nat
      /\ ScanTime \in Nat /\ Interval \in Nat /\ MinPause \in Nat /\ todo \subseteq survivors /\ survivors \subseteq Symbols
      /\ started <= now /\ phase \in Phases
  BY DEF TypeOK, ConstantsAssumption
<1>2. \A s \in Symbols : results[s].seen \in Int
  BY <1>1 DEF Row
<1>3. CASE UNCHANGED <<now, scanner>>
  BY <1>1, <1>2, <1>3
<1>4. CASE Tick
  <2>1. now' = now + 1 /\ ScannerHasTime /\ UNCHANGED scanner
    BY <1>4 DEF Tick
  <2>2. /\ phase \in {"evaluate", "trim"} => now < started + ScanTime
        /\ phase = "sleep" => now < wake
    BY <2>1 DEF ScannerHasTime
  <2> QED
    BY <1>1, <1>2, <2>1, <2>2
<1>5. CASE TickIdle \/ ScannerRestarts
  BY <1>1, <1>2, <1>5 DEF TickIdle, ScannerRestarts
<1>6. CASE TickBegins
  BY <1>1, <1>2, <1>6 DEF TickBegins
<1>7. ASSUME NEW s \in Symbols, Evaluate(s)
      PROVE  VerdictsOfTick' /\ TicksInTime'
  <2>1. \A t \in Symbols : results'[t] = results[t] \/ (t = s /\ results'[t].seen = now)
    BY <1>1, <1>7 DEF Evaluate
  <2> QED
    BY <1>1, <1>2, <1>7, <2>1 DEF Evaluate
<1>8. CASE Replace
  BY <1>1, <1>2, <1>8 DEF Replace
<1>9. ASSUME NEW p, TickOver(p), now' = now
      PROVE  VerdictsOfTick'
  BY <1>9 DEF TickOver, NoResults, NoRow
<1>10. now <= NextWake
  BY <1>1 DEF NextWake, Later
<1>11. CASE Trim \/ TickRaises \/ ScannerDies
  <2>1. VerdictsOfTick'
    BY <1>9, <1>11 DEF Trim, TickRaises, ScannerDies
  <2> QED
    BY <1>1, <1>10, <1>11, <2>1 DEF Trim, TickRaises, ScannerDies, TickOver
<1> QED
  BY <1>3, <1>4, <1>5, <1>6, <1>7, <1>8, <1>11
     DEF Next, vars, ScannerStep, ExecutorStep, DayOver, BeginScan, OrderDone, EndScan, Order

\* Rows date from a tick, and candidates from rows that were fresh.
LEMMA FreshStep ==
  ASSUME ConstantsAssumption, IInv, [Next]_vars
  PROVE  RowsOfTicks' /\ CandidatesFresh'
<1> USE DEF RowsOfTicks, CandidatesFresh, FreshCandidate, tick, scanner, executor
<1>1. /\ now \in Nat /\ scan_results \in [Symbols -> Row] /\ results \in [Symbols -> Row]
      /\ started \in Nat /\ now_et \in Nat /\ ZoneLead \in Nat /\ ScanTime \in Nat /\ MaxAge \in Nat
      /\ rows \subseteq Candidate /\ RowsOfTicks /\ CandidatesFresh
      /\ VerdictsOfTick /\ TicksInTime
  BY DEF IInv, TypeOK, ConstantsAssumption
<1>2. CASE UNCHANGED <<scan_results, executor>>
  BY <1>1, <1>2
<1>3. CASE Replace
  <2>1. ASSUME NEW s \in Symbols, scan_results'[s].pass
        PROVE  scan_results'[s].stamp - ZoneLead - scan_results'[s].seen <= ScanTime
    <3>1. CASE s \in Evaluated
      <4>1. scan_results'[s] = [results[s] EXCEPT !.stamp = now + ZoneLead]
        BY <1>3, <3>1 DEF Replace
      <4>2. results[s] \in Row /\ results[s].seen >= 0
        BY <1>1, <3>1 DEF Evaluated
      <4>3. scan_results'[s].stamp = now + ZoneLead /\ scan_results'[s].seen = results[s].seen
        BY <4>1, <4>2 DEF Row
      <4>4. now <= started + ScanTime /\ started <= results[s].seen
        BY <1>1, <1>3, <4>2 DEF Replace, TicksInTime, VerdictsOfTick
      <4>5. results[s].seen \in Int
        BY <4>2 DEF Row
      <4> QED
        BY <1>1, <4>3, <4>4, <4>5
    <3>2. CASE s \notin Evaluated
      <4>1. scan_results'[s] = scan_results[s]
        BY <1>3, <3>2 DEF Replace
      <4> QED
        BY <1>1, <2>1, <4>1
    <3> QED
      BY <3>1, <3>2
  <2>2. UNCHANGED executor
    BY <1>3 DEF Replace
  <2> QED
    BY <1>1, <2>1, <2>2
<1>4. CASE Trim
  <2>1. \A s \in Symbols : scan_results'[s] \in {NoRow, scan_results[s]}
    BY <1>4 DEF Trim
  <2>2. UNCHANGED executor
    BY <1>4 DEF Trim
  <2> QED
    BY <1>1, <2>1, <2>2, NoRowTypes
<1>5. CASE BeginScan
  <2>1. /\ now_et' = now /\ step' = "loop" /\ scan_results' = scan_results
        /\ rows' = {[sym |-> s, stamp |-> scan_results[s].stamp, seen |-> scan_results[s].seen] :
                s \in {t \in Symbols \ held : scan_results[t].pass /\ Fresh(scan_results[t])}}
    BY <1>5 DEF BeginScan
  <2>2. ASSUME NEW row \in rows' PROVE FreshCandidate(row)'
    <3>1. PICK s \in Symbols : /\ scan_results[s].pass /\ Fresh(scan_results[s])
                               /\ row.stamp = scan_results[s].stamp /\ row.seen = scan_results[s].seen
      BY <2>1, <2>2
    <3> QED
      BY <1>1, <2>1, <3>1 DEF Fresh
  <2> QED
    BY <1>1, <2>1, <2>2
<1>6. ASSUME NEW row \in rows, Order(row)
      PROVE  RowsOfTicks' /\ CandidatesFresh'
  BY <1>1, <1>6 DEF Order
<1>7. CASE OrderDone \/ EndScan
  BY <1>1, <1>7 DEF OrderDone, EndScan
<1> QED
  BY <1>2, <1>3, <1>4, <1>5, <1>6, <1>7 DEF Next, vars, ScannerStep, ExecutorStep, DayOver, Tick,
     TickIdle, TickBegins, TickRaises, ScannerDies, ScannerRestarts, Evaluate

\* entry_scan tries a row per symbol at most, each in its time.
LEMMA LoopStep ==
  ASSUME ConstantsAssumption, TypeOK, LoopInTime, [Next]_vars
  PROVE  LoopInTime'
<1> USE DEF LoopInTime, tick, scanner, executor
<1>1. /\ now \in Nat /\ now_et \in Nat /\ since \in Nat /\ EntryTime \in Nat
      /\ IsFiniteSet(Symbols) /\ step \in ScanSteps /\ IsFiniteSet(rows) /\ since <= now
  BY DEF TypeOK, ConstantsAssumption
<1>2. Cardinality(Symbols) \in Nat /\ Cardinality(rows) \in Nat
  BY <1>1, FS_CardinalityType
<1>3. CASE UNCHANGED <<now, executor>>
  BY <1>1, <1>3
<1>4. CASE Tick
  <2>1. now' = now + 1 /\ ExecutorHasTime /\ UNCHANGED executor
    BY <1>4 DEF Tick
  <2>2. step # "loop" /\ (step = "buy" => now < since + EntryTime)
    BY <2>1 DEF ExecutorHasTime
  <2> QED
    BY <1>1, <2>1, <2>2
<1>5. CASE BeginScan
  <2> DEFINE Passing == {t \in Symbols \ held : scan_results[t].pass /\ Fresh(scan_results[t])}
             Read(s) == [sym |-> s, stamp |-> scan_results[s].stamp, seen |-> scan_results[s].seen]
  <2>1. rows' = {Read(s) : s \in Passing} /\ now' = now /\ now_et' = now /\ step' = "loop"
    BY <1>5 DEF BeginScan
  <2>2. IsFiniteSet(Passing) /\ Cardinality(Passing) <= Cardinality(Symbols)
    BY <1>1, FS_Subset
  <2>3. IsFiniteSet(rows') /\ Cardinality(rows') <= Cardinality(Passing)
    <3> DEFINE f == [s \in Passing |-> Read(s)]
    <3>1. f \in Surjection(Passing, rows')
      BY <2>1 DEF Surjection, Range
    <3> HIDE DEF f
    <3> QED
      BY <2>2, <3>1, FS_Surjection
  <2> HIDE DEF Passing
  <2>4. Cardinality(Passing) \in Nat /\ Cardinality(rows') \in Nat
    BY <2>2, <2>3, FS_CardinalityType
  <2>5. Cardinality(Symbols) - Cardinality(rows') \in Nat
    BY <1>2, <2>2, <2>3, <2>4
  <2>6. \A m, n \in Nat : m * n \in Nat
    OBVIOUS
  <2>7. (Cardinality(Symbols) - Cardinality(rows')) * EntryTime \in Nat
    BY <1>1, <2>5, <2>6
  <2> QED
    BY <1>1, <2>1, <2>3, <2>7
<1>6. ASSUME NEW row \in rows, Order(row)
      PROVE  LoopInTime'
  <2>1. /\ rows' = rows \ {row} /\ since' = now /\ step' = "buy" /\ step = "loop"
        /\ UNCHANGED <<now, now_et>>
    BY <1>6 DEF Order
  <2>2. IsFiniteSet(rows') /\ Cardinality(rows') = Cardinality(rows) - 1
    BY <1>1, <2>1, FS_RemoveElement
  <2>3. Cardinality(Symbols) - Cardinality(rows') - 1 = Cardinality(Symbols) - Cardinality(rows)
    BY <1>2, <2>2
  <2>4. since' - now_et' <= (Cardinality(Symbols) - Cardinality(rows') - 1) * EntryTime
    BY <2>1, <2>3
  <2> QED
    BY <1>1, <2>1, <2>2, <2>4
<1>7. CASE OrderDone
  <2>1. step = "buy" /\ step' = "loop" /\ UNCHANGED <<now, now_et, rows>>
    BY <1>7 DEF OrderDone
  <2> DEFINE k == Cardinality(Symbols) - Cardinality(rows) - 1
  <2>2. k \in Int /\ Cardinality(Symbols) - Cardinality(rows) = k + 1
    BY <1>2
  <2>3. since - now_et <= k * EntryTime /\ now <= since + EntryTime
    BY <2>1
  <2> HIDE DEF k
  <2>4. k * EntryTime \in Int /\ (k + 1) * EntryTime = k * EntryTime + EntryTime
    BY <1>1, <2>2
  <2> QED
    BY <1>1, <2>1, <2>2, <2>3, <2>4
<1>8. CASE EndScan
  BY <1>8, FS_EmptySet DEF EndScan
<1> QED
  BY <1>3, <1>4, <1>5, <1>6, <1>7, <1>8 DEF Next, vars, ScannerStep, ExecutorStep, DayOver,
     TickIdle, TickBegins, TickRaises, ScannerDies, ScannerRestarts, Evaluate, Replace, Trim

\* Without failures, ticks follow each other in time.
LEMMA WrittenStep ==
  ASSUME ConstantsAssumption, IInv, [Next]_vars
  PROVE  WrittenInTime'
<1> USE DEF WrittenInTime, Written, tick, scanner, executor
<1>1. /\ now \in Nat /\ scan_results \in [Symbols -> Row] /\ results \in [Symbols -> Row]
      /\ started \in Nat /\ wake \in Nat /\ budget \in Nat /\ MaxFaults \in Nat
      /\ ZoneLead \in Nat /\ ScanTime \in Nat /\ Interval \in Nat /\ MinPause \in Nat /\ LatestEntry \in Nat
      /\ written \subseteq Symbols /\ survivors \subseteq Symbols /\ started <= now
      /\ phase \in Phases /\ VerdictsOfTick /\ TicksInTime /\ WrittenInTime
  BY DEF IInv, TypeOK, ConstantsAssumption
<1>2. \A s \in Symbols : scan_results[s].stamp \in Int
  BY <1>1 DEF Row
<1>3. Pause \in Nat /\ ScanTime + MinPause <= Pause /\ Interval <= Pause
  BY <1>1 DEF Pause, Later
<1>4. CASE UNCHANGED <<scan_results, scanner, budget>> /\ (now' = now \/ Tick)
  <2>1. now' \in Nat /\ now' >= now
    BY <1>1, <1>4 DEF Tick
  <2> QED
    BY <1>1, <1>2, <1>3, <1>4, <2>1
<1>5. CASE TickIdle
  BY <1>1, <1>5 DEF TickIdle, InScanWindow
<1>6. CASE TickBegins
  <2>1. /\ phase = "sleep" /\ now <= LatestEntry /\ phase' = "evaluate" /\ started' = now
        /\ UNCHANGED <<now, scan_results, written, budget>>
    BY <1>6 DEF TickBegins, InScanWindow
  <2>2. now <= wake
    BY <1>1, <2>1 DEF TicksInTime
  <2> QED
    BY <1>1, <1>2, <1>3, <2>1, <2>2
<1>7. ASSUME NEW s \in Symbols, Evaluate(s)
      PROVE  WrittenInTime'
  BY <1>1, <1>7 DEF Evaluate
<1>8. CASE Replace
  <2>1. /\ written' = Evaluated /\ phase' = "trim" /\ phase = "evaluate"
        /\ UNCHANGED <<now, started, survivors, budget>>
        /\ scan_results' = [s \in Symbols |->
             IF s \in Evaluated THEN [results[s] EXCEPT !.stamp = now + ZoneLead]
                                ELSE scan_results[s]]
    BY <1>8 DEF Replace
  <2>2. Evaluated \subseteq survivors /\ Evaluated \subseteq Symbols
    BY <1>1 DEF Evaluated, VerdictsOfTick
  <2>3. \A s \in Evaluated : scan_results'[s].stamp = now + ZoneLead
    BY <1>1, <2>1, <2>2 DEF Row
  <2> QED
    BY <1>1, <2>1, <2>2, <2>3
<1>9. CASE Trim
  <2>1. /\ phase = "trim" /\ phase' = "sleep" /\ wake' = NextWake /\ UNCHANGED <<now, written, budget>>
        /\ scan_results' = [s \in Symbols |-> IF s \in Dropped THEN NoRow ELSE scan_results[s]]
    BY <1>9 DEF Trim, TickOver
  <2>2. Dropped \intersect survivors = {}
    BY DEF Dropped
  <2>3. budget = MaxFaults => \A s \in written : scan_results'[s] = scan_results[s]
    BY <1>1, <2>1, <2>2
  <2>4. now <= started + ScanTime
    BY <1>1, <2>1 DEF TicksInTime
  <2>5. NextWake <= started + Pause
    BY <1>1, <1>3, <2>4 DEF NextWake, Later
  <2>6. NextWake \in Nat
    BY <1>1 DEF NextWake, Later
  <2>7. ASSUME budget = MaxFaults, NEW s \in written
        PROVE  wake' <= scan_results'[s].stamp - ZoneLead + Pause
    <3>1. scan_results'[s] = scan_results[s] /\ started <= scan_results[s].stamp - ZoneLead
      BY <1>1, <2>1, <2>3, <2>7
    <3>2. s \in Symbols
      BY <1>1
    <3> QED
      BY <1>1, <1>2, <1>3, <2>1, <2>5, <2>6, <3>1, <3>2
  <2> QED
    BY <1>1, <2>1, <2>7
<1>10. CASE TickRaises \/ ScannerDies
  BY <1>1, <1>10 DEF TickRaises, ScannerDies, Fault
<1>11. CASE ScannerRestarts
  BY <1>1, <1>11 DEF ScannerRestarts
<1> QED
  BY <1>4, <1>5, <1>6, <1>7, <1>8, <1>9, <1>10, <1>11
     DEF Next, vars, ScannerStep, ExecutorStep, DayOver, BeginScan, OrderDone, EndScan, Order, Tick

\* Trims and rewrites of the board are in the order of their ticks.
LEMMA TrimStep ==
  ASSUME ConstantsAssumption, IInv, [Next]_vars
  PROVE  TrimsInOrder'
<1> USE DEF TrimsInOrder, DroppedSymbolsGone, tick, scanner, executor
<1>1. /\ now \in Nat /\ scan_results \in [Symbols -> Row] /\ results \in [Symbols -> Row]
      /\ started \in Nat /\ started <= now /\ phase \in Phases /\ VerdictsOfTick /\ TrimsInOrder
      /\ trimmed.at \in Nat /\ trimmed.at <= now
  BY DEF IInv, TypeOK, ConstantsAssumption
<1>2. \A s \in Symbols : scan_results[s].seen \in Int /\ results[s].seen \in Int
  BY <1>1 DEF Row
<1>3. CASE UNCHANGED <<phase, started, scan_results, trimmed>>
  BY <1>1, <1>3
<1>4. CASE TickBegins
  BY <1>1, <1>4 DEF TickBegins
<1>5. CASE Replace
  <2>1. /\ phase = "evaluate" /\ UNCHANGED <<started, trimmed>>
        /\ scan_results' = [s \in Symbols |->
             IF s \in Evaluated THEN [results[s] EXCEPT !.stamp = now + ZoneLead]
                                ELSE scan_results[s]]
    BY <1>5 DEF Replace
  <2>2. ASSUME NEW s \in Symbols \ trimmed.kept, scan_results'[s] # NoRow
        PROVE  scan_results'[s].seen >= trimmed.at
    <3>1. CASE s \in Evaluated
      <4>1. scan_results'[s].seen = results[s].seen
        BY <1>1, <2>1, <3>1 DEF Row
      <4>2. started <= results[s].seen
        BY <1>1, <3>1 DEF Evaluated, VerdictsOfTick
      <4> QED
        BY <1>1, <1>2, <2>1, <4>1, <4>2
    <3>2. CASE s \notin Evaluated
      BY <1>1, <2>1, <2>2, <3>2
    <3> QED
      BY <3>1, <3>2
  <2> QED
    BY <1>1, <2>1, <2>2
<1>6. CASE Trim
  <2>1. /\ phase' = "sleep"
        /\ scan_results' = [s \in Symbols |-> IF s \in Dropped THEN NoRow ELSE scan_results[s]]
        /\ trimmed' = IF survivors = {} THEN trimmed ELSE [kept |-> survivors, at |-> now]
    BY <1>6 DEF Trim, TickOver
  <2>2. CASE survivors = {}
    BY <1>1, <2>1, <2>2 DEF Dropped
  <2>3. CASE survivors # {}
    BY <2>1, <2>3 DEF Dropped
  <2> QED
    BY <2>2, <2>3
<1>7. CASE TickRaises \/ ScannerDies \/ ScannerRestarts
  <2>1. phase' \in {"sleep", "down"} /\ UNCHANGED <<scan_results, trimmed>>
    BY <1>7 DEF TickRaises, ScannerDies, ScannerRestarts, TickOver
  <2> QED
    BY <1>1, <2>1
<1> QED
  BY <1>3, <1>4, <1>5, <1>6, <1>7 DEF Next, vars, ScannerStep, ExecutorStep, DayOver, Tick,
     TickIdle, Evaluate, BeginScan, OrderDone, EndScan, Order

-----------------------------------------------------------------------------
\* The invariant holds whatever Scanner, clock and Executor do.
LEMMA Invariance == Spec => []IInv
<1>1. Init => IInv
  <2> SUFFICES ASSUME Init PROVE IInv
    OBVIOUS
  <2>1. TypeOK
    BY ConstantsAssumption, NoRowTypes DEF Init, TypeOK, Phases, ScanSteps, ConstantsAssumption
  <2>2. VerdictsOfTick /\ TicksInTime /\ RowsOfTicks /\ CandidatesFresh
    BY NoRowTypes DEF Init, VerdictsOfTick, TicksInTime, RowsOfTicks, CandidatesFresh, NoResults, NoRow
  <2>3. LoopInTime /\ WrittenInTime /\ TrimsInOrder
    BY ConstantsAssumption, FS_EmptySet DEF Init, LoopInTime, WrittenInTime, TrimsInOrder,
       DroppedSymbolsGone, ConstantsAssumption
  <2> QED
    BY <2>1, <2>2, <2>3 DEF IInv
<1>2. IInv /\ [Next]_vars => IInv'
  <2> SUFFICES ASSUME IInv, [Next]_vars PROVE IInv'
    OBVIOUS
  <2>1. TypeOK' /\ VerdictsOfTick' /\ TicksInTime'
    BY ConstantsAssumption, TypeStep, TickStep DEF IInv
  <2>2. RowsOfTicks' /\ CandidatesFresh' /\ LoopInTime' /\ WrittenInTime' /\ TrimsInOrder'
    BY ConstantsAssumption, FreshStep, LoopStep, WrittenStep, TrimStep DEF IInv
  <2> QED
    BY <2>1, <2>2 DEF IInv
<1> QED
  BY <1>1, <1>2, PTL DEF Spec

\* Every variable of the model keeps its type, and no time is in the future.
THEOREM BoardTypeCorrect == Spec => []TypeOK
<1>1. IInv => TypeOK
  BY DEF IInv
<1> QED
  BY <1>1, Invariance, PTL

\* The data behind an order is at most MaxAge, a tick and the earlier orders of
\* the same loop old, however many symbols there are and however often the
\* Scanner died.
THEOREM SignalAge == Spec => []SignalAgeBounded
<1>1. ASSUME IInv, ZoneLead = 0, step = "buy"
      PROVE  since - signal.seen <= MaxAge + ScanTime + (Cardinality(Symbols) - 1) * EntryTime
  <2>1. /\ since \in Nat /\ now_et \in Nat /\ EntryTime \in Nat /\ MaxAge \in Nat /\ ScanTime \in Nat
        /\ Cardinality(Symbols) \in Nat /\ Cardinality(rows) \in Nat
    BY <1>1, ConstantsAssumption, FS_CardinalityType DEF IInv, TypeOK, LoopInTime, ConstantsAssumption
  <2>2. signal.stamp \in Int /\ signal.seen \in Int /\ FreshCandidate(signal)
    BY <1>1 DEF IInv, CandidatesFresh, Candidate
  <2>3. since - now_et <= (Cardinality(Symbols) - Cardinality(rows) - 1) * EntryTime
    BY <1>1 DEF IInv, LoopInTime
  <2>4. \A n, k, e \in Nat : (n - k - 1) * e <= (n - 1) * e
    <3>1. \A n, k, e \in Nat : (n - k - 1) * e = (n - 1) * e - k * e /\ k * e \in Nat
      OBVIOUS
    <3> QED
      BY <3>1
  <2>5. (Cardinality(Symbols) - Cardinality(rows) - 1) * EntryTime
          <= (Cardinality(Symbols) - 1) * EntryTime
    BY <2>1, <2>4
  <2>6. now_et - signal.seen <= MaxAge + ScanTime
    BY <1>1, <2>1, <2>2 DEF FreshCandidate
  <2> DEFINE a == (Cardinality(Symbols) - Cardinality(rows) - 1) * EntryTime
             b == (Cardinality(Symbols) - 1) * EntryTime
  <2>7. a \in Int /\ b \in Int /\ since - now_et <= a /\ a <= b
    BY <2>1, <2>3, <2>5
  <2> HIDE DEF a
  <2>8. since - signal.seen <= MaxAge + ScanTime + b
    <3> HIDE DEF b
    <3> QED
      BY <2>1, <2>2, <2>6, <2>7
  <2> QED
    BY <2>8
<1>2. IInv => SignalAgeBounded
  BY <1>1 DEF SignalAgeBounded
<1> QED
  BY <1>2, Invariance, PTL

\* While nothing fails, a signal that keeps passing is never too old to be
\* bought, if what lies between the starts of two ticks and a tick fit into MaxAge.
THEOREM BoardFresh == Spec => []BoardStaysFresh
<1>1. ASSUME IInv, budget = MaxFaults, now <= LatestEntry, Pause + ScanTime <= MaxAge, NEW s \in written
      PROVE  now + ZoneLead - scan_results[s].stamp <= MaxAge
  <2>1. /\ now \in Nat /\ started \in Nat /\ wake \in Nat /\ ScanTime \in Nat /\ ZoneLead \in Nat
        /\ MaxAge \in Nat /\ phase \in Phases /\ s \in Symbols
    BY <1>1, ConstantsAssumption DEF IInv, TypeOK, ConstantsAssumption
  <2>2. scan_results[s].stamp \in Int
    BY <1>1, <2>1 DEF IInv, TypeOK, Row
  <2>3. Pause \in Nat
    BY ConstantsAssumption DEF Pause, Later, ConstantsAssumption
  <2>4. /\ phase \in {"sleep", "evaluate", "trim"}
        /\ phase = "trim" => started <= Written(s) /\ now <= started + ScanTime
        /\ phase = "evaluate" => started <= Written(s) + Pause /\ now <= started + ScanTime
        /\ phase = "sleep" => wake <= Written(s) + Pause /\ now <= wake
    BY <1>1, <2>1 DEF IInv, WrittenInTime, TicksInTime, Phases
  <2> QED
    BY <1>1, <2>1, <2>2, <2>3, <2>4 DEF Written
<1>2. IInv => BoardStaysFresh
  BY <1>1 DEF BoardStaysFresh, Pause
<1> QED
  BY <1>2, Invariance, PTL

\* Of a symbol that the last complete tick dropped no older verdict is on the
\* board, whichever ticks raised or died since and wherever they stopped.
THEOREM DroppedGone == Spec => []DroppedSymbolsGone
<1>1. IInv => DroppedSymbolsGone
  BY DEF IInv, TrimsInOrder
<1> QED
  BY <1>1, Invariance, PTL

\* On a server in Eastern Time no order follows a row that was written more
\* than MaxAge before entry_scan began, whatever became of the Scanner.
THEOREM StaleRowsIgnored ==
  ASSUME ZoneLead = 0
  PROVE  Spec => []DeadScannerIgnored
<1>1. IInv => DeadScannerIgnored
  <2> SUFFICES ASSUME IInv, step = "buy"
               PROVE  now_et - (signal.stamp - ZoneLead) <= MaxAge
    BY DEF DeadScannerIgnored
  <2>1. signal.stamp \in Int /\ FreshCandidate(signal)
    BY DEF IInv, CandidatesFresh, Candidate
  <2>2. now_et \in Nat /\ MaxAge \in Nat
    BY ConstantsAssumption DEF IInv, TypeOK, ConstantsAssumption
  <2> QED
    BY <2>1, <2>2 DEF FreshCandidate
<1> QED
  BY <1>1, Invariance, PTL

=============================================================================
