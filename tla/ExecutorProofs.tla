--------------------------- MODULE ExecutorProofs ---------------------------
(***************************************************************************)
(* Theorems about Executor, for any symbols, caps, bounds and failures.    *)
(***************************************************************************)
EXTENDS Executor, FiniteSetTheorems, TLAPS

Busy == pc \in {"trade", "place", "save"}

\* the loop whose row is being worked on
Loop == IF Busy THEN job.back ELSE pc

RowsWhole == \A s \in Symbols : positions[s].qty = 0 => positions[s] = NoRow

\* The loops over positions have only rows left to visit, the loop over the
\* candidates only symbols without one.
VisitsRows ==
  /\ Loop \in {"manage", "close"} => todo \subseteq Tracked
  /\ Loop = "entries" => todo \intersect Tracked = {}
  /\ Busy => job.sym \in todo

\* what saving row new in the place of row old may change
Tightens(old, new) ==
  \/ new.stop = old.stop /\ new.trail = old.trail
  \/ new.stop > old.stop /\ new.stop > InitialStop /\ new.trail

JobTightens == Busy /\ job.back # "entries" => Tightens(positions[job.sym], job.row)

\* From the check of the caps to the row they allow, nobody uses the slot up.
JobHasSlot ==
  Busy /\ job.back = "entries" =>
    /\ Cardinality(Tracked) < MaxConcurrent
    /\ ~job.row.trail
    /\ child \in {"working", "filled"} => entriesToday < MaxTrades

IInv ==
  /\ TypeOK /\ RowsWhole /\ VisitsRows
  /\ JobTightens /\ JobHasSlot
  /\ AtMostMaxConcurrent /\ DailyQuota

\* Any set of symbols with rows is finite, so its size is a number.
LEMMA TrackedFinite ==
  ASSUME ConstantsAssumption
  PROVE  IsFiniteSet(Tracked) /\ Cardinality(Tracked) \in Nat
<1>1. Tracked \subseteq Symbols
  BY DEF Tracked
<1>2. IsFiniteSet(Tracked)
  BY <1>1, FS_Subset DEF ConstantsAssumption
<1> QED
  BY <1>2, FS_CardinalityType

\* The initial state: empty tables, an idle process.
LEMMA InitInv == Init => IInv
<1> SUFFICES ASSUME Init PROVE IInv
  OBVIOUS
<1> USE ConstantsAssumption DEF Init, ConstantsAssumption
<1>1. TypeOK
  BY DEF TypeOK, NoRow, Row, Levels, NoId, NoJob, Job, Loops, Steps, ChildStates, TimesOfDay
<1>2. RowsWhole
  BY DEF RowsWhole
<1>3. Tracked = {}
  BY DEF Tracked, NoRow
<1>4. VisitsRows /\ JobTightens /\ JobHasSlot
  BY DEF VisitsRows, JobTightens, JobHasSlot, Loop, Busy
<1>5. AtMostMaxConcurrent /\ DailyQuota
  BY <1>3, FS_EmptySet DEF AtMostMaxConcurrent, DailyQuota
<1> QED
  BY <1>1, <1>2, <1>4, <1>5 DEF IInv

-----------------------------------------------------------------------------
(* Type correctness.                                                       *)

\* Rows and jobs are built field by field; these are the ways the code does it.
LEMMA RowFacts ==
  ASSUME NEW r \in Row
  PROVE  /\ r.qty \in Nat /\ r.stop \in Levels /\ r.trail \in BOOLEAN
         /\ \A level \in Levels : [r EXCEPT !.stop = level] \in Row
         /\ \A level \in Levels : [r EXCEPT !.stop = level, !.trail = TRUE] \in Row
         /\ \A q \in Nat : [r EXCEPT !.qty = q] \in Row
         /\ \A q \in Nat, level \in Levels : [r EXCEPT !.qty = q, !.stop = level] \in Row
         /\ \A c \in BOOLEAN : [r EXCEPT !.trail = @ \/ c] \in Row
         /\ \A id \in OrderId : [r EXCEPT !.id = id] \in Row
<1>1. \A c \in BOOLEAN : (r.trail \/ c) \in BOOLEAN
  OBVIOUS
<1> QED
  BY <1>1 DEF Row

\* The absent row and the absent job are well-typed, and an entry's row is
\* built from the absent one.
LEMMA NoRowType ==
  NoRow \in Row /\ NoJob \in Job /\ \A q \in Nat : [NoRow EXCEPT !.qty = q] \in Row
<1>1. NoRow \in Row
  BY ConstantsAssumption DEF ConstantsAssumption, NoRow, Row, Levels
<1>2. NoJob \in Job
  BY <1>1 DEF NoJob, Job, Loops
<1> QED
  BY <1>1, <1>2, RowFacts

\* What the fields of a job are, and that its row can be replaced.
LEMMA JobFacts ==
  ASSUME NEW j \in Job
  PROVE  /\ j.sym \in Symbols \union {0} /\ j.back \in Loops /\ j.row \in Row
         /\ \A r \in Row : [j EXCEPT !.row = r] \in Job
BY DEF Job

\* The job an action hands to the next step is one.
LEMMA JobType ==
  \A s \in Symbols, back \in Loops, r \in Row : [sym |-> s, back |-> back, row |-> r] \in Job
BY DEF Job

\* Shares stay whole numbers whatever is delivered.
LEMMA DeliverType ==
  ASSUME shares \in [Symbols -> Int], NEW side, NEW s \in Symbols, NEW q \in Nat,
         Deliver(side, s, q)
  PROVE  shares' \in [Symbols -> Int]
BY DEF Deliver, Signed

\* An order let go of by a process that dies is a well-formed market order.
LEMMA WorkingStrays ==
  ASSUME TypeOK, child = "working", LetGo(0)
  PROVE  strays' \subseteq MarketOrder
<1>1. pc = "trade" /\ budget \in Nat /\ job \in Job
  BY DEF TypeOK
<1>2. job.sym \in Symbols
  BY <1>1 DEF TypeOK
<1>3. job.row.qty \in Nat
  BY <1>1, JobFacts, RowFacts
<1>4. job.row.qty - 0 \in Nat
  BY <1>3
<1> QED
  BY <1>1, <1>2, <1>4 DEF TypeOK, LetGo, MarketOrder, Sides, SideOfJob

\* Asking for a cancel leaves every order an order.
LEMMA CancelType ==
  ASSUME stops \subseteq StopOrder, NEW s \in Symbols, CancelStop(s)
  PROVE  stops' \subseteq StopOrder
<1>1. \A o \in StopOrder : [o EXCEPT !.ask = "sent"] \in StopOrder
  BY DEF StopOrder, Asks
<1> QED
  BY <1>1 DEF CancelStop

\* Every step keeps every variable in its type.  Needs VisitsRows: the row a
\* force close sells, or a trailing stop raises, exists and has shares.
LEMMA TypeStep == IInv /\ [Next]_vars => TypeOK'
<1> SUFFICES ASSUME IInv, [Next]_vars PROVE TypeOK'
  OBVIOUS
<1> USE ConstantsAssumption
    DEF ConstantsAssumption, IInv, TypeOK, Steps, Loops, ChildStates, TimesOfDay,
        vars, db, broker, process, failures
<1>0. NoRow \in Row /\ NoJob \in Job /\ job.row \in Row /\ job.sym \in Symbols \union {0}
        /\ \A s \in Symbols : positions[s] \in Row
  BY NoRowType, JobFacts
<1>1. CASE CycleStep
  <2>1. CASE Connect
    BY <2>1 DEF Connect, time_gate, StoppedOut, Tracked
  <2>2. CASE BeginManage
    BY <2>2 DEF BeginManage, Tracked
  <2>3. CASE PlaceStop
    <3>1. PICK n \in 1 .. MaxOrders :
            /\ job' = [job EXCEPT !.row.id = <<job.sym, n>>]
            /\ \/ /\ stops' = stops \union {[id |-> <<job.sym, n>>, sym |-> job.sym,
                                             qty |-> job.row.qty, level |-> job.row.stop,
                                             ask |-> "none"]}
                  /\ NoFault
               \/ Fault("deadstop") /\ UNCHANGED stops
      BY <2>3 DEF PlaceStop
    <3>2. <<job.sym, n>> \in OrderId
      BY <2>3 DEF PlaceStop, OrderId
    <3>3. job' \in Job /\ job'.sym = job.sym /\ job'.row.qty = job.row.qty
      BY <3>1, <3>2 DEF Job, Row
    <3>4. job.sym \in Symbols /\ job.row.qty \in Nat /\ job.row.stop \in Levels
      BY <1>0, <2>3, RowFacts DEF PlaceStop
    <3>5. stops' \subseteq StopOrder
      BY <3>1, <3>2, <3>4 DEF StopOrder, Asks
    <3>6. budget' \in Nat /\ happened' \subseteq FaultKinds
      BY <3>1 DEF NoFault, Fault
    <3> QED
      BY <2>3, <3>3, <3>4, <3>5, <3>6 DEF PlaceStop
  <2>4. CASE Upsert
    <3>1. positions' \in [Symbols -> Row]
      BY <1>0, <2>4 DEF Upsert
    <3>2. pc' \in Loops /\ child = "none"
      BY <2>4, JobFacts DEF Upsert
    <3> QED
      BY <1>0, <2>4, <3>1, <3>2 DEF Upsert, Visited
  <2>5. CASE SkipEntries
    BY <1>0, <2>5 DEF SkipEntries, Rest
  <2>6. CASE BeginEntries
    BY <2>6 DEF BeginEntries
  <2>7. CASE EntryFilled
    <3>0. HardStop \in Levels
      BY DEF HardStop, Levels
    <3>1. [job.row EXCEPT !.stop = HardStop] \in Row
      BY <1>0, <3>0, RowFacts
    <3>2. [job.row EXCEPT !.stop = HardStop].qty = job.row.qty
      BY <1>0 DEF Row
    <3> QED
      BY <2>7, <3>1, <3>2, JobType DEF EntryFilled, GoPlace
  <2>8. CASE EntryRecovered
    <3>1. PICK seen \in BrokerViews, level \in Levels :
            /\ seen[job.sym] # 0
            /\ GoPlace(job.sym, "entries",
                       [job.row EXCEPT !.qty = Abs(seen[job.sym]), !.stop = level])
      BY <2>8 DEF EntryRecovered
    <3> DEFINE row == [job.row EXCEPT !.qty = Abs(seen[job.sym]), !.stop = level]
    <3>2. Abs(seen[job.sym]) \in Nat \ {0}
      BY <2>8, <3>1 DEF BrokerViews, Abs, EntryRecovered
    <3>3. row \in Row /\ row.qty = Abs(seen[job.sym])
      BY <1>0, <3>2 DEF Row
    <3> HIDE DEF row
    <3>4. job' \in Job /\ job'.sym = job.sym /\ job'.row = row /\ pc' = "place"
      BY <2>8, <3>1, <3>3, JobType DEF EntryRecovered, GoPlace, row
    <3> QED
      BY <2>8, <3>2, <3>3, <3>4 DEF EntryRecovered
  <2>9. CASE EntryRefused
    BY <1>0, <2>9 DEF EntryRefused, Visited
  <2>10. CASE EndEntries
    BY <1>0, <2>10 DEF EndEntries, Rest
  <2>11. CASE BeginClose
    BY <2>11 DEF BeginClose, Tracked
  <2>12. CASE CloseConfirmed
    BY <1>0, <2>12 DEF CloseConfirmed, Visited
  <2>13. CASE CloseFailed
    BY <1>0, <2>13, JobType DEF CloseFailed, GoPlace
  <2>14. CASE EndClose
    BY <1>0, <2>14 DEF EndClose, Rest
  <2>15. ASSUME NEW s \in Symbols, StopOut(s) PROVE TypeOK'
    BY <1>0, <2>15 DEF StopOut, Visited
  <2>16. ASSUME NEW s \in Symbols, ManageHold(s) PROVE TypeOK'
    BY <2>16 DEF ManageHold, Visited
  <2>17. ASSUME NEW s \in Symbols, ManageSave(s) PROVE TypeOK'
    <3>1. PICK cleared \in BOOLEAN : positions' = [positions EXCEPT ![s].trail = @ \/ cleared]
      BY <2>17 DEF ManageSave
    <3>2. [positions[s] EXCEPT !.trail = @ \/ cleared] \in Row
      BY <1>0, RowFacts
    <3>3. positions' \in [Symbols -> Row]
      BY <3>1, <3>2
    <3> QED
      BY <2>17, <3>3 DEF ManageSave, Visited
  <2>18. ASSUME NEW s \in Symbols, ManageTrail(s) PROVE TypeOK'
    <3>1. positions[s].qty > 0
      BY <2>18 DEF ManageTrail, IsFirst, VisitsRows, Loop, Busy, Tracked
    <3>2. \A level \in Levels :
            /\ [positions[s] EXCEPT !.stop = level, !.trail = TRUE] \in Row
            /\ [positions[s] EXCEPT !.stop = level, !.trail = TRUE].qty = positions[s].qty
      BY <1>0 DEF Row
    <3> QED
      <4>1. PICK level \in Levels :
              GoPlace(s, "manage", [positions[s] EXCEPT !.stop = level, !.trail = TRUE])
        BY <2>18 DEF ManageTrail, TrailingStops
      <4>2. job' \in Job /\ job'.sym = s /\ job'.row.qty = positions[s].qty /\ pc' = "place"
        BY <3>2, <4>1, JobType DEF GoPlace
      <4> QED
        BY <2>18, <3>1, <4>2, CancelType DEF ManageTrail
  <2>19. ASSUME NEW s \in Symbols, EntryBuy(s) PROVE TypeOK'
    <3>1. \A q \in Nat : [NoRow EXCEPT !.qty = q] \in Row /\ [NoRow EXCEPT !.qty = q].qty = q
      BY NoRowType DEF NoRow
    <3>2. EntrySizes \subseteq Nat \ {0}
      BY DEF EntrySizes
    <3> QED
      <4>1. PICK size \in Nat \ {0} :
              Spawn([sym |-> s, back |-> "entries", row |-> [NoRow EXCEPT !.qty = size]])
        BY <2>19, <3>2 DEF EntryBuy
      <4>2. job' \in Job /\ job'.sym = s /\ job'.row.qty = size /\ pc' = "trade"
        BY <3>1, <4>1, JobType DEF Spawn
      <4> QED
        BY <2>19, <4>1, <4>2 DEF EntryBuy, Spawn
  <2>20. ASSUME NEW s \in Symbols, CloseSell(s) PROVE TypeOK'
    <3>1. positions[s].qty > 0
      BY <2>20 DEF CloseSell, IsFirst, VisitsRows, Loop, Busy, Tracked
    <3> QED
      BY <1>0, <2>20, <3>1, JobType, CancelType DEF CloseSell, Spawn
  <2> QED
    BY <1>1, <2>1, <2>2, <2>3, <2>4, <2>5, <2>6, <2>7, <2>8, <2>9, <2>10, <2>11, <2>12,
       <2>13, <2>14, <2>15, <2>16, <2>17, <2>18, <2>19, <2>20 DEF CycleStep
<1>2. CASE TradeExecStep
  <2>1. CASE OrderFills
    BY <1>0, <2>1, RowFacts, DeliverType DEF OrderFills
  <2>2. CASE OrderRefused
    BY <2>2 DEF OrderRefused
  <2>3. CASE RecordFilled
    <3>1. entriesToday' \in Nat
      BY <2>3 DEF RecordFilled, CountEntry
    <3> QED
      BY <2>3, <3>1 DEF RecordFilled
  <2>4. CASE RecordRefused
    BY <2>4 DEF RecordRefused
  <2>5. CASE RecordLate
    <3>1. PICK done \in 0 .. job.row.qty - 1 :
            Deliver(SideOfJob, job.sym, done) /\ LetGo(done)
      BY <2>5 DEF RecordLate
    <3>0. job.row.qty \in Nat /\ job.sym \in Symbols
      BY <1>0, <2>5, RowFacts DEF RecordLate
    <3>2. done \in Nat /\ job.row.qty - done \in Nat /\ job.sym \in Symbols
      BY <3>0
    <3>3. shares' \in [Symbols -> Int]
      BY <3>1, <3>2, DeliverType
    <3>4. strays' \subseteq MarketOrder
      BY <3>1, <3>2 DEF LetGo, MarketOrder, Sides, SideOfJob
    <3> QED
      BY <2>5, <3>3, <3>4 DEF RecordLate, Fault
  <2>6. CASE TradeExecDies
    <3>1. strays' \subseteq MarketOrder
      BY <2>6, WorkingStrays DEF TradeExecDies
    <3> QED
      BY <2>6, <3>1 DEF TradeExecDies, Fault
  <2>7. CASE FillMisreported
    <3>1. entriesToday' \in Nat
      BY <2>7 DEF FillMisreported, CountEntry
    <3> QED
      BY <2>7, <3>1 DEF FillMisreported, Fault
  <2> QED
    BY <1>2, <2>1, <2>2, <2>3, <2>4, <2>5, <2>6, <2>7 DEF TradeExecStep
<1>3. CASE BrokerStep
  <2>1. ASSUME NEW o \in stops, StopFills(o) PROVE TypeOK'
    <3>1. o.sym \in Symbols /\ o.qty \in Nat /\ o.id \in OrderId
      BY DEF StopOrder
    <3>2. shares' \in [Symbols -> Int]
      BY <2>1, <3>1, DeliverType DEF StopFills
    <3>3. fills' \subseteq OrderId
      BY <2>1, <3>1 DEF StopFills, Noticed
    <3>4. budget' \in Nat /\ happened' \subseteq FaultKinds
      BY <2>1 DEF StopFills, NoFault, Fault
    <3> QED
      BY <2>1, <3>2, <3>3, <3>4 DEF StopFills
  <2>2. ASSUME NEW o \in stops, StopFillsPartly(o) PROVE TypeOK'
    <3>1. o.sym \in Symbols /\ o.qty \in Nat /\ o.id \in OrderId
      BY DEF StopOrder
    <3>2. shares' \in [Symbols -> Int]
      BY <2>2, <3>1, DeliverType DEF StopFillsPartly
    <3>3. fills' \subseteq OrderId
      BY <2>2, <3>1 DEF StopFillsPartly, Noticed
    <3>4. [o EXCEPT !.qty = @ - 1] \in StopOrder
      BY <2>2 DEF StopFillsPartly, StopOrder
    <3> QED
      BY <2>2, <3>2, <3>3, <3>4 DEF StopFillsPartly, Fault
  <2>3. ASSUME NEW o \in strays, StrayFills(o) PROVE TypeOK'
    <3>1. o.sym \in Symbols /\ o.qty \in Nat
      BY DEF MarketOrder
    <3> QED
      BY <2>3, <3>1, DeliverType DEF StrayFills
  <2>4. ASSUME NEW o \in strays, StrayDies(o) PROVE TypeOK'
    BY <2>4 DEF StrayDies
  <2>5. ASSUME NEW o \in stops, CancelTakes(o) PROVE TypeOK'
    BY <2>5 DEF CancelTakes
  <2>6. ASSUME NEW o \in stops, CancelFails(o) PROVE TypeOK'
    <3>1. [o EXCEPT !.ask = "late"] \in StopOrder
      BY DEF StopOrder, Asks
    <3> QED
      BY <2>6, <3>1 DEF CancelFails, Fault
  <2> QED
    BY <1>3, <2>1, <2>2, <2>3, <2>4, <2>5, <2>6 DEF BrokerStep
<1>4. CASE HourPasses
  BY <1>4 DEF HourPasses, Fault
<1>5. CASE Tick
  BY <1>5 DEF Tick, Fault, NoFault
<1>6. CASE ToggleTrading
  BY <1>6 DEF ToggleTrading
<1>7. CASE Abort
  <2>1. strays' \subseteq MarketOrder
    BY <1>7, WorkingStrays DEF Abort
  <2>2. budget' \in Nat /\ happened' \subseteq FaultKinds
    BY <1>7 DEF Abort, Fault
  <2> QED
    BY <1>0, <1>7, <2>1, <2>2 DEF Abort, Rest
<1>8. CASE UNCHANGED vars
  BY <1>8
<1> QED
  BY <1>1, <1>2, <1>3, <1>4, <1>5, <1>6, <1>7, <1>8 DEF Next

-----------------------------------------------------------------------------
(* The rows and the loops over them.                                       *)

\* What is not a step of the cycle, nor its end, leaves the cycle's place, its
\* work and the rows alone.
LEMMA Surroundings ==
  ASSUME TradeExecStep \/ BrokerStep \/ HourPasses \/ Tick \/ ToggleTrading
  PROVE  UNCHANGED <<positions, pc, todo, job>>
BY DEF TradeExecStep, OrderFills, OrderRefused, RecordFilled, RecordRefused, RecordLate,
       TradeExecDies, FillMisreported, BrokerStep, StopFills, StopFillsPartly, CancelTakes,
       CancelFails, StrayFills, StrayDies, HourPasses, Tick, ToggleTrading, db, process

\* Rows are whole, and the loops keep to the rows (or the candidates) they
\* still have to visit.
LEMMA VisitStep == IInv /\ [Next]_vars => RowsWhole' /\ VisitsRows'
<1> SUFFICES ASSUME IInv, [Next]_vars PROVE RowsWhole' /\ VisitsRows'
  OBVIOUS
<1>0. /\ positions \in [Symbols -> Row] /\ todo \subseteq Symbols
      /\ RowsWhole /\ VisitsRows /\ job \in Job
      /\ Busy => job.sym \in Symbols /\ job.row.qty > 0
  BY DEF IInv, TypeOK, Busy
<1> USE DEF VisitsRows, Loop, Busy
<1>1. CASE CycleStep
  <2>1. CASE Connect
    BY <1>0, <2>1 DEF Connect, db, RowsWhole
  <2>2. CASE BeginManage
    BY <1>0, <2>2 DEF BeginManage, db, RowsWhole, Tracked
  <2>3. CASE PlaceStop
    <3>1. job'.sym = job.sym /\ job'.back = job.back
      BY <1>0, <2>3 DEF PlaceStop, Job
    <3> QED
      BY <1>0, <2>3, <3>1 DEF PlaceStop, db, RowsWhole, Tracked
  <2>4. CASE Upsert
    <3>1. positions'[job.sym] = job.row
          /\ \A s \in Symbols \ {job.sym} : positions'[s] = positions[s]
      BY <1>0, <2>4 DEF Upsert
    <3>2. RowsWhole'
      BY <1>0, <2>4, <3>1 DEF Upsert, RowsWhole
    <3>3. \A s \in Symbols \ {job.sym} : s \in Tracked' <=> s \in Tracked
      BY <3>1 DEF Tracked
    <3>4. job.back \in Loops /\ pc' = job.back /\ todo' = todo \ {job.sym}
      BY <1>0, <2>4, JobFacts DEF Upsert, Visited
    <3> QED
      BY <1>0, <2>4, <3>2, <3>3, <3>4 DEF Upsert, Loops
  <2>5. CASE SkipEntries
    BY <1>0, <2>5 DEF SkipEntries, Rest, db, RowsWhole
  <2>6. CASE BeginEntries
    BY <1>0, <2>6 DEF BeginEntries, HeldSymbols, db, RowsWhole, Tracked
  <2>7. CASE EntryFilled
    BY <1>0, <2>7 DEF EntryFilled, GoPlace, db, RowsWhole, Tracked
  <2>8. CASE EntryRecovered
    BY <1>0, <2>8 DEF EntryRecovered, GoPlace, db, RowsWhole, Tracked
  <2>9. CASE EntryRefused
    BY <1>0, <2>9 DEF EntryRefused, Visited, db, RowsWhole, Tracked
  <2>10. CASE EndEntries
    BY <1>0, <2>10 DEF EndEntries, Rest, db, RowsWhole
  <2>11. CASE BeginClose
    BY <1>0, <2>11 DEF BeginClose, db, RowsWhole, Tracked
  <2>12. CASE CloseConfirmed
    <3>1. positions'[job.sym] = NoRow
          /\ \A s \in Symbols \ {job.sym} : positions'[s] = positions[s]
      BY <1>0, <2>12 DEF CloseConfirmed
    <3>2. RowsWhole'
      BY <1>0, <3>1 DEF RowsWhole
    <3>3. todo' = todo \ {job.sym} /\ todo' \subseteq Tracked'
      BY <1>0, <2>12, <3>1 DEF CloseConfirmed, Visited, Tracked
    <3> QED
      BY <2>12, <3>2, <3>3 DEF CloseConfirmed
  <2>13. CASE CloseFailed
    BY <1>0, <2>13 DEF CloseFailed, GoPlace, db, RowsWhole, Tracked
  <2>14. CASE EndClose
    BY <1>0, <2>14 DEF EndClose, Rest, db, RowsWhole
  <2>15. ASSUME NEW s \in Symbols, StopOut(s) PROVE RowsWhole' /\ VisitsRows'
    BY <1>0, <2>15 DEF StopOut, RowsWhole
  <2>16. ASSUME NEW s \in Symbols, ManageHold(s) PROVE RowsWhole' /\ VisitsRows'
    BY <1>0, <2>16 DEF ManageHold, Visited, db, RowsWhole, Tracked
  <2>17. ASSUME NEW s \in Symbols, ManageSave(s) PROVE RowsWhole' /\ VisitsRows'
    <3>1. positions[s].qty > 0
      BY <1>0, <2>17 DEF ManageSave, IsFirst, Tracked
    <3>2. \A t \in Symbols : /\ positions'[t].qty = positions[t].qty
                             /\ t # s => positions'[t] = positions[t]
      BY <1>0, <2>17 DEF ManageSave, Row
    <3>3. Tracked' = Tracked
      BY <3>2 DEF Tracked
    <3>4. RowsWhole'
      BY <1>0, <3>1, <3>2 DEF RowsWhole
    <3> QED
      BY <1>0, <2>17, <3>3, <3>4 DEF ManageSave, Visited
  <2>18. ASSUME NEW s \in Symbols, ManageTrail(s) PROVE RowsWhole' /\ VisitsRows'
    BY <1>0, <2>18 DEF ManageTrail, GoPlace, IsFirst, db, RowsWhole, Tracked
  <2>19. ASSUME NEW s \in Symbols, EntryBuy(s) PROVE RowsWhole' /\ VisitsRows'
    BY <1>0, <2>19 DEF EntryBuy, Spawn, IsFirst, db, RowsWhole, Tracked
  <2>20. ASSUME NEW s \in Symbols, CloseSell(s) PROVE RowsWhole' /\ VisitsRows'
    BY <1>0, <2>20 DEF CloseSell, Spawn, IsFirst, db, RowsWhole, Tracked
  <2> QED
    BY <1>1, <2>1, <2>2, <2>3, <2>4, <2>5, <2>6, <2>7, <2>8, <2>9, <2>10, <2>11, <2>12,
       <2>13, <2>14, <2>15, <2>16, <2>17, <2>18, <2>19, <2>20 DEF CycleStep
<1>2. CASE TradeExecStep \/ BrokerStep \/ HourPasses \/ Tick \/ ToggleTrading
  BY <1>0, <1>2, Surroundings DEF RowsWhole, Tracked
<1>3. CASE Abort
  BY <1>0, <1>3 DEF Abort, Rest, db, RowsWhole
<1>4. CASE UNCHANGED vars
  BY <1>0, <1>4 DEF vars, db, process, failures, RowsWhole, Tracked
<1> QED
  BY <1>1, <1>2, <1>3, <1>4 DEF Next

-----------------------------------------------------------------------------
(* The work in hand, and the caps.                                         *)

\* The row a step works on never loosens the row it will replace.
LEMMA TightenStep == IInv /\ [Next]_vars => JobTightens'
<1> SUFFICES ASSUME IInv, [Next]_vars PROVE JobTightens'
  OBVIOUS
<1>0. /\ positions \in [Symbols -> Row] /\ JobTightens /\ VisitsRows /\ job \in Job
      /\ job.row \in Row
  BY JobFacts DEF IInv, TypeOK
<1> USE DEF JobTightens, Busy
<1>1. CASE CycleStep
  <2>1. CASE PlaceStop
    <3>1. /\ job'.sym = job.sym /\ job'.back = job.back
          /\ job'.row.stop = job.row.stop /\ job'.row.trail = job.row.trail
      BY <1>0, <2>1 DEF PlaceStop, Job, Row
    <3> QED
      BY <1>0, <2>1, <3>1 DEF PlaceStop, db, Tightens
  <2>2. CASE CloseFailed
    BY <1>0, <2>2 DEF CloseFailed, GoPlace, db
  <2>3. ASSUME NEW s \in Symbols, ManageTrail(s) PROVE JobTightens'
    <3>1. PICK level \in TrailingStops(positions[s]) :
            GoPlace(s, "manage", [positions[s] EXCEPT !.stop = level, !.trail = TRUE])
      BY <2>3 DEF ManageTrail
    <3>2. positions[s] \in Row
      BY <1>0
    <3>3. /\ job'.sym = s /\ job'.row.stop = level /\ job'.row.trail
          /\ level > positions[s].stop /\ level > InitialStop
      BY <3>1, <3>2 DEF GoPlace, TrailingStops, Row
    <3> QED
      BY <2>3, <3>3 DEF ManageTrail, db, Tightens
  <2>4. ASSUME NEW s \in Symbols, CloseSell(s) PROVE JobTightens'
    BY <1>0, <2>4 DEF CloseSell, Spawn, db, Tightens
  <2>5. CASE EntryFilled \/ EntryRecovered \/ \E s \in Symbols : EntryBuy(s)
    <3>1. CASE EntryFilled
      BY <3>1 DEF EntryFilled, GoPlace
    <3>2. CASE EntryRecovered
      BY <3>2 DEF EntryRecovered, GoPlace
    <3>3. ASSUME NEW s \in Symbols, EntryBuy(s) PROVE JobTightens'
      BY <3>3 DEF EntryBuy, Spawn
    <3> QED
      BY <2>5, <3>1, <3>2, <3>3
  <2>6. CASE \/ Connect \/ BeginManage \/ Upsert
             \/ SkipEntries \/ BeginEntries \/ EntryRefused \/ EndEntries
             \/ BeginClose \/ CloseConfirmed \/ EndClose
             \/ \E s \in Symbols : StopOut(s) \/ ManageHold(s) \/ ManageSave(s)
    <3>1. pc' \notin {"trade", "place", "save"}
      BY <1>0, <2>6, JobFacts
      DEF Connect, BeginManage, Upsert, SkipEntries, BeginEntries, EntryRefused, EndEntries,
          BeginClose, CloseConfirmed, EndClose, StopOut, ManageHold, ManageSave, Rest, Loops
    <3> QED
      BY <3>1
  <2> QED
    BY <1>1, <2>1, <2>2, <2>3, <2>4, <2>5, <2>6 DEF CycleStep
<1>2. CASE TradeExecStep \/ BrokerStep \/ HourPasses \/ Tick \/ ToggleTrading
  BY <1>0, <1>2, Surroundings
<1>3. CASE Abort
  BY <1>3 DEF Abort, Rest
<1>4. CASE UNCHANGED vars
  BY <1>0, <1>4 DEF vars, db, process, failures
<1> QED
  BY <1>1, <1>2, <1>3, <1>4 DEF Next

\* Rows come only from saving the job of an entry; every other step keeps the
\* set of symbols with a row or shrinks it.
LEMMA TrackedStep ==
  ASSUME IInv, [Next]_vars
  PROVE  \/ Tracked' \subseteq Tracked
         \/ Upsert /\ job.back = "entries" /\ Tracked' \subseteq Tracked \union {job.sym}
<1>0. positions \in [Symbols -> Row] /\ VisitsRows
  BY DEF IInv, TypeOK
<1>1. CASE positions' = positions
  BY <1>1 DEF Tracked
<1>2. CASE Upsert
  <2>1. job.sym \in Symbols /\ job.sym \in todo /\ job.back \in Loops
    BY <1>0, <1>2, JobFacts DEF Upsert, IInv, TypeOK, VisitsRows, Busy
  <2>2. \A s \in Symbols \ {job.sym} : positions'[s] = positions[s]
    BY <1>0, <1>2 DEF Upsert
  <2>3. Tracked' \subseteq Tracked \union {job.sym}
    BY <2>2 DEF Tracked
  <2>4. job.back # "entries" => job.sym \in Tracked
    BY <1>0, <1>2, <2>1 DEF Upsert, VisitsRows, Loop, Busy, Loops
  <2> QED
    BY <1>2, <2>3, <2>4
<1>3. CASE CloseConfirmed \/ \E s \in Symbols : StopOut(s)
  BY <1>0, <1>3 DEF CloseConfirmed, StopOut, Tracked, NoRow
<1>4. ASSUME NEW s \in Symbols, ManageSave(s) PROVE Tracked' \subseteq Tracked
  BY <1>0, <1>4 DEF ManageSave, Tracked, Row
<1>5. CASE ~(Upsert \/ CloseConfirmed \/ \E s \in Symbols : StopOut(s) \/ ManageSave(s))
  <2>1. positions' = positions
    BY <1>5, Surroundings
    DEF Next, CycleStep, Connect, BeginManage, PlaceStop, SkipEntries, BeginEntries,
        EntryFilled, EntryRecovered, EntryRefused, EndEntries, BeginClose, CloseFailed,
        EndClose, ManageHold, ManageTrail, EntryBuy, CloseSell, Abort, vars, db
  <2> QED
    BY <1>1, <2>1
<1> QED
  BY <1>2, <1>3, <1>4, <1>5

\* The slot checked before the order is still there when the row is saved.
LEMMA CapStep == IInv /\ [Next]_vars => AtMostMaxConcurrent'
<1> SUFFICES ASSUME IInv, [Next]_vars PROVE AtMostMaxConcurrent'
  OBVIOUS
<1> USE ConstantsAssumption
<1>1. IsFiniteSet(Tracked) /\ Cardinality(Tracked) \in Nat /\ MaxConcurrent \in Nat
  BY TrackedFinite DEF ConstantsAssumption
<1>2. CASE Tracked' \subseteq Tracked
  BY <1>1, <1>2, FS_Subset, FS_CardinalityType DEF IInv, AtMostMaxConcurrent
<1>3. CASE Upsert /\ job.back = "entries" /\ Tracked' \subseteq Tracked \union {job.sym}
  <2>1. Cardinality(Tracked) < MaxConcurrent
    BY <1>3 DEF IInv, JobHasSlot, Busy, Upsert
  <2>2. /\ IsFiniteSet(Tracked \union {job.sym})
        /\ Cardinality(Tracked \union {job.sym}) <= MaxConcurrent
    <3>1. /\ IsFiniteSet(Tracked \union {job.sym})
          /\ \/ Cardinality(Tracked \union {job.sym}) = Cardinality(Tracked)
             \/ Cardinality(Tracked \union {job.sym}) = Cardinality(Tracked) + 1
      BY <1>1, FS_AddElement
    <3> QED
      BY <1>1, <2>1, <3>1
  <2>3. /\ Cardinality(Tracked') \in Nat
        /\ Cardinality(Tracked') <= Cardinality(Tracked \union {job.sym})
        /\ Cardinality(Tracked \union {job.sym}) \in Nat
    BY <1>3, <2>2, FS_Subset, FS_CardinalityType
  <2> QED
    BY <1>1, <2>2, <2>3 DEF AtMostMaxConcurrent
<1> QED
  BY <1>2, <1>3, TrackedStep

\* From the check to the record of the entry and to its row, the slot and the
\* place in the quota stay free: between them nothing else opens a position
\* or records an entry, and only a new day, between cycles, changes the count.
LEMMA SlotStep == IInv /\ [Next]_vars => JobHasSlot' /\ DailyQuota'
<1> SUFFICES ASSUME IInv, [Next]_vars PROVE JobHasSlot' /\ DailyQuota'
  OBVIOUS
<1>0. /\ JobHasSlot /\ DailyQuota /\ job \in Job /\ job.row \in Row
      /\ entriesToday \in Nat /\ MaxTrades \in Nat /\ MaxConcurrent \in Nat
      /\ child # "none" => pc = "trade"
      /\ Cardinality(Tracked) \in Nat
  BY ConstantsAssumption, TrackedFinite, JobFacts DEF IInv, TypeOK, ConstantsAssumption
<1> USE DEF JobHasSlot, DailyQuota, Busy
<1>1. CASE CycleStep
  <2>0. entriesToday' = entriesToday
    BY <1>1
    DEF CycleStep, Connect, BeginManage, PlaceStop, Upsert, SkipEntries, BeginEntries,
        EntryFilled, EntryRecovered, EntryRefused, EndEntries, BeginClose, CloseConfirmed,
        CloseFailed, EndClose, StopOut, ManageHold, ManageSave, ManageTrail, EntryBuy,
        CloseSell, db
  <2>1. CASE PlaceStop
    <3>1. job'.back = job.back /\ job'.row.trail = job.row.trail /\ Tracked' = Tracked
      BY <1>0, <2>1 DEF PlaceStop, Job, Row, db, Tracked
    <3> QED
      BY <1>0, <2>0, <2>1, <3>1 DEF PlaceStop
  <2>2. CASE EntryFilled
    <3>1. [job.row EXCEPT !.stop = HardStop].trail = job.row.trail /\ Tracked' = Tracked
      BY <1>0, <2>2 DEF EntryFilled, Row, db, Tracked
    <3> QED
      BY <1>0, <2>0, <2>2, <3>1 DEF EntryFilled, GoPlace
  <2>3. CASE EntryRecovered
    <3>1. /\ \A q \in Int, level \in Levels :
               [job.row EXCEPT !.qty = q, !.stop = level].trail = job.row.trail
          /\ Tracked' = Tracked
      BY <1>0, <2>3 DEF EntryRecovered, Row, db, Tracked
    <3>2. \A seen \in BrokerViews : Abs(seen[job.sym]) \in Int
      BY <2>3, JobFacts DEF EntryRecovered, BrokerViews, Abs, IInv, TypeOK
    <3>3. job'.back = "entries" /\ job'.row.trail = job.row.trail /\ pc' = "place"
      <4>1. PICK seen \in BrokerViews, level \in Levels :
              GoPlace(job.sym, "entries",
                      [job.row EXCEPT !.qty = Abs(seen[job.sym]), !.stop = level])
        BY <2>3 DEF EntryRecovered
      <4>2. Abs(seen[job.sym]) \in Int
        BY <3>2
      <4> QED
        BY <3>1, <4>1, <4>2 DEF GoPlace
    <3> QED
      BY <1>0, <2>0, <2>3, <3>1, <3>3 DEF EntryRecovered
  <2>4. ASSUME NEW s \in Symbols, EntryBuy(s) PROVE JobHasSlot' /\ DailyQuota'
    <3>1. Cardinality(Tracked) < MaxConcurrent /\ entriesToday < MaxTrades /\ Tracked' = Tracked
      BY <1>0, <2>4 DEF EntryBuy, CapReached, db, Tracked
    <3>2. \A size \in EntrySizes : ~[NoRow EXCEPT !.qty = size].trail
      BY DEF NoRow
    <3>3. ~job'.row.trail
      <4>1. PICK size \in EntrySizes :
              Spawn([sym |-> s, back |-> "entries", row |-> [NoRow EXCEPT !.qty = size]])
        BY <2>4 DEF EntryBuy
      <4> QED
        BY <3>2, <4>1 DEF Spawn
    <3> QED
      BY <1>0, <2>0, <2>4, <3>1, <3>3 DEF EntryBuy
  <2>5. CASE CloseFailed \/ \E s \in Symbols : ManageTrail(s) \/ CloseSell(s)
    <3>1. job'.back # "entries"
      <4>1. CASE CloseFailed
        BY <4>1 DEF CloseFailed, GoPlace
      <4>2. ASSUME NEW s \in Symbols, ManageTrail(s) PROVE job'.back # "entries"
        BY <4>2 DEF ManageTrail, GoPlace
      <4>3. ASSUME NEW s \in Symbols, CloseSell(s) PROVE job'.back # "entries"
        BY <4>3 DEF CloseSell, Spawn
      <4> QED
        BY <2>5, <4>1, <4>2, <4>3
    <3> QED
      BY <1>0, <2>0, <3>1
  <2>6. CASE \/ Connect \/ BeginManage \/ Upsert
             \/ SkipEntries \/ BeginEntries \/ EntryRefused \/ EndEntries
             \/ BeginClose \/ CloseConfirmed \/ EndClose
             \/ \E s \in Symbols : StopOut(s) \/ ManageHold(s) \/ ManageSave(s)
    <3>1. pc' \notin {"trade", "place", "save"}
      BY <1>0, <2>6, JobFacts
      DEF Connect, BeginManage, Upsert, SkipEntries, BeginEntries, EntryRefused, EndEntries,
          BeginClose, CloseConfirmed, EndClose, StopOut, ManageHold, ManageSave, Rest, Loops
    <3> QED
      BY <1>0, <2>0, <3>1
  <2> QED
    BY <1>1, <2>1, <2>2, <2>3, <2>4, <2>5, <2>6 DEF CycleStep
<1>2. CASE TradeExecStep
  <2>1. Tracked' = Tracked /\ pc' = pc /\ job' = job
    BY <1>2, Surroundings DEF Tracked
  <2>2. CASE RecordFilled \/ FillMisreported
    BY <1>0, <2>1, <2>2 DEF RecordFilled, FillMisreported, CountEntry, SideOfJob
  <2>3. CASE OrderFills \/ OrderRefused \/ RecordRefused \/ RecordLate \/ TradeExecDies
    BY <1>0, <2>1, <2>3 DEF OrderFills, OrderRefused, RecordRefused, RecordLate, TradeExecDies, db
  <2> QED
    BY <1>2, <2>2, <2>3 DEF TradeExecStep
<1>3. CASE BrokerStep \/ HourPasses \/ Tick \/ ToggleTrading
  <2>1. Tracked' = Tracked /\ pc' = pc /\ job' = job /\ child' = child
    BY <1>3, Surroundings
    DEF Tracked, BrokerStep, StopFills, StopFillsPartly, CancelTakes, CancelFails,
        StrayFills, StrayDies, HourPasses,
        Tick, ToggleTrading, process
  <2>2. entriesToday' = entriesToday \/ entriesToday' = 0
    BY <1>3 DEF BrokerStep, StopFills, StopFillsPartly, CancelTakes, CancelFails,
        StrayFills, StrayDies, HourPasses,
                Tick, ToggleTrading, db
  <2> QED
    BY <1>0, <2>1, <2>2
<1>4. CASE Abort
  BY <1>0, <1>4 DEF Abort, Rest, db
<1>5. CASE UNCHANGED vars
  BY <1>0, <1>5 DEF vars, db, process, failures, Tracked
<1> QED
  BY <1>1, <1>2, <1>3, <1>4, <1>5 DEF Next

-----------------------------------------------------------------------------
(* The theorems.                                                           *)

\* The inductive invariant is kept by every step, of the cycle, of its
\* subprocess, of the broker, and by every failure.
LEMMA InductiveStep == IInv /\ [Next]_vars => IInv'
BY TypeStep, VisitStep, TightenStep, CapStep, SlotStep DEF IInv

\* So it holds in every reachable state.
LEMMA Inductive == Spec => []IInv
<1>1. Init => IInv
  BY InitInv
<1>2. IInv /\ [Next]_vars => IInv'
  BY InductiveStep
<1> QED
  BY <1>1, <1>2, PTL DEF Spec

\* Every variable keeps its type, whatever fails.
THEOREM TypeCorrect == Spec => []TypeOK
<1>1. IInv => TypeOK
  BY DEF IInv
<1> QED
  BY <1>1, Inductive, PTL

\* entry_scan's cap on concurrent positions holds in every state, for any
\* number of symbols, any cap and any failures.
THEOREM ConcurrencyCapped == Spec => []AtMostMaxConcurrent
<1>1. IInv => AtMostMaxConcurrent
  BY DEF IInv
<1> QED
  BY <1>1, Inductive, PTL

\* The count of today's recorded entries never exceeds the user's quota.
THEOREM QuotaKept == Spec => []DailyQuota
<1>1. IInv => DailyQuota
  BY DEF IInv
<1> QED
  BY <1>1, Inductive, PTL

\* How a step may change one row: it appears, goes, or is tightened.
LEMMA RowStep ==
  ASSUME IInv, [Next]_vars, NEW s \in Symbols,
         positions[s].qty > 0, positions'[s].qty > 0
  PROVE  Tightens(positions[s], positions'[s]) \/ positions'[s] = [positions[s] EXCEPT !.trail = TRUE]
<1>0. positions \in [Symbols -> Row] /\ VisitsRows /\ JobTightens
  BY DEF IInv, TypeOK
<1>1. CASE positions'[s] = positions[s]
  BY <1>1 DEF Tightens
<1>2. CASE Upsert /\ s = job.sym
  <2>1. job.back # "entries"
    BY <1>0, <1>2 DEF Upsert, VisitsRows, Loop, Busy, Tracked
  <2>2. positions'[s] = job.row
    BY <1>0, <1>2 DEF Upsert
  <2> QED
    BY <1>0, <1>2, <2>1, <2>2 DEF Upsert, JobTightens, Busy
<1>3. CASE ManageSave(s)
  <2>1. PICK cleared \in BOOLEAN : positions' = [positions EXCEPT ![s].trail = @ \/ cleared]
    BY <1>3 DEF ManageSave
  <2>2. positions[s] \in Row /\ positions'[s] = [positions[s] EXCEPT !.trail = @ \/ cleared]
    BY <1>0, <2>1
  <2>3. CASE cleared
    BY <2>2, <2>3
  <2>4. CASE ~cleared
    BY <2>2, <2>4 DEF Row, Tightens
  <2> QED
    BY <2>3, <2>4
<1>4. CASE ~(Upsert /\ s = job.sym) /\ ~ManageSave(s)
  <2>1. CASE CloseConfirmed \/ \E t \in Symbols : StopOut(t)
    BY <1>0, <2>1 DEF CloseConfirmed, StopOut, NoRow, Tightens
  <2>2. CASE Upsert \/ \E t \in Symbols \ {s} : ManageSave(t)
    BY <1>0, <1>1, <1>4, <2>2 DEF Upsert, ManageSave
  <2>3. CASE ~(Upsert \/ CloseConfirmed \/ \E t \in Symbols : StopOut(t) \/ ManageSave(t))
    BY <1>1, <2>3, Surroundings
    DEF Next, CycleStep, Connect, BeginManage, PlaceStop, SkipEntries, BeginEntries,
        EntryFilled, EntryRecovered, EntryRefused, EndEntries, BeginClose, CloseFailed,
        EndClose, ManageHold, ManageTrail, EntryBuy, CloseSell, Abort, vars, db
  <2> QED
    BY <1>4, <2>1, <2>2, <2>3
<1> QED
  BY <1>2, <1>3, <1>4

\* No step of any process, and no failure, ever loosens a stop price the
\* table holds or ends trailing, as long as the position keeps its row.
THEOREM StopsOnlyTighten == Spec => StopNeverLoosens
<1>1. ASSUME IInv, [Next]_vars
      PROVE  [\A s \in Symbols :
                positions[s].qty > 0 /\ positions'[s].qty > 0 =>
                  /\ positions'[s].stop >= positions[s].stop
                  /\ positions[s].trail => positions'[s].trail]_positions
  <2> SUFFICES ASSUME NEW s \in Symbols, positions[s].qty > 0, positions'[s].qty > 0
               PROVE  /\ positions'[s].stop >= positions[s].stop
                      /\ positions[s].trail => positions'[s].trail
    OBVIOUS
  <2>1. positions[s] \in Row /\ positions'[s] \in Row
    BY <1>1, TypeStep DEF IInv, TypeOK
  <2>2. positions[s].stop \in Int /\ positions'[s].stop \in Int
    BY <2>1, ConstantsAssumption DEF Row, Levels, ConstantsAssumption
  <2>3. CASE Tightens(positions[s], positions'[s])
    BY <2>2, <2>3 DEF Tightens
  <2>4. CASE positions'[s] = [positions[s] EXCEPT !.trail = TRUE]
    BY <2>1, <2>2, <2>4 DEF Row
  <2> QED
    BY <1>1, <2>3, <2>4, RowStep
<1> QED
  BY <1>1, Inductive, PTL DEF Spec, StopNeverLoosens

-----------------------------------------------------------------------------
(* The tables implement the ledger.                                        *)

Entry(row) == [open |-> row.qty > 0, stop |-> row.stop, trail |-> row.trail]
Book == [s \in Symbols |-> Entry(positions[s])]

\* A missing row is a flat book entry.
LEMMA NoEntry == Entry(NoRow) = Ledger!Flat
<1>1. (0 > 0) = FALSE
  OBVIOUS
<1> QED
  BY <1>1 DEF Entry, NoRow, Ledger!Flat

\* The instance's Cardinality is the usual one.
LEMMA LedgerCardinality == \A S : Ledger!Cardinality(S) = Cardinality(S)
BY DEF Cardinality, Ledger!Cardinality

\* Which rows a step changes: none, or exactly one.
LEMMA OneRowChanges ==
  ASSUME IInv, [Next]_vars, positions' # positions
  PROVE  /\ entriesToday' = entriesToday
         /\ \E s \in Symbols :
              /\ positions' = [positions EXCEPT ![s] = positions'[s]]
              /\ \/ Upsert /\ s = job.sym
                 \/ positions'[s] = NoRow
                 \/ ManageSave(s)
<1>0. positions \in [Symbols -> Row] /\ (Busy => job.sym \in Symbols)
  BY DEF IInv, TypeOK, Busy
<1>1. CASE Upsert
  BY <1>0, <1>1 DEF Upsert, Busy
<1>2. CASE CloseConfirmed
  BY <1>0, <1>2 DEF CloseConfirmed, Busy
<1>3. ASSUME NEW s \in Symbols, StopOut(s)
      PROVE  /\ entriesToday' = entriesToday
             /\ positions' = [positions EXCEPT ![s] = positions'[s]] /\ positions'[s] = NoRow
  BY <1>0, <1>3 DEF StopOut
<1>4. ASSUME NEW s \in Symbols, ManageSave(s)
      PROVE  /\ entriesToday' = entriesToday
             /\ positions' = [positions EXCEPT ![s] = positions'[s]]
  BY <1>0, <1>4 DEF ManageSave
<1>5. Upsert \/ CloseConfirmed \/ \E s \in Symbols : StopOut(s) \/ ManageSave(s)
  BY Surroundings
  DEF Next, CycleStep, Connect, BeginManage, PlaceStop, SkipEntries, BeginEntries,
      EntryFilled, EntryRecovered, EntryRefused, EndEntries, BeginClose, CloseFailed,
      EndClose, ManageHold, ManageTrail, EntryBuy, CloseSell, Abort, vars, db
<1> QED
  BY <1>1, <1>2, <1>3, <1>4, <1>5

\* How the count of entries changes while no row does.
LEMMA CountChanges ==
  ASSUME IInv, [Next]_vars, entriesToday' # entriesToday
  PROVE  /\ positions' = positions
         /\ entriesToday' = 0 \/ (entriesToday < MaxTrades /\ entriesToday' = entriesToday + 1)
<1>1. CASE CycleStep \/ BrokerStep \/ HourPasses \/ ToggleTrading \/ Abort \/ UNCHANGED vars
  BY <1>1
  DEF CycleStep, Connect, BeginManage, PlaceStop, Upsert, SkipEntries, BeginEntries,
      EntryFilled, EntryRecovered, EntryRefused, EndEntries, BeginClose, CloseConfirmed,
      CloseFailed, EndClose, StopOut, ManageHold, ManageSave, ManageTrail, EntryBuy,
      CloseSell, BrokerStep, StopFills, StopFillsPartly, CancelTakes, CancelFails,
        StrayFills, StrayDies, HourPasses,
      ToggleTrading, Abort, vars, db
<1>2. CASE RecordFilled \/ FillMisreported
  BY <1>2 DEF RecordFilled, FillMisreported, CountEntry, SideOfJob, IInv, TypeOK, JobHasSlot,
              Busy, db
<1>3. CASE OrderFills \/ OrderRefused \/ RecordRefused \/ RecordLate \/ TradeExecDies
  BY <1>3 DEF OrderFills, OrderRefused, RecordRefused, RecordLate, TradeExecDies, db
<1>4. CASE Tick
  BY <1>4 DEF Tick
<1> QED
  BY <1>1, <1>2, <1>3, <1>4 DEF Next, TradeExecStep

\* Every step of Executor is a step of the ledger, or leaves it as it is.
LEMMA LedgerStep ==
  ASSUME IInv, [Next]_vars
  PROVE  [Ledger!Next]_(Ledger!vars)
<1>0. /\ positions \in [Symbols -> Row] /\ positions' \in [Symbols -> Row]
      /\ RowsWhole /\ VisitsRows /\ JobHasSlot
  BY TypeStep DEF IInv, TypeOK
<1>1. CASE UNCHANGED <<positions, entriesToday>>
  BY <1>1 DEF Ledger!vars
<1>2. CASE entriesToday' # entriesToday
  <2>1. positions' = positions
    BY <1>2, CountChanges
  <2>2. Ledger!CountEntry \/ Ledger!NewDay
    BY <1>2, <2>1, CountChanges DEF Ledger!CountEntry, Ledger!NewDay
  <2> QED
    BY <2>2 DEF Ledger!Next
<1>3. CASE positions' # positions
  <2>1. PICK s \in Symbols :
          /\ positions' = [positions EXCEPT ![s] = positions'[s]]
          /\ \/ Upsert /\ s = job.sym
             \/ positions'[s] = NoRow
             \/ ManageSave(s)
    BY <1>3, OneRowChanges
  <2>2. entriesToday' = entriesToday
    BY <1>3, OneRowChanges
  <2>3. Book' = [Book EXCEPT ![s] = Entry(positions'[s])]
    BY <1>0, <2>1 DEF Book
  <2>4. Book[s] = Entry(positions[s]) /\ positions[s] \in Row /\ positions'[s] \in Row
    BY <1>0 DEF Book
  <2>5. CASE positions[s].qty = 0
    <3>1. positions[s] = NoRow
      BY <1>0, <2>5 DEF RowsWhole
    <3>2. positions'[s] # NoRow
      BY <1>0, <1>3, <2>1, <3>1
    <3>3. Upsert /\ s = job.sym /\ job.back = "entries"
      BY <1>0, <2>1, <2>5, <3>2, JobFacts
      DEF Upsert, ManageSave, VisitsRows, Loop, Busy, IsFirst, Tracked, IInv, TypeOK, Loops
    <3>4. positions'[s] = job.row /\ job.row.qty > 0 /\ job.row.trail = FALSE
      BY <1>0, <2>4, <3>3 DEF Upsert, JobHasSlot, Busy, IInv, TypeOK, Row
    <3>5. Ledger!Open(s)
      <4>1. Tracked = {t \in Symbols : Book[t].open}
        BY DEF Tracked, Book, Entry
      <4>2. Cardinality({t \in Symbols : Book[t].open}) < MaxConcurrent
        BY <3>3, <4>1, <1>0 DEF JobHasSlot, Busy, Upsert
      <4>3. Entry(positions'[s]) = [open |-> TRUE, stop |-> job.row.stop, trail |-> FALSE]
        BY <3>4 DEF Entry
      <4>4. job.row.stop \in Levels
        BY <2>4, <3>4 DEF Row
      <4> QED
        <5>1. ~Book[s].open
          <6>1. (positions[s].qty > 0) = FALSE
            BY <2>5
          <6> QED
            <7>1. Entry(positions[s]) =
                    [open |-> FALSE, stop |-> positions[s].stop, trail |-> positions[s].trail]
              BY <6>1 DEF Entry
            <7> QED
              BY <2>4, <7>1
        <5>2. \E level \in Levels :
                Book' = [Book EXCEPT ![s] = [open |-> TRUE, stop |-> level, trail |-> FALSE]]
          BY <2>3, <4>3, <4>4
        <5>3. Cardinality(Ledger!OpenSymbols) < MaxConcurrent
          BY <4>2 DEF Ledger!OpenSymbols, Book, Entry
        <5>4. Ledger!Levels = Levels
          BY DEF Ledger!Levels, Levels
        <5> QED
          BY <2>2, <5>1, <5>2, <5>3, <5>4, LedgerCardinality DEF Ledger!Open, Book, Entry
    <3> QED
      BY <3>5 DEF Ledger!Next
  <2>6. CASE positions[s].qty > 0 /\ positions'[s].qty > 0
    <3>1. CASE positions'[s].stop = positions[s].stop /\ positions'[s].trail = positions[s].trail
      <4>1. Book' = Book
        BY <2>3, <2>4, <2>6, <3>1 DEF Book, Entry
      <4> QED
        BY <2>2, <4>1 DEF Ledger!vars, Book, Entry
    <3>2. CASE /\ positions'[s].stop > positions[s].stop
               /\ positions'[s].stop > InitialStop /\ positions'[s].trail
      <4>1. Book' = [Book EXCEPT ![s].stop = positions'[s].stop, ![s].trail = TRUE]
        BY <2>3, <2>4, <2>6, <3>2 DEF Book, Entry, Row
      <4>2. Ledger!RaiseStop(s)
        BY <2>2, <2>4, <2>6, <3>2, <4>1
        DEF Ledger!RaiseStop, Ledger!Levels, Levels, Book, Entry, Row, InitialStop
      <4> QED
        BY <4>2 DEF Ledger!Next
    <3>3. CASE positions'[s] = [positions[s] EXCEPT !.trail = TRUE]
      <4>1. Book' = [Book EXCEPT ![s].trail = TRUE]
        BY <2>3, <2>4, <2>6, <3>3 DEF Book, Entry, Row
      <4>2. Ledger!StartTrailing(s)
        BY <2>2, <2>4, <2>6, <4>1 DEF Ledger!StartTrailing, Book, Entry
      <4> QED
        BY <4>2 DEF Ledger!Next
    <3> QED
      BY <2>6, <3>1, <3>2, <3>3, RowStep DEF Tightens
  <2>7. CASE positions[s].qty > 0 /\ positions'[s].qty = 0
    <3>1. positions'[s] = NoRow
      BY <2>7, VisitStep DEF RowsWhole
    <3>2. Book' = [Book EXCEPT ![s] = Ledger!Flat]
      BY <2>3, <3>1, NoEntry
    <3>3. Ledger!Close(s)
      BY <2>2, <2>4, <2>7, <3>2 DEF Ledger!Close, Book, Entry
    <3> QED
      BY <3>3 DEF Ledger!Next
  <2> QED
    BY <2>4, <2>5, <2>6, <2>7 DEF Row
<1> QED
  BY <1>1, <1>2, <1>3

\* Whatever fails, every behaviour of the Executor, its subprocesses and the
\* broker shows, in the two tables, a behaviour of the ledger.
THEOREM ImplementsLedger == Spec => LedgerSpec
<1>1. Init => Ledger!Init
  <2> SUFFICES ASSUME Init PROVE Book = [s \in Symbols |-> Ledger!Flat]
    BY DEF Init, Ledger!Init, Book, Entry
  <2> QED
    BY NoEntry DEF Init, Book
<1>2. IInv /\ [Next]_vars => [Ledger!Next]_(Ledger!vars)
  BY LedgerStep
<1> QED
  BY <1>1, <1>2, Inductive, PTL DEF Spec, LedgerSpec, Ledger!Spec

=============================================================================
