------------------------ MODULE ExecutorAccountProofs ------------------------
(***************************************************************************)
(* Theorems about Executor that relate its tables to the broker account:   *)
(* what may be held, which stop orders are live, and which rows are left,  *)
(* each under the failures its property allows.                            *)
(***************************************************************************)
EXTENDS ExecutorProofs

\* the cycle has the row of s in hand: the table may lag behind
InHand(s) == Busy /\ s = job.sym

\* trade_exec's order has filled
Delivered == child \in {"filled", "exit0"}

\* The most the code may hold of s, as it believes: what the row says, what
\* the row in hand will say, or what the market order has left or bought.
Claim(s) ==
  IF ~InHand(s) THEN positions[s].qty
  ELSE IF pc # "trade" THEN job.row.qty
  ELSE IF job.back = "entries" THEN (IF Delivered THEN job.row.qty ELSE 0)
  ELSE IF Delivered THEN 0 ELSE job.row.qty

\* order o is the stop that row describes
StopOfRow(o, row) == o.id = row.id /\ o.qty = row.qty /\ o.level = row.stop

\* Whatever fails, an order id names its symbol and one live order, and a row
\* in hand is still of the size the table says.
IdsBySymbol ==
  /\ \A s \in Symbols : positions[s].id = NoId \/ positions[s].id[1] = s
  /\ Busy => job.row.id = NoId \/ job.row.id[1] = job.sym
  /\ \A o \in stops : o.id[1] = o.sym
  /\ \A o, p \in stops : o.id = p.id => o = p
  /\ Busy /\ job.back # "entries" => job.row.qty = positions[job.sym].qty

\* Holdings stay within the claims, and the connection never shows less than
\* is held while the cycle may read it for a sale.
WithinClaims ==
  /\ strays = {}
  /\ Loop \in {"stopouts", "manage", "close"} => \A s \in Symbols : shares[s] <= view[s]
  /\ Loop = "entries" => \A s \in todo : ~InHand(s) => shares[s] <= 0
  /\ \A s \in Symbols : s \in Tracked \/ InHand(s) => shares[s] <= Claim(s)

\* The live stop orders nobody asked to cancel are those of the rows, share for
\* share, but for the row in hand, whose old stop is asked to be cancelled first
\* and whose new one is placed last.
StopsMatchRows ==
  \A o \in stops : o.ask = "none" =>
    /\ IF InHand(o.sym) THEN pc = "save" /\ StopOfRow(o, job.row)
                        ELSE o.sym \in Tracked /\ StopOfRow(o, positions[o.sym])
    /\ pc = "stopouts" => o.sym \notin todo

\* No live stop order has filled, and one a row names, cancelled or not, is of
\* the row's size.
OrdersWhole ==
  \A o \in stops :
    /\ o.id \notin fills
    /\ \A s \in Symbols : o.id = positions[s].id => o.qty = positions[s].qty
    /\ pc = "save" /\ o.id = job.row.id => o.qty = job.row.qty

\* What is held is covered by an order that stays, except while the stop is
\* being replaced.
Covered ==
  \A s \in Symbols : shares[s] > 0 /\ ~(InHand(s) /\ pc \in {"trade", "place"}) =>
    \E o \in stops : o.sym = s /\ o.ask = "none" /\ o.qty >= shares[s]

\* A stop order that shows a fill has sold all there was.
FilledMeansGone ==
  /\ \A s \in Symbols : ~InHand(s) /\ s \notin Tracked => shares[s] <= 0
  /\ \A s \in Symbols : positions[s].id \in fills => shares[s] <= 0
  /\ pc = "save" /\ job.row.id \in fills => shares[job.sym] <= 0
  /\ pc = "stopouts" => \A s \in todo : shares[s] <= 0

\* A cancel is on its way only for the row in hand, before its market order or
\* its new stop reaches the broker.
Settled ==
  \A o \in stops : o.ask # "none" =>
    /\ InHand(o.sym)
    /\ pc = "place" \/ (pc = "trade" /\ job.back = "close" /\ ~Delivered)
    /\ o.ask = "sent"

\* The tables say exactly what is held, and the connection shows it.
Exact ==
  /\ Settled
  /\ \A s \in Symbols :
       shares[s] = IF ~InHand(s) /\ positions[s].id \in fills THEN 0 ELSE Claim(s)
  /\ pc = "stopouts" => \A s \in Symbols : s \in todo <=> positions[s].id \in fills
  /\ pc \notin {"rest", "stopouts"} => \A s \in Symbols : positions[s].id \notin fills
  /\ pc = "save" => job.row.id \notin fills
  /\ pc = "trade" => job.back # "manage"
  /\ Loop \in {"stopouts", "manage"} => \A s \in Symbols : view[s] = shares[s]
  /\ Loop = "entries" =>
       \A s \in todo : view[s] = 0 \/ (InHand(s) /\ pc \in {"place", "save"})

\* The failures each part survives.  Awaited: every market order is waited for
\* to its end.  Orderly: no process dies, and stop orders fill whole.  Armed: as
\* Awaited, no process dies, and no stop order is refused.  Whole: as Awaited
\* and Orderly.  Timely: moreover stops fill between cycles and are read
\* within the hour, and cancels take effect before what is sent after them.
Awaited == FaultKinds \ {"late", "timeout", "crash"}
Orderly == FaultKinds \ {"crash", "partial"}
Armed   == {"race", "cancel", "outage", "partial"}
Whole   == {"race", "cancel", "outage", "deadstop"}
Timely  == {"deadstop"}

AccountInv ==
  /\ IInv
  /\ IdsBySymbol
  /\ Only(Awaited) => WithinClaims
  /\ Only(Orderly) => StopsMatchRows /\ OrdersWhole
  /\ Only(Armed) => Covered
  /\ Only(Whole) => FilledMeansGone
  /\ Only(Timely) => Exact

-----------------------------------------------------------------------------
(* What the steps do, field by field.                                      *)

\* The failures that happened are never forgotten.
LEMMA HappenedGrows ==
  ASSUME [Next]_vars, NEW K, Only(K)'
  PROVE  Only(K)
BY DEF Only, Next, CycleStep, Connect, BeginManage, PlaceStop, Upsert, SkipEntries,
       BeginEntries, EntryFilled, EntryRecovered, EntryRefused, EndEntries, BeginClose,
       CloseConfirmed, CloseFailed, EndClose, StopOut, ManageHold, ManageSave, ManageTrail,
       EntryBuy, CloseSell, TradeExecStep, OrderFills, OrderRefused, RecordFilled,
       RecordRefused, RecordLate, TradeExecDies, FillMisreported, BrokerStep, StopFills, StopFillsPartly, CancelTakes,
       CancelFails, StrayFills, StrayDies, HourPasses, Tick, ToggleTrading, Abort, vars, failures,
       Fault, NoFault

\* A failure outside K rules K out.
LEMMA Blamed ==
  ASSUME NEW K, Only(K)', NEW kind, Fault(kind)
  PROVE  kind \in K
BY DEF Only, Fault

\* The types of what the steps read.
LEMMA Types ==
  ASSUME IInv
  PROVE  /\ positions \in [Symbols -> Row] /\ shares \in [Symbols -> Int]
         /\ view \in [Symbols -> Int] /\ job \in Job /\ job.row \in Row
         /\ todo \subseteq Symbols /\ stops \subseteq StopOrder /\ fills \subseteq OrderId
         /\ \A s \in Symbols :
              /\ positions[s] \in Row /\ positions[s].qty \in Nat
              /\ shares[s] \in Int /\ view[s] \in Int
         /\ job.row.qty \in Nat
         /\ Busy => job.sym \in Symbols /\ job.row.qty > 0 /\ job.sym \in todo
         /\ RowsWhole /\ VisitsRows /\ ConstantsAssumption
         /\ Symbols \subseteq Nat
<1>1. TypeOK /\ VisitsRows /\ RowsWhole
  BY DEF IInv
<1>2. job.row \in Row
  BY <1>1, JobFacts DEF TypeOK
<1>3. \A s \in Symbols : positions[s] \in Row
  BY <1>1 DEF TypeOK
<1> QED
  BY <1>1, <1>2, <1>3, ConstantsAssumption
  DEF TypeOK, VisitsRows, Busy, Row, ConstantsAssumption

\* A symbol has a row or not.
LEMMA TrackedMeans ==
  ASSUME IInv, NEW s \in Symbols
  PROVE  /\ s \in Tracked <=> positions[s].qty > 0
         /\ s \notin Tracked => positions[s] = NoRow /\ positions[s].id = NoId
  BY Types DEF Tracked, RowsWhole, NoRow

\* NoId is no order's id.
LEMMA NoIdIsNone == NoId \notin OrderId
BY DEF NoId, OrderId

\* _place_stop gives the row a fresh order, live unless the broker refuses it.
LEMMA PlaceStopEffect ==
  ASSUME IInv, PlaceStop
  PROVE  /\ pc = "place" /\ pc' = "save"
         /\ job'.sym = job.sym /\ job'.back = job.back
         /\ job'.row.qty = job.row.qty /\ job'.row.stop = job.row.stop
         /\ job'.row.id \in OrderId /\ job'.row.id \notin IdsInUse
         /\ job'.row.id[1] = job.sym
         /\ \/ Fault("deadstop") /\ stops' = stops
            \/ \E o \in StopOrder : o.sym = job.sym /\ StopOfRow(o, job'.row)
                                    /\ o.ask = "none" /\ stops' = stops \union {o}
         /\ view' = shares /\ CancelsSettled(job.sym)
         /\ UNCHANGED <<positions, shares, fills, strays, todo, child>>
<1>1. PICK n \in 1 .. MaxOrders :
        /\ IsNextOrder(job.sym, n)
        /\ job' = [job EXCEPT !.row.id = <<job.sym, n>>]
        /\ \/ /\ stops' = stops \union {[id |-> <<job.sym, n>>, sym |-> job.sym,
                                         qty |-> job.row.qty, level |-> job.row.stop,
                                         ask |-> "none"]}
              /\ NoFault
           \/ Fault("deadstop") /\ UNCHANGED stops
  BY DEF PlaceStop
<1>2. job.sym \in Symbols /\ pc = "place"
  BY Types DEF PlaceStop, Busy
<1>3. <<job.sym, n>> \in OrderId /\ <<job.sym, n>>[1] = job.sym
  BY <1>2 DEF OrderId
<1>4. /\ job'.sym = job.sym /\ job'.back = job.back
      /\ job'.row.qty = job.row.qty /\ job'.row.stop = job.row.stop
      /\ job'.row.id = <<job.sym, n>>
  BY <1>1, Types DEF Job, Row
<1>5. <<job.sym, n>> \notin IdsInUse
  BY <1>1 DEF IsNextOrder
<1> DEFINE o == [id |-> <<job.sym, n>>, sym |-> job.sym, qty |-> job.row.qty,
                 level |-> job.row.stop, ask |-> "none"]
<1>6. o \in StopOrder /\ o.sym = job.sym /\ StopOfRow(o, job'.row) /\ o.ask = "none"
  BY <1>2, <1>3, <1>4, Types DEF StopOrder, Asks, StopOfRow, Row
<1>7. \/ Fault("deadstop") /\ stops' = stops
      \/ stops' = stops \union {o}
  BY <1>1
<1> HIDE DEF o
<1> QED
  BY <1>2, <1>3, <1>4, <1>5, <1>6, <1>7 DEF PlaceStop, db

\* _cancel_stop changes nothing of an order but what was asked of it, and of the
\* order the row of s names.
LEMMA CancelEffect ==
  ASSUME IInv, NEW s \in Symbols, CancelStop(s)
  PROVE  /\ \A o \in stops' :
              /\ o.ask = "none" => o \in stops /\ o.id # positions[s].id
              /\ \/ o \in stops
                 \/ /\ o.ask = "sent" /\ o.id = positions[s].id
                    /\ \E p \in stops : p.id = o.id /\ p.sym = o.sym /\ p.qty = o.qty
         /\ \A o \in stops : o.id # positions[s].id => o \in stops'
         /\ (\A o, p \in stops : o.id = p.id => o = p) =>
              (\A o, p \in stops' : o.id = p.id => o = p)
<1> DEFINE asked(o) == [o EXCEPT !.ask = "sent"]
<1>1. \A o \in stops : /\ asked(o).id = o.id /\ asked(o).sym = o.sym /\ asked(o).qty = o.qty
                      /\ asked(o).ask = "sent"
  BY Types DEF StopOrder
<1>2. stops' = {IF o.id = positions[s].id THEN asked(o) ELSE o : o \in stops}
  BY DEF CancelStop
<1> HIDE DEF asked
<1>3. \A o \in stops' : \E p \in stops :
        \/ o = p /\ p.id # positions[s].id
        \/ o = asked(p) /\ p.id = positions[s].id
  BY <1>2
<1>4. \A o \in stops : o.id # positions[s].id => o \in stops'
  BY <1>2
<1>5. \A o \in stops' :
        /\ o.ask = "none" => o \in stops /\ o.id # positions[s].id
        /\ \/ o \in stops
           \/ /\ o.ask = "sent" /\ o.id = positions[s].id
              /\ \E p \in stops : p.id = o.id /\ p.sym = o.sym /\ p.qty = o.qty
  BY <1>1, <1>3
<1>6. ASSUME \A o, p \in stops : o.id = p.id => o = p, NEW o \in stops', NEW p \in stops',
             o.id = p.id
      PROVE  o = p
  BY <1>1, <1>3, <1>6
<1> QED
  BY <1>4, <1>5, <1>6

\* manage_positions takes a row in hand to raise its stop.
LEMMA ManageTrailEffect ==
  ASSUME IInv, NEW s \in Symbols, ManageTrail(s)
  PROVE  /\ pc = "manage" /\ pc' = "place" /\ s \in todo
         /\ job'.sym = s /\ job'.back = "manage"
         /\ job'.row.qty = positions[s].qty /\ job'.row.id = positions[s].id
         /\ CancelStop(s)
         /\ UNCHANGED <<positions, shares, fills, strays, todo, child, view>>
<1>1. PICK level \in Levels :
        GoPlace(s, "manage", [positions[s] EXCEPT !.stop = level, !.trail = TRUE])
  BY DEF ManageTrail, TrailingStops
<1>2. /\ [positions[s] EXCEPT !.stop = level, !.trail = TRUE].qty = positions[s].qty
      /\ [positions[s] EXCEPT !.stop = level, !.trail = TRUE].id = positions[s].id
  BY Types DEF Row
<1>3. /\ pc' = "place" /\ job'.sym = s /\ job'.back = "manage"
      /\ job'.row = [positions[s] EXCEPT !.stop = level, !.trail = TRUE]
  BY <1>1 DEF GoPlace
<1> QED
  BY <1>2, <1>3 DEF ManageTrail, IsFirst, db

\* entry_scan takes a candidate in hand and spawns trade_exec.
LEMMA EntryBuyEffect ==
  ASSUME IInv, NEW s \in Symbols, EntryBuy(s)
  PROVE  /\ pc = "entries" /\ pc' = "trade" /\ child' = "working" /\ s \in todo
         /\ job'.sym = s /\ job'.back = "entries" /\ job'.row.id = NoId
         /\ job'.row.qty \in Nat /\ job'.row.qty \in EntrySizes
         /\ UNCHANGED <<positions, shares, stops, fills, strays, todo, view>>
<1>1. PICK size \in EntrySizes :
        Spawn([sym |-> s, back |-> "entries", row |-> [NoRow EXCEPT !.qty = size]])
  BY DEF EntryBuy
<1>2. [NoRow EXCEPT !.qty = size].id = NoId /\ [NoRow EXCEPT !.qty = size].qty = size
  BY DEF NoRow
<1>3. size \in Nat
  BY <1>1, ConstantsAssumption DEF EntrySizes, ConstantsAssumption
<1> QED
  BY <1>1, <1>2, <1>3 DEF EntryBuy, Spawn, IsFirst, db, broker

\* trade_exec returned 0: the row keeps the size bought.
LEMMA EntryFilledEffect ==
  ASSUME IInv, EntryFilled
  PROVE  /\ pc = "trade" /\ pc' = "place" /\ job.back = "entries" /\ child = "exit0"
         /\ job'.sym = job.sym /\ job'.back = "entries"
         /\ job'.row.qty = job.row.qty /\ job'.row.id = job.row.id
         /\ UNCHANGED <<positions, shares, stops, fills, strays, todo, view>>
<1>1. /\ [job.row EXCEPT !.stop = HardStop].qty = job.row.qty
      /\ [job.row EXCEPT !.stop = HardStop].id = job.row.id
  BY Types DEF Row
<1> QED
  BY <1>1 DEF EntryFilled, GoPlace, db, broker

\* trade_exec failed, yet the connection shows a position: it is taken over.
LEMMA EntryRecoveredEffect ==
  ASSUME IInv, EntryRecovered
  PROVE  /\ pc = "trade" /\ pc' = "place" /\ job.back = "entries" /\ child = "exit1"
         /\ job'.sym = job.sym /\ job'.back = "entries" /\ job'.row.id = job.row.id
         /\ \E seen \in BrokerViews :
              seen[job.sym] # 0 /\ job'.row.qty = Abs(seen[job.sym])
         /\ UNCHANGED <<positions, shares, stops, fills, strays, todo, view>>
<1>1. PICK seen \in BrokerViews, level \in Levels :
        /\ seen[job.sym] # 0
        /\ GoPlace(job.sym, "entries",
                   [job.row EXCEPT !.qty = Abs(seen[job.sym]), !.stop = level])
  BY DEF EntryRecovered
<1>2. \A q, level2 :
        /\ [job.row EXCEPT !.qty = q, !.stop = level2].qty = q
        /\ [job.row EXCEPT !.qty = q, !.stop = level2].id = job.row.id
  BY Types DEF Row
<1>3. /\ pc' = "place" /\ job'.sym = job.sym /\ job'.back = "entries"
      /\ job'.row = [job.row EXCEPT !.qty = Abs(seen[job.sym]), !.stop = level]
  BY <1>1 DEF GoPlace
<1> QED
  BY <1>1, <1>2, <1>3 DEF EntryRecovered, db, broker

\* force_close_all takes a row in hand, cancels its stop and spawns trade_exec.
LEMMA CloseSellEffect ==
  ASSUME IInv, NEW s \in Symbols, CloseSell(s)
  PROVE  /\ pc = "close" /\ pc' = "trade" /\ child' = "working" /\ s \in todo
         /\ job'.sym = s /\ job'.back = "close" /\ job'.row = positions[s]
         /\ CancelStop(s)
         /\ UNCHANGED <<positions, shares, fills, strays, todo, view>>
BY DEF CloseSell, Spawn, IsFirst, db

\* The market order delivers: the account moves by the whole quantity.
LEMMA OrderFillsEffect ==
  ASSUME IInv, OrderFills
  PROVE  /\ pc = "trade" /\ child = "working" /\ child' = "filled"
         /\ job.sym \in Symbols /\ CancelsSettled(job.sym)
         /\ job.back = "entries" => shares'[job.sym] = shares[job.sym] + job.row.qty
         /\ job.back # "entries" => shares'[job.sym] = shares[job.sym] - job.row.qty
         /\ \A s \in Symbols \ {job.sym} : shares'[s] = shares[s]
         /\ UNCHANGED <<positions, pc, job, stops, fills, strays, todo, view>>
<1>1. pc = "trade" /\ child = "working"
  BY DEF OrderFills, IInv, TypeOK
<1>2. job.sym \in Symbols /\ job.row.qty \in Nat /\ shares \in [Symbols -> Int]
  BY <1>1, Types DEF Busy
<1>3. shares' = [shares EXCEPT ![job.sym] = @ + Signed(SideOfJob, job.row.qty)]
  BY DEF OrderFills, Deliver
<1>4. /\ shares'[job.sym] = shares[job.sym] + Signed(SideOfJob, job.row.qty)
      /\ \A s \in Symbols \ {job.sym} : shares'[s] = shares[s]
  BY <1>2, <1>3
<1>5. /\ job.back = "entries" => shares'[job.sym] = shares[job.sym] + job.row.qty
      /\ job.back # "entries" => shares'[job.sym] = shares[job.sym] - job.row.qty
  BY <1>2, <1>4 DEF Signed, SideOfJob
<1> QED
  BY <1>1, <1>2, <1>4, <1>5 DEF OrderFills, db

\* The steps that neither move the cycle nor touch what it compares.
LEMMA QuietSteps ==
  ASSUME \/ OrderRefused \/ RecordFilled \/ RecordRefused
         \/ HourPasses \/ Tick \/ ToggleTrading \/ UNCHANGED vars
  PROVE  /\ UNCHANGED <<positions, pc, todo, job, shares, stops, view>>
         /\ Delivered' = Delivered
         /\ fills' \subseteq fills /\ strays' \subseteq strays
<1>1. CASE OrderRefused \/ RecordFilled \/ RecordRefused
  BY <1>1 DEF OrderRefused, RecordFilled, RecordRefused, Delivered, db, broker
<1>2. CASE HourPasses \/ Tick \/ ToggleTrading \/ UNCHANGED vars
  BY <1>2 DEF HourPasses, Tick, ToggleTrading, Delivered, vars, db, broker, process
<1> QED
  BY <1>1, <1>2

\* What an execution or a late cancel leaves of a stop order keeps its id.
LEMMA ChangedOrder ==
  ASSUME IInv, NEW o \in stops
  PROVE  /\ o \in StopOrder /\ o.sym \in Symbols /\ o.qty \in Nat
         /\ [o EXCEPT !.qty = @ - 1].id = o.id /\ [o EXCEPT !.qty = @ - 1].sym = o.sym
         /\ [o EXCEPT !.qty = @ - 1].qty = o.qty - 1
         /\ [o EXCEPT !.qty = @ - 1].ask = o.ask
         /\ [o EXCEPT !.ask = "late"].id = o.id /\ [o EXCEPT !.ask = "late"].sym = o.sym
         /\ [o EXCEPT !.ask = "late"].qty = o.qty /\ [o EXCEPT !.ask = "late"].ask = "late"
BY Types DEF StopOrder

\* A cancel that the broker acts on, or that fails, touches its order only.
LEMMA CancelEndsEffect ==
  ASSUME IInv, NEW o \in stops, CancelTakes(o) \/ CancelFails(o)
  PROVE  /\ o.ask # "none"
         /\ \A p \in stops' :
              p \in stops \/ (Fault("cancel") /\ p.id = o.id /\ p.sym = o.sym /\ p.qty = o.qty
                              /\ p.ask = "late")
         /\ \A p \in stops : p.ask = "none" => p \in stops'
         /\ UNCHANGED <<positions, shares, fills, strays, pc, todo, job, child, view>>
BY ChangedOrder DEF CancelTakes, CancelFails, db, process

-----------------------------------------------------------------------------
(* The invariant, part by part.                                            *)

\* Every order id names its symbol, whatever fails.
LEMMA IdsStep == IInv /\ IdsBySymbol /\ [Next]_vars => IdsBySymbol'
<1> SUFFICES ASSUME IInv, IdsBySymbol, [Next]_vars PROVE IdsBySymbol'
  OBVIOUS
<1>0. /\ positions \in [Symbols -> Row] /\ NoRow.id = NoId /\ todo \subseteq Symbols
      /\ Busy => job.sym \in Symbols
  BY Types DEF NoRow
<1> USE DEF IdsBySymbol, Busy
<1>1. CASE PlaceStop
  <2>1. \A o \in stops' : o.id[1] = o.sym
    BY <1>1, PlaceStopEffect DEF StopOfRow
  <2>2. \A o, p \in stops' : o.id = p.id => o = p
    BY <1>1, PlaceStopEffect DEF StopOfRow, IdsInUse, LiveIds
  <2> QED
    BY <1>1, <2>1, <2>2, PlaceStopEffect
<1>2. CASE Upsert
  BY <1>0, <1>2, JobFacts, Types DEF Upsert, broker, Loops
<1>3. ASSUME NEW s \in Symbols, ManageTrail(s) PROVE IdsBySymbol'
  <2>1. CancelStop(s)
    BY <1>3, ManageTrailEffect
  <2>2. \A o \in stops' : o.id[1] = o.sym
    BY <2>1, CancelEffect
  <2>3. \A o, p \in stops' : o.id = p.id => o = p
    BY <2>1, CancelEffect
  <2> QED
    BY <1>0, <1>3, <2>2, <2>3, ManageTrailEffect
<1>4. ASSUME NEW s \in Symbols, EntryBuy(s) PROVE IdsBySymbol'
  BY <1>4, EntryBuyEffect
<1>5. CASE EntryFilled
  BY <1>5, EntryFilledEffect
<1>6. CASE EntryRecovered
  BY <1>6, EntryRecoveredEffect
<1>7. ASSUME NEW s \in Symbols, CloseSell(s) PROVE IdsBySymbol'
  <2>1. CancelStop(s)
    BY <1>7, CloseSellEffect
  <2>2. \A o \in stops' : o.id[1] = o.sym
    BY <2>1, CancelEffect
  <2>3. \A o, p \in stops' : o.id = p.id => o = p
    BY <2>1, CancelEffect
  <2> QED
    BY <1>0, <1>7, <2>2, <2>3, CloseSellEffect
<1>8. CASE CloseFailed
  BY <1>8 DEF CloseFailed, GoPlace, db, broker
<1>9. ASSUME NEW s \in Symbols, StopOut(s) \/ ManageSave(s) \/ ManageHold(s)
      PROVE  IdsBySymbol'
  <2>1. CASE StopOut(s)
    BY <1>0, <2>1 DEF StopOut, broker
  <2>2. CASE ManageHold(s)
    BY <2>2 DEF ManageHold, db, broker
  <2>3. CASE ManageSave(s)
    <3>1. \A t \in Symbols : positions'[t].id = positions[t].id
      BY <1>0, <2>3 DEF ManageSave, Row
    <3> QED
      BY <2>3, <3>1 DEF ManageSave, broker
  <2> QED
    BY <1>9, <2>1, <2>2, <2>3
<1>10. CASE CloseConfirmed
  BY <1>0, <1>10 DEF CloseConfirmed, broker
<1>11. CASE \/ Connect \/ BeginManage \/ SkipEntries \/ BeginEntries \/ EntryRefused
            \/ EndEntries \/ BeginClose \/ EndClose \/ Abort
  BY <1>11 DEF Connect, BeginManage, SkipEntries, BeginEntries, EntryRefused, EndEntries,
               BeginClose, EndClose, Abort, Rest, db, broker
<1>12. ASSUME NEW o \in stops, \/ StopFills(o) \/ StopFillsPartly(o)
                               \/ CancelTakes(o) \/ CancelFails(o)
       PROVE  IdsBySymbol'
  <2>1. UNCHANGED <<positions, pc, job>>
    BY <1>12 DEF StopFills, StopFillsPartly, CancelTakes, CancelFails, db, process
  <2>2. \/ stops' = stops \ {o}
        \/ \E q : q.id = o.id /\ q.sym = o.sym /\ stops' = (stops \ {o}) \union {q}
    BY <1>12, ChangedOrder DEF StopFills, StopFillsPartly, CancelTakes, CancelFails
  <2> QED
    BY <2>1, <2>2
<1>13. CASE \/ OrderFills \/ RecordLate \/ TradeExecDies \/ FillMisreported
            \/ \E o \in strays : StrayFills(o) \/ StrayDies(o)
  BY <1>13 DEF OrderFills, RecordLate, TradeExecDies, FillMisreported, StrayFills, StrayDies,
               db, broker, process
<1>14. CASE \/ OrderRefused \/ RecordFilled \/ RecordRefused
            \/ HourPasses \/ Tick \/ ToggleTrading \/ UNCHANGED vars
  BY <1>14, QuietSteps
<1> QED
  BY <1>1, <1>2, <1>3, <1>4, <1>5, <1>6, <1>7, <1>8, <1>9, <1>10, <1>11, <1>12, <1>13, <1>14
  DEF Next, CycleStep, TradeExecStep, BrokerStep

\* While every market order is waited for, holdings stay within the claims.
LEMMA ClaimStep ==
  ASSUME IInv, WithinClaims, [Next]_vars, Only(Awaited)'
  PROVE  WithinClaims'
<1>0. /\ strays = {}
      /\ Loop \in {"stopouts", "manage", "close"} => \A s \in Symbols : shares[s] <= view[s]
      /\ Loop = "entries" => \A s \in todo : ~InHand(s) => shares[s] <= 0
      /\ \A s \in Symbols : s \in Tracked \/ InHand(s) => shares[s] <= Claim(s)
  BY DEF WithinClaims
<1>no. ~Fault("late") /\ ~Fault("timeout") /\ ~Fault("crash")
  BY Blamed DEF Awaited
<1> USE DEF Loop, Busy, InHand, Claim, Tracked, Delivered, WithinClaims
<1>1. CASE Connect
  BY <1>0, <1>1, Types DEF Connect, db, broker, time_gate
<1>2. CASE BeginManage \/ BeginClose
  BY <1>0, <1>2, Types DEF BeginManage, BeginClose, db, broker
<1>3. CASE BeginEntries
  BY <1>0, <1>3, Types DEF BeginEntries, BrokerViews, HeldSymbols, db, broker
<1>4. CASE SkipEntries \/ EndEntries \/ EndClose
  BY <1>0, <1>4, Types DEF SkipEntries, EndEntries, EndClose, Rest, db
<1>5. ASSUME NEW s \in Symbols, StopOut(s) PROVE WithinClaims'
  BY <1>0, <1>5, Types DEF StopOut, NoRow, broker
<1>6. ASSUME NEW s \in Symbols, ManageHold(s) PROVE WithinClaims'
  BY <1>0, <1>6, Types DEF ManageHold, db, broker
<1>7. ASSUME NEW s \in Symbols, ManageSave(s) PROVE WithinClaims'
  BY <1>0, <1>7, Types DEF ManageSave, broker, Row
<1>8. ASSUME NEW s \in Symbols, ManageTrail(s) PROVE WithinClaims'
  BY <1>0, <1>8, Types, ManageTrailEffect DEF VisitsRows
<1>9. CASE PlaceStop
  BY <1>0, <1>9, Types, PlaceStopEffect
<1>10. CASE Upsert
  BY <1>0, <1>10, Types, JobFacts DEF Upsert, broker, Loops, Visited
<1>11. ASSUME NEW s \in Symbols, EntryBuy(s) PROVE WithinClaims'
  BY <1>0, <1>11, Types, EntryBuyEffect
<1>12. CASE EntryFilled
  BY <1>0, <1>12, Types, EntryFilledEffect
<1>13. CASE EntryRecovered
  BY <1>0, <1>13, Types, EntryRecoveredEffect DEF Abs, BrokerViews
<1>14. CASE EntryRefused
  BY <1>0, <1>14, Types DEF EntryRefused, Visited, db, broker
<1>15. ASSUME NEW s \in Symbols, CloseSell(s) PROVE WithinClaims'
  BY <1>0, <1>15, Types, CloseSellEffect DEF VisitsRows
<1>16. CASE CloseConfirmed
  BY <1>0, <1>16, Types DEF CloseConfirmed, NoRow, Visited, broker
<1>17. CASE CloseFailed
  BY <1>0, <1>17, Types DEF CloseFailed, GoPlace, db, broker
<1>18. CASE OrderFills
  BY <1>0, <1>18, Types, OrderFillsEffect
<1>19. ASSUME NEW o \in stops, StopFills(o) \/ StopFillsPartly(o) PROVE WithinClaims'
  <2>1. o.sym \in Symbols /\ o.qty \in Nat
    BY Types DEF StopOrder
  <2>2. \A s \in Symbols : shares'[s] <= shares[s] /\ shares'[s] \in Int
    BY <1>19, <2>1, Types DEF StopFills, StopFillsPartly, Deliver, Signed
  <2> QED
    BY <1>0, <1>19, <2>2, Types DEF StopFills, StopFillsPartly, db, process
<1>20. CASE RecordLate \/ TradeExecDies \/ FillMisreported \/ Abort
  BY <1>no, <1>20 DEF RecordLate, TradeExecDies, FillMisreported, Abort
<1>21. CASE \E o \in strays : StrayFills(o) \/ StrayDies(o)
  BY <1>0, <1>21
<1>23. ASSUME NEW o \in stops, CancelTakes(o) \/ CancelFails(o) PROVE WithinClaims'
  BY <1>0, <1>23, CancelEndsEffect
<1>22. CASE \/ OrderRefused \/ RecordFilled \/ RecordRefused
            \/ HourPasses \/ Tick \/ ToggleTrading \/ UNCHANGED vars
  BY <1>0, <1>22, QuietSteps
<1> QED
  BY <1>1, <1>2, <1>3, <1>4, <1>5, <1>6, <1>7, <1>8, <1>9, <1>10, <1>11, <1>12, <1>13,
     <1>14, <1>15, <1>16, <1>17, <1>18, <1>19, <1>20, <1>21, <1>22, <1>23
  DEF Next, CycleStep, TradeExecStep, BrokerStep

\* So no symbol has two live stop orders that are both to stay.
LEMMA OneStop ==
  ASSUME IdsBySymbol, StopsMatchRows, NEW o \in stops, NEW p \in stops, o.sym = p.sym,
         o.ask = "none", p.ask = "none"
  PROVE  o = p
BY DEF StopsMatchRows, StopOfRow, IdsBySymbol

\* _cancel_stop of one symbol's order leaves the other symbols' orders alone.
LEMMA CancelOwnOnly ==
  ASSUME IInv, IdsBySymbol, NEW s \in Symbols, NEW o \in stops, o.id = positions[s].id
  PROVE  o.sym = s
<1>1. o.id \in OrderId
  BY Types DEF StopOrder
<1> QED
  BY <1>1, NoIdIsNone DEF IdsBySymbol

\* Until a process dies or a stop fills in part, the live stop orders nobody asked
\* to cancel are the rows' own.
LEMMA StopsStep ==
  ASSUME IInv, StopsMatchRows, OrdersWhole, [Next]_vars, Only(Orderly)'
  PROVE  StopsMatchRows'
<1>0. \A o \in stops : o.ask = "none" =>
        /\ InHand(o.sym) => pc = "save" /\ StopOfRow(o, job.row)
        /\ ~InHand(o.sym) => o.sym \in Tracked /\ StopOfRow(o, positions[o.sym])
        /\ pc = "stopouts" => o.sym \notin todo
  BY DEF StopsMatchRows
<1>no. ~Fault("partial") /\ ~Fault("crash")
  BY Blamed DEF Orderly
<1>sym. \A o \in stops : o.sym \in Symbols
  BY Types DEF StopOrder
<1> USE DEF Busy, InHand, Tracked, StopOfRow, StopsMatchRows
<1>1. CASE Connect
  BY <1>0, <1>1 DEF Connect, StoppedOut, OrdersWhole, db, broker
<1>2. CASE BeginManage \/ BeginClose \/ BeginEntries
  BY <1>0, <1>2 DEF BeginManage, BeginClose, BeginEntries, db, broker
<1>3. CASE SkipEntries \/ EndEntries \/ EndClose
  BY <1>0, <1>3 DEF SkipEntries, EndEntries, EndClose, Rest, db
<1>4. ASSUME NEW s \in Symbols, StopOut(s) PROVE StopsMatchRows'
  BY <1>0, <1>4, <1>sym, Types DEF StopOut, IsFirst, Visited, broker
<1>5. ASSUME NEW s \in Symbols, ManageHold(s) PROVE StopsMatchRows'
  BY <1>0, <1>5 DEF ManageHold, db, broker
<1>6. ASSUME NEW s \in Symbols, ManageSave(s) PROVE StopsMatchRows'
  <2>1. \A t \in Symbols : /\ positions'[t].qty = positions[t].qty
                           /\ positions'[t].id = positions[t].id
                           /\ positions'[t].stop = positions[t].stop
    BY <1>6, Types DEF ManageSave, Row
  <2> QED
    BY <1>0, <1>6, <1>sym, <2>1 DEF ManageSave, broker
<1>7. ASSUME NEW s \in Symbols, ManageTrail(s) PROVE StopsMatchRows'
  BY <1>0, <1>7, <1>sym, ManageTrailEffect, CancelEffect
<1>8. CASE PlaceStop
  BY <1>0, <1>8, PlaceStopEffect
<1>9. CASE Upsert
  BY <1>0, <1>9, <1>sym, Types, JobFacts DEF Upsert, broker, Loops
<1>10. ASSUME NEW s \in Symbols, EntryBuy(s) PROVE StopsMatchRows'
  BY <1>0, <1>10, EntryBuyEffect, Types DEF VisitsRows, Loop
<1>11. CASE EntryFilled
  BY <1>0, <1>11, EntryFilledEffect
<1>12. CASE EntryRecovered
  BY <1>0, <1>12, EntryRecoveredEffect
<1>13. CASE EntryRefused
  BY <1>0, <1>13 DEF EntryRefused, db, broker
<1>14. ASSUME NEW s \in Symbols, CloseSell(s) PROVE StopsMatchRows'
  BY <1>0, <1>14, <1>sym, CloseSellEffect, CancelEffect
<1>15. CASE CloseConfirmed
  BY <1>0, <1>15, <1>sym, Types DEF CloseConfirmed, broker
<1>16. CASE CloseFailed
  BY <1>0, <1>16 DEF CloseFailed, GoPlace, db, broker
<1>17. CASE OrderFills
  BY <1>0, <1>17, OrderFillsEffect
<1>18. ASSUME NEW o \in stops, StopFills(o) PROVE StopsMatchRows'
  BY <1>0, <1>18 DEF StopFills, db, process
<1>19. CASE RecordLate
  BY <1>0, <1>19 DEF RecordLate, db
<1>20. CASE TradeExecDies \/ FillMisreported \/ \E o \in stops : StopFillsPartly(o)
  BY <1>no, <1>20 DEF TradeExecDies, FillMisreported, StopFillsPartly
<1>21. CASE \E o \in strays : StrayFills(o) \/ StrayDies(o)
  BY <1>0, <1>21 DEF StrayFills, StrayDies, db, process
<1>22. CASE Abort
  <2>1. pc = "trade" /\ fills' \subseteq fills /\ pc' = "rest"
        /\ UNCHANGED <<positions, stops>>
    BY <1>no, <1>22 DEF Abort, Rest, db
  <2> QED
    BY <1>0, <2>1
<1>24. ASSUME NEW o \in stops, CancelTakes(o) \/ CancelFails(o) PROVE StopsMatchRows'
  BY <1>0, <1>24, CancelEndsEffect
<1>23. CASE \/ OrderRefused \/ RecordFilled \/ RecordRefused
            \/ HourPasses \/ Tick \/ ToggleTrading \/ UNCHANGED vars
  BY <1>0, <1>23, QuietSteps
<1> QED
  BY <1>1, <1>2, <1>3, <1>4, <1>5, <1>6, <1>7, <1>8, <1>9, <1>10, <1>11, <1>12, <1>13,
     <1>14, <1>15, <1>16, <1>17, <1>18, <1>19, <1>20, <1>21, <1>22, <1>23, <1>24
  DEF Next, CycleStep, TradeExecStep, BrokerStep

\* Until a stop order fills in part, one whose id a row names is of the row's
\* size and has not filled, also after its cancel was asked for or has failed.
LEMMA WholeOrdersStep ==
  ASSUME IInv, IdsBySymbol, OrdersWhole, [Next]_vars, Only(Orderly)'
  PROVE  OrdersWhole'
<1>0. \A o \in stops :
        /\ o.id \notin fills
        /\ \A s \in Symbols : o.id = positions[s].id => o.qty = positions[s].qty
        /\ pc = "save" /\ o.id = job.row.id => o.qty = job.row.qty
  BY DEF OrdersWhole
<1>no. ~Fault("partial") /\ ~Fault("crash")
  BY Blamed DEF Orderly
<1>none. \A o \in stops : o.id # NoRow.id
  BY Types, NoIdIsNone DEF StopOrder, NoRow
<1> USE DEF OrdersWhole
<1>1. CASE PlaceStop
  BY <1>0, <1>1, PlaceStopEffect DEF IdsInUse, LiveIds, RowIds, StopOfRow
<1>2. CASE Upsert
  <2>1. pc' # "save" /\ stops' = stops /\ fills' = fills /\ pc = "save"
        /\ \A s \in Symbols : positions'[s] = IF s = job.sym THEN job.row ELSE positions[s]
    BY <1>2, JobFacts, Types DEF Upsert, broker, Loops
  <2> QED
    BY <1>0, <2>1
<1>3. ASSUME NEW s \in Symbols, ManageTrail(s) \/ CloseSell(s) PROVE OrdersWhole'
  <2>1. /\ pc' # "save" /\ fills' = fills /\ positions' = positions /\ CancelStop(s)
    BY <1>3, ManageTrailEffect, CloseSellEffect
  <2>2. \A o \in stops' : \E p \in stops : p.id = o.id /\ p.qty = o.qty
    BY <2>1, CancelEffect
  <2> QED
    BY <1>0, <2>1, <2>2
<1>4. ASSUME NEW s \in Symbols, StopOut(s) PROVE OrdersWhole'
  BY <1>0, <1>4, <1>none, Types DEF StopOut, broker
<1>5. ASSUME NEW s \in Symbols, ManageSave(s) PROVE OrdersWhole'
  <2>1. \A t \in Symbols : /\ positions'[t].qty = positions[t].qty
                           /\ positions'[t].id = positions[t].id
    BY <1>5, Types DEF ManageSave, Row
  <2> QED
    BY <1>0, <1>5, <2>1 DEF ManageSave, broker
<1>6. CASE CloseConfirmed
  BY <1>0, <1>6, <1>none, Types DEF CloseConfirmed, broker
<1>7. ASSUME NEW o \in stops, StopFills(o) PROVE OrdersWhole'
  <2>1. /\ stops' = stops \ {o} /\ fills' \subseteq fills \union {o.id}
        /\ UNCHANGED <<positions, pc, job>>
    BY <1>7 DEF StopFills, Noticed, db, process
  <2>2. \A q \in stops \ {o} : q.id # o.id
    BY DEF IdsBySymbol
  <2> QED
    BY <1>0, <2>1, <2>2
<1>8. ASSUME NEW o \in stops, CancelTakes(o) \/ CancelFails(o) PROVE OrdersWhole'
  <2>1. \A q \in stops' : \E r \in stops : r.id = q.id /\ r.qty = q.qty
    BY <1>8, CancelEndsEffect
  <2> QED
    BY <1>0, <1>8, <2>1, CancelEndsEffect
<1>9. CASE TradeExecDies \/ FillMisreported \/ \E o \in stops : StopFillsPartly(o)
  BY <1>no, <1>9 DEF TradeExecDies, FillMisreported, StopFillsPartly
<1>10. CASE \/ Connect \/ BeginManage \/ BeginClose \/ BeginEntries \/ EntryRefused
            \/ SkipEntries \/ EndEntries \/ EndClose \/ Abort
            \/ \E s \in Symbols : ManageHold(s)
  BY <1>0, <1>10 DEF Connect, BeginManage, BeginClose, BeginEntries, EntryRefused, SkipEntries,
                     EndEntries, EndClose, Abort, ManageHold, Rest, db, broker
<1>11. CASE \/ EntryFilled \/ EntryRecovered \/ CloseFailed
            \/ \E s \in Symbols : EntryBuy(s)
  <2>1. pc' \in {"place", "trade"} /\ UNCHANGED <<positions, stops, fills>>
    BY <1>11, EntryFilledEffect, EntryRecoveredEffect, EntryBuyEffect
    DEF CloseFailed, GoPlace, db, broker
  <2> QED
    BY <1>0, <2>1
<1>12. CASE \/ OrderFills \/ RecordLate \/ \E o \in strays : StrayFills(o) \/ StrayDies(o)
  BY <1>0, <1>12 DEF OrderFills, RecordLate, StrayFills, StrayDies, db, process
<1>13. CASE \/ OrderRefused \/ RecordFilled \/ RecordRefused
            \/ HourPasses \/ Tick \/ ToggleTrading \/ UNCHANGED vars
  BY <1>0, <1>13, QuietSteps
<1> QED
  BY <1>1, <1>2, <1>3, <1>4, <1>5, <1>6, <1>7, <1>8, <1>9, <1>10, <1>11, <1>12, <1>13
  DEF Next, CycleStep, TradeExecStep, BrokerStep

\* What force_close_all believes to be sold is sold.
LEMMA ClosedNotHeld ==
  ASSUME IInv, WithinClaims, CloseConfirmed
  PROVE  job.sym \in Symbols /\ shares[job.sym] <= 0
<1>1. /\ pc = "trade" /\ job.back = "close" /\ child \in {"exit0", "exit1"}
      /\ job.sym \in Symbols /\ InHand(job.sym)
  BY Types DEF CloseConfirmed, Busy, InHand
<1>2. shares[job.sym] <= view[job.sym]
  BY <1>1 DEF WithinClaims, Loop, Busy
<1>3. CASE child = "exit0"
  BY <1>1, <1>3 DEF WithinClaims, Claim, Delivered
<1>4. CASE child = "exit1"
  <2>1. view[job.sym] = 0 \/ shares[job.sym] = 0
    BY <1>4 DEF CloseConfirmed, Closed, BrokerViews
  <2> QED
    BY <1>1, <1>2, <2>1
<1> QED
  BY <1>1, <1>3, <1>4

\* An entry that trade_exec reports as failed bought nothing.
LEMMA FailedEntryNotHeld ==
  ASSUME IInv, WithinClaims, pc = "trade", job.back = "entries", child = "exit1"
  PROVE  job.sym \in Symbols /\ shares[job.sym] <= 0
BY Types DEF WithinClaims, Claim, InHand, Busy, Delivered

\* Until the broker refuses a stop, or a process dies, what is held is covered
\* by a live stop order, whether or not stops fill in part.
LEMMA CoverStep ==
  ASSUME IInv, IdsBySymbol, WithinClaims, Covered, [Next]_vars, Only(Armed)'
  PROVE  Covered'
<1>0. \A s \in Symbols : shares[s] > 0 /\ ~(InHand(s) /\ pc \in {"trade", "place"}) =>
        \E o \in stops : o.sym = s /\ o.ask = "none" /\ o.qty >= shares[s]
  BY DEF Covered
<1>no. ~Fault("late") /\ ~Fault("timeout") /\ ~Fault("crash") /\ ~Fault("deadstop")
  BY Blamed DEF Armed
<1> USE DEF Busy, InHand, Covered
<1>1. CASE PlaceStop
  <2>1. PICK o \in StopOrder : /\ o.sym = job.sym /\ o.qty = job.row.qty /\ o.ask = "none"
                               /\ stops' = stops \union {o}
    BY <1>1, <1>no, PlaceStopEffect DEF StopOfRow
  <2>2. shares[job.sym] <= job.row.qty
    BY <1>1, PlaceStopEffect, Types DEF WithinClaims, Claim
  <2> QED
    BY <1>0, <1>1, <2>1, <2>2, PlaceStopEffect, Types
<1>2. ASSUME NEW s \in Symbols, ManageTrail(s) \/ CloseSell(s) PROVE Covered'
  <2>1. /\ pc \in {"manage", "close"} /\ pc' \in {"trade", "place"} /\ job'.sym = s
        /\ CancelStop(s) /\ shares' = shares
    BY <1>2, ManageTrailEffect, CloseSellEffect
  <2>2. \A o \in stops : o.sym # s => o \in stops'
    BY <2>1, CancelOwnOnly, CancelEffect
  <2> QED
    BY <1>0, <2>1, <2>2
<1>3. CASE Upsert
  BY <1>0, <1>3, JobFacts, Types DEF Upsert, broker, Loops
<1>4. CASE CloseConfirmed
  BY <1>0, <1>4, ClosedNotHeld, Types DEF CloseConfirmed, broker
<1>5. CASE EntryRefused
  BY <1>0, <1>5, FailedEntryNotHeld, Types DEF EntryRefused, broker
<1>6. ASSUME NEW s \in Symbols, EntryBuy(s) PROVE Covered'
  BY <1>0, <1>6, EntryBuyEffect
<1>7. CASE EntryFilled \/ EntryRecovered
  BY <1>0, <1>7, EntryFilledEffect, EntryRecoveredEffect
<1>8. CASE CloseFailed
  BY <1>0, <1>8 DEF CloseFailed, GoPlace, broker
<1>9. CASE \/ Connect \/ BeginManage \/ SkipEntries \/ BeginEntries \/ EndEntries
           \/ BeginClose \/ EndClose
           \/ \E s \in Symbols : StopOut(s) \/ ManageHold(s) \/ ManageSave(s)
  BY <1>0, <1>9 DEF Connect, BeginManage, SkipEntries, BeginEntries, EndEntries, BeginClose,
                    EndClose, Rest, StopOut, ManageHold, ManageSave, broker
<1>10. CASE OrderFills
  BY <1>0, <1>10, OrderFillsEffect
<1>11. ASSUME NEW o \in stops, StopFills(o) PROVE Covered'
  <2>1. o.sym \in Symbols /\ o.qty \in Nat
    BY Types DEF StopOrder
  <2>2. /\ stops' = stops \ {o} /\ UNCHANGED <<pc, job>>
        /\ shares' = [shares EXCEPT ![o.sym] = @ - o.qty]
    BY <1>11, <2>1, Types DEF StopFills, Deliver, Signed, process
  <2>3. ASSUME NEW s \in Symbols, shares'[s] > 0, ~(InHand(s) /\ pc \in {"trade", "place"})
        PROVE  \E p \in stops' : p.sym = s /\ p.ask = "none" /\ p.qty >= shares'[s]
    <3>1. shares'[s] <= shares[s] /\ shares[s] \in Int /\ shares'[s] \in Int
      BY <2>1, <2>2, Types
    <3>2. PICK p \in stops : p.sym = s /\ p.ask = "none" /\ p.qty >= shares[s]
      BY <1>0, <2>3, <3>1
    <3>3. p # o
      BY <2>1, <2>2, <2>3, <3>2, Types
    <3>4. p.qty \in Nat
      BY Types DEF StopOrder
    <3> QED
      BY <2>2, <3>1, <3>2, <3>3, <3>4
  <2> QED
    BY <2>2, <2>3
<1>12. ASSUME NEW o \in stops, StopFillsPartly(o) PROVE Covered'
  <2> DEFINE rest == [o EXCEPT !.qty = @ - 1]
  <2>1. /\ o.sym \in Symbols /\ o.qty \in Nat
        /\ rest.sym = o.sym /\ rest.qty = o.qty - 1 /\ rest.ask = o.ask
    BY ChangedOrder
  <2>2. stops' = (stops \ {o}) \union {rest} /\ UNCHANGED <<pc, job>>
    BY <1>12 DEF StopFillsPartly, process
  <2>3. shares' = [shares EXCEPT ![o.sym] = @ - 1]
    BY <1>12, <2>1, Types DEF StopFillsPartly, Deliver, Signed
  <2> HIDE DEF rest
  <2>4. ASSUME NEW s \in Symbols, shares'[s] > 0, ~(InHand(s) /\ pc \in {"trade", "place"})
        PROVE  \E p \in stops' : p.sym = s /\ p.ask = "none" /\ p.qty >= shares'[s]
    <3>1. /\ shares[s] \in Int /\ shares'[s] \in Int
          /\ shares'[s] = IF s = o.sym THEN shares[s] - 1 ELSE shares[s]
      BY <2>1, <2>3, Types
    <3>2. PICK p \in stops : p.sym = s /\ p.ask = "none" /\ p.qty >= shares[s]
      BY <1>0, <2>4, <3>1
    <3>3. p.qty \in Nat
      BY Types DEF StopOrder
    <3>4. CASE p = o
      BY <2>1, <2>2, <3>1, <3>2, <3>4
    <3>5. CASE p # o
      BY <2>2, <3>1, <3>2, <3>3, <3>5
    <3> QED
      BY <3>4, <3>5
  <2> QED
    BY <2>2, <2>4
<1>13. CASE \E o \in strays : StrayFills(o) \/ StrayDies(o)
  BY <1>13 DEF WithinClaims
<1>14. CASE RecordLate \/ TradeExecDies \/ FillMisreported \/ Abort
  BY <1>no, <1>14 DEF RecordLate, TradeExecDies, FillMisreported, Abort
<1>16. ASSUME NEW o \in stops, CancelTakes(o) \/ CancelFails(o) PROVE Covered'
  BY <1>0, <1>16, CancelEndsEffect
<1>15. CASE \/ OrderRefused \/ RecordFilled \/ RecordRefused
            \/ HourPasses \/ Tick \/ ToggleTrading \/ UNCHANGED vars
  BY <1>0, <1>15, QuietSteps
<1> QED
  BY <1>1, <1>2, <1>3, <1>4, <1>5, <1>6, <1>7, <1>8, <1>9, <1>10, <1>11, <1>12, <1>13,
     <1>14, <1>15, <1>16
  DEF Next, CycleStep, TradeExecStep, BrokerStep

\* A stop order that a row names covers all that is held, so its fill sells it all.
LEMMA FillSellsAll ==
  ASSUME IInv, IdsBySymbol, WithinClaims, OrdersWhole, NEW o \in stops,
         \/ \E s \in Symbols : positions[s].id = o.id
         \/ pc = "save" /\ job.row.id = o.id
  PROVE  shares[o.sym] <= o.qty
<1>1. /\ o.sym \in Symbols /\ o.qty \in Nat /\ o.id # NoId
      /\ shares[o.sym] \in Int /\ positions[o.sym].qty \in Nat /\ job.row.qty \in Nat
  BY NoIdIsNone, Types DEF StopOrder
<1>2. CASE pc = "save" /\ job.row.id = o.id
  <2>1. o.qty = job.row.qty /\ o.sym = job.sym /\ InHand(o.sym)
    BY <1>1, <1>2 DEF OrdersWhole, IdsBySymbol, Busy, InHand
  <2> QED
    BY <1>1, <1>2, <2>1 DEF WithinClaims, Claim
<1>3. CASE \E s \in Symbols : positions[s].id = o.id
  <2>1. positions[o.sym].id = o.id
    BY <1>3, CancelOwnOnly
  <2>2. o.qty = positions[o.sym].qty /\ o.sym \in Tracked
    BY <1>1, <2>1, TrackedMeans DEF OrdersWhole
  <2>3. CASE ~InHand(o.sym)
    BY <1>1, <2>2, <2>3 DEF WithinClaims, Claim
  <2>4. CASE InHand(o.sym)
    <3>1. job.back # "entries"
      BY <2>2, <2>4, Types DEF VisitsRows, Loop, InHand
    <3>2. job.row.qty = positions[o.sym].qty
      BY <2>4, <3>1 DEF IdsBySymbol, InHand
    <3>3. Claim(o.sym) <= job.row.qty
      BY <1>1, <2>4, <3>1 DEF Claim
    <3> QED
      BY <1>1, <2>2, <2>4, <3>2, <3>3, Types DEF WithinClaims, Claim
  <2> QED
    BY <2>3, <2>4
<1> QED
  BY <1>2, <1>3

\* As long as stops fill whole, a row whose stop shows a fill holds nothing,
\* and neither does a symbol without a row.
LEMMA GoneStep ==
  ASSUME IInv, IdsBySymbol, WithinClaims, OrdersWhole, FilledMeansGone,
         [Next]_vars, Only(Whole)'
  PROVE  FilledMeansGone'
<1>0. /\ \A s \in Symbols : ~InHand(s) /\ s \notin Tracked => shares[s] <= 0
      /\ \A s \in Symbols : positions[s].id \in fills => shares[s] <= 0
      /\ pc = "save" /\ job.row.id \in fills => shares[job.sym] <= 0
      /\ pc = "stopouts" => \A s \in todo : shares[s] <= 0
  BY DEF FilledMeansGone
<1>no. /\ ~Fault("late") /\ ~Fault("timeout") /\ ~Fault("crash") /\ ~Fault("partial")
  BY Blamed DEF Whole
<1>none. NoRow.id \notin fills /\ NoRow.qty = 0
  BY Types, NoIdIsNone DEF NoRow
<1> USE DEF Busy, InHand, Tracked, FilledMeansGone
<1>1. CASE Connect
  BY <1>0, <1>1 DEF Connect, StoppedOut, db, broker
<1>2. CASE BeginManage \/ BeginClose \/ BeginEntries
  BY <1>0, <1>2 DEF BeginManage, BeginClose, BeginEntries, db, broker
<1>3. CASE SkipEntries \/ EndEntries \/ EndClose
  BY <1>0, <1>3 DEF SkipEntries, EndEntries, EndClose, Rest, db
<1>4. ASSUME NEW s \in Symbols, StopOut(s) PROVE FilledMeansGone'
  BY <1>0, <1>4, <1>none, Types DEF StopOut, IsFirst, Visited, broker
<1>5. ASSUME NEW s \in Symbols, ManageHold(s) PROVE FilledMeansGone'
  BY <1>0, <1>5 DEF ManageHold, db, broker
<1>6. ASSUME NEW s \in Symbols, ManageSave(s) PROVE FilledMeansGone'
  <2>1. \A t \in Symbols : /\ positions'[t].qty = positions[t].qty
                           /\ positions'[t].id = positions[t].id
    BY <1>6, Types DEF ManageSave, Row
  <2> QED
    BY <1>0, <1>6, <2>1 DEF ManageSave, broker
<1>7. ASSUME NEW s \in Symbols, ManageTrail(s) PROVE FilledMeansGone'
  BY <1>0, <1>7, ManageTrailEffect
<1>8. CASE PlaceStop
  BY <1>0, <1>8, PlaceStopEffect DEF IdsInUse
<1>9. CASE Upsert
  BY <1>0, <1>9, Types, JobFacts DEF Upsert, broker, Loops
<1>10. ASSUME NEW s \in Symbols, EntryBuy(s) PROVE FilledMeansGone'
  BY <1>0, <1>10, EntryBuyEffect
<1>11. CASE EntryFilled
  BY <1>0, <1>11, EntryFilledEffect
<1>12. CASE EntryRecovered
  BY <1>0, <1>12, EntryRecoveredEffect
<1>13. CASE EntryRefused
  BY <1>0, <1>13, FailedEntryNotHeld DEF EntryRefused, db, broker
<1>14. ASSUME NEW s \in Symbols, CloseSell(s) PROVE FilledMeansGone'
  BY <1>0, <1>14, CloseSellEffect
<1>15. CASE CloseConfirmed
  BY <1>0, <1>15, <1>none, ClosedNotHeld, Types DEF CloseConfirmed, broker
<1>16. CASE CloseFailed
  BY <1>0, <1>16 DEF CloseFailed, GoPlace, db, broker
<1>17. CASE OrderFills
  <2>1. job.sym \in Symbols /\ job.row.qty \in Nat /\ shares[job.sym] \in Int
    BY <1>17, OrderFillsEffect, Types
  <2>2. job.back = "entries" => positions[job.sym].id \notin fills
    BY <1>17, <1>none, <2>1, OrderFillsEffect, Types DEF VisitsRows, Loop, RowsWhole
  <2> QED
    BY <1>0, <1>17, <2>1, <2>2, OrderFillsEffect
<1>18. ASSUME NEW o \in stops, StopFills(o) PROVE FilledMeansGone'
  <2>1. o.sym \in Symbols /\ o.qty \in Nat
    BY ChangedOrder
  <2>2. /\ fills' = fills \union Noticed(o.id) /\ UNCHANGED <<positions, pc, job, todo>>
        /\ shares' = [shares EXCEPT ![o.sym] = @ - o.qty]
    BY <1>18, <2>1, Types DEF StopFills, Deliver, Signed, db, process
  <2>3. /\ shares[o.sym] <= o.qty => shares'[o.sym] <= 0
        /\ \A s \in Symbols : shares[s] <= 0 => shares'[s] <= 0
    BY <2>1, <2>2, Types
  <2>4. \A s \in Symbols : positions[s].id = o.id => s = o.sym
    BY CancelOwnOnly
  <2>5. pc = "save" /\ job.row.id = o.id => job.sym = o.sym
    BY NoIdIsNone, Types DEF IdsBySymbol, StopOrder
  <2>6. \A s \in Symbols : positions[s].id \in fills' => shares'[s] <= 0
    <3> SUFFICES ASSUME NEW s \in Symbols, positions[s].id \in fills' PROVE shares'[s] <= 0
      OBVIOUS
    <3>1. CASE positions[s].id \in fills
      BY <1>0, <2>3, <3>1
    <3>2. CASE positions[s].id = o.id
      BY <2>3, <2>4, <3>2, FillSellsAll
    <3> QED
      BY <2>2, <3>1, <3>2 DEF Noticed
  <2>7. pc = "save" /\ job.row.id \in fills' => shares'[job.sym] <= 0
    <3> SUFFICES ASSUME pc = "save", job.row.id \in fills' PROVE shares'[job.sym] <= 0
      OBVIOUS
    <3>1. CASE job.row.id \in fills
      BY <1>0, <2>3, <3>1, Types
    <3>2. CASE job.row.id = o.id
      BY <2>3, <2>5, <3>2, FillSellsAll
    <3> QED
      BY <2>2, <3>1, <3>2 DEF Noticed
  <2> QED
    BY <1>0, <2>2, <2>3, <2>6, <2>7, Types
<1>19. CASE \E o \in strays : StrayFills(o) \/ StrayDies(o)
  BY <1>19 DEF WithinClaims
<1>20. CASE \/ RecordLate \/ TradeExecDies \/ FillMisreported \/ Abort
            \/ \E o \in stops : StopFillsPartly(o)
  BY <1>no, <1>20 DEF RecordLate, TradeExecDies, FillMisreported, Abort, StopFillsPartly
<1>22. ASSUME NEW o \in stops, CancelTakes(o) \/ CancelFails(o) PROVE FilledMeansGone'
  BY <1>0, <1>22, CancelEndsEffect
<1>21. CASE \/ OrderRefused \/ RecordFilled \/ RecordRefused
            \/ HourPasses \/ Tick \/ ToggleTrading \/ UNCHANGED vars
  BY <1>0, <1>21, QuietSteps
<1> QED
  BY <1>1, <1>2, <1>3, <1>4, <1>5, <1>6, <1>7, <1>8, <1>9, <1>10, <1>11, <1>12, <1>13,
     <1>14, <1>15, <1>16, <1>17, <1>18, <1>19, <1>20, <1>21, <1>22
  DEF Next, CycleStep, TradeExecStep, BrokerStep

\* As long as stops fill whole, between cycles, and are read within the hour,
\* the tables say exactly what is held.
LEMMA ExactStep ==
  ASSUME IInv, IdsBySymbol, WithinClaims, StopsMatchRows, OrdersWhole, Exact,
         [Next]_vars, Only(Timely)'
  PROVE  Exact'
<1>0. /\ Settled
      /\ \A s \in Symbols :
           shares[s] = IF ~InHand(s) /\ positions[s].id \in fills THEN 0 ELSE Claim(s)
      /\ pc = "stopouts" => \A s \in Symbols : s \in todo <=> positions[s].id \in fills
      /\ pc \notin {"rest", "stopouts"} => \A s \in Symbols : positions[s].id \notin fills
      /\ pc = "save" => job.row.id \notin fills
      /\ pc = "trade" => job.back # "manage"
      /\ Loop \in {"stopouts", "manage"} => \A s \in Symbols : view[s] = shares[s]
      /\ Loop = "entries" =>
           \A s \in todo : view[s] = 0 \/ (InHand(s) /\ pc \in {"place", "save"})
  BY DEF Exact
<1>no. /\ ~Fault("late") /\ ~Fault("timeout") /\ ~Fault("crash") /\ ~Fault("partial")
       /\ ~Fault("race") /\ ~Fault("outage") /\ ~Fault("cancel")
  BY Blamed DEF Timely
<1>ask. \A o \in stops : o.ask # "none" =>
          /\ o.sym = job.sym /\ pc \in {"trade", "place"} /\ o.ask = "sent"
          /\ pc = "trade" => job.back = "close" /\ child \notin {"filled", "exit0"}
  BY DEF Exact, Settled, InHand, Busy, Delivered
<1>sym. \A o \in stops : o.sym \in Symbols
  BY Types DEF StopOrder
<1>none. NoRow.id \notin fills /\ NoRow.qty = 0
  BY Types, NoIdIsNone DEF NoRow
<1>flat. \A s \in Symbols : s \notin Tracked => positions[s].qty = 0 /\ positions[s].id \notin fills
  BY <1>none, TrackedMeans
<1> USE DEF Busy, InHand, Loop, Claim, Delivered, Exact, Settled
<1>1. CASE Connect
  BY <1>0, <1>1, <1>flat DEF Connect, StoppedOut, db, broker
<1>2. CASE BeginManage \/ BeginClose
  BY <1>0, <1>2 DEF BeginManage, BeginClose, db, broker
<1>3. CASE BeginEntries
  BY <1>0, <1>3 DEF BeginEntries, BrokerViews, HeldSymbols, db, broker
<1>4. CASE SkipEntries \/ EndEntries \/ EndClose
  <2>1. \A s \in Symbols : positions[s].id \in fills' <=> positions[s].id \in fills
    BY <1>4 DEF SkipEntries, EndEntries, EndClose, Rest, RowIds
  <2> QED
    BY <1>0, <1>4, <2>1 DEF SkipEntries, EndEntries, EndClose, Rest, db
<1>5. ASSUME NEW s \in Symbols, StopOut(s) PROVE Exact'
  BY <1>0, <1>5, <1>none, Types DEF StopOut, IsFirst, Visited, broker
<1>6. ASSUME NEW s \in Symbols, ManageHold(s) PROVE Exact'
  BY <1>0, <1>6 DEF ManageHold, db, broker
<1>7. ASSUME NEW s \in Symbols, ManageSave(s) PROVE Exact'
  <2>1. \A t \in Symbols : /\ positions'[t].qty = positions[t].qty
                           /\ positions'[t].id = positions[t].id
    BY <1>7, Types DEF ManageSave, Row
  <2> QED
    BY <1>0, <1>7, <2>1 DEF ManageSave, broker
<1>8. ASSUME NEW s \in Symbols, ManageTrail(s) PROVE Exact'
  <2>1. \A o \in stops' : o.ask # "none" => o.sym = s /\ o.ask = "sent"
    BY <1>ask, <1>8, CancelEffect, CancelOwnOnly, ManageTrailEffect
  <2> QED
    BY <1>0, <1>8, <2>1, ManageTrailEffect
<1>9. CASE PlaceStop
  <2>1. job.back = "entries" => \A s \in todo \ {job.sym} : shares[s] = 0
    BY <1>0, <1>9, <1>flat, PlaceStopEffect, Types DEF VisitsRows
  <2>2. \A o \in stops' : o.ask = "none"
    BY <1>ask, <1>9, PlaceStopEffect DEF CancelsSettled
  <2> QED
    BY <1>0, <1>9, <2>1, <2>2, PlaceStopEffect DEF IdsInUse
<1>10. CASE Upsert
  BY <1>0, <1>10, Types, JobFacts DEF Upsert, broker, Loops, Visited
<1>11. ASSUME NEW s \in Symbols, EntryBuy(s) PROVE Exact'
  <2>1. shares[s] = 0
    BY <1>0, <1>11, <1>flat, EntryBuyEffect DEF IInv, VisitsRows
  <2> QED
    BY <1>0, <1>11, <2>1, EntryBuyEffect
<1>12. CASE EntryFilled
  BY <1>0, <1>12, EntryFilledEffect
<1>13. CASE EntryRecovered
  <2>1. job.sym \in Symbols /\ shares[job.sym] = 0 /\ view[job.sym] = 0
    BY <1>0, <1>13, EntryRecoveredEffect, Types
  <2> QED
    BY <1>13, <2>1 DEF EntryRecovered, BrokerViews
<1>14. CASE EntryRefused
  <2>1. /\ job.sym \in Symbols /\ shares[job.sym] = 0
        /\ positions[job.sym].qty = 0 /\ positions[job.sym].id \notin fills
    BY <1>0, <1>14, <1>flat, Types DEF EntryRefused, VisitsRows
  <2> QED
    BY <1>0, <1>14, <2>1 DEF EntryRefused, Visited, db, broker
<1>15. ASSUME NEW s \in Symbols, CloseSell(s) PROVE Exact'
  <2>1. \A o \in stops' : o.ask # "none" => o.sym = s /\ o.ask = "sent"
    BY <1>ask, <1>15, CancelEffect, CancelOwnOnly, CloseSellEffect
  <2> QED
    BY <1>0, <1>15, <2>1, CloseSellEffect
<1>16. CASE CloseConfirmed
  <2>1. job.sym \in Symbols /\ job.row.qty > 0 /\ shares[job.sym] <= 0
    BY <1>16, ClosedNotHeld, Types DEF CloseConfirmed
  <2>2. shares[job.sym] = 0
    BY <1>0, <1>16, <2>1, Types DEF CloseConfirmed
  <2>3. \A o \in stops : o.ask = "none"
    BY <1>0, <1>16, <1>ask, <2>1, <2>2 DEF CloseConfirmed
  <2> QED
    BY <1>0, <1>16, <1>none, <2>1, <2>2, <2>3, Types DEF CloseConfirmed, broker
<1>17. CASE CloseFailed
  BY <1>0, <1>17 DEF CloseFailed, GoPlace, db, broker
<1>18. CASE OrderFills
  <2>1. job.sym \in Symbols /\ job.row.qty \in Nat /\ shares[job.sym] \in Int
    BY <1>18, OrderFillsEffect, Types
  <2>2. shares'[job.sym] = Claim(job.sym)'
    BY <1>0, <1>18, <2>1, OrderFillsEffect
  <2>3. \A s \in Symbols \ {job.sym} :
          shares[s] = IF positions[s].id \in fills THEN 0 ELSE positions[s].qty
    BY <1>0
  <2>4. \A s \in Symbols : shares'[s] = IF ~InHand(s)' /\ positions'[s].id \in fills'
                                         THEN 0 ELSE Claim(s)'
    BY <1>18, <2>2, <2>3, OrderFillsEffect
  <2>5. job.back \in {"entries", "close"}
    BY <1>0, <1>18, OrderFillsEffect, Types, JobFacts DEF Loops
  <2>6. pc = "trade" /\ (job.back = "entries" => \A s \in todo : view[s] = 0)
    BY <1>0, <1>18, OrderFillsEffect
  <2>7. \A o \in stops : o.ask = "none"
    BY <1>18, <1>ask, OrderFillsEffect DEF CancelsSettled
  <2> QED
    BY <1>0, <1>18, <2>4, <2>5, <2>6, <2>7, OrderFillsEffect
<1>19. ASSUME NEW o \in stops, StopFills(o) PROVE Exact'
  <2>1. o.sym \in Symbols /\ o.qty \in Nat
    BY Types DEF StopOrder
  <2>2. pc = "rest"
    BY <1>no, <1>19 DEF StopFills
  <2>3. /\ o.id = positions[o.sym].id /\ o.qty = positions[o.sym].qty /\ o.id \notin fills
    BY <1>ask, <2>2 DEF StopsMatchRows, OrdersWhole, StopOfRow
  <2>4. /\ fills' = fills \union {o.id} /\ stops' = stops \ {o} /\ UNCHANGED <<positions, pc, job, todo, view>>
        /\ shares' = [shares EXCEPT ![o.sym] = @ - o.qty]
    <3>1. Noticed(o.id) = {o.id}
      BY <2>1, <2>3 DEF Noticed, RowIds
    <3> QED
      BY <1>19, <2>1, <3>1, Types DEF StopFills, Deliver, Signed, db, process
  <2>5. shares'[o.sym] = 0 /\ \A s \in Symbols \ {o.sym} : shares'[s] = shares[s]
    BY <1>0, <2>1, <2>2, <2>3, <2>4, Types
  <2>6. \A s \in Symbols : positions[s].id = o.id => s = o.sym
    BY CancelOwnOnly
  <2> QED
    BY <1>0, <1>ask, <2>2, <2>3, <2>4, <2>5, <2>6
<1>20. CASE \E o \in strays : StrayFills(o) \/ StrayDies(o)
  BY <1>20 DEF WithinClaims
<1>21. CASE \/ RecordLate \/ TradeExecDies \/ FillMisreported \/ Abort \/ HourPasses
            \/ \E o \in stops : StopFillsPartly(o)
  BY <1>no, <1>21 DEF RecordLate, TradeExecDies, FillMisreported, Abort, HourPasses,
                      StopFillsPartly
<1>24. ASSUME NEW o \in stops, CancelTakes(o) \/ CancelFails(o) PROVE Exact'
  <2>1. stops' \subseteq stops
    BY <1>no, <1>24, CancelEndsEffect
  <2> QED
    BY <1>0, <1>24, <2>1, CancelEndsEffect
<1>22. CASE Tick
  <2>1. \A s \in Symbols : positions[s].id \in fills' <=> positions[s].id \in fills
    BY <1>no, <1>22 DEF Tick, FillsUnread, RowIds
  <2>2. fills' \subseteq fills /\ UNCHANGED <<positions, shares, stops, process>>
    BY <1>22 DEF Tick
  <2> QED
    BY <1>0, <2>1, <2>2 DEF process
<1>23. CASE \/ OrderRefused \/ RecordFilled \/ RecordRefused \/ ToggleTrading \/ UNCHANGED vars
  <2>1. fills' = fills
    BY <1>23 DEF OrderRefused, RecordFilled, RecordRefused, ToggleTrading, vars, broker
  <2> QED
    BY <1>0, <1>23, <2>1, QuietSteps
<1> QED
  BY <1>1, <1>2, <1>3, <1>4, <1>5, <1>6, <1>7, <1>8, <1>9, <1>10, <1>11, <1>12, <1>13,
     <1>14, <1>15, <1>16, <1>17, <1>18, <1>19, <1>20, <1>21, <1>22, <1>23, <1>24
  DEF Next, CycleStep, TradeExecStep, BrokerStep

-----------------------------------------------------------------------------
(* The theorems.                                                           *)

\* An empty account, empty tables and an idle process.
LEMMA AccountInit == Init => AccountInv
<1> SUFFICES ASSUME Init PROVE AccountInv
  OBVIOUS
<1>1. IInv
  BY InitInv
<1>2. /\ pc = "rest" /\ stops = {} /\ strays = {} /\ fills = {} /\ ~Busy
      /\ \A s \in Symbols : positions[s] = NoRow /\ shares[s] = 0
      /\ NoRow.id = NoId /\ NoRow.qty = 0 /\ Tracked = {}
  BY DEF Init, Busy, Tracked, NoRow
<1> QED
  BY <1>1, <1>2 DEF AccountInv, IdsBySymbol, WithinClaims, StopsMatchRows, OrdersWhole,
                    Covered, FilledMeansGone, Exact, Settled, Loop, InHand, Claim

\* Each kind of trouble a part survives, the parts it rests on survive too.
LEMMA OnlyFewer ==
  /\ Only(Armed) => Only(Awaited)
  /\ Only(Whole) => Only(Awaited) /\ Only(Orderly)
  /\ Only(Timely) => Only(Awaited) /\ Only(Orderly) /\ Only(Whole)
BY DEF Only, Armed, Whole, Timely, Awaited, Orderly, FaultKinds

\* Every step keeps every part, as long as only failures it survives happened.
LEMMA AccountStep == AccountInv /\ [Next]_vars => AccountInv'
<1> SUFFICES ASSUME AccountInv, [Next]_vars PROVE AccountInv'
  OBVIOUS
<1>1. \A K \in {Armed, Whole, Timely} : Only(K)' => Only(K)
  BY HappenedGrows
<1>2. IInv' /\ IdsBySymbol'
  BY InductiveStep, IdsStep DEF AccountInv
<1>3. Only(Awaited)' => WithinClaims'
  BY HappenedGrows, ClaimStep DEF AccountInv
<1>4. Only(Orderly)' => StopsMatchRows' /\ OrdersWhole'
  BY HappenedGrows, StopsStep, WholeOrdersStep DEF AccountInv
<1>5. Only(Armed)' => Covered'
  BY <1>1, OnlyFewer, CoverStep DEF AccountInv
<1>6. Only(Whole)' => FilledMeansGone'
  BY <1>1, OnlyFewer, GoneStep DEF AccountInv
<1>7. Only(Timely)' => Exact'
  BY <1>1, OnlyFewer, ExactStep DEF AccountInv
<1> QED
  BY <1>2, <1>3, <1>4, <1>5, <1>6, <1>7 DEF AccountInv

\* So the tables and the account keep to it in every reachable state.
LEMMA AccountInductive == Spec => []AccountInv
<1> QED
  BY AccountInit, AccountStep, PTL DEF Spec

\* Until a process dies or a stop order fills in part, every live stop order that
\* no row stores, other than the one about to be stored, is one whose cancel was
\* asked for: it has yet to take effect, or it failed.
THEOREM StopsOwned == Spec => []StopsAreOwned
<1>1. AccountInv => StopsAreOwned
  <2> SUFFICES ASSUME AccountInv, Only(Orderly), NEW o \in stops, o.ask = "none"
               PROVE  \/ o.sym \in Tracked /\ positions[o.sym].id = o.id
                      \/ pc = "save" /\ job.sym = o.sym /\ job.row.id = o.id
    BY DEF StopsAreOwned, Orderly
  <2> QED
    BY DEF AccountInv, StopsMatchRows, StopOfRow, InHand
<1> QED
  BY <1>1, AccountInductive, PTL

\* Also when stops fill within a cycle, cancels fail and fills go unread, every
\* share held between cycles has a row and its row's own live stop order.
THEOREM HeldProtected == Spec => []HeldSharesProtected
<1>1. AccountInv => HeldSharesProtected
  <2> SUFFICES ASSUME AccountInv, pc = "rest", Only({"race", "cancel", "outage"}),
                      NEW s \in Symbols, shares[s] > 0
               PROVE  /\ shares[s] <= positions[s].qty
                      /\ \E o \in stops : o.id = positions[s].id /\ o.sym = s /\ o.ask = "none"
                                          /\ o.qty >= shares[s]
    BY DEF HeldSharesProtected
  <2>1. WithinClaims /\ StopsMatchRows /\ Covered /\ FilledMeansGone
    BY DEF AccountInv, Only, Awaited, Orderly, Armed, Whole, FaultKinds
  <2>2. ~InHand(s) /\ ~Busy /\ shares[s] \in Int
    BY Types DEF AccountInv, InHand, Busy
  <2>3. s \in Tracked
    BY <2>1, <2>2 DEF FilledMeansGone
  <2>4. shares[s] <= positions[s].qty
    BY <2>1, <2>2, <2>3 DEF WithinClaims, Claim
  <2>5. PICK o \in stops : o.sym = s /\ o.ask = "none" /\ o.qty >= shares[s]
    BY <2>1, <2>2 DEF Covered
  <2>6. o.id = positions[s].id
    BY <2>1, <2>2, <2>5 DEF StopsMatchRows, StopOfRow
  <2> QED
    BY <2>4, <2>5, <2>6
<1> QED
  BY <1>1, AccountInductive, PTL

\* Also when the broker refuses stop orders, or never acts on a cancel, no more is held between cycles
\* than the rows say.
THEOREM RefusedStopsKeepRows == Spec => []RefusedStopKeepsRow
<1>1. AccountInv => RefusedStopKeepsRow
  <2> SUFFICES ASSUME AccountInv, pc = "rest", Only(Whole), NEW s \in Symbols
               PROVE  shares[s] <= positions[s].qty
    BY DEF RefusedStopKeepsRow, Whole
  <2>1. WithinClaims /\ FilledMeansGone
    BY OnlyFewer DEF AccountInv
  <2>2. ~InHand(s) /\ shares[s] \in Int /\ positions[s].qty \in Nat
    BY Types DEF AccountInv, InHand, Busy
  <2> QED
    BY <2>1, <2>2 DEF WithinClaims, FilledMeansGone, Claim
<1> QED
  BY <1>1, AccountInductive, PTL

\* Also when stop orders fill in part, what is held is covered by a live stop
\* order at every moment but while that stop is replaced or its shares traded.
THEOREM PartialFillsKeepStops == Spec => []PartialFillKeepsStop
<1>1. AccountInv => PartialFillKeepsStop
  BY DEF AccountInv, PartialFillKeepsStop, Armed, Covered, InHand, Busy
<1> QED
  BY <1>1, AccountInductive, PTL

\* Without failures the database and the broker agree between cycles.
THEOREM RestIsConsistent == Spec => []RestConsistent
<1>1. AccountInv => RestConsistent
  <2> SUFFICES ASSUME AccountInv, pc = "rest", Only({}) PROVE RestConsistent
    BY DEF RestConsistent
  <2>1. WithinClaims /\ StopsMatchRows /\ Covered /\ Exact
    BY DEF AccountInv, Only
  <2>5. \A o \in stops : o.ask = "none"
    BY <2>1 DEF Exact, Settled, InHand, Busy
  <2>2. ASSUME NEW s \in Symbols, s \in Tracked, positions[s].id \notin fills
        PROVE  /\ shares[s] = positions[s].qty
               /\ Cardinality({o \in stops : o.sym = s}) = 1
               /\ \A o \in {o \in stops : o.sym = s} : ProtectedBy(s, o)
    <3>1. shares[s] = positions[s].qty /\ positions[s].qty > 0
      BY <2>1, <2>2 DEF Exact, Claim, InHand, Busy, Tracked
    <3>2. PICK o \in stops : o.sym = s
      BY <2>1, <3>1 DEF Covered, InHand, Busy
    <3>3. {p \in stops : p.sym = s} = {o}
      BY <2>1, <2>5, <3>2, OneStop DEF AccountInv
    <3>4. \A p \in stops : p.sym = s => ProtectedBy(s, p)
      BY <2>1, <2>5 DEF StopsMatchRows, StopOfRow, InHand, Busy, ProtectedBy
    <3> QED
      BY <3>1, <3>3, <3>4, FS_Singleton
  <2>3. ASSUME NEW s \in Symbols, ~(s \in Tracked /\ positions[s].id \notin fills)
        PROVE  shares[s] = 0 /\ {o \in stops : o.sym = s} = {}
    <3>1. shares[s] = 0
      BY <2>1, <2>3, TrackedMeans DEF Exact, Claim, InHand, Busy, AccountInv, NoRow
    <3>2. \A o \in stops : o.sym # s
      BY <2>1, <2>3, <2>5 DEF StopsMatchRows, OrdersWhole, StopOfRow, InHand, Busy, AccountInv, Only
    <3> QED
      BY <3>1, <3>2
  <2>4. strays = {}
    BY <2>1 DEF WithinClaims
  <2> QED
    BY <2>2, <2>3, <2>4 DEF RestConsistent
<1> QED
  BY <1>1, AccountInductive, PTL

\* After the stop-outs of a tick every row left is held, as long as stops fill
\* whole, between cycles, and are read within the hour.
THEOREM NoPhantomRows == Spec => []NoPhantomUnlessMissed
<1>1. AccountInv => NoPhantomUnlessMissed
  <2> SUFFICES ASSUME AccountInv, Only(Timely), pc = "manage", NEW s \in Symbols
               PROVE  view[s] >= positions[s].qty
    BY Types DEF NoPhantomUnlessMissed, NoPhantomAfterStopOuts, Timely, AccountInv
  <2>1. Exact /\ positions[s].qty \in Nat
    BY Types DEF AccountInv
  <2> QED
    BY <2>1 DEF Exact, Claim, InHand, Busy, Loop
<1> QED
  BY <1>1, AccountInductive, PTL

\* force_close_all drops a row only when nothing is held any more, whenever its
\* old stop fills and whether or not the cancel of it takes effect, unless an
\* order nobody waited for is behind what is held.
THEOREM ClosedRowsNotHeld == Spec => ClosedMeansNotHeld
<1>1. ASSUME AccountInv, [Next]_vars
      PROVE  [\A s \in Symbols :
                Only(FaultKinds \ {"late", "timeout", "crash"})
                  /\ pc = "trade" /\ positions[s].qty > 0 /\ positions'[s].qty = 0 =>
                  shares[s] <= 0]_vars
  <2> SUFFICES ASSUME NEW s \in Symbols, Only(Awaited), pc = "trade",
                      positions[s].qty > 0, positions'[s].qty = 0
               PROVE  shares[s] <= 0
    BY DEF Awaited
  <2>1. WithinClaims /\ IInv
    BY <1>1 DEF AccountInv
  <2>2. positions' # positions
    OBVIOUS
  <2>3. CloseConfirmed
    BY <1>1, <2>2, Surroundings
    DEF Next, CycleStep, Connect, BeginManage, PlaceStop, Upsert, SkipEntries, BeginEntries,
        EntryFilled, EntryRecovered, EntryRefused, EndEntries, BeginClose, CloseFailed,
        EndClose, StopOut, ManageHold, ManageSave, ManageTrail, EntryBuy, CloseSell, Abort,
        vars, db
  <2>4. s = job.sym
    BY <2>1, <2>3, Types DEF CloseConfirmed
  <2> QED
    BY <2>1, <2>3, <2>4, ClosedNotHeld
<1> QED
  BY <1>1, AccountInductive, PTL DEF Spec, ClosedMeansNotHeld

\* An entry is of the size entry_scan computed; only the force close takes its
\* quantity from a row.
LotInHand == pc = "trade" /\ job.back = "entries" => job.row.qty \in EntrySizes

\* The order of an entry is never resized on its way.
LEMMA LotStep == IInv /\ LotInHand /\ [Next]_vars => LotInHand'
<1> SUFFICES ASSUME IInv, LotInHand, [Next]_vars, pc' = "trade", job'.back = "entries"
             PROVE  job'.row.qty \in EntrySizes
  BY DEF LotInHand, EntrySizes
<1>1. ASSUME NEW s \in Symbols, EntryBuy(s)
      PROVE  job'.row.qty \in EntrySizes
  BY <1>1, EntryBuyEffect
<1>2. ~\E s \in Symbols : CloseSell(s)
  BY CloseSellEffect
<1>3. ASSUME pc' = pc, job' = job
      PROVE  job'.row.qty \in EntrySizes
  BY <1>3 DEF LotInHand
<1>4. CASE CycleStep
  <2>1. job.back # "trade"
    BY JobFacts DEF IInv, TypeOK, Loops
  <2> QED
    BY <1>1, <1>2, <1>4, <2>1
    DEF CycleStep, Connect, BeginManage, PlaceStop, Upsert, SkipEntries, BeginEntries, EntryFilled,
      EntryRecovered, EntryRefused, EndEntries, BeginClose, CloseConfirmed, CloseFailed,
        EndClose, StopOut, ManageHold, ManageSave, ManageTrail, GoPlace, Rest
<1>5. CASE Abort
  BY <1>5 DEF Abort, Rest
<1>6. CASE TradeExecStep
  BY <1>3, <1>6 DEF TradeExecStep, OrderFills, OrderRefused, RecordFilled, RecordRefused,
                    RecordLate, TradeExecDies, FillMisreported
<1>7. CASE BrokerStep
  BY <1>3, <1>7 DEF BrokerStep, StopFills, StopFillsPartly, CancelTakes, CancelFails,
                    StrayFills, StrayDies, process
<1>8. CASE HourPasses \/ Tick \/ ToggleTrading \/ UNCHANGED vars
  BY <1>3, <1>8 DEF HourPasses, Tick, ToggleTrading, vars, process
<1> QED
  BY <1>4, <1>5, <1>6, <1>7, <1>8 DEF Next

LEMMA LotInductive == Spec => []LotInHand
<1>1. Init => LotInHand
  BY DEF Init, LotInHand
<1> QED
  BY <1>1, LotStep, Inductive, PTL DEF Spec

\* As long as stops fill whole and in time, only a market order that is waited
\* for and a stop order between cycles move the account.
LEMMA AccountMoves ==
  ASSUME AccountInv, [Next]_vars, Only(Timely)', shares' # shares
  PROVE  OrderFills \/ (pc = "rest" /\ \E o \in stops : StopFills(o))
<1>1. ~Fault("late") /\ ~Fault("partial") /\ ~Fault("race")
  BY Blamed DEF Timely
<1>2. strays = {}
  BY HappenedGrows, OnlyFewer DEF AccountInv, WithinClaims
<1>3. ~(RecordLate \/ \E o \in stops : StopFillsPartly(o))
  BY <1>1 DEF RecordLate, StopFillsPartly
<1>4. \A o \in stops : StopFills(o) => pc = "rest"
  BY <1>1 DEF StopFills
<1>5. ~CycleStep
  BY DEF CycleStep, Connect, BeginManage, PlaceStop, Upsert, SkipEntries, BeginEntries,
         EntryFilled, EntryRecovered, EntryRefused, EndEntries, BeginClose, CloseConfirmed,
         CloseFailed, EndClose, StopOut, ManageHold, ManageSave, ManageTrail, EntryBuy,
         CloseSell, broker
<1>6. ~(OrderRefused \/ RecordFilled \/ RecordRefused \/ TradeExecDies \/ FillMisreported)
  BY DEF OrderRefused, RecordFilled, RecordRefused, TradeExecDies, FillMisreported, broker
<1>8. ~\E o \in stops : CancelTakes(o) \/ CancelFails(o)
  BY DEF CancelTakes, CancelFails
<1>7. ~(HourPasses \/ Tick \/ ToggleTrading \/ Abort \/ UNCHANGED vars)
  BY DEF HourPasses, Tick, ToggleTrading, Abort, vars, broker
<1> QED
  BY <1>2, <1>3, <1>4, <1>5, <1>6, <1>7, <1>8 DEF Next, TradeExecStep, BrokerStep

\* The order of an entry buys into an empty position while there is a slot, and
\* the order of the force close sells all there is.
LEMMA OrderRoundTrip ==
  ASSUME AccountInv, LotInHand, Only(Timely), OrderFills,
         NEW s \in Symbols, shares'[s] # shares[s]
  PROVE  \/ /\ shares[s] = 0 /\ shares'[s] \in 1 .. Lot
            /\ Cardinality(HeldAtBroker(shares)) < MaxConcurrent
         \/ shares[s] > 0 /\ shares'[s] = 0
<1>1. IInv /\ Exact
  BY DEF AccountInv
<1>2. /\ pc = "trade" /\ child = "working" /\ s = job.sym /\ Busy /\ ~Delivered
      /\ job.back = "entries" => shares'[s] = shares[s] + job.row.qty
      /\ job.back # "entries" => shares'[s] = shares[s] - job.row.qty
  BY <1>1, OrderFillsEffect DEF Busy, Delivered
<1>3. /\ job.back \in {"entries", "close"} /\ job.row.qty \in Nat /\ job.row.qty > 0
      /\ job \in Job
  BY <1>1, <1>2, JobFacts, Types DEF Exact, Loops
<1>4. \A t \in Symbols :
        shares[t] = IF ~InHand(t) /\ positions[t].id \in fills THEN 0 ELSE Claim(t)
  BY <1>1 DEF Exact
<1>5. CASE job.back = "entries"
  <2>1. shares[s] = 0
    BY <1>2, <1>4, <1>5 DEF InHand, Claim
  <2>2. shares'[s] \in 1 .. Lot
    BY <1>2, <1>3, <1>5, <2>1, ConstantsAssumption
    DEF LotInHand, EntrySizes, ConstantsAssumption
  <2>3. HeldAtBroker(shares) \subseteq Tracked
    <3>1. ASSUME NEW t \in Symbols, shares[t] # 0
          PROVE  t \in Tracked
      <4>1. ~InHand(t)
        BY <1>2, <2>1, <3>1 DEF InHand
      <4>2. positions[t].qty # 0
        BY <1>4, <3>1, <4>1 DEF Claim
      <4> QED
        BY <1>1, <4>2, Types DEF Tracked
    <3> QED
      BY <3>1 DEF HeldAtBroker
  <2>4. Cardinality(HeldAtBroker(shares)) < MaxConcurrent
    <3>1. IsFiniteSet(Tracked) /\ Cardinality(Tracked) \in Nat
      BY TrackedFinite, ConstantsAssumption
    <3>2. /\ Cardinality(HeldAtBroker(shares)) \in Nat
          /\ Cardinality(HeldAtBroker(shares)) <= Cardinality(Tracked)
      BY <2>3, <3>1, FS_Subset, FS_CardinalityType
    <3>3. Cardinality(Tracked) < MaxConcurrent /\ MaxConcurrent \in Nat
      BY <1>1, <1>2, <1>5, ConstantsAssumption DEF IInv, JobHasSlot, ConstantsAssumption
    <3> QED
      BY <3>1, <3>2, <3>3
  <2> QED
    BY <2>1, <2>2, <2>4
<1>6. CASE job.back = "close"
  <2>1. shares[s] = job.row.qty
    BY <1>2, <1>4, <1>6 DEF InHand, Claim
  <2> QED
    BY <1>2, <1>3, <1>6, <2>1
<1> QED
  BY <1>3, <1>5, <1>6

\* A stop order that fills between cycles sells all there is.
LEMMA StopRoundTrip ==
  ASSUME AccountInv, Only(Timely), pc = "rest", NEW o \in stops, StopFills(o),
         NEW s \in Symbols, shares'[s] # shares[s]
  PROVE  shares[s] > 0 /\ shares'[s] = 0
<1>1. IInv /\ Exact /\ StopsMatchRows /\ OrdersWhole
  BY OnlyFewer DEF AccountInv
<1>2. o.sym \in Symbols /\ o.qty \in Nat
  BY <1>1, Types DEF StopOrder
<1>3. shares' = [shares EXCEPT ![o.sym] = @ - o.qty]
  BY <1>1, <1>2, Types DEF StopFills, Deliver, Signed
<1>4. s = o.sym /\ shares'[s] = shares[s] - o.qty
  BY <1>1, <1>2, <1>3, Types
<1>5. ~InHand(s)
  BY DEF InHand, Busy
<1>6. s \in Tracked /\ o.id = positions[s].id /\ o.qty = positions[s].qty /\ o.id \notin fills
  <2>1. o.ask = "none"
    BY <1>1, <1>4, <1>5 DEF Exact, Settled
  <2> QED
    BY <1>1, <1>4, <1>5, <2>1 DEF StopsMatchRows, OrdersWhole, StopOfRow
<1>7. shares[s] = positions[s].qty
  BY <1>1, <1>5, <1>6 DEF Exact, Claim
<1> QED
  BY <1>1, <1>2, <1>4, <1>6, <1>7, Types DEF Tracked

\* The account makes whole round trips within the cap, however many symbols,
\* whatever their sizes, as long as stops fill whole, between cycles, and are
\* read within the hour: no two steps of cycle, trade_exec and broker ever buy
\* into a position, sell part of one, or sell one twice.
THEOREM RoundTrips == Spec => WholeRoundTrips
<1>1. ASSUME AccountInv, LotInHand, [Next]_vars
      PROVE  [Only({"deadstop"})' =>
                \A s \in Symbols : shares'[s] # shares[s] =>
                  \/ /\ shares[s] = 0 /\ shares'[s] \in 1 .. Lot
                     /\ Cardinality(HeldAtBroker(shares)) < MaxConcurrent
                  \/ shares[s] > 0 /\ shares'[s] = 0]_vars
  <2> SUFFICES ASSUME Only(Timely)', NEW s \in Symbols, shares'[s] # shares[s]
               PROVE  \/ /\ shares[s] = 0 /\ shares'[s] \in 1 .. Lot
                         /\ Cardinality(HeldAtBroker(shares)) < MaxConcurrent
                      \/ shares[s] > 0 /\ shares'[s] = 0
    BY DEF Timely
  <2>1. Only(Timely)
    BY <1>1, HappenedGrows
  <2>2. OrderFills \/ (pc = "rest" /\ \E o \in stops : StopFills(o))
    <3>1. shares' # shares
      OBVIOUS
    <3> QED
      BY <1>1, <3>1, AccountMoves
  <2> QED
    BY <1>1, <2>1, <2>2, OrderRoundTrip, StopRoundTrip
<1> QED
  BY <1>1, AccountInductive, LotInductive, PTL DEF Spec, WholeRoundTrips

\* Under the same conditions the account is never short. To go short it takes at
\* least one of: a stop that fills within a cycle, in part, or unread for an hour,
\* a cancel that fails, an order nobody waits for, a process that dies.
THEOREM LongOnly == Spec => [](Only({"deadstop"}) => NeverShort)
<1>1. AccountInv => (Only({"deadstop"}) => NeverShort)
  <2> SUFFICES ASSUME AccountInv, Only(Timely), NEW s \in Symbols
               PROVE  shares[s] >= 0
    BY DEF NeverShort, Timely
  <2>1. IInv /\ Exact
    BY DEF AccountInv
  <2>2. shares[s] = 0 \/ shares[s] = Claim(s)
    BY <2>1 DEF Exact
  <2>3. Claim(s) \in Nat
    BY <2>1, Types DEF Claim
  <2> QED
    BY <2>2, <2>3
<1> QED
  BY <1>1, AccountInductive, PTL

=============================================================================
