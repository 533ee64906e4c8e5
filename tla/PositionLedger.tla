--------------------------- MODULE PositionLedger ---------------------------
(***************************************************************************)
(* What one user's positions and trades tables promise, whatever happens   *)
(* to the processes and the broker: a bounded book of positions, each with *)
(* a stop that only ever rises, and a bounded count of entries a day.      *)
(* Executor implements it (LedgerSpec there).                              *)
(***************************************************************************)
EXTENDS Integers, FiniteSets

CONSTANTS Symbols, MaxConcurrent, MaxTrades, MaxLevel

VARIABLES
  book,   \* symbol -> is a position open, on which rung its stop stands, is it trailing
  used    \* entries of today

vars == <<book, used>>

Levels == 0 .. MaxLevel
Flat == [open |-> FALSE, stop |-> 0, trail |-> FALSE]
OpenSymbols == {s \in Symbols : book[s].open}

Init ==
  /\ book = [s \in Symbols |-> Flat]
  /\ used = 0

\* an entry is counted before its position is opened; a count may stay
\* without a position, and a recovered fill opens one without a count
CountEntry ==
  /\ used < MaxTrades
  /\ used' = used + 1
  /\ UNCHANGED book

Open(s) ==
  /\ ~book[s].open
  /\ Cardinality(OpenSymbols) < MaxConcurrent
  /\ \E level \in Levels :
       book' = [book EXCEPT ![s] = [open |-> TRUE, stop |-> level, trail |-> FALSE]]
  /\ UNCHANGED used

StartTrailing(s) ==
  /\ book[s].open
  /\ book' = [book EXCEPT ![s].trail = TRUE]
  /\ UNCHANGED used

\* above the initial stop, and only when trailing
RaiseStop(s) ==
  /\ book[s].open
  /\ \E level \in Levels :
       /\ level > book[s].stop /\ level > 1
       /\ book' = [book EXCEPT ![s].stop = level, ![s].trail = TRUE]
  /\ UNCHANGED used

Close(s) ==
  /\ book[s].open
  /\ book' = [book EXCEPT ![s] = Flat]
  /\ UNCHANGED used

NewDay ==
  /\ used' = 0
  /\ UNCHANGED book

Next ==
  \/ CountEntry \/ NewDay
  \/ \E s \in Symbols : Open(s) \/ StartTrailing(s) \/ RaiseStop(s) \/ Close(s)

Spec == Init /\ [][Next]_vars

=============================================================================
