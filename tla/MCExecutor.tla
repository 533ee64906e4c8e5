----------------------------- MODULE MCExecutor -----------------------------
(* Small instances of Executor for TLC; the cfg files choose the failures. *)
EXTENDS Executor

TwoSymbols == {1, 2}
OneSymbol == {1}

EveryFault == FaultKinds
\* those that some property about the account tolerates
ToleratedFaults == {"race", "cancel", "outage", "deadstop"}
LateFills == {"late"}
MidCycleStops == {"race"}
MissedHours == {"outage"}

=============================================================================
