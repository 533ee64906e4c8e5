----------------------------- MODULE MCScanBoard -----------------------------
(* Small instances of ScanBoard for TLC.  One unit of time is 30 seconds.    *)
EXTENDS ScanBoard, TLC

CONSTANTS s1, s2

TwoSymbols == {s1, s2}
Symmetry == Permutations(TwoSymbols)

=============================================================================
