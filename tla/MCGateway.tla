------------------------------ MODULE MCGateway ------------------------------
(* Small instances of Gateway for TLC.                                      *)
EXTENDS Gateway, TLC

CONSTANTS admin, u2, t1, t2

TwoUsers == {admin, u2}
TwoThreads == {t1, t2}
Symmetry == Permutations(TwoThreads)

=============================================================================
