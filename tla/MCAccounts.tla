------------------------------ MODULE MCAccounts ------------------------------
(* A small instance of Accounts for TLC.                                     *)
EXTENDS Accounts, TLC

CONSTANTS n1, n2, t1, t2

TwoNames == {n1, n2}
TwoThreads == {t1, t2}
Symmetry == Permutations(TwoNames) \union Permutations(TwoThreads)

=============================================================================
