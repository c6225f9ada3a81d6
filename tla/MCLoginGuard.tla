---------------------------- MODULE MCLoginGuard ----------------------------
EXTENDS LoginGuard, TLC
Symm == Permutations(Requests)
=============================================================================
