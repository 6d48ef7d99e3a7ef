---------------------------- MODULE MCDelegation ----------------------------
EXTENDS Delegation, TLC
SymD == Permutations(Children)
=============================================================================
