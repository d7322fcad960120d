---------------------------- MODULE MCTerminals ----------------------------
EXTENDS Terminals, TLC
Symmetry == Permutations(Terminals)
============================================================================
