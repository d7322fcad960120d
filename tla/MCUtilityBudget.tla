-------------------------- MODULE MCUtilityBudget --------------------------
(* The instance of UtilityBudget for TLC: owners are interchangeable.      *)
EXTENDS UtilityBudget, TLC

CONSTANTS o1, o2

OwnerSymmetry == Permutations(Owners)
=============================================================================
