------------------------ MODULE MCProviderAccounts ------------------------
EXTENDS ProviderAccounts
DirSymmetry == Permutations(Dirs)
=============================================================================
