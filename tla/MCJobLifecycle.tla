--------------------------- MODULE MCJobLifecycle ---------------------------
EXTENDS JobLifecycle, TLC

Symmetry == Permutations(Jobs) \cup Permutations(Entries)
=============================================================================
