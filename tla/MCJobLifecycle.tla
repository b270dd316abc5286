--------------------------- MODULE MCJobLifecycle ---------------------------
EXTENDS JobLifecycle, TLC
Interchangeable == Permutations(Workers) \cup Permutations(Msgs)
=============================================================================
