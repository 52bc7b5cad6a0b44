---------------------------- MODULE MCStoreSync -----------------------------
\* StoreSync for TLC.
EXTENDS StoreSync, TLC

Symmetry == Permutations(Proc) \cup Permutations(Profile) \cup Permutations(RowId)

=============================================================================
