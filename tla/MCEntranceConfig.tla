-------------------------- MODULE MCEntranceConfig --------------------------
EXTENDS EntranceConfig, TLC

\* Pids and texts are interchangeable.
Symmetry == Permutations(Pids) \cup Permutations(Texts)
=============================================================================
