--------------------------- MODULE MCInstanceStore ---------------------------
\* Symmetry for InstanceStore.
EXTENDS InstanceStore, TLC

Symmetry == Permutations(Launcher) \cup Permutations(Id) \cup Permutations(Conv)
=============================================================================
