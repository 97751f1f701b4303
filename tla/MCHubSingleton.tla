-------------------------- MODULE MCHubSingleton ----------------------------
\* HubSingleton with three `serve` processes: enough for one that dies, one
\* that clears what it left and one that races with the second.
EXTENDS HubSingleton, TLC

Symmetry == Permutations(Process)
=============================================================================
