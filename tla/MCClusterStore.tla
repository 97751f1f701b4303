---------------------------- MODULE MCClusterStore ----------------------------
\* Two agents, one of them with a default; two templates.
EXTENDS ClusterStore, TLC

CONSTANTS golem, sage, member, dood, code

MCLego == (golem :> {code}) @@ (sage :> {dood})
MCTemplate == <<(golem :> {0}) @@ (sage :> {}), (golem :> {1, 2}) @@ (sage :> {0})>>
MCSymmetry == Permutations(Proc) \cup Permutations(Session)
=============================================================================
