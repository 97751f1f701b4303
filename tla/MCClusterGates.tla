--------------------------- MODULE MCClusterGates ---------------------------
\* ClusterGates with an opener and two members that owe a reply.
EXTENDS ClusterGates
=============================================================================
