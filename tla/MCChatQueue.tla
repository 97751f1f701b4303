---------------------------- MODULE MCChatQueue -----------------------------
\* ChatQueue with two members, three posts and two reads.
EXTENDS ChatQueue, TLC

Symmetry == Permutations(Member) \cup Permutations(Writer) \cup Permutations(Reader)
=============================================================================
