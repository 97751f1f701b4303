-------------------------- MODULE MCCoworkControl ---------------------------
\* CoworkControl with a small group, few requests and at most two commands.
EXTENDS CoworkControl
=============================================================================
