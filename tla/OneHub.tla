------------------------------- MODULE OneHub -------------------------------
(***************************************************************************)
(* What cowork/lifecycle.py promises the rest of {cowork}: "one hub per    *)
(* host, and only one".  A process becomes the hub only while nobody is,   *)
(* and stops being it on its own account.                                  *)
(***************************************************************************)
CONSTANTS
    Process,
    Nobody        \* no process

VARIABLE hub                     \* the process that serves, or Nobody

Init == hub = Nobody

Take(p) == hub = Nobody /\ hub' = p

Leave == hub # Nobody /\ hub' = Nobody

Next == Leave \/ \E p \in Process : Take(p)

Spec == Init /\ [][Next]_hub
=============================================================================
