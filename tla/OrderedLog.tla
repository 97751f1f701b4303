----------------------------- MODULE OrderedLog -----------------------------
(***************************************************************************)
(* What chat.jsonl promises its readers (cluster_work_protocol/schema.py,  *)
(* queue.py): one append-only log in which seq is the order.               *)
(***************************************************************************)
EXTENDS Integers, Sequences

CONSTANT Author

VARIABLE log

Entry == [seq : Nat \ {0}, member : Author]

Init == log = <<>>

\* One entry is added at the end, under a number larger than all before it.
Post ==
    /\ Len(log') = Len(log) + 1
    /\ LET e == log'[Len(log')] IN
       /\ log' = Append(log, e)
       /\ e \in Entry
       /\ \A k \in DOMAIN log : log[k].seq < e.seq

Spec == Init /\ [][Post]_log
=============================================================================
