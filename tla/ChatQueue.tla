----------------------------- MODULE ChatQueue ------------------------------
(***************************************************************************)
(* The cluster's message queue (cluster_work_protocol/queue.py): every     *)
(* `cluster-chat post` is a process that takes the flock, checks the       *)
(* journal, bumps the counter file and appends; every `cluster-chat read`  *)
(* is a process that reads without the lock and moves its member's cursor. *)
(* A process may be killed anywhere; the kernel then drops its flock.      *)
(***************************************************************************)
EXTENDS Integers, Sequences, FiniteSets

CONSTANTS
    Member, Writer, Reader,
    NoWriter,     \* the flock is free
    Cap,          \* what the guard allows of one member (gates: reply_cap)
    TornSeq       \* TRUE: a kill may fall inside the counter's write_text

ASSUME ConstantsAssumption ==
    NoWriter \notin Writer /\ Cap \in Nat /\ TornSeq \in BOOLEAN

VARIABLES
    chat,         \* chat.jsonl
    seqfile,      \* .seq; missing, empty and 0 read the same
    lock,         \* who holds the flock on .lock
    wpc, author, num,         \* each writer: where it is, for whom, its seq
    sawAll,       \* writers whose check found every member's message
    cursor,       \* cursors/<member>; missing, empty and 0 read the same
    rpc, whose, from, upto,   \* each reader: where it is, for whom, and the
                              \* cursor it read and the journal length it read
    shown         \* shown[m]: positions of chat returned to m

writers == <<wpc, author, num, sawAll>>
readers == <<cursor, rpc, whose, from, upto, shown>>
vars == <<chat, seqfile, lock, writers, readers>>

Message == [seq : Nat \ {0}, member : Member]

TypeOK ==
    /\ chat \in Seq(Message)
    /\ seqfile \in Nat
    /\ lock \in Writer \cup {NoWriter}
    /\ wpc \in [Writer -> {"idle", "wait", "guard", "bump", "truncated", "validate", "write",
                           "check", "posted", "refused", "killed"}]
    /\ author \in [Writer -> Member] /\ num \in [Writer -> Nat]
    /\ sawAll \subseteq Writer
    /\ cursor \in [Member -> Nat]
    /\ rpc \in [Reader -> {"idle", "read", "mark", "rewrite", "done", "killed"}]
    /\ whose \in [Reader -> Member] /\ from \in [Reader -> Nat] /\ upto \in [Reader -> Nat]
    /\ shown \in [Member -> SUBSET Nat]

Init ==
    /\ chat = <<>> /\ seqfile = 0 /\ lock = NoWriter
    /\ wpc = [w \in Writer |-> "idle"]
    /\ author \in [Writer -> Member]
    /\ num = [w \in Writer |-> 0]
    /\ sawAll = {}
    /\ cursor = [m \in Member |-> 0]
    /\ rpc = [r \in Reader |-> "idle"]
    /\ whose \in [Reader -> Member]
    /\ from = [r \in Reader |-> 0] /\ upto = [r \in Reader |-> 0]
    /\ shown = [m \in Member |-> {}]

-----------------------------------------------------------------------------
\* append_with, under the lock but for its first and last step.

Goto(w, label) == wpc' = [wpc EXCEPT ![w] = label]
Unlock(w) == lock' = IF lock = w THEN NoWriter ELSE lock

PostsOf(m) == {k \in DOMAIN chat : chat[k].member = m}

Begin(w) ==
    /\ wpc[w] = "idle" /\ Goto(w, "wait")
    /\ UNCHANGED <<chat, seqfile, lock, author, num, sawAll, readers>>

\* Variant of Lock: a shared lock.
LockShared(w) ==
    /\ wpc[w] = "wait"
    /\ lock' = w /\ Goto(w, "guard")
    /\ UNCHANGED <<chat, seqfile, author, num, sawAll, readers>>

\* _locked: the flock, or a ProtocolError once lock_wait_seconds are over.
Lock(w) ==
    /\ wpc[w] = "wait"
    /\ \/ lock = NoWriter /\ lock' = w /\ Goto(w, "guard")
       \/ lock # NoWriter /\ lock' = lock /\ Goto(w, "refused")
    /\ UNCHANGED <<chat, seqfile, author, num, sawAll, readers>>

\* The journal is read and the guard evaluated on it.
Guard(w) ==
    /\ wpc[w] = "guard"
    /\ IF Cardinality(PostsOf(author[w])) < Cap
       THEN Goto(w, "bump") /\ lock' = lock
       ELSE Goto(w, "refused") /\ Unlock(w)
    /\ UNCHANGED <<chat, seqfile, author, num, sawAll, readers>>

\* _next_seq_locked: write_text truncates the counter file ...
Bump(w) ==
    /\ wpc[w] = "bump" /\ Goto(w, "truncated")
    /\ num' = [num EXCEPT ![w] = seqfile + 1]
    /\ seqfile' = 0
    /\ UNCHANGED <<chat, lock, author, sawAll, readers>>

\* Variant of WriteSeq: the number is not kept.
WriteNoSeq(w) ==
    /\ wpc[w] = "truncated" /\ Goto(w, "validate")
    /\ UNCHANGED <<chat, seqfile, lock, author, num, sawAll, readers>>

\* ... and then writes the next number.
WriteSeq(w) ==
    /\ wpc[w] = "truncated" /\ Goto(w, "validate")
    /\ seqfile' = num[w]
    /\ UNCHANGED <<chat, lock, author, num, sawAll, readers>>

\* Message.validate: a bad message is refused with its number spent.
Validate(w) ==
    /\ wpc[w] = "validate"
    /\ \/ Goto(w, "write") /\ lock' = lock
       \/ Goto(w, "refused") /\ Unlock(w)
    /\ UNCHANGED <<chat, seqfile, author, num, sawAll, readers>>

Write(w) ==
    /\ wpc[w] = "write" /\ Goto(w, "check")
    /\ chat' = Append(chat, [seq |-> num[w], member |-> author[w]])
    /\ UNCHANGED <<seqfile, lock, author, num, sawAll, readers>>

\* The check sees the journal with the new message, in the same lock hold.
Check(w) ==
    /\ wpc[w] = "check" /\ Goto(w, "posted")
    /\ sawAll' = IF \A m \in Member : PostsOf(m) # {} THEN sawAll \cup {w} ELSE sawAll
    /\ Unlock(w)
    /\ UNCHANGED <<chat, seqfile, author, num, readers>>

KillWriter(w) ==
    /\ wpc[w] \notin {"idle", "posted", "refused", "killed"}
    /\ wpc[w] = "truncated" => TornSeq
    /\ Goto(w, "killed") /\ Unlock(w)
    /\ UNCHANGED <<chat, seqfile, author, num, sawAll, readers>>

-----------------------------------------------------------------------------
\* read_new: no lock is taken.

ReadCursor(r) ==
    /\ rpc[r] = "idle"
    /\ from' = [from EXCEPT ![r] = cursor[whose[r]]]
    /\ rpc' = [rpc EXCEPT ![r] = "read"]
    /\ UNCHANGED <<chat, seqfile, lock, writers, cursor, whose, upto, shown>>

Fresh(r, n) == {k \in 1..n : chat[k].seq > from[r]}

ReadJournal(r) ==
    /\ rpc[r] = "read"
    /\ upto' = [upto EXCEPT ![r] = Len(chat)]
    /\ rpc' = [rpc EXCEPT ![r] = IF Fresh(r, Len(chat)) = {} THEN "done" ELSE "mark"]
    /\ UNCHANGED <<chat, seqfile, lock, writers, cursor, whose, from, shown>>

\* The cursor's write_text: truncated, then the last seq returned.
Truncate(r) ==
    /\ rpc[r] = "mark"
    /\ cursor' = [cursor EXCEPT ![whose[r]] = 0]
    /\ rpc' = [rpc EXCEPT ![r] = "rewrite"]
    /\ UNCHANGED <<chat, seqfile, lock, writers, whose, from, upto, shown>>

\* Variant of Rewrite: the cursor is moved to the journal's end of that moment.
RewriteToEnd(r) ==
    /\ rpc[r] = "rewrite"
    /\ cursor' = [cursor EXCEPT ![whose[r]] = chat[Len(chat)].seq]
    /\ shown' = [shown EXCEPT ![whose[r]] = @ \cup Fresh(r, upto[r])]
    /\ rpc' = [rpc EXCEPT ![r] = "done"]
    /\ UNCHANGED <<chat, seqfile, lock, writers, whose, from, upto>>

\* ... and the messages are handed to the member.
Rewrite(r) ==
    /\ rpc[r] = "rewrite"
    /\ cursor' = [cursor EXCEPT ![whose[r]] = chat[upto[r]].seq]
    /\ shown' = [shown EXCEPT ![whose[r]] = @ \cup Fresh(r, upto[r])]
    /\ rpc' = [rpc EXCEPT ![r] = "done"]
    /\ UNCHANGED <<chat, seqfile, lock, writers, whose, from, upto>>

KillReader(r) ==
    /\ rpc[r] \notin {"idle", "done", "killed"}
    /\ rpc' = [rpc EXCEPT ![r] = "killed"]
    /\ UNCHANGED <<chat, seqfile, lock, writers, cursor, whose, from, upto, shown>>

Next ==
    \/ \E w \in Writer : Begin(w) \/ Lock(w) \/ Guard(w) \/ Bump(w) \/ WriteSeq(w) \/ Validate(w)
                         \/ Write(w) \/ Check(w) \/ KillWriter(w)
    \/ \E r \in Reader : ReadCursor(r) \/ ReadJournal(r) \/ Truncate(r) \/ Rewrite(r) \/ KillReader(r)

Spec == Init /\ [][Next]_vars

-----------------------------------------------------------------------------
\* "seq IS the total order": chat.jsonl only grows, and by larger numbers.
Log == INSTANCE OrderedLog WITH log <- chat, Author <- Member

ImplementsOrderedLog == Log!Spec

\* The guard cannot race: no member ends up over its cap, however many of its
\* posts were started at once.
CapHolds == \A m \in Member : Cardinality(PostsOf(m)) <= Cap

\* With one message allowed per member, exactly one of the racing posts finds
\* itself the last one ("of N racing repliers exactly ONE sees the count hit
\* its threshold").
OneCompleter == Cap = 1 => \A v, w \in sawAll : v = w

\* Guard, append and check of append_with are one step to every other post.
AppendsAreAtomic == TypeOK /\ CapHolds /\ OneCompleter

\* Two reads of one member at once may show a message twice; none lets the
\* cursor pass a message that was never shown.
NothingSkipped ==
    \A m \in Member : \A k \in DOMAIN chat : chat[k].seq <= cursor[m] => k \in shown[m]
=============================================================================
