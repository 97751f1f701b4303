---------------------------- MODULE ClusterGates ----------------------------
(***************************************************************************)
(* One gate of a cluster (cluster_work_protocol/gates.py): opened by a     *)
(* member, replied to by the others, watched by two timer forks that       *)
(* re-run `check-gate`, closed by its opener.  Every append is one step,   *)
(* guard included, as the flock of ChatQueue makes it; what a fork does    *)
(* between reading the journal and its appends is not.  A restart of the   *)
(* container kills the forks and nothing plants them again.                *)
(***************************************************************************)
EXTENDS Integers, Sequences, FiniteSetsExt

CONSTANTS
    Member, Opener,
    Mutings,               \* which members a launch may have made listen-only
    ReplyCap, LoopCap,     \* cluster_protocol.toml
    Nudge, CloseAfter,     \* nudge_after_seconds, close_after_seconds, in ticks
    ByHand,                \* `check-gate` runs typed by somebody
    MaxFree,               \* bound: `post free --gate` remarks
    MaxRestarts            \* bound: restarts of the container

ASSUME ConstantsAssumption ==
    /\ Opener \in Member /\ Mutings \subseteq SUBSET Member
    /\ {ReplyCap, LoopCap, Nudge, CloseAfter} \subseteq Nat \ {0}
    /\ MaxFree \in Nat /\ MaxRestarts \in Nat

Timer == {"nudge", "close"}
Fork == Timer \cup ByHand

VARIABLES
    muted,        \* the listen-only members ($CLUSTER_CHAT_READONLY)
    thread,       \* the journal's messages of this gate, in order
    clock,        \* ticks since the gate was opened
    opening,      \* the opener's command, between its append and its timers:
                  \* the members it has still to ping
    due,          \* due[f]: when a planted timer wakes, or NotPlanted
    fork,         \* fork[f]: a running check-gate, its stragglers to record
    asked,        \* members that were shown they owe a reply, or tried to
    told,         \* pings to the opener that were attempted, up to two
    free,         \* remarks posted
    restarts

vars == <<muted, thread, clock, opening, due, fork, asked, told, free, restarts>>

NotPlanted == -1
NotOpening == [on |-> FALSE, left |-> {}]
MaxClock == CloseAfter + 1
Message == [kind : {"open", "reply", "timeout", "close", "free"}, member : Member]

TypeOK ==
    /\ muted \in Mutings
    /\ thread \in Seq(Message)
    /\ clock \in 0..MaxClock
    /\ opening \in [on : BOOLEAN, left : SUBSET Member]
    /\ asked \in SUBSET Member /\ told \in 0..2
    /\ due \in [Fork -> NotPlanted..MaxClock]
    /\ fork \in [Fork -> [pc : {"ready", "rows", "done"}, todo : SUBSET Member]]
    /\ free \in 0..MaxFree /\ restarts \in 0..MaxRestarts

Init ==
    /\ muted \in Mutings
    /\ thread = <<>> /\ clock = 0
    /\ opening = NotOpening
    /\ asked = {} /\ told = 0
    /\ due = [f \in Fork |-> NotPlanted]
    /\ fork = [f \in Fork |-> [pc |-> "ready", todo |-> {}]]
    /\ free = 0 /\ restarts = 0

-----------------------------------------------------------------------------
\* The gate as a journal tells it (load_gate).

Required == Member \ {Opener}
Rows(th, kind) == {k \in DOMAIN th : th[k].kind = kind}
By(th, kind) == {th[k].member : k \in Rows(th, kind)}
Opened(th) == Rows(th, "open") # {}
Closed(th) == Rows(th, "close") # {}
Stragglers(th) == Required \ (By(th, "reply") \cup By(th, "timeout"))
Complete(th) == Opened(th) /\ Stragglers(th) = {}

Owes(m) == Opened(thread) /\ ~Closed(thread) /\ m \in Stragglers(thread)

\* wake.ping_members, of the opener: tried, and a failure is only a warning.
PingsTo(n) == Min({n + 1, 2})
Told(when) == told' = IF when THEN PingsTo(told) ELSE told

\* Every posting verb refuses a listen-only member.
MayPost(m) == m \notin muted

Row(kind, m) == Append(thread, [kind |-> kind, member |-> m])

-----------------------------------------------------------------------------
\* open_gate: the append, which makes the gate id unique ...
Open ==
    /\ MayPost(Opener) /\ ~Opened(thread)
    /\ thread' = Row("open", Opener)
    /\ opening' = [on |-> TRUE, left |-> Required]
    /\ UNCHANGED <<muted, clock, due, fork, asked, told, free, restarts>>

\* ... then a ping to every required member, one by one ...
PingMember(m) ==
    /\ m \in opening.left
    /\ opening' = [opening EXCEPT !.left = @ \ {m}]
    /\ asked' = asked \cup {m}
    /\ UNCHANGED <<muted, thread, clock, due, fork, told, free, restarts>>

PlantNudgeOnly ==
    /\ opening.on /\ opening.left = {}
    /\ opening' = NotOpening
    /\ due' = [due EXCEPT !["nudge"] = clock + Nudge]
    /\ UNCHANGED <<muted, thread, clock, fork, asked, told, free, restarts>>

\* ... then the two timers.
PlantTimers ==
    /\ opening.on /\ opening.left = {}
    /\ opening' = NotOpening
    /\ due' = [due EXCEPT !["nudge"] = Min({clock + Nudge, MaxClock}), !["close"] = clock + CloseAfter]
    /\ UNCHANGED <<muted, thread, clock, fork, asked, told, free, restarts>>

\* {cc}'s briefing at a prompt: the gates the member owes a reply to.
Brief(m) ==
    /\ Owes(m)
    /\ asked' = asked \cup {m}
    /\ UNCHANGED <<muted, thread, clock, opening, due, fork, told, free, restarts>>

\* Variant of PostReply: a closed gate is not refused.
PostReplyLate(m) ==
    /\ MayPost(m) /\ Opened(thread)
    /\ Len(thread) < LoopCap
    /\ Cardinality({k \in Rows(thread, "reply") : thread[k].member = m}) < ReplyCap
    /\ thread' = Row("reply", m)
    /\ Told(Complete(thread'))
    /\ UNCHANGED <<muted, clock, opening, due, fork, asked, free, restarts>>

\* post_reply: guard, append and completion check in one lock hold, then the
\* ping.  The opener and members that owe nothing may reply as well.
PostReply(m) ==
    /\ MayPost(m) /\ Opened(thread) /\ ~Closed(thread)
    /\ Len(thread) < LoopCap
    /\ Cardinality({k \in Rows(thread, "reply") : thread[k].member = m}) < ReplyCap
    /\ thread' = Row("reply", m)
    /\ Told(Complete(thread'))
    /\ UNCHANGED <<muted, clock, opening, due, fork, asked, free, restarts>>

\* `post free --gate`: a plain append.
PostFree(m) ==
    /\ MayPost(m) /\ free < MaxFree
    /\ free' = free + 1
    /\ thread' = Row("free", m)
    /\ UNCHANGED <<muted, clock, opening, due, fork, asked, told, restarts>>

\* close_gate: the opener, once.
CloseGate(m) ==
    /\ MayPost(m) /\ Opened(thread) /\ ~Closed(thread) /\ m = Opener
    /\ thread' = Row("close", m)
    /\ UNCHANGED <<muted, clock, opening, due, fork, asked, told, free, restarts>>

-----------------------------------------------------------------------------
\* check_gate, by a timer that is due or by hand: the journal is read once.
CheckGate(f) ==
    /\ fork[f].pc = "ready" /\ Opened(thread)
    /\ f \in Timer => due[f] # NotPlanted /\ due[f] <= clock
    /\ LET waits == ~Closed(thread) /\ ~Complete(thread)
           late == waits /\ clock >= CloseAfter
       IN /\ fork' = [fork EXCEPT ![f] = IF late THEN [pc |-> "rows", todo |-> Stragglers(thread)]
                                                 ELSE [@ EXCEPT !.pc = "done"]]
          /\ Told(~Closed(thread) /\ Complete(thread))
          /\ asked' = IF waits /\ ~late THEN asked \cup Stragglers(thread) ELSE asked
    /\ UNCHANGED <<muted, thread, clock, opening, due, free, restarts>>

\* One straggler's TIMEOUT row, unless it is on record.
RecordTimeout(f) ==
    /\ fork[f].pc = "rows"
    /\ \E m \in fork[f].todo :
        /\ fork' = [fork EXCEPT ![f].todo = @ \ {m}]
        /\ thread' = IF m \in By(thread, "timeout") THEN thread ELSE Row("timeout", m)
    /\ UNCHANGED <<muted, clock, opening, due, asked, told, free, restarts>>

PingOpener(f) ==
    /\ fork[f].pc = "rows" /\ fork[f].todo = {}
    /\ fork' = [fork EXCEPT ![f].pc = "done"]
    /\ Told(TRUE)
    /\ UNCHANGED <<muted, thread, clock, opening, due, asked, free, restarts>>

\* The container restarts: the journal stays, every process of it is gone.
Restart ==
    /\ restarts < MaxRestarts
    /\ restarts' = restarts + 1
    /\ opening' = NotOpening
    /\ due' = [f \in Fork |-> NotPlanted]
    /\ fork' = [f \in Fork |-> IF fork[f].pc = "rows" THEN [pc |-> "done", todo |-> {}] ELSE fork[f]]
    /\ UNCHANGED <<muted, thread, clock, asked, told, free>>

\* Pinging the members takes the opener's command less than two ticks.
Tick ==
    /\ Opened(thread) /\ clock < MaxClock
    /\ opening.on => clock < 1
    /\ clock' = clock + 1
    /\ UNCHANGED <<muted, thread, opening, due, fork, asked, told, free, restarts>>

OpenerStep == PlantTimers \/ \E m \in Member : PingMember(m)
TimerStep(f) == f \in Timer /\ (CheckGate(f) \/ RecordTimeout(f) \/ PingOpener(f))

Next ==
    \/ Open \/ PlantTimers \/ Restart \/ Tick
    \/ \E m \in Member : PingMember(m) \/ Brief(m) \/ PostReply(m) \/ PostFree(m) \/ CloseGate(m)
    \/ \E f \in Fork : CheckGate(f) \/ RecordTimeout(f) \/ PingOpener(f)

Spec == Init /\ [][Next]_vars

\* Time passes, the opener's command goes on, and a timer that is due runs.
FairSpec == Spec /\ WF_vars(Tick) /\ WF_vars(OpenerStep) /\ \A f \in Fork : WF_vars(TimerStep(f))

-----------------------------------------------------------------------------
\* Overlapping check-gate runs record an absence once ("a re-run fork can
\* never double-record").
OneTimeoutRowEach ==
    \A j, k \in Rows(thread, "timeout") : thread[j].member = thread[k].member => j = k

\* A closed gate takes no reply and no second resolution, and no member gets
\* past its cap nor past the gate's ("silence, not a spend loop"), whoever races.
RepliesAreGuarded ==
    /\ \A j \in Rows(thread, "reply"), k \in Rows(thread, "close") : j < k
    /\ Cardinality(Rows(thread, "close")) <= 1
    /\ \A m \in Member : Cardinality({k \in Rows(thread, "reply") : thread[k].member = m}) <= ReplyCap
    /\ \A k \in Rows(thread, "reply") : k <= LoopCap

\* Nobody is recorded absent by the timers who was not asked before: the pings
\* of open_gate come before its timers (a restart may cut them off).
AbsentWereAsked == restarts = 0 => By(thread, "timeout") \subseteq asked

\* Whoever races, a gate's rows are within its rules: the three above.
RowsAreGuarded == TypeOK /\ OneTimeoutRowEach /\ RepliesAreGuarded /\ AbsentWereAsked

\* While its forks live, a gate is closed or every required member is accounted
\* for in the end, and the opener is told: once when a fork recorded absences,
\* twice when all replied, so that a lost ping is retried ("check-gate's timers
\* double as the retry").
GateIsSettled ==
    Opened(thread) ~>
        \/ restarts > 0 \/ Closed(thread)
        \/ Complete(thread) /\ told >= (IF Rows(thread, "timeout") = {} THEN 2 ELSE 1)

=============================================================================
