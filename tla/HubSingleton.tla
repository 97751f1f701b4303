---------------------------- MODULE HubSingleton ----------------------------
(***************************************************************************)
(* The hub's singleton guard (cowork/lifecycle.py, and _serve in           *)
(* cowork/cli.py), at the granularity of the system calls it makes.  Every *)
(* process is one `cowork.py serve`.  It may be killed between any two     *)
(* calls, and the pid of a process that ended may be handed to an          *)
(* unrelated one, which the liveness probe cannot tell apart.              *)
(***************************************************************************)
EXTENDS FiniteSets

CONSTANTS
    Process,      \* the `serve` processes; a process also stands for its pid
    NoPid,        \* "no pid": an absent file, or text that is not a number
    Serialised    \* TRUE: a process is started only when no other one is
                  \* still deciding its claim, a discipline of the callers

ASSUME ConstantsAssumption == NoPid \notin Process /\ Serialised \in BOOLEAN

VARIABLES
    pidfile,      \* the file at hub_pid_path(): who created it, what it says
    pc,           \* where each process is
    seen,         \* the pid owner() read for each process, not yet probed
    recycled      \* pids of ended processes now held by unrelated processes

vars == <<pidfile, pc, seen, recycled>>

NoFile == [by |-> NoPid, text |-> NoPid]

Claiming  == {"create", "write", "look", "probe", "clear", "create2"}
Releasing == {"relook", "reprobe", "unlink"}
Ended     == {"refused", "left", "killed"}

TypeOK ==
    /\ pidfile \in [by : Process \cup {NoPid}, text : Process \cup {NoPid}]
    /\ pc \in [Process -> {"unborn", "serve"} \cup Claiming \cup Releasing \cup Ended]
    /\ seen \in [Process -> Process \cup {NoPid}]
    /\ recycled \subseteq Process

Init ==
    /\ pidfile = NoFile
    /\ pc = [p \in Process |-> "unborn"]
    /\ seen = [p \in Process |-> NoPid]
    /\ recycled = {}

-----------------------------------------------------------------------------
\* os.kill(pid, 0): a process that has not ended, or whoever took its number.
Running(pid) == pid \in recycled \/ pc[pid] \notin Ended \cup {"unborn"}

Goto(p, label) == pc' = [pc EXCEPT ![p] = label]

\* `cowork.py serve` is spawned by ensure_hub_running or by hand.
Start(p) ==
    /\ pc[p] = "unborn"
    /\ Serialised => \A q \in Process : pc[q] \notin Claiming
    /\ Goto(p, "create")
    /\ UNCHANGED <<pidfile, seen, recycled>>

\* Variant of Create: the open truncates an existing file instead of failing.
CreateTruncating(p) ==
    /\ pc[p] \in {"create", "create2"}
    /\ pidfile' = [by |-> p, text |-> NoPid]
    /\ Goto(p, "write")
    /\ UNCHANGED <<seen, recycled>>

\* create_exclusive, the O_EXCL open: the file exists, still empty.
Create(p) ==
    /\ pc[p] \in {"create", "create2"}
    /\ IF pidfile = NoFile
       THEN pidfile' = [by |-> p, text |-> NoPid] /\ Goto(p, "write")
       ELSE pidfile' = pidfile /\ Goto(p, IF pc[p] = "create" THEN "look" ELSE "refused")
    /\ UNCHANGED <<seen, recycled>>

\* create_exclusive, the buffered write that reaches the file at close.  A
\* file another process removed meanwhile is written all the same, unseen.
Write(p) ==
    /\ pc[p] = "write"
    /\ pidfile' = IF pidfile.by = p THEN [pidfile EXCEPT !.text = p] ELSE pidfile
    /\ Goto(p, "serve")
    /\ UNCHANGED <<seen, recycled>>

\* owner(): read the file; no file and no number are the same answer.
Look(p) ==
    /\ pc[p] \in {"look", "relook"}
    /\ seen' = [seen EXCEPT ![p] = pidfile.text]
    /\ Goto(p, IF pc[p] = "look" THEN "probe" ELSE "reprobe")
    /\ UNCHANGED <<pidfile, recycled>>

\* Variants of Probe: a recorded pid is taken to be alive, or to be stale.
ProbeTrusting(p) ==
    /\ pc[p] = "probe"
    /\ Goto(p, IF seen[p] # NoPid THEN "refused" ELSE "clear")
    /\ UNCHANGED <<pidfile, seen, recycled>>

ProbeNobody(p) ==
    /\ pc[p] = "probe"
    /\ Goto(p, "clear")
    /\ UNCHANGED <<pidfile, seen, recycled>>

\* owner(): probe what was read, and claim()'s decision on the answer.
Probe(p) ==
    /\ pc[p] = "probe"
    /\ Goto(p, IF seen[p] # NoPid /\ Running(seen[p]) THEN "refused" ELSE "clear")
    /\ UNCHANGED <<pidfile, seen, recycled>>

\* Variant of Clear: the second attempt is made with the stale file in place.
ClearNothing(p) ==
    /\ pc[p] = "clear"
    /\ Goto(p, "create2")
    /\ UNCHANGED <<pidfile, seen, recycled>>

\* claim(): "stale: recorded pid is not running".
Clear(p) ==
    /\ pc[p] = "clear"
    /\ pidfile' = NoFile
    /\ Goto(p, "create2")
    /\ UNCHANGED <<seen, recycled>>

\* The serve loop returns or is interrupted: the `finally` of _serve.
Stop(p) ==
    /\ pc[p] = "serve"
    /\ Goto(p, "relook")
    /\ UNCHANGED <<pidfile, seen, recycled>>

\* release(): back off when another live process is recorded.
Reprobe(p) ==
    /\ pc[p] = "reprobe"
    /\ Goto(p, IF seen[p] \notin {NoPid, p} /\ Running(seen[p]) THEN "left" ELSE "unlink")
    /\ UNCHANGED <<pidfile, seen, recycled>>

Unlink(p) ==
    /\ pc[p] = "unlink"
    /\ pidfile' = NoFile
    /\ Goto(p, "left")
    /\ UNCHANGED <<seen, recycled>>

\* SIGKILL, a panic, a reboot: no `finally` runs.
Kill(p) ==
    /\ pc[p] \notin Ended \cup {"unborn"}
    /\ Goto(p, "killed")
    /\ UNCHANGED <<pidfile, seen, recycled>>

\* An unrelated process is given the pid of an ended one.
Recycle(p) ==
    /\ pc[p] \in Ended
    /\ recycled' = recycled \cup {p}
    /\ UNCHANGED <<pidfile, pc, seen>>

Step(p) == \/ Create(p) \/ Write(p) \/ Look(p) \/ Probe(p) \/ Clear(p)
           \/ Reprobe(p) \/ Unlink(p)

Next == \E p \in Process : Start(p) \/ Step(p) \/ Stop(p) \/ Kill(p) \/ Recycle(p)

Spec == Init /\ [][Next]_vars

\* A running process gets to make its next system call.
FairSpec == Spec /\ \A p \in Process : WF_vars(Step(p))

-----------------------------------------------------------------------------
Serving == {p \in Process : pc[p] = "serve"}

\* Only one hub drains the outboxes, whatever is killed and whenever
\* (lifecycle.py: "one hub per host, and only one").
AtMostOneServing == \A p, q \in Serving : p = q

\* The pidfile names the hub that serves: what `status` prints and what the
\* next ensure_hub_running trusts when it decides not to spawn one.
ServingIsRecorded == \A p \in Serving : pidfile = [by |-> p, text |-> p]

\* A claim is refused only while some other process holds the recorded pid:
\* "a crashed hub never blocks the next one", neither by the file it left nor
\* by the empty file of a claim that was killed before its write.
RefusedOnlyByALivePid ==
    [][\A p \in Process : pc[p] # "refused" /\ pc'[p] = "refused"
           => seen[p] \in Process \ {p} /\ Running(seen[p])]_vars

\* A process that found nothing alive behind the file ends up serving unless
\* it is killed: the single retry of claim() is enough.
StaleFileNeverBlocks ==
    \A p \in Process : pc[p] = "clear" ~> pc[p] \in {"serve", "killed"}

\* Seen from outside the guard is one hub at a time.
AbstractHub == IF Serving = {} THEN NoPid ELSE CHOOSE p \in Serving : TRUE

Abstract == INSTANCE OneHub WITH hub <- AbstractHub, Nobody <- NoPid

ImplementsOneHub == Abstract!Spec
=============================================================================
