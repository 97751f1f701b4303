-------------------------- MODULE FirewallResolver --------------------------
(***************************************************************************)
(* The {firewall} whitelist of a launch: launch/firewall/, the launcher in *)
(* docker_config.run_container, init-firewall.sh in the container.  Phase  *)
(* 1 resolves the critical hosts, phase 2 the rest, the updater inserts    *)
(* rules into the running container, the refresher resolves everything     *)
(* again.  These threads share module state without locks.  A launch that  *)
(* has ended may be followed by another: the cache file stays.             *)
(***************************************************************************)
EXTENDS Integers, Sequences, FiniteSets, SequencesExt

CONSTANTS
    Host, Critical,        \* names; those the harness cannot do without
    Apex,                  \* Apex[h]: the name h is the "www." form of
    Addr, AnswersOf,       \* IPv4 addresses; AnswersOf[h]: what DNS may answer, {} for a failure
    Block, Own,            \* published blocks; the block of the harness's vendor
    Provider, ProviderOf, Holds,   \* who publishes a block; its addresses
    Done,                  \* the end-of-stream sentinel
    Std, Port,             \* the port of an entry without one (443 and 80); all
    Builtin, UserLists,    \* the curated entries; the user's, one list per run
    OldFiles,              \* what an earlier launch may have left in the cache file
    Stages,                \* bound: passes of the cascade (5 in the code)
    Chunk,                 \* bound: tokens per docker exec (100 rules in the code)
    MaxRefreshes,          \* bound: passes of the refresher in a launch
    MaxLaunches            \* bound: launches in a row

ASSUME ConstantsAssumption ==
    /\ Critical # {} /\ Critical \subseteq Host /\ Std \in Port
    /\ \A S \in {Host, Port, Addr, Block} : IsFiniteSet(S)
    /\ AnswersOf \in [Host -> SUBSET SUBSET Addr] /\ ProviderOf \in [Block -> Provider]
    /\ Own \notin Block /\ Holds \in [Block \cup {Own} -> SUBSET Addr]
    /\ (Block \cup {Own}) \cap Addr = {}
    /\ OldFiles \subseteq [Host -> SUBSET Addr]
    /\ {Stages, Chunk, MaxLaunches} \subseteq Nat \ {0} /\ MaxRefreshes \in Nat

VARIABLES
    pc,         \* pc[t]: the place of the launcher and of each of its threads
    list,       \* the expanded whitelist, and the providers whose blocks are known
    dns,        \* the cache file, what was read of it, this launch's own answers
    emitted,    \* _emitted_tokens
    seen,       \* _seen_cdn_ranges
    work,       \* work[w]: names to resolve, pass of the cascade, answers to call back
    queue,      \* _phase2_queue
    hand,       \* hand[f]: tokens a thread is about to insert
    staged,     \* what phase 1 returns: WHITELIST_ADDRESSES
    status,     \* the agent's view of it all, domains_pending_resolve.yml
    box,        \* the container's place in its entrypoint
    rules,      \* destinations its OUTPUT chain accepts
    lost,       \* tokens given up: inserts that failed twice, a refresh that raised
    recent,     \* addresses DNS answered: in this launch, in the one that last saved
                \* the cache file, in the one whose file this launch has read
    spent       \* launches, and refreshes of this one

vars == <<pc, list, dns, emitted, seen, work, queue, hand, staged, status,
          box, rules, lost, recent, spent>>

Worker == {"phase1", "phase2", "refresher"}      \* threads that resolve
Flusher == {"updater", "refresher"}              \* threads that insert rules
Thread == Worker \cup {"launcher", "updater"}
Token == [to : Addr \cup Block \cup {Own}, port : Port]
Answers == [Host -> SUBSET Addr]
SomeAnswers == UNION {[names -> SUBSET Addr] : names \in SUBSET Host}
NoAnswers == [h \in Host |-> {}]
Idle == [todo |-> {}, stage |-> 0, got |-> [h \in {} |-> {}]]
Entry == [host : Host, port : Port, wild : BOOLEAN]

\* What the entries of the lists say: a literal, or a name; its port; a wildcard or not.
ASSUME EntriesAssumption ==
    /\ Done \notin Token
    /\ \A h \in DOMAIN Apex : Apex[h] \in Host
    /\ \A e \in Builtin \cup UNION UserLists :
        /\ e = [kind |-> e.kind, to |-> e.to, port |-> e.port, wild |-> e.wild]
        /\ e.port \in Port /\ e.wild \in BOOLEAN
        /\ e.kind = "v4" => e.to \in Addr
        /\ e.kind = "name" => e.to \in Host

TypeOK ==
    /\ pc \in [Thread -> {"off", "start", "await", "docker", "inside", "over", "load", "on", "save", "failed",
                          "ended", "running?", "applied?", "gone", "take", "flush", "last", "sleep"}]
    /\ list \in [entries : SUBSET Entry, literals : SUBSET Token, known : SUBSET Provider]
    /\ dns \in [file : Answers, cached : Answers, fresh : Answers]
    /\ \A tokens \in {emitted, seen, staged, rules, lost} : tokens \subseteq Token
    /\ work \in [Worker -> [todo : SUBSET Host, stage : 0..Stages, got : SomeAnswers]]
    /\ queue \in Seq(Token \cup {Done}) /\ hand \in [Flusher -> Seq(Token)]
    /\ status \in [pending : SUBSET Host, failed : SUBSET Host, resolved : Answers,
                   gaps : SUBSET Host, complete : BOOLEAN]
    /\ box \in {"none", "started", "flushed", "walled", "agent", "dead"}
    /\ recent \in [now : SUBSET Addr, read : SUBSET Addr, saved : SUBSET Addr]
    /\ spent \in [launches : 1..MaxLaunches, refreshes : 0..MaxRefreshes]

EmptyStatus == [pending |-> {}, failed |-> {}, resolved |-> NoAnswers, gaps |-> {}, complete |-> FALSE]

Init ==
    /\ pc = [t \in Thread |-> IF t = "launcher" THEN "start" ELSE "off"]
    /\ list = [entries |-> {}, literals |-> {}, known |-> {}]
    /\ \E file \in OldFiles :
        /\ dns = [file |-> file, cached |-> NoAnswers, fresh |-> NoAnswers]
        /\ recent = [now |-> {}, read |-> {}, saved |-> UNION {file[h] : h \in Host}]
    /\ emitted = {} /\ seen = {} /\ staged = {} /\ lost = {} /\ rules = {}
    /\ work = [w \in Worker |-> Idle]
    /\ queue = <<>> /\ hand = [f \in Flusher |-> <<>>]
    /\ status = EmptyStatus /\ box = "none"
    /\ spent = [launches |-> 1, refreshes |-> 0]

-----------------------------------------------------------------------------
\* The whitelist (whitelist.py).  A raw entry is a literal or a name.

\* IPv6 literals are set aside, "www.x" brings x with it, literals need no DNS,
\* and of two entries for one host and port the wildcard stands.
Expand(raw) ==
    LET v4 == {e \in raw : e.kind = "v4"}
        typed == {e \in raw : e.kind = "name"}
        names == typed \cup {[e EXCEPT !.to = Apex[e.to]] : e \in {e \in typed : ~e.wild /\ e.to \in DOMAIN Apex}}
        Wild(h, p) == \E e \in names : e.to = h /\ e.port = p /\ e.wild
    IN [literals |-> {[to |-> e.to, port |-> e.port] : e \in v4},
        entries |-> {[host |-> e.to, port |-> e.port, wild |-> Wild(e.to, e.port)] : e \in names},
        known |-> {}]

\* The critical hosts lead the union.
CriticalEntries == {[kind |-> "name", to |-> h, port |-> Std, wild |-> FALSE] : h \in Critical}

Names == {e.host : e \in list.entries}
EntriesOf(h) == {e \in list.entries : e.host = h}      \* _index_by_host

-----------------------------------------------------------------------------
\* The policy (cdn_ranges.py, resolver._tokens_for).

KnownBlocks == {b \in Block : ProviderOf[b] \in list.known}
Hit(ips) == {b \in KnownBlocks : Holds[b] \cap ips # {}}
BlocksFor(provider) == {b \in KnownBlocks : ProviderOf[b] = provider}
ProviderHit(ips) == CHOOSE p \in {ProviderOf[b] : b \in Hit(ips)} : TRUE

\* Outside every block, or on a port of its own, an entry pins its addresses;
\* a wildcard opens its provider, a plain entry the blocks its addresses are in.
Ranges(e, ips) ==
    IF Hit(ips) = {} \/ (e.port # Std /\ ~e.wild) THEN {}
    ELSE IF e.wild THEN BlocksFor(ProviderHit(ips)) ELSE Hit(ips)

\* Variant of BlockTokens: a block counts as seen whatever the port.
BlockTokensAnyPort(e, ips) ==
    {[to |-> b, port |-> e.port] : b \in {b \in Ranges(e, ips) : \A k \in seen : k.to # b}}

BlockTokens(e, ips) == {[to |-> b, port |-> e.port] : b \in Ranges(e, ips)} \ seen
PinTokens(e, ips) ==
    {[to |-> a, port |-> e.port] : a \in {a \in ips : \A b \in Ranges(e, ips) : a \notin Holds[b]}}
TokensFor(e, ips) == BlockTokens(e, ips) \cup PinTokens(e, ips)
GapOf(e, ips) == e.wild /\ Hit(ips) = {}

NewTokens(h, ips) == (UNION {TokensFor(e, ips) : e \in EntriesOf(h)}) \ emitted
NewBlocks(h, ips) == UNION {BlockTokens(e, ips) : e \in EntriesOf(h)}

\* _emit_tokens_for_host: the sets every emitter goes through.
Emit(h, ips, more) ==
    /\ emitted' = emitted \cup NewTokens(h, ips) \cup more
    /\ seen' = seen \cup NewBlocks(h, ips)
GapsWith(h, ips) == status.gaps \cup (IF \E e \in EntriesOf(h) : GapOf(e, ips) THEN {h} ELSE {})

-----------------------------------------------------------------------------
\* The status file (status.py).

MarkResolved(h, ips) ==
    [status EXCEPT !.pending = @ \ {h}, !.failed = @ \ {h}, !.resolved[h] = ips, !.gaps = GapsWith(h, ips)]
MarkFailed(h) == [status EXCEPT !.pending = @ \ {h}, !.failed = @ \cup {h}]

-----------------------------------------------------------------------------
\* The launcher.

\* _load_resolution_cache: the file, when it is recent.
LoadedCache == {NoAnswers, dns.file}

\* start_whitelist_resolution, by the tag's handler: everything but the cache
\* starts empty, and phase 1 is submitted.
Start ==
    /\ pc["launcher"] = "start"
    /\ \E user \in UserLists : list' = [Expand(CriticalEntries \cup Builtin \cup user) EXCEPT !.known = list.known]
    /\ dns' \in {[dns EXCEPT !.cached = cached] : cached \in LoadedCache}
    /\ status' = [EmptyStatus EXCEPT !.pending = {e.host : e \in list'.entries}]
    /\ recent' = [recent EXCEPT !.read = recent.saved]
    /\ pc' = [pc EXCEPT !["launcher"] = "await", !["phase1"] = "load"]
    /\ UNCHANGED <<emitted, seen, work, queue, hand, staged, box, rules, lost, spent>>

\* The launcher's process ends, its daemon threads, memory and container with it.
ProcessEnds ==
    /\ pc' = [t \in Thread |-> IF t = "launcher" THEN "over" ELSE "off"]
    /\ dns' = [dns EXCEPT !.cached = NoAnswers, !.fresh = NoAnswers]
    /\ list' = [list EXCEPT !.entries = {}, !.literals = {}]
    /\ emitted' = {} /\ seen' = {} /\ staged' = {} /\ lost' = {} /\ rules' = {}
    /\ work' = [w \in Worker |-> Idle]
    /\ queue' = <<>> /\ hand' = [f \in Flusher |-> <<>>]
    /\ status' = EmptyStatus /\ box' = "dead"
    /\ recent' = [recent EXCEPT !.now = {}, !.read = {}]
    /\ spent' = [spent EXCEPT !.refreshes = 0]

\* run_container: the addresses of phase 1 are staged, or the launch is aborted.
Await ==
    /\ pc["launcher"] = "await"
    /\ \/ /\ pc["phase1"] = "ended"
          /\ pc' = [pc EXCEPT !["launcher"] = "docker"]
          /\ UNCHANGED <<list, dns, emitted, seen, work, queue, hand, staged, status, box, rules, lost, recent, spent>>
       \/ pc["phase1"] = "failed" /\ ProcessEnds

\* start_firewall_updater, then docker run.
StartUpdater ==
    /\ pc["launcher"] = "docker" /\ pc["updater"] = "off"
    /\ pc' = [pc EXCEPT !["updater"] = "running?"]
    /\ UNCHANGED <<list, dns, emitted, seen, work, queue, hand, staged, status, box, rules, lost, recent, spent>>

DockerRun ==
    /\ pc["launcher"] = "docker" /\ pc["updater"] # "off"
    /\ pc' = [pc EXCEPT !["launcher"] = "inside"]
    /\ box' = "started"
    /\ UNCHANGED <<list, dns, emitted, seen, work, queue, hand, staged, status, rules, lost, recent, spent>>

\* docker run returns, or the user interrupts before it.
End ==
    /\ \/ pc["launcher"] = "inside" /\ box = "dead"
       \/ pc["launcher"] \in {"await", "docker"}
    /\ ProcessEnds

\* Another launch: a new process, a new container (--rm); the cache files stay.
Relaunch ==
    /\ pc["launcher"] = "over" /\ spent.launches < MaxLaunches
    /\ pc' = [pc EXCEPT !["launcher"] = "start"]
    /\ box' = "none"
    /\ spent' = [launches |-> spent.launches + 1, refreshes |-> 0]
    /\ UNCHANGED <<list, dns, emitted, seen, work, queue, hand, staged, status, rules, lost, recent>>

-----------------------------------------------------------------------------
\* Resolving (resolver._resolve_a_records, _cascade).

\* One question for each name, by getent or the system's resolver: no answer, or
\* addresses.
Replies(names) == {ans \in [names -> SUBSET Addr] : \A h \in names : ans[h] \in AnswersOf[h]}

\* Every name is asked of DNS; the cache only fills in and adds.
Learn(ans) ==
    dns' = [dns EXCEPT !.fresh = [h \in Host |->
        IF h \in DOMAIN ans /\ ans[h] # {} THEN ans[h] ELSE @[h]]]

Lookup(w, names, stage) ==
    \E ans \in Replies(names) :
        /\ Learn(ans)
        /\ recent' = [recent EXCEPT !.now = @ \cup UNION {ans[h] : h \in names}]
        /\ LET found == {h \in names : ans[h] \cup dns.cached[h] # {}}
           IN work' = [work EXCEPT ![w] = [todo |-> names \ found, stage |-> stage,
                                           got |-> [h \in found |-> ans[h] \cup dns.cached[h]]]]

\* One pass over what is left, when the callbacks of the last one are through.
CascadePass(w) ==
    /\ pc[w] = "on" /\ DOMAIN work[w].got = {}
    /\ work[w].todo # {} /\ work[w].stage < Stages
    /\ Lookup(w, work[w].todo, work[w].stage + 1)
    /\ UNCHANGED <<pc, list, emitted, seen, queue, hand, staged, status, box, rules, lost, spent>>

CalledBack(w, h) ==
    [work EXCEPT ![w].todo = @ \ {h}, ![w].got = Restrict(@, DOMAIN @ \ {h})]
Through(w) == work[w].todo = {} /\ DOMAIN work[w].got = {}

\* on_terminal_failure of both phases.
OnFailure(w, h) ==
    /\ pc[w] = "on" /\ DOMAIN work[w].got = {} /\ work[w].stage = Stages
    /\ h \in work[w].todo
    /\ status' = MarkFailed(h)
    /\ work' = CalledBack(w, h)
    /\ UNCHANGED <<pc, list, dns, emitted, seen, queue, hand, staged, box, rules, lost, recent, spent>>

-----------------------------------------------------------------------------
\* Phase 1 (_phase1_worker).

OwnToken == [to |-> Own, port |-> Std]

\* The published lists that could be fetched now, and those fetched before: a
\* cache file each, whatever its age, written on every fetch.
Fetched == SUBSET Provider
CachedRanges == list.known

\* cdn_ranges.load: a provider is known from a fetch or from its cache file; the
\* literals need no DNS.
Load ==
    /\ pc["phase1"] = "load"
    /\ \E fetched \in Fetched : list' = [list EXCEPT !.known = CachedRanges \cup fetched]
    /\ emitted' = list.literals /\ staged' = list.literals
    /\ work' = [work EXCEPT !["phase1"].todo = Names \cap Critical]
    /\ pc' = [pc EXCEPT !["phase1"] = "on"]
    /\ UNCHANGED <<dns, seen, queue, hand, status, box, rules, lost, recent, spent>>

OnCritical(h) ==
    /\ pc["phase1"] = "on" /\ h \in DOMAIN work["phase1"].got
    /\ LET ips == work["phase1"].got[h] IN
        /\ Emit(h, ips, {OwnToken})
        /\ staged' = staged \cup NewTokens(h, ips) \cup {OwnToken}
        /\ status' = MarkResolved(h, ips)
    /\ work' = CalledBack("phase1", h)
    /\ UNCHANGED <<pc, list, dns, queue, hand, box, rules, lost, recent, spent>>

\* Variant of EndOfPhaseOne: a critical host that failed does not stop the launch.
EndOfPhaseOneAnyway ==
    /\ pc["phase1"] = "on" /\ Through("phase1")
    /\ pc' = [pc EXCEPT !["phase1"] = "ended", !["phase2"] = "on"]
    /\ work' = [work EXCEPT !["phase2"].todo = Names \ Critical]
    /\ UNCHANGED <<list, dns, emitted, seen, queue, hand, staged, status, box, rules, lost, recent, spent>>

\* A critical host that failed aborts the launch; otherwise phase 2 is started.
EndOfPhaseOne ==
    /\ pc["phase1"] = "on" /\ Through("phase1")
    /\ IF status.failed # {}
       THEN pc' = [pc EXCEPT !["phase1"] = "failed"] /\ UNCHANGED work
       ELSE /\ pc' = [pc EXCEPT !["phase1"] = "ended", !["phase2"] = "on"]
            /\ work' = [work EXCEPT !["phase2"].todo = Names \ Critical]
    /\ UNCHANGED <<list, dns, emitted, seen, queue, hand, staged, status, box, rules, lost, recent, spent>>

-----------------------------------------------------------------------------
\* Phase 2 (_phase2_worker).

OnRest(h) ==
    /\ pc["phase2"] = "on" /\ h \in DOMAIN work["phase2"].got
    /\ LET ips == work["phase2"].got[h] IN
        /\ Emit(h, ips, {})
        /\ queue' = queue \o SetToSeq(NewTokens(h, ips))
        /\ status' = MarkResolved(h, ips)
    /\ work' = CalledBack("phase2", h)
    /\ UNCHANGED <<pc, list, dns, hand, staged, box, rules, lost, recent, spent>>

\* "complete" is written, then the cache file, then the sentinel is queued.
Complete ==
    /\ pc["phase2"] = "on" /\ Through("phase2")
    /\ status' = [status EXCEPT !.complete = TRUE]
    /\ pc' = [pc EXCEPT !["phase2"] = "save"]
    /\ UNCHANGED <<list, dns, emitted, seen, work, queue, hand, staged, box, rules, lost, recent, spent>>

\* _save_resolution_cache: the file holds this launch's own answers only.
SaveCache ==
    /\ dns' = [dns EXCEPT !.file = dns.fresh]
    /\ recent' = [recent EXCEPT !.saved = recent.now]

\* An error of the write ends the thread before the sentinel.
Signal ==
    /\ pc["phase2"] = "save"
    /\ \/ /\ SaveCache
          /\ queue' = Append(queue, Done)
          /\ pc' = [pc EXCEPT !["phase2"] = "ended"]
       \/ pc' = [pc EXCEPT !["phase2"] = "failed"] /\ UNCHANGED <<dns, recent, queue>>
    /\ UNCHANGED <<list, emitted, seen, work, hand, staged, status, box, rules, lost, spent>>

-----------------------------------------------------------------------------
\* Inserting rules (iptables.flush, _updater_worker).

\* One docker exec of a chunk and, if it failed, one more; the && chain stops at
\* the first rule that fails, what is left is warned about and given up.
Insert(f) ==
    LET n == Min({Chunk, Len(hand[f])}) IN
    /\ hand[f] # <<>>
    /\ \E k \in 0..n :
        /\ box = "dead" => k = 0
        /\ rules' = rules \cup Range(SubSeq(hand[f], 1, k))
        /\ lost' = lost \cup Range(SubSeq(hand[f], k + 1, n))
    /\ hand' = [hand EXCEPT ![f] = SubSeq(@, n + 1, Len(@))]

\* wait_for_container_running: ten seconds, of which docker may take more.
ContainerIsUp ==
    /\ pc["updater"] = "running?"
    /\ \/ box \notin {"none", "dead"} /\ pc' = [pc EXCEPT !["updater"] = "applied?"]
       \/ box \in {"none", "dead"} /\ pc' = [pc EXCEPT !["updater"] = "gone"]
    /\ UNCHANGED <<list, dns, emitted, seen, work, queue, hand, staged, status, box, rules, lost, recent, spent>>

\* Variant of FirewallIsApplied: a container that runs is good enough.
FirewallIsUp ==
    /\ pc["updater"] = "applied?"
    /\ \/ box # "dead" /\ pc' = [pc EXCEPT !["updater"] = "take"]
       \/ box = "dead" /\ pc' = [pc EXCEPT !["updater"] = "gone"]
    /\ UNCHANGED <<list, dns, emitted, seen, work, queue, hand, staged, status, box, rules, lost, recent, spent>>

\* wait_for_firewall_applied: the marker of init-firewall.sh.
FirewallIsApplied ==
    /\ pc["updater"] = "applied?"
    /\ \/ box = "agent" /\ pc' = [pc EXCEPT !["updater"] = "take"]
       \/ box = "dead" /\ pc' = [pc EXCEPT !["updater"] = "gone"]
    /\ UNCHANGED <<list, dns, emitted, seen, work, queue, hand, staged, status, box, rules, lost, recent, spent>>

\* What is queued, up to the sentinel, is a burst; what is behind it stays.
Burst(n) == Done \notin Range(SubSeq(queue, 1, n)) /\ (n < Len(queue) => queue[n + 1] = Done)
Drain(n) ==
    /\ queue' = SubSeq(queue, n + 2, Len(queue))
    /\ pc' = [pc EXCEPT !["updater"] = IF n = Len(queue) THEN "flush" ELSE "last"]

\* Variant of TakeBatch: the get that woke the thread is not part of the batch.
TakeRest ==
    /\ pc["updater"] = "take" /\ queue # <<>>
    /\ \E n \in 0..Len(queue) :
        /\ Burst(n) /\ Drain(n)
        /\ hand' = [hand EXCEPT !["updater"] = SubSeq(queue, 2, n)]
    /\ UNCHANGED <<list, dns, emitted, seen, work, staged, status, box, rules, lost, recent, spent>>

\* Variant of TakeBatch: nothing is taken before the stream has ended.
TakeAtTheEnd ==
    /\ pc["updater"] = "take" /\ Done \in Range(queue)
    /\ \E n \in 0..Len(queue) :
        /\ Burst(n) /\ Drain(n)
        /\ hand' = [hand EXCEPT !["updater"] = SubSeq(queue, 1, n)]
    /\ UNCHANGED <<list, dns, emitted, seen, work, staged, status, box, rules, lost, recent, spent>>

\* Blocks for one item, then drains what else is there; the sentinel is last.
TakeBatch ==
    /\ pc["updater"] = "take" /\ queue # <<>>
    /\ \E n \in 0..Len(queue) :
        /\ Burst(n) /\ Drain(n)
        /\ hand' = [hand EXCEPT !["updater"] = SubSeq(queue, 1, n)]
    /\ UNCHANGED <<list, dns, emitted, seen, work, staged, status, box, rules, lost, recent, spent>>

UpdaterInserts ==
    /\ pc["updater"] \in {"flush", "last"}
    /\ Insert("updater")
    /\ UNCHANGED <<pc, list, dns, emitted, seen, work, queue, staged, status, box, recent, spent>>

\* Back to the queue, or, after the sentinel, on to the refresher.
AfterBatch ==
    /\ pc["updater"] \in {"flush", "last"} /\ hand["updater"] = <<>>
    /\ pc' = IF pc["updater"] = "flush" THEN [pc EXCEPT !["updater"] = "take"]
             ELSE [pc EXCEPT !["updater"] = "ended", !["refresher"] = "sleep"]
    /\ UNCHANGED <<list, dns, emitted, seen, work, queue, hand, staged, status, box, rules, lost, recent, spent>>

-----------------------------------------------------------------------------
\* The refresher (_refresh_pass): all names once, no failure is recorded.

Refresh ==
    /\ pc["refresher"] = "sleep" /\ spent.refreshes < MaxRefreshes
    /\ Lookup("refresher", Names, 1)
    /\ pc' = [pc EXCEPT !["refresher"] = "on"]
    /\ spent' = [spent EXCEPT !.refreshes = @ + 1]
    /\ UNCHANGED <<list, emitted, seen, queue, hand, staged, status, box, rules, lost>>

OnRefreshed(h) ==
    /\ pc["refresher"] = "on" /\ h \in DOMAIN work["refresher"].got
    /\ LET ips == work["refresher"].got[h] IN
        /\ Emit(h, ips, {})
        /\ hand' = [hand EXCEPT !["refresher"] = @ \o SetToSeq(NewTokens(h, ips))]
        /\ status' = IF NewTokens(h, ips) # {} THEN MarkResolved(h, ips)
                     ELSE [status EXCEPT !.gaps = GapsWith(h, ips)]
    /\ work' = CalledBack("refresher", h)
    /\ UNCHANGED <<pc, list, dns, queue, staged, box, rules, lost, recent, spent>>

\* New tokens are inserted and the cache file rewritten; else nothing is written.
AfterPass ==
    /\ pc["refresher"] = "on" /\ DOMAIN work["refresher"].got = {}
    /\ pc' = [pc EXCEPT !["refresher"] = IF hand["refresher"] = <<>> THEN "sleep" ELSE "flush"]
    /\ work' = [work EXCEPT !["refresher"] = Idle]
    /\ UNCHANGED <<list, dns, emitted, seen, queue, hand, staged, status, box, rules, lost, recent, spent>>

RefresherInserts ==
    /\ pc["refresher"] = "flush"
    /\ Insert("refresher")
    /\ UNCHANGED <<pc, list, dns, emitted, seen, work, queue, staged, status, box, recent, spent>>

RefresherSaves ==
    /\ pc["refresher"] = "flush" /\ hand["refresher"] = <<>>
    /\ SaveCache
    /\ pc' = [pc EXCEPT !["refresher"] = "sleep"]
    /\ UNCHANGED <<list, emitted, seen, work, queue, hand, staged, status, box, rules, lost, spent>>

\* An exception ends the pass, not the thread; what was emitted stays emitted.
RefreshRaises ==
    /\ pc["refresher"] \in {"on", "flush"}
    /\ lost' = lost \cup Range(hand["refresher"])
    /\ hand' = [hand EXCEPT !["refresher"] = <<>>]
    /\ work' = [work EXCEPT !["refresher"] = Idle]
    /\ pc' = [pc EXCEPT !["refresher"] = "sleep"]
    /\ UNCHANGED <<list, dns, emitted, seen, queue, staged, status, box, rules, recent, spent>>

-----------------------------------------------------------------------------
\* The container (firewall-entrypoint.sh, init-firewall.sh).

\* iptables -F; the whitelist and the REJECT behind it; the self-tests, the
\* marker and the agent.  Any of it may fail, which ends the container.
ContainerStep ==
    /\ \/ box = "started" /\ box' = "flushed" /\ rules' = {}
       \/ box = "flushed" /\ box' = "walled" /\ rules' = rules \cup staged
       \/ box = "walled" /\ box' = "agent" /\ UNCHANGED rules
    /\ UNCHANGED <<pc, list, dns, emitted, seen, work, queue, hand, staged, status, lost, recent, spent>>

ContainerEnds ==
    /\ box \notin {"none", "dead"}
    /\ box' = "dead"
    /\ UNCHANGED <<pc, list, dns, emitted, seen, work, queue, hand, staged, status, rules, lost, recent, spent>>

-----------------------------------------------------------------------------
Launcher == Start \/ Await \/ StartUpdater \/ DockerRun
PhaseOne == Load \/ CascadePass("phase1") \/ EndOfPhaseOne
            \/ \E h \in Host : OnCritical(h) \/ OnFailure("phase1", h)
PhaseTwo == CascadePass("phase2") \/ Complete \/ Signal
            \/ \E h \in Host : OnRest(h) \/ OnFailure("phase2", h)
Updater == ContainerIsUp \/ FirewallIsApplied \/ TakeBatch \/ UpdaterInserts \/ AfterBatch
Refresher == AfterPass \/ RefresherInserts \/ RefresherSaves \/ \E h \in Host : OnRefreshed(h)

Running == Launcher \/ PhaseOne \/ PhaseTwo \/ Updater \/ Refresher \/ ContainerStep

Next == Running \/ Refresh \/ RefreshRaises \/ ContainerEnds \/ End \/ Relaunch

\* The threads and the container's script run; nobody must refresh, end or relaunch.
Spec == Init /\ [][Next]_vars /\ WF_vars(Running)

-----------------------------------------------------------------------------
Open(tokens, a, port) == \E k \in tokens : k.port = port /\ (k.to = a \/ (k.to \notin Addr /\ a \in Holds[k.to]))

\* The agent's view is a partition (status.py): every name is pending, failed or
\* resolved, and never two of them, also after the refresher healed one;
\* "complete" leaves nothing pending.
Resolved == {h \in Host : status.resolved[h] # {}}
Sections ==
    pc["launcher"] \in {"await", "docker", "inside"} =>
        /\ status.pending \cup status.failed \cup Resolved = Names
        /\ status.pending \cap status.failed = {}
        /\ Resolved \cap (status.pending \cup status.failed) = {}
        /\ status.complete => status.pending = {}
WellFormed == TypeOK /\ Sections

\* The strict hand-off (resolver.py:448, 526, 822): at most one thread is between
\* its reads and writes of _emitted_tokens and _seen_cdn_ranges, and a token in
\* them is somewhere on its way to the container, in it, or given up.
Users == {w \in Worker : pc[w] \in {"load", "on"}}
HandedOver ==
    /\ WellFormed
    /\ Cardinality(Users) <= 1
    /\ seen \cup rules \cup lost \cup staged \subseteq emitted
    /\ emitted \subseteq staged \cup rules \cup lost
           \cup UNION {Range(s) : s \in {queue, hand["updater"], hand["refresher"]}}

\* No agent without its API: when the script hands over to the agent, every
\* critical host was resolved and an address of it is open.
AgentCanReachCritical ==
    [][box # "agent" /\ box' = "agent" =>
        \A h \in Critical : \E a \in status.resolved[h] : Open(rules, a, Std)]_vars

\* What the updater inserted into a container is not wiped by the script's own
\* flush (container_probe.py:102, init-firewall.sh:228).
RulesSurvive == [][box' \notin {"none", "dead"} => rules \subseteq rules']_vars

\* Deduplication leaves no hole: each address the status file shows for a host is
\* covered, on the port of each of its entries, by tokens handed out.
NoSilentHole ==
    \A e \in list.entries : \A a \in status.resolved[e.host] :
        pc["launcher"] \in {"await", "docker", "inside"} => Open(emitted, a, e.port)

\* The cache does not keep an address alive: what is pinned was answered by DNS in
\* this launch or in the one that wrote the cache file.
OpenIsRecent ==
    \A k \in emitted \ list.literals : k.to \in Addr => k.to \in recent.now \cup recent.read

\* What is open is what was answered: no less, and nothing older.
OpensWhatWasAnswered == NoSilentHole /\ OpenIsRecent

\* While a launch and its updater live, every name is settled and all that was
\* emitted is inserted or given up.
EverythingSettles ==
    []<>(\/ pc["launcher"] = "over" \/ pc["updater"] = "gone"
         \/ status.pending = {} /\ emitted \subseteq rules \cup lost)
=============================================================================
