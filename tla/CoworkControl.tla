--------------------------- MODULE CoworkControl ----------------------------
(***************************************************************************)
(* Commands on one group: a manager's request files, which the hub handles *)
(* one by one between its passes (cowork/control.py), and an operator's    *)
(* `cowork recruit|send|close` (cowork/cli.py).  Both read session.json,   *)
(* act, and write the whole file back (group.save_session) with no lock;   *)
(* a send copies files (sync.hand_over) and types into a container in      *)
(* between (relay.send).  The hub may end between any two durable effects, *)
(* killed or by a verb that raises, and finds the request again.           *)
(***************************************************************************)
EXTENDS Integers, FiniteSets

CONSTANTS
    Coworker, Hub,
    Command,      \* the operator's `cowork` processes, one command each
    Budget,       \* round_budget
    Alone,        \* TRUE: operators' commands and the hub's work on a request
                  \* never overlap, which nothing in the code enforces
    MaxRequests,  \* bound: requests the manager files
    MaxCrashes    \* bound: times the hub is killed, or ends by an exception

Process == {Hub} \cup Command
Request == 1..MaxRequests

ASSUME ConstantsAssumption ==
    /\ Coworker # {} /\ Hub \notin Command /\ Budget \in Nat /\ Alone \in BOOLEAN
    /\ MaxRequests \in Nat /\ MaxCrashes \in Nat

VARIABLES
    session,      \* session.json: [status, coworkers, rounds]
    requests,     \* request files in control/, settled
    rejected,     \* requests parked in control/rejected/
    replies,      \* answers in control/replies/: number, verb, request, read or not
    tidied,       \* answers the manager has read and deleted
    job,          \* job[p]: the verb and peer p is working on
    copy,         \* copy[p]: the Session p read, as p will write it back
    pc,
    deliveries,   \* deliveries[r]: times a `send` request r was typed into a peer
    delivered,    \* messages typed into coworkers, whoever sent them
    material,     \* the version of the working copy in the manager's tree
    inbox,        \* inbox[w]: the version in w's inbox, 0 when there is none
    cited,        \* cited[w]: the version at hand when w was last told of files
    filed,        \* requests filed so far
    crashes

files == <<material, inbox, cited>>
vars == <<session, requests, rejected, replies, tidied, job, copy, pc, deliveries, delivered, files, filed, crashes>>

Session == [status : {"none", "active", "closed"}, coworkers : SUBSET Coworker, rounds : Nat]

\* What a request or a command may say; a peer that the verb ignores is any.
\* "junk" is an empty file, or one filed by an instance without {manager}.
Verb == {"roster", "recruit", "send", "release", "done", "junk"}
Job == {j \in [verb : Verb, peer : Coworker, id : 0..MaxRequests, files : BOOLEAN] : j.files => j.verb = "send"}
NoJob == [verb |-> "junk", peer |-> CHOOSE w \in Coworker : TRUE, id |-> 0, files |-> FALSE]

Label == {"down", "idle", "handover", "deliver", "save", "answer", "remove", "ended"}

TypeOK ==
    /\ session \in Session /\ copy \in [Process -> Session]
    /\ requests \subseteq Job /\ rejected \subseteq Job
    /\ replies \cup tidied \subseteq [number : Nat \ {0}, verb : Verb, id : Request, read : BOOLEAN]
    /\ job \in [Process -> Job]
    /\ pc \in [Process -> Label]
    /\ deliveries \in [Request -> Nat] /\ delivered \in Nat
    /\ material \in 0..MaxRequests
    /\ inbox \in [Coworker -> 0..MaxRequests] /\ cited \in [Coworker -> 0..MaxRequests]
    /\ filed \in 0..MaxRequests /\ crashes \in 0..MaxCrashes

NoSession == [status |-> "none", coworkers |-> {}, rounds |-> 0]

Init ==
    /\ session = NoSession /\ copy = [p \in Process |-> NoSession]
    /\ requests = {} /\ rejected = {} /\ replies = {} /\ tidied = {}
    /\ job = [p \in Process |-> NoJob]
    /\ pc = [p \in Process |-> "idle"]
    /\ deliveries = [r \in Request |-> 0] /\ delivered = 0
    /\ material = 0 /\ inbox = [w \in Coworker |-> 0] /\ cited = inbox
    /\ filed = 0 /\ crashes = 0

-----------------------------------------------------------------------------
Goto(p, label) == pc' = [pc EXCEPT ![p] = label]

\* Variant of Finish: the request is removed and nobody is answered.
FinishMute(p) == Goto(p, IF p = Hub THEN "remove" ELSE "ended")

\* Where a process goes with its verb's outcome: the hub answers its manager.
Finish(p) == Goto(p, IF p = Hub THEN "answer" ELSE "ended")

\* The manager puts its material in place and writes a request file.
File(j) ==
    /\ filed < MaxRequests /\ j.id = filed + 1
    /\ filed' = filed + 1
    /\ requests' = requests \cup {j}
    /\ material' = IF j.files THEN j.id ELSE material
    /\ UNCHANGED <<session, rejected, replies, tidied, job, copy, pc, deliveries, delivered, inbox, cited, crashes>>

\* poll_control: gate, and read the session the verb is about.
Take(j) ==
    /\ pc[Hub] = "idle" /\ j \in requests /\ j.verb # "junk"
    /\ job' = [job EXCEPT ![Hub] = j]
    /\ UNCHANGED <<requests, rejected>>

\* Variant of Reject: a copy is parked, the request stays.
RejectInPlace(j) ==
    /\ pc[Hub] = "idle" /\ j \in requests /\ j.verb = "junk"
    /\ rejected' = rejected \cup {j}
    /\ UNCHANGED <<session, requests, replies, tidied, job, copy, pc, deliveries, delivered, files, filed, crashes>>

Reject(j) ==
    /\ pc[Hub] = "idle" /\ j \in requests /\ j.verb = "junk"
    /\ requests' = requests \ {j} /\ rejected' = rejected \cup {j}
    /\ UNCHANGED <<session, replies, tidied, job, copy, pc, deliveries, delivered, files, filed, crashes>>

\* Variant of Load, for recruit and done: a recruit marks the session active.
LoadReopening(p, j) ==
    /\ copy' = [copy EXCEPT ![p] =
           IF j.verb = "done" THEN [session EXCEPT !.status = "closed"]
           ELSE [session EXCEPT !.status = "active", !.coworkers = @ \cup {j.peer}]]
    /\ Goto(p, "save")

\* _hosted, _resolve: what a verb is about is a group that is active ...
GroupAtHand == session.status = "active"

\* ... and membership_problem: a message or files go to members only.
Reachable(peer) == GroupAtHand /\ peer \in session.coworkers

\* A verb up to its first effect.  A recruit creates the group if need be, and
\* touches nothing but its members; the others want an active group (`close`
\* one that is not closed), and `send` and `release` a member.
Load(p, j) ==
    LET peer == j.peer
        keep(s, label) == copy' = [copy EXCEPT ![p] = s] /\ Goto(p, label)
        refuse == copy' = copy /\ Finish(p)
    IN CASE j.verb = "recruit" ->
              keep([session EXCEPT !.status = IF @ = "none" THEN "active" ELSE @,
                                   !.coworkers = @ \cup {peer}], "save")
         [] j.verb = "send" /\ Reachable(peer) -> keep(session, IF j.files THEN "handover" ELSE "deliver")
         [] j.verb = "release" /\ Reachable(peer) ->
              keep([session EXCEPT !.coworkers = @ \ {peer}], "save")
         [] j.verb = "done" /\ GroupAtHand -> keep([session EXCEPT !.status = "closed"], "save")
         [] OTHER -> refuse

TakesTurn(p) == Alone => \A q \in Process \ {p} : pc[q] \in {"down", "idle", "ended"}

\* The hub takes up a request.
HubBegins ==
    \E j \in requests :
        /\ TakesTurn(Hub)
        /\ Take(j) /\ Load(Hub, j)
        /\ UNCHANGED <<session, replies, tidied, deliveries, delivered, files, filed, crashes>>

\* An operator runs a command; `cowork` has no release.
CommandBegins(p, j) ==
    /\ TakesTurn(p)
    /\ pc[p] = "idle" /\ j.id = 0 /\ j.verb \in {"recruit", "send", "done"}
    /\ job' = [job EXCEPT ![p] = j]
    /\ Load(p, j)
    /\ UNCHANGED <<session, requests, rejected, replies, tidied, deliveries, delivered, files, filed, crashes>>

\* _deliver's own guard: between members of the group, or it raises.
MayCopy(p) == job[p].peer \in copy[p].coworkers

\* sync.hand_over: a snapshot of the manager's working copy goes to the peer's
\* inbox.  A copy that raises ends the process: the hub's end is a Crash.
HandOver(p) ==
    /\ pc[p] = "handover"
    /\ \/ MayCopy(p) /\ Goto(p, "deliver") /\ inbox' = [inbox EXCEPT ![job[p].peer] = material]
       \/ p # Hub /\ Goto(p, "ended") /\ UNCHANGED inbox
    /\ UNCHANGED <<session, requests, rejected, replies, tidied, job, copy, deliveries, delivered,
                   material, cited, filed, crashes>>

\* What p's message tells its reader to look for.
Cited(p) == IF job[p].files THEN [cited EXCEPT ![job[p].peer] = job[p].id] ELSE cited

\* Variant of Deliver: a delivery is not counted in the session.
DeliverRetrying(p) ==
    /\ pc[p] = "deliver" /\ copy[p].rounds < Budget
    /\ delivered' = delivered + 1
    /\ deliveries' = IF p = Hub THEN [deliveries EXCEPT ![job[p].id] = @ + 1] ELSE deliveries
    /\ UNCHANGED <<session, requests, rejected, replies, tidied, job, copy, pc, files, filed, crashes>>

\* relay.send: a spent budget closes the group instead; otherwise the pointer
\* is typed, or the injection fails and nothing is recorded.
Deliver(p) ==
    /\ pc[p] = "deliver"
    /\ \/ /\ copy[p].rounds >= Budget
          /\ copy' = [copy EXCEPT ![p].status = "closed"] /\ Goto(p, "save")
          /\ UNCHANGED <<deliveries, delivered, cited>>
       \/ /\ copy[p].rounds < Budget
          /\ copy' = [copy EXCEPT ![p].rounds = @ + 1] /\ Goto(p, "save")
          /\ delivered' = delivered + 1 /\ cited' = Cited(p)
          /\ deliveries' = IF p = Hub THEN [deliveries EXCEPT ![job[p].id] = @ + 1] ELSE deliveries
       \/ /\ copy[p].rounds < Budget
          /\ Finish(p) /\ UNCHANGED <<copy, deliveries, delivered, cited>>
    /\ UNCHANGED <<session, requests, rejected, replies, tidied, job, material, inbox, filed, crashes>>

\* save_session: the whole file is replaced by p's copy.
Save(p) ==
    /\ pc[p] = "save"
    /\ session' = copy[p]
    /\ Finish(p)
    /\ UNCHANGED <<requests, rejected, replies, tidied, job, copy, deliveries, delivered, files, filed, crashes>>

\* Variants of Answer: every answer under the same name; numbers from zero.
AnswerUnnumbered ==
    /\ pc[Hub] = "answer"
    /\ replies' = {r \in replies : r.verb # job[Hub].verb} \cup
                  {[number |-> 1, verb |-> job[Hub].verb, id |-> job[Hub].id, read |-> FALSE]}
    /\ Goto(Hub, "remove")
    /\ UNCHANGED <<session, requests, rejected, tidied, job, copy, deliveries, delivered, files, filed, crashes>>

\* _answer: numbered by how many answers there are; the wake is best effort.
Answer ==
    /\ pc[Hub] = "answer"
    /\ LET n == Cardinality(replies) + 1
           named(r) == r.number = n /\ r.verb = job[Hub].verb
       IN replies' = {r \in replies : ~named(r)} \cup
                     {[number |-> n, verb |-> job[Hub].verb, id |-> job[Hub].id, read |-> FALSE]}
    /\ Goto(Hub, "remove")
    /\ UNCHANGED <<session, requests, rejected, tidied, job, copy, deliveries, delivered, files, filed, crashes>>

\* _handle: only then is the request consumed.
Remove ==
    /\ pc[Hub] = "remove"
    /\ requests' = requests \ {job[Hub]}
    /\ Goto(Hub, "idle") /\ job' = [job EXCEPT ![Hub] = NoJob] /\ copy' = [copy EXCEPT ![Hub] = NoSession]
    /\ UNCHANGED <<session, rejected, replies, tidied, deliveries, delivered, files, filed, crashes>>

\* The hub is killed, or a verb raises, which nothing in the hub catches.
Crash ==
    /\ pc[Hub] # "down" /\ crashes < MaxCrashes
    /\ crashes' = crashes + 1
    /\ Goto(Hub, "down") /\ job' = [job EXCEPT ![Hub] = NoJob] /\ copy' = [copy EXCEPT ![Hub] = NoSession]
    /\ UNCHANGED <<session, requests, rejected, replies, tidied, deliveries, delivered, files, filed>>

Restart ==
    /\ pc[Hub] = "down" /\ Goto(Hub, "idle")
    /\ UNCHANGED <<session, requests, rejected, replies, tidied, job, copy, deliveries, delivered, files, filed, crashes>>

\* The manager reads an answer, and may delete one it has read.
ReadReply(r) ==
    /\ r \in replies /\ ~r.read
    /\ replies' = (replies \ {r}) \cup {[r EXCEPT !.read = TRUE]}
    /\ UNCHANGED <<session, requests, rejected, tidied, job, copy, pc, deliveries, delivered, files, filed, crashes>>

DeleteReply(r) ==
    /\ r \in replies /\ r.read
    /\ replies' = replies \ {r} /\ tidied' = tidied \cup {r}
    /\ UNCHANGED <<session, requests, rejected, job, copy, pc, deliveries, delivered, files, filed, crashes>>

HubStep == HubBegins \/ (\E j \in requests : Reject(j)) \/ HandOver(Hub) \/ Deliver(Hub) \/ Save(Hub) \/ Answer \/ Remove

Next ==
    \/ HubStep \/ Crash \/ Restart
    \/ \E j \in Job : File(j) \/ \E p \in Command : CommandBegins(p, j)
    \/ \E p \in Command : HandOver(p) \/ Deliver(p) \/ Save(p)
    \/ \E r \in replies : ReadReply(r) \/ DeleteReply(r)

Spec == Init /\ [][Next]_vars

\* The hub's loop goes on, a killed hub is started again, and a command that
\* has begun ends.
FairSpec ==
    /\ Spec /\ WF_vars(HubStep) /\ WF_vars(Restart)
    /\ \A p \in Command : WF_vars(HandOver(p) \/ Deliver(p) \/ Save(p))

-----------------------------------------------------------------------------
\* A closed group stays closed ("closed groups cannot be reopened").
ClosedStaysClosed ==
    [][session.status = "closed" => session'.status = "closed"]_vars

\* The runaway guard: coworkers are woken at most `round_budget` times, but for
\* the wake a crash kept from being counted.
BudgetBoundsDeliveries == delivered <= Budget + crashes

\* An answer the manager has not read is neither removed nor replaced ("no
\* answer ever overwrites an unread one"), as long as it deletes none: answers
\* are numbered by how many there are.
UnreadAnswersSurvive ==
    [][\A r \in replies : ~r.read /\ tidied = {} => \E s \in replies' : s.id = r.id /\ s.number = r.number]_vars

\* A request leaves control/ only with its answer on disk (or seen), or parked: killed
\* anywhere, the hub owes nobody an answer it cannot find out about.
ConsumedOnceAnswered ==
    [][\A j \in requests \ requests' : j \in rejected' \/ \E r \in replies \cup tidied : r.id = j.id]_vars

\* A message asked for once is typed once, but for a crash in between; the hub
\* never retries on its own ("retrying blind risks asking twice").
NotAskedTwice == \A r \in Request : deliveries[r] <= 1 + crashes

\* Files land before the message that cites them: the inbox is as new as the
\* request that told its reader to look.  And they are copied to members only,
\* for sync.py:187 raises on anybody else.
FilesLandFirst ==
    /\ \A w \in Coworker : cited[w] <= inbox[w]
    /\ \A p \in Process : pc[p] = "handover" => MayCopy(p)

\* Nobody is asked more than the budget and the requests say, but for crashes,
\* or about files that are not there.
AskedWithinBudget == TypeOK /\ BudgetBoundsDeliveries /\ NotAskedTwice /\ FilesLandFirst

\* Every request is answered or parked in the end.
Open(r) == \E j \in requests : j.id = r

EveryRequestHandled == \A r \in Request : Open(r) ~> ~Open(r)
=============================================================================
