---------------------------- MODULE CoworkRelay -----------------------------
(***************************************************************************)
(* The hub's pass over the outboxes (cowork/relay.py with mailbox.py and   *)
(* group.py): every capture is resolved by _handle one durable effect at a *)
(* time, and the hub may be killed between any two of them and restarted.  *)
(* Sends to coworkers come from the control channel, between two passes of *)
(* the hub; an operator's `cowork close` comes at any moment.  One manager *)
(* hosts every group.                                                      *)
(***************************************************************************)
EXTENDS Integers, Sequences, FiniteSetsExt

CONSTANTS
    Manager, Coworker,
    Group,        \* the groups that have a session.json
    NoGroup,      \* what an untagged turn, or one tagged for no such group, answers
    MaxTurns,     \* bound: turns the participants take
    MaxSends,     \* bound: messages sent to coworkers
    MaxCrashes    \* bound: times the hub is killed

Participant == {Manager} \cup Coworker
Turn == 1..MaxTurns

ASSUME ConstantsAssumption ==
    /\ Manager \notin Coworker /\ NoGroup \notin Group
    /\ MaxTurns \in Nat /\ MaxSends \in Nat /\ MaxCrashes \in Nat

VARIABLES
    \* canonical group state (session.json) and the participants' trees
    status,       \* status[g]: "active" or "closed"
    members,      \* members[g]: the coworkers of g
    staged,       \* staged[i][g]: messages under i's messages/, name and identity
    prompts,      \* prompts[i]: what was typed into i and not answered yet
    outbox,       \* outbox[i]: the captures waiting, a file each
    rejected,     \* turns whose capture was parked
    \* the hub's own bookkeeping (hub_state.json)
    known,        \* known[i]: ParticipantState
    \* the hub process
    pc, snap, todo, batch,
    \* what the durable logs show of each turn
    logged,       \* logged[t]: FROM entries in the journal
    told,         \* told[t]: times the manager was woken about t
    noted,        \* turns a NOTE of the journal accounts for
    kept,         \* turns whose files were copied to the manager's inbox
    notices,      \* notices[w][g]: notices about g typed into w since w was
                  \* last sent a message
    \* counters
    turns, sends, crashes

tree == <<status, members, staged, prompts, outbox, rejected>>
hub == <<pc, snap, todo, batch>>
logs == <<logged, told, noted, kept, notices>>
counters == <<turns, sends, crashes>>
vars == <<tree, known, hub, logs, counters>>

Capture == [by : Participant, turn : Turn, group : Group \cup {NoGroup}, seq : Nat, id : Nat]
Message == [seq : Nat \ {0}, id : Nat \ {0}]
Prompt == [group : Group \cup {NoGroup}, seq : Nat, id : Nat]

HubPC == {"down", "poll", "next", "decide", "unstage", "journal", "clear", "submit", "stage",
          "inject", "mark", "keep", "notify", "remember", "consume", "control"}

TypeOK ==
    /\ status \in [Group -> {"active", "closed"}]
    /\ members \in [Group -> SUBSET Coworker]
    /\ staged \in [Participant -> [Group -> SUBSET Message]]
    /\ prompts \in [Participant -> Seq(Prompt)] /\ outbox \in [Participant -> SUBSET Capture]
    /\ rejected \cup noted \cup kept \subseteq Turn
    /\ known \in [Participant -> [last : 0..MaxTurns, outstanding : Group \cup {NoGroup},
                                  noticed : SUBSET Group]]
    /\ pc \in HubPC
    /\ snap \in [status : [Group -> {"active", "closed"}], members : [Group -> SUBSET Coworker]]
    /\ todo \subseteq Participant
    /\ batch \subseteq Capture
    /\ logged \in [Turn -> Nat] /\ told \in [Turn -> Nat]
    /\ notices \in [Coworker -> [Group -> Nat]]
    /\ turns \in 0..MaxTurns /\ sends \in 0..MaxSends /\ crashes \in 0..MaxCrashes

\* discover_sessions: the groups on disk, as a pass of the hub reads them.
Sessions == [status |-> status, members |-> members]

Init ==
    /\ status = [g \in Group |-> "active"]
    /\ members = [g \in Group |-> Coworker]
    /\ staged = [i \in Participant |-> [g \in Group |-> {}]]
    /\ prompts = [i \in Participant |-> <<>>]
    /\ outbox = [i \in Participant |-> {}]
    /\ rejected = {} /\ noted = {} /\ kept = {}
    /\ known = [i \in Participant |-> [last |-> 0, outstanding |-> NoGroup, noticed |-> {}]]
    /\ pc = "poll"
    /\ snap = Sessions
    /\ todo = {} /\ batch = {}
    /\ logged = [t \in Turn |-> 0] /\ told = [t \in Turn |-> 0]
    /\ notices = [w \in Coworker |-> [g \in Group |-> 0]]
    /\ turns = 0 /\ sends = 0 /\ crashes = 0

-----------------------------------------------------------------------------
\* Participants: a turn ends and the Stop hook drops its capture.

TakeTurn(i, prompt) ==
    /\ turns < MaxTurns
    /\ turns' = turns + 1
    /\ outbox' = [outbox EXCEPT ![i] = @ \cup
           {[by |-> i, turn |-> turns + 1, group |-> prompt.group, seq |-> prompt.seq, id |-> prompt.id]}]
    /\ UNCHANGED <<status, members, staged, rejected, known, hub, logs, sends, crashes>>

NoPrompt == [group |-> NoGroup, seq |-> 0, id |-> 0]

\* mailbox.attribute: the group and the message named by the prompt the turn
\* began with, or nothing when the transcript does not give that prompt.
Attributions(prompt) == {prompt, NoPrompt}

\* i works through what was typed into it.
Answer(i) ==
    /\ prompts[i] # <<>>
    /\ prompts' = [prompts EXCEPT ![i] = Tail(@)]
    /\ \E prompt \in Attributions(Head(prompts[i])) : TakeTurn(i, prompt)

\* A human types into i's session: the turn answers nothing the hub wrote.
HumanTurn(i) ==
    /\ TakeTurn(i, NoPrompt)
    /\ UNCHANGED prompts

-----------------------------------------------------------------------------
\* Sending (relay.send), by the control channel.

\* next_seq: max + 1 over what is staged, never a count.
NextSeq(i, g) == 1 + Max({0} \cup {m.seq : m \in staged[i][g]})

\* stage_message: write_text replaces whatever has that name.
WithMessage(i, g, seq, id) ==
    [staged EXCEPT ![i][g] = {m \in @ : m.seq # seq} \cup {[seq |-> seq, id |-> id]}]

\* _mark_outstanding: a fresh ParticipantState but for last_prompt_id.
MarkedOutstanding(i, g) ==
    [known EXCEPT ![i] = [last |-> @.last, outstanding |-> g, noticed |-> {}]]

\* The manager asks w.  The injection may fail: the message stays, untold.
Ask(w, g) ==
    /\ pc = "control" /\ sends < MaxSends
    /\ status[g] = "active" /\ w \in members[g]
    /\ sends' = sends + 1
    /\ LET seq == NextSeq(w, g) IN
       /\ staged' = WithMessage(w, g, seq, sends + 1)
       /\ \/ /\ prompts' = [prompts EXCEPT ![w] = Append(@, [group |-> g, seq |-> seq, id |-> sends + 1])]
             /\ known' = MarkedOutstanding(w, g)
             /\ notices' = [notices EXCEPT ![w] = [h \in Group |-> 0]]
          \/ UNCHANGED <<prompts, known, notices>>
    /\ UNCHANGED <<status, members, outbox, rejected, hub, logged, told, noted, kept, turns, crashes>>

Close(g) ==
    /\ status[g] = "active"
    /\ status' = [status EXCEPT ![g] = "closed"]
    /\ UNCHANGED <<members, staged, prompts, outbox, rejected, known, hub, logs, counters>>

\* The manager's `done`, or a message its spent round budget refuses.
CloseByManager(g) == pc = "control" /\ Close(g)

\* `cowork close`, at any moment.
CloseByOperator(g) == Close(g)

\* The control channel's `release`, for active groups only, and `recruit`.
ChangeMembership(w, g) ==
    /\ pc = "control" /\ (w \in members[g] => status[g] = "active")
    /\ members' = [members EXCEPT ![g] = IF w \in @ THEN @ \ {w} ELSE @ \cup {w}]
    /\ UNCHANGED <<status, staged, prompts, outbox, rejected, known, hub, logs, counters>>

-----------------------------------------------------------------------------
\* The hub's pass (poll_once).  cur is the capture being handled, the oldest of
\* those read_captures found (names lead with a stamp).

cur == CHOOSE c \in batch : \A d \in batch : c.turn <= d.turn
Goto(label) == pc' = label

\* Variant of BeginPass: only the coworkers' outboxes are read.
BeginPassOfCoworkers ==
    /\ pc \in {"poll", "control"}
    /\ Goto("next")
    /\ snap' = Sessions
    /\ todo' = Coworker /\ batch' = {}
    /\ UNCHANGED <<tree, known, logs, counters>>

\* Sessions are read once per pass, not per capture.
BeginPass ==
    /\ pc \in {"poll", "control"}
    /\ Goto("next")
    /\ snap' = Sessions
    /\ todo' = Participant /\ batch' = {}
    /\ UNCHANGED <<tree, known, logs, counters>>

NextCapture ==
    /\ pc = "next"
    /\ \/ batch # {} /\ Goto("decide") /\ UNCHANGED <<todo, batch>>
       \/ batch = {} /\ todo = {} /\ Goto("control") /\ UNCHANGED <<todo, batch>>
       \/ /\ batch = {} /\ Goto("next")
          /\ \E i \in todo : todo' = todo \ {i} /\ batch' = outbox[i]
    /\ UNCHANGED <<tree, known, snap, logs, counters>>

\* Variant of Decide: a capture is never recognised as handled.
DecideForgetful ==
    /\ pc = "decide"
    /\ Goto(IF cur.group = NoGroup THEN "consume" ELSE "unstage")
    /\ UNCHANGED <<tree, known, snap, todo, batch, logs, counters>>

\* _handle: the duplicate guard, then what the turn answers.
Decide ==
    /\ pc = "decide"
    /\ Goto(IF cur.turn = known[cur.by].last \/ cur.group = NoGroup THEN "consume" ELSE "unstage")
    /\ UNCHANGED <<tree, known, snap, todo, batch, logs, counters>>

\* Variant of ConsumeStaged: a reply takes the older backlog with it.
ConsumeBacklog ==
    /\ pc = "unstage" /\ Goto("journal")
    /\ staged' = [staged EXCEPT ![cur.by][cur.group] = {m \in @ : m.seq > cur.seq}]
    /\ UNCHANGED <<status, members, prompts, outbox, rejected, known, snap, todo, batch, logs, counters>>

\* consume_staged: by name, under the sender's own tree.
ConsumeStaged ==
    /\ pc = "unstage" /\ Goto("journal")
    /\ staged' = [staged EXCEPT ![cur.by][cur.group] = {m \in @ : m.seq # cur.seq}]
    /\ UNCHANGED <<status, members, prompts, outbox, rejected, known, snap, todo, batch, logs, counters>>

JournalReply ==
    /\ pc = "journal" /\ Goto("clear")
    /\ logged' = [logged EXCEPT ![cur.turn] = @ + 1]
    /\ UNCHANGED <<tree, known, snap, todo, batch, told, noted, kept, notices, counters>>

ClearAndForward ==
    /\ pc = "clear"
    /\ known' = [known EXCEPT ![cur.by] = [@ EXCEPT !.last = cur.turn, !.outstanding = NoGroup]]
    /\ Goto(IF cur.by = Manager THEN "consume"
            ELSE IF cur.by \notin snap.members[cur.group] THEN "notify" ELSE "submit")
    /\ UNCHANGED <<tree, snap, todo, batch, logs, counters>>

\* _clear_outstanding, then _handle's choice of a route.
ClearOutstanding ==
    /\ pc = "clear"
    /\ known' = [known EXCEPT ![cur.by] = [@ EXCEPT !.last = cur.turn, !.outstanding = NoGroup]]
    /\ Goto(IF cur.by = Manager THEN "consume"
            ELSE IF cur.by \notin snap.members[cur.group] THEN "notify"
            ELSE IF snap.status[cur.group] = "closed" THEN "keep" ELSE "submit")
    /\ UNCHANGED <<tree, snap, todo, batch, logs, counters>>

\* sync.submit: a member's files are copied to the manager's inbox for it.
TakeFiles ==
    /\ cur.by \in snap.members[cur.group]
    /\ kept' = kept \cup {cur.turn}

\* _forward_to_manager: the files first.
Submit ==
    /\ pc = "submit" /\ Goto("stage")
    /\ TakeFiles
    /\ UNCHANGED <<tree, known, snap, todo, batch, logged, told, noted, notices, counters>>

\* send: the notification is staged, then typed into the manager.
StageNotification ==
    /\ pc = "stage" /\ Goto("inject")
    /\ staged' = WithMessage(Manager, cur.group, NextSeq(Manager, cur.group), MaxSends + cur.turn)
    /\ UNCHANGED <<status, members, prompts, outbox, rejected, known, snap, todo, batch, logs, counters>>

\* Variant of InjectNotification: a failed injection leaves no NOTE.
InjectSilently ==
    /\ pc = "inject"
    /\ Goto("consume")
    /\ UNCHANGED <<tree, known, snap, todo, batch, logs, counters>>

InjectNotification ==
    /\ pc = "inject"
    /\ \/ /\ Goto("mark")
          /\ LET id == MaxSends + cur.turn
                 m == CHOOSE x \in staged[Manager][cur.group] : x.id = id
             IN  prompts' = [prompts EXCEPT ![Manager] = Append(@, [group |-> cur.group, seq |-> m.seq, id |-> id])]
          /\ told' = [told EXCEPT ![cur.turn] = @ + 1]
          /\ UNCHANGED noted
       \/ /\ Goto("consume")
          /\ noted' = noted \cup {cur.turn}
          /\ UNCHANGED <<prompts, told>>
    /\ UNCHANGED <<status, members, staged, outbox, rejected, known, snap, todo, batch, logged, kept,
                   notices, counters>>

MarkManager ==
    /\ pc = "mark" /\ Goto("consume")
    /\ known' = MarkedOutstanding(Manager, cur.group)
    /\ UNCHANGED <<tree, snap, todo, batch, logs, counters>>

\* _keep_late_submission: the files and a NOTE, no traffic.
KeepLate ==
    /\ pc = "keep" /\ Goto("notify")
    /\ TakeFiles
    /\ noted' = noted \cup {cur.turn}
    /\ UNCHANGED <<tree, known, snap, todo, batch, logged, told, notices, counters>>

\* _notify_sender: type the notice, unless it was typed before ...
Notify ==
    /\ pc = "notify"
    /\ \/ /\ cur.group \notin known[cur.by].noticed
          /\ Goto("remember")
          /\ prompts' = [prompts EXCEPT ![cur.by] = Append(@, NoPrompt)]
          /\ notices' = [notices EXCEPT ![cur.by][cur.group] = @ + 1]
       \/ Goto("consume") /\ UNCHANGED <<prompts, notices>>      \* known, or not injected
    /\ UNCHANGED <<status, members, staged, outbox, rejected, known, snap, todo, batch, logged, told,
                   noted, kept, counters>>

\* ... and remember that it was.
Remember ==
    /\ pc = "remember" /\ Goto("consume")
    /\ known' = [known EXCEPT ![cur.by].noticed = @ \cup {cur.group}]
    /\ UNCHANGED <<tree, snap, todo, batch, logs, counters>>

DropCapture ==
    /\ outbox' = [outbox EXCEPT ![cur.by] = @ \ {cur}]
    /\ batch' = batch \ {cur}

Consume ==
    /\ pc = "consume" /\ Goto("next") /\ DropCapture
    /\ UNCHANGED <<status, members, staged, prompts, rejected, known, snap, todo, logs, counters>>

\* The copy of the files raised: poll_once parks the capture.
Park ==
    /\ pc \in {"submit", "keep"} /\ Goto("next") /\ DropCapture
    /\ rejected' = rejected \cup {cur.turn}
    /\ UNCHANGED <<status, members, staged, prompts, known, snap, todo, logs, counters>>

\* The hub is killed: what it had in memory is gone.
Crash ==
    /\ pc # "down" /\ crashes < MaxCrashes
    /\ crashes' = crashes + 1
    /\ Goto("down") /\ todo' = {} /\ batch' = {}
    /\ UNCHANGED <<tree, known, snap, logs, turns, sends>>

\* ensure_hub_running, at a later manager launch.
Restart ==
    /\ pc = "down" /\ Goto("poll")
    /\ UNCHANGED <<tree, known, snap, todo, batch, logs, counters>>

HubStep ==
    \/ BeginPass \/ NextCapture \/ Decide \/ ConsumeStaged \/ JournalReply \/ ClearOutstanding
    \/ Submit \/ StageNotification \/ InjectNotification \/ MarkManager \/ KeepLate \/ Notify
    \/ Remember \/ Consume \/ Park

Next ==
    \/ HubStep \/ Crash \/ Restart
    \/ \E i \in Participant : Answer(i) \/ HumanTurn(i)
    \/ \E g \in Group : CloseByManager(g) \/ CloseByOperator(g) \/ \E w \in Coworker : Ask(w, g) \/ ChangeMembership(w, g)

Spec == Init /\ [][Next]_vars

\* The hub goes on polling, and is started again after a crash.
FairSpec == Spec /\ WF_vars(HubStep) /\ WF_vars(Restart)

-----------------------------------------------------------------------------
\* A coworker's reply leaves its outbox only when the manager was woken about
\* it, or the journal says why not, or its capture is parked.  A kill is the
\* only way to lose the wake, and even then the reply is in the journal
\* (relay.py:243: "a crash in here retries rather than silently dropping a turn").
DroppedOnlyByACrash ==
    [][\A i \in Coworker : \A c \in outbox[i] \ outbox'[i] :
           c.group # NoGroup /\ i \in snap.members[c.group]
               => \/ told[c.turn] > 0 \/ c.turn \in noted \cup rejected'
                  \/ crashes > 0 /\ logged[c.turn] > 0]_vars

\* However often the hub is killed and replays a capture, the manager is woken
\* about one reply at most once (group.py: "never a replayed forward").
ForwardedAtMostOnce == \A t \in Turn : told[t] <= 1

\* When the manager is told of a reply it can read it in the journal and find
\* its files in the inbox: "the inbox has to exist before the manager can be
\* pointed at it".
ToldAfterRecorded == \A t \in Turn : told[t] > 0 => logged[t] > 0 /\ t \in kept

\* A message leaves the queue only by its reader's reply, to that very message
\* unless the hub was killed (a capture handled again may take away a younger
\* message of the same number): mailbox.next_seq and consume_staged.
LeavesOnlyWhenAnswered ==
    [][\A i \in Participant, g \in Group : \A m \in staged[i][g] \ staged'[i][g] :
           pc = "unstage" /\ cur.by = i /\ (cur.id = m.id \/ crashes > 0)]_vars

\* Between two messages to a coworker, it is told once that its replies to a
\* group go nowhere; a crash may repeat it (relay._notify_sender).
NoticeOncePerSend ==
    \A w \in Coworker, g \in Group : notices[w][g] <= 1 + crashes

\* Nobody is told twice, or too early: the three above, whatever crashes.
ToldOnceAndRecorded == TypeOK /\ ForwardedAtMostOnce /\ ToldAfterRecorded /\ NoticeOncePerSend

\* "A closed group should generate no traffic": nobody is prompted for it once
\* a pass of the hub began after the close, whoever closed it and whenever
\* (sessions are read once a pass, so the pass under way may still speak).
ClosedGroupIsQuiet ==
    [][\A i \in Participant : Len(prompts'[i]) > Len(prompts[i])
           => LET g == prompts'[i][Len(prompts'[i])].group
              IN  g # NoGroup => "active" \in {status[g], snap.status[g]}]_vars

\* Every capture is handled or parked in the end, whatever copy of files
\* raises and wherever the hub is killed: no capture blocks the ones after it.
OutboxesDrain == <>[](\A i \in Participant : outbox[i] = {})
=============================================================================
