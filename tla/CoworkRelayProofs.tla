------------------------- MODULE CoworkRelayProofs --------------------------
(***************************************************************************)
(* What CoworkRelay promises for any coworkers, groups, turns and sends,   *)
(* and kills anywhere.  Captures are handled oldest first, so that         *)
(* last_prompt_id is enough of a memory (WaitingInOrder, ToldOnce); what a *)
(* replay may find settled is known (Accounted); and as long as nobody was *)
(* killed, what was typed and what waits in an outbox answers a message    *)
(* that is still staged (QueueInStep).                                     *)
(***************************************************************************)
EXTENDS CoworkRelay, FiniteSetTheorems, TLAPS

\* Where _handle is with cur: before and after _clear_outstanding.
Routed == {"unstage", "journal", "clear"}
Forwarding == {"submit", "stage", "inject"}
Cleared == Forwarding \cup {"mark", "keep", "notify", "remember"}
Settled == Cleared \cup {"consume"}
Handling == {"decide", "consume"} \cup Routed \cup Cleared

\* A capture waits in its author's outbox under a turn of its own; the batch is
\* the older part of one outbox; and nobody's last_prompt_id is ahead of what
\* waits.
WaitingInOrder ==
    /\ \A i \in Participant : known[i].last <= turns
    /\ \A i \in Participant : \A c \in outbox[i] : c.by = i /\ c.turn <= turns /\ known[i].last <= c.turn
    /\ \A i, j \in Participant : \A c \in outbox[i], d \in outbox[j] : c.turn = d.turn => c = d
    /\ \A c \in batch : c \in outbox[c.by]
    /\ \A c, d \in batch : c.by = d.by
    /\ \A c \in batch : \A d \in outbox[c.by] \ batch : c.turn < d.turn
    /\ pc \in Handling => batch # {}

\* A turn the manager was told of is the last its author's record knows, if its
\* capture waits at all ...
ToldSettled ==
    /\ \A t \in Turn : told[t] <= 1
    /\ \A t \in Turn : told[t] > 0 => t <= turns /\ logged[t] > 0 /\ t \in kept
    /\ \A i \in Participant : \A c \in outbox[i] : told[c.turn] > 0 => known[i].last = c.turn

\* ... and _handle gets as far as telling in its order only.
ToldInTurn ==
    /\ pc \in Routed \cup Cleared => cur.group # NoGroup
    /\ pc \in Routed \cup Forwarding => told[cur.turn] = 0
    /\ pc \in {"clear"} \cup Cleared => logged[cur.turn] > 0
    /\ pc \in Cleared => cur.by \in Coworker /\ known[cur.by].last = cur.turn
    /\ pc \in {"stage", "inject"} => cur.turn \in kept
    /\ pc = "inject" => \E m \in staged[Manager][cur.group] : m.id = MaxSends + cur.turn
    /\ pc \in Forwarding => snap.status[cur.group] = "active"

ToldOnce == ToldSettled /\ ToldInTurn

\* A notice that is not remembered is being remembered, or was cut off.
NoticesCounted ==
    \A w \in Coworker, g \in Group :
        /\ notices[w][g] <= 1 + crashes
        /\ g \notin known[w].noticed /\ ~(pc = "remember" /\ cur.by = w /\ cur.group = g)
               => notices[w][g] <= crashes

\* A capture whose turn is known is in the journal, and it is the one at hand
\* or a kill left it ...
Replayed ==
    \A i \in Participant : \A c \in outbox[i] :
        known[i].last = c.turn => logged[c.turn] > 0 /\ (crashes > 0 \/ (pc \in Settled /\ c = cur))

\* ... and one that is dropped is accounted for.
AccountedAtHand ==
    /\ pc = "mark" => told[cur.turn] > 0
    /\ pc \in {"notify", "remember"} => cur.by \notin snap.members[cur.group] \/ cur.turn \in noted
    /\ pc = "consume" /\ cur.by \in Coworker /\ cur.group # NoGroup /\ cur.by \in snap.members[cur.group]
           => told[cur.turn] > 0 \/ cur.turn \in noted \/ (crashes > 0 /\ logged[cur.turn] > 0)

Accounted == Replayed /\ AccountedAtHand

\* Staged messages have numbers of their own, and there is a highest.
StagedInOrder ==
    \A i \in Participant, g \in Group :
        /\ \A m, n \in staged[i][g] : m.seq = n.seq => m = n
        /\ \E b \in Nat : \A m \in staged[i][g] : m.seq <= b

\* The message a prompt points to, or a capture answers.
Answering(x) == [seq |-> x.seq, id |-> x.id]
PromptsOf(i) == {k \in DOMAIN prompts[i] : prompts[i][k].group # NoGroup}
RepliesOf(i) == {c \in outbox[i] : c.group # NoGroup}

\* Identities are never used twice: sends number a coworker's messages, turns
\* the manager's.
Issued(i, id) == IF i = Manager THEN \E t \in Turn : id = MaxSends + t /\ told[t] > 0 ELSE id <= sends

\* Where cur's message has been taken away.
Taken == {"journal", "clear"} \cup Settled

InStep(i) ==
    /\ \A k \in PromptsOf(i) : /\ Answering(prompts[i][k]) \in staged[i][prompts[i][k].group]
                               /\ Issued(i, prompts[i][k].id)
    /\ \A c \in RepliesOf(i) : /\ Answering(c) \in staged[i][c.group] \/ (pc \in Taken /\ c = cur)
                               /\ Issued(i, c.id)
    /\ \A k, l \in PromptsOf(i) : prompts[i][k].id = prompts[i][l].id => k = l
    /\ \A c, d \in RepliesOf(i) : c.id = d.id => c = d
    /\ \A k \in PromptsOf(i), c \in RepliesOf(i) : prompts[i][k].id # c.id

QueueInStep == \A i \in Participant : InStep(i)

IInv ==
    /\ TypeOK /\ WaitingInOrder /\ ToldOnce /\ NoticesCounted /\ Accounted /\ StagedInOrder
    /\ crashes = 0 => QueueInStep

-----------------------------------------------------------------------------
\* A set of numbers has a least one: of the intervals 0..x, one holds no other.
LEMMA HasLeast ==
    ASSUME NEW S \in SUBSET Nat, S # {}
    PROVE  \E x \in S : \A y \in S : x <= y
<1>. DEFINE T == {0..x : x \in S}
<1>1. T \subseteq FiniteSubsetsOf(Nat) /\ T # {}
  <2>1. \A x \in S : 0..x \in FiniteSubsetsOf(Nat)
    BY FS_Interval DEF FiniteSubsetsOf
  <2>. QED  BY <2>1
<1>2. PICK t \in T : \A u \in T : <<u, t>> \notin StrictSubsetOrdering(Nat)
  <2>. HIDE DEF T
  <2>. QED  BY <1>1, FS_StrictSubsetOrderingWellFounded, WFMin
<1>3. PICK x \in S : t = 0..x
  OBVIOUS
<1>4. ASSUME NEW y \in S, y < x
      PROVE  FALSE
  <2>1. 0..y \subseteq 0..x /\ x \in 0..x /\ x \notin 0..y /\ 0..y \in SUBSET Nat /\ 0..x \in SUBSET Nat
    BY <1>4
  <2>2. <<0..y, t>> \in StrictSubsetOrdering(Nat)
    BY <1>3, <2>1 DEF StrictSubsetOrdering
  <2>. QED  BY <1>2, <2>2
<1>. QED  BY <1>4

\* ... and a bounded one has a greatest (FiniteSetsExt's Max).
LEMMA MaxOfBounded ==
    ASSUME NEW S \in SUBSET Nat, S # {}, NEW b \in Nat, \A x \in S : x <= b
    PROVE  Max(S) \in S /\ \A x \in S : x <= Max(S)
<1>. DEFINE T == {b - x : x \in S}
<1>1. T \in SUBSET Nat /\ T # {}
  <2>1. \A x \in S : b - x \in Nat
    OBVIOUS
  <2>. QED  BY <2>1
<1>2. PICK t \in T : \A u \in T : t <= u
  BY <1>1, HasLeast
<1>3. PICK x \in S : t = b - x
  OBVIOUS
<1>4. \A y \in S : x >= y
  BY <1>2, <1>3
<1>5. \E z \in S : \A y \in S : z >= y
  BY <1>4
<1>. QED  BY <1>5 DEF Max

-----------------------------------------------------------------------------
LEMMA Updated ==
    ASSUME NEW S, NEW T, NEW f \in [S -> T], NEW i \in S, NEW x \in T
    PROVE  [f EXCEPT ![i] = x] \in [S -> T]
OBVIOUS

LEMMA Typed ==
    ASSUME prompts \in [Participant -> Seq(Prompt)], NEW i \in Participant, NEW x \in Prompt
    PROVE  /\ [prompts EXCEPT ![i] = Append(@, x)] \in [Participant -> Seq(Prompt)]
           /\ [prompts EXCEPT ![i] = Append(@, x)][i] = Append(prompts[i], x)
           /\ \A j \in Participant : j # i => [prompts EXCEPT ![i] = Append(@, x)][j] = prompts[j]
<1>1. Append(prompts[i], x) \in Seq(Prompt)
  OBVIOUS
<1>. QED  BY <1>1, Updated

\* A ParticipantState.
State == [last : 0..MaxTurns, outstanding : Group \cup {NoGroup}, noticed : SUBSET Group]

LEMMA Marked ==
    ASSUME known \in [Participant -> State], NEW i \in Participant, NEW g \in Group
    PROVE  /\ MarkedOutstanding(i, g) \in [Participant -> State]
           /\ MarkedOutstanding(i, g)[i].last = known[i].last
           /\ MarkedOutstanding(i, g)[i].noticed = {}
           /\ \A j \in Participant : j # i => MarkedOutstanding(i, g)[j] = known[j]
<1>. DEFINE x == [last |-> known[i].last, outstanding |-> g, noticed |-> {}]
<1>1. known[i] \in State
  OBVIOUS
<1>2. x \in State
  BY <1>1 DEF State
<1>3. MarkedOutstanding(i, g) = [known EXCEPT ![i] = x]
  BY DEF MarkedOutstanding
<1>. QED  BY <1>2, <1>3, Updated

LEMMA Cleaned ==
    ASSUME known \in [Participant -> State], NEW i \in Participant, NEW t \in 0..MaxTurns, NEW f,
           f = [known EXCEPT ![i] = [@ EXCEPT !.last = t, !.outstanding = NoGroup]]
    PROVE  /\ f \in [Participant -> State]
           /\ f[i].last = t /\ f[i].noticed = known[i].noticed
           /\ \A j \in Participant : j # i => f[j] = known[j]
<1>. DEFINE x == [known[i] EXCEPT !.last = t, !.outstanding = NoGroup]
<1>1. known[i] \in State
  OBVIOUS
<1>2. x \in State /\ x.last = t /\ x.noticed = known[i].noticed
  BY <1>1 DEF State
<1>3. f = [known EXCEPT ![i] = x]
  OBVIOUS
<1>. HIDE DEF x
<1>. QED  BY <1>2, <1>3, Updated

LEMMA Remembered ==
    ASSUME known \in [Participant -> State], NEW i \in Participant, NEW g \in Group, NEW f,
           f = [known EXCEPT ![i].noticed = @ \cup {g}]
    PROVE  /\ f \in [Participant -> State]
           /\ f[i].last = known[i].last /\ f[i].noticed = known[i].noticed \cup {g}
           /\ \A j \in Participant : j # i => f[j] = known[j]
<1>. DEFINE x == [known[i] EXCEPT !.noticed = @ \cup {g}]
<1>1. known[i] \in State
  OBVIOUS
<1>2. x \in State /\ x.last = known[i].last /\ x.noticed = known[i].noticed \cup {g}
  BY <1>1 DEF State
<1>3. f = [known EXCEPT ![i] = x]
  OBVIOUS
<1>. HIDE DEF x
<1>. QED  BY <1>2, <1>3, Updated

\* cur is the oldest capture of the batch, and of its author's outbox.
LEMMA CurIsOldest ==
    ASSUME TypeOK, WaitingInOrder, batch # {}
    PROVE  /\ cur \in batch /\ cur \in Capture /\ cur.by \in Participant /\ cur \in outbox[cur.by]
           /\ \A c \in outbox[cur.by] : c # cur => cur.turn < c.turn
           /\ \A c \in batch : c # cur => cur.turn < c.turn
<1>0. /\ batch \subseteq Capture /\ \A c \in Capture : c.turn \in Nat /\ c.by \in Participant
      /\ outbox \in [Participant -> SUBSET Capture]
  BY DEF TypeOK, Capture, Turn
<1>. DEFINE S == {c.turn : c \in batch}
<1>1. S \in SUBSET Nat /\ S # {}
  BY <1>0
<1>2. PICK t \in S : \A u \in S : t <= u
  BY <1>1, HasLeast
<1>3. \E c \in batch : \A d \in batch : c.turn <= d.turn
  BY <1>2
<1>4. cur \in batch /\ \A d \in batch : cur.turn <= d.turn
  BY <1>3 DEF cur
<1>. HIDE DEF S
<1>5. cur \in Capture /\ cur.by \in Participant /\ cur \in outbox[cur.by]
  BY <1>0, <1>4 DEF WaitingInOrder
<1>6. \A c \in batch : c # cur => cur.turn < c.turn
  <2>1. \A c \in batch : c # cur => cur.turn # c.turn
    BY <1>0, <1>4 DEF WaitingInOrder
  <2>. QED  BY <1>0, <1>4, <2>1
<1>7. \A c \in outbox[cur.by] : c # cur => cur.turn < c.turn
  BY <1>4, <1>6 DEF WaitingInOrder
<1>. QED  BY <1>4, <1>5, <1>6, <1>7

LEMMA CurStays == ASSUME batch' = batch PROVE cur' = cur
BY DEF cur

LEMMA AtHand ==
    ASSUME TypeOK, WaitingInOrder, pc \in Handling
    PROVE  /\ batch # {} /\ cur \in batch /\ cur \in Capture /\ cur.by \in Participant /\ cur \in outbox[cur.by]
           /\ cur.turn \in Turn /\ cur.turn \in 0..MaxTurns /\ cur.turn \in Nat \ {0}
           /\ cur.seq \in Nat /\ cur.id \in Nat
           /\ ToldOnce /\ pc \in Routed \cup Cleared => cur.group \in Group
           /\ ToldOnce /\ pc \in Cleared => cur.by \in Coworker
<1>1. batch # {} /\ cur \in batch /\ cur \in Capture /\ cur.by \in Participant /\ cur \in outbox[cur.by]
  <2>1. batch # {}
    BY DEF WaitingInOrder
  <2>. QED  BY <2>1, CurIsOldest
<1>2. /\ cur.turn \in Turn /\ cur.seq \in Nat /\ cur.id \in Nat /\ cur.group \in Group \cup {NoGroup}
      /\ MaxTurns \in Nat
  BY <1>1, ConstantsAssumption DEF Capture
<1>. QED  BY <1>1, <1>2 DEF ToldOnce, ToldInTurn, Turn

\* A message is staged past all that are there, and replaces none (next_seq,
\* stage_message).
LEMMA Staging ==
    ASSUME TypeOK, StagedInOrder, NEW i \in Participant, NEW g \in Group, NEW id \in Nat \ {0}
    PROVE  /\ NextSeq(i, g) \in Nat \ {0}
           /\ \A m \in staged[i][g] : m.seq < NextSeq(i, g)
           /\ WithMessage(i, g, NextSeq(i, g), id)
                = [staged EXCEPT ![i][g] = @ \cup {[seq |-> NextSeq(i, g), id |-> id]}]
           /\ WithMessage(i, g, NextSeq(i, g), id) \in [Participant -> [Group -> SUBSET Message]]
<1>. DEFINE S == {0} \cup {m.seq : m \in staged[i][g]}
<1>1. staged \in [Participant -> [Group -> SUBSET Message]] /\ staged[i][g] \subseteq Message
  BY DEF TypeOK
<1>2. PICK b \in Nat : \A m \in staged[i][g] : m.seq <= b
  BY DEF StagedInOrder
<1>3. S \in SUBSET Nat /\ S # {} /\ \A x \in S : x <= b
  BY <1>1, <1>2 DEF Message
<1>4. Max(S) \in S /\ \A x \in S : x <= Max(S)
  BY <1>3, MaxOfBounded
<1>5. NextSeq(i, g) = 1 + Max(S) /\ Max(S) \in Nat
  BY <1>3, <1>4 DEF NextSeq
<1>6. \A m \in staged[i][g] : m.seq \in S
  OBVIOUS
<1>. HIDE DEF S
<1>7. NextSeq(i, g) \in Nat \ {0} /\ \A x \in S : x < NextSeq(i, g)
  <2>1. \A x \in S : x \in Nat /\ x <= Max(S)
    BY <1>3, <1>4
  <2>. QED  BY <2>1, <1>5
<1>8. \A m \in staged[i][g] : m.seq < NextSeq(i, g) /\ m.seq # NextSeq(i, g)
  <2>1. \A m \in staged[i][g] : m.seq \in Nat /\ m.seq < NextSeq(i, g)
    BY <1>3, <1>6, <1>7
  <2>. QED  BY <1>7, <2>1
<1>9. {m \in staged[i][g] : m.seq # NextSeq(i, g)} = staged[i][g]
  BY <1>8
<1>10. WithMessage(i, g, NextSeq(i, g), id)
         = [staged EXCEPT ![i][g] = @ \cup {[seq |-> NextSeq(i, g), id |-> id]}]
  BY <1>1, <1>9 DEF WithMessage
<1>11. [seq |-> NextSeq(i, g), id |-> id] \in Message
  BY <1>7 DEF Message
<1>. QED  BY <1>1, <1>7, <1>8, <1>10, <1>11

LEMMA TypesKept == TypeOK /\ WaitingInOrder /\ ToldOnce /\ StagedInOrder /\ [Next]_vars => TypeOK'
<1>. SUFFICES ASSUME TypeOK, WaitingInOrder, ToldOnce, StagedInOrder, [Next]_vars
              PROVE  TypeOK'
  OBVIOUS
<1>. USE ConstantsAssumption
<1>0. /\ MaxTurns \in Nat /\ MaxSends \in Nat /\ MaxCrashes \in Nat
      /\ Manager \in Participant /\ Coworker \subseteq Participant
      /\ turns \in 0..MaxTurns /\ sends \in 0..MaxSends /\ crashes \in 0..MaxCrashes
      /\ NoPrompt \in Prompt
      /\ prompts \in [Participant -> Seq(Prompt)] /\ known \in [Participant -> State]
      /\ notices \in [Coworker -> [Group -> Nat]] /\ told \in [Turn -> Nat]
  BY DEF TypeOK, Participant, NoPrompt, Prompt, State
<1>1. ASSUME NEW i \in Participant, NEW prompt \in Prompt, TakeTurn(i, prompt),
             prompts' \in [Participant -> Seq(Prompt)]
      PROVE  TypeOK'
  <2>1. turns + 1 \in Turn /\ turns' \in 0..MaxTurns
    BY <1>0, <1>1 DEF TakeTurn, Turn
  <2>2. [by |-> i, turn |-> turns + 1, group |-> prompt.group, seq |-> prompt.seq, id |-> prompt.id] \in Capture
    BY <2>1 DEF Capture, Prompt
  <2>3. outbox' \in [Participant -> SUBSET Capture]
    BY <1>1, <2>2 DEF TakeTurn, TypeOK
  <2>. QED  BY <1>1, <2>1, <2>3 DEF TakeTurn, TypeOK, hub, logs
<1>2. ASSUME NEW i \in Participant, Answer(i)
      PROVE  TypeOK'
  <2>1. prompts[i] \in Seq(Prompt) /\ prompts[i] # <<>>
    BY <1>2 DEF Answer, TypeOK
  <2>2. Head(prompts[i]) \in Prompt /\ Tail(prompts[i]) \in Seq(Prompt)
    BY <2>1
  <2>3. PICK prompt \in Attributions(Head(prompts[i])) : TakeTurn(i, prompt)
    BY <1>2 DEF Answer
  <2>4. prompt \in Prompt
    BY <1>0, <2>2 DEF Attributions
  <2>5. prompts' \in [Participant -> Seq(Prompt)]
    BY <1>2, <2>2 DEF Answer, TypeOK
  <2>. QED  BY <1>1, <2>3, <2>4, <2>5
<1>3. ASSUME NEW i \in Participant, HumanTurn(i)
      PROVE  TypeOK'
  BY <1>0, <1>1, <1>3 DEF HumanTurn, TypeOK
<1>4. ASSUME NEW w \in Coworker, NEW g \in Group, Ask(w, g)
      PROVE  TypeOK'
  <2>. DEFINE id == sends + 1
              seq == NextSeq(w, g)
  <2>1. id \in Nat \ {0} /\ w \in Participant /\ sends' \in 0..MaxSends
    BY <1>0, <1>4 DEF Ask
  <2>2. seq \in Nat /\ WithMessage(w, g, seq, id) \in [Participant -> [Group -> SUBSET Message]]
    BY <2>1, Staging
  <2>3. [group |-> g, seq |-> seq, id |-> id] \in Prompt
    BY <2>1, <2>2 DEF Prompt
  <2>4. staged' = WithMessage(w, g, seq, id)
    BY <1>4 DEF Ask
  <2>5. \/ /\ prompts' = [prompts EXCEPT ![w] = Append(@, [group |-> g, seq |-> seq, id |-> id])]
           /\ known' = MarkedOutstanding(w, g)
           /\ notices' = [notices EXCEPT ![w] = [h \in Group |-> 0]]
        \/ UNCHANGED <<prompts, known, notices>>
    BY <1>4 DEF Ask
  <2>. HIDE DEF id, seq
  <2>6. prompts' \in [Participant -> Seq(Prompt)]
    <3>1. [prompts EXCEPT ![w] = Append(@, [group |-> g, seq |-> seq, id |-> id])] \in [Participant -> Seq(Prompt)]
      BY <1>0, <2>1, <2>3, Typed
    <3>. QED  BY <1>0, <2>5, <3>1
  <2>7. known' \in [Participant -> State]
    BY <1>0, <2>1, <2>5, Marked
  <2>8. notices' \in [Coworker -> [Group -> Nat]]
    <3>1. [h \in Group |-> 0] \in [Group -> Nat]
      OBVIOUS
    <3>2. [notices EXCEPT ![w] = [h \in Group |-> 0]] \in [Coworker -> [Group -> Nat]]
      BY <1>0, <3>1, Updated
    <3>. QED  BY <1>0, <2>5, <3>2
  <2>. QED  BY <1>4, <2>1, <2>2, <2>4, <2>6, <2>7, <2>8 DEF Ask, TypeOK, hub, State
<1>5. ASSUME NEW g \in Group, CloseByManager(g) \/ CloseByOperator(g)
      PROVE  TypeOK'
  BY <1>5 DEF CloseByManager, CloseByOperator, Close, TypeOK, hub, logs, counters
<1>6. ASSUME NEW w \in Coworker, NEW g \in Group, ChangeMembership(w, g)
      PROVE  TypeOK'
  <2>1. members' \in [Group -> SUBSET Coworker]
    BY <1>6 DEF ChangeMembership, TypeOK
  <2>. QED  BY <1>6, <2>1 DEF ChangeMembership, TypeOK, hub, logs, counters
<1>7. CASE BeginPass
  <2>1. snap' \in [status : [Group -> {"active", "closed"}], members : [Group -> SUBSET Coworker]]
    BY <1>7 DEF BeginPass, Sessions, TypeOK
  <2>. QED  BY <1>7, <2>1 DEF BeginPass, Goto, HubPC, TypeOK, tree, logs, counters
<1>8. CASE NextCapture
  BY <1>8 DEF NextCapture, Goto, HubPC, TypeOK, tree, logs, counters
<1>9. CASE Decide
  BY <1>9 DEF Decide, Goto, HubPC, TypeOK, tree, logs, counters
<1>10. CASE ConsumeStaged
  <2>1. staged' \in [Participant -> [Group -> SUBSET Message]]
    BY <1>10, AtHand DEF ConsumeStaged, TypeOK, Handling, Routed
  <2>. QED  BY <1>10, <2>1 DEF ConsumeStaged, Goto, HubPC, TypeOK, logs, counters
<1>11. CASE JournalReply
  <2>1. logged' \in [Turn -> Nat]
    BY <1>11, AtHand DEF JournalReply, TypeOK, Handling, Routed
  <2>. QED  BY <1>11, <2>1 DEF JournalReply, Goto, HubPC, TypeOK, tree, counters
<1>12. CASE ClearOutstanding
  <2>1. cur.by \in Participant /\ cur.turn \in 0..MaxTurns
    BY <1>12, AtHand DEF ClearOutstanding, Handling, Routed
  <2>2. known' \in [Participant -> State]
    BY <1>0, <1>12, <2>1, Cleaned DEF ClearOutstanding
  <2>3. pc' \in HubPC
    BY <1>12 DEF ClearOutstanding, Goto, HubPC
  <2>. QED  BY <1>12, <2>2, <2>3 DEF ClearOutstanding, TypeOK, tree, logs, counters, State
<1>13. CASE Submit \/ KeepLate
  <2>1. kept' \subseteq Turn /\ noted' \subseteq Turn
    BY <1>13, AtHand DEF Submit, KeepLate, TakeFiles, TypeOK, Handling, Cleared, Forwarding
  <2>. QED  BY <1>13, <2>1 DEF Submit, KeepLate, Goto, HubPC, TypeOK, tree, counters
<1>14. CASE StageNotification
  <2>1. cur.group \in Group /\ MaxSends + cur.turn \in Nat \ {0}
    BY <1>0, <1>14, AtHand DEF StageNotification, Handling, Cleared, Forwarding
  <2>2. staged' \in [Participant -> [Group -> SUBSET Message]]
    BY <1>0, <1>14, <2>1, Staging DEF StageNotification
  <2>. QED  BY <1>14, <2>2 DEF StageNotification, Goto, HubPC, TypeOK, logs, counters
<1>15. CASE InjectNotification
  <2>1. cur.group \in Group /\ cur.turn \in Turn /\ MaxSends + cur.turn \in Nat
    BY <1>0, <1>15, AtHand DEF InjectNotification, Handling, Cleared, Forwarding
  <2>. DEFINE id == MaxSends + cur.turn
              m == CHOOSE x \in staged[Manager][cur.group] : x.id = id
  <2>2. m \in staged[Manager][cur.group] /\ staged[Manager][cur.group] \subseteq Message
    BY <1>0, <1>15, <2>1 DEF InjectNotification, ToldOnce, ToldInTurn, TypeOK
  <2>3. m.seq \in Nat
    BY <2>2 DEF Message
  <2>4. \/ /\ prompts' = [prompts EXCEPT ![Manager] = Append(@, [group |-> cur.group, seq |-> m.seq, id |-> id])]
           /\ told' = [told EXCEPT ![cur.turn] = @ + 1] /\ noted' = noted
        \/ noted' = noted \cup {cur.turn} /\ UNCHANGED <<prompts, told>>
    BY <1>15 DEF InjectNotification
  <2>. HIDE DEF id, m
  <2>5. [group |-> cur.group, seq |-> m.seq, id |-> id] \in Prompt
    BY <2>1, <2>3 DEF Prompt, id
  <2>6. prompts' \in [Participant -> Seq(Prompt)]
    <3>1. [prompts EXCEPT ![Manager] = Append(@, [group |-> cur.group, seq |-> m.seq, id |-> id])]
             \in [Participant -> Seq(Prompt)]
      BY <1>0, <2>5, Typed
    <3>. QED  BY <1>0, <2>4, <3>1
  <2>8. told' \in [Turn -> Nat] /\ noted' \subseteq Turn
    <3>1. [told EXCEPT ![cur.turn] = @ + 1] \in [Turn -> Nat] /\ noted \subseteq Turn
      BY <1>0, <2>1 DEF TypeOK
    <3>. QED  BY <1>0, <2>1, <2>4, <3>1
  <2>7. pc' \in HubPC
    BY <1>15 DEF InjectNotification, Goto, HubPC
  <2>. QED  BY <1>15, <2>6, <2>7, <2>8 DEF InjectNotification, TypeOK, counters
<1>16. CASE MarkManager
  <2>1. cur.group \in Group
    BY <1>16, AtHand DEF MarkManager, Handling, Cleared
  <2>2. known' \in [Participant -> State]
    BY <1>0, <1>16, <2>1, Marked DEF MarkManager
  <2>. QED  BY <1>16, <2>2 DEF MarkManager, Goto, HubPC, TypeOK, tree, logs, counters, State
<1>17. CASE Notify
  <2>1. cur.by \in Coworker /\ cur.group \in Group
    BY <1>17, AtHand DEF Notify, Handling, Cleared
  <2>2. prompts' \in [Participant -> Seq(Prompt)]
    <3>1. [prompts EXCEPT ![cur.by] = Append(@, NoPrompt)] \in [Participant -> Seq(Prompt)]
      BY <1>0, <2>1, Typed
    <3>. QED  BY <1>0, <1>17, <3>1 DEF Notify
  <2>3. notices' \in [Coworker -> [Group -> Nat]]
    <3>1. [notices[cur.by] EXCEPT ![cur.group] = @ + 1] \in [Group -> Nat]
      BY <1>0, <2>1
    <3>2. [notices EXCEPT ![cur.by][cur.group] = @ + 1] \in [Coworker -> [Group -> Nat]]
      BY <1>0, <2>1, <3>1, Updated
    <3>. QED  BY <1>0, <1>17, <3>2 DEF Notify
  <2>. QED  BY <1>17, <2>2, <2>3 DEF Notify, Goto, HubPC, TypeOK, counters
<1>18. CASE Remember
  <2>1. cur.by \in Participant /\ cur.group \in Group
    BY <1>0, <1>18, AtHand DEF Remember, Handling, Cleared
  <2>2. known' \in [Participant -> State]
    BY <1>0, <1>18, <2>1, Remembered DEF Remember
  <2>. QED  BY <1>18, <2>2 DEF Remember, Goto, HubPC, TypeOK, tree, logs, counters, State
<1>19. CASE Consume \/ Park
  <2>1. cur.by \in Participant /\ cur.turn \in Turn
    BY <1>19, AtHand DEF Consume, Park, Handling, Cleared, Forwarding
  <2>2. outbox' \in [Participant -> SUBSET Capture] /\ batch' \subseteq Capture
    <3>1. outbox[cur.by] \ {cur} \in SUBSET Capture /\ outbox \in [Participant -> SUBSET Capture]
      BY <2>1 DEF TypeOK
    <3>2. [outbox EXCEPT ![cur.by] = @ \ {cur}] \in [Participant -> SUBSET Capture]
      BY <2>1, <3>1, Updated
    <3>. QED  BY <1>19, <3>2 DEF Consume, Park, DropCapture, TypeOK
  <2>. QED  BY <1>19, <2>1, <2>2 DEF Consume, Park, Goto, HubPC, TypeOK, logs, counters
<1>20. CASE Crash \/ Restart
  BY <1>0, <1>20 DEF Crash, Restart, Goto, HubPC, TypeOK, tree, logs, counters
<1>21. CASE UNCHANGED vars
  BY <1>21 DEF vars, tree, hub, logs, counters, TypeOK
<1>. QED
  BY <1>2, <1>3, <1>4, <1>5, <1>6, <1>7, <1>8, <1>9, <1>10, <1>11, <1>12, <1>13, <1>14, <1>15, <1>16,
     <1>17, <1>18, <1>19, <1>20, <1>21
  DEF Next, HubStep
-----------------------------------------------------------------------------
\* How one step touches the records of what was handled.
LEMMA LastKept ==
    ASSUME TypeOK, WaitingInOrder, ToldOnce, pc \in {"mark", "remember"}, MarkManager \/ Remember
    PROVE  \A i \in Participant : known'[i].last = known[i].last
<1>1. known \in [Participant -> State] /\ Manager \in Participant
  BY DEF TypeOK, State, Participant
<1>2. cur.by \in Participant /\ cur.group \in Group
  BY AtHand DEF Handling, Cleared
<1>3. CASE MarkManager
  BY <1>1, <1>2, <1>3, Marked DEF MarkManager
<1>4. CASE Remember
  BY <1>1, <1>2, <1>4, Remembered DEF Remember
<1>. QED  BY <1>3, <1>4

LEMMA LastKeptByAsk ==
    ASSUME TypeOK, NEW w \in Coworker, NEW g \in Group, Ask(w, g)
    PROVE  \A i \in Participant : known'[i].last = known[i].last
<1>1. known \in [Participant -> State] /\ w \in Participant
  BY DEF TypeOK, State, Participant
<1>2. known' = MarkedOutstanding(w, g) \/ known' = known
  BY DEF Ask
<1>. QED  BY <1>1, <1>2, Marked

LEMMA LastCleared ==
    ASSUME TypeOK, WaitingInOrder, ClearOutstanding
    PROVE  /\ cur.by \in Participant /\ known'[cur.by].last = cur.turn
           /\ known'[cur.by].noticed = known[cur.by].noticed
           /\ \A i \in Participant : i # cur.by => known'[i] = known[i]
<1>1. known \in [Participant -> State]
  BY DEF TypeOK, State
<1>2. cur.by \in Participant /\ cur.turn \in 0..MaxTurns
  BY AtHand DEF ClearOutstanding, Handling, Routed
<1>3. known' = [known EXCEPT ![cur.by] = [@ EXCEPT !.last = cur.turn, !.outstanding = NoGroup]]
  BY DEF ClearOutstanding
<1>4. /\ known'[cur.by].last = cur.turn /\ known'[cur.by].noticed = known[cur.by].noticed
      /\ \A i \in Participant : i # cur.by => known'[i] = known[i]
  <2>. DEFINE x == [known[cur.by] EXCEPT !.last = cur.turn, !.outstanding = NoGroup]
  <2>1. known[cur.by] \in State
    BY <1>1, <1>2
  <2>2. x.last = cur.turn /\ x.noticed = known[cur.by].noticed
    BY <2>1 DEF State
  <2>3. known' = [known EXCEPT ![cur.by] = x]
    BY <1>3
  <2>. HIDE DEF x
  <2>. QED  BY <1>1, <1>2, <2>2, <2>3
<1>. QED  BY <1>2, <1>4

\* A turn's capture is new, and the youngest of all.
LEMMA TurnTaken ==
    ASSUME TypeOK, WaitingInOrder, NEW i \in Participant, NEW prompt, TakeTurn(i, prompt)
    PROVE  LET new == [by |-> i, turn |-> turns + 1, group |-> prompt.group, seq |-> prompt.seq, id |-> prompt.id]
           IN  /\ outbox'[i] = outbox[i] \cup {new}
               /\ \A j \in Participant : j # i => outbox'[j] = outbox[j]
               /\ \A j \in Participant : outbox[j] \subseteq Capture
               /\ turns' = turns + 1 /\ turns + 1 \in Turn
               /\ \A j \in Participant : known[j].last \in Nat /\ known[j].last <= turns
               /\ \A j \in Participant : \A c \in outbox[j] : c.turn \in Nat /\ c.turn <= turns
               /\ \A c \in outbox'[i] : c = new \/ c \in outbox[i]
               /\ new \notin batch
<1>1. /\ outbox \in [Participant -> SUBSET Capture] /\ known \in [Participant -> State]
      /\ turns \in 0..MaxTurns /\ MaxTurns \in Nat
  BY ConstantsAssumption DEF TypeOK, State
<1>2. turns' = turns + 1 /\ turns + 1 \in Turn
  BY <1>1 DEF TakeTurn, Turn
<1>3. \A j \in Participant : known[j].last \in Nat /\ known[j].last <= turns
  BY <1>1 DEF WaitingInOrder, State
<1>4. \A j \in Participant : outbox[j] \subseteq Capture /\ \A c \in outbox[j] : c.turn \in Nat /\ c.turn <= turns
  BY <1>1 DEF WaitingInOrder, Capture, Turn
<1>. DEFINE new == [by |-> i, turn |-> turns + 1, group |-> prompt.group, seq |-> prompt.seq, id |-> prompt.id]
<1>5. outbox' = [outbox EXCEPT ![i] = @ \cup {new}]
  BY DEF TakeTurn
<1>6. new.turn = turns + 1
  OBVIOUS
<1>. HIDE DEF new
<1>7. /\ outbox'[i] = outbox[i] \cup {new}
      /\ \A j \in Participant : j # i => outbox'[j] = outbox[j]
  BY <1>1, <1>5
<1>8. new \notin batch
  <2>1. ASSUME new \in batch PROVE FALSE
    <3>1. batch \subseteq Capture /\ \A c \in batch : c \in outbox[c.by]
      BY DEF TypeOK, WaitingInOrder
    <3>2. new.by \in Participant
      BY <2>1, <3>1 DEF Capture
    <3>. QED  BY <1>1, <1>4, <1>6, <2>1, <3>1, <3>2
  <2>. QED  BY <2>1
<1>. QED  BY <1>2, <1>3, <1>4, <1>7, <1>8 DEF new

LEMMA Dropped ==
    ASSUME TypeOK, WaitingInOrder, pc \in Handling, DropCapture
    PROVE  /\ outbox'[cur.by] = outbox[cur.by] \ {cur}
           /\ \A j \in Participant : j # cur.by => outbox'[j] = outbox[j]
           /\ \A j \in Participant : outbox'[j] \subseteq outbox[j]
           /\ batch' = batch \ {cur}
           /\ \A j \in Participant : cur \notin outbox'[j]
<1>1. cur.by \in Participant /\ outbox \in [Participant -> SUBSET Capture]
  BY AtHand DEF TypeOK
<1>2. /\ outbox'[cur.by] = outbox[cur.by] \ {cur}
      /\ \A j \in Participant : j # cur.by => outbox'[j] = outbox[j]
  BY <1>1 DEF DropCapture
<1>3. \A j \in Participant : j # cur.by => cur \notin outbox[j]
  BY DEF WaitingInOrder
<1>. QED  BY <1>2, <1>3 DEF DropCapture

LEMMA OrderFramed ==
    ASSUME WaitingInOrder, turns' = turns, outbox' = outbox, batch' = batch,
           \A i \in Participant : known'[i].last = known[i].last,
           pc' \in Handling => batch # {}
    PROVE  WaitingInOrder'
BY DEF WaitingInOrder

LEMMA WaitingInOrderKept ==
    TypeOK /\ WaitingInOrder /\ ToldOnce /\ [Next]_vars => WaitingInOrder'
<1>. SUFFICES ASSUME TypeOK, WaitingInOrder, ToldOnce, [Next]_vars
              PROVE  WaitingInOrder'
  OBVIOUS
<1>0. /\ outbox \in [Participant -> SUBSET Capture] /\ known \in [Participant -> State]
      /\ batch \subseteq Capture /\ turns \in Nat
      /\ \A c \in Capture : c.turn \in Nat /\ c.by \in Participant
      /\ pc \in Handling => batch # {}
  BY ConstantsAssumption DEF TypeOK, State, Capture, Turn, WaitingInOrder
<1>1. ASSUME NEW i \in Participant, NEW prompt, TakeTurn(i, prompt)
      PROVE  WaitingInOrder'
  <2>. DEFINE new == [by |-> i, turn |-> turns + 1, group |-> prompt.group, seq |-> prompt.seq, id |-> prompt.id]
  <2>1. /\ outbox'[i] = outbox[i] \cup {new}
        /\ \A j \in Participant : j # i => outbox'[j] = outbox[j]
        /\ turns' = turns + 1
        /\ \A j \in Participant : known[j].last \in Nat /\ known[j].last <= turns
        /\ \A j \in Participant : \A c \in outbox[j] : c.turn \in Nat /\ c.turn <= turns
        /\ new \notin batch
    BY <1>1, TurnTaken
  <2>2. known' = known /\ batch' = batch /\ pc' = pc
    BY <1>1 DEF TakeTurn, hub
  <2>3. new.by = i /\ new.turn = turns + 1
    OBVIOUS
  <2>. HIDE DEF new
  <2>4. \A j \in Participant : \A c \in outbox'[j] : (c = new /\ j = i) \/ (c \in outbox[j] /\ c # new)
    BY <1>0, <2>1, <2>3
  <2>5. (\A j \in Participant : known[j].last <= turns)'
    BY <1>0, <2>1, <2>2
  <2>6. (\A j \in Participant : \A c \in outbox[j] : c.by = j /\ c.turn <= turns /\ known[j].last <= c.turn)'
    BY <1>0, <2>1, <2>2, <2>3, <2>4 DEF WaitingInOrder
  <2>7. (\A j, k \in Participant : \A c \in outbox[j], d \in outbox[k] : c.turn = d.turn => c = d)'
    <3>1. ASSUME NEW j \in Participant, NEW k \in Participant, NEW c \in outbox'[j], NEW d \in outbox'[k],
                 c.turn = d.turn
          PROVE  c = d
      BY <1>0, <2>1, <2>3, <2>4, <3>1 DEF WaitingInOrder
    <3>. QED  BY <3>1
  <2>8. (\A c \in batch : c \in outbox[c.by])'
    BY <1>0, <2>1, <2>2 DEF WaitingInOrder
  <2>9. (\A c \in batch : \A d \in outbox[c.by] \ batch : c.turn < d.turn)'
    <3>1. ASSUME NEW c \in batch, NEW d \in outbox'[c.by], d \notin batch
          PROVE  c.turn < d.turn
      <4>1. c.by \in Participant /\ c \in outbox[c.by]
        BY <1>0 DEF WaitingInOrder
      <4>2. CASE d \in outbox[c.by]
        BY <3>1, <4>2 DEF WaitingInOrder
      <4>3. CASE d = new
        BY <1>0, <2>1, <2>3, <4>1, <4>3
      <4>. QED  BY <2>4, <4>1, <4>2, <4>3
    <3>. QED  BY <2>2, <3>1
  <2>. QED  BY <1>0, <2>2, <2>5, <2>6, <2>7, <2>8, <2>9 DEF WaitingInOrder
<1>2. ASSUME NEW i \in Participant, Answer(i) \/ HumanTurn(i)
      PROVE  WaitingInOrder'
  BY <1>1, <1>2 DEF Answer, HumanTurn
<1>3. ASSUME NEW w \in Coworker, NEW g \in Group, Ask(w, g)
      PROVE  WaitingInOrder'
  BY <1>0, <1>3, LastKeptByAsk, OrderFramed DEF Ask, hub
<1>4. ASSUME NEW g \in Group, CloseByManager(g) \/ CloseByOperator(g)
      PROVE  WaitingInOrder'
  BY <1>0, <1>4, OrderFramed DEF CloseByManager, CloseByOperator, Close, hub, counters
<1>5. ASSUME NEW w \in Coworker, NEW g \in Group, ChangeMembership(w, g)
      PROVE  WaitingInOrder'
  BY <1>0, <1>5, OrderFramed DEF ChangeMembership, hub, counters
<1>6. CASE BeginPass
  <2>1. batch' = {} /\ pc' \notin Handling /\ UNCHANGED <<outbox, known, turns>>
    BY <1>6 DEF BeginPass, Goto, Handling, Routed, Cleared, Forwarding, tree, counters
  <2>. QED  BY <1>0, <2>1 DEF WaitingInOrder
<1>7. CASE NextCapture
  <2>1. UNCHANGED <<outbox, known, turns>>
    BY <1>7 DEF NextCapture, tree, counters
  <2>2. CASE batch' = batch /\ (pc' \in Handling => batch # {})
    BY <2>1, <2>2, OrderFramed
  <2>3. ASSUME NEW i \in Participant, batch' = outbox[i], pc' \notin Handling
        PROVE  WaitingInOrder'
    <3>1. \A c \in outbox[i] : c.by = i
      BY DEF WaitingInOrder
    <3>. QED  BY <2>1, <2>3, <3>1 DEF WaitingInOrder
  <2>. QED  BY <1>7, <2>2, <2>3 DEF NextCapture, Goto, Handling, Routed, Cleared, Forwarding, TypeOK
<1>8. CASE Decide \/ ConsumeStaged \/ JournalReply \/ Submit \/ StageNotification \/ InjectNotification \/ KeepLate \/ Notify
  <2>1. pc \in Handling /\ UNCHANGED <<outbox, known, turns, batch>>
    BY <1>8 DEF Decide, ConsumeStaged, JournalReply, Submit, StageNotification, InjectNotification, KeepLate, Notify,
                Handling, Routed, Cleared, Forwarding, tree, counters
  <2>. QED  BY <1>0, <2>1, OrderFramed
<1>9. CASE MarkManager \/ Remember
  <2>1. pc \in Handling /\ pc \in {"mark", "remember"} /\ UNCHANGED <<outbox, turns, batch>>
    BY <1>9 DEF MarkManager, Remember, Handling, Cleared, tree, counters
  <2>. QED  BY <1>0, <1>9, <2>1, LastKept, OrderFramed
<1>10. CASE ClearOutstanding
  <2>1. pc \in Handling /\ UNCHANGED <<outbox, turns, batch>>
    BY <1>10 DEF ClearOutstanding, Handling, Routed, tree, counters
  <2>2. /\ batch # {} /\ cur \in outbox[cur.by] /\ cur.by \in Participant /\ cur.turn \in Nat
        /\ \A c \in outbox[cur.by] : c # cur => cur.turn < c.turn
    BY <1>0, <2>1, CurIsOldest
  <2>3. \A c \in outbox[cur.by] : c.turn \in Nat /\ cur.turn <= c.turn
    BY <1>0, <2>2
  <2>4. cur.turn <= turns
    BY <2>2 DEF WaitingInOrder
  <2>5. known'[cur.by].last = cur.turn /\ \A i \in Participant : i # cur.by => known'[i] = known[i]
    BY <1>10, LastCleared
  <2>6. \A i \in Participant : known'[i].last <= turns /\ \A c \in outbox[i] : known'[i].last <= c.turn
    BY <2>2, <2>3, <2>4, <2>5 DEF WaitingInOrder
  <2>. QED  BY <2>1, <2>2, <2>6 DEF WaitingInOrder
<1>11. CASE Consume \/ Park
  <2>1. pc \in Handling /\ DropCapture /\ pc' \notin Handling /\ UNCHANGED <<known, turns>>
    BY <1>11 DEF Consume, Park, Goto, Handling, Routed, Cleared, Forwarding, counters
  <2>2. /\ outbox'[cur.by] = outbox[cur.by] \ {cur}
        /\ \A j \in Participant : j # cur.by => outbox'[j] = outbox[j]
        /\ \A j \in Participant : outbox'[j] \subseteq outbox[j]
        /\ batch' = batch \ {cur}
        /\ cur \in batch /\ cur.by \in Participant
    BY <2>1, Dropped, AtHand
  <2>3. (\A i, j \in Participant : \A c \in outbox[i], d \in outbox[j] : c.turn = d.turn => c = d)'
    BY <2>2 DEF WaitingInOrder
  <2>4. (\A i \in Participant : \A c \in outbox[i] : c.by = i /\ c.turn <= turns /\ known[i].last <= c.turn)'
    BY <2>1, <2>2 DEF WaitingInOrder
  <2>5. \A c \in batch' : c \in batch /\ c.by = cur.by /\ c \in outbox'[c.by]
    BY <2>2 DEF WaitingInOrder
  <2>6. \A c \in batch' : \A d \in outbox'[c.by] \ batch' : c.turn < d.turn
    BY <2>2, <2>5 DEF WaitingInOrder
  <2>7. (\A c, d \in batch : c.by = d.by)' /\ (\A i \in Participant : known[i].last <= turns)'
    BY <2>1, <2>5 DEF WaitingInOrder
  <2>. QED  BY <2>1, <2>3, <2>4, <2>5, <2>6, <2>7 DEF WaitingInOrder
<1>12. CASE Crash
  <2>1. batch' = {} /\ pc' \notin Handling /\ UNCHANGED <<outbox, known, turns>>
    BY <1>12 DEF Crash, Goto, Handling, Routed, Cleared, Forwarding, tree
  <2>. QED  BY <2>1 DEF WaitingInOrder
<1>13. CASE Restart
  <2>1. batch' = batch /\ pc' \notin Handling /\ UNCHANGED <<outbox, known, turns>>
    BY <1>13 DEF Restart, Goto, Handling, Routed, Cleared, Forwarding, tree, counters
  <2>. QED  BY <2>1, OrderFramed
<1>14. CASE UNCHANGED vars
  BY <1>0, <1>14, OrderFramed DEF vars, tree, hub, counters
<1>. QED
  BY <1>2, <1>3, <1>4, <1>5, <1>6, <1>7, <1>8, <1>9, <1>10, <1>11, <1>12, <1>13, <1>14 DEF Next, HubStep
-----------------------------------------------------------------------------
LEMMA SettledFramed ==
    ASSUME TypeOK, ToldSettled, told' = told, turns' \in Nat, turns <= turns',
           \A t \in Turn : logged[t] > 0 => logged'[t] > 0, kept \subseteq kept',
           \A i \in Participant : outbox'[i] \subseteq outbox[i] /\ known'[i].last = known[i].last
    PROVE  ToldSettled'
<1>1. Turn \subseteq Nat /\ turns \in Nat
  BY ConstantsAssumption DEF TypeOK, Turn
<1>2. \A t \in Turn : told[t] > 0 => t \in Nat /\ t <= turns /\ logged'[t] > 0 /\ t \in kept'
  BY <1>1 DEF ToldSettled
<1>3. \A t \in Turn : told[t] > 0 => t <= turns'
  BY <1>1, <1>2
<1>4. \A i \in Participant : \A c \in outbox'[i] : told[c.turn] > 0 => known'[i].last = c.turn
  BY DEF ToldSettled
<1>5. \A t \in Turn : told[t] <= 1
  BY DEF ToldSettled
<1>. QED  BY <1>2, <1>3, <1>4, <1>5 DEF ToldSettled

LEMMA OutOfTurn == ASSUME pc' \notin Routed \cup Cleared PROVE ToldInTurn'
BY DEF ToldInTurn, Routed, Cleared, Forwarding

LEMMA ToldOnceKept ==
    TypeOK /\ WaitingInOrder /\ ToldOnce /\ StagedInOrder /\ [Next]_vars => ToldOnce'
<1>. SUFFICES ASSUME TypeOK, WaitingInOrder, ToldOnce, StagedInOrder, [Next]_vars
              PROVE  ToldOnce'
  OBVIOUS
<1>. USE DEF ToldOnce
<1>0. /\ told \in [Turn -> Nat] /\ logged \in [Turn -> Nat] /\ known \in [Participant -> State]
      /\ Turn \subseteq Nat /\ turns \in Nat /\ outbox \in [Participant -> SUBSET Capture]
      /\ \A c \in Capture : c.turn \in Turn
  BY ConstantsAssumption DEF TypeOK, State, Turn, Capture
<1>1. ASSUME NEW i \in Participant, NEW prompt, TakeTurn(i, prompt), staged' = staged
      PROVE  ToldOnce'
  <2>. DEFINE new == [by |-> i, turn |-> turns + 1, group |-> prompt.group, seq |-> prompt.seq, id |-> prompt.id]
  <2>1. /\ outbox'[i] = outbox[i] \cup {new}
        /\ \A j \in Participant : j # i => outbox'[j] = outbox[j]
        /\ turns' = turns + 1 /\ turns + 1 \in Turn
    BY <1>1, TurnTaken
  <2>2. /\ UNCHANGED <<told, logged, kept, known, pc, snap, todo, batch>>
    BY <1>1 DEF TakeTurn, hub, logs
  <2>3. new.turn = turns + 1
    OBVIOUS
  <2>. HIDE DEF new
  <2>4. told[new.turn] = 0
    BY <1>0, <2>1, <2>3 DEF ToldSettled
  <2>5. (\A j \in Participant : \A c \in outbox[j] : told[c.turn] > 0 => known[j].last = c.turn)'
    BY <1>0, <2>1, <2>2, <2>4 DEF ToldSettled
  <2>6. ToldSettled'
    BY <1>0, <2>1, <2>2, <2>5 DEF ToldSettled
  <2>7. ToldInTurn'
    BY <1>1, <2>2, CurStays DEF ToldInTurn
  <2>. QED  BY <2>6, <2>7
<1>2. ASSUME NEW i \in Participant, Answer(i) \/ HumanTurn(i)
      PROVE  ToldOnce'
  BY <1>1, <1>2 DEF Answer, HumanTurn, TakeTurn
<1>3. ASSUME NEW w \in Coworker, NEW g \in Group, Ask(w, g)
      PROVE  ToldOnce'
  <2>1. pc' \notin Routed \cup Cleared
    BY <1>3 DEF Ask, hub, Routed, Cleared, Forwarding
  <2>2. ToldSettled'
    BY <1>0, <1>3, LastKeptByAsk, SettledFramed DEF Ask
  <2>. QED  BY <2>1, <2>2, OutOfTurn
<1>4. ASSUME UNCHANGED <<staged, outbox, known, pc, snap, batch, logged, told, kept, turns>>
      PROVE  ToldOnce'
  <2>1. ToldSettled'
    BY <1>0, <1>4, SettledFramed
  <2>2. ToldInTurn'
    BY <1>4, CurStays DEF ToldInTurn
  <2>. QED  BY <2>1, <2>2
<1>5. ASSUME NEW g \in Group, CloseByManager(g) \/ CloseByOperator(g)
      PROVE  ToldOnce'
  BY <1>4, <1>5 DEF CloseByManager, CloseByOperator, Close, hub, logs, counters
<1>6. ASSUME NEW w \in Coworker, NEW g \in Group, ChangeMembership(w, g)
      PROVE  ToldOnce'
  BY <1>4, <1>6 DEF ChangeMembership, hub, logs, counters
<1>7. CASE BeginPass \/ NextCapture \/ Crash \/ Restart
  <2>1. pc' \notin Routed \cup Cleared /\ UNCHANGED <<outbox, known, turns, logged, told, kept>>
    BY <1>7 DEF BeginPass, NextCapture, Crash, Restart, Goto, Routed, Cleared, Forwarding, tree, logs, counters
  <2>2. ToldSettled'
    BY <1>0, <2>1, SettledFramed
  <2>. QED  BY <2>1, <2>2, OutOfTurn
<1>8. CASE Decide
  <2>1. UNCHANGED <<tree, known, snap, todo, batch, logs, counters>> /\ pc = "decide"
    BY <1>8 DEF Decide
  <2>2. ToldSettled' /\ cur' = cur
    BY <1>0, <2>1, SettledFramed, CurStays DEF tree, logs, counters
  <2>3. cur \in outbox[cur.by] /\ cur.by \in Participant /\ cur.turn \in Turn
    BY <2>1, AtHand DEF Handling
  <2>4. CASE pc' = "unstage"
    <3>1. cur.turn # known[cur.by].last /\ cur.group # NoGroup
      BY <1>8, <2>4 DEF Decide, Goto
    <3>2. told[cur.turn] = 0
      <4>1. told[cur.turn] \in Nat /\ ~(told[cur.turn] > 0)
        BY <1>0, <2>3, <3>1 DEF ToldSettled
      <4>. QED  BY <4>1
    <3>. QED  BY <2>1, <2>2, <2>4, <3>1, <3>2 DEF ToldInTurn, Routed, Cleared, Forwarding, logs
  <2>5. CASE pc' = "consume"
    BY <2>2, <2>5, OutOfTurn DEF Routed, Cleared, Forwarding
  <2>. QED  BY <1>8, <2>4, <2>5 DEF Decide, Goto
<1>9. CASE ConsumeStaged
  <2>1. /\ pc = "unstage" /\ pc' = "journal"
        /\ UNCHANGED <<outbox, known, snap, batch, logged, told, kept, turns>>
    BY <1>9 DEF ConsumeStaged, Goto, logs, counters
  <2>2. ToldSettled' /\ cur' = cur
    BY <1>0, <2>1, SettledFramed, CurStays
  <2>. QED  BY <2>1, <2>2 DEF ToldInTurn, Routed, Cleared, Forwarding
<1>10. CASE JournalReply
  <2>1. /\ pc = "journal" /\ pc' = "clear" /\ logged' = [logged EXCEPT ![cur.turn] = @ + 1]
        /\ UNCHANGED <<outbox, known, snap, batch, told, kept, turns>>
    BY <1>10 DEF JournalReply, Goto, tree, counters
  <2>2. cur.turn \in Turn
    BY <2>1, AtHand DEF Handling, Routed
  <2>3. logged'[cur.turn] > 0 /\ \A t \in Turn : logged[t] > 0 => logged'[t] > 0
    <3>1. \A t \in Turn : logged[t] \in Nat /\ logged'[t] = IF t = cur.turn THEN logged[t] + 1 ELSE logged[t]
      BY <1>0, <2>1
    <3>. QED  BY <2>2, <3>1
  <2>4. ToldSettled' /\ cur' = cur
    BY <1>0, <2>1, <2>3, SettledFramed, CurStays
  <2>. QED  BY <2>1, <2>3, <2>4 DEF ToldInTurn, Routed, Cleared, Forwarding
<1>11. CASE ClearOutstanding
  <2>1. /\ pc = "clear" /\ UNCHANGED <<outbox, snap, batch, logged, told, kept, turns>>
        /\ pc' = IF cur.by = Manager THEN "consume"
                 ELSE IF cur.by \notin snap.members[cur.group] THEN "notify"
                 ELSE IF snap.status[cur.group] = "closed" THEN "keep" ELSE "submit"
    BY <1>11 DEF ClearOutstanding, Goto, tree, logs, counters
  <2>2. /\ cur.by \in Participant /\ known'[cur.by].last = cur.turn
        /\ \A i \in Participant : i # cur.by => known'[i] = known[i]
    BY <1>11, LastCleared
  <2>3. cur \in outbox[cur.by] /\ cur.turn \in Turn /\ cur.group \in Group
    BY <2>1, AtHand DEF Handling, Routed
  <2>4. \A c \in outbox[cur.by] : c # cur => cur.turn < c.turn
    BY <2>1, CurIsOldest DEF WaitingInOrder, Handling, Routed
  <2>5. told[cur.turn] = 0 /\ logged[cur.turn] > 0 /\ cur.group # NoGroup
    BY <2>1 DEF ToldInTurn, Routed
  <2>6. \A c \in outbox[cur.by] : ~(told[c.turn] > 0)
    <3>1. ASSUME NEW c \in outbox[cur.by], told[c.turn] > 0, c # cur
          PROVE  FALSE
      <4>1. known[cur.by].last = c.turn
        BY <2>2, <3>1 DEF ToldSettled
      <4>2. known[cur.by].last <= cur.turn
        BY <2>2, <2>3 DEF WaitingInOrder
      <4>3. c.turn \in Nat /\ cur.turn \in Nat
        BY <1>0, <2>2, <2>3
      <4>. QED  BY <2>4, <3>1, <4>1, <4>2, <4>3
    <3>. QED  BY <1>0, <2>5, <3>1
  <2>7. \A i \in Participant : \A c \in outbox[i] : told[c.turn] > 0 => known'[i].last = c.turn
    BY <2>2, <2>6 DEF ToldSettled
  <2>8. ToldSettled'
    BY <2>1, <2>7 DEF ToldSettled
  <2>9. snap.status[cur.group] \in {"active", "closed"} /\ cur' = cur
    BY <2>1, <2>3, CurStays DEF TypeOK
  <2>10. pc' \in Cleared => cur.by \in Coworker
    BY <2>1, <2>2 DEF Participant, Cleared, Forwarding
  <2>11. /\ pc' \in {"consume", "notify", "keep", "submit"}
         /\ pc' = "submit" => snap.status[cur.group] = "active"
    BY <2>1, <2>9
  <2>12. ToldInTurn'
    BY <2>1, <2>2, <2>5, <2>9, <2>10, <2>11 DEF ToldInTurn, Routed, Cleared, Forwarding
  <2>. QED  BY <2>8, <2>12
<1>12. CASE Submit \/ KeepLate
  <2>1. /\ pc \in {"submit", "keep"} /\ pc' = IF pc = "submit" THEN "stage" ELSE "notify"
        /\ UNCHANGED <<outbox, known, snap, batch, logged, told, turns>> /\ kept' = kept \cup {cur.turn}
    BY <1>12 DEF Submit, KeepLate, TakeFiles, Goto, tree, counters
  <2>2. ToldSettled' /\ cur' = cur
    BY <1>0, <2>1, SettledFramed, CurStays
  <2>. QED  BY <2>1, <2>2 DEF ToldInTurn, Routed, Cleared, Forwarding
<1>13. CASE StageNotification
  <2>1. /\ pc = "stage" /\ pc' = "inject"
        /\ staged' = WithMessage(Manager, cur.group, NextSeq(Manager, cur.group), MaxSends + cur.turn)
        /\ UNCHANGED <<outbox, known, snap, batch, logged, told, kept, turns>>
    BY <1>13 DEF StageNotification, Goto, logs, counters
  <2>2. ToldSettled' /\ cur' = cur
    BY <1>0, <2>1, SettledFramed, CurStays
  <2>3. cur.group \in Group /\ MaxSends + cur.turn \in Nat \ {0} /\ Manager \in Participant
    BY <1>0, <2>1, AtHand, ConstantsAssumption DEF Handling, Cleared, Forwarding, Participant
  <2>4. [seq |-> NextSeq(Manager, cur.group), id |-> MaxSends + cur.turn] \in staged'[Manager][cur.group]
    BY <2>1, <2>3, Staging DEF TypeOK
  <2>5. \E m \in staged'[Manager][cur.group] : m.id = MaxSends + cur.turn
    BY <2>4
  <2>. QED  BY <2>1, <2>2, <2>5 DEF ToldInTurn, Routed, Cleared, Forwarding
<1>14. CASE InjectNotification
  <2>1. /\ pc = "inject" /\ UNCHANGED <<outbox, known, snap, batch, logged, kept, turns>>
        /\ \/ pc' = "mark" /\ told' = [told EXCEPT ![cur.turn] = @ + 1]
           \/ pc' = "consume" /\ told' = told
    BY <1>14 DEF InjectNotification, Goto, counters
  <2>2. CASE pc' = "consume" /\ told' = told
    BY <1>0, <2>1, <2>2, SettledFramed, OutOfTurn DEF Routed, Cleared, Forwarding
  <2>3. ASSUME pc' = "mark", told' = [told EXCEPT ![cur.turn] = @ + 1]
        PROVE  ToldOnce'
    <3>1. /\ cur \in outbox[cur.by] /\ cur.by \in Participant /\ cur.turn \in Turn
          /\ cur.by \in Coworker /\ cur' = cur
      BY <2>1, AtHand, CurStays DEF Handling, Cleared, Forwarding
    <3>2. /\ told[cur.turn] = 0 /\ logged[cur.turn] > 0 /\ cur.turn \in kept /\ known[cur.by].last = cur.turn
          /\ cur.group # NoGroup
      BY <2>1 DEF ToldInTurn, Cleared, Forwarding
    <3>3. cur.turn <= turns
      BY <3>1 DEF WaitingInOrder
    <3>4. told'[cur.turn] = 1 /\ \A t \in Turn : t # cur.turn => told'[t] = told[t]
      BY <1>0, <2>3, <3>1, <3>2
    <3>5. \A t \in Turn : told'[t] <= 1 /\ (told'[t] > 0 => t <= turns /\ logged[t] > 0 /\ t \in kept)
      BY <3>2, <3>3, <3>4 DEF ToldSettled
    <3>6. \A i \in Participant : \A c \in outbox[i] : told'[c.turn] > 0 => known[i].last = c.turn
      <4>1. ASSUME NEW i \in Participant, NEW c \in outbox[i], told'[c.turn] > 0
            PROVE  known[i].last = c.turn
        <5>1. CASE c.turn = cur.turn
          <6>1. c = cur /\ c.by = i
            BY <3>1, <5>1 DEF WaitingInOrder
          <6>. QED  BY <3>2, <6>1
        <5>2. CASE c.turn # cur.turn
          BY <1>0, <3>4, <4>1, <5>2 DEF ToldSettled
        <5>. QED  BY <5>1, <5>2
      <4>. QED  BY <4>1
    <3>. QED  BY <2>1, <2>3, <3>1, <3>2, <3>5, <3>6 DEF ToldSettled, ToldInTurn, Routed, Cleared, Forwarding
  <2>. QED  BY <2>1, <2>2, <2>3
<1>15. CASE MarkManager \/ Remember
  <2>1. /\ pc \in {"mark", "remember"} /\ pc' = "consume"
        /\ UNCHANGED <<outbox, snap, batch, logged, told, kept, turns>>
    BY <1>15 DEF MarkManager, Remember, Goto, tree, logs, counters
  <2>. QED  BY <1>0, <1>15, <2>1, LastKept, SettledFramed, OutOfTurn DEF Routed, Cleared, Forwarding
<1>16. CASE Notify
  <2>1. /\ pc = "notify" /\ pc' \in {"remember", "consume"}
        /\ UNCHANGED <<outbox, known, snap, batch, logged, told, kept, turns>>
    BY <1>16 DEF Notify, Goto, counters
  <2>2. ToldSettled' /\ cur' = cur
    BY <1>0, <2>1, SettledFramed, CurStays
  <2>. QED  BY <2>1, <2>2 DEF ToldInTurn, Routed, Cleared, Forwarding
<1>17. CASE Consume \/ Park
  <2>1. /\ pc \in Handling /\ DropCapture /\ pc' \notin Routed \cup Cleared
        /\ UNCHANGED <<known, logged, told, kept, turns>>
    BY <1>17 DEF Consume, Park, Goto, Handling, Routed, Cleared, Forwarding, logs, counters
  <2>2. \A i \in Participant : outbox'[i] \subseteq outbox[i]
    BY <2>1, Dropped
  <2>. QED  BY <1>0, <2>1, <2>2, SettledFramed, OutOfTurn
<1>18. CASE UNCHANGED vars
  BY <1>4, <1>18 DEF vars, tree, hub, logs, counters
<1>. QED
  BY <1>2, <1>3, <1>5, <1>6, <1>7, <1>8, <1>9, <1>10, <1>11, <1>12, <1>13, <1>14, <1>15, <1>16, <1>17, <1>18
  DEF Next, HubStep
-----------------------------------------------------------------------------
LEMMA StagedInOrderKept ==
    TypeOK /\ WaitingInOrder /\ ToldOnce /\ StagedInOrder /\ [Next]_vars => StagedInOrder'
<1>. SUFFICES ASSUME TypeOK, WaitingInOrder, ToldOnce, StagedInOrder, [Next]_vars
              PROVE  StagedInOrder'
  OBVIOUS
<1>0. /\ staged \in [Participant -> [Group -> SUBSET Message]] /\ \A m \in Message : m.seq \in Nat
      /\ Manager \in Participant /\ Coworker \subseteq Participant /\ sends \in Nat /\ MaxSends \in Nat
  BY ConstantsAssumption DEF TypeOK, Message, Participant
<1>1. ASSUME NEW i \in Participant, NEW g \in Group, NEW id \in Nat \ {0},
             staged' = WithMessage(i, g, NextSeq(i, g), id)
      PROVE  StagedInOrder'
  <2>. DEFINE new == [seq |-> NextSeq(i, g), id |-> id]
  <2>1. /\ NextSeq(i, g) \in Nat \ {0} /\ \A m \in staged[i][g] : m.seq < NextSeq(i, g)
        /\ staged' = [staged EXCEPT ![i][g] = @ \cup {new}]
    BY <1>1, Staging
  <2>2. new.seq = NextSeq(i, g)
    OBVIOUS
  <2>. HIDE DEF new
  <2>3. /\ staged'[i][g] = staged[i][g] \cup {new}
        /\ \A j \in Participant, h \in Group : j # i \/ h # g => staged'[j][h] = staged[j][h]
    BY <1>0, <2>1
  <2>4. \A m, n \in staged'[i][g] : m.seq = n.seq => m = n
    <3>1. \A m \in staged[i][g] : m.seq # new.seq
      BY <1>0, <2>1, <2>2
    <3>. QED  BY <2>3, <3>1 DEF StagedInOrder
  <2>5. \A m \in staged'[i][g] : m.seq <= NextSeq(i, g)
    BY <1>0, <2>1, <2>2, <2>3
  <2>6. ASSUME NEW j \in Participant, NEW h \in Group
        PROVE  /\ \A m, n \in staged'[j][h] : m.seq = n.seq => m = n
               /\ \E b \in Nat : \A m \in staged'[j][h] : m.seq <= b
    <3>1. CASE j = i /\ h = g
      BY <2>1, <2>4, <2>5, <3>1
    <3>2. CASE j # i \/ h # g
      BY <2>3, <3>2 DEF StagedInOrder
    <3>. QED  BY <3>1, <3>2
  <2>. QED  BY <2>6 DEF StagedInOrder
<1>2. ASSUME \A i \in Participant, g \in Group : staged'[i][g] \subseteq staged[i][g]
      PROVE  StagedInOrder'
  <2>1. ASSUME NEW i \in Participant, NEW g \in Group
        PROVE  /\ \A m, n \in staged'[i][g] : m.seq = n.seq => m = n
               /\ \E b \in Nat : \A m \in staged'[i][g] : m.seq <= b
    BY <1>2 DEF StagedInOrder
  <2>. QED  BY <2>1 DEF StagedInOrder
<1>3. ASSUME NEW w \in Coworker, NEW g \in Group, Ask(w, g)
      PROVE  StagedInOrder'
  BY <1>0, <1>1, <1>3 DEF Ask
<1>4. CASE ConsumeStaged
  <2>1. cur.by \in Participant /\ cur.group \in Group
    BY <1>4, AtHand DEF ConsumeStaged, Handling, Routed
  <2>2. staged' = [staged EXCEPT ![cur.by][cur.group] = {m \in @ : m.seq # cur.seq}]
    BY <1>4 DEF ConsumeStaged
  <2>. QED  BY <1>0, <1>2, <2>1, <2>2
<1>5. CASE StageNotification
  <2>1. cur.group \in Group /\ MaxSends + cur.turn \in Nat \ {0}
    BY <1>0, <1>5, AtHand DEF StageNotification, Handling, Cleared, Forwarding
  <2>. QED  BY <1>0, <1>1, <1>5, <2>1 DEF StageNotification
<1>6. CASE UNCHANGED staged
  BY <1>2, <1>6
<1>. QED
  BY <1>3, <1>4, <1>5, <1>6
  DEF Next, HubStep, Answer, HumanTurn, TakeTurn, CloseByManager, CloseByOperator, Close, ChangeMembership,
      BeginPass, NextCapture, Decide, JournalReply, ClearOutstanding, Submit, InjectNotification, MarkManager,
      KeepLate, Notify, Remember, Consume, Park, Crash, Restart, vars, tree

-----------------------------------------------------------------------------
LEMMA NoticesCountedKept ==
    TypeOK /\ WaitingInOrder /\ ToldOnce /\ NoticesCounted /\ [Next]_vars => NoticesCounted'
<1>. SUFFICES ASSUME TypeOK, WaitingInOrder, ToldOnce, NoticesCounted, [Next]_vars
              PROVE  NoticesCounted'
  OBVIOUS
<1>0. /\ known \in [Participant -> State] /\ notices \in [Coworker -> [Group -> Nat]]
      /\ Coworker \subseteq Participant /\ Manager \in Participant /\ Manager \notin Coworker
      /\ crashes \in Nat
  BY ConstantsAssumption DEF TypeOK, State, Participant
<1>1. ASSUME notices' = notices, crashes' = crashes, \A w \in Coworker : known'[w].noticed = known[w].noticed,
             pc # "remember" \/ (pc' = pc /\ batch' = batch)
      PROVE  NoticesCounted'
  BY <1>1, CurStays DEF NoticesCounted
<1>2. ASSUME NEW i \in Participant, NEW prompt, TakeTurn(i, prompt)
      PROVE  NoticesCounted'
  BY <1>1, <1>2 DEF TakeTurn, hub, logs
<1>3. ASSUME NEW i \in Participant, Answer(i) \/ HumanTurn(i)
      PROVE  NoticesCounted'
  BY <1>2, <1>3 DEF Answer, HumanTurn
<1>4. ASSUME NEW w \in Coworker, NEW g \in Group, Ask(w, g)
      PROVE  NoticesCounted'
  <2>1. pc = "control" /\ UNCHANGED <<pc, crashes>>
    BY <1>4 DEF Ask, hub
  <2>2. CASE UNCHANGED <<prompts, known, notices>>
    BY <1>1, <2>1, <2>2
  <2>3. CASE known' = MarkedOutstanding(w, g) /\ notices' = [notices EXCEPT ![w] = [h \in Group |-> 0]]
    <3>1. \A v \in Coworker : v # w => known'[v] = known[v]
      BY <1>0, <2>3, Marked
    <3>2. /\ \A h \in Group : notices'[w][h] = 0
          /\ \A v \in Coworker : v # w => notices'[v] = notices[v]
      BY <1>0, <2>3
    <3>3. ASSUME NEW v \in Coworker, NEW h \in Group
          PROVE  /\ notices'[v][h] <= 1 + crashes
                 /\ h \notin known'[v].noticed => notices'[v][h] <= crashes
      <4>1. CASE v = w
        BY <1>0, <3>2, <4>1
      <4>2. CASE v # w
        BY <2>1, <3>1, <3>2, <4>2 DEF NoticesCounted
      <4>. QED  BY <4>1, <4>2
    <3>. QED  BY <2>1, <3>3 DEF NoticesCounted
  <2>. QED  BY <1>4, <2>2, <2>3 DEF Ask
<1>5. CASE \/ BeginPass \/ NextCapture \/ Decide \/ ConsumeStaged \/ JournalReply \/ Submit \/ StageNotification
           \/ InjectNotification \/ KeepLate \/ Consume \/ Park \/ Restart
  <2>1. pc # "remember" /\ UNCHANGED <<notices, known, crashes>>
    BY <1>5 DEF BeginPass, NextCapture, Decide, ConsumeStaged, JournalReply, Submit, StageNotification,
                InjectNotification, KeepLate, Consume, Park, Restart, tree, logs, counters
  <2>. QED  BY <1>1, <2>1
<1>6. CASE ClearOutstanding
  <2>1. pc # "remember" /\ UNCHANGED <<notices, crashes>>
    BY <1>6 DEF ClearOutstanding, logs, counters
  <2>2. \A w \in Coworker : known'[w].noticed = known[w].noticed
    BY <1>0, <1>6, LastCleared
  <2>. QED  BY <1>1, <2>1, <2>2
<1>7. CASE MarkManager
  <2>1. pc = "mark" /\ UNCHANGED <<notices, crashes>> /\ known' = MarkedOutstanding(Manager, cur.group)
    BY <1>7 DEF MarkManager, logs, counters
  <2>2. cur.group \in Group
    BY <2>1, AtHand DEF Handling, Cleared
  <2>3. \A w \in Coworker : known'[w] = known[w]
    BY <1>0, <2>1, <2>2, Marked
  <2>. QED  BY <1>1, <2>1, <2>3
<1>8. CASE Notify
  <2>1. pc = "notify" /\ UNCHANGED <<known, batch, crashes>>
    BY <1>8 DEF Notify, counters
  <2>2. CASE UNCHANGED notices
    BY <1>1, <2>1, <2>2
  <2>3. CASE /\ cur.group \notin known[cur.by].noticed /\ pc' = "remember"
             /\ notices' = [notices EXCEPT ![cur.by][cur.group] = @ + 1]
    <3>1. cur.by \in Coworker /\ cur.group \in Group /\ cur' = cur
      BY <2>1, AtHand, CurStays DEF Handling, Cleared
    <3>2. \A w \in Coworker, g \in Group :
             notices'[w][g] = IF w = cur.by /\ g = cur.group THEN notices[w][g] + 1 ELSE notices[w][g]
      BY <1>0, <2>3, <3>1
    <3>3. ASSUME NEW w \in Coworker, NEW g \in Group
          PROVE  /\ notices'[w][g] <= 1 + crashes
                 /\ g \notin known[w].noticed /\ ~(cur.by = w /\ cur.group = g) => notices'[w][g] <= crashes
      <4>1. notices[w][g] \in Nat
        BY <1>0
      <4>2. CASE w = cur.by /\ g = cur.group
        <5>1. notices[w][g] <= crashes
          BY <2>1, <2>3, <4>2 DEF NoticesCounted
        <5>. QED  BY <1>0, <3>2, <4>1, <4>2, <5>1
      <4>3. CASE ~(w = cur.by /\ g = cur.group)
        BY <2>1, <3>2, <4>3 DEF NoticesCounted
      <4>. QED  BY <4>2, <4>3
    <3>. QED  BY <2>1, <2>3, <3>1, <3>3 DEF NoticesCounted
  <2>. QED  BY <1>8, <2>2, <2>3 DEF Notify, Goto
<1>9. CASE Remember
  <2>1. pc = "remember" /\ pc' = "consume" /\ UNCHANGED <<notices, batch, crashes>>
    BY <1>9 DEF Remember, Goto, logs, counters
  <2>2. cur.by \in Coworker /\ cur.group \in Group
    BY <2>1, AtHand DEF Handling, Cleared
  <2>3. /\ known'[cur.by].noticed = known[cur.by].noticed \cup {cur.group}
        /\ \A w \in Coworker : w # cur.by => known'[w] = known[w]
    BY <1>0, <1>9, <2>2, Remembered DEF Remember
  <2>. QED  BY <2>1, <2>2, <2>3 DEF NoticesCounted
<1>10. CASE Crash
  <2>1. crashes' = crashes + 1 /\ UNCHANGED <<notices, known>>
    BY <1>10 DEF Crash, logs
  <2>2. \A w \in Coworker, g \in Group : notices[w][g] \in Nat /\ notices[w][g] <= 1 + crashes
    BY <1>0 DEF NoticesCounted
  <2>. QED  BY <1>0, <2>1, <2>2 DEF NoticesCounted
<1>11. CASE UNCHANGED <<notices, crashes, known, pc, batch>>
  BY <1>1, <1>11
<1>. QED
  BY <1>3, <1>4, <1>5, <1>6, <1>7, <1>8, <1>9, <1>10, <1>11
  DEF Next, HubStep, CloseByManager, CloseByOperator, Close, ChangeMembership, vars, tree, hub, logs, counters
-----------------------------------------------------------------------------
LEMMA ReplayedFramed ==
    ASSUME Replayed, crashes' = crashes, \A t \in Turn : logged[t] > 0 => logged'[t] > 0,
           \A i \in Participant : /\ outbox'[i] \subseteq outbox[i] /\ known'[i].last = known[i].last
                                  /\ \A c \in outbox[i] : c.turn \in Turn,
           \/ pc \notin Settled
           \/ pc' \in Settled /\ batch' = batch
           \/ \A i \in Participant : cur \notin outbox'[i]
    PROVE  Replayed'
<1>1. pc' \in Settled /\ batch' = batch => cur' = cur
  BY CurStays
<1>. SUFFICES ASSUME NEW i \in Participant, NEW c \in outbox'[i], known'[i].last = c.turn
              PROVE  logged'[c.turn] > 0 /\ (crashes' > 0 \/ (pc' \in Settled /\ c = cur'))
  BY DEF Replayed
<1>2. c \in outbox[i] /\ known[i].last = c.turn /\ c.turn \in Turn
  OBVIOUS
<1>3. logged[c.turn] > 0 /\ (crashes > 0 \/ (pc \in Settled /\ c = cur))
  BY <1>2 DEF Replayed
<1>. QED  BY <1>1, <1>2, <1>3

LEMMA AccountedKept ==
    TypeOK /\ WaitingInOrder /\ ToldOnce /\ Accounted /\ [Next]_vars => Accounted'
<1>. SUFFICES ASSUME TypeOK, WaitingInOrder, ToldOnce, Accounted, [Next]_vars
              PROVE  Accounted'
  OBVIOUS
<1>. USE DEF Accounted
<1>0. /\ told \in [Turn -> Nat] /\ logged \in [Turn -> Nat] /\ known \in [Participant -> State]
      /\ outbox \in [Participant -> SUBSET Capture] /\ crashes \in Nat /\ turns \in Nat
      /\ \A i \in Participant : outbox[i] \subseteq Capture /\ \A c \in outbox[i] : c.turn \in Turn
  BY ConstantsAssumption DEF TypeOK, State, Capture
<1>1. ASSUME NEW i \in Participant, NEW prompt, TakeTurn(i, prompt)
      PROVE  Accounted'
  <2>. DEFINE new == [by |-> i, turn |-> turns + 1, group |-> prompt.group, seq |-> prompt.seq, id |-> prompt.id]
  <2>1. /\ outbox'[i] = outbox[i] \cup {new}
        /\ \A j \in Participant : j # i => outbox'[j] = outbox[j]
        /\ \A j \in Participant : known[j].last \in Nat /\ known[j].last <= turns
    BY <1>1, TurnTaken
  <2>2. UNCHANGED <<told, logged, noted, known, pc, snap, batch, crashes>>
    BY <1>1 DEF TakeTurn, hub, logs
  <2>3. new.turn = turns + 1
    OBVIOUS
  <2>. HIDE DEF new
  <2>4. known[i].last # new.turn
    BY <1>0, <2>1, <2>3
  <2>. QED  BY <2>1, <2>2, <2>4, CurStays DEF Replayed, AccountedAtHand
<1>2. ASSUME NEW i \in Participant, Answer(i) \/ HumanTurn(i)
      PROVE  Accounted'
  BY <1>1, <1>2 DEF Answer, HumanTurn
<1>3. ASSUME UNCHANGED <<outbox, known, logged, told, noted, crashes, pc, snap, batch>>
      PROVE  Accounted'
  BY <1>3, CurStays DEF Replayed, AccountedAtHand
<1>4. ASSUME pc \notin Settled, pc' \notin Settled, UNCHANGED <<outbox, logged, crashes>>,
             \A i \in Participant : known'[i].last = known[i].last
      PROVE  Accounted'
  BY <1>0, <1>4, ReplayedFramed DEF AccountedAtHand, Settled, Cleared, Forwarding
<1>5. ASSUME NEW w \in Coworker, NEW g \in Group, Ask(w, g)
      PROVE  Accounted'
  <2>1. pc = "control" /\ UNCHANGED <<outbox, logged, crashes, pc>>
    BY <1>5 DEF Ask, hub
  <2>2. pc \notin Settled /\ pc' \notin Settled
    BY <2>1 DEF Settled, Cleared, Forwarding
  <2>. QED  BY <1>4, <1>5, <2>1, <2>2, LastKeptByAsk
<1>6. ASSUME NEW g \in Group, CloseByManager(g) \/ CloseByOperator(g)
      PROVE  Accounted'
  BY <1>3, <1>6 DEF CloseByManager, CloseByOperator, Close, hub, logs, counters
<1>7. ASSUME NEW w \in Coworker, NEW g \in Group, ChangeMembership(w, g)
      PROVE  Accounted'
  BY <1>3, <1>7 DEF ChangeMembership, hub, logs, counters
<1>8. CASE BeginPass \/ NextCapture \/ ConsumeStaged \/ Restart
  <2>1. pc \notin Settled /\ pc' \notin Settled /\ UNCHANGED <<outbox, known, logged, crashes>>
    BY <1>8 DEF BeginPass, NextCapture, ConsumeStaged, Restart, Goto, Settled, Cleared, Forwarding, tree, logs, counters
  <2>. QED  BY <1>4, <2>1
<1>9. CASE Decide
  <2>1. pc = "decide" /\ UNCHANGED <<outbox, known, snap, batch, logged, told, noted, crashes>>
    BY <1>9 DEF Decide, tree, logs, counters
  <2>2. pc \notin Settled /\ cur' = cur
    BY <2>1, CurStays DEF Settled, Cleared, Forwarding
  <2>3. Replayed'
    BY <1>0, <2>1, <2>2, ReplayedFramed
  <2>4. cur \in outbox[cur.by] /\ cur.by \in Participant
    BY <2>1, AtHand DEF Handling
  <2>5. known[cur.by].last = cur.turn => crashes > 0 /\ logged[cur.turn] > 0
    BY <2>2, <2>4 DEF Replayed
  <2>6. pc' = "unstage" \/ (pc' = "consume" /\ (cur.turn = known[cur.by].last \/ cur.group = NoGroup))
    BY <1>9 DEF Decide, Goto
  <2>. QED  BY <2>1, <2>2, <2>3, <2>5, <2>6 DEF AccountedAtHand
<1>10. CASE JournalReply
  <2>1. /\ pc = "journal" /\ pc' = "clear" /\ logged' = [logged EXCEPT ![cur.turn] = @ + 1]
        /\ UNCHANGED <<outbox, known, crashes>>
    BY <1>10 DEF JournalReply, Goto, tree, counters
  <2>2. \A t \in Turn : logged[t] > 0 => logged'[t] > 0
    <3>1. \A t \in Turn : logged[t] \in Nat /\ logged'[t] = IF t = cur.turn THEN logged[t] + 1 ELSE logged[t]
      BY <1>0, <2>1
    <3>. QED  BY <3>1
  <2>3. Replayed'
    BY <1>0, <2>1, <2>2, ReplayedFramed DEF Settled, Cleared, Forwarding
  <2>. QED  BY <2>1, <2>3 DEF AccountedAtHand
<1>11. CASE ClearOutstanding
  <2>1. /\ pc = "clear" /\ UNCHANGED <<outbox, snap, batch, logged, crashes>>
        /\ pc' = IF cur.by = Manager THEN "consume"
                 ELSE IF cur.by \notin snap.members[cur.group] THEN "notify"
                 ELSE IF snap.status[cur.group] = "closed" THEN "keep" ELSE "submit"
    BY <1>11 DEF ClearOutstanding, Goto, tree, logs, counters
  <2>2. /\ cur.by \in Participant /\ known'[cur.by].last = cur.turn
        /\ \A i \in Participant : i # cur.by => known'[i] = known[i]
    BY <1>11, LastCleared
  <2>3. pc' \in Settled /\ pc \notin Settled /\ cur' = cur /\ logged[cur.turn] > 0
    BY <2>1, CurStays DEF Settled, Cleared, Forwarding, ToldOnce, ToldInTurn
  <2>4. cur \in outbox[cur.by]
    BY <2>1, AtHand DEF Handling, Routed
  <2>5. ASSUME NEW i \in Participant, NEW c \in outbox[i], known'[i].last = c.turn
        PROVE  logged[c.turn] > 0 /\ (crashes > 0 \/ c = cur)
    <3>1. CASE i = cur.by
      <4>1. c = cur
        BY <2>2, <2>4, <2>5, <3>1 DEF WaitingInOrder
      <4>. QED  BY <2>3, <4>1
    <3>2. CASE i # cur.by
      BY <2>2, <2>3, <2>5, <3>2 DEF Replayed
    <3>. QED  BY <3>1, <3>2
  <2>6. Replayed'
    BY <2>1, <2>3, <2>5 DEF Replayed
  <2>7. AccountedAtHand'
    BY <2>1, <2>3, ConstantsAssumption DEF AccountedAtHand
  <2>. QED  BY <2>6, <2>7
<1>12. ASSUME pc' \in Settled, batch' = batch, UNCHANGED <<outbox, logged, crashes>>,
             \A i \in Participant : known'[i].last = known[i].last, AccountedAtHand'
      PROVE  Accounted'
  BY <1>0, <1>12, ReplayedFramed
<1>13. CASE Submit \/ StageNotification
  <2>1. /\ pc' \in {"stage", "inject"} /\ UNCHANGED <<outbox, known, batch, logged, crashes>>
    BY <1>13 DEF Submit, StageNotification, Goto, tree, logs, counters
  <2>. QED  BY <1>12, <2>1 DEF AccountedAtHand, Settled, Cleared, Forwarding
<1>14. CASE InjectNotification
  <2>1. /\ pc = "inject" /\ UNCHANGED <<outbox, known, batch, logged, crashes>>
        /\ \/ pc' = "mark" /\ told' = [told EXCEPT ![cur.turn] = @ + 1]
           \/ pc' = "consume" /\ noted' = noted \cup {cur.turn}
    BY <1>14 DEF InjectNotification, Goto, counters
  <2>2. cur' = cur /\ cur.turn \in Turn
    BY <2>1, AtHand, CurStays DEF Handling, Cleared, Forwarding
  <2>3. pc' = "mark" => told'[cur.turn] > 0
    <3>1. told[cur.turn] \in Nat
      BY <1>0, <2>2
    <3>. QED  BY <1>0, <2>1, <2>2, <3>1
  <2>4. AccountedAtHand'
    BY <2>1, <2>2, <2>3 DEF AccountedAtHand
  <2>. QED  BY <1>12, <2>1, <2>4 DEF Settled, Cleared
<1>15. CASE MarkManager \/ Remember
  <2>1. /\ pc \in {"mark", "remember"} /\ pc' = "consume"
        /\ UNCHANGED <<outbox, snap, batch, logged, told, noted, crashes>>
    BY <1>15 DEF MarkManager, Remember, Goto, tree, logs, counters
  <2>2. AccountedAtHand'
    BY <2>1, CurStays DEF AccountedAtHand
  <2>. QED  BY <1>12, <1>15, <2>1, <2>2, LastKept DEF Settled
<1>16. CASE KeepLate \/ Notify
  <2>1. /\ \/ pc = "keep" /\ pc' = "notify" /\ noted' = noted \cup {cur.turn}
           \/ pc = "notify" /\ pc' \in {"remember", "consume"} /\ noted' = noted
        /\ UNCHANGED <<outbox, known, snap, batch, logged, told, crashes>>
    BY <1>16 DEF KeepLate, Notify, Goto, tree, counters
  <2>2. AccountedAtHand'
    BY <2>1, CurStays DEF AccountedAtHand
  <2>. QED  BY <1>12, <2>1, <2>2 DEF Settled, Cleared
<1>17. CASE Consume \/ Park
  <2>1. /\ pc \in Handling /\ DropCapture /\ pc' = "next"
        /\ UNCHANGED <<known, logged, crashes>>
    BY <1>17 DEF Consume, Park, Goto, Handling, Routed, Cleared, Forwarding, logs, counters
  <2>2. \A i \in Participant : outbox'[i] \subseteq outbox[i] /\ cur \notin outbox'[i]
    BY <2>1, Dropped
  <2>3. Replayed'
    BY <1>0, <2>1, <2>2, ReplayedFramed
  <2>. QED  BY <2>1, <2>3 DEF AccountedAtHand
<1>18. CASE Crash
  <2>1. crashes' = crashes + 1 /\ pc' = "down" /\ UNCHANGED <<outbox, known, logged>>
    BY <1>18 DEF Crash, Goto, tree, logs
  <2>2. crashes' > 0
    BY <1>0, <2>1
  <2>. QED  BY <2>1, <2>2 DEF Replayed, AccountedAtHand
<1>19. CASE UNCHANGED vars
  BY <1>3, <1>19 DEF vars, tree, hub, logs, counters
<1>. QED
  BY <1>2, <1>5, <1>6, <1>7, <1>8, <1>9, <1>10, <1>11, <1>13, <1>14, <1>15, <1>16, <1>17, <1>18, <1>19
  DEF Next, HubStep
-----------------------------------------------------------------------------
LEMMA AnswersTyped ==
    ASSUME TypeOK, NEW i \in Participant
    PROVE  /\ prompts[i] \in Seq(Prompt)
           /\ \A k \in DOMAIN prompts[i] : prompts[i][k] \in Prompt
           /\ \A k \in PromptsOf(i) : prompts[i][k].group \in Group /\ prompts[i][k].id \in Nat
           /\ \A c \in RepliesOf(i) : c \in Capture /\ c.group \in Group /\ c.id \in Nat
<1>1. prompts[i] \in Seq(Prompt) /\ outbox[i] \subseteq Capture
  BY DEF TypeOK
<1>2. \A k \in DOMAIN prompts[i] : prompts[i][k] \in Prompt
  BY <1>1
<1>3. \A x \in Prompt : x.id \in Nat /\ (x.group # NoGroup => x.group \in Group)
  BY DEF Prompt
<1>4. \A c \in Capture : c.id \in Nat /\ (c.group # NoGroup => c.group \in Group)
  BY DEF Capture
<1>. QED  BY <1>1, <1>2, <1>3, <1>4 DEF PromptsOf, RepliesOf

LEMMA IssuedStays ==
    ASSUME TypeOK, \A t \in Turn : told[t] > 0 => told'[t] > 0, sends' \in Nat, sends <= sends',
           NEW i \in Participant, NEW id \in Nat, Issued(i, id)
    PROVE  Issued(i, id)'
<1>1. sends \in Nat
  BY DEF TypeOK
<1>. QED  BY <1>1 DEF Issued

\* A participant nothing is typed into, and from whom nothing is taken.
LEMMA InStepFramed ==
    ASSUME TypeOK, NEW i \in Participant, InStep(i), prompts'[i] = prompts[i], outbox'[i] \subseteq outbox[i],
           \A g \in Group : staged[i][g] \subseteq staged'[i][g],
           \A id \in Nat : Issued(i, id) => Issued(i, id)',
           pc \in Taken => cur \notin outbox'[i] \/ (pc' \in Taken /\ cur' = cur)
    PROVE  InStep(i)'
<1>1. PromptsOf(i)' = PromptsOf(i) /\ \A c \in RepliesOf(i)' : c \in outbox'[i] /\ c \in RepliesOf(i)
  BY DEF PromptsOf, RepliesOf
<1>2. \A k \in PromptsOf(i) : prompts[i][k].group \in Group /\ prompts[i][k].id \in Nat
  BY AnswersTyped
<1>3. \A c \in RepliesOf(i) : c.group \in Group /\ c.id \in Nat
  BY AnswersTyped
<1>4. (\A k \in PromptsOf(i) : /\ Answering(prompts[i][k]) \in staged[i][prompts[i][k].group]
                               /\ Issued(i, prompts[i][k].id))'
  <2>1. ASSUME NEW k \in PromptsOf(i)
        PROVE  Answering(prompts[i][k]) \in staged'[i][prompts[i][k].group] /\ Issued(i, prompts[i][k].id)'
    BY <1>2 DEF InStep
  <2>. QED  BY <1>1, <2>1 DEF Answering, Issued
<1>5. (\A c \in RepliesOf(i) : /\ Answering(c) \in staged[i][c.group] \/ (pc \in Taken /\ c = cur)
                               /\ Issued(i, c.id))'
  <2>1. ASSUME NEW c \in RepliesOf(i), c \in outbox'[i]
        PROVE  (Answering(c) \in staged'[i][c.group] \/ (pc' \in Taken /\ c = cur')) /\ Issued(i, c.id)'
    BY <1>3, <2>1 DEF InStep
  <2>. QED  BY <1>1, <2>1 DEF Answering, Issued
<1>. QED  BY <1>1, <1>4, <1>5 DEF InStep

\* Something is typed into i: a notice, or a message with a new identity.
LEMMA InStepTyped ==
    ASSUME TypeOK, NEW i \in Participant, InStep(i), NEW x \in Prompt,
           prompts'[i] = Append(prompts[i], x), outbox'[i] = outbox[i],
           \A g \in Group : staged[i][g] \subseteq staged'[i][g],
           \A id \in Nat : Issued(i, id) => Issued(i, id)',
           pc \in Taken => pc' \in Taken /\ cur' = cur,
           x.group # NoGroup => /\ Answering(x) \in staged'[i][x.group]
                                /\ Issued(i, x.id)' /\ ~Issued(i, x.id)
    PROVE  InStep(i)'
<1>. DEFINE n == Len(prompts[i]) + 1
<1>1. prompts[i] \in Seq(Prompt)
  BY AnswersTyped
<1>2. /\ DOMAIN prompts'[i] = DOMAIN prompts[i] \cup {n} /\ n \notin DOMAIN prompts[i]
      /\ prompts'[i][n] = x /\ \A k \in DOMAIN prompts[i] : prompts'[i][k] = prompts[i][k]
  BY <1>1
<1>. HIDE DEF n
<1>3. \A k \in PromptsOf(i)' : \/ k \in PromptsOf(i) /\ prompts'[i][k] = prompts[i][k]
                               \/ k = n /\ prompts'[i][k] = x /\ x.group # NoGroup
  BY <1>2 DEF PromptsOf
<1>4. RepliesOf(i)' = RepliesOf(i)
  BY DEF RepliesOf
<1>5. \A k \in PromptsOf(i) : prompts[i][k].group \in Group /\ prompts[i][k].id \in Nat
  BY AnswersTyped
<1>6. \A c \in RepliesOf(i) : c.group \in Group /\ c.id \in Nat
  BY AnswersTyped
<1>7. (\A k \in PromptsOf(i) : /\ Answering(prompts[i][k]) \in staged[i][prompts[i][k].group]
                               /\ Issued(i, prompts[i][k].id))'
  <2>1. ASSUME NEW k \in PromptsOf(i)
        PROVE  /\ Answering(prompts[i][k]) \in staged'[i][prompts[i][k].group]
               /\ \A id \in Nat : id = prompts[i][k].id => Issued(i, id)'
    <3>1. Answering(prompts[i][k]) \in staged[i][prompts[i][k].group] /\ Issued(i, prompts[i][k].id)
      BY DEF InStep
    <3>. QED  BY <1>5, <3>1
  <2>. QED  BY <1>3, <1>5, <2>1 DEF Answering, Issued
<1>8. (\A c \in RepliesOf(i) : /\ Answering(c) \in staged[i][c.group] \/ (pc \in Taken /\ c = cur)
                               /\ Issued(i, c.id))'
  <2>1. ASSUME NEW c \in RepliesOf(i)
        PROVE  (Answering(c) \in staged'[i][c.group] \/ (pc' \in Taken /\ c = cur')) /\ Issued(i, c.id)'
    BY <1>6, <2>1 DEF InStep
  <2>. QED  BY <1>4, <2>1 DEF Answering, Issued
<1>9. /\ x.group # NoGroup => \A k \in PromptsOf(i) : prompts[i][k].id # x.id
      /\ x.group # NoGroup => \A c \in RepliesOf(i) : c.id # x.id
  BY DEF InStep
<1>10. (\A k, l \in PromptsOf(i) : prompts[i][k].id = prompts[i][l].id => k = l)'
  BY <1>3, <1>9 DEF InStep
<1>11. (\A k \in PromptsOf(i), c \in RepliesOf(i) : prompts[i][k].id # c.id)'
  <2>1. ASSUME NEW k \in PromptsOf(i)', NEW c \in RepliesOf(i)'
        PROVE  prompts'[i][k].id # c.id
    <3>1. \A l \in PromptsOf(i) : prompts[i][l].id # c.id
      BY <1>4 DEF InStep
    <3>. QED  BY <1>3, <1>4, <1>9, <3>1
  <2>. QED  BY <2>1
<1>12. (\A c, d \in RepliesOf(i) : c.id = d.id => c = d)'
  BY <1>4 DEF InStep
<1>. QED  BY <1>7, <1>8, <1>10, <1>11, <1>12 DEF InStep
\* A turn that answers what was typed first: its capture takes over the
\* message the prompt pointed to.
LEMMA InStepAnswered ==
    ASSUME TypeOK, WaitingInOrder, NEW i \in Participant, InStep(i), Answer(i)
    PROVE  InStep(i)'
<1>1. PICK prompt \in Attributions(Head(prompts[i])) : TakeTurn(i, prompt)
  BY DEF Answer
<1>. DEFINE new == [by |-> i, turn |-> turns + 1, group |-> prompt.group, seq |-> prompt.seq, id |-> prompt.id]
            ps == prompts[i]
<1>2. outbox'[i] = outbox[i] \cup {new}
  BY <1>1, TurnTaken
<1>3. UNCHANGED <<staged, pc, batch, told, sends>> /\ cur' = cur
  BY <1>1, CurStays DEF TakeTurn, hub, logs
<1>4. ps \in Seq(Prompt) /\ ps # <<>> /\ prompts'[i] = Tail(ps)
  <2>1. prompts \in [Participant -> Seq(Prompt)]
    BY DEF TypeOK
  <2>. QED  BY <2>1 DEF Answer
<1>5. \A k \in DOMAIN Tail(ps) : k + 1 \in DOMAIN ps /\ Tail(ps)[k] = ps[k + 1] /\ k \in Nat \ {0}
  BY <1>4
<1>6. 1 \in DOMAIN ps /\ Head(ps) = ps[1]
  BY <1>4
<1>7. \A k \in PromptsOf(i)' : k + 1 \in PromptsOf(i) /\ prompts'[i][k] = prompts[i][k + 1] /\ k \in Nat \ {0}
  BY <1>4, <1>5 DEF PromptsOf
<1>8. prompt = prompts[i][1] \/ prompt.group = NoGroup
  BY <1>1, <1>6 DEF Attributions, NoPrompt
<1>9. /\ new.group = prompt.group /\ new.id = prompt.id /\ Answering(new) = Answering(prompt)
  BY DEF Answering
<1>. HIDE DEF new, ps
<1>10. \A c \in RepliesOf(i)' : \/ c \in RepliesOf(i)
                                \/ /\ c = new /\ 1 \in PromptsOf(i)
                                   /\ new.group = prompts[i][1].group /\ new.id = prompts[i][1].id
                                   /\ Answering(new) = Answering(prompts[i][1])
  BY <1>2, <1>6, <1>8, <1>9 DEF RepliesOf, PromptsOf, ps
<1>11. (\A k \in PromptsOf(i) : /\ Answering(prompts[i][k]) \in staged[i][prompts[i][k].group]
                                /\ Issued(i, prompts[i][k].id))'
  <2>1. ASSUME NEW k \in PromptsOf(i)'
        PROVE  /\ Answering(prompts[i][k + 1]) \in staged[i][prompts[i][k + 1].group]
               /\ Issued(i, prompts[i][k + 1].id)
    BY <1>7 DEF InStep
  <2>. QED  BY <1>3, <1>7, <2>1 DEF Answering, Issued
<1>12. (\A c \in RepliesOf(i) : /\ Answering(c) \in staged[i][c.group] \/ (pc \in Taken /\ c = cur)
                                /\ Issued(i, c.id))'
  <2>1. ASSUME NEW c \in RepliesOf(i)'
        PROVE  (Answering(c) \in staged[i][c.group] \/ (pc \in Taken /\ c = cur)) /\ Issued(i, c.id)
    <3>1. CASE c \in RepliesOf(i)
      BY <3>1 DEF InStep
    <3>2. CASE c = new /\ 1 \in PromptsOf(i) /\ new.group = prompts[i][1].group /\ new.id = prompts[i][1].id
               /\ Answering(new) = Answering(prompts[i][1])
      <4>1. Answering(prompts[i][1]) \in staged[i][prompts[i][1].group] /\ Issued(i, prompts[i][1].id)
        BY <3>2 DEF InStep
      <4>. QED  BY <3>2, <4>1
    <3>. QED  BY <1>10, <3>1, <3>2
  <2>. QED  BY <1>3, <2>1 DEF Answering, Issued
<1>13. (\A k, l \in PromptsOf(i) : prompts[i][k].id = prompts[i][l].id => k = l)'
  <2>1. ASSUME NEW k \in PromptsOf(i)', NEW l \in PromptsOf(i)', prompts'[i][k].id = prompts'[i][l].id
        PROVE  k = l
    <3>1. k + 1 = l + 1
      BY <1>7, <2>1 DEF InStep
    <3>. QED  BY <1>7, <3>1
  <2>. QED  BY <2>1
<1>14. (\A c, d \in RepliesOf(i) : c.id = d.id => c = d)'
  <2>1. ASSUME NEW c \in RepliesOf(i), 1 \in PromptsOf(i)
        PROVE  prompts[i][1].id # c.id
    BY <2>1 DEF InStep
  <2>2. ASSUME NEW c \in RepliesOf(i)', NEW d \in RepliesOf(i)', c.id = d.id
        PROVE  c = d
    <3>1. CASE c \in RepliesOf(i) /\ d \in RepliesOf(i)
      BY <2>2, <3>1 DEF InStep
    <3>. QED  BY <1>10, <2>1, <2>2, <3>1
  <2>. QED  BY <2>2
<1>15. (\A k \in PromptsOf(i), c \in RepliesOf(i) : prompts[i][k].id # c.id)'
  <2>1. ASSUME NEW k \in PromptsOf(i)', NEW c \in RepliesOf(i)'
        PROVE  prompts'[i][k].id # c.id
    <3>1. CASE c \in RepliesOf(i)
      BY <1>7, <3>1 DEF InStep
    <3>2. CASE 1 \in PromptsOf(i) /\ c.id = prompts[i][1].id
      <4>1. k + 1 # 1 /\ k + 1 \in PromptsOf(i) /\ prompts'[i][k] = prompts[i][k + 1]
        BY <1>7
      <4>2. prompts[i][k + 1].id # prompts[i][1].id
        BY <3>2, <4>1 DEF InStep
      <4>. QED  BY <3>2, <4>1, <4>2
    <3>. QED  BY <1>10, <3>1, <3>2
  <2>. QED  BY <2>1
<1>. QED  BY <1>11, <1>12, <1>13, <1>14, <1>15 DEF InStep

\* consume_staged takes away the message cur answers, and no other: another
\* message of that number would have another identity.
LEMMA InStepUnstaged ==
    ASSUME TypeOK, WaitingInOrder, ToldOnce, StagedInOrder, QueueInStep, ConsumeStaged
    PROVE  /\ cur.by \in Participant /\ cur.group \in Group
           /\ Answering(cur) \in staged[cur.by][cur.group]
           /\ staged' = [staged EXCEPT ![cur.by][cur.group] = @ \ {Answering(cur)}]
           /\ QueueInStep'
<1>1. pc = "unstage" /\ pc' = "journal" /\ UNCHANGED <<prompts, outbox, batch, told, sends>>
  BY DEF ConsumeStaged, Goto, logs, counters
<1>2. /\ cur.by \in Participant /\ cur.group \in Group /\ cur \in outbox[cur.by] /\ cur' = cur
      /\ cur.group # NoGroup
  BY <1>1, AtHand, CurStays DEF Handling, Routed, ToldOnce, ToldInTurn
<1>3. cur \in RepliesOf(cur.by) /\ InStep(cur.by)
  BY <1>2 DEF RepliesOf, QueueInStep
<1>4. Answering(cur) \in staged[cur.by][cur.group]
  BY <1>1, <1>3 DEF InStep, Taken, Settled, Cleared, Forwarding
<1>5. Answering(cur).seq = cur.seq /\ Answering(cur).id = cur.id
  BY DEF Answering
<1>6. \A m \in staged[cur.by][cur.group] : m.seq = cur.seq <=> m = Answering(cur)
  BY <1>2, <1>4, <1>5 DEF StagedInOrder
<1>7. {m \in staged[cur.by][cur.group] : m.seq # cur.seq} = staged[cur.by][cur.group] \ {Answering(cur)}
  BY <1>6
<1>8. staged \in [Participant -> [Group -> SUBSET Message]]
  BY DEF TypeOK
<1>9. staged' = [staged EXCEPT ![cur.by][cur.group] = @ \ {Answering(cur)}]
  BY <1>7 DEF ConsumeStaged
<1>10. \A i \in Participant, g \in Group :
          staged'[i][g] = IF i = cur.by /\ g = cur.group THEN staged[i][g] \ {Answering(cur)} ELSE staged[i][g]
  BY <1>2, <1>8, <1>9
<1>11. ASSUME NEW i \in Participant
       PROVE  InStep(i)'
  <2>1. InStep(i)
    BY DEF QueueInStep
  <2>2. PromptsOf(i)' = PromptsOf(i) /\ RepliesOf(i)' = RepliesOf(i)
    BY <1>1 DEF PromptsOf, RepliesOf
  <2>3. \A k \in PromptsOf(i) : prompts[i][k].group \in Group
    BY AnswersTyped
  <2>4. \A c \in RepliesOf(i) : c.group \in Group
    BY AnswersTyped
  <2>5. ASSUME NEW k \in PromptsOf(i)
        PROVE  Answering(prompts[i][k]) \in staged'[i][prompts[i][k].group] /\ Issued(i, prompts[i][k].id)
    <3>1. Answering(prompts[i][k]) \in staged[i][prompts[i][k].group] /\ Issued(i, prompts[i][k].id)
      BY <2>1 DEF InStep
    <3>2. i = cur.by => prompts[i][k].id # cur.id
      BY <1>3 DEF InStep
    <3>3. Answering(prompts[i][k]).id = prompts[i][k].id
      BY DEF Answering
    <3>4. i = cur.by => Answering(prompts[i][k]) # Answering(cur)
      BY <1>5, <3>2, <3>3
    <3>. QED  BY <1>10, <2>3, <3>1, <3>4
  <2>6. ASSUME NEW c \in RepliesOf(i)
        PROVE  (Answering(c) \in staged'[i][c.group] \/ c = cur) /\ Issued(i, c.id)
    <3>1. Answering(c) \in staged[i][c.group] /\ Issued(i, c.id)
      BY <1>1, <2>1 DEF InStep, Taken, Settled, Cleared, Forwarding
    <3>2. i = cur.by /\ c # cur => c.id # cur.id
      BY <1>3 DEF InStep
    <3>3. Answering(c).id = c.id
      BY DEF Answering
    <3>4. i = cur.by /\ c # cur => Answering(c) # Answering(cur)
      BY <1>5, <3>2, <3>3
    <3>. QED  BY <1>10, <2>4, <3>1, <3>4
  <2>7. (\A k \in PromptsOf(i) : /\ Answering(prompts[i][k]) \in staged[i][prompts[i][k].group]
                                 /\ Issued(i, prompts[i][k].id))'
    BY <1>1, <2>2, <2>5 DEF Answering, Issued
  <2>8. (\A c \in RepliesOf(i) : /\ Answering(c) \in staged[i][c.group] \/ (pc \in Taken /\ c = cur)
                                 /\ Issued(i, c.id))'
    BY <1>1, <1>2, <2>2, <2>6 DEF Answering, Issued, Taken
  <2>9. /\ (\A k, l \in PromptsOf(i) : prompts[i][k].id = prompts[i][l].id => k = l)'
        /\ (\A c, d \in RepliesOf(i) : c.id = d.id => c = d)'
        /\ (\A k \in PromptsOf(i), c \in RepliesOf(i) : prompts[i][k].id # c.id)'
    BY <1>1, <2>1, <2>2 DEF InStep
  <2>. QED  BY <2>7, <2>8, <2>9 DEF InStep
<1>. QED  BY <1>2, <1>4, <1>9, <1>11 DEF QueueInStep

\* Only a kill puts the queue out of step.
LEMMA QueueInStepKept ==
    TypeOK /\ WaitingInOrder /\ ToldOnce /\ StagedInOrder /\ QueueInStep /\ [Next]_vars /\ ~Crash
    => QueueInStep'
<1>. SUFFICES ASSUME TypeOK, WaitingInOrder, ToldOnce, StagedInOrder, QueueInStep, [Next]_vars, ~Crash
              PROVE  QueueInStep'
  OBVIOUS
<1>0. /\ prompts \in [Participant -> Seq(Prompt)] /\ staged \in [Participant -> [Group -> SUBSET Message]]
      /\ told \in [Turn -> Nat] /\ sends \in Nat /\ MaxSends \in Nat
      /\ Manager \in Participant /\ Coworker \subseteq Participant /\ Manager \notin Coworker
      /\ \A i \in Participant : InStep(i)
  BY ConstantsAssumption DEF TypeOK, Participant, QueueInStep
<1>20. ASSUME sends' = sends \/ sends' = sends + 1, \A t \in Turn : told[t] > 0 => told'[t] > 0
       PROVE  \A j \in Participant : \A id \in Nat : Issued(j, id) => Issued(j, id)'
  <2>1. sends' \in Nat /\ sends <= sends'
    BY <1>0, <1>20
  <2>. QED  BY <1>20, <2>1, IssuedStays
<1>1. ASSUME UNCHANGED <<prompts, outbox, staged, told, sends>>, pc \in Taken => pc' \in Taken /\ cur' = cur
      PROVE  QueueInStep'
  <2>1. \A i \in Participant : \A id \in Nat : Issued(i, id) => Issued(i, id)'
    BY <1>1, <1>20
  <2>2. ASSUME NEW i \in Participant
        PROVE  InStep(i)'
    BY <1>0, <1>1, <2>1, InStepFramed
  <2>. QED  BY <2>2 DEF QueueInStep
<1>2. ASSUME NEW i \in Participant, Answer(i) \/ HumanTurn(i)
      PROVE  QueueInStep'
  <2>1. PICK prompt : TakeTurn(i, prompt) /\ (Answer(i) \/ (prompt = NoPrompt /\ UNCHANGED prompts))
    BY <1>2 DEF Answer, HumanTurn
  <2>2. /\ UNCHANGED <<staged, pc, batch, told, sends>> /\ cur' = cur
        /\ \A j \in Participant : j # i => outbox'[j] = outbox[j]
        /\ prompt = NoPrompt => \A c \in outbox'[i] : c.group = NoGroup \/ c \in outbox[i]
    BY <2>1, TurnTaken, CurStays DEF TakeTurn, hub, logs, NoPrompt
  <2>3. \A j \in Participant : \A id \in Nat : Issued(j, id) => Issued(j, id)'
    BY <1>20, <2>2
  <2>4. ASSUME NEW j \in Participant, j # i
        PROVE  InStep(j)'
    <3>1. prompts'[j] = prompts[j]
      BY <1>0, <2>1, <2>4 DEF Answer
    <3>. QED  BY <1>0, <2>2, <2>3, <2>4, <3>1, InStepFramed
  <2>5. InStep(i)'
    <3>1. CASE Answer(i)
      BY <1>0, <3>1, InStepAnswered
    <3>2. CASE prompt = NoPrompt /\ UNCHANGED prompts
      <4>1. PromptsOf(i)' = PromptsOf(i) /\ \A c \in RepliesOf(i)' : c \in RepliesOf(i)
        BY <2>2, <3>2 DEF PromptsOf, RepliesOf
      <4>2. InStep(i)
        BY <1>0
      <4>. QED  BY <2>2, <3>2, <4>1, <4>2 DEF InStep, Answering, Issued
    <3>. QED  BY <2>1, <3>1, <3>2
  <2>. QED  BY <2>4, <2>5 DEF QueueInStep
<1>3. ASSUME NEW i \in Participant, NEW x \in Prompt,
             prompts' = [prompts EXCEPT ![i] = Append(@, x)], outbox' = outbox,
             \A j \in Participant, g \in Group : staged[j][g] \subseteq staged'[j][g],
             \A j \in Participant : \A id \in Nat : Issued(j, id) => Issued(j, id)',
             pc \in Taken => pc' \in Taken /\ cur' = cur,
             x.group # NoGroup => /\ Answering(x) \in staged'[i][x.group]
                                  /\ Issued(i, x.id)' /\ ~Issued(i, x.id)
      PROVE  QueueInStep'
  <2>1. /\ prompts'[i] = Append(prompts[i], x)
        /\ \A j \in Participant : j # i => prompts'[j] = prompts[j]
    BY <1>0, <1>3, Typed
  <2>2. InStep(i)'
    BY <1>0, <1>3, <2>1, InStepTyped
  <2>3. ASSUME NEW j \in Participant, j # i
        PROVE  InStep(j)'
    BY <1>0, <1>3, <2>1, <2>3, InStepFramed
  <2>. QED  BY <2>2, <2>3 DEF QueueInStep
<1>4. ASSUME NEW i \in Participant, NEW g \in Group, NEW id \in Nat \ {0},
             staged' = WithMessage(i, g, NextSeq(i, g), id)
      PROVE  /\ \A j \in Participant, h \in Group : staged[j][h] \subseteq staged'[j][h]
             /\ [seq |-> NextSeq(i, g), id |-> id] \in staged'[i][g]
             /\ NextSeq(i, g) \in Nat \ {0}
  <2>1. /\ NextSeq(i, g) \in Nat \ {0}
        /\ staged' = [staged EXCEPT ![i][g] = @ \cup {[seq |-> NextSeq(i, g), id |-> id]}]
    BY <1>4, Staging
  <2>. QED  BY <1>0, <2>1
<1>5. ASSUME NEW w \in Coworker, NEW g \in Group, Ask(w, g)
      PROVE  QueueInStep'
  <2>9. PICK x : x = [group |-> g, seq |-> NextSeq(w, g), id |-> sends + 1]
    OBVIOUS
  <2>1. /\ staged' = WithMessage(w, g, NextSeq(w, g), sends + 1) /\ sends' = sends + 1
        /\ UNCHANGED <<outbox, told, pc>> /\ pc \notin Taken
        /\ prompts' = [prompts EXCEPT ![w] = Append(@, x)] \/ prompts' = prompts
    BY <1>5, <2>9 DEF Ask, hub, Taken, Settled, Cleared, Forwarding
  <2>2. sends + 1 \in Nat \ {0} /\ w \in Participant
    BY <1>0
  <2>3. /\ \A j \in Participant, h \in Group : staged[j][h] \subseteq staged'[j][h]
        /\ [seq |-> NextSeq(w, g), id |-> sends + 1] \in staged'[w][g]
        /\ NextSeq(w, g) \in Nat \ {0}
    BY <1>4, <2>1, <2>2
  <2>4. x \in Prompt /\ x.id = sends + 1 /\ x.group = g /\ Answering(x) = [seq |-> NextSeq(w, g), id |-> sends + 1]
    BY <2>2, <2>3, <2>9 DEF Prompt, Answering
  <2>5. \A j \in Participant : \A id \in Nat : Issued(j, id) => Issued(j, id)'
    BY <1>20, <2>1
  <2>6. Issued(w, x.id)' /\ ~Issued(w, x.id)
    BY <1>0, <2>1, <2>4 DEF Issued
  <2>7. CASE prompts' = [prompts EXCEPT ![w] = Append(@, x)]
    BY <1>3, <2>1, <2>2, <2>3, <2>4, <2>5, <2>6, <2>7
  <2>8. CASE prompts' = prompts
    <3>1. ASSUME NEW i \in Participant
          PROVE  InStep(i)'
      BY <1>0, <2>1, <2>3, <2>5, <2>8, InStepFramed
    <3>. QED  BY <3>1 DEF QueueInStep
  <2>. QED  BY <2>1, <2>7, <2>8
<1>6. ASSUME NEW g \in Group, CloseByManager(g) \/ CloseByOperator(g)
      PROVE  QueueInStep'
  BY <1>1, <1>6, CurStays DEF CloseByManager, CloseByOperator, Close, hub, logs, counters
<1>7. ASSUME NEW w \in Coworker, NEW g \in Group, ChangeMembership(w, g)
      PROVE  QueueInStep'
  BY <1>1, <1>7, CurStays DEF ChangeMembership, hub, logs, counters
<1>8. CASE BeginPass \/ NextCapture \/ Decide \/ Restart
  <2>1. pc \notin Taken /\ UNCHANGED <<prompts, outbox, staged, told, sends>>
    BY <1>8 DEF BeginPass, NextCapture, Decide, Restart, Taken, Settled, Cleared, Forwarding, tree, logs, counters
  <2>. QED  BY <1>1, <2>1
<1>9. CASE ConsumeStaged
  BY <1>9, InStepUnstaged
<1>10. CASE JournalReply \/ ClearOutstanding \/ Submit \/ KeepLate \/ MarkManager \/ Remember
  <2>1. /\ pc' \in Taken /\ batch' = batch /\ UNCHANGED <<prompts, outbox, staged, told, sends>>
    BY <1>10 DEF JournalReply, ClearOutstanding, Submit, KeepLate, MarkManager, Remember, Goto,
                 Taken, Settled, Cleared, Forwarding, tree, logs, counters
  <2>. QED  BY <1>1, <2>1, CurStays
<1>11. CASE StageNotification
  <2>1. /\ pc = "stage" /\ pc' = "inject" /\ batch' = batch /\ UNCHANGED <<prompts, outbox, told, sends>>
        /\ staged' = WithMessage(Manager, cur.group, NextSeq(Manager, cur.group), MaxSends + cur.turn)
    BY <1>11 DEF StageNotification, Goto, logs, counters
  <2>2. cur.group \in Group /\ MaxSends + cur.turn \in Nat \ {0} /\ cur' = cur
    BY <1>0, <2>1, AtHand, CurStays DEF Handling, Cleared, Forwarding
  <2>3. \A j \in Participant, h \in Group : staged[j][h] \subseteq staged'[j][h]
    BY <1>0, <1>4, <2>1, <2>2
  <2>4. \A j \in Participant : \A id \in Nat : Issued(j, id) => Issued(j, id)'
    BY <1>20, <2>1
  <2>5. pc' \in Taken
    BY <2>1 DEF Taken, Settled, Cleared, Forwarding
  <2>6. ASSUME NEW i \in Participant
        PROVE  InStep(i)'
    BY <1>0, <2>1, <2>2, <2>3, <2>4, <2>5, InStepFramed
  <2>. QED  BY <2>6 DEF QueueInStep
<1>12. CASE InjectNotification
  <2>. DEFINE m == CHOOSE y \in staged[Manager][cur.group] : y.id = MaxSends + cur.turn
  <2>9. PICK x : x = [group |-> cur.group, seq |-> m.seq, id |-> MaxSends + cur.turn]
    OBVIOUS
  <2>1. /\ pc = "inject" /\ pc' \in {"mark", "consume"} /\ UNCHANGED <<outbox, staged, sends, batch>>
        /\ \/ prompts' = [prompts EXCEPT ![Manager] = Append(@, x)] /\ told' = [told EXCEPT ![cur.turn] = @ + 1]
           \/ UNCHANGED <<prompts, told>>
    BY <1>12, <2>9 DEF InjectNotification, Goto, counters
  <2>2. /\ cur.group \in Group /\ cur.turn \in Turn /\ cur.turn \in Nat /\ cur' = cur
    BY <2>1, AtHand, CurStays DEF Handling, Cleared, Forwarding
  <2>3. told[cur.turn] = 0 /\ \E y \in staged[Manager][cur.group] : y.id = MaxSends + cur.turn
    BY <2>1 DEF ToldOnce, ToldInTurn, Forwarding
  <2>4. m \in staged[Manager][cur.group] /\ m.id = MaxSends + cur.turn /\ m \in Message
    <3>1. m \in staged[Manager][cur.group] /\ m.id = MaxSends + cur.turn
      BY <2>3
    <3>2. staged[Manager][cur.group] \subseteq Message
      BY <1>0, <2>2
    <3>. QED  BY <3>1, <3>2
  <2>5. pc' \in Taken
    BY <2>1 DEF Taken, Settled, Cleared
  <2>6. CASE UNCHANGED <<prompts, told>>
    BY <1>1, <2>1, <2>2, <2>5, <2>6
  <2>7. ASSUME prompts' = [prompts EXCEPT ![Manager] = Append(@, x)], told' = [told EXCEPT ![cur.turn] = @ + 1]
        PROVE  QueueInStep'
    <3>. HIDE DEF m
    <3>1. Answering(x) = m
      BY <2>4, <2>9 DEF Answering, Message
    <3>2. x \in Prompt /\ x.group = cur.group /\ x.id = MaxSends + cur.turn
      BY <1>0, <2>2, <2>4, <2>9 DEF Prompt, Message
    <3>3. \A t \in Turn : told[t] \in Nat /\ told'[t] = IF t = cur.turn THEN 1 ELSE told[t]
      BY <1>0, <2>2, <2>3, <2>7
    <3>4. \A j \in Participant : \A id \in Nat : Issued(j, id) => Issued(j, id)'
      BY <1>20, <2>1, <3>3
    <3>5. Issued(Manager, x.id)'
      BY <2>2, <3>2, <3>3 DEF Issued
    <3>6. ~Issued(Manager, x.id)
      <4>1. ASSUME NEW t \in Turn, MaxSends + cur.turn = MaxSends + t, told[t] > 0
            PROVE  FALSE
        <5>1. t = cur.turn
          BY <1>0, <2>2, <4>1 DEF Turn
        <5>. QED  BY <2>3, <4>1, <5>1
      <4>. QED  BY <3>2, <4>1 DEF Issued
    <3>. QED  BY <1>0, <1>3, <2>1, <2>2, <2>4, <2>5, <2>7, <3>1, <3>2, <3>4, <3>5, <3>6
  <2>. QED  BY <2>1, <2>6, <2>7
<1>13. CASE Notify
  <2>1. /\ pc = "notify" /\ pc' \in {"remember", "consume"} /\ UNCHANGED <<outbox, staged, told, sends, batch>>
        /\ prompts' = [prompts EXCEPT ![cur.by] = Append(@, NoPrompt)] \/ prompts' = prompts
    BY <1>13 DEF Notify, Goto, counters
  <2>2. cur.by \in Participant /\ cur' = cur
    BY <2>1, AtHand, CurStays DEF Handling, Cleared
  <2>3. pc' \in Taken
    BY <2>1 DEF Taken, Settled, Cleared
  <2>4. \A j \in Participant : \A id \in Nat : Issued(j, id) => Issued(j, id)'
    BY <1>20, <2>1
  <2>5. NoPrompt \in Prompt /\ NoPrompt.group = NoGroup
    BY DEF NoPrompt, Prompt
  <2>. QED  BY <1>1, <1>3, <2>1, <2>2, <2>3, <2>4, <2>5
<1>14. CASE Consume \/ Park
  <2>1. /\ pc \in Handling /\ DropCapture /\ UNCHANGED <<prompts, staged, told, sends>>
    BY <1>14 DEF Consume, Park, Handling, Cleared, Forwarding, logs, counters
  <2>2. \A i \in Participant : outbox'[i] \subseteq outbox[i] /\ cur \notin outbox'[i]
    BY <2>1, Dropped
  <2>3. \A j \in Participant : \A id \in Nat : Issued(j, id) => Issued(j, id)'
    BY <1>20, <2>1
  <2>4. ASSUME NEW i \in Participant
        PROVE  InStep(i)'
    BY <1>0, <2>1, <2>2, <2>3, InStepFramed
  <2>. QED  BY <2>4 DEF QueueInStep
<1>15. CASE UNCHANGED vars
  BY <1>1, <1>15, CurStays DEF vars, tree, hub, logs, counters
<1>. QED
  BY <1>2, <1>5, <1>6, <1>7, <1>8, <1>9, <1>10, <1>11, <1>12, <1>13, <1>14, <1>15 DEF Next, HubStep
-----------------------------------------------------------------------------
LEMMA IInvInitially == Init => IInv
<1>. SUFFICES ASSUME Init PROVE IInv
  OBVIOUS
<1>. USE ConstantsAssumption
<1>1. TypeOK
  <2>1. Sessions \in [status : [Group -> {"active", "closed"}], members : [Group -> SUBSET Coworker]]
    BY DEF Init, Sessions
  <2>2. 0 \in 0..MaxTurns /\ 0 \in 0..MaxSends /\ 0 \in 0..MaxCrashes /\ NoGroup \in Group \cup {NoGroup}
    OBVIOUS
  <2>3. <<>> \in Seq(Prompt)
    OBVIOUS
  <2>. QED  BY <2>1, <2>2, <2>3 DEF Init, TypeOK, HubPC
<1>2. WaitingInOrder
  BY DEF Init, WaitingInOrder, Handling, Routed, Cleared, Forwarding
<1>3. ToldOnce
  BY DEF Init, ToldOnce, ToldSettled, ToldInTurn, Routed, Cleared, Forwarding
<1>4. NoticesCounted
  BY DEF Init, NoticesCounted
<1>5. Accounted
  BY DEF Init, Accounted, Replayed, AccountedAtHand
<1>6. StagedInOrder
  BY DEF Init, StagedInOrder
<1>7. QueueInStep
  <2>1. \A i \in Participant : PromptsOf(i) = {} /\ RepliesOf(i) = {}
    BY DEF Init, PromptsOf, RepliesOf
  <2>. QED  BY <2>1 DEF QueueInStep, InStep
<1>. QED  BY <1>1, <1>2, <1>3, <1>4, <1>5, <1>6, <1>7 DEF IInv

LEMMA KillsAreCounted ==
    ASSUME TypeOK, [Next]_vars
    PROVE  IF Crash THEN crashes' > 0 ELSE crashes' = crashes
<1>1. crashes \in Nat
  BY ConstantsAssumption DEF TypeOK
<1>2. CASE Crash
  BY <1>1, <1>2 DEF Crash
<1>3. CASE ~Crash
  BY <1>3
  DEF Next, HubStep, Answer, HumanTurn, TakeTurn, CloseByManager, CloseByOperator, Close, ChangeMembership, Ask,
      BeginPass, NextCapture, Decide, ConsumeStaged, JournalReply, ClearOutstanding, Submit, StageNotification,
      InjectNotification, MarkManager, KeepLate, Notify, Remember, Consume, Park, Restart, vars, counters
<1>. QED  BY <1>2, <1>3

LEMMA IInvKept == IInv /\ [Next]_vars => IInv'
<1>. SUFFICES ASSUME IInv, [Next]_vars
              PROVE  IInv'
  OBVIOUS
<1>1. TypeOK /\ WaitingInOrder /\ ToldOnce /\ NoticesCounted /\ Accounted /\ StagedInOrder
  BY DEF IInv
<1>2. TypeOK' /\ WaitingInOrder' /\ ToldOnce' /\ NoticesCounted' /\ Accounted' /\ StagedInOrder'
  BY <1>1, TypesKept, WaitingInOrderKept, ToldOnceKept, NoticesCountedKept, AccountedKept, StagedInOrderKept
<1>3. ASSUME crashes' = 0
      PROVE  QueueInStep'
  <2>1. crashes = 0 /\ ~Crash
    BY <1>1, <1>3, KillsAreCounted
  <2>2. QueueInStep
    BY <2>1 DEF IInv
  <2>. QED  BY <1>1, <2>1, <2>2, QueueInStepKept
<1>. QED  BY <1>2, <1>3 DEF IInv

\* The inductive invariant of the hub's pass over the captures, kills included.
THEOREM Invariant == Spec => []IInv
BY IInvInitially, IInvKept, PTL DEF Spec

\* However often the hub is killed and replays a capture, the manager is woken
\* about a turn at most once, and then finds it in the journal and its files in
\* the inbox; and a coworker is told once per message sent to it, and once more
\* per kill, that its replies go nowhere (_handle, _forward_to_manager,
\* _notify_sender).
THEOREM WokenOnce == Spec => []ToldOnceAndRecorded
<1>1. IInv => ToldOnceAndRecorded
  BY DEF IInv, ToldOnce, ToldSettled, NoticesCounted, ToldOnceAndRecorded, ForwardedAtMostOnce, ToldAfterRecorded,
         NoticeOncePerSend
<1>. QED  BY <1>1, Invariant, PTL

\* A coworker's reply leaves its outbox when the manager was woken about it,
\* when the journal says why not, or parked; only a kill can cost the wake, and
\* then the reply is in the journal (poll_once, _handle).
THEOREM NoReplyIsDropped == Spec => DroppedOnlyByACrash
<1>. DEFINE Dropping(i, c) ==
       c.group # NoGroup /\ i \in snap.members[c.group]
           => \/ told[c.turn] > 0 \/ c.turn \in noted \cup rejected'
              \/ crashes > 0 /\ logged[c.turn] > 0
<1>1. ASSUME IInv, [Next]_vars, NEW i \in Coworker, NEW c \in outbox[i] \ outbox'[i]
      PROVE  Dropping(i, c)
  <2>0. TypeOK /\ WaitingInOrder /\ Accounted /\ i \in Participant
    BY <1>1 DEF IInv, Participant
  <2>1. Consume \/ Park
    <3>1. ASSUME NEW j \in Participant, NEW prompt, TakeTurn(j, prompt)
          PROVE  FALSE
      <4>1. outbox[i] \subseteq outbox'[i]
        BY <2>0, <3>1, TurnTaken
      <4>. QED  BY <4>1
    <3>. QED
      BY <1>1, <3>1
      DEF Next, HubStep, Answer, HumanTurn, CloseByManager, CloseByOperator, Close, ChangeMembership, Ask,
          BeginPass, NextCapture, Decide, ConsumeStaged, JournalReply, ClearOutstanding, Submit, StageNotification,
          InjectNotification, MarkManager, KeepLate, Notify, Remember, Crash, Restart, vars, tree
  <2>2. pc \in Handling /\ DropCapture
    BY <2>1 DEF Consume, Park, Handling, Cleared, Forwarding
  <2>3. c = cur /\ cur.by = i
    <3>1. /\ outbox'[cur.by] = outbox[cur.by] \ {cur}
          /\ \A j \in Participant : j # cur.by => outbox'[j] = outbox[j]
      BY <2>0, <2>2, Dropped
    <3>. QED  BY <2>0, <3>1
  <2>4. CASE Park
    BY <2>3, <2>4 DEF Park
  <2>5. CASE Consume
    BY <2>0, <2>3, <2>5 DEF Consume, Accounted, AccountedAtHand
  <2>. QED  BY <2>1, <2>4, <2>5
<1>2. IInv /\ [Next]_vars => [\A i \in Coworker : \A c \in outbox[i] \ outbox'[i] : Dropping(i, c)]_vars
  BY <1>1
<1>. QED  BY <1>2, Invariant, PTL DEF Spec, DroppedOnlyByACrash

\* Nobody is prompted for a closed group once a pass began after the close,
\* whoever closed it and whenever (send, _handle's choice of a route).
THEOREM ClosedGroupFallsSilent == Spec => ClosedGroupIsQuiet
<1>. DEFINE Silent(i) ==
       Len(prompts'[i]) > Len(prompts[i])
           => LET g == prompts'[i][Len(prompts'[i])].group
              IN  g # NoGroup => "active" \in {status[g], snap.status[g]}
<1>1. ASSUME IInv, [Next]_vars, NEW i \in Participant
      PROVE  Silent(i)
  <2>0. TypeOK /\ WaitingInOrder /\ ToldOnce /\ StagedInOrder /\ prompts \in [Participant -> Seq(Prompt)]
        /\ Manager \in Participant /\ Coworker \subseteq Participant
    BY <1>1 DEF IInv, TypeOK, Participant
  <2>1. ASSUME NEW j \in Participant, NEW x, prompts' = [prompts EXCEPT ![j] = Append(@, x)],
               x.group # NoGroup => "active" \in {status[x.group], snap.status[x.group]}
        PROVE  Silent(i)
    <3>1. CASE i = j
      <4>1. prompts'[i] = Append(prompts[i], x) /\ Len(prompts[i]) \in Nat
        BY <2>0, <2>1, <3>1
      <4>2. prompts[i] \in Seq(Prompt)
        BY <2>0
      <4>3. prompts'[i][Len(prompts'[i])] = x
        BY <4>1, <4>2
      <4>. QED  BY <2>1, <4>3
    <3>2. CASE i # j
      <4>1. prompts'[i] = prompts[i] /\ Len(prompts[i]) \in Nat
        BY <2>0, <2>1, <3>2
      <4>. QED  BY <4>1
    <3>. QED  BY <3>1, <3>2
  <2>2. ASSUME UNCHANGED prompts
        PROVE  Silent(i)
    <3>1. Len(prompts[i]) \in Nat
      BY <2>0
    <3>. QED  BY <2>2, <3>1
  <2>3. ASSUME NEW j \in Participant, Answer(j)
        PROVE  Silent(i)
    <3>1. prompts' = [prompts EXCEPT ![j] = Tail(@)] /\ prompts[j] # <<>>
      BY <2>3 DEF Answer
    <3>2. Len(prompts'[i]) <= Len(prompts[i]) /\ Len(prompts'[i]) \in Nat /\ Len(prompts[i]) \in Nat
      <4>1. prompts[i] \in Seq(Prompt) /\ prompts[j] \in Seq(Prompt)
        BY <2>0
      <4>2. Len(Tail(prompts[j])) = Len(prompts[j]) - 1 /\ Len(prompts[j]) \in Nat /\ Len(prompts[j]) > 0
        BY <3>1, <4>1
      <4>3. prompts'[i] = IF i = j THEN Tail(prompts[j]) ELSE prompts[i]
        BY <2>0, <3>1
      <4>. QED  BY <4>1, <4>2, <4>3
    <3>. QED  BY <3>2
  <2>4. ASSUME NEW w \in Coworker, NEW g \in Group, Ask(w, g)
        PROVE  Silent(i)
    <3>1. PICK x : x = [group |-> g, seq |-> NextSeq(w, g), id |-> sends + 1]
      OBVIOUS
    <3>2. prompts' = [prompts EXCEPT ![w] = Append(@, x)] \/ prompts' = prompts
      BY <2>4, <3>1 DEF Ask
    <3>3. x.group = g /\ status[g] = "active"
      BY <2>4, <3>1 DEF Ask
    <3>. QED  BY <2>0, <2>1, <2>2, <3>2, <3>3
  <2>5. CASE InjectNotification
    <3>1. PICK x : x = [group |-> cur.group,
                        seq |-> (CHOOSE y \in staged[Manager][cur.group] : y.id = MaxSends + cur.turn).seq,
                        id |-> MaxSends + cur.turn]
      OBVIOUS
    <3>2. prompts' = [prompts EXCEPT ![Manager] = Append(@, x)] \/ prompts' = prompts
      BY <2>5, <3>1 DEF InjectNotification
    <3>3. x.group = cur.group /\ snap.status[cur.group] = "active"
      BY <2>0, <2>5, <3>1 DEF InjectNotification, ToldOnce, ToldInTurn, Forwarding
    <3>. QED  BY <2>0, <2>1, <2>2, <3>2, <3>3
  <2>6. CASE Notify
    <3>1. prompts' = [prompts EXCEPT ![cur.by] = Append(@, NoPrompt)] \/ prompts' = prompts
      BY <2>6 DEF Notify
    <3>2. cur.by \in Participant /\ NoPrompt.group = NoGroup
      BY <2>0, <2>6, AtHand DEF Notify, Handling, Cleared, NoPrompt
    <3>. QED  BY <2>1, <2>2, <3>1, <3>2
  <2>. QED
    BY <1>1, <2>2, <2>3, <2>4, <2>5, <2>6
    DEF Next, HubStep, HumanTurn, CloseByManager, CloseByOperator, Close, ChangeMembership,
        BeginPass, NextCapture, Decide, ConsumeStaged, JournalReply, ClearOutstanding, Submit, StageNotification,
        MarkManager, KeepLate, Remember, Consume, Park, Crash, Restart, vars, tree
<1>2. IInv /\ [Next]_vars => [\A i \in Participant : Silent(i)]_vars
  BY <1>1
<1>. QED  BY <1>2, Invariant, PTL DEF Spec, ClosedGroupIsQuiet

\* A message leaves the queue by its reader's reply only, and to that very
\* message unless a kill made a capture be handled again (consume_staged).
THEOREM QueueLeavesByReplies == Spec => LeavesOnlyWhenAnswered
<1>. DEFINE Leaving(i, m) == pc = "unstage" /\ cur.by = i /\ (cur.id = m.id \/ crashes > 0)
<1>1. ASSUME IInv, [Next]_vars, NEW i \in Participant, NEW g \in Group, NEW m \in staged[i][g] \ staged'[i][g]
      PROVE  Leaving(i, m)
  <2>0. /\ TypeOK /\ WaitingInOrder /\ ToldOnce /\ StagedInOrder /\ crashes \in Nat /\ MaxSends \in Nat
        /\ staged \in [Participant -> [Group -> SUBSET Message]]
        /\ Manager \in Participant /\ Coworker \subseteq Participant /\ sends \in Nat
    BY <1>1, ConstantsAssumption DEF IInv, TypeOK, Participant
  <2>1. ASSUME NEW j \in Participant, NEW h \in Group, NEW id \in Nat \ {0},
               staged' = WithMessage(j, h, NextSeq(j, h), id)
        PROVE  FALSE
    <3>1. staged' = [staged EXCEPT ![j][h] = @ \cup {[seq |-> NextSeq(j, h), id |-> id]}]
      BY <2>0, <2>1, Staging
    <3>2. staged[i][g] \subseteq staged'[i][g]
      BY <2>0, <3>1
    <3>. QED  BY <3>2
  <2>2. ASSUME NEW w \in Coworker, NEW h \in Group, Ask(w, h)
        PROVE  FALSE
    BY <2>0, <2>1, <2>2 DEF Ask
  <2>3. CASE StageNotification
    <3>1. cur.group \in Group /\ MaxSends + cur.turn \in Nat \ {0}
      BY <2>0, <2>3, AtHand DEF StageNotification, Handling, Cleared, Forwarding
    <3>. QED  BY <2>0, <2>1, <2>3, <3>1 DEF StageNotification
  <2>4. CASE ConsumeStaged
    <3>1. pc = "unstage" /\ cur.by \in Participant /\ cur.group \in Group
      BY <2>0, <2>4, AtHand DEF ConsumeStaged, Handling, Routed
    <3>2. staged' = [staged EXCEPT ![cur.by][cur.group] = {n \in @ : n.seq # cur.seq}]
      BY <2>4 DEF ConsumeStaged
    <3>3. cur.by = i /\ cur.group = g
      BY <2>0, <3>1, <3>2
    <3>4. CASE crashes = 0
      <4>1. staged' = [staged EXCEPT ![cur.by][cur.group] = @ \ {Answering(cur)}]
        BY <1>1, <2>0, <2>4, <3>4, InStepUnstaged DEF IInv
      <4>2. m = Answering(cur)
        BY <2>0, <3>1, <3>3, <4>1
      <4>. QED  BY <3>1, <3>3, <4>2 DEF Answering
    <3>5. CASE crashes # 0
      BY <2>0, <3>1, <3>3, <3>5
    <3>. QED  BY <3>4, <3>5
  <2>5. UNCHANGED staged => FALSE
    OBVIOUS
  <2>. QED
    BY <1>1, <2>2, <2>3, <2>4, <2>5
    DEF Next, HubStep, Answer, HumanTurn, TakeTurn, CloseByManager, CloseByOperator, Close, ChangeMembership,
        BeginPass, NextCapture, Decide, JournalReply, ClearOutstanding, Submit, InjectNotification, MarkManager,
        KeepLate, Notify, Remember, Consume, Park, Crash, Restart, vars, tree
<1>2. IInv /\ [Next]_vars => [\A i \in Participant, g \in Group : \A m \in staged[i][g] \ staged'[i][g] : Leaving(i, m)]_vars
  BY <1>1
<1>. QED  BY <1>2, Invariant, PTL DEF Spec, LeavesOnlyWhenAnswered
=============================================================================
