------------------------ MODULE CoworkControlProofs -------------------------
(***************************************************************************)
(* What CoworkControl promises for any coworkers, any number of operators' *)
(* commands and requests, any budget, and kills anywhere.  The invariant   *)
(* comes in four parts, each inductive beside the types: the numbers of    *)
(* the requests and of the deliveries; the files; the answers; and, when   *)
(* the processes take turns (Alone), what a process that is between its    *)
(* read and its save of session.json may assume about the file.            *)
(***************************************************************************)
EXTENDS CoworkControl, FiniteSetTheorems, TLAPS

Resting == {"down", "idle", "ended"}

\* What the hub works on is a request still in place; requests have numbers of
\* their own; and but for the request whose message is typed and not yet
\* removed, a request was asked at most once per crash.
OneAttempt ==
    /\ \A j \in requests : j.id \in 1..filed
    /\ \A j, k \in requests : j.id = k.id => j = k
    /\ pc[Hub] \notin Resting => job[Hub] \in requests
    /\ pc[Hub] # "ended"
    /\ \A r \in Request : deliveries[r] <= 1 + crashes
    /\ \A r \in Request : r > filed => deliveries[r] = 0
    /\ \A j \in requests :
          \/ pc[Hub] \in {"save", "answer", "remove"} /\ job[Hub] = j
          \/ deliveries[j.id] <= crashes

\* Files travel before the message that cites them.
FilesInOrder ==
    /\ FilesLandFirst
    /\ \A j \in requests : j.files => j.id <= material
    /\ material <= filed
    /\ \A w \in Coworker : inbox[w] <= material
    /\ \A p \in Command : job[p].id = 0
    /\ \A p \in Process : pc[p] = "deliver" /\ job[p].files => job[p].id <= inbox[job[p].peer]

\* An answered request has its answer, and as long as none was deleted the
\* answers are numbered without gap or repetition.
AnswersInOrder ==
    /\ IsFiniteSet(replies)
    /\ pc[Hub] = "remove" => \E r \in replies \cup tidied : r.id = job[Hub].id
    /\ tidied = {} => \A r \in replies : r.number <= Cardinality(replies)
    /\ tidied = {} => \A r, s \in replies : r.number = s.number => r = s

\* Whoever is between its read and its save is alone with the file.
OneWriter ==
    /\ \A p, q \in Process : pc[p] \notin Resting /\ pc[q] \notin Resting => p = q
    /\ session.rounds <= Budget
    /\ \A p \in Process :
          /\ pc[p] \in {"handover", "deliver", "save"} /\ session.status = "closed" => copy[p].status = "closed"
          /\ pc[p] \in {"handover", "deliver"} => copy[p].rounds = session.rounds
          /\ pc[p] = "save" => /\ copy[p].rounds \in {session.rounds, session.rounds + 1}
                               /\ copy[p].rounds <= Budget /\ delivered <= copy[p].rounds + crashes
    /\ (\A p \in Process : pc[p] # "save") => delivered <= session.rounds + crashes

IInv == TypeOK /\ OneAttempt /\ FilesInOrder /\ AnswersInOrder /\ (Alone => OneWriter)

-----------------------------------------------------------------------------
\* A verb's guards and edits (Load): refused, or the process goes on with a
\* copy that has the session's rounds and does not reopen it; it goes on to its
\* message with the session unchanged, to a member.
Loaded(p, j, s) ==
    /\ copy' = [copy EXCEPT ![p] = s] /\ s.rounds = session.rounds
    /\ session.status = "closed" => s.status = "closed"
    /\ \/ Goto(p, "save")
       \/ /\ s = session /\ s.status = "active" /\ j.peer \in s.coworkers
          /\ Goto(p, IF j.files THEN "handover" ELSE "deliver")

LEMMA LoadEffect ==
    ASSUME NEW p \in Process, NEW j \in Job, session \in Session, Load(p, j)
    PROVE  (copy' = copy /\ Finish(p)) \/ \E s \in Session : Loaded(p, j, s)
<1>. DEFINE recruited == [session EXCEPT !.status = IF @ = "none" THEN "active" ELSE @,
                                         !.coworkers = @ \cup {j.peer}]
            released == [session EXCEPT !.coworkers = @ \ {j.peer}]
            closed == [session EXCEPT !.status = "closed"]
<1>0. j.peer \in Coworker /\ j.verb \in Verb /\ j.files \in BOOLEAN
  BY DEF Job
<1>1. recruited \in Session /\ released \in Session /\ closed \in Session
  BY <1>0 DEF Session
<1>2. /\ recruited.rounds = session.rounds /\ released.rounds = session.rounds
      /\ closed.rounds = session.rounds /\ closed.status = "closed"
      /\ released.status = session.status
      /\ session.status = "closed" => recruited.status = "closed"
  BY DEF Session
<1>3. CASE j.verb = "recruit"
  <2>1. copy' = [copy EXCEPT ![p] = recruited] /\ Goto(p, "save")
    BY <1>3 DEF Load
  <2>. QED  BY <2>1, <1>1, <1>2 DEF Loaded
<1>4. CASE j.verb = "send" /\ Reachable(j.peer)
  <2>1. copy' = [copy EXCEPT ![p] = session] /\ Goto(p, IF j.files THEN "handover" ELSE "deliver")
    BY <1>4 DEF Load
  <2>2. Loaded(p, j, session)
    BY <2>1, <1>0, <1>4 DEF Loaded, Reachable, GroupAtHand
  <2>. QED  BY <2>2
<1>5. CASE j.verb = "release" /\ Reachable(j.peer)
  <2>1. copy' = [copy EXCEPT ![p] = released] /\ Goto(p, "save")
    BY <1>5 DEF Load
  <2>. QED  BY <2>1, <1>1, <1>2 DEF Loaded
<1>6. CASE j.verb = "done" /\ GroupAtHand
  <2>1. copy' = [copy EXCEPT ![p] = closed] /\ Goto(p, "save")
    BY <1>6 DEF Load
  <2>. QED  BY <2>1, <1>1, <1>2 DEF Loaded
<1>7. CASE ~ \/ j.verb = "recruit"
             \/ j.verb = "send" /\ Reachable(j.peer)
             \/ j.verb = "release" /\ Reachable(j.peer)
             \/ j.verb = "done" /\ GroupAtHand
  BY <1>7 DEF Load
<1>. QED  BY <1>3, <1>4, <1>5, <1>6, <1>7

LEMMA Processes == Hub \in Process /\ Command \subseteq Process /\ \A p \in Process : p = Hub \/ p \in Command
BY DEF Process

\* Taking up a job keeps the types (HubBegins, CommandBegins).
LEMMA BeginTyped ==
    ASSUME TypeOK, NEW p \in Process, NEW j \in Job, Load(p, j)
    PROVE  copy' \in [Process -> Session] /\ pc' \in [Process -> Label]
<1>1. session \in Session /\ copy \in [Process -> Session]
      /\ pc \in [Process -> Label]
  BY DEF TypeOK
<1>2. CASE copy' = copy /\ Finish(p)
  BY <1>1, <1>2 DEF Finish, Goto, Label
<1>3. ASSUME NEW s \in Session, Loaded(p, j, s)
      PROVE  /\ copy' \in [Process -> Session]
             /\ pc' \in [Process -> Label]
  BY <1>1, <1>3 DEF Loaded, Goto, Label
<1>. QED  BY <1>1, <1>2, <1>3, LoadEffect

LEMMA NoJobTyped == NoJob \in Job /\ NoSession \in Session
<1>1. (CHOOSE w \in Coworker : TRUE) \in Coworker
  BY ConstantsAssumption
<1>. QED  BY <1>1, ConstantsAssumption DEF NoJob, Job, Verb, NoSession, Session

LEMMA TypesInitially == Init => TypeOK
<1>. SUFFICES ASSUME Init PROVE TypeOK
  OBVIOUS
<1>1. /\ session \in Session /\ copy \in [Process -> Session] /\ job \in [Process -> Job]
  BY NoJobTyped DEF Init
<1>2. /\ requests \subseteq Job /\ rejected \subseteq Job
      /\ replies \cup tidied \subseteq [number : Nat \ {0}, verb : Verb, id : Request, read : BOOLEAN]
  BY DEF Init
<1>3. /\ pc \in [Process -> Label]
      /\ deliveries \in [Request -> Nat] /\ delivered \in Nat
      /\ material \in 0..MaxRequests /\ filed \in 0..MaxRequests /\ crashes \in 0..MaxCrashes
      /\ inbox \in [Coworker -> 0..MaxRequests] /\ cited \in [Coworker -> 0..MaxRequests]
  BY ConstantsAssumption DEF Init, Label
<1>. QED  BY <1>1, <1>2, <1>3 DEF TypeOK

\* The hub's answer to the request at hand (Answer).
NewReply == [number |-> Cardinality(replies) + 1, verb |-> job[Hub].verb, id |-> job[Hub].id, read |-> FALSE]

\* TypeOK, one step of Next at a time.
LEMMA TypesKept == TypeOK /\ OneAttempt /\ AnswersInOrder /\ [Next]_vars => TypeOK'
<1>. SUFFICES ASSUME TypeOK, OneAttempt, AnswersInOrder, [Next]_vars
              PROVE  TypeOK'
  OBVIOUS
<1>. USE ConstantsAssumption, Processes
<1>0. IsFiniteSet(replies) /\ Cardinality(replies) \in Nat
  BY FS_CardinalityType DEF AnswersInOrder
<1>a. ASSUME pc[Hub] \notin Resting
      PROVE  job[Hub].id \in Request /\ job[Hub] \in Job /\ job[Hub].verb \in Verb
  BY <1>a DEF OneAttempt, TypeOK, Job, Request
<1>1. ASSUME NEW j \in Job, File(j)
      PROVE  TypeOK'
  BY <1>1 DEF File, TypeOK, Job
<1>2. CASE HubBegins
  <2>1. PICK j \in requests : Take(j) /\ Load(Hub, j)
    BY <1>2 DEF HubBegins
  <2>2. j \in Job
    BY DEF TypeOK
  <2>. QED  BY <1>2, <2>1, <2>2, BeginTyped DEF HubBegins, Take, TypeOK, files
<1>3. ASSUME NEW j \in requests, Reject(j)
      PROVE  TypeOK'
  BY <1>3 DEF Reject, TypeOK, files
<1>4. ASSUME NEW p \in Command, NEW j \in Job, CommandBegins(p, j)
      PROVE  TypeOK'
  <2>1. p \in Process /\ Load(p, j)
    BY <1>4 DEF CommandBegins
  <2>. QED  BY <1>4, <2>1, BeginTyped DEF CommandBegins, TypeOK, files
<1>5. ASSUME NEW p \in Process, HandOver(p)
      PROVE  TypeOK'
  <2>1. job[p].peer \in Coworker /\ material \in 0..MaxRequests
    BY DEF TypeOK, Job
  <2>2. pc' \in [Process -> Label]
    BY <1>5 DEF HandOver, Goto, TypeOK, Label
  <2>3. inbox' \in [Coworker -> 0..MaxRequests]
    BY <1>5, <2>1 DEF HandOver, TypeOK
  <2>. QED  BY <1>5, <2>2, <2>3 DEF HandOver, TypeOK
<1>6. ASSUME NEW p \in Process, Deliver(p)
      PROVE  TypeOK'
  <2>1. job[p].peer \in Coworker /\ job[p].id \in 0..MaxRequests /\ copy[p] \in Session
    BY DEF TypeOK, Job
  <2>2. pc' \in [Process -> Label]
    BY <1>6 DEF Deliver, Finish, Goto, TypeOK, Label
  <2>3. copy' \in [Process -> Session]
    BY <1>6, <2>1 DEF Deliver, TypeOK, Session
  <2>4. delivered' \in Nat
    BY <1>6 DEF Deliver, TypeOK
  <2>5. cited' \in [Coworker -> 0..MaxRequests]
    BY <1>6, <2>1 DEF Deliver, TypeOK, Cited
  <2>6. deliveries' \in [Request -> Nat]
    <3>1. CASE deliveries' = deliveries
      BY <3>1 DEF TypeOK
    <3>2. CASE p = Hub /\ deliveries' = [deliveries EXCEPT ![job[p].id] = @ + 1]
      <4>1. job[Hub].id \in Request
        BY <1>6, <1>a, <3>2 DEF Deliver, Resting
      <4>. QED  BY <3>2, <4>1 DEF TypeOK
    <3>. QED  BY <1>6, <3>1, <3>2 DEF Deliver
  <2>. QED  BY <1>6, <2>2, <2>3, <2>4, <2>5, <2>6 DEF Deliver, TypeOK
<1>7. ASSUME NEW p \in Process, Save(p)
      PROVE  TypeOK'
  <2>1. pc' \in [Process -> Label] /\ copy[p] \in Session
    BY <1>7 DEF Save, Finish, Goto, TypeOK, Label
  <2>. QED  BY <1>7, <2>1 DEF Save, TypeOK, files
<1>8. CASE Answer
  <2>1. pc' \in [Process -> Label]
    BY <1>8 DEF Answer, Goto, TypeOK, Label
  <2>2. job[Hub].verb \in Verb /\ job[Hub].id \in Request
    BY <1>8, <1>a DEF Answer, Resting
  <2>3. NewReply \in [number : Nat \ {0}, verb : Verb, id : Request, read : BOOLEAN]
    BY <1>0, <2>2 DEF NewReply
  <2>4. replies' \subseteq replies \cup {NewReply} /\ tidied' = tidied
    BY <1>8 DEF Answer, NewReply
  <2>5. replies' \cup tidied' \subseteq [number : Nat \ {0}, verb : Verb, id : Request, read : BOOLEAN]
    BY <2>3, <2>4 DEF TypeOK
  <2>. QED  BY <1>8, <2>1, <2>5 DEF Answer, TypeOK, files
<1>9. CASE Remove
  BY <1>9, NoJobTyped DEF Remove, Goto, TypeOK, Label, files
<1>10. CASE Crash
  BY <1>10, NoJobTyped DEF Crash, Goto, TypeOK, Label, files
<1>11. CASE Restart
  BY <1>11 DEF Restart, Goto, TypeOK, Label, files
<1>12. ASSUME NEW r \in replies, ReadReply(r)
       PROVE  TypeOK'
  <2>1. replies' \cup tidied' \subseteq [number : Nat \ {0}, verb : Verb, id : Request, read : BOOLEAN]
    BY <1>12 DEF ReadReply, TypeOK
  <2>. QED  BY <1>12, <2>1 DEF ReadReply, TypeOK, files
<1>13. ASSUME NEW r \in replies, DeleteReply(r)
       PROVE  TypeOK'
  BY <1>13 DEF DeleteReply, TypeOK, files
<1>14. CASE UNCHANGED vars
  BY <1>14 DEF vars, files, TypeOK
<1>. QED
  BY <1>1, <1>2, <1>3, <1>4, <1>5, <1>6, <1>7, <1>8, <1>9, <1>10, <1>11, <1>12, <1>13, <1>14
  DEF Next, HubStep

-----------------------------------------------------------------------------
\* What every step but the hub's leaves of what OneAttempt speaks of.
HubUntouched == requests' = requests /\ pc'[Hub] = pc[Hub] /\ job'[Hub] = job[Hub]

LEMMA CommandsLeaveTheHub ==
    ASSUME TypeOK, NEW p \in Command,
           (\E j \in Job : CommandBegins(p, j)) \/ HandOver(p) \/ Deliver(p) \/ Save(p)
    PROVE  HubUntouched /\ deliveries' = deliveries /\ filed' = filed /\ crashes' = crashes
<1>1. p # Hub /\ p \in Process
  BY ConstantsAssumption, Processes
<1>2. ASSUME NEW j \in Job, CommandBegins(p, j)
      PROVE  pc'[Hub] = pc[Hub]
  <2>1. session \in Session /\ Load(p, j)
    BY <1>2 DEF TypeOK, CommandBegins
  <2>. QED  BY <1>1, <2>1, LoadEffect, Processes DEF Loaded, Goto, Finish, TypeOK
<1>3. ASSUME NEW j \in Job, CommandBegins(p, j)
      PROVE  HubUntouched /\ deliveries' = deliveries /\ filed' = filed /\ crashes' = crashes
  BY <1>1, <1>2, <1>3, Processes DEF CommandBegins, HubUntouched, TypeOK
<1>4. CASE HandOver(p)
  BY <1>1, <1>4, Processes DEF HandOver, HubUntouched, Goto, TypeOK
<1>5. CASE Deliver(p)
  BY <1>1, <1>5, Processes DEF Deliver, HubUntouched, Goto, Finish, TypeOK
<1>6. CASE Save(p)
  BY <1>1, <1>6, Processes DEF Save, HubUntouched, Goto, Finish, TypeOK
<1>. QED  BY <1>3, <1>4, <1>5, <1>6

LEMMA OneAttemptKept == TypeOK /\ OneAttempt /\ [Next]_vars => OneAttempt'
<1>. SUFFICES ASSUME TypeOK, OneAttempt, [Next]_vars
              PROVE  OneAttempt'
  OBVIOUS
<1>. USE ConstantsAssumption, Processes
<1>0. /\ pc \in [Process -> Label] /\ job \in [Process -> Job] /\ deliveries \in [Request -> Nat]
      /\ crashes \in Nat /\ filed \in 0..MaxRequests /\ requests \subseteq Job
  BY DEF TypeOK
<1>1. ASSUME NEW j \in Job, File(j)
      PROVE  OneAttempt'
  <2>1. filed \in Nat /\ j.id = filed + 1 /\ filed' = filed + 1 /\ filed + 1 \in Request
    BY <1>0, <1>1 DEF File, Request
  <2>2. \A k \in requests : k.id \in Nat /\ k.id <= filed /\ k.id # j.id
    BY <2>1, <1>0 DEF OneAttempt
  <2>3. deliveries[j.id] = 0
    BY <2>1 DEF OneAttempt
  <2>4. requests' = requests \cup {j} /\ pc' = pc /\ job' = job /\ deliveries' = deliveries /\ crashes' = crashes
    BY <1>1 DEF File
  <2>5. /\ \A k \in requests' : k.id \in 1..filed'
        /\ \A k, l \in requests' : k.id = l.id => k = l
    BY <1>0, <2>1, <2>2, <2>4 DEF OneAttempt
  <2>6. \A r \in Request : r > filed' => deliveries'[r] = 0
    BY <2>1, <2>4 DEF OneAttempt, Request
  <2>7. \A k \in requests' : \/ pc'[Hub] \in {"save", "answer", "remove"} /\ job'[Hub] = k
                             \/ deliveries'[k.id] <= crashes'
    BY <1>0, <2>3, <2>4 DEF OneAttempt
  <2>. QED  BY <2>4, <2>5, <2>6, <2>7 DEF OneAttempt
<1>2. CASE HubBegins
  <2>1. PICK j \in requests : Take(j) /\ Load(Hub, j)
    BY <1>2 DEF HubBegins
  <2>2. j \in Job /\ session \in Session
    BY DEF TypeOK
  <2>3. pc'[Hub] # "ended" /\ pc[Hub] = "idle" /\ job'[Hub] = j
    BY <1>0, <2>1, <2>2, LoadEffect DEF Loaded, Goto, Finish, Take
  <2>. QED  BY <1>0, <1>2, <2>1, <2>3 DEF HubBegins, Take, OneAttempt
<1>3. ASSUME NEW j \in requests, Reject(j)
      PROVE  OneAttempt'
  BY <1>3 DEF Reject, OneAttempt, Resting
<1>4. ASSUME NEW p \in Command,
             (\E j \in Job : CommandBegins(p, j)) \/ HandOver(p) \/ Deliver(p) \/ Save(p)
      PROVE  OneAttempt'
  BY <1>4, CommandsLeaveTheHub DEF HubUntouched, OneAttempt
<1>5. CASE HandOver(Hub)
  BY <1>0, <1>5 DEF HandOver, Goto, OneAttempt, Resting
<1>6. CASE Deliver(Hub)
  <2>1. pc[Hub] = "deliver" /\ job[Hub] \in requests /\ job' = job /\ requests' = requests
        /\ filed' = filed /\ crashes' = crashes
    BY <1>6 DEF Deliver, OneAttempt, Resting
  <2>2. pc'[Hub] \in {"save", "answer"}
    BY <1>0, <1>6 DEF Deliver, Goto, Finish
  <2>3. deliveries[job[Hub].id] <= crashes /\ job[Hub].id \in Request
    BY <1>0, <2>1 DEF OneAttempt, Request
  <2>4. \/ deliveries' = deliveries
        \/ deliveries' = [deliveries EXCEPT ![job[Hub].id] = @ + 1]
    BY <1>6 DEF Deliver
  <2>5. \A r \in Request : deliveries'[r] <= 1 + crashes
    BY <1>0, <2>3, <2>4 DEF OneAttempt
  <2>6. \A r \in Request : r > filed => deliveries'[r] = 0
    BY <1>0, <2>1, <2>3, <2>4 DEF OneAttempt
  <2>7. \A j \in requests : job[Hub] = j \/ deliveries'[j.id] <= crashes
    <3>1. SUFFICES ASSUME NEW j \in requests, j # job[Hub]
                   PROVE  deliveries'[j.id] <= crashes
      OBVIOUS
    <3>2. j.id # job[Hub].id /\ deliveries[j.id] <= crashes /\ j.id \in Request
      BY <1>0, <2>1, <3>1 DEF OneAttempt, Request
    <3>. QED  BY <1>0, <2>3, <2>4, <3>2
  <2>. QED  BY <2>1, <2>2, <2>5, <2>6, <2>7 DEF OneAttempt, Resting
<1>7. CASE Save(Hub)
  BY <1>0, <1>7 DEF Save, Goto, Finish, OneAttempt, Resting
<1>8. CASE Answer
  BY <1>0, <1>8 DEF Answer, Goto, OneAttempt, Resting
<1>9. CASE Remove
  BY <1>0, <1>9 DEF Remove, Goto, OneAttempt, Resting
<1>10. CASE Crash
  <2>1. crashes' = crashes + 1 /\ \A j \in requests : j.id \in Request
    BY <1>0, <1>10 DEF Crash, OneAttempt, Request
  <2>. QED  BY <1>0, <1>10, <2>1 DEF Crash, Goto, OneAttempt, Resting
<1>11. CASE Restart
  BY <1>0, <1>11 DEF Restart, Goto, OneAttempt, Resting
<1>12. ASSUME NEW r \in replies, ReadReply(r) \/ DeleteReply(r)
       PROVE  OneAttempt'
  BY <1>12 DEF ReadReply, DeleteReply, OneAttempt
<1>13. CASE UNCHANGED vars
  BY <1>13 DEF vars, OneAttempt
<1>. QED
  BY <1>1, <1>2, <1>3, <1>4, <1>5, <1>6, <1>7, <1>8, <1>9, <1>10, <1>11, <1>12, <1>13
  DEF Next, HubStep

-----------------------------------------------------------------------------
\* A process that takes up a job has its files still to hand over.
LEMMA BeginFiles ==
    ASSUME TypeOK, FilesInOrder, NEW p \in Process, NEW j \in Job, Load(p, j),
           job' = [job EXCEPT ![p] = j], UNCHANGED files,
           p \in Command => j.id = 0
    PROVE  /\ \A q \in Process : pc'[q] = "handover" => MayCopy(q)'
           /\ \A q \in Process : pc'[q] = "deliver" /\ job'[q].files => job'[q].id <= inbox'[job'[q].peer]
           /\ \A q \in Command : job'[q].id = 0
<1>1. /\ pc \in [Process -> Label] /\ copy \in [Process -> Session] /\ job \in [Process -> Job]
      /\ session \in Session /\ inbox' = inbox
  BY DEF TypeOK, files
<1>2. /\ \A q \in Process \ {p} : pc'[q] = pc[q] /\ copy'[q] = copy[q] /\ job'[q] = job[q]
      /\ job'[p] = j
      /\ pc'[p] = "handover" => j.peer \in copy'[p].coworkers
      /\ pc'[p] = "deliver" => ~j.files
  BY <1>1, LoadEffect DEF Loaded, Goto, Finish
<1>3. \A q \in Process : pc'[q] = "handover" => MayCopy(q)'
  BY <1>2 DEF FilesInOrder, FilesLandFirst, MayCopy
<1>4. \A q \in Process : pc'[q] = "deliver" /\ job'[q].files => job'[q].id <= inbox'[job'[q].peer]
  BY <1>1, <1>2 DEF FilesInOrder
<1>5. \A q \in Command : job'[q].id = 0
  BY <1>2, Processes DEF FilesInOrder
<1>. QED  BY <1>3, <1>4, <1>5

LEMMA FilesInOrderKept == TypeOK /\ OneAttempt /\ FilesInOrder /\ [Next]_vars => FilesInOrder'
<1>. SUFFICES ASSUME TypeOK, OneAttempt, FilesInOrder, [Next]_vars
              PROVE  FilesInOrder'
  OBVIOUS
<1>. USE ConstantsAssumption, Processes
<1>0. /\ pc \in [Process -> Label] /\ job \in [Process -> Job] /\ copy \in [Process -> Session]
      /\ material \in Nat /\ filed \in Nat /\ requests \subseteq Job
      /\ inbox \in [Coworker -> 0..MaxRequests] /\ cited \in [Coworker -> 0..MaxRequests]
  BY DEF TypeOK
<1>1. ASSUME NEW j \in Job, File(j)
      PROVE  FilesInOrder'
  <2>1. /\ j.id = filed + 1 /\ filed' = filed + 1 /\ requests' = requests \cup {j}
        /\ material' = IF j.files THEN j.id ELSE material
        /\ UNCHANGED <<job, copy, pc, inbox, cited>>
    BY <1>1 DEF File
  <2>2. material <= material' /\ material' <= filed' /\ material' \in Nat
    BY <1>0, <2>1 DEF FilesInOrder
  <2>3. \A k \in requests' : k.files => k.id <= material'
    <3>1. ASSUME NEW k \in requests, k.files
          PROVE  k.id <= material'
      <4>1. k.id \in Nat /\ k.id <= material
        BY <1>0, <3>1 DEF FilesInOrder, Job
      <4>. QED  BY <1>0, <2>2, <4>1
    <3>2. j.files => j.id <= material'
      BY <1>0, <2>1, <2>2
    <3>. QED  BY <2>1, <3>1, <3>2
  <2>4. \A w \in Coworker : inbox'[w] <= material'
    BY <1>0, <2>1, <2>2 DEF FilesInOrder
  <2>. QED  BY <2>1, <2>2, <2>3, <2>4 DEF FilesInOrder, FilesLandFirst, MayCopy
<1>2. CASE HubBegins
  <2>1. PICK j \in requests : Take(j) /\ Load(Hub, j)
    BY <1>2 DEF HubBegins
  <2>2. /\ job' = [job EXCEPT ![Hub] = j] /\ requests' = requests /\ UNCHANGED files /\ filed' = filed
        /\ Hub \notin Command /\ j \in Job
    BY <1>0, <1>2, <2>1 DEF HubBegins, Take
  <2>. QED  BY <2>1, <2>2, BeginFiles DEF FilesInOrder, FilesLandFirst, files
<1>3. ASSUME NEW j \in requests, Reject(j)
      PROVE  FilesInOrder'
  BY <1>3 DEF Reject, FilesInOrder, FilesLandFirst, MayCopy, files
<1>4. ASSUME NEW p \in Command, NEW j \in Job, CommandBegins(p, j)
      PROVE  FilesInOrder'
  <2>1. /\ job' = [job EXCEPT ![p] = j] /\ requests' = requests /\ UNCHANGED files /\ filed' = filed
        /\ Load(p, j) /\ j.id = 0
    BY <1>4 DEF CommandBegins
  <2>. QED  BY <2>1, BeginFiles DEF FilesInOrder, FilesLandFirst, files
<1>5. ASSUME NEW p \in Process, HandOver(p)
      PROVE  FilesInOrder'
  <2>1. /\ UNCHANGED <<requests, job, copy, material, cited, filed>> /\ pc[p] = "handover"
        /\ pc' \in [Process -> Label] /\ \A q \in Process \ {p} : pc'[q] = pc[q]
        /\ pc'[p] \in {"deliver", "ended"}
    BY <1>0, <1>5 DEF HandOver, Goto, Label
  <2>2. CASE inbox' = inbox /\ pc'[p] = "ended"
    BY <2>1, <2>2 DEF FilesInOrder, FilesLandFirst, MayCopy
  <2>3. CASE inbox' = [inbox EXCEPT ![job[p].peer] = material] /\ pc'[p] = "deliver"
    <3>1. job[p].peer \in Coworker /\ job[p].id \in Nat
      BY <1>0 DEF Job
    <3>2. \A w \in Coworker : /\ inbox'[w] \in Nat /\ inbox[w] <= inbox'[w] /\ inbox'[w] <= material
                              /\ w = job[p].peer => inbox'[w] = material
      BY <1>0, <2>3, <3>1 DEF FilesInOrder
    <3>3. \A w \in Coworker : cited[w] <= inbox'[w]
      BY <1>0, <3>2 DEF FilesInOrder, FilesLandFirst
    <3>4. job[p].files => job[p].id <= material
      BY <1>0, <2>1 DEF OneAttempt, FilesInOrder, Resting
    <3>5. ASSUME NEW q \in Process, pc'[q] = "deliver", job[q].files
          PROVE  job[q].id <= inbox'[job[q].peer]
      <4>1. CASE q = p
        BY <3>1, <3>2, <3>4, <3>5, <4>1
      <4>2. CASE q # p
        <5>1. job[q].id <= inbox[job[q].peer] /\ job[q].peer \in Coworker /\ job[q].id \in Nat
          BY <1>0, <2>1, <3>5, <4>2 DEF FilesInOrder, Job
        <5>. QED  BY <1>0, <3>2, <5>1
      <4>. QED  BY <4>1, <4>2
    <3>. QED  BY <2>1, <2>3, <3>2, <3>3, <3>5 DEF FilesInOrder, FilesLandFirst, MayCopy
  <2>. QED  BY <1>0, <1>5, <2>1, <2>2, <2>3 DEF HandOver, Goto
<1>6. ASSUME NEW p \in Process, Deliver(p)
      PROVE  FilesInOrder'
  <2>1. /\ UNCHANGED <<requests, job, material, inbox, filed>> /\ pc[p] = "deliver"
        /\ \A q \in Process \ {p} : pc'[q] = pc[q] /\ copy'[q] = copy[q]
        /\ pc'[p] \in {"save", "answer", "ended"}
        /\ cited' = cited \/ cited' = Cited(p)
    BY <1>0, <1>6 DEF Deliver, Goto, Finish
  <2>2. \A w \in Coworker : cited'[w] <= inbox[w]
    BY <1>0, <2>1 DEF Cited, FilesInOrder, FilesLandFirst
  <2>. QED  BY <2>1, <2>2 DEF FilesInOrder, FilesLandFirst, MayCopy
<1>7. ASSUME NEW p \in Process, Save(p)
      PROVE  FilesInOrder'
  BY <1>0, <1>7 DEF Save, Goto, Finish, FilesInOrder, FilesLandFirst, MayCopy, files
<1>8. CASE Answer
  BY <1>0, <1>8 DEF Answer, Goto, FilesInOrder, FilesLandFirst, MayCopy, files
<1>9. CASE Remove \/ Crash \/ Restart
  <2>1. /\ UNCHANGED files /\ filed' = filed /\ requests' \subseteq requests
        /\ pc'[Hub] \in {"idle", "down"}
        /\ \A q \in Process \ {Hub} : pc'[q] = pc[q] /\ copy'[q] = copy[q] /\ job'[q] = job[q]
    BY <1>0, <1>9 DEF Remove, Crash, Restart, Goto
  <2>. QED  BY <2>1 DEF FilesInOrder, FilesLandFirst, MayCopy, files
<1>10. ASSUME NEW r \in replies, ReadReply(r) \/ DeleteReply(r)
       PROVE  FilesInOrder'
  BY <1>10 DEF ReadReply, DeleteReply, FilesInOrder, FilesLandFirst, MayCopy, files
<1>11. CASE UNCHANGED vars
  BY <1>11 DEF vars, files, FilesInOrder, FilesLandFirst, MayCopy
<1>. QED
  BY <1>1, <1>2, <1>3, <1>4, <1>5, <1>6, <1>7, <1>8, <1>9, <1>10, <1>11 DEF Next, HubStep

-----------------------------------------------------------------------------
\* The new answer takes a number nobody has, as long as none was deleted.
LEMMA AnswerIsNew ==
    ASSUME TypeOK, AnswersInOrder, Answer
    PROVE  /\ IsFiniteSet(replies') /\ NewReply \in replies' /\ replies' \subseteq replies \cup {NewReply}
           /\ tidied = {} => /\ replies' = replies \cup {NewReply}
                             /\ \A r \in replies : r.number # NewReply.number
                             /\ Cardinality(replies') = Cardinality(replies) + 1
<1>. DEFINE same == {r \in replies : ~(r.number = NewReply.number /\ r.verb = NewReply.verb)}
<1>1. replies' = same \cup {NewReply} /\ IsFiniteSet(replies) /\ Cardinality(replies) \in Nat
  BY FS_CardinalityType DEF Answer, NewReply, AnswersInOrder
<1>2. IsFiniteSet(same)
  <2>1. same \in SUBSET replies
    OBVIOUS
  <2>. QED  BY <1>1, <2>1, FS_Subset
<1>3. IsFiniteSet(replies')
  BY <1>1, <1>2, FS_AddElement
<1>4. ASSUME tidied = {}
      PROVE  /\ replies' = replies \cup {NewReply}
             /\ \A r \in replies : r.number # NewReply.number
             /\ Cardinality(replies') = Cardinality(replies) + 1
  <2>1. \A r \in replies : r.number \in Nat /\ r.number <= Cardinality(replies)
    BY <1>4 DEF AnswersInOrder, TypeOK
  <2>2. NewReply.number = Cardinality(replies) + 1
    BY DEF NewReply
  <2>3. \A r \in replies : r.number # NewReply.number
    BY <1>1, <2>1, <2>2
  <2>4. same = replies /\ NewReply \notin replies
    BY <2>3
  <2>. QED  BY <1>1, <2>3, <2>4, FS_AddElement
<1>. QED  BY <1>1, <1>3, <1>4

\* Reading an answer changes nothing but its mark.
LEMMA ReadKeepsCount ==
    ASSUME TypeOK, AnswersInOrder, NEW r \in replies, ReadReply(r)
    PROVE  /\ IsFiniteSet(replies')
           /\ tidied = {} => Cardinality(replies') = Cardinality(replies)
<1>. DEFINE seen == [r EXCEPT !.read = TRUE]
            rest == replies \ {r}
<1>1. replies' = rest \cup {seen} /\ IsFiniteSet(replies) /\ Cardinality(replies) \in Nat /\ ~r.read
  BY FS_CardinalityType DEF ReadReply, AnswersInOrder
<1>2. IsFiniteSet(rest) /\ Cardinality(rest) = Cardinality(replies) - 1
  BY <1>1, FS_RemoveElement
<1>3. seen.read = TRUE /\ seen.number = r.number
  BY DEF TypeOK
<1>4. tidied = {} => seen \notin rest
  BY <1>3 DEF AnswersInOrder
<1>. HIDE DEF seen, rest
<1>5. /\ IsFiniteSet(rest \cup {seen})
      /\ seen \notin rest => Cardinality(rest \cup {seen}) = Cardinality(rest) + 1
  BY <1>2, FS_AddElement
<1>. QED  BY <1>1, <1>2, <1>4, <1>5

LEMMA AnswersInOrderKept == TypeOK /\ AnswersInOrder /\ [Next]_vars => AnswersInOrder'
<1>. SUFFICES ASSUME TypeOK, AnswersInOrder, [Next]_vars
              PROVE  AnswersInOrder'
  OBVIOUS
<1>. USE ConstantsAssumption, Processes
<1>0. pc \in [Process -> Label] /\ job \in [Process -> Job] /\ Hub \notin Command
  BY DEF TypeOK
<1>1. ASSUME replies' = replies, tidied' = tidied, pc'[Hub] = "remove" => pc[Hub] = "remove" /\ job'[Hub] = job[Hub]
      PROVE  AnswersInOrder'
  BY <1>1 DEF AnswersInOrder
<1>2. ASSUME NEW j \in Job, File(j)
      PROVE  AnswersInOrder'
  BY <1>1, <1>2 DEF File
<1>3. CASE HubBegins
  <2>1. PICK j \in requests : Take(j) /\ Load(Hub, j)
    BY <1>3 DEF HubBegins
  <2>2. j \in Job /\ session \in Session
    BY DEF TypeOK
  <2>3. pc'[Hub] # "remove"
    BY <1>0, <2>1, <2>2, LoadEffect DEF Loaded, Goto, Finish
  <2>. QED  BY <1>1, <1>3, <2>3 DEF HubBegins
<1>4. ASSUME NEW j \in requests, Reject(j)
      PROVE  AnswersInOrder'
  BY <1>1, <1>4 DEF Reject
<1>5. ASSUME NEW p \in Command,
             (\E j \in Job : CommandBegins(p, j)) \/ HandOver(p) \/ Deliver(p) \/ Save(p)
      PROVE  AnswersInOrder'
  <2>1. replies' = replies /\ tidied' = tidied
    BY <1>5 DEF CommandBegins, HandOver, Deliver, Save
  <2>2. pc'[Hub] = pc[Hub] /\ job'[Hub] = job[Hub]
    BY <1>5, CommandsLeaveTheHub DEF HubUntouched
  <2>. QED  BY <1>1, <2>1, <2>2
<1>6. CASE HandOver(Hub) \/ Deliver(Hub) \/ Save(Hub)
  <2>1. replies' = replies /\ tidied' = tidied
    BY <1>6 DEF HandOver, Deliver, Save
  <2>2. pc'[Hub] # "remove"
    BY <1>0, <1>6 DEF HandOver, Deliver, Save, Goto, Finish
  <2>. QED  BY <1>1, <2>1, <2>2
<1>7. CASE Answer
  <2>1. tidied' = tidied /\ job' = job /\ NewReply.id = job[Hub].id /\ Cardinality(replies) \in Nat
    BY <1>7, FS_CardinalityType DEF Answer, NewReply, AnswersInOrder
  <2>2. ASSUME tidied = {}
        PROVE  /\ \A r \in replies' : r.number <= Cardinality(replies')
               /\ \A r, s \in replies' : r.number = s.number => r = s
    <3>1. /\ replies' = replies \cup {NewReply} /\ \A r \in replies : r.number # NewReply.number
          /\ Cardinality(replies') = Cardinality(replies) + 1
      BY <1>7, <2>2, AnswerIsNew
    <3>2. NewReply.number = Cardinality(replies) + 1
      BY DEF NewReply
    <3>3. \A r \in replies : r.number \in Nat /\ r.number <= Cardinality(replies)
      BY <2>2 DEF AnswersInOrder, TypeOK
    <3>. QED  BY <2>1, <2>2, <3>1, <3>2, <3>3 DEF AnswersInOrder
  <2>. QED  BY <1>7, <2>1, <2>2, AnswerIsNew DEF AnswersInOrder
<1>8. CASE Remove \/ Crash \/ Restart
  <2>1. replies' = replies /\ tidied' = tidied /\ pc'[Hub] # "remove"
    BY <1>0, <1>8 DEF Remove, Crash, Restart, Goto
  <2>. QED  BY <1>1, <2>1
<1>9. ASSUME NEW r \in replies, ReadReply(r)
      PROVE  AnswersInOrder'
  <2>1. /\ replies' = (replies \ {r}) \cup {[r EXCEPT !.read = TRUE]}
        /\ tidied' = tidied /\ pc' = pc /\ job' = job
        /\ [r EXCEPT !.read = TRUE].id = r.id /\ [r EXCEPT !.read = TRUE].number = r.number
    BY <1>9 DEF ReadReply, TypeOK
  <2>2. pc[Hub] = "remove" => \E s \in replies' \cup tidied' : s.id = job[Hub].id
    BY <2>1 DEF AnswersInOrder
  <2>3. tidied = {} => \A s \in replies' : s.number <= Cardinality(replies')
    BY <1>9, <2>1, ReadKeepsCount DEF AnswersInOrder
  <2>4. tidied = {} => \A s, t \in replies' : s.number = t.number => s = t
    BY <2>1 DEF AnswersInOrder
  <2>. QED  BY <1>9, <2>1, <2>2, <2>3, <2>4, ReadKeepsCount DEF AnswersInOrder
<1>10. ASSUME NEW r \in replies, DeleteReply(r)
       PROVE  AnswersInOrder'
  <2>1. replies' = replies \ {r} /\ tidied' = tidied \cup {r} /\ pc' = pc /\ job' = job
    BY <1>10 DEF DeleteReply
  <2>2. IsFiniteSet(replies')
    BY <2>1, FS_RemoveElement DEF AnswersInOrder
  <2>. QED  BY <2>1, <2>2 DEF AnswersInOrder
<1>11. CASE UNCHANGED vars
  BY <1>1, <1>11 DEF vars
<1>. QED
  BY <1>2, <1>3, <1>4, <1>5, <1>6, <1>7, <1>8, <1>9, <1>10, <1>11 DEF Next, HubStep

-----------------------------------------------------------------------------
\* Whoever takes up a job finds nobody between a read and a save.
LEMMA BeginAlone ==
    ASSUME TypeOK, Alone, OneWriter, NEW p \in Process, NEW j \in Job,
           TakesTurn(p), pc[p] = "idle", Load(p, j), UNCHANGED <<session, delivered, crashes>>
    PROVE  OneWriter'
<1>. USE ConstantsAssumption
<1>1. /\ pc \in [Process -> Label] /\ copy \in [Process -> Session] /\ session \in Session
      /\ \A q \in Process : pc[q] \in Resting
      /\ delivered <= session.rounds + crashes /\ session.rounds <= Budget
  BY DEF TypeOK, TakesTurn, Resting, OneWriter
<1>2. /\ \A q \in Process \ {p} : pc'[q] = pc[q] /\ copy'[q] = copy[q]
      /\ \/ pc'[p] \in {"answer", "ended"}
         \/ pc'[p] \in {"save", "handover", "deliver"} /\ copy'[p].rounds = session.rounds
      /\ pc'[p] \in {"save", "handover", "deliver"} /\ session.status = "closed" => copy'[p].status = "closed"
  BY <1>1, LoadEffect DEF Loaded, Goto, Finish
<1>3. session.rounds \in Nat
  BY <1>1 DEF Session
<1>. QED  BY <1>1, <1>2, <1>3 DEF OneWriter, Resting

LEMMA OneWriterKept == Alone /\ TypeOK /\ OneWriter /\ [Next]_vars => OneWriter'
<1>. SUFFICES ASSUME Alone, TypeOK, OneWriter, [Next]_vars
              PROVE  OneWriter'
  OBVIOUS
<1>. USE ConstantsAssumption, Processes
<1>0. /\ pc \in [Process -> Label] /\ copy \in [Process -> Session] /\ session \in Session
      /\ session.rounds \in Nat /\ delivered \in Nat /\ crashes \in Nat
      /\ \A p \in Process : copy[p].rounds \in Nat
  BY DEF TypeOK, Session
<1>1. ASSUME NEW j \in Job, File(j)
      PROVE  OneWriter'
  BY <1>1 DEF File, OneWriter
<1>2. CASE HubBegins
  <2>1. PICK j \in requests : Take(j) /\ Load(Hub, j)
    BY <1>2 DEF HubBegins
  <2>2. j \in Job /\ pc[Hub] = "idle" /\ TakesTurn(Hub) /\ UNCHANGED <<session, delivered, crashes>>
    BY <1>2, <2>1 DEF TypeOK, HubBegins, Take
  <2>. QED  BY <2>1, <2>2, BeginAlone
<1>3. ASSUME NEW j \in requests, Reject(j)
      PROVE  OneWriter'
  BY <1>3 DEF Reject, OneWriter
<1>4. ASSUME NEW p \in Command, NEW j \in Job, CommandBegins(p, j)
      PROVE  OneWriter'
  BY <1>4, BeginAlone DEF CommandBegins
<1>5. ASSUME NEW p \in Process, HandOver(p)
      PROVE  OneWriter'
  <2>1. /\ UNCHANGED <<session, copy, delivered, crashes>> /\ pc[p] = "handover"
        /\ \A q \in Process \ {p} : pc'[q] = pc[q]
        /\ pc'[p] \in {"deliver", "ended"}
    BY <1>0, <1>5 DEF HandOver, Goto
  <2>. QED  BY <1>0, <2>1 DEF OneWriter, Resting
<1>6. ASSUME NEW p \in Process, Deliver(p)
      PROVE  OneWriter'
  <2>1. /\ UNCHANGED <<session, crashes>> /\ pc[p] = "deliver"
        /\ \A q \in Process \ {p} : pc'[q] = pc[q] /\ copy'[q] = copy[q] /\ pc[q] \in Resting
        /\ copy[p].rounds = session.rounds /\ session.rounds <= Budget
        /\ delivered <= session.rounds + crashes
        /\ session.status = "closed" => copy[p].status = "closed"
    BY <1>0, <1>6 DEF Deliver, Goto, Finish, OneWriter, Resting
  <2>2. \/ pc'[p] \in {"answer", "ended"} /\ delivered' = delivered
        \/ /\ pc'[p] = "save" /\ delivered' = delivered
           /\ copy'[p] = [copy[p] EXCEPT !.status = "closed"]
        \/ /\ pc'[p] = "save" /\ delivered' = delivered + 1 /\ copy[p].rounds < Budget
           /\ copy'[p] = [copy[p] EXCEPT !.rounds = @ + 1]
    BY <1>0, <1>6 DEF Deliver, Goto, Finish
  <2>3. CASE pc'[p] \in {"answer", "ended"} /\ delivered' = delivered
    BY <1>0, <2>1, <2>3 DEF OneWriter, Resting
  <2>4. CASE /\ pc'[p] = "save" /\ delivered' = delivered
             /\ copy'[p] = [copy[p] EXCEPT !.status = "closed"]
    <3>1. copy'[p].status = "closed" /\ copy'[p].rounds = session.rounds
      BY <1>0, <2>1, <2>4 DEF Session
    <3>. QED  BY <1>0, <2>1, <2>4, <3>1 DEF OneWriter, Resting
  <2>5. CASE /\ pc'[p] = "save" /\ delivered' = delivered + 1 /\ copy[p].rounds < Budget
             /\ copy'[p] = [copy[p] EXCEPT !.rounds = @ + 1]
    <3>1. copy'[p].status = copy[p].status /\ copy'[p].rounds = session.rounds + 1
      BY <1>0, <2>1, <2>5 DEF Session
    <3>2. copy'[p].rounds <= Budget /\ delivered' <= copy'[p].rounds + crashes
      BY <1>0, <2>1, <2>5, <3>1
    <3>. QED  BY <1>0, <2>1, <2>5, <3>1, <3>2 DEF OneWriter, Resting
  <2>. QED  BY <2>2, <2>3, <2>4, <2>5
<1>7. ASSUME NEW p \in Process, Save(p)
      PROVE  OneWriter'
  <2>1. /\ session' = copy[p] /\ UNCHANGED <<copy, delivered, crashes>> /\ pc[p] = "save"
        /\ \A q \in Process \ {p} : pc'[q] = pc[q] /\ pc[q] \in Resting
        /\ pc'[p] \in {"answer", "ended"}
        /\ copy[p].rounds <= Budget /\ delivered <= copy[p].rounds + crashes
    BY <1>0, <1>7 DEF Save, Goto, Finish, OneWriter, Resting
  <2>. QED  BY <1>0, <2>1 DEF OneWriter, Resting
<1>8. CASE Answer \/ Remove \/ Restart
  <2>1. /\ UNCHANGED <<session, delivered, crashes>>
        /\ \A q \in Process \ {Hub} : pc'[q] = pc[q] /\ copy'[q] = copy[q]
        /\ pc[Hub] \in {"answer", "remove", "down"} /\ pc'[Hub] \in {"remove", "idle"}
        /\ pc'[Hub] = "remove" => pc[Hub] = "answer"
    BY <1>0, <1>8 DEF Answer, Remove, Restart, Goto
  <2>. QED  BY <1>0, <2>1 DEF OneWriter, Resting
<1>9. CASE Crash
  <2>1. /\ UNCHANGED <<session, delivered>> /\ crashes' = crashes + 1 /\ pc'[Hub] = "down"
        /\ \A q \in Process \ {Hub} : pc'[q] = pc[q] /\ copy'[q] = copy[q]
    BY <1>0, <1>9 DEF Crash, Goto
  <2>2. pc[Hub] = "save" => \A q \in Process \ {Hub} : pc[q] # "save"
    BY DEF OneWriter, Resting
  <2>3. (\A p \in Process : pc'[p] # "save") => delivered <= session.rounds + (crashes + 1)
    BY <1>0, <2>1, <2>2 DEF OneWriter
  <2>4. \A p \in Process : pc'[p] = "save" => delivered <= copy'[p].rounds + (crashes + 1)
    BY <1>0, <2>1 DEF OneWriter
  <2>. QED  BY <1>0, <2>1, <2>3, <2>4 DEF OneWriter, Resting
<1>10. ASSUME NEW r \in replies, ReadReply(r) \/ DeleteReply(r)
       PROVE  OneWriter'
  BY <1>10 DEF ReadReply, DeleteReply, OneWriter
<1>11. CASE UNCHANGED vars
  BY <1>11 DEF vars, OneWriter
<1>. QED
  BY <1>1, <1>2, <1>3, <1>4, <1>5, <1>6, <1>7, <1>8, <1>9, <1>10, <1>11 DEF Next, HubStep

-----------------------------------------------------------------------------
LEMMA IInvInitially == Init => IInv
<1>. SUFFICES ASSUME Init
              PROVE  IInv
  OBVIOUS
<1>. USE ConstantsAssumption, Processes
<1>1. OneAttempt
  BY NoJobTyped DEF Init, OneAttempt, Resting, Request
<1>2. FilesInOrder
  BY DEF Init, FilesInOrder, FilesLandFirst, NoJob
<1>3. AnswersInOrder
  BY FS_EmptySet DEF Init, AnswersInOrder
<1>4. OneWriter
  BY DEF Init, OneWriter, NoSession, Resting
<1>. QED  BY <1>1, <1>2, <1>3, <1>4, TypesInitially DEF IInv

LEMMA Invariant == Spec => []IInv
<1>1. IInv /\ [Next]_vars => IInv'
  BY TypesKept, OneAttemptKept, FilesInOrderKept, AnswersInOrderKept, OneWriterKept DEF IInv
<1>. QED  BY <1>1, IInvInitially, PTL DEF Spec

\* Every variable keeps its type, whatever a verb, a kill or the manager does
\* (it rests on OneAttempt: what the hub answers is a request with a number).
THEOREM TypeCorrect == Spec => []TypeOK
<1>1. IInv => TypeOK
  BY DEF IInv
<1>. QED  BY <1>1, Invariant, PTL

\* However the hub's work and the operators' commands overlap, a request is
\* typed at most once more than the hub was killed, and files are in the inbox
\* before the message that cites them (control._handle, relay.send, hand_over).
THEOREM AskedOnceWithFiles == Spec => [](NotAskedTwice /\ FilesLandFirst)
<1>1. IInv => NotAskedTwice /\ FilesLandFirst
  BY DEF IInv, OneAttempt, FilesInOrder, NotAskedTwice
<1>. QED  BY <1>1, Invariant, PTL

\* When commands and the hub take turns, coworkers are woken at most
\* round_budget times, crashes aside, besides the two promises above.
THEOREM RequestsWithinBudget ==
    ASSUME Alone
    PROVE  Spec => []AskedWithinBudget
<1>1. ASSUME IInv
      PROVE  AskedWithinBudget
  <2>1. OneWriter /\ TypeOK
    BY <1>1 DEF IInv
  <2>2. /\ session.rounds \in Nat /\ delivered \in Nat /\ crashes \in Nat /\ Budget \in Nat
        /\ \A p \in Process : copy[p].rounds \in Nat
    BY <2>1, ConstantsAssumption DEF TypeOK, Session
  <2>3. BudgetBoundsDeliveries
    <3>1. CASE \E p \in Process : pc[p] = "save"
      BY <2>1, <2>2, <3>1 DEF OneWriter, BudgetBoundsDeliveries
    <3>2. CASE \A p \in Process : pc[p] # "save"
      BY <2>1, <2>2, <3>2 DEF OneWriter, BudgetBoundsDeliveries
    <3>. QED  BY <3>1, <3>2
  <2>4. NotAskedTwice /\ FilesLandFirst
    BY <1>1 DEF IInv, OneAttempt, FilesInOrder, NotAskedTwice
  <2>. QED  BY <2>1, <2>3, <2>4 DEF AskedWithinBudget
<1>. QED  BY <1>1, Invariant, PTL

\* When they take turns, no save puts a closed group back to active: whoever
\* writes session.json read it after it was closed (group.save_session).
THEOREM ClosedGroupsStayClosed ==
    ASSUME Alone
    PROVE  Spec => ClosedStaysClosed
<1>1. ASSUME IInv, [Next]_vars
      PROVE  [session.status = "closed" => session'.status = "closed"]_vars
  <2>. SUFFICES ASSUME Next, session.status = "closed"
                PROVE  session'.status = "closed"
    BY <1>1 DEF vars
  <2>1. ASSUME NEW p \in Process, Save(p)
        PROVE  session'.status = "closed"
    BY <1>1, <2>1 DEF IInv, OneWriter, Save
  <2>2. CASE session' = session
    BY <2>2
  <2>. QED
    BY <2>1, <2>2, Processes DEF Next, HubStep, HubBegins, Reject, HandOver, Deliver, Answer, Remove,
       Crash, Restart, File, CommandBegins, ReadReply, DeleteReply
<1>. QED  BY <1>1, Invariant, PTL DEF Spec, ClosedStaysClosed

\* An answer is numbered past all that are there, so that none unread is lost
\* before the manager deletes one (control._answer).
THEOREM UnreadAnswersAreKept == Spec => UnreadAnswersSurvive
<1>. DEFINE Survive == \A r \in replies : ~r.read /\ tidied = {}
                           => \E s \in replies' : s.id = r.id /\ s.number = r.number
<1>1. ASSUME IInv, [Next]_vars
      PROVE  [Survive]_vars
  <2>. SUFFICES ASSUME Next, NEW r \in replies, ~r.read, tidied = {}
                PROVE  \E s \in replies' : s.id = r.id /\ s.number = r.number
    BY <1>1 DEF vars
  <2>. USE <1>1 DEF IInv
  <2>1. CASE Answer
    BY <2>1, AnswerIsNew
  <2>2. ASSUME NEW q \in replies, ReadReply(q)
        PROVE  \E s \in replies' : s.id = r.id /\ s.number = r.number
    <3>1. [q EXCEPT !.read = TRUE].id = q.id /\ [q EXCEPT !.read = TRUE].number = q.number
      BY DEF TypeOK
    <3>. QED  BY <2>2, <3>1 DEF ReadReply
  <2>3. ASSUME NEW q \in replies, DeleteReply(q)
        PROVE  \E s \in replies' : s.id = r.id /\ s.number = r.number
    BY <2>3 DEF DeleteReply
  <2>4. CASE replies' = replies
    BY <2>4
  <2>. QED
    BY <2>1, <2>2, <2>3, <2>4 DEF Next, HubStep, HubBegins, Reject, HandOver, Deliver, Save, Remove,
       Crash, Restart, File, CommandBegins
<1>. QED  BY <1>1, Invariant, PTL DEF Spec, UnreadAnswersSurvive

\* A request leaves control/ parked, or after its answer was written, wherever
\* the hub is killed (control.poll_control, _handle).
THEOREM NothingConsumedUnanswered == Spec => ConsumedOnceAnswered
<1>. DEFINE Answered == \A j \in requests \ requests' : j \in rejected' \/ \E r \in replies \cup tidied : r.id = j.id
<1>1. ASSUME IInv, [Next]_vars
      PROVE  [Answered]_vars
  <2>. SUFFICES ASSUME Next, NEW j \in requests \ requests'
                PROVE  j \in rejected' \/ \E r \in replies \cup tidied : r.id = j.id
    BY <1>1 DEF vars
  <2>. USE <1>1 DEF IInv
  <2>1. CASE Remove
    BY <2>1 DEF Remove, AnswersInOrder
  <2>2. ASSUME NEW k \in requests, Reject(k)
        PROVE  j \in rejected'
    BY <2>2 DEF Reject
  <2>. QED
    BY <2>1, <2>2 DEF Next, HubStep, HubBegins, Take, HandOver, Deliver, Save, Answer,
       Crash, Restart, File, CommandBegins, ReadReply, DeleteReply
<1>. QED  BY <1>1, Invariant, PTL DEF Spec, ConsumedOnceAnswered
=============================================================================
