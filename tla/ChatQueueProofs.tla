-------------------------- MODULE ChatQueueProofs ---------------------------
(***************************************************************************)
(* For any number of members, posts and reads, killed anywhere but inside  *)
(* the counter's write_text: the chat is the ordered log its readers       *)
(* expect, the guard cannot race, and no cursor skips a message.           *)
(***************************************************************************)
EXTENDS ChatQueue, FiniteSetTheorems, TLAPS

\* Where a writer has the flock, and where its number is drawn and not used.
Holding == {"guard", "bump", "truncated", "validate", "write", "check"}
Numbered == {"truncated", "validate", "write"}

HolderHasLock == \A w \in Writer : wpc[w] \in Holding => lock = w

\* The counter is never behind the log, unless it is being rewritten.
CounterAhead ==
    /\ (\A w \in Writer : wpc[w] # "truncated") => \A k \in DOMAIN chat : chat[k].seq <= seqfile
    /\ \A w \in Writer :
          /\ wpc[w] \in Numbered => num[w] > 0 /\ \A k \in DOMAIN chat : chat[k].seq < num[w]
          /\ wpc[w] \in {"validate", "write"} => seqfile = num[w]

\* The log is in the order of its numbers.
Ordered == \A j, k \in DOMAIN chat : j < k => chat[j].seq < chat[k].seq

\* A writer past the guard has room for its message.
RoomForPost ==
    \A w \in Writer : wpc[w] \in {"bump", "truncated", "validate", "write"}
                          => Cardinality(PostsOf(author[w])) < Cap

\* A cursor, or what a read took for one, is 0 or the number of a message in
\* the log; up to it every message was shown.
ReadUpTo(log, seen, c) ==
    /\ c = 0 \/ \E k \in DOMAIN log : log[k].seq = c
    /\ \A k \in DOMAIN log : log[k].seq <= c => k \in seen

ReadersBehind ==
    /\ \A m \in Member : ReadUpTo(chat, shown[m], cursor[m])
    /\ \A r \in Reader :
          /\ ReadUpTo(chat, shown[whose[r]], from[r])
          /\ rpc[r] \in {"mark", "rewrite"} => upto[r] \in DOMAIN chat

QInv == TypeOK /\ HolderHasLock /\ CounterAhead /\ Ordered /\ ReadersBehind

-----------------------------------------------------------------------------
\* No step of a post or of a read leaves the types.
LEMMA TypeStep == QInv /\ [Next]_vars => TypeOK'
<1>. USE DEF TypeOK, writers, readers
<1>. SUFFICES ASSUME QInv, [Next]_vars PROVE TypeOK'
  OBVIOUS
<1>. TypeOK /\ CounterAhead /\ ReadersBehind
  BY DEF QInv
<1>1. CASE UNCHANGED vars
  BY <1>1 DEF vars
<1>2. ASSUME NEW w \in Writer, Begin(w) \/ Lock(w) PROVE TypeOK'
  BY <1>2 DEF Begin, Lock, Goto
<1>3. ASSUME NEW w \in Writer, Guard(w) \/ Validate(w) \/ KillWriter(w) PROVE TypeOK'
  BY <1>3 DEF Guard, Validate, KillWriter, Goto, Unlock
<1>4. ASSUME NEW w \in Writer, Bump(w) PROVE TypeOK'
  BY <1>4 DEF Bump, Goto
<1>11. ASSUME NEW w \in Writer, WriteSeq(w) PROVE TypeOK'
  BY <1>11 DEF WriteSeq, Goto
<1>5. ASSUME NEW w \in Writer, Write(w) PROVE TypeOK'
  <2>1. [seq |-> num[w], member |-> author[w]] \in Message
    BY <1>5 DEF Write, CounterAhead, Numbered, Message
  <2>. QED
    BY <1>5, <2>1 DEF Write, Goto
<1>6. ASSUME NEW w \in Writer, Check(w) PROVE TypeOK'
  BY <1>6 DEF Check, Goto, Unlock
<1>7. ASSUME NEW r \in Reader, ReadCursor(r) \/ KillReader(r) PROVE TypeOK'
  BY <1>7 DEF ReadCursor, KillReader
<1>8. ASSUME NEW r \in Reader, ReadJournal(r) PROVE TypeOK'
  BY <1>8 DEF ReadJournal
<1>9. ASSUME NEW r \in Reader, Truncate(r) PROVE TypeOK'
  BY <1>9 DEF Truncate
<1>10. ASSUME NEW r \in Reader, Rewrite(r) PROVE TypeOK'
  <2>1. upto[r] \in DOMAIN chat
    BY <1>10 DEF Rewrite, ReadersBehind
  <2>2. chat[upto[r]].seq \in Nat
    <3>1. chat \in Seq(Message)
      OBVIOUS
    <3>2. chat[upto[r]] \in Message
      BY <2>1, <3>1
    <3>. QED
      BY <3>2 DEF Message
  <2>3. Fresh(r, upto[r]) \subseteq Nat
    BY DEF Fresh
  <2>. QED
    BY <1>10, <2>2, <2>3 DEF Rewrite
<1>. QED
  BY <1>1, <1>2, <1>3, <1>4, <1>5, <1>6, <1>7, <1>8, <1>9, <1>10, <1>11 DEF Next

\* The flock: nobody is past it without holding it.
LEMMA LockStep == TypeOK /\ HolderHasLock /\ [Next]_vars => HolderHasLock'
<1>. USE DEF HolderHasLock, Holding, TypeOK, writers
<1>. SUFFICES ASSUME TypeOK, HolderHasLock, [Next]_vars PROVE HolderHasLock'
  OBVIOUS
<1>0. NoWriter \notin Writer
  BY ConstantsAssumption
<1>1. CASE UNCHANGED vars
  BY <1>1 DEF vars
<1>2. ASSUME NEW w \in Writer, Begin(w) \/ Lock(w) PROVE HolderHasLock'
  BY <1>0, <1>2 DEF Begin, Lock, Goto
<1>3. ASSUME NEW w \in Writer, Guard(w) \/ Validate(w) \/ KillWriter(w) PROVE HolderHasLock'
  BY <1>3 DEF Guard, Validate, KillWriter, Goto, Unlock
<1>4. ASSUME NEW w \in Writer, Bump(w) \/ WriteSeq(w) \/ Write(w) PROVE HolderHasLock'
  BY <1>4 DEF Bump, WriteSeq, Write, Goto
<1>5. ASSUME NEW w \in Writer, Check(w) PROVE HolderHasLock'
  BY <1>5 DEF Check, Goto, Unlock
<1>6. CASE UNCHANGED <<lock, writers>>
  BY <1>6
<1>7. ASSUME NEW r \in Reader,
             ReadCursor(r) \/ ReadJournal(r) \/ Truncate(r) \/ Rewrite(r) \/ KillReader(r)
      PROVE HolderHasLock'
  BY <1>6, <1>7 DEF ReadCursor, ReadJournal, Truncate, Rewrite, KillReader
<1>. QED
  BY <1>1, <1>2, <1>3, <1>4, <1>5, <1>7 DEF Next

\* What a step does to the log: nothing, or a message under a new number.
LEMMA LogStep ==
    ASSUME QInv, [Next]_vars
    PROVE  \/ chat' = chat
           \/ \E w \in Writer : Write(w)
<1>1. CASE UNCHANGED vars
  BY <1>1 DEF vars
<1>2. ASSUME NEW w \in Writer, Begin(w) \/ Lock(w) \/ Guard(w) \/ Bump(w) \/ WriteSeq(w)
                               \/ Validate(w) \/ Check(w) \/ KillWriter(w)
      PROVE chat' = chat
  BY <1>2 DEF Begin, Lock, Guard, Bump, WriteSeq, Validate, Check, KillWriter
<1>3. ASSUME NEW r \in Reader,
             ReadCursor(r) \/ ReadJournal(r) \/ Truncate(r) \/ Rewrite(r) \/ KillReader(r)
      PROVE chat' = chat
  BY <1>3 DEF ReadCursor, ReadJournal, Truncate, Rewrite, KillReader
<1>. QED
  BY <1>1, <1>2, <1>3 DEF Next

\* A post appends its message, numbered after all others.
AppendsLast(w) ==
    /\ DOMAIN chat = 1..Len(chat) /\ Len(chat) \in Nat
    /\ Len(chat') = Len(chat) + 1 /\ DOMAIN chat' = DOMAIN chat \cup {Len(chat) + 1}
    /\ \A k \in DOMAIN chat : chat'[k] = chat[k] /\ chat[k].seq \in Nat /\ chat[k].seq < num[w]
    /\ chat'[Len(chat) + 1] = [seq |-> num[w], member |-> author[w]]
    /\ chat'[Len(chat) + 1].seq = num[w]
    /\ chat'[Len(chat) + 1].member = author[w]
    /\ num[w] \in Nat \ {0} /\ author[w] \in Member

LEMMA Appended ==
    ASSUME QInv, NEW w \in Writer, Write(w)
    PROVE  AppendsLast(w)
<1>. DEFINE m == [seq |-> num[w], member |-> author[w]]
<1>1. TypeOK /\ CounterAhead
  BY DEF QInv
<1>2. wpc[w] = "write" /\ chat' = Append(chat, m)
  BY DEF Write
<1>3. num[w] \in Nat \ {0} /\ author[w] \in Member /\ \A k \in DOMAIN chat : chat[k].seq < num[w]
  BY <1>1, <1>2 DEF TypeOK, CounterAhead, Numbered
<1>4. chat \in Seq(Message) /\ m \in Message
  BY <1>1, <1>3 DEF TypeOK, Message
<1>7. ASSUME NEW k \in DOMAIN chat PROVE chat[k].seq \in Nat
  <2>1. chat[k] \in Message
    BY <1>4
  <2>. QED
    BY <2>1 DEF Message
<1>5. /\ Len(chat) \in Nat /\ DOMAIN chat = 1..Len(chat)
      /\ Len(chat') = Len(chat) + 1 /\ DOMAIN chat' = 1..(Len(chat) + 1)
      /\ \A k \in DOMAIN chat : chat'[k] = chat[k]
      /\ chat'[Len(chat) + 1] = m
  BY <1>2, <1>4
<1>6. DOMAIN chat' = DOMAIN chat \cup {Len(chat) + 1}
  BY <1>5
<1>. QED
  BY <1>3, <1>5, <1>6, <1>7 DEF AppendsLast

\* The counter is drawn, written and used under one hold of the flock.
LEMMA CounterStep == ~TornSeq /\ QInv /\ [Next]_vars => CounterAhead'
<1>. SUFFICES ASSUME ~TornSeq, QInv, [Next]_vars PROVE CounterAhead'
  OBVIOUS
<1>0. /\ TypeOK /\ HolderHasLock /\ CounterAhead
      /\ \A v, w \in Writer : wpc[v] \in Holding /\ wpc[w] \in Holding => v = w
      /\ \A k \in DOMAIN chat : chat[k].seq \in Nat
  <2>1. TypeOK /\ HolderHasLock /\ CounterAhead
    BY DEF QInv
  <2>2. ASSUME NEW k \in DOMAIN chat PROVE chat[k].seq \in Nat
    <3>1. chat \in Seq(Message)
      BY <2>1 DEF TypeOK
    <3>2. chat[k] \in Message
      BY <3>1
    <3>. QED
      BY <3>2 DEF Message
  <2>. QED
    BY <2>1, <2>2 DEF HolderHasLock
<1>t. /\ wpc \in [Writer -> {"idle", "wait", "guard", "bump", "truncated", "validate", "write",
                             "check", "posted", "refused", "killed"}]
      /\ num \in [Writer -> Nat] /\ seqfile \in Nat
  BY <1>0 DEF TypeOK
<1>. USE DEF CounterAhead, Holding, Numbered
<1>1. CASE UNCHANGED <<chat, seqfile, num, wpc>>
  BY <1>0, <1>1
<1>2. ASSUME NEW w \in Writer, Begin(w) \/ Lock(w) \/ Guard(w) \/ Check(w)
      PROVE CounterAhead'
  BY <1>0, <1>t, <1>2 DEF Begin, Lock, Guard, Check, Goto
<1>3. ASSUME NEW w \in Writer, Bump(w) PROVE CounterAhead'
  <2>1. \A v \in Writer \ {w} : wpc[v] \notin Holding
    BY <1>0, <1>3 DEF Bump
  <2>2. \A k \in DOMAIN chat : chat[k].seq <= seqfile
    BY <1>0, <1>3, <2>1 DEF Bump
  <2>3. \A k \in DOMAIN chat : chat[k].seq < seqfile + 1
    BY <1>0, <1>t, <2>2
  <2>4. /\ wpc' = [wpc EXCEPT ![w] = "truncated"] /\ num' = [num EXCEPT ![w] = seqfile + 1]
        /\ chat' = chat
    BY <1>3 DEF Bump, Goto
  <2>5. wpc'[w] = "truncated" /\ num'[w] = seqfile + 1 /\ seqfile + 1 > 0
    BY <1>t, <2>4
  <2>6. \A v \in Writer \ {w} : wpc'[v] \notin Holding
    BY <1>t, <2>1, <2>4
  <2>. QED
    BY <2>3, <2>4, <2>5, <2>6
<1>4. ASSUME NEW w \in Writer, WriteSeq(w) PROVE CounterAhead'
  <2>1. /\ wpc[w] = "truncated" /\ wpc' = [wpc EXCEPT ![w] = "validate"]
        /\ seqfile' = num[w] /\ num' = num /\ chat' = chat
    BY <1>4 DEF WriteSeq, Goto
  <2>2. \A v \in Writer \ {w} : wpc'[v] \notin Holding
    BY <1>0, <1>t, <2>1
  <2>3. num[w] > 0 /\ \A k \in DOMAIN chat : chat[k].seq < num[w]
    BY <1>0, <2>1
  <2>4. \A k \in DOMAIN chat : chat[k].seq <= num[w]
    BY <1>0, <1>t, <2>3
  <2>. QED
    BY <1>t, <2>1, <2>2, <2>3, <2>4
<1>5. ASSUME NEW w \in Writer, Validate(w) PROVE CounterAhead'
  BY <1>0, <1>t, <1>5 DEF Validate, Goto
<1>6. ASSUME NEW w \in Writer, KillWriter(w) PROVE CounterAhead'
  <2>1. wpc[w] # "truncated" /\ wpc' = [wpc EXCEPT ![w] = "killed"]
        /\ UNCHANGED <<chat, seqfile, num>>
    BY <1>6 DEF KillWriter, Goto, writers
  <2>. QED
    BY <1>0, <1>t, <2>1
<1>7. ASSUME NEW w \in Writer, Write(w) PROVE CounterAhead'
  <2>1. /\ wpc[w] = "write" /\ wpc' = [wpc EXCEPT ![w] = "check"]
        /\ seqfile' = seqfile /\ num' = num
    BY <1>7 DEF Write, Goto
  <2>2. \A v \in Writer : wpc'[v] \notin Numbered /\ wpc'[v] # "truncated"
    BY <1>0, <1>t, <2>1
  <2>3. seqfile = num[w]
    BY <1>0, <2>1
  <2>4. \A k \in DOMAIN chat' : chat'[k].seq <= num[w]
    <3>1. AppendsLast(w)
      BY <1>7, Appended
    <3>. QED
      BY <1>t, <3>1 DEF AppendsLast
  <2>. QED
    BY <2>1, <2>2, <2>3, <2>4
<1>8. ASSUME NEW r \in Reader,
             ReadCursor(r) \/ ReadJournal(r) \/ Truncate(r) \/ Rewrite(r) \/ KillReader(r)
      PROVE CounterAhead'
  BY <1>1, <1>8 DEF ReadCursor, ReadJournal, Truncate, Rewrite, KillReader, writers
<1>. QED
  BY <1>1, <1>2, <1>3, <1>4, <1>5, <1>6, <1>7, <1>8 DEF Next, vars, writers

\* A message goes behind the ones there are, with a larger number.
LEMMA OrderStep == QInv /\ [Next]_vars => Ordered'
<1>. SUFFICES ASSUME QInv, [Next]_vars PROVE Ordered'
  OBVIOUS
<1>1. Ordered
  BY DEF QInv
<1>2. CASE chat' = chat
  BY <1>1, <1>2 DEF Ordered
<1>3. ASSUME NEW w \in Writer, Write(w) PROVE Ordered'
  <2>. AppendsLast(w)
    BY <1>3, Appended
  <2>. USE DEF AppendsLast
  <2>. SUFFICES ASSUME NEW j \in DOMAIN chat', NEW k \in DOMAIN chat', j < k
                PROVE  chat'[j].seq < chat'[k].seq
    BY DEF Ordered
  <2>1. j \in DOMAIN chat
    OBVIOUS
  <2>2. CASE k \in DOMAIN chat
    BY <1>1, <2>1, <2>2 DEF Ordered
  <2>3. CASE k = Len(chat) + 1
    BY <2>1, <2>3
  <2>. QED
    BY <2>2, <2>3
<1>. QED
  BY <1>2, <1>3, LogStep

\* A step adds no message at or under a number that is already in the log, and
\* takes nothing back that was shown: what ReadUpTo says stays true.
LEMMA ReadUpToStays ==
    ASSUME QInv, [Next]_vars, NEW m \in Member, shown[m] \subseteq shown'[m],
           NEW c \in Nat, ReadUpTo(chat, shown[m], c)
    PROVE  ReadUpTo(chat', shown'[m], c)
<1>1. CASE chat' = chat
  BY <1>1 DEF ReadUpTo
<1>2. ASSUME NEW w \in Writer, Write(w) PROVE ReadUpTo(chat', shown'[m], c)
  <2>. AppendsLast(w)
    BY <1>2, Appended
  <2>. USE DEF AppendsLast, ReadUpTo
  <2>1. c = 0 \/ \E k \in DOMAIN chat' : chat'[k].seq = c
    OBVIOUS
  <2>2. c < num[w]
    OBVIOUS
  <2>3. \A k \in DOMAIN chat' : chat'[k].seq <= c => k \in shown'[m]
    BY <2>2
  <2>. QED
    BY <2>1, <2>3
<1>. QED
  BY <1>1, <1>2, LogStep

\* Nothing shown is taken back.
LEMMA ShownGrows ==
    ASSUME TypeOK, [Next]_vars, NEW m \in Member
    PROVE  shown[m] \subseteq shown'[m]
<1>. USE DEF readers
<1>1. CASE UNCHANGED vars
  BY <1>1 DEF vars
<1>2. ASSUME NEW w \in Writer, Begin(w) \/ Lock(w) \/ Guard(w) \/ Bump(w) \/ WriteSeq(w)
                               \/ Validate(w) \/ Write(w) \/ Check(w) \/ KillWriter(w)
      PROVE shown' = shown
  BY <1>2 DEF Begin, Lock, Guard, Bump, WriteSeq, Validate, Write, Check, KillWriter
<1>3. ASSUME NEW r \in Reader, ReadCursor(r) \/ ReadJournal(r) \/ Truncate(r) \/ KillReader(r)
      PROVE shown' = shown
  BY <1>3 DEF ReadCursor, ReadJournal, Truncate, KillReader
<1>4. ASSUME NEW r \in Reader, Rewrite(r) PROVE shown[m] \subseteq shown'[m]
  BY <1>4 DEF Rewrite, TypeOK
<1>. QED
  BY <1>1, <1>2, <1>3, <1>4 DEF Next

\* Every cursor, and every read that is under way, goes on naming a message of
\* the log, or none, behind which all were shown.
LEMMA ReadersStep == QInv /\ [Next]_vars => ReadersBehind'
<1>. SUFFICES ASSUME QInv, [Next]_vars PROVE ReadersBehind'
  OBVIOUS
<1>1. /\ TypeOK /\ ReadersBehind
      /\ cursor \in [Member -> Nat] /\ whose \in [Reader -> Member] /\ from \in [Reader -> Nat]
      /\ upto \in [Reader -> Nat] /\ shown \in [Member -> SUBSET Nat]
      /\ rpc \in [Reader -> {"idle", "read", "mark", "rewrite", "done", "killed"}]
  BY DEF QInv, TypeOK
<1>2. DOMAIN chat = 1..Len(chat) /\ Len(chat) \in Nat /\ DOMAIN chat \subseteq DOMAIN chat'
  <2>1. DOMAIN chat = 1..Len(chat) /\ Len(chat) \in Nat
    BY <1>1 DEF TypeOK
  <2>. QED
    BY <2>1, LogStep, Appended DEF AppendsLast
<1>3. ASSUME NEW m \in Member
      PROVE  /\ ReadUpTo(chat', shown'[m], cursor[m])
             /\ \A r \in Reader : whose[r] = m => ReadUpTo(chat', shown'[m], from[r])
  BY <1>1, ShownGrows, ReadUpToStays DEF ReadersBehind
<1>4. ASSUME NEW m \in Member PROVE ReadUpTo(chat', shown'[m], 0)
  <2>1. chat' \in Seq(Message)
    BY TypeStep DEF TypeOK
  <2>2. ASSUME NEW k \in DOMAIN chat' PROVE chat'[k] \in Message
    BY <2>1, <2>2
  <2>3. ASSUME NEW k \in DOMAIN chat' PROVE ~(chat'[k].seq <= 0)
    BY <2>2, <2>3 DEF Message
  <2>. QED
    BY <2>3 DEF ReadUpTo
<1>. USE DEF ReadersBehind
<1>5. CASE UNCHANGED readers
  BY <1>1, <1>2, <1>3, <1>5 DEF readers
<1>6. ASSUME NEW w \in Writer, Begin(w) \/ Lock(w) \/ Guard(w) \/ Bump(w) \/ WriteSeq(w)
                               \/ Validate(w) \/ Write(w) \/ Check(w) \/ KillWriter(w)
      PROVE UNCHANGED readers
  BY <1>6 DEF Begin, Lock, Guard, Bump, WriteSeq, Validate, Write, Check, KillWriter
<1>7. ASSUME NEW r \in Reader, ReadCursor(r) PROVE ReadersBehind'
  <2>1. /\ from' = [from EXCEPT ![r] = cursor[whose[r]]] /\ rpc' = [rpc EXCEPT ![r] = "read"]
        /\ UNCHANGED <<chat, cursor, whose, upto, shown>>
    BY <1>7 DEF ReadCursor
  <2>. QED
    BY <1>1, <1>2, <1>3, <2>1
<1>8. ASSUME NEW r \in Reader, ReadJournal(r) PROVE ReadersBehind'
  <2>1. /\ upto' = [upto EXCEPT ![r] = Len(chat)]
        /\ rpc' = [rpc EXCEPT ![r] = IF Fresh(r, Len(chat)) = {} THEN "done" ELSE "mark"]
        /\ UNCHANGED <<chat, cursor, whose, from, shown>>
    BY <1>8 DEF ReadJournal
  <2>2. Fresh(r, Len(chat)) # {} => Len(chat) \in DOMAIN chat
    BY <1>2 DEF Fresh
  <2>. QED
    BY <1>1, <1>2, <1>3, <2>1, <2>2
<1>9. ASSUME NEW r \in Reader, Truncate(r) PROVE ReadersBehind'
  <2>1. /\ rpc[r] = "mark" /\ rpc' = [rpc EXCEPT ![r] = "rewrite"]
        /\ cursor' = [cursor EXCEPT ![whose[r]] = 0]
        /\ UNCHANGED <<chat, whose, from, upto, shown>>
    BY <1>9 DEF Truncate
  <2>. QED
    BY <1>1, <1>2, <1>3, <1>4, <2>1
<1>10. ASSUME NEW r \in Reader, Rewrite(r) PROVE ReadersBehind'
  <2>. DEFINE m == whose[r]
              c == chat[upto[r]].seq
  <2>1. /\ rpc[r] = "rewrite" /\ rpc' = [rpc EXCEPT ![r] = "done"]
        /\ cursor' = [cursor EXCEPT ![m] = c]
        /\ shown' = [shown EXCEPT ![m] = @ \cup Fresh(r, upto[r])]
        /\ UNCHANGED <<chat, whose, from, upto>>
    BY <1>10 DEF Rewrite
  <2>2. m \in Member /\ upto[r] \in DOMAIN chat /\ upto[r] \in Nat
    BY <1>1, <2>1
  <2>3. ASSUME NEW k \in DOMAIN chat, chat[k].seq <= c PROVE k \in shown'[m]
    <3>1. k <= upto[r]
      <4>1. ASSUME upto[r] < k PROVE FALSE
        <5>1. chat[upto[r]].seq < chat[k].seq
          BY <2>2, <4>1 DEF QInv, Ordered
        <5>2. chat[upto[r]] \in Message /\ chat[k] \in Message
          <6>. chat \in Seq(Message)
            BY <1>1 DEF TypeOK
          <6>. QED
            BY <2>2
        <5>. QED
          BY <2>3, <5>1, <5>2 DEF Message
      <4>. QED
        BY <1>2, <2>2, <4>1
    <3>2. CASE chat[k].seq <= from[r]
      BY <1>1, <2>1, <2>2, <3>2 DEF ReadUpTo
    <3>3. CASE chat[k].seq > from[r]
      BY <1>1, <1>2, <2>1, <2>2, <3>1, <3>3 DEF Fresh
    <3>4. chat[k] \in Message
      <4>. chat \in Seq(Message)
        BY <1>1 DEF TypeOK
      <4>. QED
        OBVIOUS
    <3>. QED
      BY <1>1, <3>2, <3>3, <3>4 DEF Message
  <2>4. ReadUpTo(chat', shown'[m], cursor'[m])
    <3>1. cursor'[m] = c /\ chat' = chat
      BY <1>1, <2>1, <2>2
    <3>. QED
      BY <2>2, <2>3, <3>1 DEF ReadUpTo
  <2>5. \A n \in Member \ {m} : cursor'[n] = cursor[n]
    BY <1>1, <2>1
  <2>. QED
    BY <1>1, <1>2, <1>3, <2>1, <2>2, <2>4, <2>5
<1>11. ASSUME NEW r \in Reader, KillReader(r) PROVE ReadersBehind'
  <2>1. /\ rpc' = [rpc EXCEPT ![r] = "killed"]
        /\ UNCHANGED <<chat, cursor, whose, from, upto, shown>>
    BY <1>11 DEF KillReader
  <2>. QED
    BY <1>1, <1>2, <1>3, <2>1
<1>12. CASE UNCHANGED vars
  BY <1>5, <1>12 DEF vars
<1>. QED
  BY <1>5, <1>6, <1>7, <1>8, <1>9, <1>10, <1>11, <1>12 DEF Next

\* The invariant holds of every behaviour in which no kill tears the counter.
LEMMA Invariance == ~TornSeq => (Spec => []QInv)
<1>. SUFFICES ASSUME ~TornSeq PROVE Spec => []QInv
  OBVIOUS
<1>1. Init => QInv
  BY DEF Init, QInv, TypeOK, Message, HolderHasLock, Holding, CounterAhead, Numbered, Ordered,
         ReadersBehind, ReadUpTo
<1>2. QInv /\ [Next]_vars => QInv'
  BY TypeStep, LockStep, CounterStep, OrderStep, ReadersStep DEF QInv
<1>. QED
  BY <1>1, <1>2, PTL DEF Spec

-----------------------------------------------------------------------------
\* queue.py keeps what chat.jsonl promises, "seq IS the total order": whatever
\* posts race and wherever they are killed, outside the counter's write_text,
\* the log only grows, and by larger numbers.
THEOREM ChatIsAnOrderedLog == ~TornSeq => (Spec => ImplementsOrderedLog)
<1>. SUFFICES ASSUME ~TornSeq PROVE Spec => Log!Spec
  BY DEF ImplementsOrderedLog
<1>1. Init => Log!Init
  BY DEF Init, Log!Init
<1>2. QInv /\ [Next]_vars => [Log!Post]_chat
  <2>. SUFFICES ASSUME QInv, NEW w \in Writer, Write(w) PROVE Log!Post
    BY LogStep
  <2>1. AppendsLast(w)
    BY Appended
  <2>2. chat' = Append(chat, [seq |-> num[w], member |-> author[w]])
    BY DEF Write
  <2>. QED
    BY <2>1, <2>2 DEF AppendsLast, Log!Post, Log!Entry
<1>. QED
  BY <1>1, <1>2, Invariance, PTL DEF Spec, Log!Spec

\* A message is shown to a member before its cursor passes it (read_new): no
\* read, raced or killed, makes a member miss a post.
THEOREM NoPostMissed == ~TornSeq => (Spec => []NothingSkipped)
<1>1. QInv => NothingSkipped
  BY DEF QInv, ReadersBehind, ReadUpTo, NothingSkipped
<1>. QED
  BY <1>1, Invariance, PTL

-----------------------------------------------------------------------------
\* A member's posts can be counted.
LEMMA PostsAreFinite ==
    ASSUME QInv, NEW m \in Member
    PROVE  IsFiniteSet(PostsOf(m))
<1>1. Len(chat) \in Int /\ 1 \in Int /\ PostsOf(m) \subseteq 1..Len(chat)
  BY DEF QInv, TypeOK, PostsOf
<1>2. IsFiniteSet(1..Len(chat))
  BY <1>1, FS_Interval
<1>. QED
  BY <1>1, <1>2, FS_Subset

\* The posts of a member after one more message.
LEMMA OnePostMore ==
    ASSUME QInv, NEW w \in Writer, Write(w), NEW m \in Member
    PROVE  /\ Cardinality(PostsOf(m)) \in Nat
           /\ m = author[w] => Cardinality(PostsOf(m)') = Cardinality(PostsOf(m)) + 1
           /\ m # author[w] => PostsOf(m)' = PostsOf(m)
<1>. AppendsLast(w)
  BY Appended
<1>1. IsFiniteSet(PostsOf(m)) /\ Cardinality(PostsOf(m)) \in Nat
  BY PostsAreFinite, FS_CardinalityType
<1>2. CASE m = author[w]
  <2>1. PostsOf(m)' = PostsOf(m) \cup {Len(chat) + 1}
    BY <1>2 DEF AppendsLast, PostsOf
  <2>2. Len(chat) + 1 \notin PostsOf(m)
    BY DEF AppendsLast, PostsOf
  <2>3. Cardinality(PostsOf(m) \cup {Len(chat) + 1}) = Cardinality(PostsOf(m)) + 1
    BY <1>1, <2>2, FS_AddElement
  <2>. QED
    BY <1>1, <1>2, <2>1, <2>3
<1>3. CASE m # author[w]
  <2>1. PostsOf(m)' = PostsOf(m)
    BY <1>3 DEF AppendsLast, PostsOf
  <2>. QED
    BY <1>1, <1>3, <2>1
<1>. QED
  BY <1>2, <1>3

\* What the guard counted stays true until the message is written: only the
\* holder of the flock writes.
LEMMA RoomStep == QInv /\ RoomForPost /\ CapHolds /\ [Next]_vars => RoomForPost' /\ CapHolds'
<1>. SUFFICES ASSUME QInv, RoomForPost, CapHolds, [Next]_vars PROVE RoomForPost' /\ CapHolds'
  OBVIOUS
<1>1. /\ HolderHasLock
      /\ author \in [Writer -> Member]
      /\ wpc \in [Writer -> {"idle", "wait", "guard", "bump", "truncated", "validate", "write",
                             "check", "posted", "refused", "killed"}]
  BY DEF QInv, TypeOK
<1>. USE DEF RoomForPost, CapHolds
<1>2. CASE UNCHANGED <<chat, author, wpc>>
  BY <1>1, <1>2 DEF PostsOf
<1>3. ASSUME NEW w \in Writer, Begin(w) \/ Lock(w) \/ Check(w) \/ KillWriter(w) \/ Guard(w)
      PROVE RoomForPost' /\ CapHolds'
  <2>1. UNCHANGED <<chat, author>>
    BY <1>3 DEF Begin, Lock, Check, KillWriter, Guard
  <2>2. \A m : PostsOf(m)' = PostsOf(m)
    BY <2>1 DEF PostsOf
  <2>3. \A v \in Writer \ {w} : wpc'[v] = wpc[v]
    BY <1>1, <1>3 DEF Begin, Lock, Check, KillWriter, Guard, Goto
  <2>4. wpc'[w] \in {"bump", "truncated", "validate", "write"}
            => Cardinality(PostsOf(author[w])) < Cap
    BY <1>1, <1>3 DEF Begin, Lock, Check, KillWriter, Guard, Goto
  <2>. QED
    BY <2>1, <2>2, <2>3, <2>4
<1>4. ASSUME NEW w \in Writer, Bump(w) \/ WriteSeq(w) \/ Validate(w)
      PROVE RoomForPost' /\ CapHolds'
  <2>1. UNCHANGED <<chat, author>> /\ wpc[w] \in {"bump", "truncated", "validate"}
    BY <1>4 DEF Bump, WriteSeq, Validate
  <2>2. \A m : PostsOf(m)' = PostsOf(m)
    BY <2>1 DEF PostsOf
  <2>3. \A v \in Writer \ {w} : wpc'[v] = wpc[v]
    BY <1>1, <1>4 DEF Bump, WriteSeq, Validate, Goto
  <2>. QED
    BY <2>1, <2>2, <2>3
<1>5. ASSUME NEW w \in Writer, Write(w) PROVE RoomForPost' /\ CapHolds'
  <2>1. /\ wpc[w] = "write" /\ wpc' = [wpc EXCEPT ![w] = "check"] /\ author' = author
    BY <1>5 DEF Write, Goto
  <2>2. \A v \in Writer : wpc'[v] \notin {"bump", "truncated", "validate", "write"}
    BY <1>1, <2>1 DEF HolderHasLock, Holding
  <2>3. ASSUME NEW m \in Member PROVE Cardinality(PostsOf(m)') <= Cap
    <3>1. Cap \in Nat
      BY ConstantsAssumption
    <3>2. CASE m = author[w]
      <4>1. Cardinality(PostsOf(m)) < Cap
        BY <1>1, <2>1, <3>2
      <4>. QED
        BY <1>5, <3>1, <3>2, <4>1, OnePostMore
    <3>3. CASE m # author[w]
      BY <1>5, <3>3, OnePostMore
    <3>. QED
      BY <3>2, <3>3
  <2>. QED
    BY <2>2, <2>3
<1>6. ASSUME NEW r \in Reader,
             ReadCursor(r) \/ ReadJournal(r) \/ Truncate(r) \/ Rewrite(r) \/ KillReader(r)
      PROVE UNCHANGED <<chat, author, wpc>>
  BY <1>6 DEF ReadCursor, ReadJournal, Truncate, Rewrite, KillReader, writers
<1>. QED
  BY <1>2, <1>3, <1>4, <1>5, <1>6 DEF Next, vars, writers

\* At the start nobody has posted or is past the guard.
LEMMA RoomInit == Init => RoomForPost /\ CapHolds
<1>. SUFFICES ASSUME Init PROVE RoomForPost /\ CapHolds
  OBVIOUS
<1>0. DOMAIN chat = {}
  BY DEF Init
<1>1. \A m : PostsOf(m) = {}
  BY <1>0 DEF PostsOf
<1>2. Cardinality({}) = 0 /\ Cap \in Nat
  BY FS_EmptySet, ConstantsAssumption
<1>. QED
  <2>1. \A w \in Writer : wpc[w] = "idle"
    BY DEF Init
  <2>2. \A m : Cardinality(PostsOf(m)) = 0
    BY <1>1, <1>2
  <2>3. CapHolds
    BY <1>2, <2>2 DEF CapHolds
  <2>4. RoomForPost
    BY <2>1 DEF RoomForPost
  <2>. QED
    BY <2>3, <2>4

\* The guard cannot race (queue.append_with): however many posts of a member
\* are started at once, no more than its cap ever reach the log.
THEOREM CapIsNeverExceeded == ~TornSeq => (Spec => []CapHolds)
<1>. SUFFICES ASSUME ~TornSeq PROVE Spec => []CapHolds
  OBVIOUS
<1>2. QInv /\ (RoomForPost /\ CapHolds) /\ [Next]_vars => (RoomForPost /\ CapHolds)'
  BY RoomStep
<1>. QED
  BY <1>2, RoomInit, Invariance, PTL DEF Spec

-----------------------------------------------------------------------------
\* Once a check saw everybody's message, nobody is past the guard.
Completed ==
    /\ sawAll # {} =>
          /\ \A m \in Member : PostsOf(m) # {}
          /\ \A w \in Writer : wpc[w] \notin {"bump", "truncated", "validate", "write", "check"}
    /\ \A v, w \in sawAll : v = w

\* With one message each, a member whose message is there is at its cap.
LEMMA CompletedStep ==
    ASSUME Cap = 1, QInv, RoomForPost, Completed, [Next]_vars
    PROVE  Completed'
<1>1. /\ \A v, w \in Writer : wpc[v] \in Holding /\ wpc[w] \in Holding => v = w
      /\ author \in [Writer -> Member]
      /\ wpc \in [Writer -> {"idle", "wait", "guard", "bump", "truncated", "validate", "write",
                             "check", "posted", "refused", "killed"}]
      /\ sawAll \subseteq Writer
  BY DEF QInv, TypeOK, HolderHasLock
<1>2. CASE UNCHANGED <<chat, wpc, sawAll>>
  BY <1>2 DEF Completed, PostsOf
<1>3. ASSUME NEW w \in Writer, Begin(w) \/ Lock(w) \/ KillWriter(w) \/ Bump(w) \/ WriteSeq(w) \/ Validate(w)
      PROVE Completed'
  <2>1. UNCHANGED <<chat, sawAll>>
    BY <1>3 DEF Begin, Lock, KillWriter, Bump, WriteSeq, Validate
  <2>2. \A m : PostsOf(m)' = PostsOf(m)
    BY <2>1 DEF PostsOf
  <2>3. \A v \in Writer \ {w} : wpc'[v] = wpc[v]
    BY <1>1, <1>3 DEF Begin, Lock, KillWriter, Bump, WriteSeq, Validate, Goto
  <2>4. wpc[w] \notin {"bump", "truncated", "validate", "write", "check"}
            => wpc'[w] \notin {"bump", "truncated", "validate", "write", "check"}
    BY <1>1, <1>3 DEF Begin, Lock, KillWriter, Bump, WriteSeq, Validate, Goto
  <2>. QED
    BY <2>1, <2>2, <2>3, <2>4 DEF Completed
<1>4. ASSUME NEW w \in Writer, Guard(w) PROVE Completed'
  <2>1. /\ UNCHANGED <<chat, sawAll>>
        /\ wpc' = [wpc EXCEPT ![w] = IF Cardinality(PostsOf(author[w])) < 1 THEN "bump" ELSE "refused"]
    BY <1>4 DEF Guard, Goto
  <2>2. \A m : PostsOf(m)' = PostsOf(m)
    BY <2>1 DEF PostsOf
  <2>3. ASSUME sawAll # {} PROVE ~(Cardinality(PostsOf(author[w])) < 1)
    <3>1. author[w] \in Member /\ PostsOf(author[w]) # {}
      BY <1>1, <2>3 DEF Completed
    <3>2. IsFiniteSet(PostsOf(author[w]))
      BY <3>1, PostsAreFinite
    <3>3. Cardinality(PostsOf(author[w])) \in Nat /\ Cardinality(PostsOf(author[w])) # 0
      BY <3>1, <3>2, FS_CardinalityType, FS_EmptySet
    <3>. QED
      BY <3>3
  <2>4. sawAll # {} => \A v \in Writer : wpc'[v] \notin {"bump", "truncated", "validate", "write", "check"}
    BY <1>1, <2>1, <2>3 DEF Completed
  <2>. QED
    BY <2>1, <2>2, <2>4 DEF Completed
<1>5. ASSUME NEW w \in Writer, Write(w) PROVE Completed'
  BY <1>1, <1>5 DEF Write, Completed
<1>6. ASSUME NEW w \in Writer, Check(w) PROVE Completed'
  <2>1. /\ wpc[w] = "check" /\ wpc' = [wpc EXCEPT ![w] = "posted"] /\ chat' = chat
        /\ sawAll' = IF \A m \in Member : PostsOf(m) # {} THEN sawAll \cup {w} ELSE sawAll
    BY <1>6 DEF Check, Goto
  <2>2. sawAll = {}
    BY <2>1 DEF Completed
  <2>3. \A m : PostsOf(m)' = PostsOf(m)
    BY <2>1 DEF PostsOf
  <2>4. \A v \in Writer : wpc'[v] \notin {"bump", "truncated", "validate", "write", "check"}
    BY <1>1, <2>1 DEF Holding
  <2>5. sawAll' # {} => (\A m \in Member : PostsOf(m) # {})
    BY <2>1, <2>2
  <2>6. \A u, v \in sawAll' : u = v
    BY <2>1, <2>2
  <2>. QED
    BY <2>3, <2>4, <2>5, <2>6 DEF Completed
<1>7. ASSUME NEW r \in Reader,
             ReadCursor(r) \/ ReadJournal(r) \/ Truncate(r) \/ Rewrite(r) \/ KillReader(r)
      PROVE UNCHANGED <<chat, wpc, sawAll>>
  BY <1>7 DEF ReadCursor, ReadJournal, Truncate, Rewrite, KillReader, writers
<1>. QED
  BY <1>2, <1>3, <1>4, <1>5, <1>6, <1>7 DEF Next, vars, writers

\* "Of N racing repliers exactly ONE sees the count hit its threshold": the
\* check runs under the flock of the write, so two posts never both find
\* themselves the last.
THEOREM OneSeesTheThreshold == ~TornSeq => (Spec => []OneCompleter)
<1>. SUFFICES ASSUME ~TornSeq PROVE Spec => []OneCompleter
  OBVIOUS
<1>1. CASE Cap = 1
  <2>1. Init => RoomForPost /\ CapHolds /\ Completed
    <3>1. Init => Completed
      BY DEF Init, Completed
    <3>. QED
      BY <3>1, RoomInit
  <2>2. QInv /\ (RoomForPost /\ CapHolds /\ Completed) /\ [Next]_vars
            => (RoomForPost /\ CapHolds /\ Completed)'
    BY <1>1, RoomStep, CompletedStep
  <2>3. Completed => OneCompleter
    BY DEF Completed, OneCompleter
  <2>. QED
    BY <2>1, <2>2, <2>3, Invariance, PTL DEF Spec
<1>2. CASE Cap # 1
  <2>1. OneCompleter
    BY <1>2 DEF OneCompleter
  <2>. QED
    BY <2>1, PTL
<1>. QED
  BY <1>1, <1>2

\* What append_with promises of racing posts: each one's guard, append and check
\* act as one step to every other, so that caps hold and one post completes.
THEOREM PostsDoNotRace == ~TornSeq => (Spec => []AppendsAreAtomic)
<1>. SUFFICES ASSUME ~TornSeq PROVE Spec => []AppendsAreAtomic
  OBVIOUS
<1>1. QInv /\ CapHolds /\ OneCompleter => AppendsAreAtomic
  BY DEF QInv, AppendsAreAtomic
<1>. QED
  BY <1>1, Invariance, CapIsNeverExceeded, OneSeesTheThreshold, PTL
=============================================================================
