------------------------- MODULE ClusterGatesProofs -------------------------
(***************************************************************************)
(* A gate's rows are within its rules for any members, caps, timers and    *)
(* hand-run checks, restarts included.  A thread only grows at its end, so *)
(* the rules are kept row by row (RowAdded); that the absent were asked    *)
(* rests on the order of open_gate: append, pings, timers.                 *)
(***************************************************************************)
EXTENDS ClusterGates, FiniteSetTheorems, TLAPS

\* A check typed by hand does not come before the opener's pings are through,
\* at least not one for which the gate's time is up.
ChecksComeLater == ByHand = {} \/ CloseAfter > 1

\* The opener's command comes first: pings before timers.
OpenedInOrder ==
    /\ ~Opened(thread) => clock = 0
    /\ opening.on => clock <= 1 /\ Opened(thread)
    /\ opening.left # {} => opening.on
    /\ \A f \in Fork : due[f] # NotPlanted => Opened(thread) /\ ~opening.on

\* Whom a fork will record was asked.
AskedFirst ==
    restarts = 0 =>
        /\ Opened(thread) => Required \subseteq asked \cup opening.left
        /\ \A f \in Fork : fork[f].todo \subseteq asked
        /\ By(thread, "timeout") \subseteq asked

IInv ==
    /\ TypeOK /\ OpenedInOrder /\ OneTimeoutRowEach /\ RepliesAreGuarded
    /\ ChecksComeLater => AskedFirst

-----------------------------------------------------------------------------
RepliesOf(th, m) == {k \in Rows(th, "reply") : th[k].member = m}

Kind == {"open", "reply", "timeout", "close", "free"}

\* The rows of a thread are finitely many (Rows, By).
LEMMA RowsFinite ==
    ASSUME NEW th \in Seq(Message), NEW kind
    PROVE  /\ Rows(th, kind) \subseteq 1..Len(th)
           /\ \A S \in SUBSET Rows(th, kind) : IsFiniteSet(S) /\ Cardinality(S) \in Nat
<1>1. Rows(th, kind) \subseteq 1..Len(th) /\ Len(th) \in Nat
  BY DEF Rows
<1>2. IsFiniteSet(1..Len(th))
  BY <1>1, FS_Interval
<1>3. ASSUME NEW S \in SUBSET Rows(th, kind)
      PROVE  IsFiniteSet(S) /\ Cardinality(S) \in Nat
  <2>1. S \in SUBSET (1..Len(th))
    BY <1>1
  <2>. QED  BY <1>2, <2>1, FS_Subset, FS_CardinalityType
<1>. QED  BY <1>1, <1>3

\* What one more row adds to the rows of its kind, and to no other (Row).
LEMMA RowAdded ==
    ASSUME TypeOK, NEW kind \in Kind, NEW m \in Member, thread' = Row(kind, m)
    PROVE  /\ thread' \in Seq(Message) /\ Len(thread) \in Nat
           /\ \A k \in DOMAIN thread : thread'[k] = thread[k] /\ k \in DOMAIN thread' /\ k < Len(thread) + 1
           /\ thread'[Len(thread) + 1].member = m
           /\ \A o : Rows(thread', o) = IF o = kind THEN Rows(thread, o) \cup {Len(thread) + 1} ELSE Rows(thread, o)
           /\ \A o : By(thread', o) = IF o = kind THEN By(thread, o) \cup {m} ELSE By(thread, o)
<1>. DEFINE row == [kind |-> kind, member |-> m]
            last == Len(thread) + 1
<1>1. thread \in Seq(Message) /\ row \in Message /\ thread' = Append(thread, row)
  BY DEF TypeOK, Message, Row, Kind
<1>. HIDE DEF row
<1>2. /\ thread' \in Seq(Message) /\ DOMAIN thread' = DOMAIN thread \cup {last}
      /\ DOMAIN thread = 1..Len(thread) /\ Len(thread) \in Nat
      /\ \A k \in DOMAIN thread : thread'[k] = thread[k]
      /\ thread'[last] = row
  BY <1>1
<1>3. row.kind = kind /\ row.member = m
  BY DEF row
<1>4. \A o : Rows(thread', o) = IF o = kind THEN Rows(thread, o) \cup {last} ELSE Rows(thread, o)
  BY <1>2, <1>3 DEF Rows
<1>5. \A o : \A k \in Rows(thread, o) : k \in DOMAIN thread
  BY DEF Rows
<1>6. \A o : By(thread', o) = IF o = kind THEN By(thread, o) \cup {m} ELSE By(thread, o)
  <2>1. SUFFICES ASSUME NEW o
                 PROVE  By(thread', o) = IF o = kind THEN By(thread, o) \cup {m} ELSE By(thread, o)
    OBVIOUS
  <2>2. CASE o = kind
    BY <1>2, <1>3, <1>4, <1>5, <2>2 DEF By
  <2>3. CASE o # kind
    BY <1>2, <1>4, <1>5, <2>3 DEF By
  <2>. QED  BY <2>2, <2>3
<1>. QED  BY <1>2, <1>3, <1>4, <1>6

LEMMA MinOfTwo == ASSUME NEW a \in Int, NEW b \in Int
                  PROVE  Min({a, b}) = IF a <= b THEN a ELSE b
<1>1. \E x \in {a, b} : \A y \in {a, b} : x <= y
  OBVIOUS
<1>. QED  BY <1>1 DEF Min

-----------------------------------------------------------------------------
LEMMA TypesKept == TypeOK /\ OpenedInOrder /\ [Next]_vars => TypeOK'
<1>. SUFFICES ASSUME TypeOK, OpenedInOrder, [Next]_vars
              PROVE  TypeOK'
  OBVIOUS
<1>. USE ConstantsAssumption
<1>0. /\ ReplyCap \in Nat /\ LoopCap \in Nat /\ Nudge \in Nat /\ CloseAfter \in Nat
      /\ MaxClock = CloseAfter + 1 /\ NotPlanted = -1
      /\ Required \subseteq Member /\ Stragglers(thread) \subseteq Required
      /\ {"nudge", "close"} \subseteq Fork
  BY DEF MaxClock, NotPlanted, Required, Stragglers, Fork, Timer
<1>1. ASSUME NEW when, Told(when)
      PROVE  told' \in 0..2
  <2>1. told \in 0..2 /\ PingsTo(told) \in 0..2
    BY MinOfTwo DEF TypeOK, PingsTo
  <2>. QED  BY <1>1, <2>1 DEF Told
<1>2. CASE Open
  BY <1>0, <1>2, RowAdded DEF Open, Kind, TypeOK
<1>3. CASE PlantTimers
  <2>1. clock \in 0..1
    BY <1>3 DEF PlantTimers, OpenedInOrder, TypeOK
  <2>2. Min({clock + Nudge, MaxClock}) \in NotPlanted..MaxClock /\ clock + CloseAfter \in NotPlanted..MaxClock
    BY <1>0, <2>1, MinOfTwo
  <2>3. due' \in [Fork -> NotPlanted..MaxClock]
    BY <1>0, <1>3, <2>2 DEF PlantTimers, TypeOK
  <2>4. opening' \in [on : BOOLEAN, left : SUBSET Member]
    BY <1>3 DEF PlantTimers, NotOpening
  <2>. QED  BY <1>3, <2>3, <2>4 DEF PlantTimers, TypeOK
<1>4. CASE Restart
  <2>1. due' \in [Fork -> NotPlanted..MaxClock] /\ opening' \in [on : BOOLEAN, left : SUBSET Member]
    BY <1>0, <1>4 DEF Restart, NotOpening
  <2>2. fork' \in [Fork -> [pc : {"ready", "rows", "done"}, todo : SUBSET Member]]
    BY <1>4 DEF Restart, TypeOK
  <2>. QED  BY <1>4, <2>1, <2>2 DEF Restart, TypeOK
<1>5. CASE Tick
  BY <1>0, <1>5 DEF Tick, TypeOK
<1>6. ASSUME NEW m \in Member, PingMember(m)
      PROVE  TypeOK'
  BY <1>6 DEF PingMember, TypeOK
<1>7. ASSUME NEW m \in Member, Brief(m)
      PROVE  TypeOK'
  BY <1>7 DEF Brief, TypeOK
<1>8. ASSUME NEW m \in Member, PostReply(m)
      PROVE  TypeOK'
  <2>1. thread' \in Seq(Message)
    BY <1>8, RowAdded DEF PostReply, Kind
  <2>. QED  BY <1>1, <1>8, <2>1 DEF PostReply, TypeOK
<1>9. ASSUME NEW m \in Member, PostFree(m)
      PROVE  TypeOK'
  <2>1. thread' \in Seq(Message)
    BY <1>9, RowAdded DEF PostFree, Kind
  <2>. QED  BY <1>9, <2>1 DEF PostFree, TypeOK
<1>10. ASSUME NEW m \in Member, CloseGate(m)
       PROVE  TypeOK'
  <2>1. thread' \in Seq(Message)
    BY <1>10, RowAdded DEF CloseGate, Kind
  <2>. QED  BY <1>10, <2>1 DEF CloseGate, TypeOK
<1>11. ASSUME NEW f \in Fork, CheckGate(f)
       PROVE  TypeOK'
  <2>. DEFINE Run == [pc : {"ready", "rows", "done"}, todo : SUBSET Member]
              late == [pc |-> "rows", todo |-> Stragglers(thread)]
              ended == [fork[f] EXCEPT !.pc = "done"]
  <2>a. late \in Run /\ ended \in Run /\ fork \in [Fork -> Run]
    <3>1. fork \in [Fork -> Run] /\ fork[f] \in Run
      BY DEF TypeOK
    <3>2. Stragglers(thread) \in SUBSET Member
      BY <1>0
    <3>. QED  BY <3>1, <3>2
  <2>b. fork' = [fork EXCEPT ![f] = late] \/ fork' = [fork EXCEPT ![f] = ended]
    BY <1>11, <2>a DEF CheckGate
  <2>1. fork' \in [Fork -> Run]
    <3>. HIDE DEF Run, late, ended
    <3>. QED  BY <2>a, <2>b
  <2>2. told' \in 0..2 /\ asked' \in SUBSET Member
    BY <1>0, <1>1, <1>11 DEF CheckGate, TypeOK
  <2>. QED  BY <1>11, <2>1, <2>2 DEF CheckGate, TypeOK
<1>12. ASSUME NEW f \in Fork, RecordTimeout(f)
       PROVE  TypeOK'
  <2>1. fork' \in [Fork -> [pc : {"ready", "rows", "done"}, todo : SUBSET Member]]
    BY <1>12 DEF RecordTimeout, TypeOK
  <2>2. PICK m \in fork[f].todo : thread' = IF m \in By(thread, "timeout") THEN thread ELSE Row("timeout", m)
    BY <1>12 DEF RecordTimeout
  <2>3. thread' \in Seq(Message)
    <3>1. m \in Member /\ thread \in Seq(Message)
      BY DEF TypeOK
    <3>. QED  BY <2>2, <3>1, RowAdded DEF Kind
  <2>. QED  BY <1>12, <2>1, <2>3 DEF RecordTimeout, TypeOK
<1>13. ASSUME NEW f \in Fork, PingOpener(f)
       PROVE  TypeOK'
  <2>1. fork' \in [Fork -> [pc : {"ready", "rows", "done"}, todo : SUBSET Member]]
    BY <1>13 DEF PingOpener, TypeOK
  <2>. QED  BY <1>1, <1>13, <2>1 DEF PingOpener, TypeOK
<1>14. CASE UNCHANGED vars
  BY <1>14 DEF vars, TypeOK
<1>. QED
  BY <1>2, <1>3, <1>4, <1>5, <1>6, <1>7, <1>8, <1>9, <1>10, <1>11, <1>12, <1>13, <1>14 DEF Next

\* A thread is left alone, or gains a row of one kind.
LEMMA ThreadSteps ==
    ASSUME TypeOK, [Next]_vars
    PROVE  \/ thread' = thread
           \/ \E kind \in Kind, m \in Member : thread' = Row(kind, m)
<1>1. ASSUME NEW f \in Fork, RecordTimeout(f)
      PROVE  thread' = thread \/ \E m \in Member : thread' = Row("timeout", m)
  BY <1>1 DEF RecordTimeout, TypeOK
<1>. QED
  BY <1>1, ConstantsAssumption
  DEF Next, vars, Open, PlantTimers, Restart, Tick, PingMember, Brief, PostReply, PostFree, CloseGate,
      CheckGate, PingOpener, Kind

\* An opened gate stays opened (load_gate).
LEMMA OpenedStays == ASSUME TypeOK, [Next]_vars, Opened(thread) PROVE Opened(thread')
BY ThreadSteps, RowAdded DEF Opened

LEMMA OpenedInOrderKept == TypeOK /\ OpenedInOrder /\ [Next]_vars => OpenedInOrder'
<1>. SUFFICES ASSUME TypeOK, OpenedInOrder, [Next]_vars
              PROVE  OpenedInOrder'
  OBVIOUS
<1>. USE ConstantsAssumption
<1>0. /\ thread \in Seq(Message) /\ clock \in Nat /\ opening \in [on : BOOLEAN, left : SUBSET Member]
      /\ due \in [Fork -> NotPlanted..MaxClock]
  BY DEF TypeOK, MaxClock
<1>1. CASE Open
  <2>1. Opened(thread') /\ clock = 0 /\ clock' = 0 /\ opening'.on /\ due' = due
    BY <1>1, RowAdded DEF Open, Kind, Opened, OpenedInOrder
  <2>2. \A f \in Fork : due[f] = NotPlanted
    BY <1>1 DEF Open, OpenedInOrder
  <2>. QED  BY <2>1, <2>2 DEF OpenedInOrder
<1>2. CASE PlantTimers \/ Restart
  <2>1. /\ opening'.on = FALSE /\ opening'.left = {} /\ UNCHANGED <<thread, clock>>
        /\ Opened(thread) \/ \A f \in Fork : due'[f] = NotPlanted
    BY <1>2 DEF PlantTimers, Restart, NotOpening, OpenedInOrder
  <2>. QED  BY <2>1 DEF OpenedInOrder
<1>3. CASE Tick
  BY <1>0, <1>3 DEF Tick, OpenedInOrder
<1>4. ASSUME NEW m \in Member, PingMember(m)
      PROVE  OpenedInOrder'
  BY <1>0, <1>4 DEF PingMember, OpenedInOrder
<1>5. ASSUME UNCHANGED <<clock, opening, due>>
      PROVE  OpenedInOrder'
  <2>1. CASE Opened(thread)
    BY <1>5, <2>1, OpenedStays DEF OpenedInOrder
  <2>2. CASE ~Opened(thread)
    BY <1>5, <2>2 DEF OpenedInOrder
  <2>. QED  BY <2>1, <2>2
<1>6. ASSUME NEW m \in Member, Brief(m) \/ PostReply(m) \/ PostFree(m) \/ CloseGate(m)
      PROVE  OpenedInOrder'
  BY <1>5, <1>6 DEF Brief, PostReply, PostFree, CloseGate
<1>7. ASSUME NEW f \in Fork, CheckGate(f) \/ RecordTimeout(f) \/ PingOpener(f)
      PROVE  OpenedInOrder'
  BY <1>5, <1>7 DEF CheckGate, RecordTimeout, PingOpener
<1>8. CASE UNCHANGED vars
  BY <1>5, <1>8 DEF vars
<1>. QED  BY <1>1, <1>2, <1>3, <1>4, <1>6, <1>7, <1>8 DEF Next

\* A member's absence, recorded once; what each kind of row does to the rules.
LEMMA RulesKept ==
    TypeOK /\ OneTimeoutRowEach /\ RepliesAreGuarded /\ [Next]_vars
        => OneTimeoutRowEach' /\ RepliesAreGuarded'
<1>. SUFFICES ASSUME TypeOK, OneTimeoutRowEach, RepliesAreGuarded, [Next]_vars
              PROVE  OneTimeoutRowEach' /\ RepliesAreGuarded'
  OBVIOUS
<1>. USE ConstantsAssumption
<1>. DEFINE last == Len(thread) + 1
<1>0. /\ thread \in Seq(Message) /\ last \in Nat /\ ReplyCap \in Nat /\ LoopCap \in Nat
  BY DEF TypeOK
<1>a. \A kind : \A k \in Rows(thread, kind) : k \in DOMAIN thread /\ k \in Nat /\ k < last
  BY <1>0 DEF Rows
<1>b. \A m : IsFiniteSet(RepliesOf(thread, m))
  <2>1. \A m : RepliesOf(thread, m) \in SUBSET Rows(thread, "reply")
    BY DEF RepliesOf
  <2>. QED  BY <1>0, <2>1, RowsFinite
<1>1. ASSUME thread' = thread
      PROVE  OneTimeoutRowEach' /\ RepliesAreGuarded'
  BY <1>1 DEF OneTimeoutRowEach, RepliesAreGuarded
<1>2. ASSUME NEW kind \in Kind \ {"timeout"}, NEW m \in Member, thread' = Row(kind, m)
      PROVE  OneTimeoutRowEach'
  <2>1. Rows(thread', "timeout") = Rows(thread, "timeout") /\ \A k \in DOMAIN thread : thread'[k] = thread[k]
    BY <1>2, RowAdded
  <2>. QED  BY <1>a, <2>1 DEF OneTimeoutRowEach
<1>3. ASSUME NEW kind \in Kind \ {"reply", "close"}, NEW m \in Member, thread' = Row(kind, m)
      PROVE  RepliesAreGuarded'
  <2>1. /\ Rows(thread', "reply") = Rows(thread, "reply") /\ Rows(thread', "close") = Rows(thread, "close")
        /\ \A k \in Rows(thread, "reply") : thread'[k] = thread[k]
    <3>1. /\ \A o : o # kind => Rows(thread', o) = Rows(thread, o)
          /\ \A k \in DOMAIN thread : thread'[k] = thread[k]
      BY <1>3, RowAdded
    <3>. QED  BY <1>a, <3>1
  <2>2. \A n \in Member : {k \in Rows(thread', "reply") : thread'[k].member = n}
                            = {k \in Rows(thread, "reply") : thread[k].member = n}
    BY <2>1
  <2>. QED  BY <2>1, <2>2 DEF RepliesAreGuarded
<1>4. ASSUME NEW m \in Member, PostReply(m)
      PROVE  RepliesAreGuarded'
  <2>1. /\ Rows(thread', "reply") = Rows(thread, "reply") \cup {last}
        /\ Rows(thread', "close") = Rows(thread, "close") /\ Rows(thread, "close") = {}
        /\ \A k \in Rows(thread, "reply") : thread'[k] = thread[k]
        /\ last \notin Rows(thread, "reply") /\ thread'[last].member = m
    <3>1. thread' = Row("reply", m) /\ Rows(thread, "close") = {} /\ "reply" \in Kind
      BY <1>4 DEF PostReply, Closed, Kind
    <3>2. /\ \A o : Rows(thread', o) = IF o = "reply" THEN Rows(thread, o) \cup {last} ELSE Rows(thread, o)
          /\ \A k \in DOMAIN thread : thread'[k] = thread[k]
          /\ thread'[last].member = m
      BY <3>1, RowAdded
    <3>. QED  BY <1>a, <3>1, <3>2
  <2>2. \A k \in Rows(thread', "reply") : k <= LoopCap
    BY <1>0, <1>4, <2>1 DEF PostReply, RepliesAreGuarded
  <2>3. ASSUME NEW n \in Member
        PROVE  Cardinality(RepliesOf(thread', n)) <= ReplyCap
    <3>1. CASE n # m
      <4>1. RepliesOf(thread', n) = RepliesOf(thread, n)
        BY <2>1, <3>1 DEF RepliesOf
      <4>. QED  BY <4>1 DEF RepliesAreGuarded, RepliesOf
    <3>2. CASE n = m
      <4>1. RepliesOf(thread', n) = RepliesOf(thread, n) \cup {last} /\ last \notin RepliesOf(thread, n)
        BY <2>1, <3>2 DEF RepliesOf
      <4>2. Cardinality(RepliesOf(thread', n)) = Cardinality(RepliesOf(thread, n)) + 1
        BY <1>b, <4>1, FS_AddElement
      <4>3. Cardinality(RepliesOf(thread, n)) < ReplyCap /\ Cardinality(RepliesOf(thread, n)) \in Nat
        BY <1>b, <1>4, <3>2, FS_CardinalityType DEF PostReply, RepliesOf
      <4>. QED  BY <1>0, <4>2, <4>3
    <3>. QED  BY <3>1, <3>2
  <2>4. Cardinality(Rows(thread', "close")) <= 1
    BY <2>1 DEF RepliesAreGuarded
  <2>. QED  BY <2>1, <2>2, <2>3, <2>4 DEF RepliesAreGuarded, RepliesOf
<1>5. ASSUME NEW m \in Member, CloseGate(m)
      PROVE  RepliesAreGuarded'
  <2>1. /\ Rows(thread', "close") = {last} /\ Rows(thread', "reply") = Rows(thread, "reply")
        /\ \A k \in Rows(thread, "reply") : thread'[k] = thread[k] /\ k < last
    <3>1. thread' = Row("close", m) /\ Rows(thread, "close") = {} /\ "close" \in Kind
      BY <1>5 DEF CloseGate, Closed, Kind
    <3>2. /\ \A o : Rows(thread', o) = IF o = "close" THEN Rows(thread, o) \cup {last} ELSE Rows(thread, o)
          /\ \A k \in DOMAIN thread : thread'[k] = thread[k]
      BY <3>1, RowAdded
    <3>. QED  BY <1>a, <3>1, <3>2
  <2>2. Cardinality(Rows(thread', "close")) = 1
    BY <2>1, FS_Singleton
  <2>3. \A n \in Member : {k \in Rows(thread', "reply") : thread'[k].member = n}
                            = {k \in Rows(thread, "reply") : thread[k].member = n}
    BY <2>1
  <2>. QED  BY <2>1, <2>2, <2>3 DEF RepliesAreGuarded
<1>6. ASSUME NEW f \in Fork, RecordTimeout(f)
      PROVE  OneTimeoutRowEach' /\ RepliesAreGuarded'
  <2>1. PICK m \in fork[f].todo : thread' = IF m \in By(thread, "timeout") THEN thread ELSE Row("timeout", m)
    BY <1>6 DEF RecordTimeout
  <2>2. m \in Member
    BY DEF TypeOK
  <2>3. CASE m \notin By(thread, "timeout")
    <3>1. thread' = Row("timeout", m)
      BY <2>1, <2>3
    <3>2. /\ Rows(thread', "timeout") = Rows(thread, "timeout") \cup {last}
          /\ \A k \in Rows(thread, "timeout") : thread'[k].member = thread[k].member /\ thread[k].member # m
          /\ thread'[last].member = m
      <4>1. /\ \A o : Rows(thread', o) = IF o = "timeout" THEN Rows(thread, o) \cup {last} ELSE Rows(thread, o)
            /\ \A k \in DOMAIN thread : thread'[k] = thread[k]
            /\ thread'[last].member = m
        BY <2>2, <3>1, RowAdded DEF Kind
      <4>2. \A k \in Rows(thread, "timeout") : thread[k].member # m
        BY <2>3 DEF By
      <4>. QED  BY <1>a, <4>1, <4>2
    <3>. QED  BY <1>3, <2>2, <3>1, <3>2 DEF OneTimeoutRowEach, Kind
  <2>. QED  BY <1>1, <2>1, <2>3
<1>7. ASSUME NEW m \in Member, PostFree(m)
      PROVE  RepliesAreGuarded' /\ OneTimeoutRowEach'
  BY <1>2, <1>3, <1>7 DEF PostFree, Kind
<1>8. CASE Open
  BY <1>2, <1>3, <1>8 DEF Open, Kind
<1>9. ASSUME NEW m \in Member, PostReply(m) \/ CloseGate(m)
      PROVE  RepliesAreGuarded' /\ OneTimeoutRowEach'
  BY <1>2, <1>4, <1>5, <1>9 DEF PostReply, CloseGate, Kind
<1>. QED
  BY <1>1, <1>6, <1>7, <1>8, <1>9
  DEF Next, vars, PlantTimers, Restart, Tick, PingMember, Brief, CheckGate, PingOpener

-----------------------------------------------------------------------------
\* The rows of absent members are recorded by a fork, for members it read.
LEMMA AbsentRows ==
    ASSUME TypeOK, [Next]_vars
    PROVE  \/ By(thread', "timeout") = By(thread, "timeout")
           \/ \E f \in Fork : \E m \in fork[f].todo :
                 RecordTimeout(f) /\ By(thread', "timeout") = By(thread, "timeout") \cup {m}
<1>1. ASSUME NEW kind \in Kind \ {"timeout"}, NEW m \in Member, thread' = Row(kind, m)
      PROVE  By(thread', "timeout") = By(thread, "timeout")
  BY <1>1, RowAdded
<1>2. ASSUME NEW f \in Fork, RecordTimeout(f)
      PROVE  \/ By(thread', "timeout") = By(thread, "timeout")
             \/ \E m \in fork[f].todo : By(thread', "timeout") = By(thread, "timeout") \cup {m}
  <2>1. PICK m \in fork[f].todo : thread' = IF m \in By(thread, "timeout") THEN thread ELSE Row("timeout", m)
    BY <1>2 DEF RecordTimeout
  <2>2. m \in Member
    BY DEF TypeOK
  <2>. QED  BY <2>1, <2>2, RowAdded DEF Kind
<1>3. ASSUME NEW m \in Member, Open \/ PostReply(m) \/ PostFree(m) \/ CloseGate(m)
      PROVE  By(thread', "timeout") = By(thread, "timeout")
  <2>1. \E kind \in Kind \ {"timeout"}, n \in Member : thread' = Row(kind, n)
    BY <1>3, ConstantsAssumption DEF Open, PostReply, PostFree, CloseGate, Kind
  <2>. QED  BY <1>1, <2>1
<1>4. CASE thread' = thread
  BY <1>4
<1>. QED
  BY <1>2, <1>3, <1>4, ConstantsAssumption
  DEF Next, vars, PlantTimers, Restart, Tick, PingMember, Brief, CheckGate, PingOpener

LEMMA AskedFirstKept ==
    ChecksComeLater /\ TypeOK /\ OpenedInOrder /\ AskedFirst /\ [Next]_vars => AskedFirst'
<1>. SUFFICES ASSUME ChecksComeLater, TypeOK, OpenedInOrder, AskedFirst, [Next]_vars, restarts' = 0
              PROVE  AskedFirst'
  BY DEF AskedFirst
<1>. USE ConstantsAssumption
<1>0. restarts = 0 /\ ~Restart
  <2>1. restarts' = restarts \/ restarts' = restarts + 1
    BY DEF Next, vars, Open, PlantTimers, Restart, Tick, PingMember, Brief, PostReply, PostFree, CloseGate,
       CheckGate, RecordTimeout, PingOpener
  <2>2. restarts \in Nat
    BY DEF TypeOK
  <2>3. ~Restart
    BY <2>2 DEF Restart
  <2>. QED  BY <2>1, <2>2, <2>3
<1>a. /\ Opened(thread) => Required \subseteq asked \cup opening.left
      /\ \A f \in Fork : fork[f].todo \subseteq asked
      /\ By(thread, "timeout") \subseteq asked
      /\ opening \in [on : BOOLEAN, left : SUBSET Member] /\ asked \in SUBSET Member
      /\ fork \in [Fork -> [pc : {"ready", "rows", "done"}, todo : SUBSET Member]]
      /\ clock \in Nat /\ thread \in Seq(Message)
  BY <1>0 DEF AskedFirst, TypeOK, MaxClock
<1>1. asked \subseteq asked'
  BY DEF Next, vars, Open, PlantTimers, Restart, Tick, PingMember, Brief, PostReply, PostFree, CloseGate,
     CheckGate, RecordTimeout, PingOpener
<1>2. Opened(thread') => Required \subseteq asked' \cup opening'.left
  <2>1. CASE Open
    BY <2>1 DEF Open
  <2>2. ASSUME NEW m \in Member, PingMember(m)
        PROVE  Opened(thread') => Required \subseteq asked' \cup opening'.left
    BY <1>a, <2>2 DEF PingMember
  <2>3. CASE PlantTimers
    BY <1>a, <2>3 DEF PlantTimers, NotOpening
  <2>4. ASSUME opening' = opening, Opened(thread') => Opened(thread)
        PROVE  Opened(thread') => Required \subseteq asked' \cup opening'.left
    BY <1>a, <1>1, <2>4
  <2>5. ASSUME NEW m \in Member, PostReply(m) \/ CloseGate(m)
        PROVE  opening' = opening /\ Opened(thread)
    BY <2>5 DEF PostReply, CloseGate
  <2>6. ASSUME NEW m \in Member, PostFree(m)
        PROVE  opening' = opening /\ (Opened(thread') => Opened(thread))
    <3>1. Rows(thread', "open") = Rows(thread, "open")
      BY <2>6, RowAdded DEF PostFree, Kind
    <3>. QED  BY <2>6, <3>1 DEF PostFree, Opened
  <2>7. ASSUME NEW f \in Fork, CheckGate(f) \/ RecordTimeout(f) \/ PingOpener(f)
        PROVE  opening' = opening /\ (Opened(thread') => Opened(thread))
    <3>1. CASE CheckGate(f) \/ PingOpener(f)
      BY <3>1 DEF CheckGate, PingOpener
    <3>2. CASE RecordTimeout(f)
      <4>1. PICK m \in fork[f].todo : thread' = IF m \in By(thread, "timeout") THEN thread ELSE Row("timeout", m)
        BY <3>2 DEF RecordTimeout
      <4>2. m \in Member /\ opening' = opening
        BY <1>a, <3>2 DEF RecordTimeout
      <4>3. Rows(thread', "open") = Rows(thread, "open")
        BY <4>1, <4>2, RowAdded DEF Kind
      <4>. QED  BY <4>2, <4>3 DEF Opened
    <3>. QED  BY <2>7, <3>1, <3>2
  <2>8. CASE Tick \/ UNCHANGED vars \/ \E m \in Member : Brief(m)
    BY <2>4, <2>8 DEF Tick, vars, Brief
  <2>. QED  BY <1>0, <2>1, <2>2, <2>3, <2>4, <2>5, <2>6, <2>7, <2>8 DEF Next
<1>3. \A f \in Fork : fork'[f].todo \subseteq asked'
  <2>1. ASSUME fork' = fork
        PROVE  \A f \in Fork : fork'[f].todo \subseteq asked'
    BY <1>a, <1>1, <2>1
  <2>2. ASSUME NEW f \in Fork, RecordTimeout(f) \/ PingOpener(f)
        PROVE  \A h \in Fork : fork'[h].todo \subseteq asked'
    <3>1. \A h \in Fork : fork'[h].todo \subseteq fork[h].todo
      <4>1. CASE RecordTimeout(f)
        <5>1. PICK m \in fork[f].todo : fork' = [fork EXCEPT ![f].todo = @ \ {m}]
          BY <4>1 DEF RecordTimeout
        <5>. QED  BY <1>a, <5>1
      <4>2. CASE PingOpener(f)
        BY <1>a, <4>2 DEF PingOpener
      <4>. QED  BY <2>2, <4>1, <4>2
    <3>. QED  BY <1>a, <1>1, <3>1
  <2>3. ASSUME NEW f \in Fork, CheckGate(f)
        PROVE  \A h \in Fork : fork'[h].todo \subseteq asked'
    <3>1. \A h \in Fork : \/ fork'[h].todo = fork[h].todo
                          \/ fork'[h].todo = Stragglers(thread) /\ clock >= CloseAfter
      BY <1>a, <2>3 DEF CheckGate
    <3>2. Opened(thread) /\ Stragglers(thread) \subseteq Required
      BY <2>3 DEF CheckGate, Stragglers
    <3>3. clock >= CloseAfter => ~opening.on
      <4>1. CASE CloseAfter > 1
        BY <1>a, <4>1 DEF OpenedInOrder
      <4>2. CASE ByHand = {}
        BY <2>3, <4>2 DEF CheckGate, Fork, OpenedInOrder
      <4>. QED  BY <4>1, <4>2 DEF ChecksComeLater
    <3>4. clock >= CloseAfter => Stragglers(thread) \subseteq asked
      BY <1>a, <3>2, <3>3 DEF OpenedInOrder
    <3>. QED  BY <1>a, <1>1, <3>1, <3>4
  <2>. QED
    BY <1>0, <2>1, <2>2, <2>3
    DEF Next, vars, Open, PlantTimers, Tick, PingMember, Brief, PostReply, PostFree, CloseGate
<1>4. By(thread', "timeout") \subseteq asked'
  BY <1>a, <1>1, AbsentRows
<1>. QED  BY <1>2, <1>3, <1>4 DEF AskedFirst

-----------------------------------------------------------------------------
LEMMA IInvInitially == Init => IInv
<1>. SUFFICES ASSUME Init
              PROVE  IInv
  OBVIOUS
<1>1. Required \subseteq Member /\ \A kind : Rows(thread, kind) = {} /\ By(thread, kind) = {}
  BY DEF Init, Rows, By, Required
<1>2. TypeOK
  <2>1. NotPlanted \in NotPlanted..MaxClock /\ 0 \in 0..MaxClock
    BY ConstantsAssumption DEF NotPlanted, MaxClock
  <2>. QED  BY <2>1, ConstantsAssumption DEF Init, TypeOK, NotOpening
<1>3. OpenedInOrder
  BY <1>1 DEF Init, OpenedInOrder, Opened, NotOpening
<1>4. OneTimeoutRowEach /\ RepliesAreGuarded
  <2>1. \A m : {k \in Rows(thread, "reply") : thread[k].member = m} = {}
    BY <1>1
  <2>2. Cardinality({}) = 0 /\ ReplyCap \in Nat /\ 0 <= ReplyCap /\ 0 <= 1
    BY FS_EmptySet, ConstantsAssumption
  <2>3. \A m \in Member : Cardinality({k \in Rows(thread, "reply") : thread[k].member = m}) <= ReplyCap
    BY <2>1, <2>2
  <2>4. Cardinality(Rows(thread, "close")) <= 1
    BY <1>1, <2>2
  <2>. QED  BY <1>1, <2>3, <2>4 DEF OneTimeoutRowEach, RepliesAreGuarded
<1>5. AskedFirst
  BY <1>1 DEF Init, AskedFirst, Opened
<1>. QED  BY <1>2, <1>3, <1>4, <1>5 DEF IInv

LEMMA Invariant == Spec => []IInv
<1>1. IInv /\ [Next]_vars => IInv'
  BY TypesKept, OpenedInOrderKept, RulesKept, AskedFirstKept DEF IInv, ChecksComeLater
<1>. QED  BY <1>1, IInvInitially, PTL DEF Spec

\* Whoever replies, closes or checks in whatever order, restarts included: a
\* closed gate takes no reply and no second close, no member passes its cap nor
\* the gate its own, and an absence is on record once (post_reply, close_gate,
\* check_gate).
THEOREM RowsWithinCaps == Spec => [](OneTimeoutRowEach /\ RepliesAreGuarded)
<1>1. IInv => OneTimeoutRowEach /\ RepliesAreGuarded
  BY DEF IInv
<1>. QED  BY <1>1, Invariant, PTL

\* And nobody is recorded absent who was not asked: open_gate pings before it
\* plants its timers, and a check typed by hand is not that early.
THEOREM RowsGuarded ==
    ASSUME ChecksComeLater
    PROVE  Spec => []RowsAreGuarded
<1>1. IInv => RowsAreGuarded
  BY DEF IInv, RowsAreGuarded, AskedFirst, AbsentWereAsked
<1>. QED  BY <1>1, Invariant, PTL
=============================================================================
