----------------------- MODULE FirewallResolverProofs -----------------------
(***************************************************************************)
(* What FirewallResolver promises for any hosts, answers, blocks, lists    *)
(* and any number of launches and refreshes.  The threads take turns by    *)
(* the order in which they start one another (Places), so the sets they    *)
(* share without a lock account for each other (OnItsWay); the status file *)
(* and the threads' worklists agree (Worklists), which keeps its sections  *)
(* apart; what it shows is open (Opened), and recent (Dated).              *)
(***************************************************************************)
EXTENDS FirewallResolver, FiniteSetTheorems, TLAPS

Alive == pc["launcher"] \in {"await", "docker", "inside"}

\* Who may be where: phase 2 follows phase 1, the sentinel follows phase 2, the
\* refresher follows the updater, and rules are inserted behind the agent's start.
Places ==
    /\ pc["launcher"] \in {"start", "over"} \/ Alive
    /\ ~Alive => \A t \in Thread \ {"launcher"} : pc[t] = "off"
    /\ pc["launcher"] \in {"docker", "inside"} => pc["phase1"] = "ended"
    /\ pc["phase1"] = "ended" <=> pc["phase2"] # "off"
    /\ Done \in Range(queue) \/ pc["updater"] \in {"last", "ended"} => pc["phase2"] = "ended"
    /\ pc["updater"] # "off" => pc["launcher"] \in {"docker", "inside"}
    /\ pc["refresher"] # "off" => pc["updater"] = "ended"
    /\ pc["launcher"] \in {"start", "await", "docker"} => box = "none"
    /\ pc["launcher"] = "over" => box = "dead"
    /\ pc["updater"] \in {"take", "flush", "last", "ended"} => box \in {"agent", "dead"}
    /\ pc["updater"] \notin {"flush", "last"} => hand["updater"] = <<>>

\* Nothing has been emitted before phase 1 loads; its literals and addresses are
\* all staged; the script's flush finds no rules, and what it inserts stays.
Waiting == (UNION {Range(s) : s \in {queue, hand["updater"], hand["refresher"]}}) \ {Done}

OnItsWay ==
    /\ seen \subseteq emitted
    /\ emitted = staged \cup rules \cup lost \cup Waiting
    /\ ~Alive \/ pc["phase1"] = "load" => emitted = {}
    /\ pc["phase1"] = "on" => emitted = staged
    /\ box \in {"none", "started", "flushed"} => rules = {}
    /\ box \in {"walled", "agent"} => staged \subseteq rules

\* The status file is a partition of the names: Sections, for a launcher that is
\* not alive too.
Parted ==
    /\ status.pending \cup status.failed \cup Resolved = Names
    /\ status.pending \cap status.failed = {}
    /\ Resolved \cap (status.pending \cup status.failed) = {}
    /\ status.complete => status.pending = {}

\* A phase works on the pending names that are its own, the refresher on names;
\* a critical host that is behind phase 1 is resolved.
Worklists ==
    /\ \A w \in Worker : \A h \in DOMAIN work[w].got : work[w].got[h] # {}
    /\ ~Alive => status = EmptyStatus /\ list.entries = {}
    /\ pc["phase1"] = "load" => status.failed = {} /\ status.resolved = NoAnswers
    /\ pc["phase1"] \in {"off", "load"} => DOMAIN work["phase1"].got = {}
    /\ pc["phase2"] = "off" => DOMAIN work["phase2"].got = {} /\ Names \ Critical \subseteq status.pending
    /\ pc["phase1"] = "on" => work["phase1"].todo \cup DOMAIN work["phase1"].got = status.pending \cap Critical
    /\ pc["phase2"] # "off" => Critical \cap (status.pending \cup status.failed) = {}
    /\ pc["phase2"] = "on" => work["phase2"].todo \cup DOMAIN work["phase2"].got = status.pending
    /\ pc["phase2"] \notin {"off", "on"} => status.pending = {}
    /\ DOMAIN work["refresher"].got \subseteq Names

\* What the status shows is open; until the refresher runs, for a critical host,
\* by what phase 1 staged.
Opened ==
    /\ \A e \in list.entries : \A a \in status.resolved[e.host] : Open(emitted, a, e.port)
    /\ pc["refresher"] = "off" =>
        \A e \in list.entries : \A a \in status.resolved[e.host] :
            e.host \in Critical => Open(staged, a, e.port)
    /\ Alive => \A h \in Critical : \E e \in list.entries : e.host = h /\ e.port = Std

\* Answers are no older than what recent says of where they are kept.
Dated ==
    /\ OpenIsRecent
    /\ \A w \in Worker : \A h \in DOMAIN work[w].got : work[w].got[h] \subseteq recent.now \cup recent.read
    /\ \A h \in Host : /\ dns.fresh[h] \subseteq recent.now
                       /\ dns.cached[h] \subseteq recent.read
                       /\ dns.file[h] \subseteq recent.saved

IInv == TypeOK /\ Parted /\ Places /\ OnItsWay /\ Worklists /\ Opened /\ Dated

-----------------------------------------------------------------------------
\* Tokens are finitely many, so that a set of them has an enumeration (SetToSeq).
LEMMA TokensFinite == IsFiniteSet(Token)
<1>. DEFINE D == Addr \cup Block \cup {Own}
            f == [p \in D \X Port |-> [to |-> p[1], port |-> p[2]]]
<1>1. IsFiniteSet(D \X Port)
  <2>1. IsFiniteSet(Addr) /\ IsFiniteSet(Block) /\ IsFiniteSet(Port)
    BY ConstantsAssumption
  <2>2. IsFiniteSet(D)
    BY <2>1, FS_Union, FS_AddElement
  <2>. HIDE DEF D
  <2>. QED  BY <2>1, <2>2, FS_Product
<1>2. f \in Surjection(D \X Port, Token)
  <2>1. f \in [D \X Port -> Token]
    BY DEF Token
  <2>2. \A k \in Token : f[<<k.to, k.port>>] = k /\ <<k.to, k.port>> \in D \X Port
    BY DEF Token
  <2>. QED  BY <2>1, <2>2 DEF Surjection
<1>. QED  BY <1>1, <1>2, FS_Surjection

LEMMA Enumerated ==
    ASSUME NEW S \in SUBSET Token
    PROVE  SetToSeq(S) \in Seq(Token) /\ Range(SetToSeq(S)) = S
<1>1. IsFiniteSet(S)
  BY TokensFinite, FS_Subset
<1>. DEFINE n == Cardinality(S)
<1>2. n \in Nat /\ ExistsBijection(1..n, S)
  BY <1>1, FS_CardinalityType
<1>3. PICK f \in [1..n -> S] : f \in Bijection(1..n, S)
  BY <1>2 DEF ExistsBijection, Bijection, Injection
<1>4. IsInjective(f)
  BY <1>3 DEF IsInjective, Bijection, Injection
<1>. DEFINE g == SetToSeq(S)
<1>5. g \in [1..n -> S] /\ IsInjective(g)
  BY <1>4 DEF SetToSeq
<1>. HIDE DEF g, n
<1>6. g \in Injection(1..n, S)
  BY <1>5 DEF IsInjective, Injection
<1>7. g \in Surjection(1..n, S)
  <2>1. Cardinality(1..n) = n
    BY <1>2, FS_Interval
  <2>2. IsFiniteSet(1..n) /\ n = Cardinality(S)
    BY <1>2, FS_Interval DEF n
  <2>. QED  BY <1>1, <1>6, <2>1, <2>2, FS_Injection
<1>8. Range(g) = S
  BY <1>5, <1>7 DEF Range, Surjection
<1>9. g \in Seq(Token)
  BY <1>5, <1>2
<1>. QED  BY <1>8, <1>9 DEF g

LEMMA SetOf ==
    ASSUME NEW S, NEW T, NEW f \in [S -> T], NEW i \in S, NEW x \in T
    PROVE  /\ [f EXCEPT ![i] = x] \in [S -> T]
           /\ [f EXCEPT ![i] = x][i] = x
           /\ \A j \in S : j # i => [f EXCEPT ![i] = x][j] = f[j]
OBVIOUS

LEMMA RangeOf ==
    ASSUME NEW S, NEW s \in Seq(S)
    PROVE  Range(s) \subseteq S /\ \A x : x \in Range(s) <=> \E i \in 1..Len(s) : s[i] = x
BY DEF Range

LEMMA RangeOfConcat ==
    ASSUME NEW S, NEW s \in Seq(S), NEW t \in Seq(S)
    PROVE  s \o t \in Seq(S) /\ Range(s \o t) = Range(s) \cup Range(t)
<1>1. s \o t \in Seq(S) /\ Len(s \o t) = Len(s) + Len(t)
  OBVIOUS
<1>2. \A i \in 1..Len(s \o t) : (s \o t)[i] = IF i <= Len(s) THEN s[i] ELSE t[i - Len(s)]
  OBVIOUS
<1>3. \A i \in 1..Len(s) : (s \o t)[i] = s[i] /\ i \in 1..Len(s \o t)
  BY <1>1, <1>2
<1>4. \A i \in 1..Len(t) : (s \o t)[Len(s) + i] = t[i] /\ Len(s) + i \in 1..Len(s \o t)
  BY <1>1, <1>2
<1>5. \A i \in 1..Len(s \o t) : (i \in 1..Len(s) /\ (s \o t)[i] = s[i])
                                \/ (i - Len(s) \in 1..Len(t) /\ (s \o t)[i] = t[i - Len(s)])
  BY <1>1, <1>2
<1>. DEFINE u == s \o t
<1>6. \A x : x \in Range(u) <=> \E i \in 1..Len(u) : u[i] = x
  BY <1>1, RangeOf
<1>7. \A x : x \in Range(s) <=> \E i \in 1..Len(s) : s[i] = x
  BY RangeOf
<1>8. \A x : x \in Range(t) <=> \E i \in 1..Len(t) : t[i] = x
  BY RangeOf
<1>9. \A x \in Range(u) : x \in Range(s) \/ x \in Range(t)
  BY <1>5, <1>6, <1>7, <1>8, Zenon
<1>10. \A x \in Range(s) : x \in Range(u)
  BY <1>3, <1>6, <1>7, Zenon
<1>11. \A x \in Range(t) : x \in Range(u)
  BY <1>4, <1>6, <1>8, Zenon
<1>. QED  BY <1>1, <1>9, <1>10, <1>11

LEMMA RangeOfAppend ==
    ASSUME NEW S, NEW s \in Seq(S), NEW x \in S
    PROVE  Append(s, x) \in Seq(S) /\ Range(Append(s, x)) = Range(s) \cup {x}
<1>1. <<x>> \in Seq(S) /\ Append(s, x) = s \o <<x>>
  OBVIOUS
<1>2. Range(<<x>>) = {x}
  BY DEF Range
<1>. DEFINE t == <<x>>
<1>3. t \in Seq(S) /\ Range(t) = {x} /\ Append(s, x) = s \o t
  BY <1>1, <1>2
<1>. HIDE DEF t
<1>4. s \o t \in Seq(S) /\ Range(s \o t) = Range(s) \cup Range(t)
  BY <1>3, RangeOfConcat
<1>. QED  BY <1>3, <1>4

LEMMA RangeOfPart ==
    ASSUME NEW S, NEW s \in Seq(S), NEW m \in Nat, NEW n \in Nat, 1 <= m, n <= Len(s)
    PROVE  /\ SubSeq(s, m, n) \in Seq(S)
           /\ \A x : x \in Range(SubSeq(s, m, n)) <=> \E i \in m..n : s[i] = x
<1>1. CASE m > n
  BY <1>1 DEF Range
<1>2. CASE m <= n
  <2>1. /\ SubSeq(s, m, n) \in Seq(S) /\ Len(SubSeq(s, m, n)) = n - m + 1
        /\ \A i \in 1..(n - m + 1) : SubSeq(s, m, n)[i] = s[m + i - 1]
    BY <1>2
  <2>2. \A i \in m..n : i - m + 1 \in 1..(n - m + 1) /\ m + (i - m + 1) - 1 = i
    OBVIOUS
  <2>3. \A i \in 1..(n - m + 1) : m + i - 1 \in m..n
    OBVIOUS
  <2>4. \A i \in m..n : SubSeq(s, m, n)[i - m + 1] = s[i]
    BY <2>1, <2>2
  <2>5. \A x : x \in Range(SubSeq(s, m, n)) <=> \E j \in 1..(n - m + 1) : SubSeq(s, m, n)[j] = x
    BY <2>1, RangeOf
  <2>6. ASSUME NEW x, x \in Range(SubSeq(s, m, n))
        PROVE  \E i \in m..n : s[i] = x
    <3>1. PICK j \in 1..(n - m + 1) : SubSeq(s, m, n)[j] = x
      BY <2>5, <2>6
    <3>. QED  BY <3>1, <2>1, <2>3
  <2>7. ASSUME NEW i \in m..n
        PROVE  s[i] \in Range(SubSeq(s, m, n))
    BY <2>2, <2>4, <2>5
  <2>. QED  BY <2>1, <2>6, <2>7
<1>. QED  BY <1>1, <1>2

LEMMA RangeOfEmpty == Range(<<>>) = {}
BY DEF Range

-----------------------------------------------------------------------------
\* What the operators of the policy return.
LEMMA Bounds ==
    Stages \in Nat /\ 1 <= Stages /\ MaxLaunches \in Nat /\ 1 <= MaxLaunches /\ Chunk \in Nat /\ MaxRefreshes \in Nat
<1>1. Stages \in Nat \ {0} /\ MaxLaunches \in Nat \ {0} /\ Chunk \in Nat \ {0} /\ MaxRefreshes \in Nat
  BY ConstantsAssumption
<1>. QED  BY <1>1

LEMMA RangesAreBlocks ==
    ASSUME NEW e, NEW ips
    PROVE  Ranges(e, ips) \subseteq Block
BY DEF Ranges, BlocksFor, Hit, KnownBlocks

\* New tokens are new, pins are addresses that were asked about, and every block
\* that is new to _seen_cdn_ranges is a token handed out.
LEMMA Emitting ==
    ASSUME TypeOK, NEW h \in Host, NEW ips \in SUBSET Addr
    PROVE  /\ NewTokens(h, ips) \subseteq Token /\ NewTokens(h, ips) \cap emitted = {}
           /\ NewBlocks(h, ips) \subseteq Token
           /\ NewBlocks(h, ips) \subseteq emitted \cup NewTokens(h, ips)
           /\ \A k \in NewTokens(h, ips) : k.to \in Addr => k.to \in ips
<1>1. \A e \in EntriesOf(h) : e \in Entry
  BY DEF TypeOK, EntriesOf
<1>2. ASSUME NEW e \in Entry
      PROVE  BlockTokens(e, ips) \subseteq Token /\ \A k \in BlockTokens(e, ips) : k.to \notin Addr
  <2>1. e.port \in Port /\ Ranges(e, ips) \subseteq Block
    BY RangesAreBlocks DEF Entry
  <2>. QED  BY <2>1, ConstantsAssumption DEF BlockTokens, Token
<1>3. ASSUME NEW e \in Entry
      PROVE  PinTokens(e, ips) \subseteq Token /\ \A k \in PinTokens(e, ips) : k.to \in ips
  <2>1. e.port \in Port
    BY DEF Entry
  <2>. QED  BY <2>1 DEF PinTokens, Token
<1>4. NewTokens(h, ips) \subseteq Token
  BY <1>1, <1>2, <1>3 DEF NewTokens, TokensFor
<1>5. NewTokens(h, ips) \cap emitted = {}
  BY DEF NewTokens
<1>6. NewBlocks(h, ips) \subseteq Token
  BY <1>1, <1>2 DEF NewBlocks
<1>7. NewBlocks(h, ips) \subseteq emitted \cup NewTokens(h, ips)
  BY DEF NewBlocks, NewTokens, TokensFor
<1>8. \A k \in NewTokens(h, ips) : k.to \in Addr => k.to \in ips
  BY <1>1, <1>2, <1>3 DEF NewTokens, TokensFor
<1>. QED  BY <1>4, <1>5, <1>6, <1>7, <1>8

\* Deduplication leaves no hole: what is not a new token is covered by an old one.
LEMMA Covering ==
    ASSUME TypeOK, seen \subseteq emitted, NEW ips \in SUBSET Addr,
           NEW e \in list.entries, NEW a \in ips
    PROVE  Open(emitted \cup NewTokens(e.host, ips), a, e.port)
<1>1. e \in Entry /\ e \in EntriesOf(e.host)
  BY DEF TypeOK, EntriesOf
<1>2. TokensFor(e, ips) \subseteq emitted \cup NewTokens(e.host, ips)
  BY <1>1 DEF NewTokens
<1>3. CASE \E b \in Ranges(e, ips) : a \in Holds[b]
  <2>1. PICK b \in Ranges(e, ips) : a \in Holds[b]
    BY <1>3
  <2>2. b \in Block /\ b \notin Addr
    BY RangesAreBlocks, ConstantsAssumption
  <2>3. [to |-> b, port |-> e.port] \in seen \cup TokensFor(e, ips)
    BY DEF TokensFor, BlockTokens
  <2>4. [to |-> b, port |-> e.port] \in emitted \cup NewTokens(e.host, ips)
    BY <1>2, <2>3
  <2>. DEFINE k == [to |-> b, port |-> e.port]
  <2>5. k.port = e.port /\ k.to \notin Addr /\ a \in Holds[k.to]
    BY <2>1, <2>2
  <2>. HIDE DEF k
  <2>6. k \in emitted \cup NewTokens(e.host, ips)
    BY <2>4 DEF k
  <2>. QED  BY <2>5, <2>6 DEF Open
<1>4. CASE ~ \E b \in Ranges(e, ips) : a \in Holds[b]
  <2>1. [to |-> a, port |-> e.port] \in emitted \cup NewTokens(e.host, ips)
    BY <1>2, <1>4 DEF TokensFor, PinTokens
  <2>. QED  BY <2>1 DEF Open
<1>. QED  BY <1>3, <1>4

LEMMA OpenStays ==
    ASSUME NEW S, NEW T, S \subseteq T
    PROVE  \A a, port : Open(S, a, port) => Open(T, a, port)
BY DEF Open

-----------------------------------------------------------------------------
\* What the parts of the handlers do to one variable.
Work == [todo : SUBSET Host, stage : 0..Stages, got : SomeAnswers]
Status == [pending : SUBSET Host, failed : SUBSET Host, resolved : Answers,
           gaps : SUBSET Host, complete : BOOLEAN]

LEMMA SomeAnswersAre ==
    ASSUME NEW got
    PROVE  got \in SomeAnswers <=> DOMAIN got \in SUBSET Host /\ got \in [DOMAIN got -> SUBSET Addr]
BY DEF SomeAnswers

LEMMA Initials == Idle \in Work /\ DOMAIN Idle.got = {} /\ EmptyStatus \in Status /\ NoAnswers \in Answers
<1>1. [h \in {} |-> {}] \in SomeAnswers /\ DOMAIN [h \in {} |-> {}] = {}
  BY SomeAnswersAre
<1>2. 0 \in 0..Stages
  BY ConstantsAssumption
<1>. QED  BY <1>1, <1>2 DEF Idle, Work, EmptyStatus, Status, NoAnswers, Answers

LEMMA AfterCallback ==
    ASSUME TypeOK, NEW w \in Worker, NEW h \in Host
    PROVE  LET after == CalledBack(w, h) IN
           /\ after \in [Worker -> Work]
           /\ \A v \in Worker \ {w} : after[v] = work[v]
           /\ after[w].todo = work[w].todo \ {h}
           /\ DOMAIN after[w].got = DOMAIN work[w].got \ {h}
           /\ \A k \in DOMAIN after[w].got : after[w].got[k] = work[w].got[k]
<1>. DEFINE got == work[w].got
            left == Restrict(got, DOMAIN got \ {h})
            half == [work[w] EXCEPT !.todo = work[w].todo \ {h}]
            first == [work EXCEPT ![w] = half]
            one == [half EXCEPT !.got = left]
<1>1. work[w] \in Work /\ work \in [Worker -> Work]
  BY DEF TypeOK, Work
<1>2. got \in SomeAnswers
  BY <1>1 DEF Work
<1>3. DOMAIN left = DOMAIN got \ {h} /\ \A k \in DOMAIN left : left[k] = got[k]
  BY DEF Restrict
<1>4. left \in SomeAnswers
  BY <1>2, SomeAnswersAre DEF Restrict
<1>5. /\ half \in Work /\ half.todo = work[w].todo \ {h} /\ half.got = got
      /\ first[w] = half
  BY <1>1 DEF Work
<1>6. CalledBack(w, h) = [work EXCEPT ![w] = one]
  <2>1. CalledBack(w, h) = [first EXCEPT ![w] = [first[w] EXCEPT !.got = Restrict(first[w].got, DOMAIN first[w].got \ {h})]]
    BY DEF CalledBack
  <2>2. CalledBack(w, h) = [first EXCEPT ![w] = one]
    BY <1>5, <2>1
  <2>. HIDE DEF half, one
  <2>. QED  BY <1>1, <2>2
<1>. HIDE DEF left, half
<1>8. one \in Work /\ one.todo = work[w].todo \ {h} /\ one.got = left
  BY <1>4, <1>5 DEF Work
<1>. HIDE DEF one
<1>7. /\ CalledBack(w, h) \in [Worker -> Work] /\ CalledBack(w, h)[w] = one
      /\ \A v \in Worker \ {w} : CalledBack(w, h)[v] = work[v]
  BY <1>1, <1>6, <1>8, SetOf
<1>. QED  BY <1>3, <1>7, <1>8

LEMMA AfterLookup ==
    ASSUME TypeOK, NEW w \in Worker, NEW names \in SUBSET Host, NEW stage \in 0..Stages,
           Lookup(w, names, stage)
    PROVE  /\ work' \in [Worker -> Work]
           /\ \A v \in Worker \ {w} : work'[v] = work[v]
           /\ work'[w].todo \cup DOMAIN work'[w].got = names
           /\ \A h \in DOMAIN work'[w].got :
                 work'[w].got[h] # {} /\ work'[w].got[h] \subseteq recent'.now \cup dns.cached[h]
           /\ dns' \in [file : Answers, cached : Answers, fresh : Answers]
           /\ dns'.file = dns.file /\ dns'.cached = dns.cached
           /\ \A h \in Host : dns'.fresh[h] \subseteq dns.fresh[h] \cup recent'.now
           /\ recent' \in [now : SUBSET Addr, read : SUBSET Addr, saved : SUBSET Addr]
           /\ recent.now \subseteq recent'.now /\ recent'.read = recent.read /\ recent'.saved = recent.saved
<1>1. PICK ans \in Replies(names) :
        /\ Learn(ans)
        /\ recent' = [recent EXCEPT !.now = @ \cup UNION {ans[h] : h \in names}]
        /\ LET found == {h \in names : ans[h] \cup dns.cached[h] # {}}
           IN work' = [work EXCEPT ![w] = [todo |-> names \ found, stage |-> stage,
                                           got |-> [h \in found |-> ans[h] \cup dns.cached[h]]]]
  BY DEF Lookup
<1>0. /\ work \in [Worker -> Work] /\ dns \in [file : Answers, cached : Answers, fresh : Answers]
      /\ recent \in [now : SUBSET Addr, read : SUBSET Addr, saved : SUBSET Addr]
  BY DEF TypeOK, Work
<1>a. dns.cached \in Answers /\ dns.fresh \in Answers /\ recent.now \in SUBSET Addr
  BY <1>0
<1>2. ans \in [names -> SUBSET Addr]
  BY DEF Replies
<1>. DEFINE found == {h \in names : ans[h] \cup dns.cached[h] # {}}
            got == [h \in found |-> ans[h] \cup dns.cached[h]]
            one == [todo |-> names \ found, stage |-> stage, got |-> got]
            asked == UNION {ans[h] : h \in names}
            fresh == [h \in Host |-> IF h \in DOMAIN ans /\ ans[h] # {} THEN ans[h] ELSE dns.fresh[h]]
<1>3. \A h \in names : ans[h] \subseteq asked /\ ans[h] \in SUBSET Addr /\ dns.cached[h] \in SUBSET Addr
  BY <1>2, <1>a DEF Answers
<1>4. asked \in SUBSET Addr
  BY <1>2
<1>. HIDE DEF asked
<1>5. got \in SomeAnswers /\ DOMAIN got = found
  BY <1>3, SomeAnswersAre
<1>6. one \in Work /\ one.todo \cup DOMAIN one.got = names /\ one.got = got
  BY <1>5 DEF Work
<1>7. work' = [work EXCEPT ![w] = one]
  BY <1>1
<1>8. \A h \in DOMAIN got : got[h] # {} /\ got[h] \subseteq asked \cup dns.cached[h]
  BY <1>3
<1>. HIDE DEF one, got
<1>9. work' \in [Worker -> Work] /\ work'[w] = one /\ \A v \in Worker \ {w} : work'[v] = work[v]
  BY <1>0, <1>6, <1>7, SetOf
<1>10. fresh \in Answers
  BY <1>2, <1>a, <1>3 DEF Answers
<1>11. \A h \in Host : fresh[h] \subseteq dns.fresh[h] \cup asked
  BY <1>2, <1>3
<1>12. dns' = [dns EXCEPT !.fresh = fresh]
  BY <1>1 DEF Learn
<1>. HIDE DEF fresh
<1>13. /\ dns' \in [file : Answers, cached : Answers, fresh : Answers]
       /\ dns'.file = dns.file /\ dns'.cached = dns.cached /\ dns'.fresh = fresh
  BY <1>0, <1>10, <1>12
<1>14. recent' = [recent EXCEPT !.now = @ \cup asked]
  BY <1>1 DEF asked
<1>15. /\ recent' \in [now : SUBSET Addr, read : SUBSET Addr, saved : SUBSET Addr]
       /\ recent'.now = recent.now \cup asked /\ recent'.read = recent.read /\ recent'.saved = recent.saved
  BY <1>0, <1>4, <1>14
<1>. QED  BY <1>6, <1>8, <1>9, <1>11, <1>13, <1>15

LEMMA Marking ==
    ASSUME TypeOK, NEW h \in Host, NEW ips \in SUBSET Addr
    PROVE  /\ MarkResolved(h, ips) \in Status /\ MarkFailed(h) \in Status
           /\ [status EXCEPT !.gaps = GapsWith(h, ips)] \in Status
           /\ MarkResolved(h, ips).pending = status.pending \ {h}
           /\ MarkResolved(h, ips).failed = status.failed \ {h}
           /\ MarkResolved(h, ips).complete = status.complete
           /\ \A k \in Host : MarkResolved(h, ips).resolved[k] = IF k = h THEN ips ELSE status.resolved[k]
           /\ MarkFailed(h).pending = status.pending \ {h}
           /\ MarkFailed(h).failed = status.failed \cup {h}
           /\ MarkFailed(h).complete = status.complete
           /\ MarkFailed(h).resolved = status.resolved
<1>1. status \in Status
  BY DEF TypeOK, Status
<1>2. GapsWith(h, ips) \in SUBSET Host
  BY <1>1 DEF GapsWith, Status
<1>. DEFINE resolved == [status.resolved EXCEPT ![h] = ips]
<1>3. status.resolved \in [Host -> SUBSET Addr]
  BY <1>1 DEF Status, Answers
<1>4. resolved \in Answers /\ \A k \in Host : resolved[k] = IF k = h THEN ips ELSE status.resolved[k]
  BY <1>3 DEF Answers
<1>5. MarkResolved(h, ips) = [status EXCEPT !.pending = @ \ {h}, !.failed = @ \ {h},
                                            !.resolved = resolved, !.gaps = GapsWith(h, ips)]
  BY <1>1, <1>3 DEF MarkResolved, Status
<1>. HIDE DEF resolved
<1>6. /\ MarkResolved(h, ips) \in Status /\ MarkResolved(h, ips).resolved = resolved
      /\ MarkResolved(h, ips).pending = status.pending \ {h}
      /\ MarkResolved(h, ips).failed = status.failed \ {h}
      /\ MarkResolved(h, ips).complete = status.complete
  BY <1>1, <1>2, <1>4, <1>5 DEF Status
<1>7. /\ MarkFailed(h) \in Status /\ MarkFailed(h).pending = status.pending \ {h}
      /\ MarkFailed(h).failed = status.failed \cup {h} /\ MarkFailed(h).complete = status.complete
      /\ MarkFailed(h).resolved = status.resolved
  BY <1>1 DEF MarkFailed, Status
<1>8. [status EXCEPT !.gaps = GapsWith(h, ips)] \in Status
  BY <1>1, <1>2 DEF Status
<1>. QED  BY <1>4, <1>6, <1>7, <1>8

LEMMA MinOfTwo ==
    ASSUME NEW a \in Nat, NEW b \in Nat
    PROVE  Min({a, b}) \in {a, b} /\ Min({a, b}) <= a /\ Min({a, b}) <= b
<1>1. \E x \in {a, b} : \A y \in {a, b} : x <= y
  OBVIOUS
<1>. QED  BY <1>1 DEF Min

\* One docker exec: the tokens leave the hand, and each is inserted or given up.
LEMMA Inserting ==
    ASSUME TypeOK, NEW f \in Flusher, Insert(f)
    PROVE  /\ hand' \in [Flusher -> Seq(Token)] /\ \A g \in Flusher \ {f} : hand'[g] = hand[g]
           /\ rules \subseteq rules' /\ lost \subseteq lost'
           /\ rules' \cup lost' \subseteq rules \cup lost \cup Range(hand[f])
           /\ Range(hand[f]) \subseteq Range(hand'[f]) \cup rules' \cup lost'
           /\ Range(hand'[f]) \subseteq Range(hand[f]) /\ Range(hand[f]) \subseteq Token
<1>. DEFINE s == hand[f]
            n == Min({Chunk, Len(s)})
<1>0. hand \in [Flusher -> Seq(Token)] /\ s \in Seq(Token)
  BY DEF TypeOK
<1>1. n \in Nat /\ n <= Len(s)
  <2>1. Chunk \in Nat /\ Len(s) \in Nat
    BY <1>0, ConstantsAssumption
  <2>. HIDE DEF s
  <2>. QED  BY <2>1, MinOfTwo
<1>2. /\ \E k \in 0..n : /\ rules' = rules \cup Range(SubSeq(s, 1, k))
                         /\ lost' = lost \cup Range(SubSeq(s, k + 1, n))
      /\ hand' = [hand EXCEPT ![f] = SubSeq(s, n + 1, Len(s))]
  BY <1>0 DEF Insert
<1>. HIDE DEF n, s
<1>3. PICK k \in 0..n : /\ rules' = rules \cup Range(SubSeq(s, 1, k))
                        /\ lost' = lost \cup Range(SubSeq(s, k + 1, n))
  BY <1>2
<1>. DEFINE done == SubSeq(s, 1, k)
            failed == SubSeq(s, k + 1, n)
            rest == SubSeq(s, n + 1, Len(s))
<1>4. \A x : x \in Range(done) <=> \E i \in 1..k : s[i] = x
  BY <1>0, <1>1, RangeOfPart
<1>5. \A x : x \in Range(failed) <=> \E i \in k + 1..n : s[i] = x
  BY <1>0, <1>1, RangeOfPart
<1>6. rest \in Seq(Token) /\ \A x : x \in Range(rest) <=> \E i \in n + 1..Len(s) : s[i] = x
  BY <1>0, <1>1, RangeOfPart
<1>7. Range(s) \subseteq Token /\ \A x : x \in Range(s) <=> \E i \in 1..Len(s) : s[i] = x
  BY <1>0, RangeOf
<1>8. \A i \in 1..Len(s) : i \in 1..k \/ i \in k + 1..n \/ i \in n + 1..Len(s)
  BY <1>0, <1>1
<1>9. \A i : i \in 1..k \/ i \in k + 1..n \/ i \in n + 1..Len(s) => i \in 1..Len(s)
  BY <1>0, <1>1
<1>. HIDE DEF done, failed, rest
<1>10. Range(s) \subseteq Range(done) \cup Range(failed) \cup Range(rest)
  BY <1>4, <1>5, <1>6, <1>7, <1>8, Zenon
<1>11. Range(done) \cup Range(failed) \cup Range(rest) \subseteq Range(s)
  BY <1>4, <1>5, <1>6, <1>7, <1>9, Zenon
<1>12. /\ hand' \in [Flusher -> Seq(Token)] /\ hand'[f] = rest
       /\ \A g \in Flusher \ {f} : hand'[g] = hand[g]
  BY <1>0, <1>2, <1>6, SetOf DEF rest
<1>13. rules' = rules \cup Range(done) /\ lost' = lost \cup Range(failed)
  BY <1>3 DEF done, failed
<1>. QED  BY <1>7, <1>10, <1>11, <1>12, <1>13 DEF s

\* The whitelist of a launch is of hosts and literals, the critical hosts among them.
LEMMA Expanding ==
    ASSUME NEW user \in UserLists
    PROVE  LET listed == Expand(CriticalEntries \cup Builtin \cup user) IN
           /\ listed.entries \in SUBSET Entry /\ listed.literals \in SUBSET Token
           /\ \A h \in Critical : \E e \in listed.entries : e.host = h /\ e.port = Std
           /\ listed = [literals |-> listed.literals, entries |-> listed.entries, known |-> {}]
<1>. DEFINE raw == CriticalEntries \cup Builtin \cup user
            v4 == {e \in raw : e.kind = "v4"}
            typed == {e \in raw : e.kind = "name"}
            apexes == {[e EXCEPT !.to = Apex[e.to]] : e \in {e \in typed : ~e.wild /\ e.to \in DOMAIN Apex}}
            names == typed \cup apexes
            Wild(h, p) == \E e \in names : e.to = h /\ e.port = p /\ e.wild
            literals == {[to |-> e.to, port |-> e.port] : e \in v4}
            entries == {[host |-> e.to, port |-> e.port, wild |-> Wild(e.to, e.port)] : e \in names}
<1>1. Expand(raw) = [literals |-> literals, entries |-> entries, known |-> {}]
  BY DEF Expand
<1>2. ASSUME NEW e \in raw
      PROVE  /\ e = [kind |-> e.kind, to |-> e.to, port |-> e.port, wild |-> e.wild]
             /\ e.port \in Port /\ e.wild \in BOOLEAN
             /\ e.kind = "v4" => e.to \in Addr
             /\ e.kind = "name" => e.to \in Host
  <2>1. CASE e \in Builtin \cup user
    BY <2>1, EntriesAssumption
  <2>2. CASE e \in CriticalEntries
    <3>1. PICK h \in Critical : e = [kind |-> "name", to |-> h, port |-> Std, wild |-> FALSE]
      BY <2>2 DEF CriticalEntries
    <3>2. h \in Host /\ Std \in Port
      BY ConstantsAssumption
    <3>. QED  BY <3>1, <3>2
  <2>. QED  BY <2>1, <2>2
<1>3. \A e \in typed : e.to \in Host /\ e.port \in Port
  BY <1>2
<1>4. ASSUME NEW d \in apexes
      PROVE  d.to \in Host /\ d.port \in Port
  <2>1. PICK e \in typed : d = [e EXCEPT !.to = Apex[e.to]] /\ e.to \in DOMAIN Apex
    OBVIOUS
  <2>2. e = [kind |-> e.kind, to |-> e.to, port |-> e.port, wild |-> e.wild]
    BY <1>2
  <2>3. d.to = Apex[e.to] /\ d.port = e.port
    BY <2>1, <2>2
  <2>4. Apex[e.to] \in Host
    BY <2>1, EntriesAssumption
  <2>. QED  BY <2>3, <2>4, <1>3
<1>. HIDE DEF apexes
<1>5. literals \in SUBSET Token
  BY <1>2 DEF Token
<1>6. \A h, p : Wild(h, p) \in BOOLEAN
  OBVIOUS
<1>7. \A e \in names : e.to \in Host /\ e.port \in Port
  BY <1>3, <1>4
<1>8. \A h \in Critical : \E e \in names : e.to = h /\ e.port = Std
  <2>1. ASSUME NEW h \in Critical
        PROVE  \E e \in names : e.to = h /\ e.port = Std
    <3>. DEFINE e == [kind |-> "name", to |-> h, port |-> Std, wild |-> FALSE]
    <3>1. e \in typed
      BY DEF CriticalEntries
    <3>. QED  BY <3>1
  <2>. QED  BY <2>1
<1>. HIDE DEF Wild, names
<1>9. entries \in SUBSET Entry
  BY <1>6, <1>7 DEF Entry
<1>10. ASSUME NEW h \in Critical
       PROVE  \E e \in entries : e.host = h /\ e.port = Std
  <2>1. PICK e \in names : e.to = h /\ e.port = Std
    BY <1>8
  <2>. DEFINE d == [host |-> e.to, port |-> e.port, wild |-> Wild(e.to, e.port)]
  <2>2. d \in entries /\ d.host = h /\ d.port = Std
    BY <2>1
  <2>. QED  BY <2>2
<1>. HIDE DEF literals, entries, raw
<1>11. Expand(raw).entries = entries /\ Expand(raw).literals = literals
  BY <1>1
<1>. QED  BY <1>1, <1>5, <1>9, <1>10, <1>11 DEF raw
\* What a burst leaves was in the queue.
LEMMA Drained ==
    ASSUME queue \in Seq(Token \cup {Done}), NEW n \in 0..Len(queue), Drain(n)
    PROVE  Range(queue') \subseteq Range(queue)
<1>1. CASE n + 2 > Len(queue)
  <2>1. queue' = <<>>
    BY <1>1 DEF Drain
  <2>. QED  BY <2>1, RangeOfEmpty
<1>2. CASE n + 2 <= Len(queue)
  <2>1. /\ queue' = SubSeq(queue, n + 2, Len(queue)) /\ n + 2 \in Nat /\ 1 <= n + 2 /\ Len(queue) \in Nat
        /\ Len(queue) <= Len(queue)
    BY DEF Drain
  <2>2. \A x : x \in Range(queue') <=> \E i \in n + 2..Len(queue) : queue[i] = x
    BY <2>1, RangeOfPart
  <2>3. \A i \in n + 2..Len(queue) : i \in 1..Len(queue)
    BY <2>1
  <2>4. \A x : x \in Range(queue) <=> \E i \in 1..Len(queue) : queue[i] = x
    BY RangeOf
  <2>. QED  BY <2>2, <2>3, <2>4
<1>. QED  BY <1>1, <1>2

\* ... and what was in the queue is in the burst, or left, or the sentinel.
LEMMA Taken ==
    ASSUME queue \in Seq(Token \cup {Done}), NEW n \in 0..Len(queue), Burst(n), Drain(n)
    PROVE  /\ Range(SubSeq(queue, 1, n)) \subseteq Range(queue)
           /\ \A x \in Range(queue) : x \in Range(SubSeq(queue, 1, n)) \/ x = Done \/ x \in Range(queue')
<1>. DEFINE burst == SubSeq(queue, 1, n)
<1>1. n \in Nat /\ n <= Len(queue) /\ 1 \in Nat /\ Len(queue) \in Nat
  OBVIOUS
<1>2. \A x : x \in Range(burst) <=> \E i \in 1..n : queue[i] = x
  BY <1>1, RangeOfPart
<1>3. \A x : x \in Range(queue) <=> \E i \in 1..Len(queue) : queue[i] = x
  BY RangeOf
<1>. HIDE DEF burst
<1>4. \A i \in 1..n : i \in 1..Len(queue)
  BY <1>1
<1>5. ASSUME NEW i \in n + 2..Len(queue)
      PROVE  queue[i] \in Range(queue')
  <2>1. /\ queue' = SubSeq(queue, n + 2, Len(queue)) /\ n + 2 \in Nat /\ 1 <= n + 2
        /\ Len(queue) <= Len(queue)
    BY <1>1 DEF Drain
  <2>2. \A x : x \in Range(queue') <=> \E j \in n + 2..Len(queue) : queue[j] = x
    BY <1>1, <2>1, RangeOfPart
  <2>. QED  BY <2>2
<1>6. n + 1 \in 1..Len(queue) => queue[n + 1] = Done
  BY <1>1 DEF Burst
<1>7. \A i \in 1..Len(queue) : i \in 1..n \/ i = n + 1 \/ i \in n + 2..Len(queue)
  BY <1>1
<1>8. \A i \in 1..Len(queue) : queue[i] \in Range(burst) \/ queue[i] = Done \/ queue[i] \in Range(queue')
  BY <1>2, <1>5, <1>6, <1>7
<1>9. \A x \in Range(queue) : x \in Range(burst) \/ x = Done \/ x \in Range(queue')
  BY <1>3, <1>8, Zenon
<1>10. Range(burst) \subseteq Range(queue)
  BY <1>2, <1>3, <1>4
<1>. QED  BY <1>9, <1>10 DEF burst

-----------------------------------------------------------------------------
\* Types, action by action.
LEMMA TypesInitially == Init => TypeOK
<1>. SUFFICES ASSUME Init PROVE TypeOK
  OBVIOUS
<1>1. PICK file \in OldFiles : /\ dns = [file |-> file, cached |-> NoAnswers, fresh |-> NoAnswers]
                               /\ recent = [now |-> {}, read |-> {}, saved |-> UNION {file[h] : h \in Host}]
  BY DEF Init
<1>2. file \in Answers
  BY ConstantsAssumption DEF Answers
<1>3. dns \in [file : Answers, cached : Answers, fresh : Answers]
  BY <1>1, <1>2, Initials
<1>4. recent \in [now : SUBSET Addr, read : SUBSET Addr, saved : SUBSET Addr]
  BY <1>1, <1>2 DEF Answers
<1>5. work \in [Worker -> Work] /\ status \in Status
  BY Initials DEF Init
<1>6. queue \in Seq(Token \cup {Done}) /\ hand \in [Flusher -> Seq(Token)]
  BY DEF Init
<1>7. spent \in [launches : 1..MaxLaunches, refreshes : 0..MaxRefreshes]
  BY ConstantsAssumption DEF Init
<1>8. list \in [entries : SUBSET Entry, literals : SUBSET Token, known : SUBSET Provider]
  BY DEF Init
<1>. QED  BY <1>3, <1>4, <1>5, <1>6, <1>7, <1>8 DEF Init, TypeOK, Work, Status, Thread, Worker

LEMMA EndTyped == ASSUME TypeOK, ProcessEnds PROVE TypeOK'
<1>1. dns' \in [file : Answers, cached : Answers, fresh : Answers]
  BY Initials DEF ProcessEnds, TypeOK
<1>2. recent' \in [now : SUBSET Addr, read : SUBSET Addr, saved : SUBSET Addr]
  BY DEF ProcessEnds, TypeOK
<1>3. work' \in [Worker -> Work] /\ status' \in Status
  BY Initials DEF ProcessEnds
<1>4. queue' \in Seq(Token \cup {Done}) /\ hand' \in [Flusher -> Seq(Token)]
  BY DEF ProcessEnds
<1>5. spent' \in [launches : 1..MaxLaunches, refreshes : 0..MaxRefreshes]
  <2>1. spent \in [launches : 1..MaxLaunches, refreshes : 0..MaxRefreshes] /\ spent' = [spent EXCEPT !.refreshes = 0]
    BY DEF ProcessEnds, TypeOK
  <2>2. 0 \in 0..MaxRefreshes
    BY Bounds
  <2>. QED  BY <2>1, <2>2
<1>6. list' \in [entries : SUBSET Entry, literals : SUBSET Token, known : SUBSET Provider]
  BY DEF ProcessEnds, TypeOK
<1>. QED  BY <1>1, <1>2, <1>3, <1>4, <1>5, <1>6 DEF ProcessEnds, TypeOK, Work, Status, Thread, Worker

LEMMA TypesKept == TypeOK /\ [Next]_vars => TypeOK'
<1>. SUFFICES ASSUME TypeOK, [Next]_vars PROVE TypeOK'
  OBVIOUS
<1>0. /\ work \in [Worker -> Work] /\ status \in Status
      /\ queue \in Seq(Token \cup {Done}) /\ hand \in [Flusher -> Seq(Token)]
      /\ dns \in [file : Answers, cached : Answers, fresh : Answers]
      /\ recent \in [now : SUBSET Addr, read : SUBSET Addr, saved : SUBSET Addr]
      /\ list \in [entries : SUBSET Entry, literals : SUBSET Token, known : SUBSET Provider]
      /\ spent \in [launches : 1..MaxLaunches, refreshes : 0..MaxRefreshes]
      /\ emitted \subseteq Token /\ seen \subseteq Token /\ staged \subseteq Token
      /\ rules \subseteq Token /\ lost \subseteq Token
  BY DEF TypeOK, Work, Status
<1>a. \A w \in Worker : \A h \in DOMAIN work[w].got : h \in Host /\ work[w].got[h] \in SUBSET Addr
  <2>1. \A w \in Worker : work[w].got \in SomeAnswers
    BY <1>0 DEF Work
  <2>. QED  BY <2>1, SomeAnswersAre
<1>1. CASE Start
  <2>1. PICK user \in UserLists : list' = [Expand(CriticalEntries \cup Builtin \cup user) EXCEPT !.known = list.known]
    BY <1>1 DEF Start
  <2>2. list' \in [entries : SUBSET Entry, literals : SUBSET Token, known : SUBSET Provider]
    BY <2>1, <1>0, Expanding
  <2>3. dns' \in [file : Answers, cached : Answers, fresh : Answers]
    BY <1>1, <1>0, Initials DEF Start, LoadedCache
  <2>4. status' \in Status
    <3>1. {e.host : e \in list'.entries} \in SUBSET Host
      BY <2>2 DEF Entry
    <3>. DEFINE pending == {e.host : e \in list'.entries}
    <3>2. status' = [EmptyStatus EXCEPT !.pending = pending]
      BY <1>1 DEF Start
    <3>. HIDE DEF pending
    <3>. QED  BY <3>1, <3>2, Initials DEF Status, pending
  <2>5. recent' \in [now : SUBSET Addr, read : SUBSET Addr, saved : SUBSET Addr]
    BY <1>1, <1>0 DEF Start
  <2>. QED  BY <1>1, <2>2, <2>3, <2>4, <2>5 DEF Start, TypeOK, Thread, Status
<1>2. CASE ProcessEnds
  BY <1>2, EndTyped
<1>3. CASE Await
  BY <1>3, <1>2 DEF Await, TypeOK, Thread
<1>4. CASE StartUpdater
  BY <1>4 DEF StartUpdater, TypeOK, Thread
<1>5. CASE DockerRun
  BY <1>5 DEF DockerRun, TypeOK, Thread
<1>6. CASE Relaunch
  <2>1. spent' \in [launches : 1..MaxLaunches, refreshes : 0..MaxRefreshes]
    BY <1>6, <1>0, ConstantsAssumption DEF Relaunch
  <2>. QED  BY <1>6, <2>1 DEF Relaunch, TypeOK, Thread
<1>7. CASE Load
  <2>1. PICK fetched \in SUBSET Provider : list' = [list EXCEPT !.known = list.known \cup fetched]
    BY <1>7 DEF Load, Fetched, CachedRanges
  <2>2. list' \in [entries : SUBSET Entry, literals : SUBSET Token, known : SUBSET Provider]
    BY <2>1, <1>0
  <2>3. work' \in [Worker -> Work]
    <3>1. Names \in SUBSET Host
      BY <1>0 DEF Names, Entry
    <3>2. work' = [work EXCEPT !["phase1"] = [work["phase1"] EXCEPT !.todo = Names \cap Critical]]
      BY <1>7 DEF Load
    <3>3. [work["phase1"] EXCEPT !.todo = Names \cap Critical] \in Work
      BY <3>1, <1>0 DEF Work, Worker
    <3>. QED  BY <3>2, <3>3, <1>0, SetOf DEF Worker
  <2>4. list.literals \subseteq Token
    BY <1>0
  <2>5. UNCHANGED <<dns, seen, queue, hand, status, box, rules, lost, recent, spent>>
    BY <1>7 DEF Load
  <2>6. emitted' \subseteq Token /\ staged' \subseteq Token /\ pc' = [pc EXCEPT !["phase1"] = "on"]
    BY <1>7, <2>4 DEF Load
  <2>. QED  BY <2>2, <2>3, <2>5, <2>6 DEF TypeOK, Thread, Worker, Work
<1>8. ASSUME NEW w \in Worker, CascadePass(w)
      PROVE  TypeOK'
  <2>1. Lookup(w, work[w].todo, work[w].stage + 1) /\ work[w].stage < Stages
    BY <1>8 DEF CascadePass
  <2>2. work[w] \in Work
    BY <1>0
  <2>3. work[w].todo \in SUBSET Host /\ work[w].stage + 1 \in 0..Stages
    BY <2>1, <2>2, ConstantsAssumption DEF Work
  <2>4. /\ work' \in [Worker -> Work] /\ dns' \in [file : Answers, cached : Answers, fresh : Answers]
        /\ recent' \in [now : SUBSET Addr, read : SUBSET Addr, saved : SUBSET Addr]
    BY <2>1, <2>3, AfterLookup
  <2>. QED  BY <1>8, <2>4 DEF CascadePass, TypeOK, Work
<1>9. ASSUME NEW w \in Worker, NEW h \in Host, OnFailure(w, h)
      PROVE  TypeOK'
  <2>1. work' \in [Worker -> Work] /\ status' \in Status
    BY <1>9, AfterCallback, Marking DEF OnFailure
  <2>. QED  BY <1>9, <2>1 DEF OnFailure, TypeOK, Work, Status
<1>10. ASSUME NEW h \in Host, OnCritical(h)
       PROVE  TypeOK'
  <2>. DEFINE ips == work["phase1"].got[h]
  <2>1. ips \in SUBSET Addr
    BY <1>10, <1>a DEF OnCritical, Worker
  <2>2. work' \in [Worker -> Work] /\ status' \in Status
    BY <1>10, <2>1, AfterCallback, Marking DEF OnCritical, Worker
  <2>3. NewTokens(h, ips) \subseteq Token /\ NewBlocks(h, ips) \subseteq Token
    BY <2>1, Emitting
  <2>4. OwnToken \in Token
    BY ConstantsAssumption DEF OwnToken, Token
  <2>5. emitted' \subseteq Token /\ seen' \subseteq Token /\ staged' \subseteq Token
    BY <1>10, <1>0, <2>3, <2>4 DEF OnCritical, Emit
  <2>. QED  BY <1>10, <2>2, <2>5 DEF OnCritical, TypeOK, Work, Status
<1>11. CASE EndOfPhaseOne
  <2>1. work' \in [Worker -> Work]
    <3>1. Names \in SUBSET Host
      BY <1>0 DEF Names, Entry
    <3>2. \/ work' = [work EXCEPT !["phase2"] = [work["phase2"] EXCEPT !.todo = Names \ Critical]]
          \/ work' = work
      BY <1>11 DEF EndOfPhaseOne
    <3>3. [work["phase2"] EXCEPT !.todo = Names \ Critical] \in Work
      BY <3>1, <1>0 DEF Work, Worker
    <3>. DEFINE one == [work["phase2"] EXCEPT !.todo = Names \ Critical]
    <3>. HIDE DEF one
    <3>4. [work EXCEPT !["phase2"] = one] \in [Worker -> Work]
      BY <3>3, <1>0, SetOf DEF Worker, one
    <3>. QED  BY <3>2, <3>4, <1>0 DEF one
  <2>2. UNCHANGED <<list, dns, emitted, seen, queue, hand, staged, status, box, rules, lost, recent, spent>>
    BY <1>11 DEF EndOfPhaseOne
  <2>3. pc' \in {[pc EXCEPT !["phase1"] = "failed"], [pc EXCEPT !["phase1"] = "ended", !["phase2"] = "on"]}
    BY <1>11 DEF EndOfPhaseOne
  <2>. QED  BY <2>1, <2>2, <2>3 DEF TypeOK, Thread, Worker, Work
<1>12. ASSUME NEW h \in Host, OnRest(h)
       PROVE  TypeOK'
  <2>. DEFINE ips == work["phase2"].got[h]
  <2>1. ips \in SUBSET Addr
    BY <1>12, <1>a DEF OnRest, Worker
  <2>2. work' \in [Worker -> Work] /\ status' \in Status
    BY <1>12, <2>1, AfterCallback, Marking DEF OnRest, Worker
  <2>3. NewTokens(h, ips) \subseteq Token /\ NewBlocks(h, ips) \subseteq Token
    BY <2>1, Emitting
  <2>4. emitted' \subseteq Token /\ seen' \subseteq Token
    BY <1>12, <1>0, <2>3 DEF OnRest, Emit
  <2>5. queue' \in Seq(Token \cup {Done})
    <3>1. queue' = queue \o SetToSeq(NewTokens(h, ips))
      BY <1>12 DEF OnRest
    <3>. DEFINE more == SetToSeq(NewTokens(h, ips))
    <3>2. more \in Seq(Token)
      BY <2>3, Enumerated
    <3>. HIDE DEF more
    <3>3. more \in Seq(Token \cup {Done})
      BY <3>2
    <3>. QED  BY <3>1, <3>3, <1>0 DEF more
  <2>. QED  BY <1>12, <2>2, <2>4, <2>5 DEF OnRest, TypeOK, Work, Status
<1>13. CASE Complete
  <2>1. status' \in Status
    BY <1>13, <1>0 DEF Complete, Status
  <2>. QED  BY <1>13, <2>1 DEF Complete, TypeOK, Thread, Status
<1>14. CASE Signal
  <2>1. /\ dns' \in [file : Answers, cached : Answers, fresh : Answers]
        /\ recent' \in [now : SUBSET Addr, read : SUBSET Addr, saved : SUBSET Addr]
    BY <1>14, <1>0 DEF Signal, SaveCache
  <2>2. queue' \in Seq(Token \cup {Done})
    <3>1. Append(queue, Done) \in Seq(Token \cup {Done})
      BY <1>0
    <3>2. queue' = Append(queue, Done) \/ queue' = queue
      BY <1>14 DEF Signal
    <3>. QED  BY <1>0, <3>1, <3>2
  <2>3. pc' \in {[pc EXCEPT !["phase2"] = "ended"], [pc EXCEPT !["phase2"] = "failed"]}
    BY <1>14 DEF Signal
  <2>. QED  BY <1>14, <2>1, <2>2, <2>3 DEF Signal, TypeOK, Thread
<1>15. CASE ContainerIsUp
  BY <1>15 DEF ContainerIsUp, TypeOK, Thread
<1>16. CASE FirewallIsApplied
  BY <1>16 DEF FirewallIsApplied, TypeOK, Thread
<1>17. CASE TakeBatch
  <2>1. PICK n \in 0..Len(queue) : /\ Burst(n) /\ Drain(n)
                                   /\ hand' = [hand EXCEPT !["updater"] = SubSeq(queue, 1, n)]
    BY <1>17 DEF TakeBatch
  <2>2. SubSeq(queue, 1, n) \in Seq(Token)
    <3>1. \A x : x \in Range(SubSeq(queue, 1, n)) <=> \E i \in 1..n : queue[i] = x
      BY <2>1, <1>0, RangeOfPart
    <3>2. \A i \in 1..n : queue[i] \in Token
      BY <2>1, <3>1, <1>0 DEF Burst
    <3>. QED  BY <3>2, <1>0
  <2>3. hand' \in [Flusher -> Seq(Token)]
    BY <2>1, <2>2, <1>0, SetOf DEF Flusher
  <2>4. queue' \in Seq(Token \cup {Done})
    BY <2>1, <1>0 DEF Drain
  <2>5. pc' \in {[pc EXCEPT !["updater"] = "flush"], [pc EXCEPT !["updater"] = "last"]}
    BY <2>1 DEF Drain
  <2>. QED  BY <1>17, <2>3, <2>4, <2>5 DEF TakeBatch, TypeOK, Thread
<1>18. CASE UpdaterInserts
  <2>1. hand' \in [Flusher -> Seq(Token)] /\ rules' \cup lost' \subseteq Token
    BY <1>18, <1>0, Inserting DEF UpdaterInserts, Flusher
  <2>. QED  BY <1>18, <2>1 DEF UpdaterInserts, TypeOK
<1>19. CASE AfterBatch
  BY <1>19 DEF AfterBatch, TypeOK, Thread, Worker
<1>20. CASE Refresh
  <2>1. Names \in SUBSET Host
    BY <1>0 DEF Names, Entry
  <2>2. /\ work' \in [Worker -> Work] /\ dns' \in [file : Answers, cached : Answers, fresh : Answers]
        /\ recent' \in [now : SUBSET Addr, read : SUBSET Addr, saved : SUBSET Addr]
    <3>1. Lookup("refresher", Names, 1) /\ 1 \in 0..Stages /\ "refresher" \in Worker
      BY <1>20, Bounds DEF Refresh, Worker
    <3>. QED  BY <2>1, <3>1, AfterLookup
  <2>3. spent' \in [launches : 1..MaxLaunches, refreshes : 0..MaxRefreshes]
    BY <1>20, <1>0, Bounds DEF Refresh
  <2>. QED  BY <1>20, <2>2, <2>3 DEF Refresh, TypeOK, Thread, Worker, Work
<1>21. ASSUME NEW h \in Host, OnRefreshed(h)
       PROVE  TypeOK'
  <2>. DEFINE ips == work["refresher"].got[h]
  <2>1. ips \in SUBSET Addr
    BY <1>21, <1>a DEF OnRefreshed, Worker
  <2>2. work' \in [Worker -> Work] /\ status' \in Status
    BY <1>21, <2>1, AfterCallback, Marking DEF OnRefreshed, Worker
  <2>3. NewTokens(h, ips) \subseteq Token /\ NewBlocks(h, ips) \subseteq Token
    BY <2>1, Emitting
  <2>4. emitted' \subseteq Token /\ seen' \subseteq Token
    BY <1>21, <1>0, <2>3 DEF OnRefreshed, Emit
  <2>5. hand' \in [Flusher -> Seq(Token)]
    <3>. DEFINE more == SetToSeq(NewTokens(h, ips))
    <3>1. hand' = [hand EXCEPT !["refresher"] = hand["refresher"] \o more]
      BY <1>21 DEF OnRefreshed
    <3>2. more \in Seq(Token)
      BY <2>3, Enumerated
    <3>. HIDE DEF more
    <3>3. hand["refresher"] \o more \in Seq(Token)
      BY <3>2, <1>0 DEF Flusher
    <3>. QED  BY <3>1, <3>3, <1>0, SetOf DEF Flusher
  <2>6. UNCHANGED <<pc, list, dns, queue, staged, box, rules, lost, recent, spent>>
    BY <1>21 DEF OnRefreshed
  <2>. QED  BY <2>2, <2>4, <2>5, <2>6 DEF TypeOK, Work, Status
<1>22. CASE AfterPass
  <2>1. work' \in [Worker -> Work]
    BY <1>22, <1>0, Initials, SetOf DEF AfterPass, Worker
  <2>. QED  BY <1>22, <2>1 DEF AfterPass, TypeOK, Thread, Worker, Work
<1>23. CASE RefresherInserts
  <2>1. hand' \in [Flusher -> Seq(Token)] /\ rules' \cup lost' \subseteq Token
    BY <1>23, <1>0, Inserting DEF RefresherInserts, Flusher
  <2>. QED  BY <1>23, <2>1 DEF RefresherInserts, TypeOK
<1>24. CASE RefresherSaves
  <2>1. /\ dns' \in [file : Answers, cached : Answers, fresh : Answers]
        /\ recent' \in [now : SUBSET Addr, read : SUBSET Addr, saved : SUBSET Addr]
    BY <1>24, <1>0 DEF RefresherSaves, SaveCache
  <2>. QED  BY <1>24, <2>1 DEF RefresherSaves, TypeOK, Thread, Worker
<1>25. CASE RefreshRaises
  <2>1. work' \in [Worker -> Work]
    BY <1>25, <1>0, Initials, SetOf DEF RefreshRaises, Worker
  <2>2. hand' \in [Flusher -> Seq(Token)]
    BY <1>25, <1>0 DEF RefreshRaises, Flusher
  <2>3. lost' \subseteq Token
    BY <1>25, <1>0, RangeOf DEF RefreshRaises, Flusher
  <2>. QED  BY <1>25, <2>1, <2>2, <2>3 DEF RefreshRaises, TypeOK, Thread, Worker, Work
<1>26. CASE ContainerStep
  BY <1>26, <1>0 DEF ContainerStep, TypeOK
<1>27. CASE ContainerEnds
  BY <1>27 DEF ContainerEnds, TypeOK
<1>28. CASE End
  BY <1>28, <1>2 DEF End
<1>29. CASE UNCHANGED vars
  BY <1>29 DEF vars, TypeOK
<1>. QED
  BY <1>1, <1>3, <1>4, <1>5, <1>6, <1>7, <1>8, <1>9, <1>10, <1>11, <1>12, <1>13, <1>14, <1>15, <1>16, <1>17,
     <1>18, <1>19, <1>20, <1>21, <1>22, <1>23, <1>24, <1>25, <1>26, <1>27, <1>28, <1>29
     DEF Next, Running, Launcher, PhaseOne, PhaseTwo, Updater, Refresher, Worker

-----------------------------------------------------------------------------
\* The order of the threads.
LEMMA PlacesKept == TypeOK /\ Places /\ [Next]_vars => Places'
<1>. SUFFICES ASSUME TypeOK, Places, [Next]_vars PROVE Places'
  OBVIOUS
<1>0. /\ pc = [t \in Thread |-> pc[t]]
      /\ queue \in Seq(Token \cup {Done}) /\ hand \in [Flusher -> Seq(Token)]
      /\ \A w \in Worker : \A h \in DOMAIN work[w].got : h \in Host /\ work[w].got[h] \in SUBSET Addr
  <2>1. \A w \in Worker : work[w].got \in SomeAnswers
    BY DEF TypeOK
  <2>. QED  BY <2>1, SomeAnswersAre DEF TypeOK
<1>1. CASE Start
  BY <1>1, <1>0 DEF Start, Places, Alive, Thread, Worker
<1>2. CASE ProcessEnds
  <2>1. Range(queue') = {} /\ hand'["updater"] = <<>> /\ box' = "dead"
    BY <1>2, RangeOfEmpty DEF ProcessEnds, Flusher
  <2>2. /\ pc'["launcher"] = "over" /\ \A t \in Thread \ {"launcher"} : pc'[t] = "off"
    BY <1>2 DEF ProcessEnds, Thread
  <2>. QED  BY <2>1, <2>2 DEF Places, Alive, Thread, Worker
<1>3. CASE Await
  BY <1>3, <1>2, <1>0 DEF Await, Places, Alive, Thread, Worker
<1>4. CASE StartUpdater
  BY <1>4, <1>0 DEF StartUpdater, Places, Alive, Thread, Worker
<1>5. CASE DockerRun
  BY <1>5, <1>0 DEF DockerRun, Places, Alive, Thread, Worker
<1>6. CASE Relaunch
  BY <1>6, <1>0 DEF Relaunch, Places, Alive, Thread, Worker
<1>7. CASE Load
  BY <1>7, <1>0 DEF Load, Places, Alive, Thread, Worker
<1>8. ASSUME UNCHANGED <<pc, queue, box, hand>>
      PROVE  Places'
  BY <1>8 DEF Places, Alive
<1>9. ASSUME NEW w \in Worker, CascadePass(w)
      PROVE  Places'
  BY <1>9, <1>8 DEF CascadePass
<1>10. ASSUME NEW w \in Worker, NEW h \in Host, OnFailure(w, h)
       PROVE  Places'
  BY <1>10, <1>8 DEF OnFailure
<1>11. ASSUME NEW h \in Host, OnCritical(h)
       PROVE  Places'
  BY <1>11, <1>8 DEF OnCritical
<1>12. CASE EndOfPhaseOne
  <2>1. UNCHANGED <<queue, box, hand>> /\ pc["phase1"] = "on"
    BY <1>12 DEF EndOfPhaseOne
  <2>2. pc' \in {[pc EXCEPT !["phase1"] = "failed"], [pc EXCEPT !["phase1"] = "ended", !["phase2"] = "on"]}
    BY <1>12 DEF EndOfPhaseOne
  <2>. QED  BY <2>1, <2>2, <1>0 DEF Places, Alive, Thread, Worker
<1>13. ASSUME NEW h \in Host, OnRest(h)
       PROVE  Places'
  <2>. DEFINE more == SetToSeq(NewTokens(h, work["phase2"].got[h]))
  <2>1. more \in Seq(Token) /\ Range(more) \subseteq Token
    <3>1. NewTokens(h, work["phase2"].got[h]) \subseteq Token
      BY <1>13, <1>0, Emitting DEF OnRest, Worker
    <3>. QED  BY <3>1, Enumerated
  <2>2. queue' = queue \o more
    BY <1>13 DEF OnRest
  <2>. HIDE DEF more
  <2>3. more \in Seq(Token \cup {Done})
    BY <2>1
  <2>4. Done \in Range(queue') => Done \in Range(queue)
    BY <2>1, <2>2, <2>3, <1>0, RangeOfConcat, EntriesAssumption
  <2>5. UNCHANGED <<pc, box, hand>>
    BY <1>13 DEF OnRest
  <2>. QED  BY <2>4, <2>5 DEF Places, Alive
<1>14. CASE Complete
  BY <1>14, <1>0 DEF Complete, Places, Alive, Thread, Worker
<1>15. CASE Signal
  <2>1. UNCHANGED <<box, hand>> /\ pc["phase2"] = "save"
    BY <1>15 DEF Signal
  <2>2. \/ pc' = [pc EXCEPT !["phase2"] = "ended"]
        \/ pc' = [pc EXCEPT !["phase2"] = "failed"] /\ queue' = queue
    BY <1>15 DEF Signal
  <2>. QED  BY <2>1, <2>2, <1>0 DEF Places, Alive, Thread, Worker
<1>16. CASE ContainerIsUp
  BY <1>16, <1>0 DEF ContainerIsUp, Places, Alive, Thread, Worker
<1>17. CASE FirewallIsApplied
  BY <1>17, <1>0 DEF FirewallIsApplied, Places, Alive, Thread, Worker
<1>18. CASE TakeBatch
  <2>1. PICK n \in 0..Len(queue) : /\ Burst(n) /\ Drain(n)
                                   /\ hand' = [hand EXCEPT !["updater"] = SubSeq(queue, 1, n)]
    BY <1>18 DEF TakeBatch
  <2>2. pc["updater"] = "take" /\ box' = box
    BY <1>18 DEF TakeBatch
  <2>3. Done \in Range(queue') => Done \in Range(queue)
    BY <2>1, <1>0, Drained
  <2>4. pc' = [pc EXCEPT !["updater"] = "last"] => Done \in Range(queue)
    <3>1. ASSUME pc' = [pc EXCEPT !["updater"] = "last"]
          PROVE  n < Len(queue)
      <4>1. pc'["updater"] = "last"
        BY <3>1, <1>0 DEF Thread
      <4>2. pc'["updater"] = IF n = Len(queue) THEN "flush" ELSE "last"
        BY <2>1, <1>0 DEF Drain, Thread
      <4>. QED  BY <4>1, <4>2, <2>1, <1>0
    <3>2. n < Len(queue) => n + 1 \in 1..Len(queue) /\ queue[n + 1] = Done
      BY <2>1, <1>0 DEF Burst
    <3>. QED  BY <3>1, <3>2, <1>0, RangeOf
  <2>5. pc' \in {[pc EXCEPT !["updater"] = "flush"], [pc EXCEPT !["updater"] = "last"]}
    BY <2>1 DEF Drain
  <2>. QED  BY <2>2, <2>3, <2>4, <2>5, <1>0 DEF Places, Alive, Thread, Worker
<1>19. CASE UpdaterInserts
  BY <1>19, <1>0 DEF UpdaterInserts, Places, Alive, Thread, Worker
<1>20. CASE AfterBatch
  <2>1. UNCHANGED <<queue, box, hand>> /\ hand["updater"] = <<>>
    BY <1>20 DEF AfterBatch
  <2>2. \/ pc["updater"] = "flush" /\ pc' = [pc EXCEPT !["updater"] = "take"]
        \/ pc["updater"] = "last" /\ pc' = [pc EXCEPT !["updater"] = "ended", !["refresher"] = "sleep"]
    BY <1>20 DEF AfterBatch
  <2>. QED  BY <2>1, <2>2, <1>0 DEF Places, Alive, Thread, Worker
<1>21. ASSUME UNCHANGED <<queue, box>>, pc["refresher"] # "off", hand'["updater"] = hand["updater"],
              NEW to \in {"sleep", "on", "flush"}, pc' = [pc EXCEPT !["refresher"] = to]
       PROVE  Places'
  BY <1>21, <1>0 DEF Places, Alive, Thread, Worker
<1>22. CASE Refresh
  BY <1>22, <1>21 DEF Refresh
<1>23. ASSUME NEW h \in Host, OnRefreshed(h)
       PROVE  Places'
  <2>1. UNCHANGED <<pc, queue, box>>
    BY <1>23 DEF OnRefreshed
  <2>2. hand'["updater"] = hand["updater"]
    BY <1>23, <1>0 DEF OnRefreshed, Flusher
  <2>. QED  BY <2>1, <2>2 DEF Places, Alive
<1>24. CASE AfterPass
  <2>1. /\ UNCHANGED <<queue, box, hand>> /\ pc["refresher"] # "off"
        /\ \E to \in {"sleep", "flush"} : pc' = [pc EXCEPT !["refresher"] = to]
    BY <1>24 DEF AfterPass
  <2>. QED  BY <2>1, <1>21
<1>25. CASE RefresherInserts
  <2>1. UNCHANGED <<pc, queue, box>> /\ Insert("refresher")
    BY <1>25 DEF RefresherInserts
  <2>2. hand'["updater"] = hand["updater"]
    BY <2>1, Inserting DEF Flusher
  <2>. QED  BY <2>1, <2>2 DEF Places, Alive
<1>26. CASE RefresherSaves
  BY <1>26, <1>21 DEF RefresherSaves
<1>27. CASE RefreshRaises
  <2>1. hand'["updater"] = hand["updater"]
    BY <1>27, <1>0 DEF RefreshRaises, Flusher
  <2>. QED  BY <2>1, <1>27, <1>21 DEF RefreshRaises
<1>28. CASE ContainerStep
  BY <1>28 DEF ContainerStep, Places, Alive
<1>29. CASE ContainerEnds
  BY <1>29 DEF ContainerEnds, Places, Alive
<1>30. CASE End
  BY <1>30, <1>2 DEF End
<1>31. CASE UNCHANGED vars
  BY <1>31, <1>8 DEF vars
<1>. QED
  BY <1>1, <1>3, <1>4, <1>5, <1>6, <1>7, <1>9, <1>10, <1>11, <1>12, <1>13, <1>14, <1>15, <1>16, <1>17, <1>18,
     <1>19, <1>20, <1>22, <1>23, <1>24, <1>25, <1>26, <1>27, <1>28, <1>29, <1>30, <1>31
     DEF Next, Running, Launcher, PhaseOne, PhaseTwo, Updater, Refresher, Worker

-----------------------------------------------------------------------------
\* The hand-off of the tokens.
LEMMA OnItsWayKept == TypeOK /\ Places /\ OnItsWay /\ [Next]_vars => OnItsWay'
<1>. SUFFICES ASSUME TypeOK, Places, OnItsWay, [Next]_vars PROVE OnItsWay'
  OBVIOUS
<1>0. /\ pc = [t \in Thread |-> pc[t]]
      /\ queue \in Seq(Token \cup {Done}) /\ hand \in [Flusher -> Seq(Token)]
      /\ \A w \in Worker : \A h \in DOMAIN work[w].got : h \in Host /\ work[w].got[h] \in SUBSET Addr
  <2>1. \A w \in Worker : work[w].got \in SomeAnswers
    BY DEF TypeOK
  <2>. QED  BY <2>1, SomeAnswersAre DEF TypeOK
<1>. DEFINE queued == (Range(queue) \cup Range(hand["updater"]) \cup Range(hand["refresher"])) \ {Done}
<1>a. Waiting = queued
  BY DEF Waiting
<1>b. Waiting' = queued'
  BY DEF Waiting
<1>c. seen \subseteq emitted /\ emitted = staged \cup rules \cup lost \cup queued
  BY <1>a DEF OnItsWay
<1>d. Done \notin Token /\ emitted \subseteq Token
  BY EntriesAssumption DEF TypeOK
<1>1. ASSUME UNCHANGED <<emitted, seen, staged, rules, lost, queue, hand>>, Alive' <=> Alive,
             pc'["phase1"] = pc["phase1"], box' = box
      PROVE  OnItsWay'
  BY <1>1, <1>a, <1>b DEF OnItsWay
<1>2. CASE ProcessEnds
  <2>1. pc'["launcher"] = "over" /\ pc'["phase1"] = "off"
    BY <1>2 DEF ProcessEnds, Thread, Worker
  <2>2. Range(queue') = {} /\ Range(hand'["updater"]) = {} /\ Range(hand'["refresher"]) = {}
    BY <1>2, RangeOfEmpty DEF ProcessEnds, Flusher
  <2>3. queued' = {}
    BY <2>2
  <2>. HIDE DEF queued
  <2>. QED  BY <1>2, <2>1, <2>3, <1>b DEF ProcessEnds, OnItsWay, Alive
<1>3. CASE Start
  <2>1. UNCHANGED <<emitted, seen, staged, rules, lost, queue, hand, box>> /\ pc["launcher"] = "start"
    BY <1>3 DEF Start
  <2>2. emitted = {} /\ box = "none"
    BY <2>1 DEF OnItsWay, Alive, Places
  <2>3. pc'["phase1"] = "load"
    BY <1>3, <1>0 DEF Start, Thread, Worker
  <2>. QED  BY <2>1, <2>2, <2>3, <1>b, <1>c DEF OnItsWay
<1>4. CASE Await
  <2>1. CASE pc["phase1"] = "ended" /\ pc["launcher"] = "await" /\ pc' = [pc EXCEPT !["launcher"] = "docker"]
             /\ UNCHANGED <<emitted, seen, staged, rules, lost, queue, hand, box>>
    <3>1. (Alive' <=> Alive) /\ pc'["phase1"] = pc["phase1"]
      BY <2>1, <1>0 DEF Alive, Thread, Worker
    <3>. QED  BY <2>1, <3>1, <1>1
  <2>. QED  BY <1>4, <1>2, <2>1 DEF Await
<1>5. CASE StartUpdater
  <2>1. (Alive' <=> Alive) /\ pc'["phase1"] = pc["phase1"]
    BY <1>5, <1>0 DEF StartUpdater, Alive, Thread, Worker
  <2>. QED  BY <1>5, <2>1, <1>1 DEF StartUpdater
<1>6. CASE DockerRun
  <2>1. /\ (Alive' <=> Alive) /\ pc'["phase1"] = pc["phase1"]
        /\ UNCHANGED <<emitted, seen, staged, rules, lost, queue, hand>>
        /\ box' = "started" /\ box = "none"
    BY <1>6, <1>0 DEF DockerRun, Alive, Places, Thread, Worker
  <2>. QED  BY <2>1, <1>b, <1>c DEF OnItsWay
<1>7. CASE Relaunch
  <2>1. /\ ~Alive /\ UNCHANGED <<emitted, seen, staged, rules, lost, queue, hand>>
        /\ box' = "none"
    BY <1>7 DEF Relaunch, Alive
  <2>2. emitted = {}
    BY <2>1 DEF OnItsWay
  <2>. QED  BY <2>1, <2>2, <1>b, <1>c, <1>0 DEF OnItsWay, Relaunch
<1>8. CASE Load
  <2>1. emitted = {} /\ seen = {} /\ rules = {} /\ lost = {}
    BY <1>8, <1>c DEF Load, OnItsWay
  <2>2. pc'["phase1"] = "on" /\ (Alive' <=> Alive) /\ Alive
    BY <1>8, <1>0 DEF Load, Alive, Thread, Worker, Places
  <2>3. box \in {"none", "dead"}
    BY <1>8, <2>2 DEF Load, Places, Alive
  <2>4. /\ UNCHANGED <<queue, hand, seen, rules, lost, box>> /\ queued = {}
        /\ emitted' = list.literals /\ staged' = list.literals
    BY <1>8, <2>1, <1>c DEF Load
  <2>5. queued' = {}
    BY <2>4
  <2>. HIDE DEF queued
  <2>. QED  BY <2>1, <2>2, <2>3, <2>4, <2>5, <1>b DEF OnItsWay
<1>9. ASSUME NEW w \in Worker, CascadePass(w)
      PROVE  OnItsWay'
  BY <1>9, <1>1 DEF CascadePass, Alive
<1>10. ASSUME NEW w \in Worker, NEW h \in Host, OnFailure(w, h)
       PROVE  OnItsWay'
  BY <1>10, <1>1 DEF OnFailure, Alive
<1>11. ASSUME NEW h \in Host, OnCritical(h)
       PROVE  OnItsWay'
  <2>. DEFINE ips == work["phase1"].got[h]
              new == NewTokens(h, ips)
  <2>1. /\ emitted' = emitted \cup new \cup {OwnToken} /\ seen' = seen \cup NewBlocks(h, ips)
        /\ staged' = staged \cup new \cup {OwnToken}
        /\ UNCHANGED <<pc, queue, hand, box, rules, lost>>
    BY <1>11 DEF OnCritical, Emit
  <2>2. NewBlocks(h, ips) \subseteq emitted \cup new
    BY <1>11, <1>0, Emitting DEF OnCritical, Worker
  <2>3. pc["phase1"] = "on"
    BY <1>11 DEF OnCritical
  <2>4. emitted \subseteq staged
    BY <2>3 DEF OnItsWay
  <2>5. Alive /\ box \in {"none", "dead"}
    BY <2>3 DEF Places, Alive, Thread, Worker
  <2>. HIDE DEF new, ips
  <2>. QED  BY <2>1, <2>2, <2>3, <2>4, <2>5, <1>b, <1>c DEF OnItsWay, Alive
<1>12. CASE EndOfPhaseOne
  <2>1. pc'["phase1"] \in {"failed", "ended"} /\ (Alive' <=> Alive) /\ pc["phase1"] = "on"
    BY <1>12, <1>0 DEF EndOfPhaseOne, Alive, Thread, Worker
  <2>2. Alive
    BY <2>1 DEF Places, Thread, Worker
  <2>3. UNCHANGED <<emitted, seen, staged, rules, lost, queue, hand, box>>
    BY <1>12 DEF EndOfPhaseOne
  <2>. QED  BY <2>1, <2>2, <2>3, <1>a, <1>b DEF OnItsWay
<1>13. ASSUME NEW h \in Host, OnRest(h)
       PROVE  OnItsWay'
  <2>. DEFINE ips == work["phase2"].got[h]
              new == NewTokens(h, ips)
  <2>1. /\ emitted' = emitted \cup new /\ seen' = seen \cup NewBlocks(h, ips)
        /\ queue' = queue \o SetToSeq(new) /\ pc["phase2"] = "on"
        /\ UNCHANGED <<pc, hand, box, rules, lost, staged>>
    BY <1>13 DEF OnRest, Emit
  <2>2. new \subseteq Token /\ NewBlocks(h, ips) \subseteq emitted \cup new
    BY <1>13, <1>0, Emitting DEF OnRest, Worker
  <2>3. pc["phase1"] = "ended" /\ Alive
    BY <2>1 DEF Places, Thread, Worker
  <2>. HIDE DEF new, ips
  <2>4. SetToSeq(new) \in Seq(Token) /\ Range(SetToSeq(new)) = new
    BY <2>2, Enumerated
  <2>5. Range(queue') = Range(queue) \cup new
    <3>. DEFINE more == SetToSeq(new)
    <3>1. more \in Seq(Token \cup {Done}) /\ Range(more) = new /\ queue' = queue \o more
      BY <2>1, <2>4
    <3>. HIDE DEF more
    <3>2. Range(queue \o more) = Range(queue) \cup Range(more)
      BY <3>1, <1>0, RangeOfConcat
    <3>. QED  BY <3>1, <3>2
  <2>6. queued' = queued \cup new
    BY <2>1, <2>2, <2>5, <1>d
  <2>. HIDE DEF queued
  <2>. QED  BY <2>1, <2>2, <2>3, <2>6, <1>b, <1>c DEF OnItsWay, Alive
<1>14. CASE Complete
  <2>1. (Alive' <=> Alive) /\ pc'["phase1"] = pc["phase1"]
    BY <1>14, <1>0 DEF Complete, Alive, Thread, Worker
  <2>. QED  BY <1>14, <2>1, <1>1 DEF Complete
<1>15. CASE Signal
  <2>1. UNCHANGED <<emitted, seen, staged, rules, lost, hand, box>>
    BY <1>15 DEF Signal
  <2>2. queue' = queue \/ queue' = Append(queue, Done)
    BY <1>15 DEF Signal
  <2>3. queued' = queued
    <3>1. Range(Append(queue, Done)) = Range(queue) \cup {Done}
      BY <1>0, RangeOfAppend
    <3>2. Range(queue') = Range(queue) \/ Range(queue') = Range(queue) \cup {Done}
      BY <2>2, <3>1
    <3>. QED  BY <2>1, <3>2
  <2>4. pc' \in {[pc EXCEPT !["phase2"] = "ended"], [pc EXCEPT !["phase2"] = "failed"]}
    BY <1>15 DEF Signal
  <2>5. (Alive' <=> Alive) /\ pc'["phase1"] = pc["phase1"]
    BY <2>4, <1>0 DEF Alive, Thread, Worker
  <2>. HIDE DEF queued
  <2>. QED  BY <2>1, <2>3, <2>5, <1>a, <1>b DEF OnItsWay
<1>16. CASE ContainerIsUp
  <2>1. (Alive' <=> Alive) /\ pc'["phase1"] = pc["phase1"]
    BY <1>16, <1>0 DEF ContainerIsUp, Alive, Thread, Worker
  <2>. QED  BY <1>16, <2>1, <1>1 DEF ContainerIsUp
<1>17. CASE FirewallIsApplied
  <2>1. (Alive' <=> Alive) /\ pc'["phase1"] = pc["phase1"]
    BY <1>17, <1>0 DEF FirewallIsApplied, Alive, Thread, Worker
  <2>. QED  BY <1>17, <2>1, <1>1 DEF FirewallIsApplied
<1>18. CASE TakeBatch
  <2>1. PICK n \in 0..Len(queue) : /\ Burst(n) /\ Drain(n)
                                   /\ hand' = [hand EXCEPT !["updater"] = SubSeq(queue, 1, n)]
    BY <1>18 DEF TakeBatch
  <2>2. pc["updater"] = "take" /\ UNCHANGED <<emitted, seen, staged, rules, lost, box>>
    BY <1>18 DEF TakeBatch
  <2>3. hand["updater"] = <<>>
    BY <2>2 DEF Places
  <2>4. hand'["updater"] = SubSeq(queue, 1, n) /\ hand'["refresher"] = hand["refresher"]
    BY <2>1, <1>0 DEF Flusher
  <2>5. /\ \A x \in Range(queue) : x \in Range(hand'["updater"]) \/ x = Done \/ x \in Range(queue')
        /\ Range(hand'["updater"]) \subseteq Range(queue) /\ Range(queue') \subseteq Range(queue)
    BY <2>1, <2>4, <1>0, Taken, Drained
  <2>7. pc' \in {[pc EXCEPT !["updater"] = "flush"], [pc EXCEPT !["updater"] = "last"]}
    BY <2>1 DEF Drain
  <2>8. (Alive' <=> Alive) /\ pc'["phase1"] = pc["phase1"]
    BY <2>7, <1>0 DEF Alive, Thread, Worker
  <2>9. queued' = queued
    <3>2. Range(hand["updater"]) = {}
      BY <2>3, RangeOfEmpty
    <3>. QED  BY <2>4, <2>5, <3>2
  <2>. HIDE DEF queued
  <2>. QED  BY <2>2, <2>8, <2>9, <1>a, <1>b DEF OnItsWay
<1>19. ASSUME NEW f \in Flusher, Insert(f), UNCHANGED <<pc, emitted, seen, queue, staged, box>>,
              box \in {"agent", "dead"}
       PROVE  OnItsWay'
  <2>1. /\ \A g \in Flusher \ {f} : hand'[g] = hand[g]
        /\ rules \subseteq rules' /\ lost \subseteq lost'
        /\ rules' \cup lost' \subseteq rules \cup lost \cup Range(hand[f])
        /\ Range(hand[f]) \subseteq Range(hand'[f]) \cup rules' \cup lost'
    BY <1>19, Inserting
  <2>2. Range(hand[f]) \subseteq Token
    BY <1>19, Inserting
  <2>3. Range(hand'[f]) \subseteq Range(hand[f])
    BY <1>19, Inserting
  <2>4. queued' \subseteq queued /\ Range(hand[f]) \subseteq queued' \cup rules' \cup lost'
    BY <1>19, <1>d, <2>1, <2>2, <2>3 DEF Flusher
  <2>5. \A k \in queued : k \in queued' \/ k \in rules' \/ k \in lost'
    BY <1>19, <2>1, <2>4 DEF Flusher
  <2>6. Range(hand[f]) \subseteq queued
    BY <1>19, <1>d, <2>2 DEF Flusher
  <2>7. emitted = staged \cup rules' \cup lost' \cup queued'
    BY <1>c, <2>1, <2>4, <2>5, <2>6
  <2>. HIDE DEF queued
  <2>. QED  BY <1>19, <2>1, <2>7, <1>b, <1>c DEF OnItsWay, Alive
<1>20. CASE UpdaterInserts
  <2>1. box \in {"agent", "dead"}
    BY <1>20 DEF UpdaterInserts, Places
  <2>. QED  BY <1>20, <2>1, <1>19 DEF UpdaterInserts, Flusher
<1>21. CASE AfterBatch
  <2>1. UNCHANGED <<emitted, seen, staged, rules, lost, queue, hand, box>>
    BY <1>21 DEF AfterBatch
  <2>2. pc' \in {[pc EXCEPT !["updater"] = "take"], [pc EXCEPT !["updater"] = "ended", !["refresher"] = "sleep"]}
    BY <1>21 DEF AfterBatch
  <2>3. (Alive' <=> Alive) /\ pc'["phase1"] = pc["phase1"]
    BY <2>2, <1>0 DEF Alive, Thread, Worker
  <2>. QED  BY <2>1, <2>3, <1>1
<1>22. CASE Refresh
  <2>1. (Alive' <=> Alive) /\ pc'["phase1"] = pc["phase1"]
    BY <1>22, <1>0 DEF Refresh, Alive, Thread, Worker
  <2>. QED  BY <1>22, <2>1, <1>1 DEF Refresh
<1>23. ASSUME NEW h \in Host, OnRefreshed(h)
       PROVE  OnItsWay'
  <2>. DEFINE ips == work["refresher"].got[h]
              new == NewTokens(h, ips)
              more == SetToSeq(new)
  <2>1. /\ emitted' = emitted \cup new /\ seen' = seen \cup NewBlocks(h, ips)
        /\ hand' = [hand EXCEPT !["refresher"] = hand["refresher"] \o more] /\ pc["refresher"] = "on"
        /\ UNCHANGED <<pc, queue, box, rules, lost, staged>>
    BY <1>23 DEF OnRefreshed, Emit
  <2>2. new \subseteq Token /\ NewBlocks(h, ips) \subseteq emitted \cup new
    BY <1>23, <1>0, Emitting DEF OnRefreshed, Worker
  <2>3. pc["phase1"] = "ended" /\ Alive
    BY <2>1 DEF Places, Alive, Thread, Worker
  <2>. HIDE DEF new, ips
  <2>4. more \in Seq(Token) /\ Range(more) = new
    BY <2>2, Enumerated
  <2>. HIDE DEF more
  <2>5. /\ Range(hand'["refresher"]) = Range(hand["refresher"]) \cup new
        /\ hand'["updater"] = hand["updater"]
    <3>1. Range(hand["refresher"] \o more) = Range(hand["refresher"]) \cup Range(more)
      BY <2>4, <1>0, RangeOfConcat DEF Flusher
    <3>2. hand'["refresher"] = hand["refresher"] \o more /\ hand'["updater"] = hand["updater"]
      BY <2>1, <1>0 DEF Flusher
    <3>. QED  BY <3>1, <3>2, <2>4
  <2>6. queued' = queued \cup new
    BY <2>1, <2>2, <2>5, <1>d
  <2>. HIDE DEF queued
  <2>. QED  BY <2>1, <2>2, <2>3, <2>6, <1>b, <1>c DEF OnItsWay, Alive
<1>24. CASE AfterPass
  <2>1. UNCHANGED <<emitted, seen, staged, rules, lost, queue, hand, box>>
    BY <1>24 DEF AfterPass
  <2>2. (Alive' <=> Alive) /\ pc'["phase1"] = pc["phase1"]
    BY <1>24, <1>0 DEF AfterPass, Alive, Thread, Worker
  <2>. QED  BY <2>1, <2>2, <1>1
<1>25. CASE RefresherInserts
  <2>1. box \in {"agent", "dead"}
    BY <1>25 DEF RefresherInserts, Places
  <2>. QED  BY <1>25, <2>1, <1>19 DEF RefresherInserts, Flusher
<1>26. CASE RefresherSaves
  <2>1. (Alive' <=> Alive) /\ pc'["phase1"] = pc["phase1"]
    BY <1>26, <1>0 DEF RefresherSaves, Alive, Thread, Worker
  <2>. QED  BY <1>26, <2>1, <1>1 DEF RefresherSaves
<1>27. CASE RefreshRaises
  <2>1. (Alive' <=> Alive) /\ pc'["phase1"] = pc["phase1"]
    BY <1>27, <1>0 DEF RefreshRaises, Alive, Thread, Worker
  <2>2. /\ lost' = lost \cup Range(hand["refresher"])
        /\ hand'["refresher"] = <<>> /\ hand'["updater"] = hand["updater"]
        /\ UNCHANGED <<emitted, seen, staged, rules, queue, box>>
    BY <1>27, <1>0 DEF RefreshRaises, Flusher
  <2>3. Range(hand["refresher"]) \subseteq Token
    BY <1>0, RangeOf DEF Flusher
  <2>4. lost' \cup queued' = lost \cup queued
    BY <2>2, <2>3, <1>d, RangeOfEmpty
  <2>. HIDE DEF queued
  <2>. QED  BY <2>1, <2>2, <2>4, <1>b, <1>c DEF OnItsWay
<1>28. CASE ContainerStep
  <2>1. UNCHANGED <<pc, emitted, seen, staged, lost, queue, hand>>
    BY <1>28 DEF ContainerStep
  <2>2. /\ rules \subseteq rules' /\ rules' \subseteq rules \cup staged
        /\ box' \in {"flushed", "walled", "agent"}
        /\ box' = "flushed" => rules' = {}
        /\ box' \in {"walled", "agent"} => staged \subseteq rules'
    BY <1>28 DEF ContainerStep, OnItsWay
  <2>. QED  BY <2>1, <2>2, <1>b, <1>c DEF OnItsWay, Alive
<1>29. CASE ContainerEnds
  BY <1>29, <1>a, <1>b DEF ContainerEnds, OnItsWay, Alive
<1>30. CASE End
  BY <1>30, <1>2 DEF End
<1>31. CASE UNCHANGED vars
  BY <1>31, <1>1 DEF vars, Alive
<1>. QED
  BY <1>3, <1>4, <1>5, <1>6, <1>7, <1>8, <1>9, <1>10, <1>11, <1>12, <1>13, <1>14, <1>15, <1>16, <1>17, <1>18,
     <1>20, <1>21, <1>22, <1>23, <1>24, <1>25, <1>26, <1>27, <1>28, <1>29, <1>30, <1>31
     DEF Next, Running, Launcher, PhaseOne, PhaseTwo, Updater, Refresher, Worker

-----------------------------------------------------------------------------
\* The status file and the worklists.
LEMMA ListsFramed ==
    ASSUME Parted, Worklists, UNCHANGED <<status, work, list.entries>>, Alive => Alive',
           pc'["phase1"] = pc["phase1"], pc'["phase2"] = pc["phase2"]
    PROVE  Parted' /\ Worklists'
BY DEF Parted, Worklists, Resolved, Names

\* A name of its own is settled by a phase.
LEMMA Settling ==
    ASSUME TypeOK, Places, Parted, Worklists, NEW w \in {"phase1", "phase2"}, NEW h \in Host,
           pc[w] = "on", h \in work[w].todo \cup DOMAIN work[w].got,
           UNCHANGED <<pc, list>>, status' \in Status, work' = CalledBack(w, h),
           status'.pending = status.pending \ {h},
           status'.complete = status.complete,
           \/ Resolved' = Resolved /\ status'.failed = status.failed \cup {h}
           \/ Resolved' = Resolved \cup {h} /\ status'.failed = status.failed \ {h}
    PROVE  Parted' /\ Worklists'
<1>0. w \in Worker
  BY DEF Worker
<1>1. h \in status.pending /\ (w = "phase1" => h \in Critical)
  BY DEF Worklists
<1>2. Alive /\ Alive' /\ Names' = Names
  BY <1>0 DEF Places, Thread, Worker, Alive, Names
<1>3. Parted'
  BY <1>1, <1>2 DEF Parted
<1>4. /\ \A v \in Worker \ {w} : work'[v] = work[v]
      /\ work'[w].todo = work[w].todo \ {h}
      /\ DOMAIN work'[w].got = DOMAIN work[w].got \ {h}
      /\ \A k \in DOMAIN work'[w].got : work'[w].got[k] = work[w].got[k]
  BY <1>0, AfterCallback
<1>5. \A v \in Worker : \A k \in DOMAIN work'[v].got : work'[v].got[k] # {}
  BY <1>4 DEF Worklists
<1>6. CASE w = "phase1"
  <2>1. pc["phase2"] = "off" /\ pc["phase1"] = "on"
    BY <1>6 DEF Places
  <2>2. work'["phase2"] = work["phase2"] /\ work'["refresher"] = work["refresher"]
    BY <1>6, <1>4 DEF Worker
  <2>3. /\ work'["phase1"].todo \cup DOMAIN work'["phase1"].got = status'.pending \cap Critical
        /\ Names \ Critical \subseteq status'.pending
    BY <1>1, <1>4, <1>6, <2>1 DEF Worklists
  <2>4. DOMAIN work'["phase2"].got = {} /\ DOMAIN work'["refresher"].got \subseteq Names
    BY <2>1, <2>2 DEF Worklists
  <2>5. pc'["phase1"] = "on" /\ pc'["phase2"] = "off"
    BY <2>1
  <2>. QED  BY <1>2, <1>3, <1>5, <2>3, <2>4, <2>5 DEF Worklists
<1>7. CASE w = "phase2"
  <2>1. pc["phase1"] = "ended" /\ pc["phase2"] = "on"
    BY <1>7 DEF Places
  <2>2. work'["phase1"] = work["phase1"] /\ work'["refresher"] = work["refresher"]
    BY <1>7, <1>4 DEF Worker
  <2>3. Critical \cap (status'.pending \cup status'.failed) = {}
    BY <1>1, <2>1 DEF Worklists
  <2>4. work'["phase2"].todo \cup DOMAIN work'["phase2"].got = status'.pending
    BY <1>4, <1>7, <2>1 DEF Worklists
  <2>5. DOMAIN work'["refresher"].got \subseteq Names
    BY <2>2 DEF Worklists
  <2>6. pc'["phase1"] = "ended" /\ pc'["phase2"] = "on"
    BY <2>1
  <2>. QED  BY <1>2, <1>3, <1>5, <2>3, <2>4, <2>5, <2>6 DEF Worklists
<1>. QED  BY <1>3, <1>6, <1>7

LEMMA ResolvedBy ==
    ASSUME TypeOK, NEW h \in Host, NEW ips \in SUBSET Addr, ips # {}, status' = MarkResolved(h, ips)
    PROVE  Resolved' = Resolved \cup {h}
<1>1. \A k \in Host : status'.resolved[k] = IF k = h THEN ips ELSE status.resolved[k]
  <2>1. \A k \in Host : MarkResolved(h, ips).resolved[k] = IF k = h THEN ips ELSE status.resolved[k]
    BY Marking
  <2>. QED  BY <2>1
<1>. QED  BY <1>1 DEF Resolved

LEMMA ListsKept == TypeOK /\ Places /\ Parted /\ Worklists /\ [Next]_vars => Parted' /\ Worklists'
<1>. SUFFICES ASSUME TypeOK, Places, Parted, Worklists, [Next]_vars PROVE Parted' /\ Worklists'
  OBVIOUS
<1>0. /\ pc = [t \in Thread |-> pc[t]] /\ work \in [Worker -> Work] /\ status \in Status
      /\ \A w \in Worker : \A h \in DOMAIN work[w].got : h \in Host /\ work[w].got[h] \in SUBSET Addr
      /\ \A w \in Worker : \A h \in DOMAIN work[w].got : work[w].got[h] # {}
  <2>1. \A w \in Worker : work[w].got \in SomeAnswers
    BY DEF TypeOK
  <2>. QED  BY <2>1, SomeAnswersAre DEF TypeOK, Worklists, Work, Status
<1>1. CASE Start
  <2>1. ~Alive /\ pc["phase1"] = "off" /\ pc["phase2"] = "off"
    BY <1>1 DEF Start, Alive, Places, Thread, Worker
  <2>2. /\ pc'["phase1"] = "load" /\ pc'["phase2"] = "off" /\ Alive'
    BY <1>1, <2>1, <1>0 DEF Start, Alive, Thread, Worker
  <2>3. /\ DOMAIN work["phase1"].got = {} /\ DOMAIN work["phase2"].got = {}
        /\ DOMAIN work["refresher"].got = {}
    BY <2>1 DEF Worklists, Names
  <2>4. status'.pending = Names' /\ status'.failed = {} /\ status'.resolved = NoAnswers /\ ~status'.complete
    <3>. DEFINE pending == {e.host : e \in list'.entries}
    <3>1. status' = [EmptyStatus EXCEPT !.pending = pending]
      BY <1>1 DEF Start
    <3>2. pending = Names'
      BY DEF Names
    <3>. HIDE DEF pending
    <3>. QED  BY <3>1, <3>2 DEF EmptyStatus
  <2>5. Resolved' = {}
    BY <2>4 DEF Resolved, NoAnswers
  <2>6. work' = work
    BY <1>1 DEF Start
  <2>. QED  BY <2>2, <2>3, <2>4, <2>5, <2>6, <1>0 DEF Parted, Worklists, Worker
<1>2. CASE ProcessEnds
  <2>1. pc' = [t \in Thread |-> IF t = "launcher" THEN "over" ELSE "off"]
    BY <1>2 DEF ProcessEnds
  <2>2. work' = [w \in Worker |-> Idle] /\ status' = EmptyStatus /\ list'.entries = {}
    BY <1>2 DEF ProcessEnds, TypeOK
  <2>3. Names' = {} /\ Resolved' = {}
    BY <2>2 DEF Names, Resolved, EmptyStatus, NoAnswers
  <2>4. \A w \in Worker : DOMAIN work'[w].got = {}
    BY <2>2, Initials
  <2>5. pc'["phase1"] = "off" /\ pc'["phase2"] = "off"
    BY <2>1 DEF Thread, Worker
  <2>. QED  BY <2>2, <2>3, <2>4, <2>5 DEF Parted, Worklists, EmptyStatus, Worker
<1>3. CASE Await
  <2>1. CASE pc' = [pc EXCEPT !["launcher"] = "docker"] /\ UNCHANGED <<list, work, status>>
    BY <2>1, <1>0, ListsFramed DEF Alive, Thread, Worker
  <2>. QED  BY <1>3, <1>2, <2>1 DEF Await
<1>4. CASE StartUpdater
  BY <1>4, <1>0, ListsFramed DEF StartUpdater, Alive, Thread, Worker
<1>5. CASE DockerRun
  BY <1>5, <1>0, ListsFramed DEF DockerRun, Alive, Thread, Worker
<1>6. CASE Relaunch
  BY <1>6, <1>0, ListsFramed DEF Relaunch, Alive, Thread, Worker
<1>7. CASE Load
  <2>1. pc["phase1"] = "load" /\ pc["phase2"] = "off" /\ Alive
    BY <1>7 DEF Load, Places, Thread, Worker
  <2>2. pc'["phase1"] = "on" /\ pc'["phase2"] = "off" /\ Alive'
    BY <1>7, <2>1, <1>0 DEF Load, Alive, Thread, Worker
  <2>3. list'.entries = list.entries /\ status' = status
    BY <1>7 DEF Load, TypeOK
  <2>4. /\ work'["phase1"].todo = Names \cap Critical /\ work'["phase1"].got = work["phase1"].got
        /\ \A v \in {"phase2", "refresher"} : work'[v] = work[v]
    <3>. DEFINE one == [work["phase1"] EXCEPT !.todo = Names \cap Critical]
    <3>1. work' = [work EXCEPT !["phase1"] = one]
      BY <1>7 DEF Load
    <3>2. one.todo = Names \cap Critical /\ one.got = work["phase1"].got
      BY <1>0 DEF Work, Worker
    <3>. HIDE DEF one
    <3>. QED  BY <3>1, <3>2, <1>0 DEF Worker
  <2>5. DOMAIN work["phase1"].got = {} /\ status.failed = {} /\ Resolved = {}
    BY <2>1 DEF Worklists, Resolved, NoAnswers
  <2>6. Names' = Names /\ Parted' /\ status.pending = Names
    BY <2>3, <2>5 DEF Names, Parted, Resolved
  <2>. QED  BY <2>1, <2>2, <2>3, <2>4, <2>5, <2>6, <1>0 DEF Worklists, Worker
<1>8. ASSUME NEW w \in {"phase1", "phase2"}, CascadePass(w)
      PROVE  Parted' /\ Worklists'
  <2>0. w \in Worker /\ work[w] \in Work
    BY <1>0 DEF Worker
  <2>1. /\ Lookup(w, work[w].todo, work[w].stage + 1) /\ work[w].stage < Stages
        /\ DOMAIN work[w].got = {} /\ pc[w] = "on"
    BY <1>8 DEF CascadePass
  <2>2. work[w].todo \in SUBSET Host /\ work[w].stage + 1 \in 0..Stages
    BY <2>0, <2>1, Bounds DEF Work
  <2>3. /\ \A v \in Worker \ {w} : work'[v] = work[v]
        /\ work'[w].todo \cup DOMAIN work'[w].got = work[w].todo
        /\ \A h \in DOMAIN work'[w].got : work'[w].got[h] # {}
    BY <2>0, <2>1, <2>2, AfterLookup
  <2>4. UNCHANGED <<pc, list, status>>
    BY <1>8 DEF CascadePass
  <2>5. Parted' /\ Names' = Names /\ (Alive' <=> Alive)
    BY <2>4 DEF Parted, Resolved, Names, Alive
  <2>6. CASE w = "phase1"
    <3>1. pc["phase2"] = "off" /\ work'["phase2"] = work["phase2"] /\ work'["refresher"] = work["refresher"]
      BY <2>1, <2>3, <2>6 DEF Places, Worker
    <3>. QED  BY <2>1, <2>3, <2>4, <2>5, <2>6, <3>1, <1>0 DEF Worklists, Worker
  <2>7. CASE w = "phase2"
    <3>1. pc["phase1"] = "ended" /\ work'["phase1"] = work["phase1"] /\ work'["refresher"] = work["refresher"]
      BY <2>1, <2>3, <2>7 DEF Places, Worker
    <3>. QED  BY <2>1, <2>3, <2>4, <2>5, <2>7, <3>1, <1>0 DEF Worklists, Worker
  <2>. QED  BY <2>6, <2>7
<1>9. ASSUME NEW w \in {"phase1", "phase2"}, NEW h \in Host, OnFailure(w, h)
      PROVE  Parted' /\ Worklists'
  <2>1. /\ pc[w] = "on" /\ h \in work[w].todo /\ UNCHANGED <<pc, list>> /\ work' = CalledBack(w, h)
        /\ status' = MarkFailed(h)
    BY <1>9 DEF OnFailure
  <2>2. /\ status' \in Status /\ status'.pending = status.pending \ {h}
        /\ status'.failed = status.failed \cup {h} /\ status'.complete = status.complete
        /\ status'.resolved = status.resolved
    BY <2>1, Marking
  <2>3. Resolved' = Resolved
    BY <2>2 DEF Resolved
  <2>. QED  BY <2>1, <2>2, <2>3, Settling
<1>10. ASSUME NEW w \in {"phase1", "phase2"}, NEW h \in Host, pc[w] = "on", h \in DOMAIN work[w].got,
              status' = MarkResolved(h, work[w].got[h]), work' = CalledBack(w, h), UNCHANGED <<pc, list>>
       PROVE  Parted' /\ Worklists'
  <2>1. work[w].got[h] \in SUBSET Addr /\ work[w].got[h] # {}
    BY <1>10, <1>0 DEF Worker
  <2>2. /\ status' \in Status /\ status'.pending = status.pending \ {h}
        /\ status'.failed = status.failed \ {h} /\ status'.complete = status.complete
    BY <1>10, <2>1, Marking
  <2>3. Resolved' = Resolved \cup {h}
    BY <1>10, <2>1, ResolvedBy
  <2>. QED  BY <1>10, <2>2, <2>3, Settling
<1>11. ASSUME NEW h \in Host, OnCritical(h)
       PROVE  Parted' /\ Worklists'
  BY <1>11, <1>10 DEF OnCritical
<1>12. CASE EndOfPhaseOne
  <2>1. /\ pc["phase1"] = "on" /\ work["phase1"].todo = {} /\ DOMAIN work["phase1"].got = {}
        /\ UNCHANGED <<list, status>>
    BY <1>12 DEF EndOfPhaseOne, Through
  <2>2. pc["phase2"] = "off" /\ Alive
    BY <2>1 DEF Places, Thread, Worker
  <2>3. Parted' /\ Names' = Names
    BY <2>1 DEF Parted, Resolved, Names
  <2>4. CASE pc' = [pc EXCEPT !["phase1"] = "failed"] /\ work' = work
    <3>1. pc'["phase1"] = "failed" /\ pc'["phase2"] = "off" /\ Alive'
      BY <2>2, <2>4, <1>0 DEF Alive, Thread, Worker
    <3>. QED  BY <2>1, <2>2, <2>3, <2>4, <3>1 DEF Worklists
  <2>5. CASE /\ status.failed = {} /\ pc' = [pc EXCEPT !["phase1"] = "ended", !["phase2"] = "on"]
             /\ work' = [work EXCEPT !["phase2"].todo = Names \ Critical]
    <3>1. pc'["phase1"] = "ended" /\ pc'["phase2"] = "on" /\ Alive'
      BY <2>2, <2>5, <1>0 DEF Alive, Thread, Worker
    <3>2. /\ work'["phase2"].todo = Names \ Critical /\ work'["phase2"].got = work["phase2"].got
          /\ \A v \in {"phase1", "refresher"} : work'[v] = work[v]
      <4>. DEFINE one == [work["phase2"] EXCEPT !.todo = Names \ Critical]
      <4>1. work' = [work EXCEPT !["phase2"] = one]
        BY <2>5
      <4>2. one.todo = Names \ Critical /\ one.got = work["phase2"].got
        BY <1>0 DEF Work, Worker
      <4>. HIDE DEF one
      <4>. QED  BY <4>1, <4>2, <1>0 DEF Worker
    <3>3. status.pending \cap Critical = {} /\ Names \ Critical \subseteq status.pending
      BY <2>1, <2>2 DEF Worklists
    <3>4. status.pending = Names \ Critical /\ DOMAIN work["phase2"].got = {}
      BY <2>2, <3>3 DEF Parted, Worklists
    <3>. QED  BY <2>1, <2>2, <2>3, <2>5, <3>1, <3>2, <3>3, <3>4, <1>0 DEF Worklists, Worker
  <2>. QED  BY <1>12, <2>4, <2>5 DEF EndOfPhaseOne
<1>13. ASSUME NEW h \in Host, OnRest(h)
       PROVE  Parted' /\ Worklists'
  BY <1>13, <1>10 DEF OnRest
<1>14. CASE Complete
  <2>1. /\ pc["phase2"] = "on" /\ work["phase2"].todo = {} /\ DOMAIN work["phase2"].got = {}
        /\ UNCHANGED <<list, work>> /\ pc' = [pc EXCEPT !["phase2"] = "save"]
        /\ status' = [status EXCEPT !.complete = TRUE]
    BY <1>14 DEF Complete, Through
  <2>2. status.pending = {}
    BY <2>1 DEF Worklists
  <2>3. /\ status'.pending = {} /\ status'.failed = status.failed /\ status'.resolved = status.resolved
    BY <2>1, <2>2, <1>0 DEF Status
  <2>4. /\ pc'["phase2"] = "save" /\ pc'["phase1"] = pc["phase1"] /\ (Alive' <=> Alive)
    BY <2>1, <1>0 DEF Alive, Thread, Worker
  <2>5. Alive
    BY <2>1 DEF Places, Thread, Worker
  <2>6. pc["phase1"] = "ended"
    BY <2>1 DEF Places
  <2>7. Resolved' = Resolved /\ Names' = Names
    BY <2>1, <2>3 DEF Resolved, Names
  <2>8. Parted'
    BY <2>2, <2>3, <2>7 DEF Parted
  <2>. QED  BY <2>1, <2>2, <2>3, <2>4, <2>5, <2>6, <2>7, <2>8 DEF Worklists
<1>15. CASE Signal
  <2>1. pc["phase2"] = "save" /\ UNCHANGED <<list, work, status>>
    BY <1>15 DEF Signal
  <2>2. pc' \in {[pc EXCEPT !["phase2"] = "ended"], [pc EXCEPT !["phase2"] = "failed"]}
    BY <1>15 DEF Signal
  <2>3. pc'["phase2"] \in {"ended", "failed"} /\ pc'["phase1"] = pc["phase1"] /\ (Alive' <=> Alive)
    BY <2>2, <1>0 DEF Alive, Thread, Worker
  <2>. QED  BY <2>1, <2>3 DEF Parted, Worklists, Resolved, Names
<1>16. CASE ContainerIsUp
  BY <1>16, <1>0, ListsFramed DEF ContainerIsUp, Alive, Thread, Worker
<1>17. CASE FirewallIsApplied
  BY <1>17, <1>0, ListsFramed DEF FirewallIsApplied, Alive, Thread, Worker
<1>18. CASE TakeBatch
  <2>1. UNCHANGED <<list, work, status>> /\ \E n \in 0..Len(queue) : Drain(n)
    BY <1>18 DEF TakeBatch
  <2>2. pc' \in {[pc EXCEPT !["updater"] = "flush"], [pc EXCEPT !["updater"] = "last"]}
    BY <2>1 DEF Drain
  <2>. QED  BY <2>1, <2>2, <1>0, ListsFramed DEF Alive, Thread, Worker
<1>19. CASE UpdaterInserts
  BY <1>19, ListsFramed DEF UpdaterInserts, Alive
<1>20. CASE AfterBatch
  <2>1. UNCHANGED <<list, work, status>>
    BY <1>20 DEF AfterBatch
  <2>2. pc' \in {[pc EXCEPT !["updater"] = "take"], [pc EXCEPT !["updater"] = "ended", !["refresher"] = "sleep"]}
    BY <1>20 DEF AfterBatch
  <2>. QED  BY <2>1, <2>2, <1>0, ListsFramed DEF Alive, Thread, Worker
<1>21. ASSUME UNCHANGED <<list, status>>, (Alive' <=> Alive), pc'["phase1"] = pc["phase1"], pc'["phase2"] = pc["phase2"],
              \A v \in Worker \ {"refresher"} : work'[v] = work[v],
              DOMAIN work'["refresher"].got \subseteq Names,
              \A h \in DOMAIN work'["refresher"].got : work'["refresher"].got[h] # {}
       PROVE  Parted' /\ Worklists'
  BY <1>21 DEF Parted, Worklists, Resolved, Names, Worker
<1>22. CASE Refresh
  <2>1. Names \in SUBSET Host
    BY DEF Names, TypeOK, Entry
  <2>2. Lookup("refresher", Names, 1) /\ UNCHANGED <<list, status>> /\ pc' = [pc EXCEPT !["refresher"] = "on"]
    BY <1>22 DEF Refresh
  <2>3. /\ \A v \in Worker \ {"refresher"} : work'[v] = work[v]
        /\ DOMAIN work'["refresher"].got \subseteq Names
        /\ \A h \in DOMAIN work'["refresher"].got : work'["refresher"].got[h] # {}
    <3>1. 1 \in 0..Stages /\ "refresher" \in Worker
      BY Bounds DEF Worker
    <3>2. /\ \A v \in Worker \ {"refresher"} : work'[v] = work[v]
          /\ work'["refresher"].todo \cup DOMAIN work'["refresher"].got = Names
          /\ \A h \in DOMAIN work'["refresher"].got : work'["refresher"].got[h] # {}
      BY <2>1, <2>2, <3>1, AfterLookup
    <3>. QED  BY <3>2
  <2>4. (Alive' <=> Alive) /\ pc'["phase1"] = pc["phase1"] /\ pc'["phase2"] = pc["phase2"]
    BY <2>2, <1>0 DEF Alive, Thread, Worker
  <2>. QED  BY <2>2, <2>3, <2>4, <1>21
<1>23. ASSUME NEW h \in Host, OnRefreshed(h)
       PROVE  Parted' /\ Worklists'
  <2>. DEFINE ips == work["refresher"].got[h]
  <2>1. /\ UNCHANGED <<pc, list>> /\ pc["refresher"] = "on" /\ h \in DOMAIN work["refresher"].got
        /\ work' = CalledBack("refresher", h)
        /\ \/ status' = MarkResolved(h, ips)
           \/ status' = [status EXCEPT !.gaps = GapsWith(h, ips)]
    BY <1>23 DEF OnRefreshed
  <2>2. ips \in SUBSET Addr /\ ips # {} /\ h \in Names
    BY <2>1, <1>0 DEF Worker, Worklists
  <2>3. /\ \A v \in Worker \ {"refresher"} : work'[v] = work[v]
        /\ DOMAIN work'["refresher"].got = DOMAIN work["refresher"].got \ {h}
        /\ \A k \in DOMAIN work'["refresher"].got : work'["refresher"].got[k] = work["refresher"].got[k]
    <3>1. "refresher" \in Worker
      BY DEF Worker
    <3>. QED  BY <2>1, <3>1, AfterCallback
  <2>4. pc["phase2"] = "ended" /\ pc["phase1"] = "ended" /\ Alive
    BY <2>1 DEF Places, Alive, Thread, Worker
  <2>5. status.pending = {}
    BY <2>4 DEF Worklists
  <2>6. /\ status'.pending = {} /\ status'.failed \subseteq status.failed
        /\ status'.failed \cup Resolved' = Names /\ status'.failed \cap Resolved' = {}
    <3>1. CASE status' = MarkResolved(h, ips)
      <4>1. status'.pending = {} /\ status'.failed = status.failed \ {h}
        BY <2>2, <2>5, <3>1, Marking
      <4>2. Resolved' = Resolved \cup {h}
        BY <2>2, <3>1, ResolvedBy
      <4>. QED  BY <2>2, <2>5, <4>1, <4>2 DEF Parted
    <3>2. CASE status' = [status EXCEPT !.gaps = GapsWith(h, ips)]
      <4>1. status'.pending = {} /\ status'.failed = status.failed /\ status'.resolved = status.resolved
        BY <2>5, <3>2, <1>0 DEF Status
      <4>2. Resolved' = Resolved
        BY <4>1 DEF Resolved
      <4>. QED  BY <2>5, <4>1, <4>2 DEF Parted
    <3>. QED  BY <2>1, <3>1, <3>2
  <2>7. Names' = Names
    BY <2>1 DEF Names
  <2>8. Parted'
    BY <2>6, <2>7 DEF Parted
  <2>9. \A w \in Worker : \A k \in DOMAIN work'[w].got : work'[w].got[k] # {}
    BY <2>3, <1>0
  <2>10. work'["phase1"] = work["phase1"] /\ work'["phase2"] = work["phase2"]
    BY <2>3 DEF Worker
  <2>. QED  BY <2>1, <2>3, <2>4, <2>5, <2>6, <2>7, <2>8, <2>9, <2>10 DEF Worklists, Alive
<1>24. ASSUME work' = [work EXCEPT !["refresher"] = Idle]
       PROVE  /\ \A v \in Worker \ {"refresher"} : work'[v] = work[v]
              /\ DOMAIN work'["refresher"].got = {}
  BY <1>24, <1>0, Initials DEF Worker
<1>25. CASE AfterPass
  <2>1. (Alive' <=> Alive) /\ pc'["phase1"] = pc["phase1"] /\ pc'["phase2"] = pc["phase2"]
    BY <1>25, <1>0 DEF AfterPass, Alive, Thread, Worker
  <2>2. UNCHANGED <<list, status>> /\ work' = [work EXCEPT !["refresher"] = Idle]
    BY <1>25 DEF AfterPass
  <2>. QED  BY <2>1, <2>2, <1>21, <1>24
<1>26. CASE RefresherInserts
  BY <1>26, ListsFramed DEF RefresherInserts, Alive
<1>27. CASE RefresherSaves
  BY <1>27, <1>0, ListsFramed DEF RefresherSaves, Alive, Thread, Worker
<1>28. CASE RefreshRaises
  <2>1. (Alive' <=> Alive) /\ pc'["phase1"] = pc["phase1"] /\ pc'["phase2"] = pc["phase2"]
    BY <1>28, <1>0 DEF RefreshRaises, Alive, Thread, Worker
  <2>2. UNCHANGED <<list, status>> /\ work' = [work EXCEPT !["refresher"] = Idle]
    BY <1>28 DEF RefreshRaises
  <2>. QED  BY <2>1, <2>2, <1>21, <1>24
<1>29. CASE ContainerStep
  BY <1>29, ListsFramed DEF ContainerStep, Alive
<1>30. CASE ContainerEnds
  BY <1>30, ListsFramed DEF ContainerEnds, Alive
<1>31. CASE End
  BY <1>31, <1>2 DEF End
<1>32. CASE UNCHANGED vars
  BY <1>32, ListsFramed DEF vars, Alive
<1>. QED
  BY <1>1, <1>3, <1>4, <1>5, <1>6, <1>7, <1>8, <1>9, <1>11, <1>12, <1>13, <1>14, <1>15, <1>16, <1>17, <1>18,
     <1>19, <1>20, <1>22, <1>23, <1>25, <1>26, <1>27, <1>28, <1>29, <1>30, <1>31, <1>32
     DEF Next, Running, Launcher, PhaseOne, PhaseTwo, Updater, Refresher, Worker

-----------------------------------------------------------------------------
\* What the status shows is open.
LEMMA OpenedFramed ==
    ASSUME Opened, UNCHANGED <<list.entries, status.resolved>>, emitted \subseteq emitted', staged \subseteq staged',
           pc'["refresher"] = "off" => pc["refresher"] = "off", Alive' => Alive
    PROVE  Opened'
<1>1. \A a, port : Open(emitted, a, port) => Open(emitted', a, port)
  BY OpenStays
<1>2. \A a, port : Open(staged, a, port) => Open(staged', a, port)
  BY OpenStays
<1>3. (\A e \in list.entries : \A a \in status.resolved[e.host] : Open(emitted, a, e.port))'
  <2>. SUFFICES ASSUME NEW e \in list.entries, NEW a \in status.resolved[e.host]
                PROVE  Open(emitted', a, e.port)
    BY DEF Open
  <2>. QED  BY <1>1 DEF Opened
<1>4. ASSUME pc'["refresher"] = "off", NEW e \in list.entries, NEW a \in status.resolved[e.host], e.host \in Critical
      PROVE  Open(staged', a, e.port)
  BY <1>2, <1>4 DEF Opened
<1>. QED  BY <1>3, <1>4 DEF Opened, Open

\* Where a name was resolved, its tokens were handed out.
LEMMA OpenedByEmit ==
    ASSUME TypeOK, Opened, seen \subseteq emitted, NEW h \in Host, NEW ips \in SUBSET Addr,
           status' \in {MarkResolved(h, ips), [status EXCEPT !.gaps = GapsWith(h, ips)]},
           list' = list, emitted \cup NewTokens(h, ips) \subseteq emitted',
           NEW e \in list.entries, NEW a \in status'.resolved[e.host]
    PROVE  Open(emitted', a, e.port)
<1>0. e.host \in Host /\ status \in Status
  BY DEF TypeOK, Entry, Status
<1>1. ASSUME a \in status.resolved[e.host]
      PROVE  Open(emitted', a, e.port)
  BY <1>1, OpenStays DEF Opened
<1>2. CASE status' = MarkResolved(h, ips)
  <2>1. status'.resolved[e.host] = IF e.host = h THEN ips ELSE status.resolved[e.host]
    <3>1. \A k \in Host : MarkResolved(h, ips).resolved[k] = IF k = h THEN ips ELSE status.resolved[k]
      BY Marking
    <3>. QED  BY <1>0, <1>2, <3>1
  <2>2. CASE e.host = h
    <3>1. Open(emitted \cup NewTokens(e.host, ips), a, e.port)
      BY <2>1, <2>2, Covering
    <3>. QED  BY <2>2, <3>1, OpenStays
  <2>. QED  BY <1>1, <2>1, <2>2
<1>3. CASE status' = [status EXCEPT !.gaps = GapsWith(h, ips)]
  BY <1>0, <1>1, <1>3 DEF Status
<1>. QED  BY <1>2, <1>3

LEMMA OpenedKept == TypeOK /\ Places /\ OnItsWay /\ Parted /\ Worklists /\ Opened /\ [Next]_vars => Opened'
<1>. SUFFICES ASSUME TypeOK, Places, OnItsWay, Parted, Worklists, Opened, [Next]_vars PROVE Opened'
  OBVIOUS
<1>0. /\ pc = [t \in Thread |-> pc[t]] /\ status \in Status
      /\ \A w \in Worker : \A h \in DOMAIN work[w].got : h \in Host /\ work[w].got[h] \in SUBSET Addr
      /\ \A e \in list.entries : e.host \in Host /\ e.host \in Names
      /\ seen \subseteq emitted
  <2>1. \A w \in Worker : work[w].got \in SomeAnswers
    BY DEF TypeOK
  <2>. QED  BY <2>1, SomeAnswersAre DEF TypeOK, Status, Entry, Names, OnItsWay
<1>1. CASE Start
  <2>1. PICK user \in UserLists : list' = [Expand(CriticalEntries \cup Builtin \cup user) EXCEPT !.known = list.known]
    BY <1>1 DEF Start
  <2>2. list'.entries \in SUBSET Entry /\ \A h \in Critical : \E e \in list'.entries : e.host = h /\ e.port = Std
    <3>. DEFINE listed == Expand(CriticalEntries \cup Builtin \cup user)
    <3>1. /\ listed.entries \in SUBSET Entry
          /\ \A h \in Critical : \E e \in listed.entries : e.host = h /\ e.port = Std
          /\ listed = [literals |-> listed.literals, entries |-> listed.entries, known |-> {}]
      BY Expanding
    <3>2. list' = [listed EXCEPT !.known = list.known]
      BY <2>1
    <3>. HIDE DEF listed
    <3>3. list'.entries = listed.entries
      BY <3>1, <3>2
    <3>. QED  BY <3>1, <3>3
  <2>3. status'.resolved = NoAnswers
    <3>. DEFINE pending == {e.host : e \in list'.entries}
    <3>1. status' = [EmptyStatus EXCEPT !.pending = pending]
      BY <1>1 DEF Start
    <3>. HIDE DEF pending
    <3>. QED  BY <3>1 DEF EmptyStatus
  <2>4. \A e \in list'.entries : status'.resolved[e.host] = {}
    BY <2>2, <2>3 DEF Entry, NoAnswers
  <2>. QED  BY <2>2, <2>4 DEF Opened
<1>2. CASE ProcessEnds
  <2>1. list'.entries = {} /\ pc'["launcher"] = "over"
    BY <1>2 DEF ProcessEnds, TypeOK, Thread, Worker
  <2>. QED  BY <2>1 DEF Opened, Alive
<1>3. CASE Await
  <2>1. CASE pc["launcher"] = "await" /\ pc' = [pc EXCEPT !["launcher"] = "docker"] /\ UNCHANGED <<list, status, emitted, staged>>
    BY <2>1, <1>0, OpenedFramed DEF Alive, Thread, Worker
  <2>. QED  BY <1>3, <1>2, <2>1 DEF Await
<1>4. CASE StartUpdater
  BY <1>4, <1>0, OpenedFramed DEF StartUpdater, Alive, Thread, Worker
<1>5. CASE DockerRun
  BY <1>5, <1>0, OpenedFramed DEF DockerRun, Alive, Thread, Worker
<1>6. CASE Relaunch
  BY <1>6, <1>0, OpenedFramed DEF Relaunch, Alive, Thread, Worker
<1>7. CASE Load
  <2>1. list'.entries = list.entries /\ status' = status /\ (Alive' <=> Alive)
    BY <1>7, <1>0 DEF Load, TypeOK, Alive, Thread, Worker
  <2>2. \A e \in list.entries : status.resolved[e.host] = {}
    BY <1>7, <1>0 DEF Load, Worklists, NoAnswers
  <2>. QED  BY <2>1, <2>2 DEF Opened
<1>8. ASSUME NEW w \in Worker, CascadePass(w)
      PROVE  Opened'
  BY <1>8, OpenedFramed DEF CascadePass, Alive
<1>9. ASSUME NEW w \in Worker, NEW h \in Host, OnFailure(w, h)
      PROVE  Opened'
  <2>1. status'.resolved = status.resolved
    BY <1>9, Marking DEF OnFailure
  <2>. QED  BY <1>9, <2>1, OpenedFramed DEF OnFailure, Alive
<1>10. ASSUME NEW h \in Host, OnCritical(h)
       PROVE  Opened'
  <2>. DEFINE ips == work["phase1"].got[h]
  <2>1. /\ emitted' = emitted \cup NewTokens(h, ips) \cup {OwnToken}
        /\ staged' = staged \cup NewTokens(h, ips) \cup {OwnToken}
        /\ status' = MarkResolved(h, ips) /\ UNCHANGED <<pc, list>>
        /\ pc["phase1"] = "on" /\ h \in DOMAIN work["phase1"].got
    BY <1>10 DEF OnCritical, Emit
  <2>2. ips \in SUBSET Addr
    BY <2>1, <1>0 DEF Worker
  <2>. HIDE DEF ips
  <2>3. \A e \in list.entries : \A a \in status'.resolved[e.host] : Open(emitted', a, e.port)
    BY <2>1, <2>2, <1>0, OpenedByEmit
  <2>4. staged' = emitted'
    BY <2>1 DEF OnItsWay
  <2>. QED  BY <2>1, <2>3, <2>4 DEF Opened, Alive
<1>11. CASE EndOfPhaseOne
  <2>1. UNCHANGED <<list, status, emitted, staged>>
    BY <1>11 DEF EndOfPhaseOne
  <2>2. pc' \in {[pc EXCEPT !["phase1"] = "failed"], [pc EXCEPT !["phase1"] = "ended", !["phase2"] = "on"]}
    BY <1>11 DEF EndOfPhaseOne
  <2>. QED  BY <2>1, <2>2, <1>0, OpenedFramed DEF Alive, Thread, Worker
<1>12. ASSUME NEW h \in Host, OnRest(h)
       PROVE  Opened'
  <2>. DEFINE ips == work["phase2"].got[h]
  <2>1. /\ emitted' = emitted \cup NewTokens(h, ips) /\ staged' = staged
        /\ status' = MarkResolved(h, ips) /\ UNCHANGED <<pc, list>>
        /\ pc["phase2"] = "on" /\ h \in DOMAIN work["phase2"].got
    BY <1>12 DEF OnRest, Emit
  <2>2. ips \in SUBSET Addr
    BY <2>1, <1>0 DEF Worker
  <2>. HIDE DEF ips
  <2>3. \A e \in list.entries : \A a \in status'.resolved[e.host] : Open(emitted', a, e.port)
    BY <2>1, <2>2, <1>0, OpenedByEmit
  <2>4. h \notin Critical
    BY <2>1 DEF Worklists
  <2>5. \A k \in Critical : status'.resolved[k] = status.resolved[k]
    <3>1. \A k \in Host : MarkResolved(h, ips).resolved[k] = IF k = h THEN ips ELSE status.resolved[k]
      BY <2>2, Marking
    <3>2. Critical \subseteq Host
      BY ConstantsAssumption
    <3>. QED  BY <2>1, <2>4, <3>1, <3>2
  <2>. QED  BY <2>1, <2>3, <2>5 DEF Opened, Alive
<1>13. CASE Complete
  <2>1. status'.resolved = status.resolved
    BY <1>13, <1>0 DEF Complete, Status
  <2>. QED  BY <1>13, <2>1, <1>0, OpenedFramed DEF Complete, Alive, Thread, Worker
<1>14. CASE Signal
  <2>1. pc' \in {[pc EXCEPT !["phase2"] = "ended"], [pc EXCEPT !["phase2"] = "failed"]}
    BY <1>14 DEF Signal
  <2>2. UNCHANGED <<list, status, emitted, staged>>
    BY <1>14 DEF Signal
  <2>. QED  BY <2>1, <2>2, <1>0, OpenedFramed DEF Alive, Thread, Worker
<1>15. CASE ContainerIsUp
  BY <1>15, <1>0, OpenedFramed DEF ContainerIsUp, Alive, Thread, Worker
<1>16. CASE FirewallIsApplied
  BY <1>16, <1>0, OpenedFramed DEF FirewallIsApplied, Alive, Thread, Worker
<1>17. CASE TakeBatch
  <2>1. UNCHANGED <<list, status, emitted, staged>> /\ \E n \in 0..Len(queue) : Drain(n)
    BY <1>17 DEF TakeBatch
  <2>2. pc' \in {[pc EXCEPT !["updater"] = "flush"], [pc EXCEPT !["updater"] = "last"]}
    BY <2>1 DEF Drain
  <2>. QED  BY <2>1, <2>2, <1>0, OpenedFramed DEF Alive, Thread, Worker
<1>18. CASE UpdaterInserts
  BY <1>18, OpenedFramed DEF UpdaterInserts, Alive
<1>19. CASE AfterBatch
  <2>1. UNCHANGED <<list, status, emitted, staged>>
    BY <1>19 DEF AfterBatch
  <2>2. pc' \in {[pc EXCEPT !["updater"] = "take"], [pc EXCEPT !["updater"] = "ended", !["refresher"] = "sleep"]}
    BY <1>19 DEF AfterBatch
  <2>. QED  BY <2>1, <2>2, <1>0, OpenedFramed DEF Alive, Thread, Worker
<1>20. CASE Refresh
  BY <1>20, <1>0, OpenedFramed DEF Refresh, Alive, Thread, Worker
<1>21. ASSUME NEW h \in Host, OnRefreshed(h)
       PROVE  Opened'
  <2>. DEFINE ips == work["refresher"].got[h]
  <2>1. /\ emitted' = emitted \cup NewTokens(h, ips)
        /\ status' \in {MarkResolved(h, ips), [status EXCEPT !.gaps = GapsWith(h, ips)]}
        /\ UNCHANGED <<pc, list>> /\ pc["refresher"] = "on" /\ h \in DOMAIN work["refresher"].got
    BY <1>21 DEF OnRefreshed, Emit
  <2>2. ips \in SUBSET Addr
    BY <2>1, <1>0 DEF Worker
  <2>. HIDE DEF ips
  <2>3. \A e \in list.entries : \A a \in status'.resolved[e.host] : Open(emitted', a, e.port)
    BY <2>1, <2>2, <1>0, OpenedByEmit
  <2>. QED  BY <2>1, <2>3 DEF Opened, Alive
<1>22. CASE AfterPass
  <2>1. pc["refresher"] = "on" /\ UNCHANGED <<list, status, emitted, staged>>
    BY <1>22 DEF AfterPass
  <2>2. pc' \in {[pc EXCEPT !["refresher"] = "sleep"], [pc EXCEPT !["refresher"] = "flush"]}
    BY <1>22 DEF AfterPass
  <2>. QED  BY <2>1, <2>2, <1>0, OpenedFramed DEF Alive, Thread, Worker
<1>23. CASE RefresherInserts
  BY <1>23, OpenedFramed DEF RefresherInserts, Alive
<1>24. CASE RefresherSaves
  BY <1>24, <1>0, OpenedFramed DEF RefresherSaves, Alive, Thread, Worker
<1>25. CASE RefreshRaises
  BY <1>25, <1>0, OpenedFramed DEF RefreshRaises, Alive, Thread, Worker
<1>26. CASE ContainerStep
  BY <1>26, OpenedFramed DEF ContainerStep, Alive
<1>27. CASE ContainerEnds
  BY <1>27, OpenedFramed DEF ContainerEnds, Alive
<1>28. CASE End
  BY <1>28, <1>2 DEF End
<1>29. CASE UNCHANGED vars
  BY <1>29, OpenedFramed DEF vars, Alive
<1>. QED
  BY <1>1, <1>3, <1>4, <1>5, <1>6, <1>7, <1>8, <1>9, <1>10, <1>11, <1>12, <1>13, <1>14, <1>15, <1>16, <1>17,
     <1>18, <1>19, <1>20, <1>21, <1>22, <1>23, <1>24, <1>25, <1>26, <1>27, <1>28, <1>29
     DEF Next, Running, Launcher, PhaseOne, PhaseTwo, Updater, Refresher, Worker
-----------------------------------------------------------------------------
\* What is kept of DNS is recent.
LEMMA DatedFramed ==
    ASSUME Dated, UNCHANGED <<emitted, work, dns, recent, list.literals>>
    PROVE  Dated'
BY DEF Dated, OpenIsRecent

\* Tokens of an answer that is recent; a name is called back.
LEMMA DatedByEmit ==
    ASSUME TypeOK, Dated, NEW w \in Worker, NEW h \in DOMAIN work[w].got, h \in Host, work[w].got[h] \in SUBSET Addr,
           UNCHANGED <<dns, recent, list>>, work' = CalledBack(w, h),
           emitted' \subseteq emitted \cup NewTokens(h, work[w].got[h]) \cup {OwnToken}
    PROVE  Dated'
<1>. DEFINE ips == work[w].got[h]
<1>1. ips \subseteq recent.now \cup recent.read
  BY DEF Dated
<1>2. \A k \in NewTokens(h, ips) : k.to \in Addr => k.to \in ips
  BY Emitting
<1>3. OwnToken.to \notin Addr
  BY ConstantsAssumption DEF OwnToken
<1>4. /\ \A v \in Worker \ {w} : work'[v] = work[v]
      /\ DOMAIN work'[w].got = DOMAIN work[w].got \ {h}
      /\ \A k \in DOMAIN work'[w].got : work'[w].got[k] = work[w].got[k]
  BY AfterCallback
<1>5. \A v \in Worker : \A k \in DOMAIN work'[v].got : work'[v].got[k] \subseteq recent.now \cup recent.read
  BY <1>4 DEF Dated
<1>6. OpenIsRecent'
  BY <1>1, <1>2, <1>3 DEF Dated, OpenIsRecent
<1>. QED  BY <1>5, <1>6 DEF Dated

LEMMA DatedByLookup ==
    ASSUME TypeOK, Dated, NEW w \in Worker, NEW names \in SUBSET Host, NEW stage \in 0..Stages,
           Lookup(w, names, stage), UNCHANGED <<emitted, list>>
    PROVE  Dated'
<1>1. /\ \A v \in Worker \ {w} : work'[v] = work[v]
      /\ \A h \in DOMAIN work'[w].got : h \in names /\ work'[w].got[h] \subseteq recent'.now \cup dns.cached[h]
      /\ dns'.file = dns.file /\ dns'.cached = dns.cached
      /\ \A h \in Host : dns'.fresh[h] \subseteq dns.fresh[h] \cup recent'.now
      /\ recent.now \subseteq recent'.now /\ recent'.read = recent.read /\ recent'.saved = recent.saved
  <2>1. /\ \A v \in Worker \ {w} : work'[v] = work[v]
        /\ work'[w].todo \cup DOMAIN work'[w].got = names
        /\ \A h \in DOMAIN work'[w].got : work'[w].got[h] \subseteq recent'.now \cup dns.cached[h]
        /\ dns'.file = dns.file /\ dns'.cached = dns.cached
        /\ \A h \in Host : dns'.fresh[h] \subseteq dns.fresh[h] \cup recent'.now
        /\ recent.now \subseteq recent'.now /\ recent'.read = recent.read /\ recent'.saved = recent.saved
    BY AfterLookup
  <2>. QED  BY <2>1
<1>2. OpenIsRecent'
  BY <1>1 DEF Dated, OpenIsRecent
<1>3. \A h \in DOMAIN work'[w].got : work'[w].got[h] \subseteq recent'.now \cup recent'.read
  BY <1>1 DEF Dated
<1>4. \A v \in Worker \ {w} : \A h \in DOMAIN work'[v].got : work'[v].got[h] \subseteq recent'.now \cup recent'.read
  BY <1>1 DEF Dated
<1>5. \A h \in Host : /\ dns'.fresh[h] \subseteq recent'.now /\ dns'.cached[h] \subseteq recent'.read
                      /\ dns'.file[h] \subseteq recent'.saved
  BY <1>1 DEF Dated
<1>. QED  BY <1>2, <1>3, <1>4, <1>5 DEF Dated

LEMMA DatedBySave == ASSUME TypeOK, Dated, SaveCache, UNCHANGED <<emitted, work, list>> PROVE Dated'
<1>1. /\ dns'.file = dns.fresh /\ dns'.cached = dns.cached /\ dns'.fresh = dns.fresh
      /\ recent'.saved = recent.now /\ recent'.now = recent.now /\ recent'.read = recent.read
  BY DEF SaveCache, TypeOK
<1>2. OpenIsRecent'
  BY <1>1 DEF Dated, OpenIsRecent
<1>. QED  BY <1>1, <1>2 DEF Dated

LEMMA DatedKept == TypeOK /\ Places /\ OnItsWay /\ Worklists /\ Dated /\ [Next]_vars => Dated'
<1>. SUFFICES ASSUME TypeOK, Places, OnItsWay, Worklists, Dated, [Next]_vars PROVE Dated'
  OBVIOUS
<1>0. /\ work \in [Worker -> Work] /\ Names \in SUBSET Host
      /\ \A w \in Worker : \A h \in DOMAIN work[w].got : h \in Host /\ work[w].got[h] \in SUBSET Addr
  <2>1. \A w \in Worker : work[w].got \in SomeAnswers
    BY DEF TypeOK
  <2>. QED  BY <2>1, SomeAnswersAre DEF TypeOK, Work, Names, Entry
<1>1. CASE Start
  <2>1. ~Alive /\ pc["phase1"] = "off" /\ pc["phase2"] = "off"
    BY <1>1 DEF Start, Alive, Places, Thread, Worker
  <2>2. \A w \in Worker : DOMAIN work[w].got = {}
    BY <2>1 DEF Worklists, Names, Worker
  <2>3. emitted' = {} /\ work' = work
    BY <1>1, <2>1 DEF Start, OnItsWay
  <2>4. /\ recent'.read = recent.saved /\ recent'.saved = recent.saved /\ recent'.now = recent.now
        /\ dns'.file = dns.file /\ dns'.fresh = dns.fresh /\ dns'.cached \in {NoAnswers, dns.file}
    BY <1>1 DEF Start, LoadedCache, TypeOK
  <2>. QED  BY <2>2, <2>3, <2>4 DEF Dated, OpenIsRecent, NoAnswers
<1>2. CASE ProcessEnds
  <2>1. /\ emitted' = {} /\ dns'.cached = NoAnswers /\ dns'.fresh = NoAnswers /\ dns'.file = dns.file
        /\ recent'.saved = recent.saved /\ work' = [w \in Worker |-> Idle]
    BY <1>2 DEF ProcessEnds, TypeOK
  <2>2. \A w \in Worker : DOMAIN work'[w].got = {}
    BY <2>1, Initials
  <2>. QED  BY <2>1, <2>2 DEF Dated, OpenIsRecent, NoAnswers
<1>3. CASE Await
  BY <1>3, <1>2, DatedFramed DEF Await
<1>4. CASE StartUpdater
  BY <1>4, DatedFramed DEF StartUpdater
<1>5. CASE DockerRun
  BY <1>5, DatedFramed DEF DockerRun
<1>6. CASE Relaunch
  BY <1>6, DatedFramed DEF Relaunch
<1>7. CASE Load
  <2>1. emitted' = list'.literals /\ UNCHANGED <<dns, recent>>
    BY <1>7 DEF Load, TypeOK
  <2>2. \A w \in Worker : work'[w].got = work[w].got
    <3>. DEFINE one == [work["phase1"] EXCEPT !.todo = Names \cap Critical]
    <3>1. work' = [work EXCEPT !["phase1"] = one]
      BY <1>7 DEF Load
    <3>2. one.got = work["phase1"].got
      BY <1>0 DEF Work, Worker
    <3>. HIDE DEF one
    <3>. QED  BY <3>1, <3>2, <1>0
  <2>. QED  BY <2>1, <2>2 DEF Dated, OpenIsRecent
<1>8. ASSUME NEW w \in Worker, CascadePass(w)
      PROVE  Dated'
  <2>1. work[w] \in Work
    BY <1>0
  <2>2. /\ Lookup(w, work[w].todo, work[w].stage + 1) /\ work[w].stage < Stages
        /\ UNCHANGED <<emitted, list>>
    BY <1>8 DEF CascadePass
  <2>3. work[w].todo \in SUBSET Host /\ work[w].stage + 1 \in 0..Stages
    BY <2>1, <2>2, Bounds DEF Work
  <2>. QED  BY <2>2, <2>3, DatedByLookup
<1>9. ASSUME NEW w \in Worker, NEW h \in Host, OnFailure(w, h)
      PROVE  Dated'
  <2>1. /\ \A v \in Worker \ {w} : work'[v] = work[v]
        /\ DOMAIN work'[w].got = DOMAIN work[w].got \ {h}
        /\ \A k \in DOMAIN work'[w].got : work'[w].got[k] = work[w].got[k]
    BY <1>9, AfterCallback DEF OnFailure
  <2>2. \A v \in Worker : \A k \in DOMAIN work'[v].got : work'[v].got[k] \subseteq recent.now \cup recent.read
    BY <2>1 DEF Dated
  <2>. QED  BY <1>9, <2>2 DEF OnFailure, Dated, OpenIsRecent
<1>10. ASSUME NEW h \in Host, OnCritical(h)
       PROVE  Dated'
  BY <1>10, <1>0, DatedByEmit DEF OnCritical, Emit, Worker
<1>11. CASE EndOfPhaseOne
  <2>1. UNCHANGED <<list, dns, emitted, recent>>
    BY <1>11 DEF EndOfPhaseOne
  <2>2. \A w \in Worker : work'[w].got = work[w].got
    <3>. DEFINE one == [work["phase2"] EXCEPT !.todo = Names \ Critical]
    <3>1. work' = [work EXCEPT !["phase2"] = one] \/ work' = work
      BY <1>11 DEF EndOfPhaseOne
    <3>2. one.got = work["phase2"].got
      BY <1>0 DEF Work, Worker
    <3>. HIDE DEF one
    <3>. QED  BY <3>1, <3>2, <1>0
  <2>. QED  BY <2>1, <2>2 DEF Dated, OpenIsRecent
<1>12. ASSUME NEW h \in Host, OnRest(h)
       PROVE  Dated'
  BY <1>12, <1>0, DatedByEmit DEF OnRest, Emit, Worker
<1>13. CASE Complete
  BY <1>13, DatedFramed DEF Complete
<1>14. CASE Signal
  <2>1. UNCHANGED <<list, emitted, work>>
    BY <1>14 DEF Signal
  <2>2. SaveCache \/ UNCHANGED <<dns, recent>>
    BY <1>14 DEF Signal
  <2>. QED  BY <2>1, <2>2, DatedBySave, DatedFramed
<1>15. CASE ContainerIsUp
  BY <1>15, DatedFramed DEF ContainerIsUp
<1>16. CASE FirewallIsApplied
  BY <1>16, DatedFramed DEF FirewallIsApplied
<1>17. CASE TakeBatch
  BY <1>17, DatedFramed DEF TakeBatch
<1>18. CASE UpdaterInserts
  BY <1>18, DatedFramed DEF UpdaterInserts
<1>19. CASE AfterBatch
  BY <1>19, DatedFramed DEF AfterBatch
<1>20. CASE Refresh
  <2>1. /\ Lookup("refresher", Names, 1) /\ 1 \in 0..Stages /\ "refresher" \in Worker
        /\ UNCHANGED <<emitted, list>>
    BY <1>20, Bounds DEF Refresh, Worker
  <2>. QED  BY <2>1, <1>0, DatedByLookup
<1>21. ASSUME NEW h \in Host, OnRefreshed(h)
       PROVE  Dated'
  BY <1>21, <1>0, DatedByEmit DEF OnRefreshed, Emit, Worker
<1>22. ASSUME work' = [work EXCEPT !["refresher"] = Idle], UNCHANGED <<emitted, dns, recent, list>>
       PROVE  Dated'
  <2>1. /\ \A v \in Worker \ {"refresher"} : work'[v] = work[v]
        /\ DOMAIN work'["refresher"].got = {}
    BY <1>22, <1>0, Initials DEF Worker
  <2>2. \A v \in Worker : \A k \in DOMAIN work'[v].got : work'[v].got[k] \subseteq recent.now \cup recent.read
    BY <2>1 DEF Dated
  <2>. QED  BY <1>22, <2>2 DEF Dated, OpenIsRecent
<1>23. CASE AfterPass
  BY <1>23, <1>22 DEF AfterPass
<1>24. CASE RefresherInserts
  BY <1>24, DatedFramed DEF RefresherInserts
<1>25. CASE RefresherSaves
  BY <1>25, DatedBySave DEF RefresherSaves
<1>26. CASE RefreshRaises
  BY <1>26, <1>22 DEF RefreshRaises
<1>27. CASE ContainerStep
  BY <1>27, DatedFramed DEF ContainerStep
<1>28. CASE ContainerEnds
  BY <1>28, DatedFramed DEF ContainerEnds
<1>29. CASE End
  BY <1>29, <1>2 DEF End
<1>30. CASE UNCHANGED vars
  BY <1>30, DatedFramed DEF vars
<1>. QED
  BY <1>1, <1>3, <1>4, <1>5, <1>6, <1>7, <1>8, <1>9, <1>10, <1>11, <1>12, <1>13, <1>14, <1>15, <1>16, <1>17,
     <1>18, <1>19, <1>20, <1>21, <1>23, <1>24, <1>25, <1>26, <1>27, <1>28, <1>29, <1>30
     DEF Next, Running, Launcher, PhaseOne, PhaseTwo, Updater, Refresher, Worker

-----------------------------------------------------------------------------
LEMMA Initially == Init => IInv
<1>. SUFFICES ASSUME Init PROVE IInv
  OBVIOUS
<1>0. TypeOK
  BY TypesInitially
<1>1. /\ status = EmptyStatus /\ list.entries = {} /\ Names = {} /\ Resolved = {}
      /\ emitted = {} /\ seen = {} /\ staged = {} /\ lost = {} /\ rules = {} /\ box = "none"
      /\ pc["launcher"] = "start" /\ \A t \in Thread \ {"launcher"} : pc[t] = "off"
      /\ \A w \in Worker : work[w] = Idle
  BY DEF Init, Names, Resolved, EmptyStatus, NoAnswers, Thread
<1>2. queue = <<>> /\ hand["updater"] = <<>> /\ hand["refresher"] = <<>>
  BY DEF Init, Flusher
<1>3. ~Alive /\ \A w \in Worker : DOMAIN work[w].got = {}
  BY <1>1, Initials DEF Alive
<1>4. Parted
  BY <1>1 DEF Parted, EmptyStatus
<1>5. Range(queue) = {} /\ Waiting = {}
  BY <1>2, RangeOfEmpty DEF Waiting
<1>6. Places
  BY <1>1, <1>2, <1>3, <1>5 DEF Places, Thread, Worker
<1>7. OnItsWay
  BY <1>1, <1>5 DEF OnItsWay
<1>8. Worklists
  BY <1>1, <1>3 DEF Worklists, EmptyStatus, Worker, Thread
<1>9. Opened
  BY <1>1, <1>3 DEF Opened
<1>10. Dated
  <2>1. PICK file \in OldFiles : /\ dns = [file |-> file, cached |-> NoAnswers, fresh |-> NoAnswers]
                                 /\ recent = [now |-> {}, read |-> {}, saved |-> UNION {file[h] : h \in Host}]
    BY DEF Init
  <2>2. \A h \in Host : file[h] \subseteq recent.saved
    BY <2>1
  <2>. QED  BY <1>1, <1>3, <2>1, <2>2 DEF Dated, OpenIsRecent, NoAnswers
<1>. QED  BY <1>0, <1>4, <1>6, <1>7, <1>8, <1>9, <1>10 DEF IInv

\* The inductive invariant of a launch, its threads and its container.
THEOREM Invariant == Spec => []IInv
<1>1. Init => IInv
  BY Initially
<1>2. IInv /\ [Next]_vars => IInv'
  BY TypesKept, PlacesKept, OnItsWayKept, ListsKept, OpenedKept, DatedKept DEF IInv
<1>. QED  BY <1>1, <1>2, PTL DEF Spec

\* The threads are never two between their reads and their writes of the shared
\* sets (resolver.py:448, 526, 822), every token emitted is on its way, in the
\* container or given up, and the status file's sections partition the names.
THEOREM TokensHandedOver == Spec => []HandedOver
<1>1. IInv => HandedOver
  <2>. SUFFICES ASSUME TypeOK, Parted, Places, OnItsWay PROVE HandedOver
    BY DEF IInv
  <2>1. WellFormed
    BY DEF WellFormed, Sections, Parted
  <2>2. Users = {} \/ \E w \in Worker : Users = {w}
    <3>1. pc["refresher"] = "on" => pc["phase2"] \notin {"load", "on"} /\ pc["phase1"] \notin {"load", "on"}
      BY DEF Places
    <3>2. pc["phase2"] \in {"load", "on"} => pc["phase1"] = "ended"
      BY DEF Places
    <3>3. pc["refresher"] = "load" => pc["phase2"] \notin {"load", "on"} /\ pc["phase1"] \notin {"load", "on"}
      BY DEF Places
    <3>. QED  BY <3>1, <3>2, <3>3 DEF Users, Worker
  <2>3. Cardinality(Users) <= 1
    BY <2>2, FS_EmptySet, FS_Singleton
  <2>4. /\ seen \cup rules \cup lost \cup staged \subseteq emitted
        /\ emitted \subseteq staged \cup rules \cup lost
                \cup UNION {Range(s) : s \in {queue, hand["updater"], hand["refresher"]}}
    BY DEF OnItsWay, Waiting
  <2>. QED  BY <2>1, <2>3, <2>4 DEF HandedOver
<1>. QED  BY <1>1, Invariant, PTL

\* Every address the status file shows is covered by tokens handed out, and every
\* address pinned was answered in this launch or in the one that wrote the cache.
THEOREM OpenIsWhatWasAnswered == Spec => []OpensWhatWasAnswered
<1>1. IInv => OpensWhatWasAnswered
  BY DEF IInv, Opened, Dated, OpensWhatWasAnswered, NoSilentHole
<1>. QED  BY <1>1, Invariant, PTL

\* The agent is started by the script alone; rules change by it, by an insertion
\* or with the process.
LEMMA OnlyTheScript ==
    ASSUME [Next]_vars
    PROVE  \/ ContainerStep
           \/ UpdaterInserts /\ box' = box
           \/ RefresherInserts /\ box' = box
           \/ UNCHANGED <<box, rules>>
           \/ box' = "started" /\ UNCHANGED rules
           \/ box' \in {"none", "dead"}
<1>1. CASE UpdaterInserts
  BY <1>1 DEF UpdaterInserts
<1>2. CASE RefresherInserts
  BY <1>2 DEF RefresherInserts
<1>3. CASE ContainerStep \/ ContainerEnds \/ End \/ Relaunch \/ Launcher
  BY <1>3 DEF ContainerEnds, End, Relaunch, Launcher, Start, Await, StartUpdater, DockerRun, ProcessEnds
<1>4. CASE PhaseOne
  BY <1>4 DEF PhaseOne, Load, CascadePass, EndOfPhaseOne, OnCritical, OnFailure
<1>5. CASE PhaseTwo
  BY <1>5 DEF PhaseTwo, CascadePass, Complete, Signal, OnRest, OnFailure
<1>6. CASE ContainerIsUp \/ FirewallIsApplied \/ TakeBatch \/ AfterBatch
  BY <1>6 DEF ContainerIsUp, FirewallIsApplied, TakeBatch, AfterBatch
<1>7. CASE Refresh \/ RefreshRaises \/ AfterPass \/ RefresherSaves \/ \E h \in Host : OnRefreshed(h)
  BY <1>7 DEF Refresh, RefreshRaises, AfterPass, RefresherSaves, OnRefreshed
<1>8. CASE UNCHANGED vars
  BY <1>8 DEF vars
<1>. QED  BY <1>1, <1>2, <1>3, <1>4, <1>5, <1>6, <1>7, <1>8 DEF Next, Running, Updater, Refresher

\* When init-firewall.sh hands over to the agent, every critical host was resolved
\* and an address of it is open: phase 1 either resolved it or ended the launch.
THEOREM AgentStartsWithItsApi == Spec => AgentCanReachCritical
<1>. DEFINE Reaches == \A h \in Critical : \E a \in status.resolved[h] : Open(rules, a, Std)
<1>1. IInv /\ [Next]_vars /\ box # "agent" /\ box' = "agent" => Reaches
  <2>. SUFFICES ASSUME IInv, [Next]_vars, box # "agent", box' = "agent", NEW h \in Critical
                PROVE  \E a \in status.resolved[h] : Open(rules, a, Std)
    OBVIOUS
  <2>. USE DEF IInv
  <2>1. box = "walled"
    BY OnlyTheScript DEF ContainerStep
  <2>2. pc["launcher"] = "inside" /\ pc["refresher"] = "off"
    BY <2>1 DEF Places, Alive
  <2>3. Critical \cap (status.pending \cup status.failed) = {}
    BY <2>2 DEF Places, Worklists
  <2>4. PICK e \in list.entries : e.host = h /\ e.port = Std
    BY <2>2 DEF Opened, Alive
  <2>5. h \in Names
    BY <2>4 DEF Names
  <2>6. PICK a : a \in status.resolved[h]
    BY <2>3, <2>5 DEF Parted, Resolved
  <2>7. Open(staged, a, Std)
    BY <2>2, <2>4, <2>6 DEF Opened
  <2>8. Open(rules, a, Std)
    BY <2>1, <2>7, OpenStays DEF OnItsWay
  <2>. QED  BY <2>6, <2>8
<1>. QED  BY <1>1, Invariant, PTL DEF Spec, AgentCanReachCritical

\* No step of a container that lives takes away a rule (container_probe.py:102,
\* init-firewall.sh:228): the script's own flush finds the chain empty.
THEOREM RulesStay == Spec => RulesSurvive
<1>1. IInv /\ [Next]_vars /\ box' \notin {"none", "dead"} => rules \subseteq rules'
  <2>. SUFFICES ASSUME IInv, [Next]_vars, box' \notin {"none", "dead"} PROVE rules \subseteq rules'
    OBVIOUS
  <2>1. CASE ContainerStep
    BY <2>1 DEF IInv, OnItsWay, ContainerStep
  <2>2. CASE UpdaterInserts \/ RefresherInserts
    BY <2>2, Inserting DEF IInv, UpdaterInserts, RefresherInserts, Flusher
  <2>. QED  BY <2>1, <2>2, OnlyTheScript
<1>. QED  BY <1>1, Invariant, PTL DEF Spec, RulesSurvive
=============================================================================
