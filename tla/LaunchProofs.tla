---------------------------- MODULE LaunchProofs ----------------------------
(***************************************************************************)
(* What the two models of launching promise for any constants.             *)
(*                                                                         *)
(* ClusterStore: any sessions, agents, tags, templates and processes.      *)
(* Only one process writes at a time, but forms stay open meanwhile, so    *)
(* what they read may be stale: every cluster that is written is sound     *)
(* because the one that was read was.                                      *)
(*                                                                         *)
(* LaunchPlan: any launchers, units, trees and builds.  Files and the      *)
(* image's tag change under a launch, but its plan does not, and what it   *)
(* refused, staged and installed by each step is what it relies on later.  *)
(***************************************************************************)
EXTENDS ClusterStore, LaunchPlan, FiniteSetTheorems, WellFoundedInduction, TLAPS

-----------------------------------------------------------------------------
(* ClusterStore *)

\* A cluster that can be launched.
Sound(c) ==
    /\ c \in ClusterFile /\ Ids(c) # {} /\ Locked \subseteq c.tags
    /\ \A m \in Ids(c) : c.own[m] \cap c.tags = {} /\ c.own[m] \cap NotForMembers = {}

\* A new cluster's members are sound, and keep what the read one gave them but
\* for the tags that are common now.
Keeps(c, d) ==
    /\ Locked \subseteq d.tags
    /\ \A m \in Ids(c) \cap Ids(d) : d.own[m] = c.own[m] \ d.tags

Steps == {"off", "form", "add", "move", "moved", "remove", "rmdir"}

\* What a process is in the middle of, and what it has in hand by then.
JobOK(j) ==
    /\ DOMAIN j = {"step", "kind", "at", "to", "read", "new", "todo"}
    /\ j.step \in Steps /\ j.todo \subseteq Session \X Member
    /\ j.step # "off" => j.at \in Session
    /\ j.step \in {"form", "move", "moved", "remove", "rmdir"} => Sound(j.read)
    /\ j.step \in {"move", "moved"} => j.to \in Session /\ Sound(j.new) /\ Keeps(j.read, j.new)

TypesOK ==
    /\ store \in [Session -> ClusterFile \cup {None}]
    /\ \A s \in Session : store[s] # None => Sound(store[s])
    /\ trees \subseteq Session \X Member /\ admin \subseteq Session \X Member
    /\ DOMAIN job = Proc /\ \A p \in Proc : JobOK(job[p])

\* Two processes never write at once.
OneWriter == \A p, q \in Proc : job[p].step \notin Forms /\ job[q].step \notin Forms => p = q

\* A checkout that did not drift belongs to a member of a stored cluster.
TreesHaveMembers ==
    \A w \in trees \ adrift : store[w[1]] # None /\ w[2] \in Ids(store[w[1]])

\* A process that adds checkouts has just stored their cluster; one that moves
\* a cluster moves it to a name that is free; one that removes checkouts knows
\* of every one that git lists, and has none left when it removes the directory.
Knows(p) == LET j == job[p] IN
    /\ j.step = "add" => store[j.at] # None /\ j.todo \subseteq At(j.at, Ids(store[j.at]))
    /\ j.step = "move" => store[j.to] = None
    /\ j.step = "remove" => (trees \ adrift) \cap At(j.at, Ids(j.read)) \subseteq j.todo
    /\ j.step = "rmdir" => (trees \ adrift) \cap At(j.at, Ids(j.read)) = {}

IInv == TypesOK /\ OneWriter /\ GitMatchesTheDisk /\ TreesHaveMembers /\ \A p \in Proc : Knows(p)

-----------------------------------------------------------------------------
(* Clusters *)

\* The parts of a cluster.
LEMMA ClusterParts ==
    ASSUME NEW c \in ClusterFile
    PROVE  /\ c.tags \in SUBSET Tag /\ Ids(c) \in SUBSET Member /\ c.own \in [Ids(c) -> SUBSET Tag]
           /\ c = [tags |-> c.tags, own |-> c.own]
<1>1. /\ c.tags \in SUBSET Tag /\ c.own \in UNION {[M -> SUBSET Tag] : M \in SUBSET Member}
      /\ c = [tags |-> c.tags, own |-> c.own]
  BY DEF ClusterFile
<1>2. PICK M \in SUBSET Member : c.own \in [M -> SUBSET Tag]
  BY <1>1
<1>3. Ids(c) = M
  BY <1>2 DEF Ids
<1>. QED  BY <1>1, <1>2, <1>3

\* Tags and a build for some members are a cluster.
LEMMA ClusterMade ==
    ASSUME NEW tags \in SUBSET Tag, NEW M \in SUBSET Member, NEW owns \in [M -> SUBSET Tag]
    PROVE  [tags |-> tags, own |-> owns] \in ClusterFile
<1>1. owns \in UNION {[N -> SUBSET Tag] : N \in SUBSET Member}
  OBVIOUS
<1>. QED  BY <1>1 DEF ClusterFile

\* What Cluster makes of tags and builds: it is sound if it has members and
\* none of them a tag that members may not carry.
LEMMA ClusterIsSound ==
    ASSUME NEW tags \in SUBSET Tag, NEW M \in SUBSET Member, NEW build \in [M -> SUBSET Tag]
    PROVE  LET c == Cluster(tags, build) IN
           /\ c \in ClusterFile /\ Ids(c) = M /\ c.tags = tags \cup Locked
           /\ \A m \in M : c.own[m] = build[m] \ (tags \cup Locked)
           /\ M # {} /\ ~Forbidden(c) => Sound(c)
<1>. DEFINE c == Cluster(tags, build)
            owns == [m \in M |-> build[m] \ (tags \cup Locked)]
<1>1. c = [tags |-> tags \cup Locked, own |-> owns]
  BY DEF Cluster, OwnBuild
<1>2. owns \in [M -> SUBSET Tag] /\ tags \cup Locked \in SUBSET Tag
  BY ConstantsAssumption
<1>3. c \in ClusterFile
  BY <1>1, <1>2, ClusterMade
<1>4. Ids(c) = M /\ c.tags = tags \cup Locked /\ \A m \in M : c.own[m] = build[m] \ (tags \cup Locked)
  BY <1>1 DEF Ids
<1>5. M # {} /\ ~Forbidden(c) => Sound(c)
  BY <1>3, <1>4 DEF Sound, Forbidden
<1>. QED  BY <1>3, <1>4, <1>5

\* Saving a sound cluster stores it as it is.
LEMMA SavedAsItIs ==
    ASSUME NEW c, Sound(c)
    PROVE  Cluster(c.tags, c.own) = c
<1>1. /\ c.tags \in SUBSET Tag /\ Ids(c) \in SUBSET Member /\ c.own \in [Ids(c) -> SUBSET Tag]
      /\ c = [tags |-> c.tags, own |-> c.own]
  BY ClusterParts DEF Sound
<1>2. c.tags \cup Locked = c.tags
  BY DEF Sound
<1>3. \A m \in Ids(c) : c.own[m] \ c.tags = c.own[m]
  BY DEF Sound
<1>4. [m \in DOMAIN c.own |-> OwnBuild(c.own[m], c.tags \cup Locked)] = c.own
  BY <1>1, <1>2, <1>3 DEF OwnBuild, Ids
<1>. QED  BY <1>1, <1>2, <1>4 DEF Cluster

\* A sound cluster with one member's build replaced is sound.
LEMMA WithBuildIsSound ==
    ASSUME NEW c, Sound(c), NEW m \in Ids(c), NEW build \in SUBSET Tag,
           (build \ c.tags) \cap NotForMembers = {}
    PROVE  /\ Sound(WithBuild(c, m, build)) /\ WithBuild(c, m, build).tags = c.tags
           /\ Ids(WithBuild(c, m, build)) = Ids(c)
           /\ \A n \in Ids(c) \ {m} : WithBuild(c, m, build).own[n] = c.own[n]
<1>. DEFINE owns == [c.own EXCEPT ![m] = build \ c.tags]
<1>1. /\ c.tags \in SUBSET Tag /\ Ids(c) \in SUBSET Member /\ c.own \in [Ids(c) -> SUBSET Tag]
      /\ c = [tags |-> c.tags, own |-> c.own]
  BY ClusterParts DEF Sound
<1>2. WithBuild(c, m, build) = [tags |-> c.tags, own |-> owns]
  BY <1>1 DEF WithBuild, OwnBuild
<1>3. owns \in [Ids(c) -> SUBSET Tag] /\ owns[m] = build \ c.tags /\ \A n \in Ids(c) \ {m} : owns[n] = c.own[n]
  BY <1>1
<1>4. [tags |-> c.tags, own |-> owns] \in ClusterFile
  BY <1>1, <1>3, ClusterMade
<1>. HIDE DEF owns
<1>5. Ids([tags |-> c.tags, own |-> owns]) = Ids(c)
  BY <1>3 DEF Ids
<1>6. Sound([tags |-> c.tags, own |-> owns])
  BY <1>3, <1>4, <1>5 DEF Sound
<1>. QED  BY <1>2, <1>3, <1>5, <1>6

\* A sound cluster of more than one member is sound without one of them.
LEMMA WithoutMemberIsSound ==
    ASSUME NEW c, Sound(c), NEW m \in Ids(c), Cardinality(Ids(c)) > 1
    PROVE  /\ Sound(WithoutMember(c, m)) /\ WithoutMember(c, m).tags = c.tags
           /\ \A n \in Ids(WithoutMember(c, m)) : n \in Ids(c) /\ WithoutMember(c, m).own[n] = c.own[n]
<1>. DEFINE rest == Ids(c) \ {m}
            owns == [n \in rest |-> c.own[n]]
<1>1. /\ c.tags \in SUBSET Tag /\ Ids(c) \in SUBSET Member /\ c.own \in [Ids(c) -> SUBSET Tag]
      /\ c = [tags |-> c.tags, own |-> c.own]
  BY ClusterParts DEF Sound
<1>2. WithoutMember(c, m) = [tags |-> c.tags, own |-> owns]
  BY <1>1 DEF WithoutMember
<1>3. owns \in [rest -> SUBSET Tag] /\ rest \in SUBSET Member /\ \A n \in rest : owns[n] = c.own[n]
  BY <1>1
<1>4. rest # {}
  <2>. SUFFICES ASSUME rest = {} PROVE FALSE
    OBVIOUS
  <2>1. Ids(c) = {m}
    OBVIOUS
  <2>2. Cardinality({m}) = 1
    BY FS_Singleton
  <2>. QED  BY <2>1, <2>2
<1>5. [tags |-> c.tags, own |-> owns] \in ClusterFile
  BY <1>1, <1>3, ClusterMade
<1>6. rest \subseteq Ids(c)
  OBVIOUS
<1>. HIDE DEF owns, rest
<1>7. Ids([tags |-> c.tags, own |-> owns]) = rest
  BY <1>3 DEF Ids
<1>8. Sound([tags |-> c.tags, own |-> owns])
  BY <1>3, <1>4, <1>5, <1>6, <1>7 DEF Sound
<1>. QED  BY <1>2, <1>3, <1>6, <1>7, <1>8

\* The memberships a form can end with are some members, never none.
LEMMA SomeMembers ==
    ASSUME NEW roles, NEW M \in Memberships(roles)
    PROVE  M \in SUBSET Member /\ M # {}
<1>1. M \in SUBSET Member /\ Cardinality(M) \in 1 .. MaxMembers
  BY DEF Memberships
<1>2. Cardinality({}) = 0
  BY FS_EmptySet
<1>. QED  BY <1>1, <1>2

\* A template's members are some, and no tag comes from outside.
LEMMA TemplateMembers ==
    ASSUME NEW t \in DOMAIN Template
    PROVE  Legoset(t) \in SUBSET Member /\ Legoset(t) # {}
<1>1. PICK a \in Agent : Template[t] \in [Agent -> SUBSET Role] /\ Template[t][a] # {}
  BY ConstantsAssumption
<1>2. PICK r \in Role : r \in Template[t][a]
  BY <1>1
<1>3. <<a, r>> \in Member /\ <<a, r>> \in Legoset(t)
  BY <1>1, <1>2 DEF Legoset, Member
<1>. QED  BY <1>3 DEF Legoset

\* A new cluster is sound unless a member has a tag that members may not carry.
LEMMA NewClusterIsSound ==
    ASSUME NEW M \in SUBSET Member, M # {}, NEW tags \in SUBSET Tag, ~Forbidden(FromTemplate(M, tags))
    PROVE  Sound(FromTemplate(M, tags)) /\ Ids(FromTemplate(M, tags)) = M
<1>1. Assemble(M) \in [M -> SUBSET Tag]
  BY ConstantsAssumption DEF Assemble, Member
<1>. QED  BY <1>1, ClusterIsSound DEF FromTemplate

\* So is an edited one, which keeps what its members had.
LEMMA EditedClusterIsSound ==
    ASSUME NEW c, Sound(c), NEW M \in SUBSET Member, M # {}, NEW tags \in SUBSET Tag,
           ~Forbidden(Cluster(tags, Reassemble(c, M)))
    PROVE  Sound(Cluster(tags, Reassemble(c, M))) /\ Keeps(c, Cluster(tags, Reassemble(c, M)))
<1>. DEFINE d == Cluster(tags, Reassemble(c, M))
<1>0. c.own \in [Ids(c) -> SUBSET Tag]
  BY ClusterParts DEF Sound
<1>1. /\ Reassemble(c, M) \in [M -> SUBSET Tag]
      /\ \A m \in M \cap Ids(c) : Reassemble(c, M)[m] = c.own[m]
  BY <1>0, ConstantsAssumption DEF Reassemble, Member
<1>2. /\ d \in ClusterFile /\ Ids(d) = M /\ d.tags = tags \cup Locked
      /\ \A m \in M : d.own[m] = Reassemble(c, M)[m] \ (tags \cup Locked)
      /\ M # {} /\ ~Forbidden(d) => Sound(d)
  BY <1>1, ClusterIsSound
<1>. HIDE DEF d
<1>3. Keeps(c, d)
  BY <1>1, <1>2 DEF Keeps
<1>. QED  BY <1>2, <1>3 DEF d

-----------------------------------------------------------------------------
(* Steps *)

\* What all steps start from.
LEMMA Typed ==
    ASSUME IInv
    PROVE  /\ DOMAIN job = Proc /\ DOMAIN store = Session
           /\ \A p \in Proc : JobOK(job[p]) /\ Knows(p)
           /\ \A s \in Session : store[s] # None => Sound(store[s])
           /\ \A p \in Proc : job[p].step \notin Forms => MayWrite(p)
  BY DEF IInv, TypesOK, OneWriter, MayWrite

\* No process but p goes on.
LEMMA OthersKeep ==
    ASSUME IInv, NEW p \in Proc, NEW j, Set(p, j)
    PROVE  job'[p] = j /\ DOMAIN job' = Proc /\ \A q \in Proc \ {p} : job'[q] = job[q]
  BY Typed DEF Set

\* A step of p that leaves the clusters and the checkouts alone, or that p
\* takes as the only writer, disturbs no other process.
LEMMA OthersKnow ==
    ASSUME IInv, NEW p \in Proc, NEW j, Set(p, j), JobOK(j), Knows(p)',
           MayWrite(p) \/ (UNCHANGED <<store, trees, adrift>> /\ j.step \in Forms)
    PROVE  /\ DOMAIN job' = Proc /\ \A q \in Proc : JobOK(job'[q]) /\ Knows(q)'
           /\ OneWriter'
<1>1. job'[p] = j /\ DOMAIN job' = Proc /\ \A q \in Proc \ {p} : job'[q] = job[q]
  BY OthersKeep
<1>2. \A q \in Proc : JobOK(job'[q])
  BY <1>1, Typed
<1>3. \A q \in Proc \ {p} : MayWrite(p) => job'[q].step \in Forms
  BY <1>1 DEF MayWrite
<1>4. ASSUME NEW q \in Proc \ {p}
      PROVE  Knows(q)'
  <2>1. CASE MayWrite(p)
    BY <1>3, <2>1 DEF Knows, Forms
  <2>2. CASE UNCHANGED <<store, trees, adrift>>
    BY <1>1, <2>2, Typed DEF Knows
  <2>. QED  BY <2>1, <2>2
<1>5. OneWriter'
  <2>1. CASE MayWrite(p)
    BY <1>3, <2>1 DEF OneWriter
  <2>2. CASE j.step \in Forms
    BY <1>1, <2>2 DEF OneWriter, IInv
  <2>. QED  BY <2>1, <2>2
<1>. QED  BY <1>1, <1>2, <1>4, <1>5

\* p stores a sound cluster as that of s, and goes on with j.
Stores(p, s, c, j) ==
    /\ MayWrite(p) /\ Sound(c) /\ store' = [store EXCEPT ![s] = c] /\ adrift' = adrift \cup Drops(s, c)
    /\ Set(p, j) /\ UNCHANGED <<trees, admin>>

LEMMA NoJobOK == JobOK(NoJob) /\ NoJob.step = "off" /\ NoJob.step \in Forms
  BY DEF JobOK, NoJob, Steps, Forms

\* Save, of a sound cluster.
LEMMA SaveStores ==
    ASSUME NEW s, NEW c, Sound(c), Save(s, c)
    PROVE  store' = [store EXCEPT ![s] = c] /\ adrift' = adrift \cup Drops(s, c)
  BY SavedAsItIs DEF Save

\* A checkout that neither drifted nor drifts away by the saving has its member.
LEMMA StoresKeeps ==
    ASSUME IInv, NEW p \in Proc, NEW s \in Session, NEW c, NEW j, Stores(p, s, c, j), JobOK(j),
           j.step \in Forms \/ (j.step = "add" /\ j.at = s /\ j.todo \subseteq At(s, Ids(c)))
    PROVE  IInv'
<1>0. DOMAIN store = Session /\ None \notin ClusterFile
  BY Typed, ConstantsAssumption
<1>1. store' = [store EXCEPT ![s] = c] /\ store'[s] = c /\ c # None /\ \A x \in Session \ {s} : store'[x] = store[x]
  BY <1>0 DEF Stores, Sound
<1>2. job'[p] = j /\ MayWrite(p)
  BY OthersKeep DEF Stores
<1>3. Knows(p)'
  BY <1>1, <1>2 DEF Knows, Forms
<1>4. /\ DOMAIN job' = Proc /\ \A q \in Proc : JobOK(job'[q]) /\ Knows(q)'
      /\ OneWriter'
  <2>1. Set(p, j)
    BY DEF Stores
  <2>. QED  BY <1>2, <1>3, <2>1, OthersKnow
<1>5. /\ store' \in [Session -> ClusterFile \cup {None}] /\ \A x \in Session : store'[x] # None => Sound(store'[x])
  BY <1>1 DEF IInv, TypesOK, Stores, Sound
<1>6. trees' = trees /\ admin' = admin /\ adrift \subseteq adrift' /\ adrift' = adrift \cup Drops(s, c)
  BY DEF Stores
<1>7. TypesOK'
  BY <1>4, <1>5, <1>6 DEF TypesOK, IInv
<1>8. GitMatchesTheDisk'
  BY <1>6 DEF GitMatchesTheDisk, IInv
<1>9. ASSUME NEW w \in trees' \ adrift'
      PROVE  store'[w[1]] # None /\ w[2] \in Ids(store'[w[1]])
  <2>1. w \in trees \ adrift /\ w \notin Drops(s, c) /\ store[w[1]] # None /\ w[2] \in Ids(store[w[1]])
    BY <1>6 DEF IInv, TreesHaveMembers
  <2>2. w[1] \in Session /\ w = <<w[1], w[2]>>
    BY <2>1 DEF IInv, TypesOK
  <2>3. CASE w[1] = s
    BY <1>1, <2>1, <2>2, <2>3 DEF Drops, At
  <2>4. CASE w[1] # s
    BY <1>1, <2>1, <2>2, <2>4
  <2>. QED  BY <2>3, <2>4
<1>. QED  BY <1>4, <1>7, <1>8, <1>9 DEF IInv, TreesHaveMembers

\* p goes on with j and changes no cluster; which checkouts it may add or
\* remove, git is told of, and a checkout that comes has its member.
LEMMA TreesKeep ==
    ASSUME IInv, NEW p \in Proc, NEW j, Set(p, j), JobOK(j), Knows(p)',
           MayWrite(p) \/ (UNCHANGED trees /\ j.step \in Forms),
           UNCHANGED <<store, adrift>>, GitMatchesTheDisk',
           trees' \subseteq Session \X Member, admin' \subseteq Session \X Member,
           \A w \in (trees' \ trees) \ adrift : store[w[1]] # None /\ w[2] \in Ids(store[w[1]])
    PROVE  IInv'
<1>1. /\ DOMAIN job' = Proc /\ \A q \in Proc : JobOK(job'[q]) /\ Knows(q)'
      /\ OneWriter'
  BY OthersKnow
<1>2. TypesOK'
  BY <1>1 DEF TypesOK, IInv
<1>3. TreesHaveMembers'
  BY DEF TreesHaveMembers, IInv
<1>. QED  BY <1>1, <1>2, <1>3 DEF IInv

\* A job after one of its fields has changed.
LEMMA JobWith ==
    ASSUME NEW j, JobOK(j), NEW j2, DOMAIN j2 = DOMAIN j,
           j2.step \in Steps, j2.todo \subseteq Session \X Member,
           j2.step # "off" => j2.at \in Session,
           j2.step \in {"form", "move", "moved", "remove", "rmdir"} => Sound(j2.read),
           j2.step \in {"move", "moved"} => j2.to \in Session /\ Sound(j2.new) /\ Keeps(j2.read, j2.new)
    PROVE  JobOK(j2)
  BY DEF JobOK

\* One step of a process keeps the invariant: opening a form and leaving it.
LEMMA LoadKeeps ==
    ASSUME IInv, NEW p \in Proc, NEW kind, NEW s \in Session, Load(p, kind, s)
    PROVE  IInv'
<1>. DEFINE j == [NoJob EXCEPT !.step = "form", !.kind = kind, !.at = s, !.to = s, !.read = store[s]]
<1>1. Set(p, j) /\ UNCHANGED <<store, trees, admin, adrift>> /\ Sound(store[s])
  BY Typed DEF Load
<1>2. JobOK(j) /\ j.step = "form"
  BY <1>1 DEF JobOK, NoJob, Steps
<1>. HIDE DEF j
<1>3. Knows(p)' /\ j.step \in Forms
  BY <1>1, <1>2, OthersKeep DEF Knows, Forms
<1>. QED  BY <1>1, <1>2, <1>3, TreesKeep DEF IInv, TypesOK, GitMatchesTheDisk

LEMMA IdleKeeps ==
    ASSUME IInv, NEW p \in Proc, Idle(p), UNCHANGED <<store, trees, admin, adrift>>
    PROVE  IInv'
<1>1. Set(p, NoJob)
  BY DEF Idle
<1>2. Knows(p)'
  BY <1>1, OthersKeep, NoJobOK DEF Knows
<1>. QED  BY <1>1, <1>2, NoJobOK, TreesKeep DEF IInv, TypesOK, GitMatchesTheDisk

\* The flows that store what they made.
LEMMA EditMemberKeeps ==
    ASSUME IInv, NEW p \in Proc, EditMember(p)
    PROVE  \E m \in Ids(job[p].read), c \in ClusterFile :
             /\ Stores(p, job[p].at, c, NoJob) /\ job[p].at \in Session /\ Sound(job[p].read)
             /\ c.tags = job[p].read.tags /\ Ids(c) = Ids(job[p].read)
             /\ \A n \in Ids(c) \ {m} : c.own[n] = job[p].read.own[n]
<1>1. PICK m \in Ids(job[p].read), build \in SUBSET (Tag \ NotForMembers) :
         Save(job[p].at, WithBuild(job[p].read, m, build \cup job[p].read.tags))
  BY DEF EditMember
<1>2. Sound(job[p].read) /\ job[p].at \in Session /\ MayWrite(p)
  BY Typed DEF EditMember, Asked, JobOK
<1>3. job[p].read.tags \in SUBSET Tag
  BY <1>2, ClusterParts DEF Sound
<1>. DEFINE read == job[p].read
            c == WithBuild(read, m, build \cup read.tags)
<1>4. /\ Sound(c) /\ c.tags = read.tags /\ Ids(c) = Ids(read)
      /\ \A n \in Ids(c) \ {m} : c.own[n] = read.own[n]
  <2>1. build \cup read.tags \in SUBSET Tag /\ ((build \cup read.tags) \ read.tags) \cap NotForMembers = {}
    BY <1>3
  <2>. QED  BY <1>2, <2>1, WithBuildIsSound
<1>5. Set(p, NoJob) /\ UNCHANGED <<trees, admin>>
  BY DEF EditMember, Idle
<1>. HIDE DEF c
<1>6. Stores(p, job[p].at, c, NoJob)
  <2>1. Save(job[p].at, c)
    BY <1>1 DEF c
  <2>. QED  BY <1>2, <1>4, <1>5, <2>1, SaveStores DEF Stores
<1>. QED  BY <1>2, <1>4, <1>6 DEF Sound

LEMMA RemoveMemberKeeps ==
    ASSUME IInv, NEW p \in Proc, RemoveMember(p)
    PROVE  \E c : /\ Stores(p, job[p].at, c, NoJob) /\ job[p].at \in Session /\ Sound(job[p].read)
                  /\ Keeps(job[p].read, c)
<1>1. PICK m \in Ids(job[p].read) : Save(job[p].at, WithoutMember(job[p].read, m))
  BY DEF RemoveMember
<1>2. /\ Sound(job[p].read) /\ job[p].at \in Session /\ MayWrite(p) /\ Cardinality(Ids(job[p].read)) > 1
  BY Typed DEF RemoveMember, Asked, JobOK
<1>. DEFINE read == job[p].read
            c == WithoutMember(read, m)
<1>3. /\ Sound(c) /\ c.tags = read.tags
      /\ \A n \in Ids(c) : n \in Ids(read) /\ c.own[n] = read.own[n]
  BY <1>2, WithoutMemberIsSound
<1>4. Set(p, NoJob) /\ UNCHANGED <<trees, admin>>
  BY DEF RemoveMember, Idle
<1>. HIDE DEF c
<1>5. Stores(p, job[p].at, c, NoJob)
  <2>1. Save(job[p].at, c)
    BY <1>1 DEF c
  <2>. QED  BY <1>2, <1>3, <1>4, <2>1, SaveStores DEF Stores
<1>6. Keeps(read, c)
  BY <1>2, <1>3 DEF Keeps, Sound
<1>. QED  BY <1>2, <1>5, <1>6

\* Both creations: under a name nobody has, and with the checkouts still to add.
LEMMA CreateKeeps ==
    ASSUME IInv, NEW p \in Proc, CreateInForm(p) \/ CreateByCommand(p)
    PROVE  \E s, c, j :
             /\ s \in Session /\ Stores(p, s, c, j) /\ ~Taken(s) /\ JobOK(j)
             /\ j.step \in Forms \/ (j.step = "add" /\ j.at = s /\ j.todo \subseteq At(s, Ids(c)))
<1>0. {} \in SUBSET Tag
  OBVIOUS
<1>1. CASE CreateInForm(p)
  <2>1. PICK s \in Session, t \in DOMAIN Template, tags \in SUBSET Tag :
          \E members \in Memberships(Template[t]) :
             /\ ~Taken(s) /\ ~Forbidden(FromTemplate(members, tags)) /\ Save(s, FromTemplate(members, tags))
    BY <1>1 DEF CreateInForm
  <2>2. PICK members \in Memberships(Template[t]) :
             /\ ~Taken(s) /\ ~Forbidden(FromTemplate(members, tags)) /\ Save(s, FromTemplate(members, tags))
    BY <2>1
  <2>3. Sound(FromTemplate(members, tags))
    BY <2>2, SomeMembers, NewClusterIsSound
  <2>4. Stores(p, s, FromTemplate(members, tags), NoJob)
    BY <1>1, <2>2, <2>3, SaveStores DEF CreateInForm, Stores, Idle
  <2>. QED  BY <2>2, <2>4, NoJobOK
<1>2. CASE CreateByCommand(p)
  <2>1. PICK s \in Session, t \in DOMAIN Template, worktrees \in BOOLEAN :
          LET c == FromTemplate(Legoset(t), {}) IN
          /\ ~Taken(s) /\ ~Forbidden(c) /\ (worktrees => Hosts)
          /\ Save(s, c)
          /\ IF worktrees
             THEN Set(p, [NoJob EXCEPT !.step = "add", !.kind = "create", !.at = s,
                                       !.todo = ToAdd(At(s, Ids(c)))])
             ELSE Idle(p)
    BY <1>2 DEF CreateByCommand
  <2>. DEFINE c == FromTemplate(Legoset(t), {})
              begun == [NoJob EXCEPT !.step = "add", !.kind = "create", !.at = s, !.todo = ToAdd(At(s, Ids(c)))]
  <2>2. Sound(c) /\ Ids(c) \in SUBSET Member
    BY <1>0, <2>1, TemplateMembers, NewClusterIsSound
  <2>3. /\ ~Taken(s) /\ Save(s, c) /\ MayWrite(p) /\ UNCHANGED <<trees, admin>>
        /\ Set(p, begun) \/ Set(p, NoJob)
    BY <1>2, <2>1 DEF CreateByCommand, Idle
  <2>. HIDE DEF c
  <2>4. /\ begun.step = "add" /\ begun.at = s /\ begun.todo \subseteq At(s, Ids(c))
        /\ JobOK(begun)
    BY <2>2 DEF NoJob, JobOK, Steps, ToAdd, At
  <2>. HIDE DEF begun
  <2>5. \E j \in {begun, NoJob} : Stores(p, s, c, j)
    BY <2>2, <2>3, SaveStores DEF Stores
  <2>. QED  BY <2>3, <2>4, <2>5, NoJobOK
<1>. QED  BY <1>1, <1>2

\* One checkout more, or the job is over.
LEMMA AddKeeps ==
    ASSUME IInv, NEW p \in Proc, Add(p)
    PROVE  IInv'
<1>0. /\ job[p].step = "add" /\ UNCHANGED <<store, adrift>> /\ MayWrite(p) /\ JobOK(job[p])
      /\ store[job[p].at] # None /\ job[p].todo \subseteq At(job[p].at, Ids(store[job[p].at]))
  BY Typed DEF Add, Knows, Forms
<1>1. CASE Idle(p) /\ UNCHANGED <<trees, admin, branches>>
  BY <1>0, <1>1, IdleKeeps
<1>2. ASSUME NEW w \in job[p].todo,
             trees' = trees \cup {w} /\ admin' = admin \cup {w}, Set(p, [job[p] EXCEPT !.todo = @ \ {w}])
      PROVE  IInv'
  <2>. DEFINE j == [job[p] EXCEPT !.todo = @ \ {w}]
  <2>1. JobOK(j) /\ j.step = "add" /\ j.at = job[p].at /\ j.todo \subseteq job[p].todo
    BY <1>0 DEF JobOK
  <2>2. w \in Session \X Member /\ store[w[1]] # None /\ w[2] \in Ids(store[w[1]])
    BY <1>0 DEF JobOK, At
  <2>. HIDE DEF j
  <2>3. Set(p, j)
    BY <1>2 DEF j
  <2>4. Knows(p)'
    BY <1>0, <2>1, <2>3, OthersKeep DEF Knows
  <2>5. GitMatchesTheDisk'
    BY <1>0, <1>2 DEF GitMatchesTheDisk, IInv
  <2>6. /\ trees' \subseteq Session \X Member /\ admin' \subseteq Session \X Member
        /\ \A x \in (trees' \ trees) \ adrift : store[x[1]] # None /\ x[2] \in Ids(store[x[1]])
    BY <1>2, <2>2 DEF IInv, TypesOK
  <2>. QED  BY <1>0, <2>1, <2>3, <2>4, <2>5, <2>6, TreesKeep
<1>. QED  BY <1>1, <1>2 DEF Add

\* What the form of a cluster ends with: the cluster stored, or a move begun.
LEMMA EditClusterKeeps ==
    ASSUME IInv, NEW p \in Proc, EditCluster(p)
    PROVE  \E c : /\ Sound(c) /\ Sound(job[p].read) /\ Keeps(job[p].read, c) /\ MayWrite(p)
                  /\ job[p].at \in Session
                  /\ \/ Stores(p, job[p].at, c, NoJob)
                     \/ \E s \in Session :
                          /\ ~Taken(s) /\ UNCHANGED <<store, trees, admin, adrift>>
                          /\ Set(p, [job[p] EXCEPT !.step = "move", !.to = s, !.new = c])
<1>1. Sound(job[p].read) /\ job[p].at \in Session /\ MayWrite(p)
  BY Typed DEF EditCluster, Asked, JobOK
<1>2. PICK s \in Session, tags \in SUBSET Tag,
           members \in Memberships([a \in Agent |-> Roles(job[p].read, a)]) :
          LET c == Cluster(tags, Reassemble(job[p].read, members)) IN
          /\ s = job[p].at \/ ~Taken(s)
          /\ ~Forbidden(c)
          /\ IF s = job[p].at THEN Save(s, c) /\ Idle(p)
             ELSE /\ Set(p, [job[p] EXCEPT !.step = "move", !.to = s, !.new = c])
                  /\ UNCHANGED <<store, adrift>>
  BY DEF EditCluster
<1>. DEFINE c == Cluster(tags, Reassemble(job[p].read, members))
<1>3. Sound(c) /\ Keeps(job[p].read, c)
  BY <1>1, <1>2, SomeMembers, EditedClusterIsSound
<1>4. UNCHANGED <<trees, admin>>
  BY DEF EditCluster
<1>5. /\ s = job[p].at \/ ~Taken(s)
      /\ IF s = job[p].at THEN Save(s, c) /\ Idle(p)
         ELSE /\ Set(p, [job[p] EXCEPT !.step = "move", !.to = s, !.new = c])
              /\ UNCHANGED <<store, adrift>>
  BY <1>2
<1>. HIDE DEF c
<1>6. CASE s = job[p].at
  <2>1. Stores(p, job[p].at, c, NoJob)
    BY <1>1, <1>3, <1>4, <1>5, <1>6, SaveStores DEF Stores, Idle
  <2>. QED  BY <1>1, <1>3, <2>1
<1>7. CASE s # job[p].at
  BY <1>1, <1>3, <1>4, <1>5, <1>7
<1>. QED  BY <1>6, <1>7

\* To begin a move disturbs nothing.
LEMMA MoveBegins ==
    ASSUME IInv, NEW p \in Proc, NEW s \in Session, NEW c, job[p].step = "form",
           Sound(c), Sound(job[p].read), Keeps(job[p].read, c), MayWrite(p), job[p].at \in Session,
           ~Taken(s), UNCHANGED <<store, trees, admin, adrift>>,
           Set(p, [job[p] EXCEPT !.step = "move", !.to = s, !.new = c])
    PROVE  IInv'
<1>. DEFINE j == [job[p] EXCEPT !.step = "move", !.to = s, !.new = c]
<1>1. JobOK(job[p])
  BY Typed
<1>2. JobOK(j) /\ j.step = "move" /\ j.to = s
  BY <1>1 DEF JobOK, Steps
<1>. HIDE DEF j
<1>3. Set(p, j)
  BY DEF j
<1>4. Knows(p)'
  BY <1>2, <1>3, OthersKeep DEF Knows, Taken
<1>. QED  BY <1>2, <1>3, <1>4, TreesKeep DEF IInv, TypesOK, GitMatchesTheDisk

\* The directory moves, and every checkout in it drifts.
LEMMA MoveKeeps ==
    ASSUME IInv, NEW p \in Proc, Move(p)
    PROVE  IInv'
<1>. DEFINE s == job[p].at
            to == job[p].to
            riding == {w \in trees : w[1] = s}
            arrived == {<<to, w[2]>> : w \in riding}
            j == [job[p] EXCEPT !.step = "moved"]
<1>0. /\ job[p].step = "move" /\ JobOK(job[p]) /\ MayWrite(p) /\ UNCHANGED admin
      /\ s \in Session /\ to \in Session /\ DOMAIN store = Session
  BY Typed DEF Move, Forms, JobOK
<1>1. CASE Idle(p) /\ UNCHANGED <<store, trees, adrift>>
  BY <1>0, <1>1, IdleKeeps
<1>2. CASE ~ (store[s] = None \/ \E w \in trees : w[1] = to)
  <2>1. /\ store' = [store EXCEPT ![to] = store[s], ![s] = None]
        /\ trees' = (trees \ riding) \cup arrived
        /\ adrift' = adrift \cup riding \cup arrived
        /\ Set(p, j)
    BY <1>2 DEF Move
  <2>2. /\ \A x \in Session : x = s => store'[x] = None
        /\ \A x \in Session : x # s /\ x = to => store'[x] = store[s]
        /\ \A x \in Session : x # s /\ x # to => store'[x] = store[x]
    BY <1>0, <2>1
  <2>3. JobOK(j) /\ j.step = "moved"
    BY <1>0 DEF JobOK, Steps
  <2>4. trees \subseteq Session \X Member /\ arrived \subseteq Session \X Member
    BY <1>0 DEF IInv, TypesOK
  <2>5. \A w \in trees : w \notin riding => w[1] # s /\ w[1] # to
    BY <1>2
  <2>. HIDE DEF j, riding, arrived, s, to
  <2>6. Knows(p)'
    BY <2>1, <2>3, OthersKeep DEF Knows
  <2>7. /\ DOMAIN job' = Proc /\ \A q \in Proc : JobOK(job'[q]) /\ Knows(q)'
        /\ OneWriter'
    BY <1>0, <2>1, <2>3, <2>6, OthersKnow
  <2>8. /\ store' \in [Session -> ClusterFile \cup {None}]
        /\ \A x \in Session : store'[x] # None => Sound(store'[x])
    BY <1>0, <2>1, <2>2 DEF IInv, TypesOK
  <2>9. TypesOK'
    BY <1>0, <2>1, <2>4, <2>7, <2>8 DEF IInv, TypesOK
  <2>10. GitMatchesTheDisk'
    BY <1>0, <2>1 DEF IInv, GitMatchesTheDisk
  <2>11. ASSUME NEW w \in trees' \ adrift'
         PROVE  store'[w[1]] # None /\ w[2] \in Ids(store'[w[1]])
    <3>1. w \in trees \ adrift /\ w \notin riding
      BY <2>1
    <3>2. w[1] \in Session /\ store'[w[1]] = store[w[1]]
      BY <2>2, <2>4, <2>5, <3>1
    <3>. QED  BY <3>1, <3>2 DEF IInv, TreesHaveMembers
  <2>. QED  BY <2>7, <2>9, <2>10, <2>11 DEF IInv, TreesHaveMembers
<1>3. CASE store[s] = None \/ \E w \in trees : w[1] = to
  BY <1>1, <1>3 DEF Move
<1>. QED  BY <1>2, <1>3

LEMMA SaveMovedStores ==
    ASSUME IInv, NEW p \in Proc, SaveMoved(p)
    PROVE  /\ Stores(p, job[p].to, job[p].new, NoJob) /\ job[p].to \in Session
           /\ Sound(job[p].read) /\ Keeps(job[p].read, job[p].new)
  BY Typed, SaveStores DEF SaveMoved, JobOK, Stores, Idle, Forms

\* To begin a destruction disturbs nothing, whatever was read of the cluster.
LEMMA DestroyKeeps ==
    ASSUME IInv, NEW p \in Proc, NEW s \in Session, NEW c, Sound(c), Destroy(p, s, c)
    PROVE  IInv'
<1>. DEFINE planned == At(s, Ids(c))
            begun == [NoJob EXCEPT !.kind = "destroy", !.at = s, !.read = c]
            removing == [begun EXCEPT !.step = "remove", !.todo = Listed(planned)]
            emptied == [begun EXCEPT !.step = "rmdir"]
<1>0. /\ MayWrite(p) /\ UNCHANGED <<store, trees, admin, adrift>>
      /\ IF HasTrees(planned) THEN Set(p, removing) ELSE Set(p, emptied)
  BY DEF Destroy
<1>1. Listed(planned) = planned \cap admin /\ Listed(planned) \subseteq Session \X Member
  BY DEF Listed, IInv, TypesOK
<1>2. /\ JobOK(removing) /\ removing.step = "remove" /\ removing.at = s /\ removing.read = c
      /\ removing.todo = planned \cap admin
  BY <1>1 DEF JobOK, NoJob, Steps
<1>3. JobOK(emptied) /\ emptied.step = "rmdir" /\ emptied.at = s /\ emptied.read = c
  BY DEF JobOK, NoJob, Steps
<1>. HIDE DEF removing, emptied
<1>4. CASE HasTrees(planned)
  <2>1. Knows(p)'
    BY <1>0, <1>2, <1>4, OthersKeep DEF Knows, IInv, GitMatchesTheDisk
  <2>. QED  BY <1>0, <1>2, <1>4, <2>1, TreesKeep DEF IInv, TypesOK, GitMatchesTheDisk
<1>5. CASE ~HasTrees(planned)
  <2>1. Knows(p)'
    BY <1>0, <1>3, <1>5, OthersKeep DEF Knows, HasTrees
  <2>. QED  BY <1>0, <1>3, <1>5, <2>1, TreesKeep DEF IInv, TypesOK, GitMatchesTheDisk
<1>. QED  BY <1>4, <1>5

\* One checkout less, for git as well; or git forgets those that are gone.
LEMMA RemoveKeeps ==
    ASSUME IInv, NEW p \in Proc, RemoveTree(p)
    PROVE  IInv'
<1>0. /\ job[p].step = "remove" /\ JobOK(job[p]) /\ Knows(p) /\ MayWrite(p) /\ UNCHANGED <<store, adrift>>
      /\ trees \subseteq Session \X Member /\ admin \subseteq Session \X Member /\ GitMatchesTheDisk
  BY Typed DEF RemoveTree, Forms, IInv, TypesOK
<1>1. ASSUME NEW w \in job[p].todo, trees' = trees \ {w} /\ admin' = admin \ {w},
             Set(p, [job[p] EXCEPT !.todo = @ \ {w}])
      PROVE  IInv'
  <2>. DEFINE j == [job[p] EXCEPT !.todo = @ \ {w}]
  <2>1. /\ JobOK(j) /\ j.step = "remove" /\ j.at = job[p].at /\ j.read = job[p].read
        /\ j.todo = job[p].todo \ {w}
    BY <1>0 DEF JobOK
  <2>. HIDE DEF j
  <2>2. Set(p, j)
    BY <1>1 DEF j
  <2>3. Knows(p)'
    BY <1>0, <1>1, <2>1, <2>2, OthersKeep DEF Knows
  <2>. QED  BY <1>0, <1>1, <2>1, <2>2, <2>3, TreesKeep DEF GitMatchesTheDisk
<1>2. ASSUME job[p].todo = {}, admin' = admin \cap trees, trees' = trees,
             Set(p, [job[p] EXCEPT !.step = "rmdir"])
      PROVE  IInv'
  <2>. DEFINE j == [job[p] EXCEPT !.step = "rmdir"]
  <2>1. JobOK(j) /\ j.step = "rmdir" /\ j.at = job[p].at /\ j.read = job[p].read
    BY <1>0 DEF JobOK, Steps
  <2>. HIDE DEF j
  <2>2. Set(p, j)
    BY <1>2 DEF j
  <2>3. Knows(p)'
    BY <1>0, <1>2, <2>1, <2>2, OthersKeep DEF Knows
  <2>. QED  BY <1>0, <1>2, <2>1, <2>2, <2>3, TreesKeep DEF GitMatchesTheDisk
<1>. QED  BY <1>1, <1>2 DEF RemoveTree

\* The directory goes: what git still lists in it belongs to members that the
\* cluster got after it was read.
LEMMA RemoveDirKeeps ==
    ASSUME IInv, NEW p \in Proc, RemoveDir(p)
    PROVE  IInv'
<1>. DEFINE s == job[p].at
            c == job[p].read
<1>0. /\ job[p].step = "rmdir" /\ MayWrite(p) /\ UNCHANGED admin /\ Set(p, NoJob)
      /\ (trees \ adrift) \cap At(s, Ids(c)) = {} /\ s \in Session /\ DOMAIN store = Session
      /\ adrift' = adrift \cup Drops(s, c) /\ store' = [store EXCEPT ![s] = None]
      /\ trees' = {w \in trees : w[1] # s}
  BY Typed DEF RemoveDir, Forms, Knows, JobOK, Idle
<1>1. trees \subseteq Session \X Member /\ admin \subseteq Session \X Member /\ GitMatchesTheDisk
  BY DEF IInv, TypesOK
<1>. HIDE DEF s, c
<1>2. /\ DOMAIN job' = Proc /\ \A q \in Proc : JobOK(job'[q]) /\ Knows(q)'
      /\ OneWriter'
  <2>1. Knows(p)'
    BY <1>0, NoJobOK, OthersKeep DEF Knows
  <2>. QED  BY <1>0, <2>1, NoJobOK, OthersKnow
<1>3. store'[s] = None /\ \A x \in Session \ {s} : store'[x] = store[x]
  BY <1>0
<1>4. TypesOK'
  BY <1>0, <1>1, <1>2, <1>3 DEF IInv, TypesOK
<1>5. ASSUME NEW w \in admin' \ adrift'
      PROVE  w \in trees'
  <2>1. w \in trees \ adrift /\ w \notin Drops(s, c)
    BY <1>0, <1>1 DEF GitMatchesTheDisk
  <2>2. w = <<w[1], w[2]>> /\ store[w[1]] # None /\ w[2] \in Ids(store[w[1]])
    BY <1>1, <2>1 DEF IInv, TreesHaveMembers
  <2>3. w[1] # s
    <3>. SUFFICES ASSUME w[1] = s PROVE FALSE
      OBVIOUS
    <3>1. w[2] \in Ids(c)
      BY <2>1, <2>2 DEF Drops, At
    <3>2. w \in At(s, Ids(c))
      BY <2>2, <3>1 DEF At
    <3>. QED  BY <1>0, <2>1, <3>2
  <2>. QED  BY <1>0, <2>1, <2>3
<1>6. GitMatchesTheDisk'
  BY <1>0, <1>1, <1>5 DEF GitMatchesTheDisk
<1>7. TreesHaveMembers'
  BY <1>0, <1>1, <1>3 DEF IInv, TreesHaveMembers
<1>. QED  BY <1>2, <1>4, <1>6, <1>7 DEF IInv

\* A host without clusters.
LEMMA Initially == Init => IInv
<1>. SUFFICES ASSUME Init PROVE IInv
  OBVIOUS
<1>1. /\ store = [s \in Session |-> None] /\ trees = {} /\ admin = {} /\ adrift = {}
      /\ job = [p \in Proc |-> NoJob]
  BY DEF Init
<1>2. \A p \in Proc : JobOK(job[p]) /\ job[p].step = "off"
  BY <1>1, NoJobOK
<1>3. TypesOK
  BY <1>1, <1>2 DEF TypesOK
<1>4. OneWriter /\ \A p \in Proc : Knows(p)
  BY <1>2 DEF OneWriter, Knows, Forms
<1>. QED  BY <1>1, <1>3, <1>4 DEF IInv, GitMatchesTheDisk, TreesHaveMembers

\* Any step of any process keeps the invariant.
LEMMA Inductive == IInv /\ [Next]_vars => IInv'
<1>. SUFFICES ASSUME IInv, [Next]_vars PROVE IInv'
  OBVIOUS
<1>0. ASSUME UNCHANGED <<store, trees, admin, adrift, job>>
      PROVE  IInv'
  BY <1>0 DEF IInv, TypesOK, OneWriter, GitMatchesTheDisk, TreesHaveMembers, Knows
<1>1. CASE Commit \/ UNCHANGED vars
  BY <1>0, <1>1 DEF Commit, vars
<1>2. ASSUME NEW p \in Proc, NEW kind, NEW s \in Session, Load(p, kind, s)
      PROVE  IInv'
  BY <1>2, LoadKeeps
<1>3. ASSUME NEW p \in Proc, Cancel(p) \/ Crash(p)
      PROVE  IInv'
  BY <1>3, IdleKeeps DEF Cancel, Crash
<1>4. ASSUME NEW p \in Proc, EditMember(p) \/ RemoveMember(p) \/ SaveMoved(p)
      PROVE  IInv'
  <2>1. \E s, c : s \in Session /\ Stores(p, s, c, NoJob)
    BY <1>4, EditMemberKeeps, RemoveMemberKeeps, SaveMovedStores
  <2>. QED  BY <2>1, NoJobOK, StoresKeeps
<1>5. ASSUME NEW p \in Proc, CreateInForm(p) \/ CreateByCommand(p)
      PROVE  IInv'
  BY <1>5, CreateKeeps, StoresKeeps
<1>6. ASSUME NEW p \in Proc, EditCluster(p)
      PROVE  IInv'
  <2>1. job[p].step = "form"
    BY <1>6 DEF EditCluster, Asked
  <2>. QED  BY <1>6, <2>1, EditClusterKeeps, MoveBegins, NoJobOK, StoresKeeps
<1>7. ASSUME NEW p \in Proc, DestroyConfirmed(p)
      PROVE  IInv'
  <2>1. Sound(job[p].read) /\ job[p].at \in Session
    BY <1>7, Typed DEF DestroyConfirmed, Asked, JobOK
  <2>. QED  BY <1>7, <2>1, DestroyKeeps DEF DestroyConfirmed
<1>8. ASSUME NEW p \in Proc, NEW s \in Session, DestroyByCommand(p, s)
      PROVE  IInv'
  BY <1>8, Typed, DestroyKeeps DEF DestroyByCommand
<1>9. ASSUME NEW p \in Proc, Add(p) \/ Move(p) \/ RemoveTree(p) \/ RemoveDir(p)
      PROVE  IInv'
  BY <1>9, AddKeeps, MoveKeeps, RemoveKeeps, RemoveDirKeeps
<1>. QED  BY <1>1, <1>2, <1>3, <1>4, <1>5, <1>6, <1>7, <1>8, <1>9 DEF Next

LEMMA Invariant == Spec => []IInv
  BY Initially, Inductive, PTL DEF Spec

-----------------------------------------------------------------------------
(* Theorems *)

\* Whatever the flows and their order, stale forms and kills included, a
\* cluster on disk has members, its locked tags, no tag stored twice and no tag
\* that members may not carry.
THEOREM ClustersStaySound == Spec => []StoreIsSound
<1>1. IInv => StoreIsSound
  <2>. SUFFICES ASSUME IInv PROVE StoreIsSound
    OBVIOUS
  <2>1. \A s \in Session : store[s] # None => Sound(store[s]) /\ Ids(store[s]) \in SUBSET Member
    BY Typed, ClusterParts DEF Sound
  <2>. QED  BY <2>1 DEF StoreIsSound, IInv, TypesOK, Sound
<1>. QED  BY <1>1, Invariant, PTL

\* Git knows every checkout on disk and every worktree it knows is there,
\* except those of members that were dropped and of clusters that were renamed,
\* wherever a creation or a destruction stops.
THEOREM GitKeepsUp == Spec => []GitMatchesTheDisk
<1>1. IInv => GitMatchesTheDisk
  BY DEF IInv
<1>. QED  BY <1>1, Invariant, PTL

\* What one step does to a cluster that was there and is there after it, if
\* whoever took the step had read it as it was.
Rewritten(s) ==
    \/ /\ store'[s].tags = store[s].tags /\ Ids(store'[s]) = Ids(store[s])
       /\ \E m \in Ids(store[s]) : \A n \in Ids(store[s]) \ {m} : store'[s].own[n] = store[s].own[n]
    \/ \A m \in Ids(store[s]) \cap Ids(store'[s]) : store'[s].own[m] = store[s].own[m] \ store'[s].tags

\* A cluster that a step does not touch.
LEMMA Untouched ==
    ASSUME IInv, NEW s \in Session, store[s] # None, store'[s] = store[s]
    PROVE  Rewritten(s)
  BY Typed DEF Rewritten, Sound

\* Only the cluster that p stores changes.
LEMMA OneIsStored ==
    ASSUME IInv, NEW p \in Proc, NEW at \in Session, NEW c, NEW j, Stores(p, at, c, j)
    PROVE  store'[at] = c /\ \A s \in Session \ {at} : store'[s] = store[s]
  BY Typed DEF Stores

\* A cluster that keeps what p had read, stored by p in place of that.
LEMMA KeptByWriter ==
    ASSUME IInv, NEW p \in Proc, NEW at \in Session, NEW c, Stores(p, at, c, NoJob), Keeps(job[p].read, c),
           job[p].step # "off",
           NEW s \in Session, store[s] # None, job'[p] # job[p] => job[p].read = store[s]
    PROVE  Rewritten(s)
<1>1. job'[p] # job[p]
  BY OthersKeep, NoJobOK DEF Stores
<1>2. CASE s = at
  BY <1>1, <1>2, OneIsStored DEF Keeps, Rewritten
<1>3. CASE s # at
  BY <1>3, OneIsStored, Untouched
<1>. QED  BY <1>2, <1>3

\* A process that rewrites the cluster it read changes one member's own tags,
\* or keeps those of every member whose id stays, but for the tags it made
\* common: no flow of edits, renames, growing and shrinking wipes the others'.
THEOREM SurvivorsKeep == Spec => SurvivorsKeepTheirBuild
<1>1. ASSUME IInv, [Next]_vars,
             NEW s \in Session, store[s] # None, store'[s] # None,
             \A p \in Proc : job'[p] # job[p] => job[p].read = store[s]
      PROVE  Rewritten(s)
  <2>1. CASE UNCHANGED store
    BY <1>1, <2>1, Untouched
  <2>2. ASSUME NEW p \in Proc, EditMember(p)
        PROVE  Rewritten(s)
    <3>1. PICK m \in Ids(job[p].read), c \in ClusterFile :
             /\ Stores(p, job[p].at, c, NoJob) /\ job[p].at \in Session /\ Sound(job[p].read)
             /\ c.tags = job[p].read.tags /\ Ids(c) = Ids(job[p].read)
             /\ \A n \in Ids(c) \ {m} : c.own[n] = job[p].read.own[n]
      BY <1>1, <2>2, EditMemberKeeps
    <3>2. job'[p] # job[p]
      BY <1>1, <2>2, <3>1, OthersKeep, NoJobOK DEF Stores, EditMember, Asked
    <3>3. CASE s = job[p].at
      BY <1>1, <3>1, <3>2, <3>3, OneIsStored DEF Rewritten
    <3>4. CASE s # job[p].at
      BY <1>1, <3>1, <3>4, OneIsStored, Untouched
    <3>. QED  BY <3>3, <3>4
  <2>3. ASSUME NEW p \in Proc, RemoveMember(p)
        PROVE  Rewritten(s)
    <3>1. job[p].step # "off"
      BY <2>3 DEF RemoveMember, Asked
    <3>. QED  BY <1>1, <2>3, <3>1, RemoveMemberKeeps, KeptByWriter
  <2>4. ASSUME NEW p \in Proc, SaveMoved(p)
        PROVE  Rewritten(s)
    <3>1. job[p].step # "off"
      BY <2>4 DEF SaveMoved
    <3>. QED  BY <1>1, <2>4, <3>1, SaveMovedStores, KeptByWriter
  <2>5. ASSUME NEW p \in Proc, EditCluster(p)
        PROVE  Rewritten(s)
    <3>1. job[p].step # "off"
      BY <2>5 DEF EditCluster, Asked
    <3>. QED  BY <1>1, <2>1, <2>5, <3>1, EditClusterKeeps, KeptByWriter
  <2>6. ASSUME NEW p \in Proc, CreateInForm(p) \/ CreateByCommand(p)
        PROVE  Rewritten(s)
    <3>1. PICK at, c, j : at \in Session /\ Stores(p, at, c, j) /\ ~Taken(at)
      BY <1>1, <2>6, CreateKeeps
    <3>2. s # at
      BY <1>1, <3>1 DEF Taken
    <3>. QED  BY <1>1, <3>1, <3>2, OneIsStored, Untouched
  <2>7. ASSUME NEW p \in Proc, Move(p)
        PROVE  Rewritten(s)
    <3>1. CASE store' # store
      <4>1. /\ store' = [store EXCEPT ![job[p].to] = store[job[p].at], ![job[p].at] = None]
            /\ job[p].step = "move"
        BY <2>7, <3>1 DEF Move
      <4>2. store[job[p].to] = None /\ job[p].at \in Session /\ DOMAIN store = Session
        BY <1>1, <4>1, Typed DEF Knows, JobOK
      <4>3. s # job[p].to /\ s # job[p].at
        BY <1>1, <4>1, <4>2
      <4>. QED  BY <1>1, <4>1, <4>2, <4>3, Untouched
    <3>. QED  BY <2>1, <3>1
  <2>8. ASSUME NEW p \in Proc, RemoveDir(p)
        PROVE  Rewritten(s)
    <3>1. store' = [store EXCEPT ![job[p].at] = None] /\ DOMAIN store = Session
      BY <1>1, <2>8, Typed DEF RemoveDir
    <3>2. s # job[p].at
      BY <1>1, <3>1
    <3>. QED  BY <1>1, <3>1, <3>2, Untouched
  <2>9. UNCHANGED store \/ \E p \in Proc :
           \/ EditMember(p) \/ RemoveMember(p) \/ SaveMoved(p) \/ EditCluster(p) \/ CreateInForm(p)
           \/ CreateByCommand(p) \/ Move(p) \/ RemoveDir(p)
    BY <1>1 DEF Next, vars, Commit, Load, Cancel, Add, DestroyConfirmed, DestroyByCommand, Destroy, RemoveTree, Crash
  <2>. QED  BY <2>1, <2>2, <2>3, <2>4, <2>5, <2>6, <2>7, <2>8, <2>9
<1>. DEFINE BuildsKept == \A s \in Session :
                       /\ store[s] # None /\ store'[s] # None
                       /\ \A p \in Proc : job'[p] # job[p] => job[p].read = store[s]
                       => Rewritten(s)
<1>2. IInv /\ [Next]_vars => [BuildsKept]_vars
  BY <1>1
<1>3. Spec => [][BuildsKept]_vars
  BY <1>2, Invariant, PTL DEF Spec
<1>. QED  BY <1>3 DEF SurvivorsKeepTheirBuild, Rewritten

-----------------------------------------------------------------------------
(* LaunchPlan *)

\* A plan is what a scanned tree makes of what was stored.
Planned(u, plan) ==
    /\ plan.tree \in Trees /\ Scans(plan.tree) /\ DOMAIN plan.agents = MembersOf[u]
    /\ \A m \in MembersOf[u] : LET b == plan.agents[m].stored IN
        b.effort \in Nat /\ plan.agents[m] = Instance(plan.tree, u, plan.shared, b)

\* What was installed for an agent.
SettingsIn(d, plan, m) ==
    d.settings = Settings(plan.tree, plan.agents[m]) /\ ~ Unrenderable(plan.tree, plan.agents[m])
CommandsIn(d, plan, m) == d.commands = Commands(plan.tree, plan.agents[m])

\* What an image carries for every agent.
Pinned(fixed, u, plan) == fixed = Fixed(u, plan) /\ ~ FixedRefused(u, plan)

Mounted(mounts, plan) == ~ Collide(mounts) /\ TagMounts(plan) \subseteq mounts /\ Workspace(plan) \in mounts

Staged == {"stage", "mounts", "build", "run"}

\* How far a launch is: what it may rely on once it is there.
Reached(L, key) ==
    /\ DOMAIN L = {"step", "unit", "plan", "todo", "part", "mounts", "fixed", "alone"}
    /\ L.step \in {"idle", "picked"} \cup Staged
    /\ L.step # "idle" => L.unit \in Unit /\ Planned(L.unit, L.plan)
    /\ L.step = "picked" => L.todo = MembersOf[L.unit] /\ L.part = Nothing
    /\ L.step \in Staged => /\ ~ Refused(L.plan, L.unit) /\ TagMounts(L.plan) \subseteq L.mounts
                            /\ L.todo = MembersOf[L.unit] \/ ~ Misread(key)
    /\ L.step \in Staged \ {"stage"} => L.todo = {}
    /\ L.step \in {"build", "run"} => Mounted(L.mounts, L.plan)
    /\ L.step \in {"build", "run"} \/ (L.step \in Staged /\ L.unit \in Clusters) => Pinned(L.fixed, L.unit, L.plan)

\* What is on the disk for a launch whose files nobody else wrote since.
Found(L, d, img) ==
    /\ L.alone /\ L.step \in Staged => \A m \in MembersOf[L.unit] :
        /\ m \notin L.todo \/ m = L.part => SettingsIn(d[L.unit][m], L.plan, m)
        /\ m \notin L.todo => CommandsIn(d[L.unit][m], L.plan, m)
    /\ L.alone /\ L.step = "run" =>
        Layers(L.unit, L.plan) \in DOMAIN img /\ img[Layers(L.unit, L.plan)] = L.fixed

\* A container is what its launch was told.
Runs(u, c) ==
    /\ DOMAIN c = {"plan", "mounts", "layers", "fixed", "chain", "key", "settings", "commands", "effort", "alone"}
    /\ Planned(u, c.plan) /\ ~ Refused(c.plan, u) /\ Mounted(c.mounts, c.plan)
    /\ c.layers = Layers(u, c.plan) /\ c.chain = Chain(u, c.plan) /\ c.effort = CommandLines(u, c.plan)
    /\ ~ Misread(c.key)
    /\ c.alone => /\ Pinned(c.fixed, u, c.plan)
                  /\ \A m \in MembersOf[u] : /\ c.settings[m] = Settings(c.plan.tree, c.plan.agents[m])
                                             /\ ~ Unrenderable(c.plan.tree, c.plan.agents[m])
                                             /\ c.commands[m] = Commands(c.plan.tree, c.plan.agents[m])

FilesOK ==
    /\ tree \in Trees /\ DOMAIN own = Unit
    /\ \A u \in Unit : DOMAIN own[u] = MembersOf[u] /\ \A m \in MembersOf[u] : own[u][m] \in Builds
    /\ DOMAIN disk = Unit /\ \A u \in Unit : DOMAIN disk[u] = MembersOf[u] /\
        \A m \in MembersOf[u] : DOMAIN disk[u][m] = {"settings", "commands"}
    /\ DOMAIN running = Unit /\ DOMAIN launch = Launcher

LaunchInv ==
    /\ FilesOK
    /\ \A l \in Launcher : Reached(launch[l], extras.key) /\ Found(launch[l], disk, images)
    /\ \A u \in Unit : running[u] # Nothing => Runs(u, running[u])

-----------------------------------------------------------------------------
(* Finite sets of numbers *)

\* A set of numbers has a least one.
LEMMA LeastNumber ==
    ASSUME NEW S \in SUBSET Nat, S # {}
    PROVE  \E x \in S : \A y \in S : x <= y
<1>. DEFINE R == OpToRel(<, Nat)
<1>1. IsWellFoundedOn(R, Nat)
  BY NatLessThanWellFounded
<1>2. PICK x \in S : \A y \in S : <<y, x>> \notin R
  <2>. HIDE DEF R
  <2>. QED  BY <1>1, WFMin
<1>3. \A y \in S : ~ (y < x)
  BY <1>2 DEF OpToRel
<1>. QED  BY <1>3

\* A bounded one has a greatest.
LEMMA GreatestNumber ==
    ASSUME NEW n \in Nat, NEW S \in SUBSET (0 .. n), S # {}
    PROVE  \E x \in S : \A y \in S : x >= y
<1>. DEFINE Above == {b \in Nat : \A s \in S : s <= b}
<1>1. Above \in SUBSET Nat /\ n \in Above
  OBVIOUS
<1>2. PICK b \in Above : \A c \in Above : b <= c
  BY <1>1, LeastNumber
<1>3. CASE b \in S
  BY <1>3
<1>4. CASE b \notin S
  <2>1. PICK s \in S : TRUE
    OBVIOUS
  <2>2. s <= b /\ s # b /\ s \in Nat /\ b \in Nat
    BY <1>4
  <2>3. b - 1 \in Nat /\ \A y \in S : y <= b - 1
    BY <2>2, <1>4
  <2>4. b - 1 \in Above
    BY <2>3
  <2>. QED  BY <2>4, <1>2, <2>2
<1>. QED  BY <1>3, <1>4

\* What Min and Max choose.
LEMMA MinIs ==
    ASSUME NEW S \in SUBSET Nat, S # {}
    PROVE  Min(S) \in S /\ \A y \in S : Min(S) <= y
  BY LeastNumber DEF Min

LEMMA MaxIs ==
    ASSUME NEW n \in Nat, NEW S \in SUBSET (0 .. n), S # {}
    PROVE  Max(S) \in S /\ \A y \in S : Max(S) >= y
  BY GreatestNumber DEF Max

\* The level for a pin is one the model takes, none only when it takes none, and
\* above the pin only when it is the lowest there is.
LEMMA EffortFits ==
    ASSUME NEW n \in Nat, NEW takes \in SUBSET (1 .. n), NEW pin \in Nat
    PROVE  LET e == EffortFor(pin, takes) IN
           /\ e \in takes \cup {0} /\ (e = 0 => takes = {})
           /\ pin # 0 /\ e > pin => \A x \in takes : x >= e
<1>. DEFINE below == {e \in takes : e <= pin}
            top == EffortFor(pin, takes)
<1>0. takes \in SUBSET (0 .. n) /\ below \in SUBSET (0 .. n) /\ \A e \in takes : e \in Nat /\ e # 0
  <2>1. \A e \in takes : e \in 1 .. n
    OBVIOUS
  <2>2. \A e \in takes : e \in 0 .. n /\ e \in Nat /\ e # 0
    BY <2>1
  <2>. QED  BY <2>2
<1>1. CASE takes = {}
  BY <1>1 DEF EffortFor
<1>2. CASE takes # {} /\ pin = 0
  <2>1. Max(takes) \in takes
    BY <1>0, <1>2, MaxIs
  <2>2. top = Max(takes)
    BY <1>2 DEF EffortFor
  <2>. QED  BY <1>0, <2>1, <2>2, <1>2
<1>3. CASE takes # {} /\ pin # 0 /\ below # {}
  <2>1. Max(below) \in below
    <3>. HIDE DEF below
    <3>. QED  BY <1>0, <1>3, MaxIs
  <2>2. top = Max(below)
    BY <1>3 DEF EffortFor
  <2>3. top \in takes /\ top <= pin
    BY <2>1, <2>2
  <2>. HIDE DEF top
  <2>. QED  BY <1>0, <2>3 DEF top
<1>4. CASE takes # {} /\ pin # 0 /\ below = {}
  <2>1. Min(takes) \in takes /\ \A x \in takes : Min(takes) <= x
    BY <1>0, <1>4, MinIs
  <2>2. top = Min(takes)
    BY <1>4 DEF EffortFor
  <2>. QED  BY <1>0, <2>1, <2>2
<1>. QED  BY <1>1, <1>2, <1>3, <1>4

-----------------------------------------------------------------------------
(* The chain of wrappers *)

\* A wrapper stands where as many as are smaller come before it.
LEMMA Ordered ==
    ASSUME NEW W \in SUBSET Nat, IsFiniteSet(W)
    PROVE  /\ Cardinality(W) \in Nat
           /\ \A w \in W : LET i == Cardinality({v \in W : v < w}) + 1 IN
                i \in 1 .. Cardinality(W) /\ InOrder(W)[i] = w
<1>. DEFINE Under(w) == {v \in W : v < w}
            rank(w) == Cardinality(Under(w))
<1>0. \A w \in W : w \in Nat
  OBVIOUS
<1>1. Cardinality(W) \in Nat
  BY FS_CardinalityType
<1>2. ASSUME NEW w \in W
      PROVE  IsFiniteSet(Under(w)) /\ rank(w) \in Nat /\ rank(w) < Cardinality(W)
  <2>1. Under(w) \in SUBSET W /\ w \notin Under(w)
    OBVIOUS
  <2>2. IsFiniteSet(Under(w)) /\ rank(w) <= Cardinality(W) /\ (Cardinality(W) = rank(w) => W = Under(w))
    <3>. HIDE DEF Under
    <3>. QED  BY <2>1, FS_Subset
  <2>3. rank(w) \in Nat
    BY <2>2, FS_CardinalityType
  <2>4. rank(w) # Cardinality(W)
    BY <2>1, <2>2
  <2>. HIDE DEF rank
  <2>. QED  BY <1>1, <2>2, <2>3, <2>4
<1>3. ASSUME NEW w \in W, NEW x \in W, w < x
      PROVE  rank(w) # rank(x)
  <2>0. w \in Nat /\ x \in Nat /\ \A v \in W : v < w => v < x
    BY <1>0, <1>3
  <2>1. Under(w) \in SUBSET Under(x) /\ w \in Under(x) /\ w \notin Under(w)
    <3>1. \A v \in Under(w) : v \in Under(x)
      BY <2>0
    <3>2. w \in Under(x) /\ ~ (w < w)
      BY <2>0, <1>3
    <3>. QED  BY <3>1, <3>2
  <2>2. rank(x) = rank(w) => Under(x) = Under(w)
    <3>1. IsFiniteSet(Under(x))
      BY <1>2
    <3>. HIDE DEF Under
    <3>. QED  BY <2>1, <3>1, FS_Subset
  <2>. QED  BY <2>1, <2>2
<1>4. ASSUME NEW w \in W, NEW x \in W, rank(w) = rank(x)
      PROVE  w = x
  <2>1. w < x \/ x < w \/ w = x
    BY <1>0
  <2>. HIDE DEF rank
  <2>. QED  BY <2>1, <1>3, <1>4
<1>5. ASSUME NEW w \in W
      PROVE  rank(w) + 1 \in 1 .. Cardinality(W) /\ InOrder(W)[rank(w) + 1] = w
  <2>1. rank(w) + 1 \in 1 .. Cardinality(W) /\ (rank(w) + 1) - 1 = rank(w)
    <3>1. rank(w) \in Nat /\ rank(w) < Cardinality(W)
      BY <1>2
    <3>. QED  BY <1>1, <3>1
  <2>2. InOrder(W)[rank(w) + 1] = CHOOSE x \in W : rank(x) = (rank(w) + 1) - 1
    BY <2>1 DEF InOrder
  <2>3. InOrder(W)[rank(w) + 1] = CHOOSE x \in W : rank(x) = rank(w)
    BY <2>1, <2>2
  <2>. HIDE DEF rank
  <2>. QED  BY <2>1, <2>3, <1>4
<1>. QED  BY <1>1, <1>5

\* The greatest is last.
LEMMA LastInOrder ==
    ASSUME NEW W \in SUBSET Nat, IsFiniteSet(W), NEW top \in W, \A w \in W : w <= top
    PROVE  InOrder(W)[Cardinality(W)] = top /\ Cardinality(W) \in Nat \ {0}
<1>. DEFINE Under == {v \in W : v < top}
<1>1. Under = W \ {top}
  <2>1. \A w \in W : w \in Nat /\ (w < top <=> w # top)
    OBVIOUS
  <2>. QED  BY <2>1
<1>2. Cardinality(Under) = Cardinality(W) - 1 /\ Cardinality(W) \in Nat
  BY <1>1, FS_RemoveElement, FS_CardinalityType
<1>3. Cardinality(Under) + 1 \in 1 .. Cardinality(W) /\ InOrder(W)[Cardinality(Under) + 1] = top
  BY Ordered
<1>. HIDE DEF Under
<1>. QED  BY <1>2, <1>3

-----------------------------------------------------------------------------
(* Plans *)

\* What an agent is made of.
LEMMA AgentParts ==
    ASSUME NEW u, NEW plan, Planned(u, plan), NEW m \in MembersOf[u]
    PROVE  LET t == plan.tree
               s == plan.shared
               a == plan.agents[m]
               b == a.stored IN
           /\ t \in Trees /\ Scans(t) /\ Parsed(t) /\ b.effort \in Nat
           /\ a.features = Kept(t, s, "cluster").features \cup Kept(t, b, Scope(u)).features
           /\ a.policies = Kept(t, s, "cluster").policies \cup Kept(t, b, Scope(u)).policies
           /\ a.harness = HarnessFor(t, b) /\ a.model = Model(t, b) /\ a.effort = Effort(t, b)
           /\ a.problems = Problems(t, s, "cluster") \cup Problems(t, b, Scope(u)) \cup (Dropped(t, b) \ {Nothing})
<1>. DEFINE t == plan.tree
            s == plan.shared
            a == plan.agents[m]
            b == a.stored
<1>1. t \in Trees /\ Scans(t) /\ Parsed(t) /\ b.effort \in Nat /\ a = Instance(t, u, s, b)
  BY LaunchAssumption DEF Planned
<1>. HIDE DEF t, s, a, b
<1>2. /\ a.features = Kept(t, s, "cluster").features \cup Kept(t, b, Scope(u)).features
      /\ a.policies = Kept(t, s, "cluster").policies \cup Kept(t, b, Scope(u)).policies
      /\ a.harness = HarnessFor(t, b) /\ a.model = Model(t, b) /\ a.effort = Effort(t, b)
      /\ a.problems = Problems(t, s, "cluster") \cup Problems(t, b, Scope(u)) \cup (Dropped(t, b) \ {Nothing})
  BY <1>1 DEF Instance
<1>. QED  BY <1>1, <1>2 DEF t, s, a, b

\* Nothing that was stored for an agent of an accepted plan was dropped.
LEMMA NothingDropped ==
    ASSUME NEW u, NEW plan, Planned(u, plan), ~ Refused(plan, u), NEW m \in MembersOf[u]
    PROVE  LET t == plan.tree
               s == plan.shared
               a == plan.agents[m]
               b == a.stored IN
           /\ a.features = b.features \cup s.features /\ a.features \subseteq DOMAIN t.features
           /\ AlwaysOn(t) \cup a.policies = b.policies \cup s.policies \cup AlwaysOn(t)
           /\ AlwaysOn(t) \cup a.policies \subseteq DOMAIN t.policies
           /\ a.harness \in Startable
           /\ \A f \in b.features : Scope(u) \notin t.features[f].forbid
           /\ Dropped(t, b) \subseteq {Nothing}
<1>. DEFINE t == plan.tree
            s == plan.shared
            a == plan.agents[m]
            b == a.stored
<1>1. a.problems = {} /\ a.harness \in Startable
  BY DEF Refused
<1>2. /\ a.features = Kept(t, s, "cluster").features \cup Kept(t, b, Scope(u)).features
      /\ a.policies = Kept(t, s, "cluster").policies \cup Kept(t, b, Scope(u)).policies
      /\ a.problems = Problems(t, s, "cluster") \cup Problems(t, b, Scope(u)) \cup (Dropped(t, b) \ {Nothing})
  BY AgentParts
<1>. HIDE DEF t, s, a, b
<1>3. Problems(t, s, "cluster") = {} /\ Problems(t, b, Scope(u)) = {} /\ Dropped(t, b) \subseteq {Nothing}
  BY <1>1, <1>2
<1>4. ASSUME NEW x, NEW scope, Problems(t, x, scope) = {}
      PROVE  /\ Kept(t, x, scope).features = x.features /\ Kept(t, x, scope).policies = x.policies \ AlwaysOn(t)
             /\ x.features \subseteq DOMAIN t.features /\ x.policies \subseteq DOMAIN t.policies
             /\ \A f \in x.features : scope \notin t.features[f].forbid
  <2>1. /\ x.features \subseteq DOMAIN t.features /\ x.policies \subseteq DOMAIN t.policies
        /\ Misplaced(t, x.features, scope) = {}
    BY <1>4 DEF Problems
  <2>2. \A f \in x.features : scope \notin t.features[f].forbid
    BY <2>1 DEF Misplaced
  <2>3. Kept(t, x, scope).features = x.features /\ Kept(t, x, scope).policies = x.policies \ AlwaysOn(t)
    BY <2>1 DEF Kept
  <2>. QED  BY <2>1, <2>2, <2>3
<1>5. AlwaysOn(t) \subseteq DOMAIN t.policies
  BY DEF AlwaysOn
<1>6. /\ a.features = s.features \cup b.features
      /\ a.policies = (s.policies \ AlwaysOn(t)) \cup (b.policies \ AlwaysOn(t))
      /\ b.features \subseteq DOMAIN t.features /\ s.features \subseteq DOMAIN t.features
      /\ b.policies \subseteq DOMAIN t.policies /\ s.policies \subseteq DOMAIN t.policies
      /\ \A f \in b.features : Scope(u) \notin t.features[f].forbid
  BY <1>2, <1>3, <1>4
<1>7. /\ a.features = b.features \cup s.features /\ a.features \subseteq DOMAIN t.features
      /\ AlwaysOn(t) \cup a.policies = b.policies \cup s.policies \cup AlwaysOn(t)
      /\ AlwaysOn(t) \cup a.policies \subseteq DOMAIN t.policies
  BY <1>5, <1>6
<1>. QED  BY <1>1, <1>3, <1>6, <1>7 DEF t, s, a, b

\* The model and the effort of an accepted build can go together, and follow
\* its engine where they must.
LEMMA Rated ==
    ASSUME NEW t, Scans(t), Parsed(t), NEW b, b.effort \in Nat, Dropped(t, b) \subseteq {Nothing}
    PROVE  LET model == Model(t, b)
               effort == Effort(t, b)
               takes == t.ais[AiFor(t, b)].models[model] IN
           /\ effort \in takes \cup {0} /\ (effort = 0 => takes = {})
           /\ (b.model # Nothing /\ b.model # model) => <<model, effort>> = Tier(t, b)
           /\ b.effort # 0 /\ b.model = model /\ effort > b.effort => \A e \in takes : e >= effort
<1>. DEFINE ai == t.ais[AiFor(t, b)]
            standard == t.engines[EngineFor(t, b)]
            pair == Tier(t, b)
            takes == ai.models[Model(t, b)]
<1>1. AiFor(t, b) \in DOMAIN t.ais /\ EngineFor(t, b) \in DOMAIN t.engines
  BY DEF AiFor, EngineFor, Scans, Parsed
<1>2. standard \in DOMAIN ai.tier /\ pair = ai.tier[standard]
  <2>1. standard \in DOMAIN ai.tier
    BY <1>1 DEF Scans, Answered
  <2>. QED  BY <2>1 DEF Tier
<1>3. TiersRun(ai) /\ ai.scale \in Nat /\ pair = <<pair[1], pair[2]>>
  <2>1. TiersRun(ai)
    BY <1>1 DEF Scans
  <2>2. ai.scale \in Nat /\ ai.tier[standard] = <<ai.tier[standard][1], ai.tier[standard][2]>>
    BY <1>1, <1>2 DEF Parsed
  <2>. QED  BY <1>2, <2>1, <2>2
<1>4. Stale(t, b) <=> b.model # Nothing /\ b.model \notin DOMAIN ai.models
  BY DEF Stale
<1>5. /\ Model(t, b) = IF b.model = Nothing \/ Stale(t, b) THEN pair[1] ELSE b.model
      /\ Effort(t, b) = IF Stale(t, b) \/ (b.model = Nothing /\ b.effort = 0) THEN pair[2]
                        ELSE EffortFor(b.effort, takes)
  BY DEF Model, Effort
<1>. HIDE DEF ai, pair, standard
<1>6. /\ pair[1] \in DOMAIN ai.models
      /\ IF ai.models[pair[1]] = {} THEN pair[2] = 0 ELSE pair[2] \in ai.models[pair[1]]
      /\ \A m \in DOMAIN ai.models : ai.models[m] \in SUBSET (1 .. ai.scale)
  BY <1>2, <1>3 DEF TiersRun
<1>7. Model(t, b) \in DOMAIN ai.models
  BY <1>4, <1>5, <1>6
<1>8. takes \in SUBSET (1 .. ai.scale)
  BY <1>6, <1>7
<1>. HIDE DEF takes
<1>9. CASE Stale(t, b) \/ (b.model = Nothing /\ b.effort = 0)
  <2>1. Model(t, b) = pair[1] /\ Effort(t, b) = pair[2] /\ takes = ai.models[pair[1]]
    BY <1>5, <1>9 DEF takes
  <2>2. Effort(t, b) \in takes \cup {0} /\ (Effort(t, b) = 0 => takes = {})
    <3>1. \A e \in takes : e # 0
      BY <1>8, <1>3
    <3>. QED  BY <2>1, <1>6, <3>1
  <2>3. b.effort # 0 => b.model # Model(t, b)
    BY <1>4, <1>7, <1>9
  <2>4. <<Model(t, b), Effort(t, b)>> = pair
    BY <1>3, <2>1
  <2>. QED  BY <2>2, <2>3, <2>4 DEF pair, takes, ai
<1>10. CASE ~ (Stale(t, b) \/ (b.model = Nothing /\ b.effort = 0))
  <2>1. Effort(t, b) = EffortFor(b.effort, takes) /\ (b.model # Nothing => b.model = Model(t, b))
    BY <1>5, <1>10
  <2>2. /\ Effort(t, b) \in takes \cup {0} /\ (Effort(t, b) = 0 => takes = {})
        /\ b.effort # 0 /\ Effort(t, b) > b.effort => \A e \in takes : e >= Effort(t, b)
    BY <1>3, <1>8, <2>1, EffortFits
  <2>. QED  BY <2>1, <2>2 DEF takes, ai
<1>. QED  BY <1>9, <1>10

\* The harness of an accepted build is one of the tree's, and the default AI's.
LEMMA HarnessKnown ==
    ASSUME NEW u, NEW plan, Planned(u, plan), ~ Refused(plan, u), NEW m \in MembersOf[u]
    PROVE  LET h == plan.agents[m].harness IN
           /\ h \in DOMAIN plan.tree.harnesses /\ plan.tree.harnesses[h].effortFlag
           /\ h = plan.tree.ais[DefaultAi].harness /\ h # Nothing
<1>. DEFINE t == plan.tree
            h == plan.agents[m].harness
            b == plan.agents[m].stored
<1>1. Scans(t) /\ Parsed(t) /\ h = HarnessFor(t, b) /\ h \in Startable /\ h # Nothing
  BY AgentParts, NothingDropped, LaunchAssumption
<1>. HIDE DEF t, h, b
<1>2. AiFor(t, b) \in DOMAIN t.ais /\ DefaultAi \in DOMAIN t.ais /\ Paired(t)
  BY <1>1 DEF AiFor, Scans
<1>3. h \in DOMAIN t.harnesses
  BY <1>1, <1>2 DEF HarnessFor, Paired
<1>4. t.harnesses[h].effortFlag /\ h = t.ais[DefaultAi].harness
  BY <1>1, <1>2, <1>3 DEF Parsed
<1>. QED  BY <1>1, <1>3, <1>4 DEF t, h

\* No rule is lost on the way into an agent's settings.
LEMMA RulesKept ==
    ASSUME NEW u, NEW plan, Planned(u, plan), ~ Refused(plan, u), NEW m \in MembersOf[u],
           ~ Unrenderable(plan.tree, plan.agents[m])
    PROVE  /\ PoliciesOf(plan, m) \subseteq DOMAIN plan.tree.policies
           /\ TagsOf(plan, m) \subseteq DOMAIN plan.tree.features
           /\ Denied(RulesOf(plan, m)) \subseteq Settings(plan.tree, plan.agents[m]).deny
           /\ Modes(RulesOf(plan, m)) = Settings(plan.tree, plan.agents[m]).modes
<1>. DEFINE t == plan.tree
            a == plan.agents[m]
            h == t.harnesses[a.harness]
            asked == RulesOf(plan, m)
<1>1. /\ PoliciesOf(plan, m) \subseteq DOMAIN t.policies /\ TagsOf(plan, m) \subseteq DOMAIN t.features
      /\ PoliciesOf(plan, m) = AlwaysOn(t) \cup a.policies /\ TagsOf(plan, m) = a.features
  BY NothingDropped DEF PoliciesOf, TagsOf
<1>2. Nothing \notin h.modes
  BY AgentParts, HarnessKnown DEF Parsed
<1>. HIDE DEF h
<1>3. asked = RulesFor(t, a)
  BY <1>1 DEF RulesFor, RulesOf
<1>. HIDE DEF t, a
<1>. HIDE DEF asked
<1>4. Renderings(t, a) = {Rendered(h, r) : r \in asked}
  BY <1>3 DEF Renderings, h
<1>5. ~ Unenforced({Rendered(h, r) : r \in asked})
  BY <1>4 DEF Unrenderable, t, a
<1>6. ASSUME NEW r \in asked
      PROVE  r.deny \subseteq h.maps /\ r.mode \in h.modes \cup {Nothing}
  <2>1. ASSUME NEW w \in Rendered(h, r).unmapped
        PROVE  w[1] = "allow"
    BY <1>5 DEF Unenforced
  <2>2. ASSUME NEW w \in r.deny, w \notin h.maps
        PROVE  FALSE
    <3>1. <<"deny", w>> \in Rendered(h, r).unmapped
      BY <2>2 DEF Rendered
    <3>2. <<"deny", w>>[1] = "allow"
      BY <2>1, <3>1
    <3>. QED  BY <3>2
  <2>3. ASSUME r.mode \notin h.modes \cup {Nothing}
        PROVE  FALSE
    <3>1. <<"demand", r.mode>> \in Rendered(h, r).unmapped
      BY <2>3 DEF Rendered
    <3>2. <<"demand", r.mode>>[1] = "allow"
      BY <2>1, <3>1
    <3>. QED  BY <3>2
  <2>. QED  BY <2>2, <2>3
<1>7. /\ Settings(t, a).deny = UNION {x.deny : x \in Renderings(t, a)}
      /\ Settings(t, a).modes = UNION {x.mode : x \in Renderings(t, a)}
  BY DEF Settings
<1>8. \A r \in asked : Rendered(h, r).deny = r.deny /\ Rendered(h, r).mode = {r.mode} \ {Nothing}
  <2>. SUFFICES ASSUME NEW r \in asked
                PROVE  Rendered(h, r).deny = r.deny /\ Rendered(h, r).mode = {r.mode} \ {Nothing}
    OBVIOUS
  <2>1. Rendered(h, r).deny = r.deny \cap h.maps /\ Rendered(h, r).mode = {r.mode} \cap h.modes
    BY DEF Rendered
  <2>. QED  BY <2>1, <1>2, <1>6
<1>9. Denied(asked) \subseteq Settings(t, a).deny
  <2>. SUFFICES ASSUME NEW r \in asked, NEW w \in r.deny
                PROVE  w \in Settings(t, a).deny
    BY DEF Denied
  <2>1. w \in Rendered(h, r).deny /\ Rendered(h, r) \in Renderings(t, a)
    BY <1>4, <1>8
  <2>. QED  BY <2>1, <1>7
<1>10. Modes(asked) = Settings(t, a).modes
  <2>1. Settings(t, a).modes = UNION {Rendered(h, r).mode : r \in asked}
    BY <1>4, <1>7
  <2>2. UNION {Rendered(h, r).mode : r \in asked} = {r.mode : r \in asked} \ {Nothing}
    BY <1>8
  <2>. QED  BY <2>1, <2>2 DEF Modes
<1>. QED  BY <1>1, <1>9, <1>10 DEF t, a, asked

\* What the image carries, when it is not refused, is every always-on deny.
LEMMA AllPinned ==
    ASSUME NEW u, NEW plan, NEW fixed, Pinned(fixed, u, plan)
    PROVE  fixed = UNION {plan.tree.policies[p].deny : p \in AlwaysOn(plan.tree)}
  BY DEF Pinned, Fixed, FixedRefused

\* Every wrapper is in the chain and what comes last is the agent's.
LEMMA ChainEnds ==
    ASSUME NEW u, NEW plan, Planned(u, plan), ~ Refused(plan, u), MembersOf[u] # {}
    PROVE  LET chain == Chain(u, plan) IN
           chain[Len(chain)] \in {AgentLink, MuxScript} /\ Wrappers(plan) \subseteq ToSet(chain)
<1>. DEFINE W == Wrappers(plan)
            chain == Chain(u, plan)
<1>1. CASE u \in Clusters
  <2>1. chain = <<MuxScript>> /\ W \subseteq {MuxScript}
    BY <1>1 DEF Chain, Refused
  <2>. HIDE DEF W, chain
  <2>2. Len(chain) = 1 /\ DOMAIN chain = {1} /\ chain[1] = MuxScript
    BY <2>1
  <2>3. ToSet(chain) = {MuxScript}
    BY <2>2 DEF ToSet
  <2>. QED  BY <2>1, <2>2, <2>3 DEF W, chain
<1>2. CASE u \notin Clusters
  <2>1. W \in SUBSET (0 .. MuxScript) /\ IsFiniteSet(W) /\ MuxScript \in Nat
    <3>1. plan.tree \in Trees /\ Parsed(plan.tree) /\ MuxScript \in Nat /\ Features(plan) \subseteq DOMAIN plan.tree.features
      BY AgentParts, NothingDropped, LaunchAssumption DEF Features, Planned
    <3>2. W \in SUBSET (0 .. MuxScript)
      BY <3>1 DEF Wrappers, Parsed
    <3>3. IsFiniteSet(0 .. MuxScript)
      <4>1. 0 \in Int /\ MuxScript \in Int
        BY <3>1
      <4>. QED  BY <4>1, FS_Interval
    <3>. QED  BY <3>1, <3>2, <3>3, FS_Subset
  <2>2. chain = InOrder(W) \o (IF MuxScript \in W THEN <<>> ELSE <<AgentLink>>)
    BY <1>2 DEF Chain
  <2>. HIDE DEF W, chain
  <2>. DEFINE n == Cardinality(W)
              X == {InOrder(W)[i] : i \in 1 .. n}
              tail == IF MuxScript \in W THEN <<>> ELSE <<AgentLink>>
  <2>3. n \in Nat /\ W \in SUBSET Nat
    BY <2>1, FS_CardinalityType
  <2>4. InOrder(W) \in Seq(X) /\ Len(InOrder(W)) = n
    <3>. DEFINE place(i) == CHOOSE w \in W : Cardinality({v \in W : v < w}) = i - 1
    <3>1. InOrder(W) = [i \in 1 .. n |-> place(i)]
      BY DEF InOrder
    <3>2. InOrder(W) \in [1 .. n -> X]
      <4>. HIDE DEF place
      <4>. QED  BY <3>1
    <3>. QED  BY <2>3, <3>2
  <2>5. \A w \in W : \E i \in 1 .. n : InOrder(W)[i] = w
    BY <2>1, <2>3, Ordered
  <2>6. CASE MuxScript \in W
    <3>1. chain = InOrder(W)
      BY <2>2, <2>4, <2>6
    <3>2. InOrder(W)[n] = MuxScript /\ n # 0
      <4>1. ASSUME NEW w \in W
            PROVE  w <= MuxScript
        <5>1. w \in 0 .. MuxScript /\ MuxScript \in Nat
          BY ONLY <2>1, w \in W
        <5>. QED  BY ONLY <5>1
      <4>. QED  BY <2>1, <2>3, <2>6, <4>1, LastInOrder
    <3>3. ToSet(chain) = {InOrder(W)[i] : i \in 1 .. n}
      BY <3>1, <2>4 DEF ToSet
    <3>. QED  BY <3>1, <3>2, <3>3, <2>4, <2>5 DEF W, chain
  <2>7. CASE MuxScript \notin W
    <3>1. chain = InOrder(W) \o <<AgentLink>>
      BY <2>2, <2>7
    <3>2. Len(chain) = n + 1 /\ DOMAIN chain = 1 .. (n + 1) /\ chain[n + 1] = AgentLink /\ \A i \in 1 .. n : chain[i] = InOrder(W)[i]
      <4>. HIDE DEF X, n
      <4>. QED  BY <2>3, <2>4, <3>1
    <3>3. \A w \in W : \E i \in 1 .. (n + 1) : chain[i] = w
      BY <2>3, <2>5, <3>2
    <3>4. W \subseteq ToSet(chain)
      BY <3>2, <3>3 DEF ToSet
    <3>. QED  BY <3>2, <3>4 DEF W, chain
  <2>. QED  BY <2>6, <2>7
<1>. QED  BY <1>1, <1>2

\* What a tag brings to the container comes with every agent that carries it.
LEMMA TagsHonoured ==
    ASSUME NEW u \in Unit, NEW plan, Planned(u, plan), ~ Refused(plan, u), NEW m \in MembersOf[u],
           NEW f \in plan.agents[m].features
    PROVE  LET t == plan.tree IN
           /\ HasLayer(t, f) => f \in Layers(u, plan)
           /\ t.features[f].mounts \subseteq TagMounts(plan)
           /\ t.features[f].readonly => Workspace(plan) = <<<<"workspace">>, <<"/workspace">>, "ro">>
           /\ u \in Clusters /\ (t.features[f].mounts # {} \/ t.features[f].readonly \/ t.features[f].wraps # 0)
                => f \in plan.shared.features
<1>1. f \in Features(plan)
  BY DEF Features, Planned
<1>2. f \in plan.agents[m].stored.features \cup plan.shared.features /\ f \in DOMAIN plan.tree.features
      /\ (f \in plan.agents[m].stored.features => Scope(u) \notin plan.tree.features[f].forbid)
  BY NothingDropped
<1>3. HasLayer(plan.tree, f) => f \in Layers(u, plan)
  BY <1>1 DEF Layers
<1>4. plan.tree.features[f].mounts \subseteq TagMounts(plan)
  BY <1>1 DEF TagMounts
<1>5. plan.tree.features[f].readonly => Workspace(plan) = <<<<"workspace">>, <<"/workspace">>, "ro">>
  BY <1>1 DEF Workspace, ReadOnly
<1>6. ASSUME u \in Clusters, plan.tree.features[f].mounts # {} \/ plan.tree.features[f].readonly \/ plan.tree.features[f].wraps # 0
      PROVE  f \in plan.shared.features
  <2>1. Declared(plan.tree.features[f])
    BY <1>2, AgentParts DEF Scans
  <2>2. "member" \in plan.tree.features[f].forbid
    BY <1>6, <2>1 DEF Declared
  <2>. QED  BY <1>2, <1>6, <2>2 DEF Scope
<1>. QED  BY <1>3, <1>4, <1>5, <1>6

\* The CLI an agent runs in is in the image.
LEMMA HarnessLayered ==
    ASSUME NEW u \in Unit, NEW plan, Planned(u, plan), ~ Refused(plan, u), NEW m \in MembersOf[u]
    PROVE  plan.agents[m].harness \in Layers(u, plan)
<1>1. plan.agents[m].harness = plan.tree.ais[DefaultAi].harness /\ plan.agents[m].harness # Nothing
  BY HarnessKnown
<1>2. u \notin Clusters => m = CHOOSE n \in MembersOf[u] : TRUE
  BY LaunchAssumption
<1>3. ImageHarness(u, plan) = plan.agents[m].harness
  BY <1>1, <1>2 DEF ImageHarness
<1>. QED  BY <1>1, <1>3 DEF Layers

-----------------------------------------------------------------------------
(* What runs *)

\* A container that is what its launch was told has the properties.
LEMMA RunsHoldRules ==
    ASSUME NEW u \in Unit, NEW c, Runs(u, c)
    PROVE  /\ c.alone => c.fixed = UNION {c.plan.tree.policies[p].deny : p \in AlwaysOn(c.plan.tree)}
           /\ \A m \in MembersOf[u] :
                /\ PoliciesOf(c.plan, m) \subseteq DOMAIN c.plan.tree.policies
                /\ TagsOf(c.plan, m) \subseteq DOMAIN c.plan.tree.features
                /\ c.alone => /\ Denied(RulesOf(c.plan, m)) \subseteq c.settings[m].deny
                                   /\ Modes(RulesOf(c.plan, m)) = c.settings[m].modes
<1>1. Planned(u, c.plan) /\ ~ Refused(c.plan, u)
  BY DEF Runs
<1>2. c.alone => c.fixed = UNION {c.plan.tree.policies[p].deny : p \in AlwaysOn(c.plan.tree)}
  BY AllPinned DEF Runs
<1>3. ASSUME NEW m \in MembersOf[u]
      PROVE  /\ PoliciesOf(c.plan, m) \subseteq DOMAIN c.plan.tree.policies
             /\ TagsOf(c.plan, m) \subseteq DOMAIN c.plan.tree.features
  BY <1>1, NothingDropped DEF PoliciesOf, TagsOf
<1>4. ASSUME NEW m \in MembersOf[u], c.alone
      PROVE  /\ Denied(RulesOf(c.plan, m)) \subseteq c.settings[m].deny
             /\ Modes(RulesOf(c.plan, m)) = c.settings[m].modes
  <2>1. /\ c.settings[m] = Settings(c.plan.tree, c.plan.agents[m])
        /\ ~ Unrenderable(c.plan.tree, c.plan.agents[m])
    BY <1>4 DEF Runs
  <2>2. /\ Denied(RulesOf(c.plan, m)) \subseteq Settings(c.plan.tree, c.plan.agents[m]).deny
        /\ Modes(RulesOf(c.plan, m)) = Settings(c.plan.tree, c.plan.agents[m]).modes
    BY ONLY <1>1, <2>1, RulesKept, m \in MembersOf[u]
  <2>. QED  BY <2>1, <2>2
<1>. QED  BY <1>2, <1>3, <1>4

LEMMA RunsItsBuild ==
    ASSUME NEW u \in Unit, NEW c, Runs(u, c)
    PROVE  LET t == c.plan.tree IN
        /\ ~Collide(c.mounts) /\ ~Misread(c.key)
        /\ c.chain[Len(c.chain)] \in {AgentLink, MuxScript} /\ Wrappers(c.plan) \subseteq ToSet(c.chain)
        /\ \A m \in MembersOf[u] :
            /\ c.plan.agents[m].harness \in c.layers
            /\ \A f \in c.plan.agents[m].features :
                /\ HasLayer(t, f) => f \in c.layers
                /\ t.features[f].mounts \subseteq c.mounts
                /\ t.features[f].readonly => <<<<"workspace">>, <<"/workspace">>, "ro">> \in c.mounts
                /\ u \in Clusters /\ (t.features[f].mounts # {} \/ t.features[f].readonly \/ t.features[f].wraps # 0)
                      => f \in c.plan.shared.features
        /\ c.alone => \A m \in MembersOf[u] :
              c.commands[m] = t.common \cup UNION {t.features[f].commands :
                                  f \in c.plan.agents[m].stored.features \cup c.plan.shared.features}
<1>1. /\ Planned(u, c.plan) /\ ~ Refused(c.plan, u) /\ Mounted(c.mounts, c.plan) /\ ~ Misread(c.key)
      /\ c.layers = Layers(u, c.plan) /\ c.chain = Chain(u, c.plan)
  BY DEF Runs
<1>2. ~ Collide(c.mounts) /\ TagMounts(c.plan) \subseteq c.mounts /\ Workspace(c.plan) \in c.mounts
  BY <1>1 DEF Mounted
<1>3. c.chain[Len(c.chain)] \in {AgentLink, MuxScript} /\ Wrappers(c.plan) \subseteq ToSet(c.chain)
  BY <1>1, ChainEnds, LaunchAssumption
<1>4. ASSUME NEW m \in MembersOf[u], NEW f \in c.plan.agents[m].features
      PROVE  /\ HasLayer(c.plan.tree, f) => f \in c.layers
             /\ c.plan.tree.features[f].mounts \subseteq c.mounts
             /\ c.plan.tree.features[f].readonly => <<<<"workspace">>, <<"/workspace">>, "ro">> \in c.mounts
             /\ u \in Clusters /\ (c.plan.tree.features[f].mounts # {} \/ c.plan.tree.features[f].readonly
                                      \/ c.plan.tree.features[f].wraps # 0) => f \in c.plan.shared.features
  BY <1>1, <1>2, TagsHonoured
<1>5. \A m \in MembersOf[u] : c.plan.agents[m].harness \in c.layers
  BY <1>1, HarnessLayered
<1>6. ASSUME c.alone, NEW m \in MembersOf[u]
      PROVE  c.commands[m] = c.plan.tree.common \cup UNION {c.plan.tree.features[f].commands :
                                  f \in c.plan.agents[m].stored.features \cup c.plan.shared.features}
  <2>1. c.commands[m] = Commands(c.plan.tree, c.plan.agents[m])
    BY <1>6 DEF Runs
  <2>2. c.plan.agents[m].features = c.plan.agents[m].stored.features \cup c.plan.shared.features
    BY <1>1, NothingDropped
  <2>. QED  BY <2>1, <2>2 DEF Commands, Granted
<1>. QED  BY <1>1, <1>2, <1>3, <1>4, <1>5, <1>6

LEMMA RunsRated ==
    ASSUME NEW u \in Unit, NEW c, Runs(u, c), NEW m \in MembersOf[u]
    PROVE  LET t == c.plan.tree
               a == c.plan.agents[m]
               effort == c.effort[m]
               b == a.stored
               takes == t.ais[AiFor(t, b)].models[a.model] IN
        /\ effort \in takes \cup {0} /\ (effort = 0 => takes = {})
        /\ (b.model # Nothing /\ b.model # a.model) => <<a.model, effort>> = Tier(t, b)
        /\ b.effort # 0 /\ b.model = a.model /\ effort > b.effort => \A e \in takes : e >= effort
<1>. DEFINE t == c.plan.tree
            a == c.plan.agents[m]
            b == a.stored
<1>1. Planned(u, c.plan) /\ ~ Refused(c.plan, u) /\ c.effort = CommandLines(u, c.plan)
  BY DEF Runs
<1>2. t.harnesses[a.harness].effortFlag
  BY <1>1, HarnessKnown
<1>3. c.effort[m] = a.effort
  BY <1>1, <1>2 DEF CommandLines, EffortArg
<1>4. Scans(t) /\ Parsed(t) /\ b.effort \in Nat /\ a.model = Model(t, b) /\ a.effort = Effort(t, b)
  BY <1>1, AgentParts
<1>5. Dropped(t, b) \subseteq {Nothing}
  BY <1>1, NothingDropped
<1>6. LET model == Model(t, b)
          effort == Effort(t, b)
          takes == t.ais[AiFor(t, b)].models[model] IN
      /\ effort \in takes \cup {0} /\ (effort = 0 => takes = {})
      /\ (b.model # Nothing /\ b.model # model) => <<model, effort>> = Tier(t, b)
      /\ b.effort # 0 /\ b.model = model /\ effort > b.effort => \A e \in takes : e >= effort
  <2>. HIDE DEF t, b
  <2>. QED  BY <1>4, <1>5, Rated
<1>. QED  BY <1>3, <1>4, <1>6

-----------------------------------------------------------------------------
(* Launches *)

\* A launcher that does nothing relies on nothing.
LEMMA IdleReached ==
    ASSUME NEW key, NEW d, NEW img
    PROVE  Reached(NoLaunch, key) /\ Found(NoLaunch, d, img)
<1>1. DOMAIN NoLaunch = {"step", "unit", "plan", "todo", "part", "mounts", "fixed", "alone"} /\ NoLaunch.step = "idle"
  BY DEF NoLaunch
<1>. QED  BY <1>1 DEF Reached, Found, Staged

\* One whose files another launch writes relies on none of them.
LEMMA MutedReached ==
    ASSUME NEW L, NEW key, NEW d, NEW img, Reached(L, key)
    PROVE  LET N == [L EXCEPT !.alone = FALSE] IN Reached(N, key) /\ Found(N, d, img)
<1>. DEFINE N == [L EXCEPT !.alone = FALSE]
<1>1. /\ DOMAIN N = DOMAIN L /\ ~ N.alone
      /\ N.step = L.step /\ N.unit = L.unit /\ N.plan = L.plan /\ N.todo = L.todo /\ N.part = L.part
      /\ N.mounts = L.mounts /\ N.fixed = L.fixed
  BY DEF Reached
<1>. HIDE DEF N
<1>2. Reached(N, key)
  BY <1>1 DEF Reached
<1>3. Found(N, d, img)
  BY <1>1 DEF Found
<1>. QED  BY <1>2, <1>3 DEF N

\* A container that is written to keeps the rest.
LEMMA MutedRuns ==
    ASSUME NEW u, NEW c, Runs(u, c), NEW e, DOMAIN e = DOMAIN c, ~ e.alone,
           \A x \in DOMAIN c \ {"alone", "commands"} : e[x] = c[x]
    PROVE  Runs(u, e)
<1>1. /\ e.plan = c.plan /\ e.mounts = c.mounts /\ e.layers = c.layers /\ e.chain = c.chain
      /\ e.effort = c.effort /\ e.key = c.key
  BY DEF Runs
<1>. QED  BY <1>1 DEF Runs

\* A step of one launch that writes nothing.
LEMMA Proceeds ==
    ASSUME LaunchInv, NEW l \in Launcher, NEW L, GoesOn(l, L),
           Reached(L, extras.key), Found(L, disk, images),
           UNCHANGED <<tree, shared, own, extras, disk, images, running>>
    PROVE  LaunchInv'
<1>1. DOMAIN launch = Launcher
  BY DEF LaunchInv, FilesOK
<1>2. DOMAIN launch' = Launcher /\ launch'[l] = L /\ \A k \in Launcher \ {l} : launch'[k] = launch[k]
  BY <1>1 DEF GoesOn
<1>3. FilesOK'
  BY <1>2 DEF LaunchInv, FilesOK
<1>4. \A k \in Launcher : Reached(launch'[k], extras.key) /\ Found(launch'[k], disk, images)
  BY <1>2 DEF LaunchInv
<1>5. (\A k \in Launcher : Reached(launch[k], extras.key) /\ Found(launch[k], disk, images))'
  BY <1>4
<1>6. (\A u \in Unit : running[u] # Nothing => Runs(u, running[u]))'
  BY DEF LaunchInv
<1>. QED  BY <1>3, <1>5, <1>6 DEF LaunchInv

\* Nobody launches, nothing runs.
LEMMA LaunchStarts == LaunchInit => LaunchInv
<1>. SUFFICES ASSUME LaunchInit PROVE LaunchInv
  OBVIOUS
<1>1. FilesOK
  BY DEF LaunchInit, FilesOK, Bare
<1>2. \A l \in Launcher : launch[l] = NoLaunch
  BY DEF LaunchInit
<1>3. \A l \in Launcher : Reached(launch[l], extras.key) /\ Found(launch[l], disk, images)
  BY <1>2, IdleReached
<1>4. \A u \in Unit : running[u] = Nothing
  BY DEF LaunchInit
<1>. QED  BY <1>1, <1>3, <1>4 DEF LaunchInv

LEMMA EditKeeps == LaunchInv /\ Edit => LaunchInv'
<1>. SUFFICES ASSUME LaunchInv, Edit PROVE LaunchInv'
  OBVIOUS
<1>1. UNCHANGED <<extras, disk, images, running, launch>>
  BY DEF Edit
<1>2. tree' \in Trees /\ DOMAIN own' = Unit
      /\ \A u \in Unit : DOMAIN own'[u] = MembersOf[u] /\ \A m \in MembersOf[u] : own'[u][m] \in Builds
  BY DEF Edit, LaunchInv, FilesOK
<1>3. FilesOK'
  BY <1>1, <1>2 DEF LaunchInv, FilesOK
<1>4. (\A l \in Launcher : Reached(launch[l], extras.key) /\ Found(launch[l], disk, images))'
  BY <1>1 DEF LaunchInv
<1>5. (\A u \in Unit : running[u] # Nothing => Runs(u, running[u]))'
  BY <1>1 DEF LaunchInv
<1>. QED  BY <1>3, <1>4, <1>5 DEF LaunchInv

LEMMA EndKeeps ==
    ASSUME LaunchInv, NEW u \in Unit, End(u)
    PROVE  LaunchInv'
<1>1. UNCHANGED <<tree, shared, own, extras, disk, images, launch>> /\ running' = [running EXCEPT ![u] = Nothing]
  BY DEF End
<1>2. DOMAIN running' = Unit /\ \A v \in Unit : running'[v] # Nothing => running'[v] = running[v]
  BY <1>1 DEF LaunchInv, FilesOK
<1>3. FilesOK'
  BY <1>1, <1>2 DEF LaunchInv, FilesOK
<1>4. (\A l \in Launcher : Reached(launch[l], extras.key) /\ Found(launch[l], disk, images))'
  BY <1>1 DEF LaunchInv
<1>5. \A v \in Unit : running'[v] # Nothing => Runs(v, running'[v])
  BY <1>2 DEF LaunchInv
<1>6. (\A v \in Unit : running[v] # Nothing => Runs(v, running[v]))'
  BY <1>5
<1>. QED  BY <1>3, <1>4, <1>6 DEF LaunchInv

\* What a pick makes of the stores.
LEMMA PlannedNow ==
    ASSUME FilesOK, NEW u \in Unit, NEW ai, Scans(tree)
    PROVE  Planned(u, PlanOf(u, ai))
<1>. DEFINE plan == PlanOf(u, ai)
<1>1. plan.tree = tree /\ plan.shared = shared[u]
      /\ plan.agents = [m \in MembersOf[u] |-> Instance(tree, u, shared[u], AskedBuild(own[u][m], ai))]
  BY DEF PlanOf
<1>. HIDE DEF plan
<1>2. ASSUME NEW m \in MembersOf[u]
      PROVE  plan.agents[m].stored.effort \in Nat
             /\ plan.agents[m] = Instance(plan.tree, u, plan.shared, plan.agents[m].stored)
  <2>. DEFINE b == AskedBuild(own[u][m], ai)
  <2>1. own[u][m] \in Builds
    BY DEF FilesOK
  <2>2. b.effort = own[u][m].effort /\ own[u][m].effort \in Nat
    BY <2>1, LaunchAssumption DEF AskedBuild
  <2>. HIDE DEF b
  <2>3. plan.agents[m] = Instance(tree, u, shared[u], b)
    BY <1>1 DEF b
  <2>4. plan.agents[m].stored = b
    BY <2>3 DEF Instance
  <2>. QED  BY <1>1, <2>2, <2>3, <2>4
<1>3. tree \in Trees /\ DOMAIN plan.agents = MembersOf[u]
  BY <1>1 DEF FilesOK
<1>. QED  BY <1>1, <1>2, <1>3 DEF Planned, plan

LEMMA PickedKeeps ==
    ASSUME LaunchInv, NEW l \in Launcher, NEW u \in Unit, NEW ai, Picked(l, u, ai)
    PROVE  LaunchInv'
<1>. DEFINE L == [NoLaunch EXCEPT !.step = "picked", !.unit = u, !.plan = PlanOf(u, ai), !.todo = MembersOf[u]]
<1>1. GoesOn(l, L) /\ Scans(tree) /\ UNCHANGED <<tree, shared, own, extras, disk, images, running>>
  BY DEF Picked
<1>2. Planned(u, PlanOf(u, ai))
  BY <1>1, PlannedNow DEF LaunchInv
<1>3. /\ DOMAIN L = {"step", "unit", "plan", "todo", "part", "mounts", "fixed", "alone"}
      /\ L.step = "picked" /\ L.unit = u /\ L.plan = PlanOf(u, ai) /\ L.todo = MembersOf[u] /\ L.part = Nothing
  BY DEF NoLaunch
<1>. HIDE DEF L
<1>4. Reached(L, extras.key)
  BY <1>2, <1>3 DEF Reached, Staged
<1>5. Found(L, disk, images)
  BY <1>3 DEF Found, Staged
<1>. QED  BY <1>1, <1>4, <1>5, Proceeds

\* One that is idle, whatever else its record says.
LEMMA IdleRelies ==
    ASSUME NEW L, NEW key, NEW d, NEW img, L.step = "idle",
           DOMAIN L = {"step", "unit", "plan", "todo", "part", "mounts", "fixed", "alone"}
    PROVE  Reached(L, key) /\ Found(L, d, img)
  BY DEF Reached, Found, Staged

LEMMA StopKeeps ==
    ASSUME LaunchInv, NEW l \in Launcher, Exit(l),
           UNCHANGED <<tree, shared, own, extras, disk, images, running>>
    PROVE  LaunchInv'
  BY IdleReached, Proceeds DEF Exit

LEMMA CheckKeeps ==
    ASSUME LaunchInv, NEW l \in Launcher, Check(l)
    PROVE  LaunchInv'
<1>. DEFINE L == launch[l]
            tagged == [L EXCEPT !.step = "stage", !.mounts = TagMounts(L.plan)]
            N == IF L.unit \in Clusters THEN EnvStaged(tagged) ELSE tagged
<1>1. UNCHANGED <<tree, shared, own, extras, disk, images, running>> /\ L.step = "picked"
  BY DEF Check, StandsAt
<1>2. CASE Exit(l)
  BY <1>1, <1>2, StopKeeps
<1>3. CASE ~ Exit(l)
  <2>1. /\ GoesOn(l, N) /\ ~ Refused(L.plan, L.unit)
        /\ L.unit \in Clusters => ~ FixedRefused(L.unit, L.plan)
    BY <1>3 DEF Check
  <2>2. Reached(L, extras.key)
    BY DEF LaunchInv
  <2>3. /\ DOMAIN L = {"step", "unit", "plan", "todo", "part", "mounts", "fixed", "alone"}
        /\ L.unit \in Unit /\ Planned(L.unit, L.plan) /\ L.todo = MembersOf[L.unit] /\ L.part = Nothing
    BY <1>1, <2>2 DEF Reached
  <2>. HIDE DEF L
  <2>4. /\ DOMAIN tagged = DOMAIN L /\ tagged.step = "stage" /\ tagged.mounts = TagMounts(L.plan)
        /\ tagged.unit = L.unit /\ tagged.plan = L.plan /\ tagged.todo = L.todo /\ tagged.part = L.part
    BY <2>3
  <2>. HIDE DEF tagged
  <2>5. /\ DOMAIN N = DOMAIN L /\ N.step = "stage" /\ N.mounts = TagMounts(L.plan)
        /\ N.unit = L.unit /\ N.plan = L.plan /\ N.todo = MembersOf[L.unit] /\ N.part = Nothing
        /\ L.unit \in Clusters => N.fixed = Fixed(L.unit, L.plan)
    BY <2>3, <2>4 DEF EnvStaged
  <2>. HIDE DEF N
  <2>6. Reached(N, extras.key)
    BY <2>1, <2>3, <2>5 DEF Reached, Staged, Pinned
  <2>7. Found(N, disk, images)
    <3>1. Nothing \notin MembersOf[N.unit]
      BY <2>3, <2>5, LaunchAssumption
    <3>. QED  BY <2>5, <3>1 DEF Found
  <2>. QED  BY <1>1, <2>1, <2>6, <2>7, Proceeds
<1>. QED  BY <1>2, <1>3

LEMMA MountsKeeps ==
    ASSUME LaunchInv, NEW l \in Launcher, Mounts(l)
    PROVE  LaunchInv'
<1>. DEFINE L == launch[l]
            all == L.mounts \cup {Workspace(L.plan)} \cup OptionalCreds(L.unit)
            S == IF L.unit \notin Clusters THEN EnvStaged(L) ELSE L
            N == [S EXCEPT !.step = "build", !.mounts = all]
<1>1. UNCHANGED <<tree, shared, own, extras, disk, images, running>> /\ L.step = "mounts"
  BY DEF Mounts, StandsAt
<1>2. CASE Exit(l)
  BY <1>1, <1>2, StopKeeps
<1>3. CASE ~ Exit(l)
  <2>1. /\ GoesOn(l, N) /\ ~ Collide(all)
        /\ L.unit \notin Clusters => ~ FixedRefused(L.unit, L.plan)
    BY <1>3 DEF Mounts
  <2>2. Reached(L, extras.key) /\ Found(L, disk, images)
    BY DEF LaunchInv
  <2>3. /\ DOMAIN L = {"step", "unit", "plan", "todo", "part", "mounts", "fixed", "alone"}
        /\ L.unit \in Unit /\ Planned(L.unit, L.plan) /\ L.todo = {}
        /\ ~ Refused(L.plan, L.unit) /\ TagMounts(L.plan) \subseteq L.mounts
        /\ L.todo = MembersOf[L.unit] \/ ~ Misread(extras.key)
        /\ L.unit \in Clusters => Pinned(L.fixed, L.unit, L.plan)
    BY <1>1, <2>2 DEF Reached, Staged
  <2>. HIDE DEF L, all
  <2>4. /\ DOMAIN S = DOMAIN L /\ S.unit = L.unit /\ S.plan = L.plan /\ S.todo = {} /\ S.part = L.part
        /\ S.alone = L.alone /\ Pinned(S.fixed, L.unit, L.plan)
    BY <2>1, <2>3 DEF EnvStaged, Pinned
  <2>. HIDE DEF S
  <2>5. /\ DOMAIN N = DOMAIN L /\ N.step = "build" /\ N.mounts = all /\ N.alone = L.alone
        /\ N.unit = L.unit /\ N.plan = L.plan /\ N.todo = {} /\ N.part = L.part
        /\ Pinned(N.fixed, L.unit, L.plan)
    BY <2>3, <2>4
  <2>. HIDE DEF N
  <2>6. TagMounts(L.plan) \subseteq all /\ Workspace(L.plan) \in all
    BY <2>3 DEF all
  <2>7. Reached(N, extras.key)
    BY <2>1, <2>3, <2>5, <2>6 DEF Reached, Staged, Mounted
  <2>8. Found(N, disk, images)
    BY <1>1, <2>2, <2>3, <2>5 DEF Found, Staged, L
  <2>. QED  BY <1>1, <2>1, <2>7, <2>8, Proceeds
<1>. QED  BY <1>2, <1>3

\* A launch that writes to its unit's files takes the solitude of the others of
\* the unit, so nobody relies on what is gone.
LEMMA OthersMuted ==
    ASSUME LaunchInv, NEW l \in Launcher, launch[l].unit \in Unit, NEW L, Disturb(l, L), NEW d,
           \A v \in Unit \ {launch[l].unit} : d[v] = disk[v]
    PROVE  /\ DOMAIN launch' = Launcher
           /\ \A k \in Launcher \ {l} : Reached(launch'[k], extras.key) /\ Found(launch'[k], d, images)
<1>1. DOMAIN launch' = Launcher
  BY DEF Disturb
<1>2. ASSUME NEW k \in Launcher \ {l}
      PROVE  Reached(launch'[k], extras.key) /\ Found(launch'[k], d, images)
  <2>1. Reached(launch[k], extras.key) /\ Found(launch[k], disk, images)
    BY DEF LaunchInv
  <2>2. CASE k \in Others(l)
    <3>1. launch'[k] = [launch[k] EXCEPT !.alone = FALSE]
      BY <2>2 DEF Disturb
    <3>. QED  BY <2>1, <3>1, MutedReached
  <2>3. CASE k \notin Others(l)
    <3>1. launch'[k] = launch[k]
      BY <2>3 DEF Disturb
    <3>2. launch[k].step = "idle" \/ launch[k].unit # launch[l].unit
      BY <2>3 DEF Others
    <3>3. CASE launch[k].step = "idle"
      BY <2>1, <3>1, <3>3 DEF Found, Staged
    <3>4. CASE launch[k].step # "idle" /\ launch[k].unit # launch[l].unit
      <4>1. launch[k].unit \in Unit
        BY <2>1, <3>4 DEF Reached
      <4>2. d[launch[k].unit] = disk[launch[k].unit]
        BY <3>4, <4>1
      <4>. QED  BY <2>1, <3>1, <4>2 DEF Found
    <3>. QED  BY <3>2, <3>3, <3>4
  <2>. QED  BY <2>2, <2>3
<1>. QED  BY <1>1, <1>2

\* It goes on as it meant to, alone only if it was.
LEMMA GoesOnDisturbing ==
    ASSUME NEW l \in Launcher, NEW L, Disturb(l, L), "alone" \in DOMAIN L
    PROVE  /\ DOMAIN launch'[l] = DOMAIN L /\ \A x \in DOMAIN L \ {"alone"} : launch'[l][x] = L[x]
           /\ launch'[l].alone => L = NoLaunch \/ L.alone
<1>. DEFINE a == (L = NoLaunch) \/ (L.alone /\ Others(l) = {} /\ running[L.unit] = Nothing)
<1>1. launch'[l] = [L EXCEPT !.alone = a]
  BY DEF Disturb
<1>2. a => L = NoLaunch \/ L.alone
  OBVIOUS
<1>. HIDE DEF a
<1>. QED  BY <1>1, <1>2

\* A container whose files are written to keeps the rest; the others keep all.
LEMMA RunningMuted ==
    ASSUME LaunchInv, NEW u \in Unit, DOMAIN running' = Unit,
           \A v \in Unit \ {u} : running'[v] = running[v],
           running[u] = Nothing => running'[u] = Nothing,
           running[u] # Nothing => /\ DOMAIN running'[u] = DOMAIN running[u] /\ ~ running'[u].alone
                                   /\ \A x \in DOMAIN running[u] \ {"alone", "commands"} : running'[u][x] = running[u][x]
    PROVE  \A v \in Unit : running'[v] # Nothing => Runs(v, running'[v])
<1>. SUFFICES ASSUME NEW v \in Unit, running'[v] # Nothing
              PROVE  Runs(v, running'[v])
  OBVIOUS
<1>1. CASE v # u
  BY <1>1 DEF LaunchInv
<1>2. CASE v = u
  <2>1. running[u] # Nothing /\ Runs(u, running[u])
    BY <1>2 DEF LaunchInv
  <2>. QED  BY <1>2, <2>1, MutedRuns
<1>. QED  BY <1>1, <1>2

LEMMA InstallSettingsKeeps ==
    ASSUME LaunchInv, NEW l \in Launcher, NEW m, InstallSettings(l, m)
    PROVE  LaunchInv'
<1>. DEFINE L == launch[l]
            u == L.unit
            a == L.plan.agents[m]
            N == [L EXCEPT !.part = m]
<1>1. /\ UNCHANGED <<tree, shared, own, extras, images>>
      /\ L.step = "stage" /\ m \in L.todo /\ L.part = Nothing
  BY DEF InstallSettings, StandsAt
<1>2. CASE Unrenderable(L.plan.tree, a)
  <2>1. Exit(l) /\ UNCHANGED <<disk, running>>
    BY <1>2 DEF InstallSettings
  <2>. QED  BY <1>1, <2>1, StopKeeps
<1>3. CASE ~ Unrenderable(L.plan.tree, a)
  <2>1. /\ disk' = [disk EXCEPT ![u][m].settings = Settings(L.plan.tree, a)]
        /\ Disturb(l, N)
        /\ running' = IF running[u] = Nothing THEN running ELSE [running EXCEPT ![u].alone = FALSE]
    BY <1>3 DEF InstallSettings
  <2>2. Reached(L, extras.key) /\ Found(L, disk, images) /\ FilesOK
    BY DEF LaunchInv
  <2>3. /\ DOMAIN L = {"step", "unit", "plan", "todo", "part", "mounts", "fixed", "alone"}
        /\ u \in Unit /\ Planned(u, L.plan)
    BY <1>1, <2>2 DEF Reached
  <2>4. /\ DOMAIN disk' = Unit /\ \A v \in Unit \ {u} : disk'[v] = disk[v]
        /\ DOMAIN disk'[u] = MembersOf[u]
        /\ \A n \in MembersOf[u] : /\ DOMAIN disk'[u][n] = {"settings", "commands"}
                                   /\ disk'[u][n].commands = disk[u][n].commands
                                   /\ n # m => disk'[u][n].settings = disk[u][n].settings
                                   /\ n = m => disk'[u][n].settings = Settings(L.plan.tree, a)
    <3>. HIDE DEF L, a
    <3>. QED  BY <2>1, <2>2, <2>3 DEF FilesOK
  <2>5. /\ DOMAIN launch' = Launcher
        /\ \A k \in Launcher \ {l} : Reached(launch'[k], extras.key) /\ Found(launch'[k], disk', images)
    BY <2>1, <2>3, <2>4, OthersMuted
  <2>6. /\ DOMAIN N = DOMAIN L /\ N.part = m /\ \A x \in DOMAIN L \ {"part"} : N[x] = L[x]
    BY <2>3
  <2>7. /\ DOMAIN launch'[l] = DOMAIN L /\ launch'[l].part = m
        /\ \A x \in DOMAIN L \ {"part", "alone"} : launch'[l][x] = L[x]
        /\ launch'[l].alone => L.alone
    <3>1. N # NoLaunch
      BY <1>1, <2>3, <2>6 DEF NoLaunch
    <3>. HIDE DEF N, L
    <3>. QED  BY <2>1, <2>3, <2>6, <3>1, GoesOnDisturbing
  <2>. DEFINE M == launch'[l]
  <2>8. /\ M.step = "stage" /\ M.unit = u /\ M.plan = L.plan /\ M.todo = L.todo /\ M.mounts = L.mounts
        /\ M.fixed = L.fixed /\ DOMAIN M = DOMAIN L /\ M.part = m /\ (M.alone => L.alone)
    BY <1>1, <2>3, <2>7
  <2>. HIDE DEF M, L, N, a
  <2>9. Reached(M, extras.key)
    BY <1>1, <2>2, <2>8 DEF Reached, Staged
  <2>10. Found(M, disk', images)
    <3>1. ASSUME M.alone, NEW n \in MembersOf[u], n \notin L.todo \/ n = m
          PROVE  SettingsIn(disk'[u][n], L.plan, n)
      <4>1. CASE n = m
        BY <1>3, <2>4, <4>1 DEF SettingsIn, a
      <4>2. CASE n # m
        <5>1. SettingsIn(disk[u][n], L.plan, n)
          BY <1>1, <2>2, <2>8, <3>1, <4>2 DEF Found, Staged
        <5>. QED  BY <2>4, <4>2, <5>1 DEF SettingsIn
      <4>. QED  BY <4>1, <4>2
    <3>2. ASSUME M.alone, NEW n \in MembersOf[u], n \notin L.todo
          PROVE  CommandsIn(disk'[u][n], L.plan, n)
      <4>1. CommandsIn(disk[u][n], L.plan, n)
        BY <1>1, <2>2, <2>8, <3>2 DEF Found, Staged
      <4>. QED  BY <2>4, <4>1 DEF CommandsIn
    <3>. QED  BY <2>8, <3>1, <3>2 DEF Found
  <2>11. DOMAIN running' = Unit /\ \A v \in Unit : running'[v] # Nothing => Runs(v, running'[v])
    <3>1. DOMAIN running = Unit /\ (running[u] # Nothing => Runs(u, running[u]))
      BY <2>2, <2>3 DEF LaunchInv, FilesOK
    <3>2. DOMAIN running' = Unit /\ \A v \in Unit \ {u} : running'[v] = running[v]
      BY <2>1, <2>3, <3>1
    <3>3. running[u] # Nothing =>
            /\ DOMAIN running'[u] = DOMAIN running[u] /\ ~ running'[u].alone
            /\ \A x \in DOMAIN running[u] \ {"alone", "commands"} : running'[u][x] = running[u][x]
      BY <2>1, <2>3, <3>1 DEF Runs
    <3>4. running[u] = Nothing => running'[u] = Nothing
      BY <2>1
    <3>. QED  BY <2>3, <3>2, <3>3, <3>4, RunningMuted
  <2>12. FilesOK'
    BY <1>1, <2>2, <2>3, <2>4, <2>5, <2>11 DEF FilesOK
  <2>13. (\A k \in Launcher : Reached(launch[k], extras.key) /\ Found(launch[k], disk, images))'
    BY <1>1, <2>5, <2>9, <2>10 DEF M
  <2>14. (\A v \in Unit : running[v] # Nothing => Runs(v, running[v]))'
    BY <2>11
  <2>. QED  BY <2>12, <2>13, <2>14 DEF LaunchInv
<1>. QED  BY <1>2, <1>3

LEMMA InstallCommandsKeeps ==
    ASSUME LaunchInv, NEW l \in Launcher, NEW m, InstallCommands(l, m)
    PROVE  LaunchInv'
<1>. DEFINE L == launch[l]
            u == L.unit
            a == L.plan.agents[m]
            mounts == L.mounts \cup AgentMounts(u, m)
            todo == L.todo \ {m}
            next == IF todo = {} THEN "mounts" ELSE "stage"
            N == [L EXCEPT !.part = Nothing, !.todo = todo, !.mounts = mounts, !.step = next]
            stops == Shadowing(L.plan.tree, a) \/ CredentialsRefused \/ Collide(mounts)
            written == IF Shadowing(L.plan.tree, a) THEN {} ELSE Commands(L.plan.tree, a)
            M == launch'[l]
<1>1. /\ UNCHANGED <<tree, shared, own, extras, images>>
      /\ L.step = "stage" /\ m \in L.todo /\ L.part = m
      /\ disk' = [disk EXCEPT ![u][m].commands = written]
      /\ Disturb(l, IF stops THEN NoLaunch ELSE N)
      /\ running' = IF running[u] = Nothing THEN running
                    ELSE [running EXCEPT ![u].alone = FALSE, ![u].commands[m] = {}]
  BY DEF InstallCommands, StandsAt
<1>2. Reached(L, extras.key) /\ Found(L, disk, images) /\ FilesOK
  BY DEF LaunchInv
<1>3. /\ DOMAIN L = {"step", "unit", "plan", "todo", "part", "mounts", "fixed", "alone"}
      /\ u \in Unit /\ Planned(u, L.plan)
      /\ ~ Refused(L.plan, u) /\ TagMounts(L.plan) \subseteq L.mounts
      /\ u \in Clusters => Pinned(L.fixed, u, L.plan)
  BY <1>1, <1>2 DEF Reached, Staged
<1>4. /\ DOMAIN disk' = Unit /\ \A v \in Unit \ {u} : disk'[v] = disk[v]
      /\ DOMAIN disk'[u] = MembersOf[u]
      /\ \A n \in MembersOf[u] : /\ DOMAIN disk'[u][n] = {"settings", "commands"}
                                 /\ disk'[u][n].settings = disk[u][n].settings
                                 /\ n # m => disk'[u][n].commands = disk[u][n].commands
                                 /\ n = m => disk'[u][n].commands = written
  <2>. HIDE DEF L, a, written
  <2>. QED  BY <1>1, <1>2, <1>3 DEF FilesOK
<1>5. /\ DOMAIN launch' = Launcher
      /\ \A k \in Launcher \ {l} : Reached(launch'[k], extras.key) /\ Found(launch'[k], disk', images)
  <2>. HIDE DEF stops, N
  <2>. QED  BY <1>1, <1>3, <1>4, OthersMuted
<1>6. DOMAIN running' = Unit /\ \A v \in Unit : running'[v] # Nothing => Runs(v, running'[v])
  <2>. HIDE DEF L
  <2>1. DOMAIN running = Unit /\ (running[u] # Nothing => Runs(u, running[u]))
    BY <1>2, <1>3 DEF LaunchInv, FilesOK
  <2>2. DOMAIN running' = Unit /\ \A v \in Unit \ {u} : running'[v] = running[v]
    BY <1>1, <1>3, <2>1
  <2>3. running[u] # Nothing =>
          /\ DOMAIN running'[u] = DOMAIN running[u] /\ ~ running'[u].alone
          /\ \A x \in DOMAIN running[u] \ {"alone", "commands"} : running'[u][x] = running[u][x]
    BY <1>1, <1>3, <2>1 DEF Runs
  <2>4. running[u] = Nothing => running'[u] = Nothing
    BY <1>1
  <2>. QED  BY <1>3, <2>2, <2>3, <2>4, RunningMuted
<1>7. FilesOK'
  BY <1>1, <1>2, <1>3, <1>4, <1>5, <1>6 DEF FilesOK
<1>8. Reached(M, extras.key) /\ Found(M, disk', images)
  <2>1. CASE stops
    <3>1. Disturb(l, NoLaunch)
      BY <1>1, <2>1
    <3>2. /\ DOMAIN NoLaunch = {"step", "unit", "plan", "todo", "part", "mounts", "fixed", "alone"}
          /\ NoLaunch.step = "idle"
      BY DEF NoLaunch
    <3>3. DOMAIN M = DOMAIN NoLaunch /\ M.step = "idle"
      <4>1. /\ DOMAIN launch'[l] = DOMAIN NoLaunch
            /\ \A x \in DOMAIN NoLaunch \ {"alone"} : launch'[l][x] = NoLaunch[x]
        BY <3>1, <3>2, GoesOnDisturbing
      <4>. QED  BY <3>2, <4>1
    <3>. HIDE DEF M
    <3>. QED  BY <3>2, <3>3, IdleRelies
  <2>2. CASE ~ stops
    <3>1. Disturb(l, N) /\ ~ Shadowing(L.plan.tree, a) /\ ~ Misread(extras.key)
      BY <1>1, <2>2 DEF CredentialsRefused
    <3>2. /\ DOMAIN N = DOMAIN L /\ N.part = Nothing /\ N.todo = todo /\ N.mounts = mounts /\ N.step = next
          /\ N.unit = u /\ N.plan = L.plan /\ N.fixed = L.fixed /\ N.alone = L.alone
      <4>. HIDE DEF L, todo, mounts, next
      <4>. QED  BY <1>3
    <3>3. /\ DOMAIN M = DOMAIN L /\ M.part = Nothing /\ M.todo = todo /\ M.mounts = mounts /\ M.step = next
          /\ M.unit = u /\ M.plan = L.plan /\ M.fixed = L.fixed /\ (M.alone => L.alone)
      <4>1. N # NoLaunch
        BY <1>1, <1>3, <3>2 DEF NoLaunch
      <4>2. /\ DOMAIN launch'[l] = DOMAIN N /\ \A x \in DOMAIN N \ {"alone"} : launch'[l][x] = N[x]
            /\ launch'[l].alone => N = NoLaunch \/ N.alone
        <5>. HIDE DEF N, L, todo, mounts, next
        <5>. QED  BY <1>3, <3>1, <3>2, GoesOnDisturbing
      <4>. HIDE DEF N, L, todo, mounts, next
      <4>. QED  BY <1>3, <3>2, <4>1, <4>2
    <3>4. /\ TagMounts(L.plan) \subseteq mounts /\ (next # "stage" => todo = {})
          /\ next \in {"stage", "mounts"}
      BY <1>3
    <3>5. written = Commands(L.plan.tree, a)
      BY <3>1
    <3>. HIDE DEF M, L, N, mounts, next, a, written
    <3>6. Reached(M, extras.key)
      BY <1>3, <3>1, <3>3, <3>4 DEF Reached, Staged
    <3>7. ASSUME M.alone, NEW n \in MembersOf[u], n \notin todo
          PROVE  SettingsIn(disk'[u][n], L.plan, n) /\ CommandsIn(disk'[u][n], L.plan, n)
      <4>1. n \notin L.todo \/ n = L.part
        BY <1>1, <3>7
      <4>2. SettingsIn(disk[u][n], L.plan, n) /\ (n # m => CommandsIn(disk[u][n], L.plan, n))
        BY <1>1, <1>2, <3>3, <3>7, <4>1 DEF Found, Staged
      <4>3. SettingsIn(disk'[u][n], L.plan, n)
        BY <1>4, <4>2 DEF SettingsIn
      <4>4. CommandsIn(disk'[u][n], L.plan, n)
        BY <1>4, <3>5, <4>2 DEF CommandsIn, a
      <4>. QED  BY <4>3, <4>4
    <3>8. \A n \in MembersOf[u] : n # Nothing
      BY <1>3, LaunchAssumption
    <3>. HIDE DEF todo
    <3>9. Found(M, disk', images)
      BY <3>3, <3>4, <3>7, <3>8 DEF Found
    <3>. QED  BY <3>6, <3>9
  <2>. QED  BY <2>1, <2>2
<1>9. (\A k \in Launcher : Reached(launch[k], extras.key) /\ Found(launch[k], disk, images))'
  BY <1>1, <1>5, <1>8
<1>10. (\A v \in Unit : running[v] # Nothing => Runs(v, running[v]))'
  BY <1>6
<1>. QED  BY <1>7, <1>9, <1>10 DEF LaunchInv

LEMMA BuildKeeps ==
    ASSUME LaunchInv, NEW l \in Launcher, Build(l)
    PROVE  LaunchInv'
<1>. DEFINE L == launch[l]
            tag == Layers(L.unit, L.plan)
            N == [L EXCEPT !.step = "run"]
            Outrun(k) == launch[k].step = "run" /\ Layers(launch[k].unit, launch[k].plan) = tag
<1>1. /\ UNCHANGED <<tree, shared, own, extras, disk, running>> /\ L.step = "build"
      /\ images' = ImagesWith(tag, L.fixed)
      /\ launch' = [k \in Launcher |-> IF k = l THEN N
                      ELSE IF Outrun(k) THEN [launch[k] EXCEPT !.alone = FALSE] ELSE launch[k]]
  BY DEF Build, StandsAt
<1>2. tag \in DOMAIN images' /\ images'[tag] = L.fixed
      /\ \A x \in DOMAIN images : x # tag => x \in DOMAIN images' /\ images'[x] = images[x]
  <2>. HIDE DEF tag, L
  <2>. QED  BY <1>1 DEF ImagesWith
<1>3. ASSUME NEW k \in Launcher \ {l}
      PROVE  Reached(launch'[k], extras.key) /\ Found(launch'[k], disk, images')
  <2>1. Reached(launch[k], extras.key) /\ Found(launch[k], disk, images)
    BY DEF LaunchInv
  <2>2. CASE Outrun(k)
    <3>1. launch'[k] = [launch[k] EXCEPT !.alone = FALSE]
      BY <1>1, <2>2
    <3>. QED  BY <2>1, <3>1, MutedReached
  <2>3. CASE ~ Outrun(k)
    <3>1. launch'[k] = launch[k]
      BY <1>1, <2>3
    <3>. HIDE DEF tag
    <3>. QED  BY <1>2, <2>1, <2>3, <3>1 DEF Found
  <2>. QED  BY <2>2, <2>3
<1>4. Reached(launch'[l], extras.key) /\ Found(launch'[l], disk, images')
  <2>1. Reached(L, extras.key) /\ Found(L, disk, images)
    BY DEF LaunchInv
  <2>2. DOMAIN L = {"step", "unit", "plan", "todo", "part", "mounts", "fixed", "alone"}
    BY <2>1 DEF Reached
  <2>3. launch'[l] = N
    BY <1>1
  <2>. HIDE DEF L
  <2>4. /\ DOMAIN N = DOMAIN L /\ N.step = "run" /\ N.unit = L.unit /\ N.plan = L.plan /\ N.todo = L.todo
        /\ N.part = L.part /\ N.mounts = L.mounts /\ N.fixed = L.fixed /\ N.alone = L.alone
    BY <2>2
  <2>. HIDE DEF N
  <2>5. Reached(N, extras.key)
    BY <1>1, <2>1, <2>4 DEF Reached, Staged
  <2>6. Found(N, disk, images')
    BY <1>1, <1>2, <2>1, <2>4 DEF Found, Staged
  <2>. QED  BY <2>3, <2>5, <2>6
<1>5. FilesOK'
  <2>1. DOMAIN launch' = Launcher
    BY <1>1
  <2>. QED  BY <1>1, <2>1 DEF LaunchInv, FilesOK
<1>6. (\A k \in Launcher : Reached(launch[k], extras.key) /\ Found(launch[k], disk, images))'
  BY <1>1, <1>3, <1>4
<1>7. (\A v \in Unit : running[v] # Nothing => Runs(v, running[v]))'
  BY <1>1 DEF LaunchInv
<1>. QED  BY <1>5, <1>6, <1>7 DEF LaunchInv

\* What docker is told to run is what the launch was told.
LEMMA ContainerRuns ==
    ASSUME LaunchInv, NEW l \in Launcher, launch[l].step = "run"
    PROVE  launch[l].unit \in Unit /\ Runs(launch[l].unit, Container(l))
<1>. DEFINE L == launch[l]
            u == L.unit
            tag == Layers(u, L.plan)
            c == Container(l)
<1>1. Reached(L, extras.key) /\ Found(L, disk, images)
  BY DEF LaunchInv
<1>2. /\ u \in Unit /\ Planned(u, L.plan) /\ ~ Refused(L.plan, u) /\ Mounted(L.mounts, L.plan)
      /\ Pinned(L.fixed, u, L.plan) /\ L.todo = {} /\ (L.todo = MembersOf[u] \/ ~ Misread(extras.key))
  BY <1>1 DEF Reached, Staged
<1>3. ~ Misread(extras.key)
  BY <1>2, LaunchAssumption
<1>4. L.alone => /\ images[tag] = L.fixed
                 /\ \A m \in MembersOf[u] : SettingsIn(disk[u][m], L.plan, m) /\ CommandsIn(disk[u][m], L.plan, m)
  BY <1>1, <1>2 DEF Found, Staged
<1>. HIDE DEF L, tag
<1>5. /\ DOMAIN c = {"plan", "mounts", "layers", "fixed", "chain", "key", "settings", "commands", "effort", "alone"}
      /\ c.plan = L.plan /\ c.mounts = L.mounts /\ c.layers = Layers(u, L.plan) /\ c.fixed = images[tag]
      /\ c.chain = Chain(u, L.plan) /\ c.key = extras.key /\ c.effort = CommandLines(u, L.plan) /\ c.alone = L.alone
      /\ c.settings = [m \in MembersOf[u] |-> disk[u][m].settings]
      /\ c.commands = [m \in MembersOf[u] |-> disk[u][m].commands]
  BY DEF Container, L, tag
<1>. HIDE DEF c
<1>6. c.alone => \A m \in MembersOf[u] : /\ c.settings[m] = Settings(L.plan.tree, L.plan.agents[m])
                                         /\ ~ Unrenderable(L.plan.tree, L.plan.agents[m])
                                         /\ c.commands[m] = Commands(L.plan.tree, L.plan.agents[m])
  BY <1>4, <1>5 DEF SettingsIn, CommandsIn
<1>7. /\ Planned(u, c.plan) /\ ~ Refused(c.plan, u) /\ Mounted(c.mounts, c.plan) /\ ~ Misread(c.key)
      /\ c.layers = Layers(u, c.plan) /\ c.chain = Chain(u, c.plan) /\ c.effort = CommandLines(u, c.plan)
  BY <1>2, <1>3, <1>5
<1>8. c.alone => Pinned(c.fixed, u, c.plan)
  BY <1>2, <1>4, <1>5
<1>9. Runs(u, c)
  BY <1>5, <1>6, <1>7, <1>8 DEF Runs
<1>. QED  BY <1>2, <1>9 DEF c, L

LEMMA RunKeeps ==
    ASSUME LaunchInv, NEW l \in Launcher, RunNamed(l)
    PROVE  LaunchInv'
<1>1. /\ UNCHANGED <<tree, shared, own, extras, disk, images>> /\ launch[l].step = "run"
      /\ running' = [running EXCEPT ![launch[l].unit] = IF @ = Nothing THEN Container(l) ELSE @]
      /\ launch' = [launch EXCEPT ![l] = NoLaunch]
  BY DEF RunNamed, StandsAt, Exit, GoesOn
<1>2. launch[l].unit \in Unit /\ Runs(launch[l].unit, Container(l))
  BY <1>1, ContainerRuns
<1>3. DOMAIN running = Unit /\ DOMAIN launch = Launcher
  BY DEF LaunchInv, FilesOK
<1>4. DOMAIN launch' = Launcher /\ launch'[l] = NoLaunch /\ \A k \in Launcher \ {l} : launch'[k] = launch[k]
  BY <1>1, <1>3
<1>5. DOMAIN running' = Unit /\ \A v \in Unit : running'[v] # Nothing => Runs(v, running'[v])
  <2>1. DOMAIN running' = Unit
        /\ \A v \in Unit : running'[v] = running[v] \/ (v = launch[l].unit /\ running'[v] = Container(l))
    BY <1>1, <1>2, <1>3
  <2>. QED  BY <1>2, <2>1 DEF LaunchInv
<1>6. FilesOK'
  BY <1>1, <1>4, <1>5 DEF LaunchInv, FilesOK
<1>7. \A k \in Launcher : Reached(launch'[k], extras.key) /\ Found(launch'[k], disk, images)
  BY <1>4, IdleReached DEF LaunchInv
<1>8. (\A k \in Launcher : Reached(launch[k], extras.key) /\ Found(launch[k], disk, images))'
  BY <1>1, <1>7
<1>9. (\A v \in Unit : running[v] # Nothing => Runs(v, running[v]))'
  BY <1>5
<1>. QED  BY <1>6, <1>8, <1>9 DEF LaunchInv

-----------------------------------------------------------------------------
(* The theorems *)

\* Every step keeps what launches rely on.
LEMMA LaunchSteps == LaunchInv /\ [LaunchNext]_launchVars => LaunchInv'
<1>. SUFFICES ASSUME LaunchInv, [LaunchNext]_launchVars PROVE LaunchInv'
  OBVIOUS
<1>1. CASE Edit
  BY <1>1, EditKeeps
<1>2. CASE \E u \in Unit : End(u)
  BY <1>2, EndKeeps
<1>3. ASSUME NEW l \in Launcher, NEW u \in Unit, Begin(l, u) \/ Ask(l, u)
      PROVE  LaunchInv'
  <2>1. CASE Begin(l, u)
    BY <2>1, PickedKeeps DEF Begin
  <2>2. CASE Ask(l, u)
    <3>1. PICK ai \in DOMAIN tree.ais \cup {Nothing} : Picked(l, u, ai)
      BY <2>2 DEF Ask
    <3>. QED  BY <3>1, PickedKeeps
  <2>. QED  BY <1>3, <2>1, <2>2
<1>4. ASSUME NEW l \in Launcher, Check(l) \/ Mounts(l) \/ Build(l)
      PROVE  LaunchInv'
  BY <1>4, CheckKeeps, MountsKeeps, BuildKeeps
<1>5. ASSUME NEW l \in Launcher, Run(l) \/ RunCluster(l)
      PROVE  LaunchInv'
  BY <1>5, RunKeeps DEF Run, RunCluster
<1>6. ASSUME NEW l \in Launcher, Stop(l)
      PROVE  LaunchInv'
  BY <1>6, StopKeeps DEF Stop
<1>7. ASSUME NEW l \in Launcher, NEW m \in launch[l].todo, InstallSettings(l, m) \/ InstallCommands(l, m)
      PROVE  LaunchInv'
  BY <1>7, InstallSettingsKeeps, InstallCommandsKeeps
<1>8. CASE UNCHANGED launchVars
  <2>1. UNCHANGED <<tree, shared, own, extras, disk, images, running, launch>>
    BY <1>8 DEF launchVars
  <2>2. FilesOK'
    BY <2>1 DEF LaunchInv, FilesOK
  <2>3. (\A l \in Launcher : Reached(launch[l], extras.key) /\ Found(launch[l], disk, images))'
    BY <2>1 DEF LaunchInv
  <2>4. (\A u \in Unit : running[u] # Nothing => Runs(u, running[u]))'
    BY <2>1 DEF LaunchInv
  <2>. QED  BY <2>2, <2>3, <2>4 DEF LaunchInv
<1>. QED  BY <1>1, <1>2, <1>3, <1>4, <1>5, <1>6, <1>7, <1>8 DEF LaunchNext

\* A launch relies only on what it checked and on files nobody wrote since.
THEOREM LaunchesStaySound == LaunchSpec => []LaunchInv
<1>1. LaunchInit => LaunchInv
  BY LaunchStarts
<1>2. LaunchInv /\ [LaunchNext]_launchVars => LaunchInv'
  BY LaunchSteps
<1>. QED  BY <1>1, <1>2, PTL DEF LaunchSpec

\* No rule of a build evaporates: an agent that runs has every deny and the
\* demanded mode of its policies, its claimed fragments and the always-on ones.
THEOREM RulesReachTheAgent == LaunchSpec => []NothingEvaporates
<1>1. LaunchInv => NothingEvaporates
  <2>. SUFFICES ASSUME LaunchInv PROVE NothingEvaporates
    OBVIOUS
  <2>1. \A u \in Up : u \in Unit /\ Runs(u, running[u])
    BY DEF LaunchInv, Up
  <2>. QED  BY <2>1, RunsHoldRules DEF NothingEvaporates
<1>. QED  BY <1>1, LaunchesStaySound, PTL

\* What a container has is what its agents' builds say: mounts, layers,
\* wrappers, commands and the workspace.
THEOREM ContainersAreTheirBuilds == LaunchSpec => []ContainerIsItsBuild
<1>1. LaunchInv => ContainerIsItsBuild
  <2>. SUFFICES ASSUME LaunchInv PROVE ContainerIsItsBuild
    OBVIOUS
  <2>1. \A u \in Up : u \in Unit /\ Runs(u, running[u])
    BY DEF LaunchInv, Up
  <2>. QED  BY <2>1, RunsItsBuild DEF ContainerIsItsBuild
<1>. QED  BY <1>1, LaunchesStaySound, PTL

\* The model and the effort an agent runs with can go together, and a level kept
\* low is raised only as far as the model demands.
THEOREM AgentsRunAsRated == LaunchSpec => []RunsAsRated
<1>1. LaunchInv => RunsAsRated
  <2>. SUFFICES ASSUME LaunchInv PROVE RunsAsRated
    OBVIOUS
  <2>1. \A u \in Up : u \in Unit /\ Runs(u, running[u])
    BY DEF LaunchInv, Up
  <2>. QED  BY <2>1, RunsRated DEF RunsAsRated
<1>. QED  BY <1>1, LaunchesStaySound, PTL
=============================================================================
