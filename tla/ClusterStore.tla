---------------------------- MODULE ClusterStore ----------------------------
(***************************************************************************)
(* The clusters of a host: a cluster.toml each (the tags all members       *)
(* share, and each member's own), and the git worktrees some were created  *)
(* with.  The picker and the cluster CLI load a cluster, keep it while a   *)
(* form or a dialog is open, and write it back whole.  A worktree is known *)
(* in three places that are changed apart: its directory, git's entry for  *)
(* it, its branch.                                                         *)
(***************************************************************************)
EXTENDS Naturals, FiniteSets

CONSTANTS
    Session,       \* cluster names
    Agent,
    Tag,
    Locked,        \* LOCKED_SPECIALTIES, forced on every cluster
    NotForMembers, \* tags whose forbid_on holds "member"
    Lego,          \* Lego[a]: the tags of a's .lego
    Template,      \* Template[t][a]: the roles t gives to agent a
    Proc,          \* pickers and command lines
    MaxPerAgent, MaxMembers, MaxFlows, MaxCrashes,   \* bounds
    None

\* Role 0 is the bare id: golem, golem__1, golem__2.
Role == 0 .. MaxPerAgent
Member == Agent \X Role

\* What a cluster.toml holds: shared tags, and own[m] of each member m.
ClusterFile == [tags : SUBSET Tag, own : UNION {[M -> SUBSET Tag] : M \in SUBSET Member}]

\* load_legoset: a template's members are a non-empty list.
ASSUME ConstantsAssumption ==
    /\ Locked \subseteq Tag /\ NotForMembers \subseteq Tag /\ Lego \in [Agent -> SUBSET Tag]
    /\ MaxPerAgent \in Nat /\ MaxMembers \in Nat /\ MaxFlows \in Nat /\ MaxCrashes \in Nat
    /\ \A t \in DOMAIN Template :
          Template[t] \in [Agent -> SUBSET Role] /\ \E a \in Agent : Template[t][a] # {}
    /\ None \notin ClusterFile

VARIABLES
    store,      \* store[s]: cluster.toml of s, or None
    trees,      \* checkouts on disk: <<session, member>>
    admin,      \* git's entries, by the place they name
    branches,   \* cluster/<session>/<member>
    ready,      \* the project is a git repository and has a commit
    job,        \* what each process is in the middle of
    flows, crashes,
    adrift      \* checkouts whose member a file dropped, or whose cluster was renamed

vars == <<store, trees, admin, branches, ready, job, flows, crashes, adrift>>

NoJob == [step |-> "off", kind |-> "none", at |-> None, to |-> None, read |-> None, new |-> None, todo |-> {}]

Init ==
    /\ store = [s \in Session |-> None] /\ trees = {} /\ admin = {} /\ branches = {} /\ ready = FALSE
    /\ job = [p \in Proc |-> NoJob] /\ flows = 0 /\ crashes = 0 /\ adrift = {}

---------------------------------------------------------------------------
(* A cluster: tags, and own[m] for every member m. *)

Ids(c) == DOMAIN c.own

\* own_build: what the cluster carries is not stored again.
\* (Variant of OwnBuild: it is.)
OwnBuildWhole(build, tags) == build
OwnBuild(build, tags) == build \ tags

\* __post_init__ forces the locked tags; dumps and loads strip the members.
Cluster(tags, build) ==
    [tags |-> tags \cup Locked, own |-> [m \in DOMAIN build |-> OwnBuild(build[m], tags \cup Locked)]]

WithBuild(c, m, build) == [c EXCEPT !.own[m] = OwnBuild(build, c.tags)]
WithoutMember(c, m) == [c EXCEPT !.own = [n \in Ids(c) \ {m} |-> c.own[n]]]

\* forbidden_tags: the creation and edit flows save no cluster that has one.
Forbidden(c) == \E m \in Ids(c) : c.own[m] \cap NotForMembers # {}

---------------------------------------------------------------------------
(* Membership by picking. *)

Smallest(k, S) == CHOOSE T \in SUBSET S : Cardinality(T) = k /\ \A x \in T, y \in S \ T : x < y
Roles(c, a) == {m[2] : m \in {n \in Ids(c) : n[1] = a}}

\* auto_roles: a bare pick counts as one without a role, and is numbered as
\* soon as its agent is picked twice.
AutoRoles(kept, added) ==
    LET named == kept \ {0}
        bare == added + Cardinality(kept \cap {0}) IN
    CASE bare = 0 -> named
      [] bare = 1 /\ named = {} -> {0}
      [] OTHER -> named \cup Smallest(bare, (1 .. MaxPerAgent) \ named)

\* The picks a form can end with: of each agent the first few it opened with
\* (remove_last), then some more.
Pickable(roles) ==
    {AutoRoles(Smallest(pick[1], roles), pick[2]) : pick \in
        {kj \in (0 .. Cardinality(roles)) \X (0 .. MaxPerAgent) : kj[1] + kj[2] <= MaxPerAgent}}

Memberships(roles) ==
    LET pickable == [a \in Agent |-> Pickable(roles[a])]
        all == {{m \in Member : m[2] \in pick[m[1]]} : pick \in
                    {f \in [Agent -> SUBSET Role] : \A a \in Agent : f[a] \in pickable[a]}} IN
    {M \in all : Cardinality(M) \in 1 .. MaxMembers}

\* instantiate and assemble: each member with its agent's defaults.
Assemble(members) == [m \in members |-> Lego[m[1]]]

\* load_legoset: the members a template names, no two of one id.
Legoset(t) == {m \in Member : m[2] \in Template[t][m[1]]}

\* from_template.
FromTemplate(members, tags) == Cluster(tags, Assemble(members))

\* (Variant of Reassemble: assemble, as for a new cluster.)
ReassembleNew(c, members) == Assemble(members)
Reassemble(c, members) == [m \in members |-> IF m \in Ids(c) THEN c.own[m] ELSE Lego[m[1]]]

---------------------------------------------------------------------------
(* Processes.  Forms may stand open while others write; two processes      *)
(* never write at once.                                                    *)

Off(p) == job[p].step = "off" /\ flows < MaxFlows
Forms == {"off", "form"}
MayWrite(p) == \A q \in Proc \ {p} : job[q].step \in Forms
Set(p, j) == job' = [job EXCEPT ![p] = j]
Idle(p) == Set(p, NoJob)
At(s, members) == {<<s, m>> : m \in members}

\* exists: a cluster of this name is on disk.
Taken(s) == store[s] # None

\* worktree.check: a project that can have worktrees.
Hosts == ready

\* existing_worktrees: those git lists; add_commands skips them.
Listed(planned) == planned \cap admin
ToAdd(planned) == planned \ Listed(planned)

Drops(s, c) == IF store[s] = None THEN {} ELSE At(s, Ids(store[s]) \ Ids(c))

\* save: dumps, then one replacement of the file.
Save(s, c) ==
    /\ store' = [store EXCEPT ![s] = Cluster(c.tags, c.own)]
    /\ adrift' = adrift \cup Drops(s, c)

\* A flow on an existing cluster loads it, then asks.
Load(p, kind, s) ==
    /\ Off(p) /\ store[s] # None
    /\ Set(p, [NoJob EXCEPT !.step = "form", !.kind = kind, !.at = s, !.to = s, !.read = store[s]])
    /\ flows' = flows + 1
    /\ UNCHANGED <<store, trees, admin, branches, ready, crashes, adrift>>

Asked(p, kind) == job[p].step = "form" /\ job[p].kind = kind /\ MayWrite(p)

Cancel(p) ==
    /\ job[p].step = "form" /\ Idle(p)
    /\ UNCHANGED <<store, trees, admin, branches, ready, flows, crashes, adrift>>

\* F2 on a member: the shared tags are shown locked; a tag its scope forbids cannot be ticked.
EditMember(p) ==
    /\ Asked(p, "member")
    /\ \E m \in Ids(job[p].read), build \in SUBSET (Tag \ NotForMembers) :
          Save(job[p].at, WithBuild(job[p].read, m, build \cup job[p].read.tags))
    /\ Idle(p)
    /\ UNCHANGED <<trees, admin, branches, ready, flows, crashes>>

\* Del on a member, never the last one.
RemoveMember(p) ==
    /\ Asked(p, "member") /\ Cardinality(Ids(job[p].read)) > 1
    /\ \E m \in Ids(job[p].read) : Save(job[p].at, WithoutMember(job[p].read, m))
    /\ Idle(p)
    /\ UNCHANGED <<trees, admin, branches, ready, flows, crashes>>

\* The project gets its first commit.
Commit ==
    /\ ready = FALSE /\ ready' = TRUE
    /\ UNCHANGED <<store, trees, admin, branches, job, flows, crashes, adrift>>

\* The picker's form: tags, a name nobody has, and members.
CreateInForm(p) ==
    /\ Off(p) /\ MayWrite(p)
    /\ \E s \in Session, t \in DOMAIN Template, tags \in SUBSET Tag :
        \E members \in Memberships(Template[t]) :
          LET c == FromTemplate(members, tags) IN
          ~Taken(s) /\ ~Forbidden(c) /\ Save(s, c)
    /\ Idle(p) /\ flows' = flows + 1
    /\ UNCHANGED <<trees, admin, branches, ready, crashes>>

\* cluster create: the template's own members; worktree.check refuses a project
\* that cannot have worktrees, before anything is written.
CreateByCommand(p) ==
    /\ Off(p) /\ MayWrite(p)
    /\ \E s \in Session, t \in DOMAIN Template, worktrees \in BOOLEAN :
          LET c == FromTemplate(Legoset(t), {}) IN
          /\ ~Taken(s) /\ ~Forbidden(c) /\ (worktrees => Hosts)
          /\ Save(s, c)
          /\ IF worktrees
             THEN Set(p, [NoJob EXCEPT !.step = "add", !.kind = "create", !.at = s,
                                       !.todo = ToAdd(At(s, Ids(c)))])
             ELSE Idle(p)
    /\ flows' = flows + 1
    /\ UNCHANGED <<trees, admin, branches, ready, crashes>>

\* git worktree add -b: refuses a branch or a directory that exists.
Add(p) ==
    /\ job[p].step = "add"
    /\ IF job[p].todo = {} THEN Idle(p) /\ UNCHANGED <<trees, admin, branches>>
       ELSE \E w \in job[p].todo :
              IF w \in branches \cup trees
              THEN Idle(p) /\ UNCHANGED <<trees, admin, branches>>
              ELSE /\ trees' = trees \cup {w} /\ admin' = admin \cup {w}
                   /\ branches' = branches \cup {w}
                   /\ Set(p, [job[p] EXCEPT !.todo = @ \ {w}])
    /\ UNCHANGED <<store, ready, flows, crashes, adrift>>

\* F2 on a cluster: tags, members and name from one form.
EditCluster(p) ==
    /\ Asked(p, "edit")
    /\ \E s \in Session, tags \in SUBSET Tag,
          members \in Memberships([a \in Agent |-> Roles(job[p].read, a)]) :
          LET c == Cluster(tags, Reassemble(job[p].read, members)) IN
          /\ s = job[p].at \/ ~Taken(s)
          /\ ~Forbidden(c)
          /\ IF s = job[p].at THEN Save(s, c) /\ Idle(p)
             ELSE /\ Set(p, [job[p] EXCEPT !.step = "move", !.to = s, !.new = c])
                  /\ UNCHANGED <<store, adrift>>
    /\ UNCHANGED <<trees, admin, branches, ready, flows, crashes>>

\* rename, first half: the directory moves, and the checkouts in it.
Move(p) ==
    LET s == job[p].at
        to == job[p].to
        riding == {w \in trees : w[1] = s} IN
    /\ job[p].step = "move"
    /\ IF store[s] = None \/ \E w \in trees : w[1] = to
       THEN Idle(p) /\ UNCHANGED <<store, trees, adrift>>
       ELSE /\ store' = [store EXCEPT ![to] = store[s], ![s] = None]
            /\ trees' = (trees \ riding) \cup {<<to, w[2]>> : w \in riding}
            /\ adrift' = adrift \cup riding \cup {<<to, w[2]>> : w \in riding}
            /\ Set(p, [job[p] EXCEPT !.step = "moved"])
    /\ UNCHANGED <<admin, branches, ready, flows, crashes>>

SaveMoved(p) ==
    /\ job[p].step = "moved" /\ Save(job[p].to, job[p].new) /\ Idle(p)
    /\ UNCHANGED <<trees, admin, branches, ready, flows, crashes>>

\* destroy: worktrees only if any planned one is there.
\* (Variant of HasTrees: only if all are.)
HasAllTrees(planned) == planned \subseteq trees
HasTrees(planned) == planned \cap trees # {}

Destroy(p, s, c) ==
    LET planned == At(s, Ids(c))
        begun == [NoJob EXCEPT !.kind = "destroy", !.at = s, !.read = c] IN
    /\ MayWrite(p)
    /\ IF HasTrees(planned)
       THEN Set(p, [begun EXCEPT !.step = "remove", !.todo = Listed(planned)])
       ELSE Set(p, [begun EXCEPT !.step = "rmdir"])
    /\ UNCHANGED <<store, trees, admin, branches, ready, crashes, adrift>>

\* Del and its dialog; cluster destroy asks nothing.
DestroyConfirmed(p) == Asked(p, "destroy") /\ Destroy(p, job[p].at, job[p].read) /\ UNCHANGED flows
DestroyByCommand(p, s) == Off(p) /\ store[s] # None /\ Destroy(p, s, store[s]) /\ flows' = flows + 1

RemoveTree(p) ==
    /\ job[p].step = "remove"
    /\ \/ \E w \in job[p].todo :
            /\ trees' = trees \ {w} /\ admin' = admin \ {w}
            /\ Set(p, [job[p] EXCEPT !.todo = @ \ {w}])
       \/ /\ job[p].todo = {} /\ admin' = admin \cap trees      \* git worktree prune
          /\ trees' = trees /\ Set(p, [job[p] EXCEPT !.step = "rmdir"])
    /\ UNCHANGED <<store, branches, ready, flows, crashes, adrift>>

\* force_remove of the whole directory.
RemoveDir(p) ==
    LET s == job[p].at IN
    /\ job[p].step = "rmdir"
    /\ adrift' = adrift \cup Drops(s, job[p].read)
    /\ store' = [store EXCEPT ![s] = None] /\ trees' = {w \in trees : w[1] # s}
    /\ Idle(p)
    /\ UNCHANGED <<admin, branches, ready, flows, crashes>>

Crash(p) ==
    /\ job[p].step \notin Forms /\ crashes < MaxCrashes
    /\ crashes' = crashes + 1 /\ Idle(p)
    /\ UNCHANGED <<store, trees, admin, branches, ready, flows, adrift>>

Next ==
    \/ Commit
    \/ \E p \in Proc :
       \/ \E kind \in {"member", "edit", "destroy"}, s \in Session : Load(p, kind, s)
       \/ Cancel(p) \/ EditMember(p) \/ RemoveMember(p) \/ CreateInForm(p) \/ CreateByCommand(p) \/ Add(p)
       \/ EditCluster(p) \/ Move(p) \/ SaveMoved(p)
       \/ DestroyConfirmed(p) \/ (\E s \in Session : DestroyByCommand(p, s)) \/ RemoveTree(p) \/ RemoveDir(p) \/ Crash(p)

Spec == Init /\ [][Next]_vars

---------------------------------------------------------------------------
(* Properties *)

\* Whatever the flows and their order, a cluster on disk can be launched: it
\* has members, its locked tags, no tag stored twice, and on no member a tag
\* that members may not carry (Cluster.__post_init__, own_build, _refused).
StoreIsSound ==
    /\ trees \subseteq Session \X Member /\ admin \subseteq Session \X Member
    /\ \A s \in Session : store[s] # None =>
          /\ Ids(store[s]) # {} /\ Ids(store[s]) \subseteq Member
          /\ Locked \subseteq store[s].tags
          /\ \A m \in Ids(store[s]) :
                /\ store[s].own[m] \cap store[s].tags = {}
                /\ store[s].own[m] \cap NotForMembers = {}

\* A process that rewrites the cluster it read changes one member's own tags,
\* or keeps those of every member whose id stays, but for the tags it made
\* common: renaming, growing and shrinking a cluster wipe nobody's edits
\* (_edit_cluster_flow, reassemble, rename).
SurvivorsKeepTheirBuild == [][
    \A s \in Session :
       /\ store[s] # None /\ store'[s] # None
       /\ \A p \in Proc : job'[p] # job[p] => job[p].read = store[s]
       => \/ /\ store'[s].tags = store[s].tags /\ Ids(store'[s]) = Ids(store[s])
             /\ \E m \in Ids(store[s]) : \A n \in Ids(store[s]) \ {m} : store'[s].own[n] = store[s].own[n]
          \/ \A m \in Ids(store[s]) \cap Ids(store'[s]) :
                store'[s].own[m] = store[s].own[m] \ store'[s].tags]_vars

\* However creations, edits, destructions and kills follow each other, git
\* knows every checkout on disk, and every worktree it knows is there, except
\* where a member was dropped or a cluster renamed (destroy, worktree.py).
GitMatchesTheDisk == trees \ adrift \subseteq admin /\ admin \ adrift \subseteq trees
=============================================================================
