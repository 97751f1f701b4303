----------------------------- MODULE LaunchPlan -----------------------------
(***************************************************************************)
(* From a stored build to a running container.  A launcher scans the tag   *)
(* tree, resolves the builds of a unit (a solo instance, a quickie thread, *)
(* a cluster), refuses what it cannot honour, installs each agent's files  *)
(* in its state directory, builds one image, and runs one container.       *)
(* Between launches people edit builds and the tree; a launch may stop     *)
(* anywhere and leaves what it installed for the next one to replace; two  *)
(* launches can be under way, since an image build is long.                *)
(***************************************************************************)
EXTENDS Naturals, Sequences, FiniteSets, FiniteSetsExt, SequencesExt

CONSTANTS
    Launcher,
    Unit,          \* solo instances, quickie threads and clusters
    Clusters, Quickies,       \* those of Unit that are
    MembersOf,     \* MembersOf[u]: its agents, one unless it is a cluster
    Builds,        \* stored builds: [features, policies, ai, harness, engine, model, effort]
    Shared,        \* what a cluster may carry for all: [features, policies]
    Trees,         \* tag trees: [features, layers, fragments, policies, harnesses, ais, engines, files, common]
    Extras,        \* what the operator keeps: [mounts, key], key the kinds of line of the key file
    Startable,     \* harnesses whose adapter can start a container
    DefaultAi, DefaultEngine,
    MuxScript,     \* the multiplexer's script among the wrappers, which are numbered in chain order
    Nothing,       \* a build's ai, harness, engine or model left out; no container
    MaxEdits, MaxLaunches     \* bounds

\* What the files of a tree can hold, scanned or not: tags are directories, a
\* tier is a model and a level, levels are places on the AI's own scale, and the
\* multiplexer's script is the chain's last link.  Of the harnesses one can be
\* started, the default AI's; its CLI takes an effort.
Parsed(t) ==
    /\ IsFiniteSet(DOMAIN t.features) /\ \A f \in DOMAIN t.features : t.features[f].wraps \in 0 .. MuxScript
    /\ \A a \in DOMAIN t.ais : LET ai == t.ais[a] IN
        ai.scale \in Nat /\ \A s \in DOMAIN ai.tier : ai.tier[s] = <<ai.tier[s][1], ai.tier[s][2]>>
    /\ \A h \in DOMAIN t.harnesses : Nothing \notin t.harnesses[h].modes
    /\ DefaultEngine \in DOMAIN t.engines
    /\ \A h \in Startable \cap DOMAIN t.harnesses :
        t.harnesses[h].effortFlag /\ (DefaultAi \in DOMAIN t.ais => h = t.ais[DefaultAi].harness)

ASSUME LaunchAssumption ==
    /\ Clusters \subseteq Unit /\ Quickies \subseteq Unit \ Clusters /\ MaxEdits \in Nat /\ MaxLaunches \in Nat
    /\ \A u \in Unit : MembersOf[u] # {} /\ (u \notin Clusters => \A m, n \in MembersOf[u] : m = n)
    /\ \A u \in Unit : Nothing \notin MembersOf[u]
    /\ MuxScript \in Nat \ {0} /\ Nothing \notin Startable
    /\ \A t \in Trees : Parsed(t)
    /\ \A b \in Builds : b.effort \in Nat
        /\ DOMAIN b = {"features", "policies", "ai", "harness", "engine", "model", "effort"}

VARIABLES
    tree,        \* the tag tree on disk
    shared,      \* shared[u]: a cluster's own tags
    own,         \* own[u][m]: the stored build of m; a quickie's lego
    extras,      \* the operator's optional credentials and key file
    disk,        \* disk[u][m]: what is installed in m's state directory
    images,      \* the fixed policy in the image of each tag, a tag being its layers' names
    running,     \* running[u]: its container
    launch,      \* what each launcher is in the middle of
    edits, launches

launchVars == <<tree, shared, own, extras, disk, images, running, launch, edits, launches>>

NoTags == [features |-> {}, policies |-> {}]
NoLaunch == [step |-> "idle", unit |-> Nothing, plan |-> Nothing, todo |-> {}, part |-> Nothing, mounts |-> {},
             fixed |-> {}, alone |-> TRUE]
Bare == [settings |-> Nothing, commands |-> {}]

---------------------------------------------------------------------------
(* The tag tree: what a scan accepts.                                      *)

\* Specialty.scan: a specialty claims the hidden layer and the hidden policy
\* fragment of its own name.
HasLayer(t, f) == t.features[f].dockerfile \/ f \in t.layers
Fragment(t, f) == IF f \in DOMAIN t.fragments THEN {t.fragments[f]} ELSE {}

\* What reaches the container says so, and is no member's own.
Declared(f) == f.mounts # {} \/ f.wraps # 0 \/ f.readonly => "member" \in f.forbid

\* Policy.scan: a policy allows, denies or demands, and an always-on one denies.
OneStance(p) ==
    /\ Cardinality({t \in {"allow", "deny", "demand"} :
          \/ t = "allow" /\ p.allow # {}
          \/ t = "deny" /\ p.deny # {}
          \/ t = "demand" /\ p.mode # Nothing}) = 1
    /\ p.alwaysOn => p.deny # {}

\* The AIs and the harnesses that run them, both ways.
Paired(t) ==
    /\ \A a \in DOMAIN t.ais : t.ais[a].harness \in DOMAIN t.harnesses /\ a \in t.harnesses[t.ais[a].harness].runs
    /\ \A h \in DOMAIN t.harnesses : t.harnesses[h].runs \subseteq DOMAIN t.ais

\* _models: a model takes levels of its AI's scale; a tier names a listed model,
\* at a level it takes, and at none only when it takes none.
TiersRun(ai) ==
    /\ \A m \in DOMAIN ai.models : ai.models[m] \subseteq 1 .. ai.scale
    /\ \A s \in DOMAIN ai.tier : LET pair == ai.tier[s] IN
          /\ pair[1] \in DOMAIN ai.models
          /\ IF ai.models[pair[1]] = {} THEN pair[2] = 0 ELSE pair[2] \in ai.models[pair[1]]

\* _tiers: every engine asks for a standard that every AI answers.
Answered(t) == \A e \in DOMAIN t.engines, a \in DOMAIN t.ais : t.engines[e] \in DOMAIN t.ais[a].tier

\* _claimed_layer: what the harnesses claim are hidden layers.
ByHarness(t) == {t.harnesses[h].layer : h \in DOMAIN t.harnesses} \ {Nothing}
LayersExist(t) == ByHarness(t) \subseteq t.layers

\* discover_fragments: a hidden fragment holds rules or raw settings.
Substance(g) == g.raw # {} \/ g.rules.allow \cup g.rules.deny # {} \/ g.rules.mode # Nothing

\* A hidden layer is a specialty's or some harness's, never both's; a fragment
\* is a specialty's, its raw settings for harnesses there are.
Claimed(t) ==
    /\ LayersExist(t) /\ ByHarness(t) \cap DOMAIN t.features = {}
    /\ t.layers \subseteq DOMAIN t.features \cup ByHarness(t)
    /\ DOMAIN t.fragments \subseteq DOMAIN t.features
    /\ \A f \in DOMAIN t.fragments : Substance(t.fragments[f]) /\ t.fragments[f].raw \subseteq DOMAIN t.harnesses

Scans(t) ==
    /\ \A f \in DOMAIN t.features : Declared(t.features[f]) /\ t.features[f].commands \subseteq t.files
    /\ \A p \in DOMAIN t.policies : OneStance(t.policies[p])
    /\ Paired(t) /\ Answered(t) /\ Claimed(t) /\ DefaultAi \in DOMAIN t.ais /\ \A a \in DOMAIN t.ais : TiersRun(t.ais[a])
    /\ DOMAIN t.features \cap DOMAIN t.policies = {}

---------------------------------------------------------------------------
(* Builds: resolve_store_build, then resolve_build.                        *)

AlwaysOn(t) == {p \in DOMAIN t.policies : t.policies[p].alwaysOn}

\* A name that was dropped counts as none, so does one that was never given.
\* (An engine of the agent's own name comes between; here agents have none.)
AiFor(t, b) == IF b.ai \in DOMAIN t.ais THEN b.ai ELSE DefaultAi
EngineFor(t, b) == IF b.engine \in DOMAIN t.engines THEN b.engine ELSE DefaultEngine
Fits(t, b) == b.harness \in DOMAIN t.harnesses => AiFor(t, b) \in t.harnesses[b.harness].runs

\* q --ai: the lego on another AI, its harness left to that AI.
AskedBuild(b, ai) == IF ai = Nothing THEN b ELSE [b EXCEPT !.ai = ai, !.harness = Nothing]

\* Which tags may stand in a build is judged by where the build stands.
Scope(u) == IF u \in Clusters THEN "member" ELSE "solo"

\* A name that is no tag of its axis, or may not stand in this scope.
Misplaced(t, features, scope) == {f \in features \cap DOMAIN t.features : scope \in t.features[f].forbid}

Problems(t, b, scope) ==
    (b.features \ DOMAIN t.features) \cup (b.policies \ DOMAIN t.policies) \cup Misplaced(t, b.features, scope)

Dropped(t, b) ==
    ({b.ai} \ DOMAIN t.ais) \cup ({b.engine} \ DOMAIN t.engines) \cup ({b.harness} \ DOMAIN t.harnesses)
        \cup (IF Fits(t, b) THEN {} ELSE {b.harness})

Kept(t, b, scope) ==
    [features |-> (b.features \cap DOMAIN t.features) \ Misplaced(t, b.features, scope),
     policies |-> (b.policies \cap DOMAIN t.policies) \ AlwaysOn(t)]

HarnessFor(t, b) ==
    IF b.harness \in DOMAIN t.harnesses /\ Fits(t, b) THEN b.harness ELSE t.ais[AiFor(t, b)].harness

\* Model.effort_for: a pin the model does not take falls back below itself.
\* (Variant of EffortFor: it falls back to the top.)
EffortTop(pin, takes) == IF pin \in takes THEN pin ELSE Max(takes \cup {0})
EffortFor(pin, takes) ==
    LET below == {e \in takes : e <= pin} IN
    CASE takes = {} -> 0
      [] takes # {} /\ pin = 0 -> Max(takes)
      [] takes # {} /\ pin # 0 /\ below # {} -> Max(below)
      [] OTHER -> Min(takes)

Stale(t, b) == b.model # Nothing /\ b.model \notin DOMAIN t.ais[AiFor(t, b)].models
Tier(t, b) == t.ais[AiFor(t, b)].tier[t.engines[EngineFor(t, b)]]

\* Instance.model and .effort: a stale pick takes its effort down with it.
Model(t, b) == IF b.model = Nothing \/ Stale(t, b) THEN Tier(t, b)[1] ELSE b.model
Effort(t, b) ==
    IF Stale(t, b) \/ (b.model = Nothing /\ b.effort = 0) THEN Tier(t, b)[2]
    ELSE EffortFor(b.effort, t.ais[AiFor(t, b)].models[Model(t, b)])

\* member_instance: the two halves resolve apart, each in its own scope, then join.
Instance(t, u, s, b) ==
    LET common == Kept(t, s, "cluster")
        self == Kept(t, b, Scope(u)) IN
    [features |-> common.features \cup self.features, policies |-> common.policies \cup self.policies,
     harness |-> HarnessFor(t, b), model |-> Model(t, b), effort |-> Effort(t, b),
     problems |-> Problems(t, s, "cluster") \cup Problems(t, b, Scope(u)) \cup (Dropped(t, b) \ {Nothing}),
     stored |-> b]

PlanOf(u, ai) ==
    [tree |-> tree, shared |-> shared[u],
     agents |-> [m \in MembersOf[u] |-> Instance(tree, u, shared[u], AskedBuild(own[u][m], ai))]]

Features(plan) == UNION {plan.agents[m].features : m \in DOMAIN plan.agents}
Wrappers(plan) == {plan.tree.features[f].wraps : f \in Features(plan)} \ {0}

\* is_startable and validate_build; refusal_for; launching.refusal.
Refused(plan, u) ==
    \/ \E m \in MembersOf[u] : plan.agents[m].problems # {} \/ plan.agents[m].harness \notin Startable
    \/ u \in Clusters /\ ~ Wrappers(plan) \subseteq {MuxScript}

---------------------------------------------------------------------------
(* Policies: what an agent's settings are rendered from, and to.           *)

Fragments(t, features) == UNION {Fragment(t, f) : f \in features}

\* Every rule the agent's settings are rendered from.
\* (Variant of RulesFor: the selected ones only.)
RulesSelected(t, agent) == {t.policies[p] : p \in agent.policies} \cup {g.rules : g \in Fragments(t, agent.features)}
RulesFor(t, agent) ==
    {t.policies[p] : p \in AlwaysOn(t) \cup agent.policies} \cup {g.rules : g \in Fragments(t, agent.features)}

Denied(rules) == UNION {r.deny : r \in rules}
Modes(rules) == {r.mode : r \in rules} \ {Nothing}

\* PolicyMapping.render: one rule in a harness's words, and those without a row.
Rendered(h, r) ==
    [deny |-> r.deny \cap h.maps, allow |-> r.allow \cap h.maps, mode |-> {r.mode} \cap h.modes,
     unmapped |-> {<<"deny", w>> : w \in r.deny \ h.maps} \cup {<<"allow", w>> : w \in r.allow \ h.maps}
                    \cup {<<"demand", w>> : w \in {r.mode} \ (h.modes \cup {Nothing})}]
Renderings(t, agent) == {Rendered(t.harnesses[agent.harness], r) : r \in RulesFor(t, agent)}

\* _unmapped_notes: a deny or a demand without a row refuses, an allow is noted.
Unenforced(renderings) == \E x \in renderings : \E w \in x.unmapped : w[1] # "allow"

\* merge_fragments: two values for one setting.
Conflict(renderings) == Cardinality(UNION {x.mode : x \in renderings}) > 1

\* A raw fragment is for its own harnesses.
RawElsewhere(t, agent) ==
    \E g \in Fragments(t, agent.features) : g.raw # {} /\ agent.harness \notin g.raw

Unrenderable(t, agent) ==
    Unenforced(Renderings(t, agent)) \/ Conflict(Renderings(t, agent)) \/ RawElsewhere(t, agent)

Settings(t, agent) ==
    LET all == Renderings(t, agent) IN
    [deny |-> UNION {x.deny : x \in all}, allow |-> UNION {x.allow : x \in all},
     modes |-> UNION {x.mode : x \in all},
     raw |-> {g \in Fragments(t, agent.features) : g.raw # {}}]

\* install_commands: the common ones and those the agent's tags grant.
Granted(t, agent) == UNION {t.features[f].commands : f \in agent.features}
Commands(t, agent) == t.common \cup Granted(t, agent)
Shadowing(t, agent) == Granted(t, agent) \cap t.common # {}

---------------------------------------------------------------------------
(* The image: ensure_image over Instance.build_steps and the staged env.   *)

\* A cluster's image is the union's, which names no AI: in the default one's harness.
ImageHarness(u, plan) ==
    IF u \in Clusters THEN plan.tree.ais[DefaultAi].harness ELSE plan.agents[CHOOSE m \in MembersOf[u] : TRUE].harness

\* Every agent's layers, then the harness's.
\* (Variant of Layers: those of all agents alike.)
LayersInCommon(u, plan) ==
    {f \in Features(plan) : HasLayer(plan.tree, f) /\ \A m \in DOMAIN plan.agents : f \in plan.agents[m].features}
        \cup ({ImageHarness(u, plan), plan.tree.harnesses[ImageHarness(u, plan)].layer} \ {Nothing})
Layers(u, plan) ==
    {f \in Features(plan) : HasLayer(plan.tree, f)}
        \cup ({ImageHarness(u, plan), plan.tree.harnesses[ImageHarness(u, plan)].layer} \ {Nothing})

\* fixed_policy: what the image carries for every agent in it.
Fixed(u, plan) ==
    (UNION {plan.tree.policies[p].deny : p \in AlwaysOn(plan.tree)}) \cap plan.tree.harnesses[ImageHarness(u, plan)].maps
FixedRefused(u, plan) ==
    ~ UNION {plan.tree.policies[p].deny : p \in AlwaysOn(plan.tree)} \subseteq plan.tree.harnesses[ImageHarness(u, plan)].maps

\* What the container is told to run: the wrappers in chain order, each given
\* the rest, and the agent last, inside the multiplexer's script when there is
\* one.  A cluster runs its generated script.
AgentLink == 0
InOrder(W) == [i \in 1 .. Cardinality(W) |-> CHOOSE w \in W : Cardinality({v \in W : v < w}) = i - 1]
Chain(u, plan) ==
    IF u \in Clusters THEN <<MuxScript>>
    ELSE InOrder(Wrappers(plan)) \o (IF MuxScript \in Wrappers(plan) THEN <<>> ELSE <<AgentLink>>)

---------------------------------------------------------------------------
(* Mounts, <<source, target, mode>>: add_docker_mount and who calls it.    *)

Collide(mounts) == \E x, y \in mounts : x # y /\ x[2] = y[2]
TagMounts(plan) == UNION {plan.tree.features[f].mounts : f \in Features(plan)}

\* The one workspace mount of the container.
ReadOnly(plan) == \E f \in Features(plan) : plan.tree.features[f].readonly
Workspace(plan) == <<<<"workspace">>, <<"/workspace">>, IF ReadOnly(plan) THEN "ro" ELSE "rw">>

AgentMounts(u, m) ==
    {<<<<kind, u, m>>, <<kind, m>>, "ro">> : kind \in {"settings", "commands"}} \cup {<<<<"login">>, <<"login", m>>, "rw">>}

\* optional_creds_mounts: what the operator keeps, for every instance and
\* cluster alike; a quickie gets none.
OptionalCreds(u) == IF u \in Quickies THEN {} ELSE extras.mounts

\* key_file_problems: a key file holds its one variable, as docker reads it.
Misread(key) == key # {} /\ key # {"value"}

\* stage_credentials: a key file docker would misread is refused.
CredentialsRefused == Misread(extras.key)

\* effort_args: not every CLI has a flag for it.
EffortArg(t, agent) == IF t.harnesses[agent.harness].effortFlag THEN agent.effort ELSE 0

\* launch_plan.build: every agent is started by a command line of its own.
CommandLines(u, plan) == [m \in MembersOf[u] |-> EffortArg(plan.tree, plan.agents[m])]

---------------------------------------------------------------------------
(* Steps.                                                                  *)

LaunchInit ==
    /\ tree \in Trees /\ extras \in Extras
    /\ shared \in [Unit -> Shared] /\ \A u \in Unit \ Clusters : shared[u] = NoTags
    /\ \E b \in Builds : own = [u \in Unit |-> [m \in MembersOf[u] |-> b]]
    /\ disk = [u \in Unit |-> [m \in MembersOf[u] |-> Bare]]
    /\ images = [tag \in {} |-> {}]
    /\ running = [u \in Unit |-> Nothing]
    /\ launch = [l \in Launcher |-> NoLaunch] /\ edits = 0 /\ launches = 0

StandsAt(l, step) == launch[l].step = step
GoesOn(l, L) == launch' = [launch EXCEPT ![l] = L]
Exit(l) == GoesOn(l, NoLaunch)

\* F2 in a picker, or an editor on the tree.
Edit ==
    /\ edits < MaxEdits /\ edits' = edits + 1
    /\ \/ \E u \in Unit, m \in UNION {MembersOf[v] : v \in Unit}, b \in Builds :
            /\ m \in MembersOf[u] /\ own' = [own EXCEPT ![u][m] = b] /\ UNCHANGED <<tree, shared>>
       \/ \E u \in Clusters, s \in Shared : shared' = [shared EXCEPT ![u] = s] /\ UNCHANGED <<tree, own>>
       \/ \E t \in Trees : tree' = t /\ UNCHANGED <<shared, own>>
    /\ UNCHANGED <<extras, disk, images, running, launch, launches>>

Picked(l, u, ai) ==
    /\ StandsAt(l, "idle") /\ launches < MaxLaunches /\ Scans(tree)
    /\ launches' = launches + 1
    /\ GoesOn(l, [NoLaunch EXCEPT !.step = "picked", !.unit = u, !.plan = PlanOf(u, ai), !.todo = MembersOf[u]])
    /\ UNCHANGED <<tree, shared, own, extras, disk, images, running, edits>>

\* gather_input: scan_all, then a pick.
Begin(l, u) == u \notin Quickies /\ Picked(l, u, Nothing)

\* q: a thread, new or resumed, on the lego's AI or another.
Ask(l, u) == u \in Quickies /\ \E ai \in DOMAIN tree.ais \cup {Nothing} : Picked(l, u, ai)

\* running_instance_report, running_cluster_report: docker is asked once more;
\* a quickie does not look whether its thread is being answered.
AlreadyRunning(u) == running[u] # Nothing /\ u \notin Quickies

\* set_container_env: what the image carries for every agent, for the build.
EnvStaged(L) == [L EXCEPT !.fixed = Fixed(L.unit, L.plan)]

\* Everything that is refused before anything is written, then apply_tags.  A
\* cluster's environment comes before its members are staged, a solo one's after.
Check(l) ==
    LET L == launch[l]
        tagged == [L EXCEPT !.step = "stage", !.mounts = TagMounts(L.plan)]
        envFirst == L.unit \in Clusters IN
    /\ StandsAt(l, "picked")
    /\ IF Refused(L.plan, L.unit) \/ Collide(TagMounts(L.plan)) \/ AlreadyRunning(L.unit)
            \/ (envFirst /\ FixedRefused(L.unit, L.plan))
       THEN Exit(l)
       ELSE GoesOn(l, IF envFirst THEN EnvStaged(tagged) ELSE tagged)
    /\ UNCHANGED <<tree, shared, own, extras, disk, images, running, edits, launches>>

\* Writing in a state directory ends the solitude of the other launches of the unit.
Others(l) == {k \in Launcher \ {l} : launch[k].step # "idle" /\ launch[k].unit = launch[l].unit}
Disturb(l, L) ==
    launch' = [k \in Launcher |->
        IF k = l THEN [L EXCEPT !.alone = (L = NoLaunch) \/ (@ /\ Others(l) = {} /\ running[L.unit] = Nothing)]
        ELSE IF k \in Others(l) THEN [launch[k] EXCEPT !.alone = FALSE] ELSE launch[k]]

\* stage_instance, one file after the other; settings.json is replaced, so a
\* container that has it mounted keeps the old one.
InstallSettings(l, m) ==
    LET L == launch[l]
        agent == L.plan.agents[m] IN
    /\ StandsAt(l, "stage") /\ m \in L.todo /\ L.part = Nothing
    /\ IF Unrenderable(L.plan.tree, agent) THEN Exit(l) /\ UNCHANGED <<disk, running>>
       ELSE /\ disk' = [disk EXCEPT ![L.unit][m].settings = Settings(L.plan.tree, agent)]
            /\ Disturb(l, [L EXCEPT !.part = m])
            /\ running' = IF running[L.unit] = Nothing THEN running
                          ELSE [running EXCEPT ![L.unit].alone = FALSE]
    /\ UNCHANGED <<tree, shared, own, extras, images, edits, launches>>

\* The commands directory is removed and made again: a container that has it
\* mounted is left with an empty one, and so is the agent when a tag's command
\* has the name of a common one.
InstallCommands(l, m) ==
    LET L == launch[l]
        agent == L.plan.agents[m]
        mounts == L.mounts \cup AgentMounts(L.unit, m)
        todo == L.todo \ {m} IN
    /\ StandsAt(l, "stage") /\ m \in L.todo /\ L.part = m
    /\ disk' = [disk EXCEPT ![L.unit][m].commands =
                    IF Shadowing(L.plan.tree, agent) THEN {} ELSE Commands(L.plan.tree, agent)]
    /\ Disturb(l, IF Shadowing(L.plan.tree, agent) \/ CredentialsRefused \/ Collide(mounts) THEN NoLaunch
                  ELSE [L EXCEPT !.part = Nothing, !.todo = todo, !.mounts = mounts,
                                 !.step = IF todo = {} THEN "mounts" ELSE "stage"])
    /\ running' = IF running[L.unit] = Nothing THEN running
                  ELSE [running EXCEPT ![L.unit].alone = FALSE, ![L.unit].commands[m] = {}]
    /\ UNCHANGED <<tree, shared, own, extras, images, edits, launches>>

\* A solo launch's set_container_env; the workspace; the operator's own, last.
Mounts(l) ==
    LET L == launch[l]
        envNow == L.unit \notin Clusters
        all == L.mounts \cup {Workspace(L.plan)} \cup OptionalCreds(L.unit) IN
    /\ StandsAt(l, "mounts")
    /\ IF (envNow /\ FixedRefused(L.unit, L.plan)) \/ Collide(all) THEN Exit(l)
       ELSE GoesOn(l, [(IF envNow THEN EnvStaged(L) ELSE L) EXCEPT !.step = "build", !.mounts = all])
    /\ UNCHANGED <<tree, shared, own, extras, disk, images, running, edits, launches>>

\* ensure_image: the tag now names this build, for a launch that built it
\* before and has not run yet as well.
ImagesWith(tag, fixed) ==
    [x \in DOMAIN images \cup {tag} |-> IF x = tag THEN fixed ELSE images[x]]

Build(l) ==
    LET L == launch[l]
        tag == Layers(L.unit, L.plan) IN
    /\ StandsAt(l, "build")
    /\ images' = ImagesWith(tag, L.fixed)
    /\ launch' = [k \in Launcher |->
          IF k = l THEN [L EXCEPT !.step = "run"]
          ELSE IF launch[k].step = "run" /\ Layers(launch[k].unit, launch[k].plan) = tag
               THEN [launch[k] EXCEPT !.alone = FALSE] ELSE launch[k]]
    /\ UNCHANGED <<tree, shared, own, extras, disk, running, edits, launches>>

\* What docker is told to run.
Container(l) ==
    LET L == launch[l]
        u == L.unit
        tag == Layers(u, L.plan) IN
    [plan |-> L.plan, mounts |-> L.mounts, layers |-> tag, fixed |-> images[tag],
     chain |-> Chain(u, L.plan), key |-> extras.key,
     settings |-> [m \in MembersOf[u] |-> disk[u][m].settings],
     commands |-> [m \in MembersOf[u] |-> disk[u][m].commands],
     effort |-> CommandLines(u, L.plan), alone |-> L.alone]

\* docker run --name: refused when the name is taken.
RunNamed(l) ==
    /\ StandsAt(l, "run")
    /\ running' = [running EXCEPT ![launch[l].unit] = IF @ = Nothing THEN Container(l) ELSE @]
    /\ Exit(l)
    /\ UNCHANGED <<tree, shared, own, extras, disk, images, edits, launches>>

Run(l) == launch[l].unit \notin Clusters /\ RunNamed(l)
RunCluster(l) == launch[l].unit \in Clusters /\ RunNamed(l)

\* Ctrl-C, docker, a build that fails, no docker group: anywhere.
Stop(l) ==
    /\ launch[l].step # "idle" /\ Exit(l)
    /\ UNCHANGED <<tree, shared, own, extras, disk, images, running, edits, launches>>

End(u) ==
    /\ running[u] # Nothing /\ running' = [running EXCEPT ![u] = Nothing]
    /\ UNCHANGED <<tree, shared, own, extras, disk, images, launch, edits, launches>>

LaunchNext ==
    \/ Edit
    \/ \E u \in Unit : End(u)
    \/ \E l \in Launcher :
          \/ \E u \in Unit : Begin(l, u) \/ Ask(l, u)
          \/ Check(l) \/ Mounts(l) \/ Build(l) \/ Run(l) \/ RunCluster(l) \/ Stop(l)
          \/ \E m \in launch[l].todo : InstallSettings(l, m) \/ InstallCommands(l, m)

LaunchSpec == LaunchInit /\ [][LaunchNext]_launchVars

---------------------------------------------------------------------------
(* Properties *)

Up == {u \in Unit : running[u] # Nothing}

\* What the builds of member m say, every name as it was stored.
PoliciesOf(plan, m) == (plan.agents[m].stored.policies \cup plan.shared.policies) \cup AlwaysOn(plan.tree)

TagsOf(plan, m) == plan.agents[m].stored.features \cup plan.shared.features

RulesOf(plan, m) ==
    {plan.tree.policies[p] : p \in PoliciesOf(plan, m)}
        \cup {g.rules : g \in Fragments(plan.tree, TagsOf(plan, m))}

\* No rule of a build evaporates: whatever its tree and its build say, an agent
\* that runs has, in the settings its CLI reads, every deny and the demanded
\* mode of every always-on policy, selected policy and claimed fragment, and
\* its image every always-on deny of the tree it was launched from, not of an
\* earlier one; it names no tag that was dropped; or it was refused.  Unless
\* another launch wrote the same files, or moved the image's tag, meanwhile
\* (install_settings, _unmapped_notes, fixed_policy, ensure_image).
NothingEvaporates ==
    \A u \in Up : LET c == running[u] IN
        /\ c.alone => c.fixed = UNION {c.plan.tree.policies[p].deny : p \in AlwaysOn(c.plan.tree)}
        /\ \A m \in MembersOf[u] :
            /\ PoliciesOf(c.plan, m) \subseteq DOMAIN c.plan.tree.policies
            /\ TagsOf(c.plan, m) \subseteq DOMAIN c.plan.tree.features
            /\ c.alone => /\ Denied(RulesOf(c.plan, m)) \subseteq c.settings[m].deny
                          /\ Modes(RulesOf(c.plan, m)) = c.settings[m].modes

\* What a container has is what its agents' builds say, of this launch and no
\* earlier one: one source for each target, a workspace that is read-only when
\* a tag asks, a layer for every agent's tags and for the CLI it runs in, the
\* agent behind every wrapper, each agent's commands and no others, a key file
\* docker reads as it is meant, and no mechanism of the whole container that
\* one member brought in alone (add_docker_mount, set_container_mounts,
\* _union_probe, entrypoint_chain, install_commands, preflight_key_file).
ContainerIsItsBuild ==
    \A u \in Up : LET c == running[u]
                      t == c.plan.tree IN
        /\ ~Collide(c.mounts) /\ ~Misread(c.key)
        /\ c.chain[Len(c.chain)] \in {AgentLink, MuxScript} /\ Wrappers(c.plan) \subseteq ToSet(c.chain)
        /\ \A m \in MembersOf[u] :
            /\ c.plan.agents[m].harness \in c.layers
            /\ \A f \in c.plan.agents[m].features :
                /\ HasLayer(t, f) => f \in c.layers
                /\ t.features[f].mounts \subseteq c.mounts
                /\ t.features[f].readonly => <<<<"workspace">>, <<"/workspace">>, "ro">> \in c.mounts
                /\ u \in Clusters /\ (t.features[f].mounts # {} \/ t.features[f].readonly \/ t.features[f].wraps # 0)
                      => f \in c.plan.shared.features
        /\ c.alone => \A m \in MembersOf[u] :
              c.commands[m] = t.common \cup UNION {t.features[f].commands :
                                  f \in c.plan.agents[m].stored.features \cup c.plan.shared.features}

\* The model and the effort an agent runs with can go together, follow the
\* engine's pair when the stored model is gone, and a level kept low is never
\* raised unless the model takes nothing that low, and then by as little as it
\* can be (Instance.effort, Model.effort_for, effort_args).
RunsAsRated ==
    \A u \in Up : \A m \in MembersOf[u] :
        LET t == running[u].plan.tree
            a == running[u].plan.agents[m]
            effort == running[u].effort[m]
            b == a.stored
            takes == t.ais[AiFor(t, b)].models[a.model] IN
        /\ effort \in takes \cup {0} /\ (effort = 0 => takes = {})
        /\ (b.model # Nothing /\ b.model # a.model) => <<a.model, effort>> = Tier(t, b)
        /\ b.effort # 0 /\ b.model = a.model /\ effort > b.effort => \A e \in takes : e >= effort
=============================================================================
