---------------------------- MODULE MCLaunchPlan ----------------------------
\* A solo instance, a quickie and a cluster of two; a sound tree, and trees as
\* edited.
EXTENDS LaunchPlan, TLC

CONSTANTS solo, ask, crew, golem, sage, cc, gem, claude, gemini, best, top, old, big, mid, small, node,
          write, git, sudo, planMode, freeMode, l1, l2

Rule(allow, deny, mode, on) == [allow |-> allow, deny |-> deny, mode |-> mode, alwaysOn |-> on]
Plain == [forbid |-> {}, mounts |-> {}, wraps |-> 0, readonly |-> FALSE, dockerfile |-> FALSE, commands |-> {}]

TheFeatures ==
    ("dood" :> [Plain EXCEPT !.forbid = {"member"}, !.mounts = {<<<<"sock">>, <<"/sock">>, "rw">>}])
    @@ ("frozen" :> [Plain EXCEPT !.forbid = {"member"}, !.readonly = TRUE])
    @@ ("code" :> [Plain EXCEPT !.dockerfile = TRUE, !.commands = {"review"}])
    @@ ("frwl" :> [Plain EXCEPT !.forbid = {"member", "cluster"}, !.wraps = 1])
    @@ ("mux" :> [Plain EXCEPT !.forbid = {"member"}, !.wraps = 2])
    @@ ("auto" :> Plain)
TheFragments ==
    ("frozen" :> [rules |-> Rule({}, {write}, Nothing, FALSE), raw |-> {}])
    @@ ("auto" :> [rules |-> Rule({}, {}, freeMode, FALSE), raw |-> {cc}])
ThePolicies ==
    ("nosudo" :> Rule({}, {sudo}, Nothing, TRUE)) @@ ("nogit" :> Rule({}, {git}, Nothing, FALSE))
    @@ ("plan" :> Rule({}, {}, planMode, FALSE))
TheHarnesses ==
    (cc :> [runs |-> {claude}, maps |-> {write, git, sudo}, modes |-> {planMode, freeMode}, layer |-> node, effortFlag |-> TRUE])
    @@ (gem :> [runs |-> {claude, gemini}, maps |-> {write, git, sudo}, modes |-> {planMode}, layer |-> node, effortFlag |-> FALSE])
TheAis ==
    (claude :> [harness |-> cc, scale |-> 3, models |-> (big :> {1, 3}) @@ (mid :> {2, 3}) @@ (small :> {}), tier |-> top :> <<small, 0>>])
    @@ (gemini :> [harness |-> gem, scale |-> 0, models |-> (small :> {}), tier |-> top :> <<small, 0>>])

Sound == [features |-> TheFeatures, layers |-> {"dood", node}, fragments |-> TheFragments, policies |-> ThePolicies,
          harnesses |-> TheHarnesses, ais |-> TheAis, engines |-> best :> top, files |-> {"review"}, common |-> {"note"}]
MCTrees == {
    Sound,
    [Sound EXCEPT !.harnesses[cc].maps = {write, sudo}],
    [Sound EXCEPT !.features["frozen"].forbid = {}],
    [Sound EXCEPT !.common = {"review"}],
    [Sound EXCEPT !.policies = [p \in {"nosudo", "plan"} |->
                                  IF p = "nosudo" THEN Rule({}, {sudo, write}, Nothing, TRUE) ELSE ThePolicies[p]]]}

B(features, policies, harness, model, effort) ==
    [features |-> features, policies |-> policies, ai |-> Nothing, harness |-> harness,
     engine |-> best, model |-> model, effort |-> effort]
MCBuilds == {
    B({"code"}, {"nogit"}, Nothing, mid, 1),
    B({"frozen", "mux", "frwl"}, {"nosudo"}, cc, big, 2),
    B({"auto"}, {}, cc, old, 3),
    [B({"dood"}, {}, Nothing, Nothing, 0) EXCEPT !.engine = Nothing]}
MCShared == {[features |-> {}, policies |-> {}], [features |-> {"dood", "frozen", "mux"}, policies |-> {"plan"}]}
MCExtras == {
    [mounts |-> {<<<<"dot">>, <<"/dot">>, "rw">>}, key |-> {"value"}],
    [mounts |-> {<<<<"home">>, <<"/sock">>, "rw">>}, key |-> {}],
    [mounts |-> {}, key |-> {"value", "quoted"}]}
MCMembersOf == (solo :> {golem}) @@ (ask :> {golem}) @@ (crew :> {golem, sage})
MCSymmetry == Permutations(Launcher)
=============================================================================
