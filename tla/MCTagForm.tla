----------------------------- MODULE MCTagForm ------------------------------
\* TagForm on a registry with two engines, two AIs, a model without levels, a
\* harness that runs both AIs, a nested tag and one of each locked kind.
EXTENDS TagForm

CONSTANTS claude, gemini, opus, haiku, pro, thinker, quick, code, cli, open, basic, dood, clstr, nosudo, gone

MCEngineSeq == <<thinker, quick>>
MCAiSeq == <<claude, gemini>>
MCHarnessSeq == <<code, cli, open>>
MCModelSeq == [a \in {claude, gemini} |-> IF a = claude THEN <<opus, haiku>> ELSE <<pro>>]
MCLevels == [m \in {opus, haiku, pro} |->
    IF m = haiku THEN <<>> ELSE IF m = opus THEN <<"low", "high", "max">> ELSE <<"high">>]
Pair(m, e) == [model |-> m, effort |-> e]
MCRated == [e \in {thinker, quick} |-> [a \in {claude, gemini} |->
    IF a = gemini THEN Pair(pro, "high")
    ELSE IF e = quick THEN Pair(haiku, None) ELSE Pair(opus, "high")]]
MCRuns == [h \in {code, cli, open} |-> IF h = code THEN {claude} ELSE IF h = cli THEN {gemini} ELSE {claude, gemini}]
MCOwnHarness == [a \in {claude, gemini} |-> IF a = claude THEN code ELSE cli]
MCTagSeq == <<basic, dood, clstr, nosudo>>
MCRequires == [t \in {basic, dood, clstr, nosudo} |-> IF t = dood THEN {basic} ELSE {}]
MCForbidden == [s \in {"solo", "cluster", "member"} |->
    IF s = "solo" THEN {clstr} ELSE IF s = "member" THEN {dood} ELSE {}]
MCImposed == [s \in {"solo", "cluster", "member"} |-> IF s = "solo" THEN {} ELSE {clstr}]

B(scope, ai, harness, engine, model, effort, tags, name) ==
    [scope |-> scope, ai |-> ai, harness |-> harness, engine |-> engine, model |-> model,
     effort |-> effort, tags |-> tags, workspace |-> "proj", name |-> name]
MCStored ==
    {B("solo", None, None, thinker, None, None, {}, None),                 \* a new instance
     B("solo", claude, open, quick, opus, "low", {basic, dood}, "mine"),
     B("solo", gemini, None, thinker, gone, "low", {basic}, "mine"),   \* a model the list dropped
     B("member", claude, None, thinker, haiku, "high", {basic, clstr}, None),
     B("cluster", None, None, thinker, None, None, {dood, basic}, None)}
MCBent == [w \in {"proj", "..."} |-> IF w = "proj" THEN w ELSE None]
=============================================================================
