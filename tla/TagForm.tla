------------------------------ MODULE TagForm -------------------------------
(***************************************************************************)
(* The full-screen tag form: gui/form_core.py (the scaffold, the checkbox  *)
(* form and its cascades) carrying the rows of gui/forms.py (engines, AIs  *)
(* with their models and effort levels, harnesses, tags), for a solo       *)
(* instance, a cluster or a cluster's member.  One form, one key press a   *)
(* step.  The row order is the display order.                              *)
(***************************************************************************)
EXTENDS Integers, Sequences, SequencesExt

CONSTANTS
    EngineSeq, AiSeq, HarnessSeq, TagSeq,   \* the registry, in display order
    ModelSeq,            \* ModelSeq[a]: the models AI a lists
    Levels,              \* Levels[m]: the effort levels m takes, weakest first
    Rated,               \* Rated[e][a]: the model and effort engine e means on AI a
    Runs,                \* Runs[h]: the AIs harness h runs
    DefaultAi, OwnHarness,
    Requires,            \* Requires[t]: the tags t is nested under
    AlwaysOn,            \* static policies
    Forbidden,           \* Forbidden[s]: tags whose forbid_on names scope s
    Imposed,             \* Imposed[s]: rows the caller passes as `locked`
    Stored,              \* the builds a form may be opened on
    Workspace, IsDir,    \* typed paths; those that are directories
    Bent,                \* Bent[w]: the legal name nearest to the last part of w, if any
    Name, Illegal, Taken,          \* typed names; those no label may be; those in use
    AgentName,
    PathField, NameField, Button,  \* the stops that are not rows
    None

Engine == ToSet(EngineSeq)
Ai == ToSet(AiSeq)
Harness == ToSet(HarnessSeq)
Tag == ToSet(TagSeq)
Model == UNION {ToSet(ModelSeq[a]) : a \in Ai}
AiOf(m) == CHOOSE a \in Ai : m \in ToSet(ModelSeq[a])
Scope == {"solo", "cluster", "member"}

\* A stored build names models of its AI, levels and harnesses that run it, or
\* what the lists no longer offer: never tags without those they require.
ASSUME ConstantsAssumption ==
    /\ DefaultAi \in Ai
    /\ \A a \in Ai : a \in Runs[OwnHarness[a]]
    /\ \A e \in Engine, a \in Ai : Rated[e][a].model \in ToSet(ModelSeq[a])
    /\ \A s \in Scope : Imposed[s] \cap AlwaysOn = {}
    /\ \A b \in Stored : b.scope \in Scope /\ b.engine \in Engine
          /\ \A t \in b.tags : Requires[t] \subseteq b.tags

VARIABLES
    opened,     \* the stored build, its scope, the name an edit arrived with
    on,         \* keys of the checked rows
    pick,       \* pick[r]: the value of an effort row, None for its default
    cursor,     \* position among the stops
    field,      \* the two text fields, and whether the name was edited
    mode,       \* "editing", "asked", "confirmed" or "cancelled"
    result      \* what the form returned

vars == <<opened, on, pick, cursor, field, mode, result>>

-----------------------------------------------------------------------------
\* The rows.  A bullet is the follow row or a model row under an AI.
Follow(a) == <<a, "follow">>
Effort(b) == <<b, "effort">>
AiRows(a) == <<a, Follow(a), Effort(Follow(a))>>
    \o FlattenSeq([i \in DOMAIN ModelSeq[a] |-> <<ModelSeq[a][i], Effort(ModelSeq[a][i])>>])
RowsOf == [s \in Scope |->
    (IF s = "cluster" THEN <<>>
     ELSE EngineSeq \o FlattenSeq([i \in DOMAIN AiSeq |-> AiRows(AiSeq[i])]) \o HarnessSeq) \o TagSeq]
Rows == RowsOf[opened.scope]

Bullet(a) == {Follow(a)} \cup ToSet(ModelSeq[a])
Bullets == UNION {Bullet(a) : a \in Ai}
OwnerOf(b) == CHOOSE a \in Ai : b \in Bullet(a)
EffortRows == {Effort(b) : b \in Bullets}
Groups == {Engine, Ai, Bullets, Harness}
RivalsOf(k) == UNION {g \ {k} : g \in {g \in Groups : k \in g}}

\* _form_requires: tags by the tree, bullets by their AI.
RequiresOf(k) == IF k \in Tag THEN Requires[k] ELSE IF k \in Bullets THEN {OwnerOf(k)} ELSE {}

RECURSIVE Closure(_, _)
Closure(todo, seen) ==
    LET deps == UNION {RequiresOf(k) : k \in todo} \ seen
    IN IF deps = {} THEN seen ELSE Closure(deps, seen \cup deps)
ClosureOf == [k \in Engine \cup Ai \cup Bullets \cup Harness \cup Tag \cup EffortRows |-> Closure({k}, {})]

LockedIn(s) == AlwaysOn \cup Imposed[s] \cup Forbidden[s]

\* What the dotted engine means for a bullet: the levels offered, the default.
Dotted(keys, set) == IF keys \cap set = {} THEN None ELSE CHOOSE k \in keys \cap set : TRUE
RunningModel(b, keys) ==
    IF b \in Model THEN b
    ELSE IF Dotted(keys, Engine) = None THEN None ELSE Rated[Dotted(keys, Engine)][OwnerOf(b)].model
Offered(b, keys) == IF RunningModel(b, keys) = None THEN <<>> ELSE Levels[RunningModel(b, keys)]
Top(m) == IF Levels[m] = <<>> THEN None ELSE Levels[m][Len(Levels[m])]
DefaultLevel(b, keys) ==
    IF b \in Model THEN Top(b)
    ELSE IF Dotted(keys, Engine) = None THEN None ELSE Rated[Dotted(keys, Engine)][OwnerOf(b)].effort

-----------------------------------------------------------------------------
\* Variant of DependentsOf: unchecking a row leaves the rows nested under it checked.
DependentsStay(k, keys) == {}
\* The checked rows that cannot stay once k is unchecked.
DependentsOf(k, keys) == {r \in keys : k \in ClosureOf[r]}

\* Variant of PairsWith: moving the engine's dot leaves the model alone.
PairsWithAi(k, keys) == {a \in Ai \cap keys : k = a /\ keys \cap Engine # {}}
\* _model_defaults: the AIs whose (engine, AI) pair the checked row k completes.
PairsWith(k, keys) == {a \in Ai \cap keys : k \in (Engine \cap keys) \cup {a} /\ keys \cap Engine # {}}

\* set_checked: the one way a row changes.  st holds the checked rows and the picks.
\* Each loop runs over the rows it still has something to do for.
RECURSIVE SetChecked(_, _, _, _)
SetChecked(st, s, k, value) ==
    LET Each(Step(_, _), from, rows) == FoldLeft(Step, from, SelectSeq(RowsOf[s], LAMBDA r : r \in rows))
        Check(t, r) == SetChecked(t, s, r, TRUE)
        Uncheck(t, r) == SetChecked(t, s, r, FALSE)
        \* a complete (engine, AI) pair dots that AI's follow bullet, pick cleared
        Default(t, a) == LET u == Check(t, Follow(a)) IN [u EXCEPT !.pick[Effort(Follow(a))] = None]
    IN IF k \in LockedIn(s) \/ (k \in st.on) = value THEN st
       ELSE IF value
       THEN LET alone == Each(Uncheck, [st EXCEPT !.on = @ \cup {k}], RivalsOf(k) \cap st.on)
                closed == Each(Check, alone, ClosureOf[k] \ alone.on)
            IN Each(Default, closed, PairsWith(k, closed.on))
       ELSE Each(Uncheck, [st EXCEPT !.on = @ \ {k}], DependentsOf(k, st.on))

\* reconcile_choices: a pick its list no longer offers returns to the default.
Reconciled(st) ==
    [st EXCEPT !.pick = [r \in EffortRows |->
        IF st.pick[r] \in ToSet(Offered(r[1], st.on)) THEN st.pick[r] ELSE None]]

\* toggle: Space on a row.
Toggled(st, s, k) ==
    IF k \in EffortRows \/ (k \in st.on /\ \E g \in Groups : k \in g) THEN st
    ELSE Reconciled(SetChecked(st, s, k, k \notin st.on))

\* shift: an arrow on an effort row, stopping at the ends.
Shifted(st, r, delta) ==
    LET values == Offered(r[1], st.on)
        default == DefaultLevel(r[1], st.on)
        current == IF st.pick[r] # None THEN st.pick[r] ELSE default
        at == IF current \in ToSet(values) THEN CHOOSE i \in DOMAIN values : values[i] = current ELSE 1
        to == IF at + delta < 1 THEN 1 ELSE IF at + delta > Len(values) THEN Len(values) ELSE at + delta
    IN IF values = <<>> THEN st
       ELSE [st EXCEPT !.pick[r] = IF values[to] = default THEN None ELSE values[to]]

-----------------------------------------------------------------------------
\* The rows as the form is opened on a stored build, before the at-open passes.
EffectiveAi(b) == IF b.ai = None THEN DefaultAi ELSE b.ai
EffectiveHarness(b) == IF b.harness = None THEN OwnHarness[EffectiveAi(b)] ELSE b.harness
StartBullet(b) == IF b.model \in ToSet(ModelSeq[EffectiveAi(b)]) THEN b.model ELSE Follow(EffectiveAi(b))
TagRowChecked(b, t) ==
    /\ t \in Forbidden[b.scope] => t \in Imposed[b.scope]
    /\ t \in b.tags \cup AlwaysOn \cup Imposed[b.scope]

FirstRows(b) ==
    LET start == StartBullet(b)
        dots == IF b.scope = "cluster" THEN {}
                ELSE {b.engine, EffectiveAi(b), EffectiveHarness(b)} \cup ({start} \cap Model)
    IN [on |-> dots \cup {t \in Tag : TagRowChecked(b, t)},
        pick |-> [r \in EffortRows |-> IF b.scope # "cluster" /\ r = Effort(start) THEN b.effort ELSE None]]

\* At open an empty bullet group takes the follow row of the dotted pair.
Opening(b) ==
    LET st == FirstRows(b)
    IN Reconciled(IF b.scope # "cluster" /\ st.on \cap Bullets = {}
                  THEN SetChecked(st, b.scope, Follow(EffectiveAi(b)), TRUE) ELSE st)

HasFields(b) == b.scope = "solo"
\* suggested_label: what a path gives a name by default.
NameFor(w) == IF Bent[w] = None THEN AgentName ELSE Bent[w]
\* refresh_auto: the name follows the path until it is edited; an edit form pins it.
Refreshed(f, b) ==
    IF b.name = None /\ ~f.touched THEN [f EXCEPT !.name = NameFor(f.workspace)] ELSE f
FirstField(b) == Refreshed([workspace |-> b.workspace, name |-> b.name, touched |-> FALSE], b)

Snapshot(st, f) == <<st.on, st.pick, f.workspace, f.name>>
Now == [on |-> on, pick |-> pick]
Unchanged == Snapshot(Now, field) = Snapshot(Opening(opened), FirstField(opened))

\* The fields' complaints: an edit may keep the name it arrived with, if legal.
PathError(w) == w \notin IsDir
LabelError(n) == n \in Illegal
NameError(n) == LabelError(n) \/ (n # opened.name /\ n \in Taken)
FieldsReady(f) == HasFields(opened) => ~PathError(f.workspace) /\ ~NameError(f.name)

-----------------------------------------------------------------------------
\* The stops of the cursor: fields, rows, button.
FieldKeys == IF HasFields(opened) THEN <<PathField, NameField>> ELSE <<>>
Stops == FieldKeys \o Rows \o <<Button>>
Focused == Stops[cursor]

Shown(k, keys) ==
    CASE k \in EffortRows -> /\ Offered(k[1], keys) # <<>>
                             /\ k[1] \in keys /\ OwnerOf(k[1]) \in keys
      [] k \in Bullets -> OwnerOf(k) \in keys
      [] OTHER -> TRUE

\* reconcile: a cursor whose row folded away goes to the nearest shown stop above.
Settled(c, keys) ==
    LET above == {i \in 1..c : Shown(Stops[i], keys)}
    IN CHOOSE i \in above : \A j \in above : j <= i

\* Variant of HarnessFor: the dotted harness is stored whatever it runs.
HarnessAnyway(ai) == Dotted(on, Harness)
\* The stored harness: one that cannot run the AI gives way to the AI's own.
HarnessFor(ai) == IF ai \in Runs[Dotted(on, Harness)] THEN Dotted(on, Harness) ELSE None

\* prompt_tags: the confirmed rows as a build; prompt_cluster_tags: tags only.
PickedTags == {t \in Tag \cap on : t \notin AlwaysOn}
Build ==
    LET ai == Dotted(on, Ai)
        model == IF on \cap ToSet(ModelSeq[ai]) = {} THEN None ELSE Dotted(on, ToSet(ModelSeq[ai]))
        bullet == IF model = None THEN Follow(ai) ELSE model
        effort == IF model # None /\ pick[Effort(bullet)] = None THEN Top(model) ELSE pick[Effort(bullet)]
    IN [ai |-> ai, engine |-> Dotted(on, Engine), model |-> model, effort |-> effort, tags |-> PickedTags,
        harness |-> HarnessFor(ai)]
ClusterBuild == [ai |-> None, engine |-> None, model |-> None, effort |-> None, harness |-> None,
                 tags |-> PickedTags]

-----------------------------------------------------------------------------
Init ==
    /\ opened \in Stored
    /\ LET st == Opening(opened) IN on = st.on /\ pick = st.pick
    /\ field = FirstField(opened)
    /\ cursor = 1 /\ mode = "editing" /\ result = None

\* Up and Down: the next shown stop, wrapping.
Move(delta) ==
    /\ mode = "editing"
    /\ LET n == Len(Stops)
           At(step) == ((cursor - 1 + delta * step + n * n) % n) + 1
           step == CHOOSE i \in 1..n : /\ Shown(Stops[At(i)], on)
                                       /\ \A j \in 1..(i - 1) : ~Shown(Stops[At(j)], on)
       IN cursor' = At(step)
    /\ UNCHANGED <<opened, on, pick, field, mode, result>>

\* Variant of Asks: Enter on an untouched form stores it.
AsksNever == FALSE
\* confirm_gate: a form with fields asks before it confirms no change.
Asks == HasFields(opened) /\ Unchanged

\* confirm_gate.confirm, from Enter anywhere or Space on the button.
Confirm ==
    /\ mode = "editing"
    /\ FieldsReady(field)
    /\ IF Asks
       THEN mode' = "asked" /\ result' = result
       ELSE mode' = "confirmed" /\ result' = IF opened.scope = "cluster" THEN ClusterBuild ELSE Build
    /\ UNCHANGED <<opened, on, pick, cursor, field>>

\* Space on a row.
Toggle ==
    /\ mode = "editing"
    /\ Focused \in ToSet(Rows)
    /\ LET st == Toggled(Now, opened.scope, Focused)
       IN on' = st.on /\ pick' = st.pick /\ cursor' = Settled(cursor, st.on)
    /\ UNCHANGED <<opened, field, mode, result>>

\* Left and Right on an effort row; on any other row they do nothing.
Choose(delta) ==
    /\ mode = "editing"
    /\ Focused \in EffortRows
    /\ pick' = Shifted(Now, Focused, delta).pick
    /\ UNCHANGED <<opened, on, cursor, field, mode, result>>

\* A character typed or erased in a field.
Edit ==
    /\ mode = "editing"
    /\ \/ /\ Focused = PathField
          /\ \E w \in Workspace : field' = Refreshed([field EXCEPT !.workspace = w], opened)
       \/ /\ Focused = NameField
          /\ \E n \in Name : field' = [field EXCEPT !.name = n, !.touched = TRUE]
    /\ UNCHANGED <<opened, on, pick, cursor, mode, result>>

\* The key after the really-done? question is its answer, whatever it is.
Answer(yes) ==
    /\ mode = "asked"
    /\ IF yes THEN mode' = "confirmed" /\ result' = Build
              ELSE mode' = "editing" /\ result' = result
    /\ UNCHANGED <<opened, on, pick, cursor, field>>

Cancel ==
    /\ mode = "editing"
    /\ mode' = "cancelled"
    /\ UNCHANGED <<opened, on, pick, cursor, field, result>>

Next ==
    \/ \E delta \in {-1, 1} : Move(delta) \/ Choose(delta)
    \/ Toggle \/ Edit \/ Confirm \/ Cancel
    \/ \E yes \in BOOLEAN : Answer(yes)

Spec == Init /\ [][Next]_vars

-----------------------------------------------------------------------------
TypeOK ==
    /\ opened \in Stored
    /\ on \subseteq ToSet(Rows) \ EffortRows
    /\ DOMAIN pick = EffortRows
    /\ cursor \in 1..Len(Stops)
    /\ field.workspace \in Workspace /\ field.name \in Name /\ field.touched \in BOOLEAN
    /\ mode \in {"editing", "asked", "confirmed", "cancelled"}

\* A cascade leaves no half-set form: one dot in every radio group, a bullet of
\* the dotted AI, every checked row with the rows it requires, locked rows as the
\* form was opened, picks their lists offer, the cursor on a row that is drawn.
FormConsistent ==
    /\ TypeOK
    /\ opened.scope # "cluster" => \A g \in Groups : \E k \in g : on \cap g = {k}
    /\ \A k \in on : ClosureOf[k] \subseteq on
    /\ on \cap LockedIn(opened.scope) = Opening(opened).on \cap LockedIn(opened.scope)
    /\ \A r \in EffortRows : pick[r] \in ToSet(Offered(r[1], on)) \cup {None}
    /\ Shown(Focused, on)

\* A confirmed build can be launched as it is stored: its harness runs its AI, its
\* model is that AI's, its effort is a level of the model it runs, its tags bring
\* those they require and none that the scope forbids or that is always on.
ConfirmedBuildRuns ==
    mode = "confirmed" =>
        /\ result.tags \cap AlwaysOn = {}
        /\ result.tags \cap Forbidden[opened.scope] \subseteq Imposed[opened.scope]
        /\ \A t \in result.tags : Requires[t] \subseteq result.tags
        /\ opened.scope # "cluster" =>
              LET running == IF result.model = None THEN Rated[result.engine][result.ai].model ELSE result.model
              IN /\ result.ai \in Runs[EffectiveHarness(result)]
                 /\ AiOf(running) = result.ai
                 /\ result.effort \in ToSet(Levels[running]) \cup {None}

\* Choosing an engine or an AI selects the model: a step that moves either dot
\* leaves that AI's follow row dotted, at its default level.
EngineSelectsModel ==
    [][(on' \cap (Engine \cup Ai) # on \cap (Engine \cup Ai)) =>
        \A a \in Ai \cap on' : Follow(a) \in on' /\ pick'[Effort(Follow(a))] = None]_vars

\* What an instance runs: the effective AI, harness, model and level of a build.
RunsAs(b) ==
    LET ai == EffectiveAi(b)
        pinned == b.model \in ToSet(ModelSeq[ai])
        model == IF pinned THEN b.model ELSE Rated[b.engine][ai].model
        rated == IF pinned THEN Top(model) ELSE Rated[b.engine][ai].effort
    IN [ai |-> ai, harness |-> EffectiveHarness(b), engine |-> b.engine, model |-> model,
        effort |-> IF b.effort \in ToSet(Levels[model]) THEN b.effort ELSE rated, tags |-> b.tags]

\* Opening a form, looking and confirming changes nothing: a form with fields asks
\* first, and the build that comes back runs exactly what the stored one ran.
LookingChangesNothing ==
    [][(mode' = "confirmed" /\ mode # "confirmed" /\ Unchanged) =>
        /\ HasFields(opened) => mode = "asked"
        /\ FieldsReady(field)
        /\ opened.scope # "cluster" => RunsAs(result') = RunsAs(opened)]_vars
=============================================================================
