---------------------------- MODULE InstanceStore ----------------------------
(***************************************************************************)
(* The instances of one agent on a host: a state directory each            *)
(* (instances/<agent>__<session>), an entry each in instances.toml, a      *)
(* container each while it runs.  Any number of launchers (run.py) list    *)
(* them in a picker, edit, delete, create and launch them.  instances.toml *)
(* is read whole, changed and replaced whole, without a lock.              *)
(***************************************************************************)
EXTENDS Naturals, FiniteSets

CONSTANTS
    Launcher,
    Id,            \* <agent>__<session>
    Conv,          \* what a state directory holds: the conversation it was made for
    Build,         \* tag selections with their workspace
    Lego,          \* the agent's own defaults
    Overlap,       \* "pickers": one operation at a time on the host, menus may stand
                   \* open beside it; "operations": anything goes
    Silent,        \* {TRUE, FALSE} when docker may leave a probe unanswered, else {FALSE}
    MaxCrashes,    \* bound
    NoDir, NoEntry, NoRow, Nobody

ASSUME ConstantsAssumption ==
    /\ Lego \in Build /\ Overlap \in {"pickers", "operations"} /\ Silent \subseteq BOOLEAN /\ MaxCrashes \in Nat
    /\ NoDir \notin Conv /\ Nobody \notin Conv /\ NoEntry \notin Build /\ NoRow \notin Build

VARIABLES
    dirs,       \* dirs[i]: the state directory of i
    table,      \* instances.toml
    running,    \* running[i]: what the container named after i has mounted
    pc,         \* the place of each launcher
    menu,       \* menu[l]: the rows of its picker, and those it shows as running
    op,         \* op[l]: the operation it was told to do
    copy,       \* copy[l]: instances.toml as it read it
    crashes,
    meant,      \* meant[c]: the build c was last given, by a launch or an edit
    torn,       \* conversations a crash left between their directory and their entry
    unseen      \* unseen[l]: containers that l's menu cannot know of

vars == <<dirs, table, running, pc, menu, op, copy, crashes, meant, torn, unseen>>

OnDisk == {dirs[i] : i \in Id} \ {NoDir}
Busy == {"remove", "move", "probe", "load", "save", "stage", "run"}
NoOp == [kind |-> "none", old |-> Nobody, new |-> Nobody, build |-> Lego]
NoMenu == [rows |-> [i \in Id |-> NoRow], up |-> {}]

\* A host may hold directories from before the store was kept.
Init ==
    /\ dirs \in [Id -> Conv \cup {NoDir}]
    /\ \A i, j \in Id : dirs[i] = dirs[j] /\ dirs[i] \in Conv => i = j
    /\ table = [i \in Id |-> NoEntry]
    /\ running = [i \in Id |-> Nobody]
    /\ pc = [l \in Launcher |-> "off"] /\ menu = [l \in Launcher |-> NoMenu]
    /\ op = [l \in Launcher |-> NoOp]
    /\ copy = [l \in Launcher |-> [i \in Id |-> NoEntry]]
    /\ crashes = 0 /\ torn = {} /\ unseen = [l \in Launcher |-> {}]
    /\ meant = [c \in Conv |-> Lego]

\* instance_from_store: the entry, or the agent's defaults where there is none.
OpensAs(i) == IF table[i] = NoEntry THEN Lego ELSE table[i]

\* Variant of Taken: a name without an entry is free.
TakenInStore(j) == table[j] # NoEntry
\* path_exists(state_dir), asked by the form and again by modify_instance.
Taken(j) == dirs[j] # NoDir

\* The order of operations on a host: up to its users, nothing enforces it.
MayAct(l) == Overlap = "operations" \/ \A o \in Launcher \ {l} : pc[o] \notin Busy

\* docker ps: the names in use, or no answer.
Containers == {i \in Id : running[i] # Nobody}

\* docker stop: whatever has that name now; --rm removes it.  It may fail.
Stopped(i) == running' = [running EXCEPT ![i] = Nobody] \/ UNCHANGED running

-----------------------------------------------------------------------------
\* The picker: one docker ps and one listing per menu.  Docker may not answer;
\* then nothing is marked as running.
Look(l) ==
    /\ pc[l] \in {"off", "picker"}
    /\ \E silent \in Silent :
        /\ menu' = [menu EXCEPT ![l] =
              [rows |-> [i \in Id |-> IF dirs[i] = NoDir THEN NoRow ELSE OpensAs(i)],
               up |-> IF silent THEN {} ELSE Containers]]
        /\ unseen' = [unseen EXCEPT ![l] = {i \in Id : silent}]
    /\ pc' = [pc EXCEPT ![l] = "picker"]
    /\ UNCHANGED <<dirs, table, running, op, copy, crashes, meant, torn>>

\* Variant of Selectable: a row is offered whether or not its container runs.
AnyRow(l) == {i \in Id : menu[l].rows[i] # NoRow}
Selectable(l) == {i \in Id : menu[l].rows[i] # NoRow /\ i \notin menu[l].up}

Begin(l, place, kind, old, new, build) ==
    /\ pc[l] = "picker" /\ MayAct(l)
    /\ pc' = [pc EXCEPT ![l] = place]
    /\ op' = [op EXCEPT ![l] = [kind |-> kind, old |-> old, new |-> new, build |-> build]]
    /\ menu' = [menu EXCEPT ![l] = NoMenu]
    /\ unseen' = [unseen EXCEPT ![l] = IF place \in {"remove", "move"} THEN @ \cap {old} ELSE {}]
    /\ UNCHANGED <<dirs, table, running, copy, crashes, meant, torn>>

PickDelete(l, i) == i \in Selectable(l) /\ Begin(l, "remove", "delete", i, i, Lego)

\* The form refuses a name that is taken when it is confirmed, but for its own.
PickModify(l, i, j, b) ==
    /\ i \in Selectable(l)
    /\ j = i \/ ~Taken(j)
    /\ Begin(l, IF j = i THEN "load" ELSE "move", "modify", i, j, b)

\* Enter: the instance as the menu shows it is what is launched.
PickContinue(l, i) == i \in Selectable(l) /\ Begin(l, "probe", "launch", i, i, menu[l].rows[i])
PickCreate(l, j, b) == ~Taken(j) /\ Begin(l, "probe", "launch", j, j, b)

\* run.py <id>: no picker, the instance as it is on disk.
Target(l, i) ==
    /\ pc[l] = "off" /\ MayAct(l) /\ dirs[i] # NoDir
    /\ pc' = [pc EXCEPT ![l] = "probe"]
    /\ op' = [op EXCEPT ![l] = [kind |-> "launch", old |-> i, new |-> i, build |-> OpensAs(i)]]
    /\ UNCHANGED <<dirs, table, running, menu, copy, crashes, meant, torn, unseen>>

\* run.py --stop: its own form, over the containers docker knows of; without an
\* answer, or with none of them, there is nothing to offer.
ListRunning(l) ==
    /\ pc[l] = "off" /\ Containers # {}
    /\ pc' = [pc EXCEPT ![l] = "stop"]
    /\ menu' = [menu EXCEPT ![l].up = Containers]
    /\ UNCHANGED <<dirs, table, running, op, copy, crashes, meant, torn, unseen>>

\* The next of the ticked ones, whatever has become of it since the form was
\* drawn; when that fails, the one after.
StopOne(l, i) ==
    /\ pc[l] = "stop" /\ i \in menu[l].up
    /\ menu' = [menu EXCEPT ![l].up = @ \ {i}] /\ Stopped(i)
    /\ UNCHANGED <<dirs, table, pc, op, copy, crashes, meant, torn, unseen>>

Quit(l) ==
    /\ pc[l] \in {"picker", "stop"}
    /\ pc' = [pc EXCEPT ![l] = "off"]
    /\ menu' = [menu EXCEPT ![l] = NoMenu] /\ unseen' = [unseen EXCEPT ![l] = {}]
    /\ UNCHANGED <<dirs, table, running, op, copy, crashes, meant, torn>>

\* A launcher's process is over, or its operation is and a new menu comes.
Forget(l) ==
    /\ op' = [op EXCEPT ![l] = NoOp]
    /\ copy' = [copy EXCEPT ![l] = [i \in Id |-> NoEntry]]
    /\ menu' = [menu EXCEPT ![l] = NoMenu]
    /\ unseen' = [unseen EXCEPT ![l] = {}]
Over(l) == pc' = [pc EXCEPT ![l] = "off"] /\ Forget(l)

-----------------------------------------------------------------------------
\* delete_instance.

\* force_remove; when it fails nothing else happens.
RemoveDir(l) ==
    /\ pc[l] = "remove"
    /\ \/ /\ dirs' = [dirs EXCEPT ![op[l].old] = NoDir]
          /\ pc' = [pc EXCEPT ![l] = "load"]
          /\ meant' = [c \in Conv |-> IF c = dirs[op[l].old] THEN Lego ELSE meant[c]]
          /\ torn' = torn \ {dirs[op[l].old]}
          /\ UNCHANGED <<op, copy, menu, unseen>>
       \/ dirs[op[l].old] # NoDir /\ Over(l) /\ UNCHANGED <<dirs, meant, torn>>
    /\ UNCHANGED <<table, running, crashes>>

-----------------------------------------------------------------------------
\* modify_instance: the rename.

\* A taken name (ValueError) or a source that is gone ends the process there.
Move(l) ==
    LET from == op[l].old  to == op[l].new IN
    /\ pc[l] = "move"
    /\ IF Taken(to) \/ dirs[from] = NoDir
       THEN Over(l) /\ UNCHANGED dirs
       ELSE /\ dirs' = [dirs EXCEPT ![to] = dirs[from], ![from] = NoDir]
            /\ pc' = [pc EXCEPT ![l] = "load"]
            /\ UNCHANGED <<op, copy, menu, unseen>>
    /\ UNCHANGED <<table, running, crashes, meant, torn>>

-----------------------------------------------------------------------------
\* The store: load, mutate, save.

Load(l) ==
    /\ pc[l] = "load"
    /\ copy' = [copy EXCEPT ![l] = table]
    /\ pc' = [pc EXCEPT ![l] = "save"]
    /\ UNCHANGED <<dirs, table, running, menu, op, crashes, meant, torn, unseen>>

\* Variant of Changed: an edit puts the new entry under the old name.
ChangedInPlace(t, o) ==
    IF o.kind = "delete" THEN [t EXCEPT ![o.old] = NoEntry] ELSE [t EXCEPT ![o.old] = o.build]
Changed(t, o) ==
    IF o.kind = "delete" THEN [t EXCEPT ![o.old] = NoEntry]
    ELSE [t EXCEPT ![o.old] = NoEntry, ![o.new] = o.build]

\* One os.replace.  A launch goes on to stage and run; the others are done.
Save(l) ==
    LET c == dirs[op[l].new] IN
    /\ pc[l] = "save"
    /\ table' = Changed(copy[l], op[l])
    /\ IF c \in Conv /\ op[l].kind # "delete"
       THEN meant' = [meant EXCEPT ![c] = op[l].build] /\ torn' = torn \ {c}
       ELSE UNCHANGED <<meant, torn>>
    /\ IF op[l].kind = "launch"
       THEN pc' = [pc EXCEPT ![l] = "stage"] /\ UNCHANGED <<op, copy, menu, unseen>>
       ELSE Over(l)
    /\ UNCHANGED <<dirs, running, crashes>>

-----------------------------------------------------------------------------
\* A launch.

\* running_instance_report: docker is asked again, and may not answer.
CheckRunning(l) ==
    /\ pc[l] = "probe"
    /\ \/ running[op[l].new] # Nobody /\ Over(l)
       \/ /\ running[op[l].new] = Nobody \/ TRUE \in Silent
          /\ pc' = [pc EXCEPT ![l] = "load"]
          /\ UNCHANGED <<op, copy, menu, unseen>>
    /\ UNCHANGED <<dirs, table, running, crashes, meant, torn>>

\* ensure_dir: an instance without a directory starts a conversation of its own.
WithDir(l) ==
    LET i == op[l].new IN
    IF dirs[i] # NoDir THEN UNCHANGED <<dirs, meant>>
    ELSE \E c \in Conv \ (OnDisk \cup {running[k] : k \in Id}) :
            /\ dirs' = [dirs EXCEPT ![i] = c]
            /\ meant' = [meant EXCEPT ![c] = op[l].build]

\* stage_instance, and the build of the image; an error ends the process.
Stage(l) ==
    /\ pc[l] = "stage"
    /\ \/ WithDir(l) /\ pc' = [pc EXCEPT ![l] = "run"] /\ UNCHANGED <<op, copy, menu, unseen>>
       \/ Over(l) /\ UNCHANGED <<dirs, meant>>
    /\ UNCHANGED <<table, running, crashes, torn>>

\* docker run --name: a name in use is refused; -v makes a directory that is gone.
Run(l) ==
    LET i == op[l].new IN
    /\ pc[l] = "run"
    /\ op' = [op EXCEPT ![l] = NoOp]
    /\ copy' = [copy EXCEPT ![l] = [k \in Id |-> NoEntry]]
    /\ menu' = [menu EXCEPT ![l] = NoMenu]
    /\ pc' = [pc EXCEPT ![l] = "off"]
    /\ IF running[i] # Nobody
       THEN UNCHANGED <<dirs, meant, running, unseen>>
       ELSE /\ WithDir(l)
            /\ running' = [running EXCEPT ![i] = dirs'[i]]
            /\ unseen' = [o \in Launcher |->
                 IF pc[o] = "picker" \/ (pc[o] \in {"remove", "move"} /\ op[o].old = i)
                 THEN unseen[o] \cup {i} ELSE unseen[o]]
    /\ UNCHANGED <<table, crashes, torn>>

ContainerEnds(i) ==
    /\ running[i] # Nobody
    /\ running' = [running EXCEPT ![i] = Nobody]
    /\ UNCHANGED <<dirs, table, pc, menu, op, copy, crashes, meant, torn, unseen>>

\* The launcher is killed.
Crash(l) ==
    /\ pc[l] \in Busy /\ crashes < MaxCrashes
    /\ crashes' = crashes + 1
    /\ torn' = IF op[l].kind = "modify" /\ op[l].new # op[l].old /\ pc[l] \in {"load", "save"}
               THEN torn \cup ({dirs[op[l].new]} \cap Conv) ELSE torn
    /\ Over(l)
    /\ UNCHANGED <<dirs, table, running, meant>>

-----------------------------------------------------------------------------
Next ==
    \/ \E l \in Launcher :
        \/ Look(l) \/ Quit(l) \/ Crash(l)
        \/ RemoveDir(l) \/ Move(l) \/ Load(l) \/ Save(l)
        \/ CheckRunning(l) \/ Stage(l) \/ Run(l) \/ ListRunning(l)
        \/ \E i \in Id : StopOne(l, i)
        \/ \E i \in Id : PickDelete(l, i) \/ PickContinue(l, i) \/ Target(l, i)
        \/ \E i, j \in Id, b \in Build : PickModify(l, i, j, b)
        \/ \E j \in Id, b \in Build : PickCreate(l, j, b)
    \/ \E i \in Id : ContainerEnds(i)

Spec == Init /\ [][Next]_vars

-----------------------------------------------------------------------------
TypeOK ==
    /\ dirs \in [Id -> Conv \cup {NoDir}] /\ table \in [Id -> Build \cup {NoEntry}]
    /\ running \in [Id -> Conv \cup {Nobody}]
    /\ pc \in [Launcher -> Busy \cup {"off", "picker", "stop"}]
    /\ menu \in [Launcher -> [rows : [Id -> Build \cup {NoRow}], up : SUBSET Id]]
    /\ op \in [Launcher -> [kind : {"none", "delete", "modify", "launch"},
                            old : Id \cup {Nobody}, new : Id \cup {Nobody}, build : Build]]
    /\ copy \in [Launcher -> [Id -> Build \cup {NoEntry}]]
    /\ crashes \in 0..MaxCrashes /\ meant \in [Conv -> Build] /\ torn \subseteq Conv
    /\ unseen \in [Launcher -> SUBSET Id]

\* Renamed and not yet saved.
UnderWay == {dirs[op[l].new] : l \in {l \in Launcher : op[l].kind = "modify" /\ pc[l] \in {"load", "save"}}}

\* Whatever directory a conversation has come to, it opens with the build it was
\* last launched or edited with: not with a deleted namesake's, not with one that
\* another launcher's save brought back (agents_crud.py:65-104).
EntryIsAsMeant ==
    /\ TypeOK
    /\ \A i \in Id : dirs[i] \in Conv \ (torn \cup UnderWay) => OpensAs(i) = meant[dirs[i]]

\* Nothing but a confirmed deletion of its instance takes a conversation off the
\* disk, whatever is renamed or launched under its name.
ConversationsSurvive ==
    [][\A i \in Id : dirs[i] \in OnDisk \ {dirs'[j] : j \in Id} =>
        \E l \in Launcher : pc[l] = "remove" /\ op[l].old = i]_vars

\* A directory is moved or deleted under its container only by a launcher whose
\* menu was drawn before the container started, or without docker's answer.
MenuSparesWhatItShowed ==
    [][\A i \in Id : (running[i] \in Conv /\ dirs[i] = running[i] /\ dirs'[i] # dirs[i]) =>
        \E l \in Launcher : pc[l] \in {"remove", "move"} /\ op[l].old = i /\ i \in unseen[l]]_vars

=============================================================================
