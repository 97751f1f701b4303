------------------------- MODULE InstanceStoreProofs -------------------------
(***************************************************************************)
(* What InstanceStore promises for any launchers, identities, builds and   *)
(* crashes.  That no conversation is lost, and that a menu spares what it  *)
(* showed, holds however the launchers interleave; that an entry is as it  *)
(* was meant needs one operation at a time, since the store is read whole  *)
(* and replaced whole without a lock.                                      *)
(***************************************************************************)
EXTENDS InstanceStore, TLAPS

\* An operation has its names, and each place its operation.
OperationsFit ==
    \A l \in Launcher : pc[l] \in Busy =>
        /\ op[l].old \in Id /\ op[l].new \in Id
        /\ op[l].kind \in {"delete", "launch"} => op[l].new = op[l].old
        /\ pc[l] = "remove" => op[l].kind = "delete"
        /\ pc[l] = "move" => op[l].kind = "modify" /\ op[l].new # op[l].old
        /\ pc[l] \in {"probe", "stage", "run"} => op[l].kind = "launch"
        /\ pc[l] \in {"load", "save"} => op[l].kind # "none"

\* A container that runs is on the menu, or came after it: it is then not what
\* was picked, unless docker gave no answer.
MenusAreHonest ==
    \A l \in Launcher, i \in Id : running[i] # Nobody =>
        /\ pc[l] = "picker" => i \in menu[l].up \cup unseen[l]
        /\ pc[l] \in {"remove", "move"} /\ op[l].old = i => i \in unseen[l]

\* No two directories hold one conversation.
OnePlaceEach == \A i, j \in Id : dirs[i] = dirs[j] /\ dirs[i] \in Conv => i = j

HInv == TypeOK /\ OperationsFit /\ MenusAreHonest /\ OnePlaceEach

\* What a launcher between two steps relies on, when no other operates.
OneAtATime == \A l, o \in Launcher : pc[l] \in Busy /\ pc[o] \in Busy => l = o

Renamed == {l \in Launcher : op[l].kind = "modify" /\ op[l].new # op[l].old /\ pc[l] \in {"load", "save"}}

InTheMiddle ==
    \A l \in Launcher :
        /\ pc[l] = "save" => copy[l] = table
        /\ pc[l] \in {"stage", "run"} => table[op[l].new] = op[l].build
        /\ pc[l] \in {"load", "save"} /\ op[l].kind = "delete" => dirs[op[l].new] = NoDir
        /\ l \in Renamed => dirs[op[l].old] = NoDir

\* A rename that is under way, or that a crash cut off, may still want its entry.
Spared == torn \cup {dirs[op[l].new] : l \in Renamed}
EntriesFit == \A i \in Id : dirs[i] \in Conv \ Spared => OpensAs(i) = meant[dirs[i]]

IInv == HInv /\ OneAtATime /\ InTheMiddle /\ EntriesFit

-----------------------------------------------------------------------------
Places == Busy \cup {"off", "picker", "stop"}
Operation == [kind : {"none", "delete", "modify", "launch"}, old : Id \cup {Nobody}, new : Id \cup {Nobody}, build : Build]
Menu == [rows : [Id -> Build \cup {NoRow}], up : SUBSET Id]
Table == [Id -> Build \cup {NoEntry}]

LEMMA Set ==
    ASSUME NEW S, NEW T, NEW f \in [S -> T], NEW s \in S, NEW x \in T
    PROVE  /\ [f EXCEPT ![s] = x] \in [S -> T] /\ [f EXCEPT ![s] = x][s] = x
           /\ \A r \in S : r # s => [f EXCEPT ![s] = x][r] = f[r]
OBVIOUS

LEMMA Nothing == NoOp \in Operation /\ NoMenu \in Menu /\ [i \in Id |-> NoEntry] \in Table
BY ConstantsAssumption DEF NoOp, NoMenu, Operation, Menu, Table

\* The five variables of a launcher, by their types.
TypedLaunchers ==
    /\ pc \in [Launcher -> Places] /\ op \in [Launcher -> Operation] /\ menu \in [Launcher -> Menu]
    /\ copy \in [Launcher -> Table] /\ unseen \in [Launcher -> SUBSET Id]
TypedHost ==
    /\ dirs \in [Id -> Conv \cup {NoDir}] /\ table \in Table /\ running \in [Id -> Conv \cup {Nobody}]
    /\ crashes \in 0..MaxCrashes /\ meant \in [Conv -> Build] /\ torn \subseteq Conv

LEMMA Types == TypeOK <=> TypedLaunchers /\ TypedHost
BY DEF TypeOK, TypedLaunchers, TypedHost, Places, Operation, Menu, Table

LEMMA OverTyped ==
    ASSUME TypedLaunchers, NEW l \in Launcher, Over(l)
    PROVE  /\ TypedLaunchers' /\ pc'[l] = "off" /\ op'[l] = NoOp
           /\ \A o \in Launcher : o # l => pc'[o] = pc[o] /\ op'[o] = op[o] /\ copy'[o] = copy[o] /\ menu'[o] = menu[o]
                                           /\ unseen'[o] = unseen[o]
<1>1. pc' = [pc EXCEPT ![l] = "off"] /\ pc \in [Launcher -> Places] /\ "off" \in Places
  BY DEF Over, TypedLaunchers, Places
<1>2. op' = [op EXCEPT ![l] = NoOp] /\ op \in [Launcher -> Operation] /\ NoOp \in Operation
  BY Nothing DEF Over, Forget, TypedLaunchers
<1>3. menu' = [menu EXCEPT ![l] = NoMenu] /\ menu \in [Launcher -> Menu] /\ NoMenu \in Menu
  BY Nothing DEF Over, Forget, TypedLaunchers
<1>4. copy' = [copy EXCEPT ![l] = [i \in Id |-> NoEntry]] /\ copy \in [Launcher -> Table] /\ [i \in Id |-> NoEntry] \in Table
  BY Nothing DEF Over, Forget, TypedLaunchers
<1>5. unseen' = [unseen EXCEPT ![l] = {}] /\ unseen \in [Launcher -> SUBSET Id]
  BY DEF Over, Forget, TypedLaunchers
<1>6. pc' \in [Launcher -> Places] /\ pc'[l] = "off" /\ \A o \in Launcher : o # l => pc'[o] = pc[o]
  BY <1>1
<1>7. op' \in [Launcher -> Operation] /\ op'[l] = NoOp /\ \A o \in Launcher : o # l => op'[o] = op[o]
  BY <1>2
<1>8. menu' \in [Launcher -> Menu] /\ \A o \in Launcher : o # l => menu'[o] = menu[o]
  BY <1>3
<1>9. copy' \in [Launcher -> Table] /\ \A o \in Launcher : o # l => copy'[o] = copy[o]
  BY <1>4, Set
<1>10. unseen' \in [Launcher -> SUBSET Id] /\ \A o \in Launcher : o # l => unseen'[o] = unseen[o]
  BY <1>5
<1>. QED  BY <1>6, <1>7, <1>8, <1>9, <1>10 DEF TypedLaunchers

\* A launcher turns to an operation.
LEMMA BeginTyped ==
    ASSUME TypedLaunchers, NEW l \in Launcher, NEW place \in Places, NEW kind \in {"delete", "modify", "launch"},
           NEW old \in Id, NEW new \in Id, NEW build \in Build, Begin(l, place, kind, old, new, build)
    PROVE  /\ TypedLaunchers' /\ pc'[l] = place
           /\ op'[l] = [kind |-> kind, old |-> old, new |-> new, build |-> build]
           /\ unseen'[l] = IF place \in {"remove", "move"} THEN unseen[l] \cap {old} ELSE {}
           /\ \A o \in Launcher : o # l => pc'[o] = pc[o] /\ op'[o] = op[o] /\ copy'[o] = copy[o] /\ menu'[o] = menu[o]
                                           /\ unseen'[o] = unseen[o]
           /\ UNCHANGED <<dirs, table, running, copy, crashes, meant, torn>>
<1>1. /\ pc' = [pc EXCEPT ![l] = place] /\ pc \in [Launcher -> Places]
      /\ op' = [op EXCEPT ![l] = [kind |-> kind, old |-> old, new |-> new, build |-> build]]
      /\ menu' = [menu EXCEPT ![l] = NoMenu]
      /\ unseen' = [unseen EXCEPT ![l] = IF place \in {"remove", "move"} THEN @ \cap {old} ELSE {}]
      /\ UNCHANGED <<dirs, table, running, copy, crashes, meant, torn>>
  BY DEF Begin, TypedLaunchers
<1>2. op \in [Launcher -> Operation] /\ [kind |-> kind, old |-> old, new |-> new, build |-> build] \in Operation
  BY DEF TypedLaunchers, Operation
<1>3. menu \in [Launcher -> Menu] /\ NoMenu \in Menu /\ unseen \in [Launcher -> SUBSET Id]
  BY Nothing DEF TypedLaunchers
<1>4. pc' \in [Launcher -> Places] /\ pc'[l] = place /\ \A o \in Launcher : o # l => pc'[o] = pc[o]
  BY <1>1
<1>5. /\ op' \in [Launcher -> Operation] /\ op'[l] = [kind |-> kind, old |-> old, new |-> new, build |-> build]
      /\ \A o \in Launcher : o # l => op'[o] = op[o]
  BY <1>1, <1>2
<1>6. menu' \in [Launcher -> Menu] /\ \A o \in Launcher : o # l => menu'[o] = menu[o]
  BY <1>1, <1>3
<1>7. /\ unseen' \in [Launcher -> SUBSET Id] /\ \A o \in Launcher : o # l => unseen'[o] = unseen[o]
      /\ unseen'[l] = IF place \in {"remove", "move"} THEN unseen[l] \cap {old} ELSE {}
  BY <1>1, <1>3
<1>. QED  BY <1>1, <1>4, <1>5, <1>6, <1>7 DEF TypedLaunchers

\* The operations a menu or the command line begins.
Begun(l, place, kind, old, new, build) ==
    /\ pc[l] \in {"picker", "off"} /\ MayAct(l)
    /\ TypedLaunchers' /\ pc'[l] = place
    /\ op'[l] = [kind |-> kind, old |-> old, new |-> new, build |-> build]
    /\ \/ place = "remove" /\ kind = "delete" /\ new = old
       \/ place = "move" /\ kind = "modify" /\ new # old
       \/ place = "load" /\ kind = "modify" /\ new = old
       \/ place = "probe" /\ kind = "launch" /\ new = old
    /\ place \in {"remove", "move"} =>
          pc[l] = "picker" /\ old \notin menu[l].up /\ unseen'[l] = unseen[l] \cap {old}
    /\ \A o \in Launcher : o # l => pc'[o] = pc[o] /\ op'[o] = op[o] /\ copy'[o] = copy[o] /\ menu'[o] = menu[o]
                                    /\ unseen'[o] = unseen[o]
    /\ UNCHANGED <<dirs, table, running, copy, crashes, meant, torn>>

LEMMA BeginsAre ==
    ASSUME TypeOK, NEW l \in Launcher,
           \/ \E i \in Id : PickDelete(l, i) \/ PickContinue(l, i) \/ Target(l, i)
           \/ \E i, j \in Id, b \in Build : PickModify(l, i, j, b)
           \/ \E j \in Id, b \in Build : PickCreate(l, j, b)
    PROVE  \E place \in Busy, kind \in {"delete", "modify", "launch"}, old, new \in Id, build \in Build :
              Begun(l, place, kind, old, new, build)
<1>0. TypedLaunchers /\ TypedHost /\ Lego \in Build
  BY Types, ConstantsAssumption
<1>1. ASSUME NEW place \in {"remove", "move", "load", "probe"}, NEW kind \in {"delete", "modify", "launch"},
             NEW old \in Id, NEW new \in Id, NEW build \in Build, Begin(l, place, kind, old, new, build),
             \/ place = "remove" /\ kind = "delete" /\ new = old
             \/ place = "move" /\ kind = "modify" /\ new # old
             \/ place = "load" /\ kind = "modify" /\ new = old
             \/ place = "probe" /\ kind = "launch" /\ new = old,
             place \in {"remove", "move"} => old \in Selectable(l)
      PROVE  Begun(l, place, kind, old, new, build) /\ place \in Busy
  <2>1. place \in Places /\ place \in Busy
    BY DEF Places, Busy
  <2>2. pc[l] = "picker" /\ MayAct(l)
    BY <1>1 DEF Begin
  <2>3. /\ TypedLaunchers' /\ pc'[l] = place
        /\ op'[l] = [kind |-> kind, old |-> old, new |-> new, build |-> build]
        /\ unseen'[l] = IF place \in {"remove", "move"} THEN unseen[l] \cap {old} ELSE {}
        /\ \A o \in Launcher : o # l => pc'[o] = pc[o] /\ op'[o] = op[o] /\ copy'[o] = copy[o] /\ menu'[o] = menu[o]
                                        /\ unseen'[o] = unseen[o]
        /\ UNCHANGED <<dirs, table, running, copy, crashes, meant, torn>>
    BY <1>0, <1>1, <2>1, BeginTyped
  <2>4. place \in {"remove", "move"} => old \notin menu[l].up
    BY <1>1 DEF Selectable
  <2>. QED  BY <1>1, <2>1, <2>2, <2>3, <2>4 DEF Begun
<1>2. ASSUME NEW i \in Id, PickDelete(l, i)
      PROVE  Begun(l, "remove", "delete", i, i, Lego) /\ "remove" \in Busy
  BY <1>0, <1>1, <1>2 DEF PickDelete
<1>3. ASSUME NEW i \in Id, PickContinue(l, i)
      PROVE  Begun(l, "probe", "launch", i, i, menu[l].rows[i]) /\ "probe" \in Busy /\ menu[l].rows[i] \in Build
  <2>1. menu[l].rows[i] \in Build
    BY <1>0, <1>3 DEF PickContinue, Selectable, TypedLaunchers, Menu
  <2>. QED  BY <1>1, <1>3, <2>1 DEF PickContinue
<1>4. ASSUME NEW i \in Id, NEW j \in Id, NEW b \in Build, PickModify(l, i, j, b)
      PROVE  Begun(l, IF j = i THEN "load" ELSE "move", "modify", i, j, b) /\ (IF j = i THEN "load" ELSE "move") \in Busy
  <2>1. CASE j = i
    BY <1>1, <1>4, <2>1 DEF PickModify
  <2>2. CASE j # i
    BY <1>1, <1>4, <2>2 DEF PickModify
  <2>. QED  BY <2>1, <2>2
<1>5. ASSUME NEW j \in Id, NEW b \in Build, PickCreate(l, j, b)
      PROVE  Begun(l, "probe", "launch", j, j, b) /\ "probe" \in Busy
  BY <1>1, <1>5 DEF PickCreate
<1>6. ASSUME NEW i \in Id, Target(l, i)
      PROVE  Begun(l, "probe", "launch", i, i, OpensAs(i)) /\ "probe" \in Busy /\ OpensAs(i) \in Build
  <2>1. OpensAs(i) \in Build
    BY <1>0 DEF OpensAs, TypedHost, Table
  <2>2. pc \in [Launcher -> Places] /\ op \in [Launcher -> Operation] /\ "probe" \in Busy /\ "probe" \in Places
    BY <1>0 DEF TypedLaunchers, Places, Busy
  <2>3. [kind |-> "launch", old |-> i, new |-> i, build |-> OpensAs(i)] \in Operation
    BY <2>1 DEF Operation
  <2>4. /\ pc' = [pc EXCEPT ![l] = "probe"] /\ UNCHANGED <<dirs, table, running, menu, copy, crashes, meant, torn, unseen>>
        /\ op' = [op EXCEPT ![l] = [kind |-> "launch", old |-> i, new |-> i, build |-> OpensAs(i)]]
        /\ pc[l] = "off" /\ MayAct(l)
    BY <1>6 DEF Target
  <2>5. pc' \in [Launcher -> Places] /\ pc'[l] = "probe" /\ \A o \in Launcher : o # l => pc'[o] = pc[o]
    BY <2>2, <2>4
  <2>6. /\ op' \in [Launcher -> Operation] /\ op'[l] = [kind |-> "launch", old |-> i, new |-> i, build |-> OpensAs(i)]
        /\ \A o \in Launcher : o # l => op'[o] = op[o]
    BY <2>2, <2>3, <2>4
  <2>7. TypedLaunchers'
    BY <1>0, <2>4, <2>5, <2>6 DEF TypedLaunchers
  <2>. QED  BY <2>1, <2>2, <2>4, <2>5, <2>6, <2>7 DEF Begun
<1>7. ASSUME NEW i \in Id, PickDelete(l, i) \/ PickContinue(l, i) \/ Target(l, i)
      PROVE  \E place \in Busy, kind \in {"delete", "modify", "launch"}, old, new \in Id, build \in Build :
                Begun(l, place, kind, old, new, build)
  BY <1>0, <1>2, <1>3, <1>6, <1>7
<1>. QED  BY <1>4, <1>5, <1>7

LEMMA StoppedTyped ==
    ASSUME TypedHost, NEW i \in Id, Stopped(i)
    PROVE  /\ running' \in [Id -> Conv \cup {Nobody}]
           /\ \A k \in Id : running'[k] = running[k] \/ running'[k] = Nobody
BY DEF TypedHost, Stopped

\* ensure_dir: a directory of its own for the instance that has none.
LEMMA DirEnsured ==
    ASSUME TypedHost, OperationsFit, OnePlaceEach, NEW l \in Launcher, pc[l] \in Busy, op[l] \in Operation, WithDir(l)
    PROVE  /\ dirs' \in [Id -> Conv \cup {NoDir}] /\ meant' \in [Conv -> Build] /\ OnePlaceEach' /\ op[l].new \in Id
           /\ dirs'[op[l].new] \in Conv
           /\ \A k \in Id : k # op[l].new => dirs'[k] = dirs[k]
           /\ \/ UNCHANGED <<dirs, meant>>
              \/ /\ dirs[op[l].new] = NoDir /\ meant'[dirs'[op[l].new]] = op[l].build
                 /\ \A c \in Conv : c # dirs'[op[l].new] => meant'[c] = meant[c]
                 /\ \A k \in Id : dirs[k] # dirs'[op[l].new]
<1>. DEFINE i == op[l].new
<1>0. i \in Id /\ dirs \in [Id -> Conv \cup {NoDir}] /\ meant \in [Conv -> Build] /\ op[l].build \in Build /\ NoDir \notin Conv
  BY ConstantsAssumption DEF OperationsFit, TypedHost, Operation
<1>1. CASE dirs[i] # NoDir
  BY <1>0, <1>1 DEF WithDir, OnePlaceEach
<1>2. CASE dirs[i] = NoDir
  <2>1. PICK c \in Conv : /\ c \notin OnDisk /\ dirs' = [dirs EXCEPT ![i] = c]
                          /\ meant' = [meant EXCEPT ![c] = op[l].build]
    BY <1>2 DEF WithDir
  <2>2. dirs' \in [Id -> Conv \cup {NoDir}] /\ dirs'[i] = c /\ \A k \in Id : k # i => dirs'[k] = dirs[k]
    BY <1>0, <2>1
  <2>3. meant' \in [Conv -> Build] /\ meant'[c] = op[l].build /\ \A d \in Conv : d # c => meant'[d] = meant[d]
    BY <1>0, <2>1
  <2>4. \A k \in Id : dirs[k] # c
    BY <1>0, <2>1 DEF OnDisk
  <2>5. OnePlaceEach'
    BY <2>2, <2>4 DEF OnePlaceEach
  <2>. QED  BY <1>0, <1>2, <2>2, <2>3, <2>4, <2>5
<1>. QED  BY <1>1, <1>2

LEMMA TypesKept == TypeOK /\ OperationsFit /\ OnePlaceEach /\ [Next]_vars => TypeOK'
<1>. SUFFICES ASSUME TypeOK, OperationsFit, OnePlaceEach, [Next]_vars
              PROVE  TypedLaunchers' /\ TypedHost'
  BY DEF TypeOK, TypedLaunchers, TypedHost, Places, Operation, Menu, Table
<1>0. /\ TypedLaunchers /\ TypedHost /\ Busy \subseteq Places /\ {"off", "picker", "stop"} \subseteq Places
      /\ Lego \in Build
  BY Types, ConstantsAssumption DEF Places
<1>a. /\ pc \in [Launcher -> Places] /\ op \in [Launcher -> Operation] /\ menu \in [Launcher -> Menu]
      /\ copy \in [Launcher -> Table] /\ unseen \in [Launcher -> SUBSET Id]
  BY <1>0 DEF TypedLaunchers
<1>b. /\ dirs \in [Id -> Conv \cup {NoDir}] /\ table \in Table /\ running \in [Id -> Conv \cup {Nobody}]
      /\ crashes \in 0..MaxCrashes /\ meant \in [Conv -> Build] /\ torn \subseteq Conv
  BY <1>0 DEF TypedHost
<1>c. ASSUME NEW l \in Launcher, NEW place \in Places, pc' = [pc EXCEPT ![l] = place],
             UNCHANGED <<op, copy, menu, unseen>>
      PROVE  TypedLaunchers'
  BY <1>a, <1>c DEF TypedLaunchers
<1>1. ASSUME NEW l \in Launcher, Look(l)
      PROVE  TypedLaunchers' /\ TypedHost'
  <2>1. PICK silent \in BOOLEAN :
            /\ menu' = [menu EXCEPT ![l] = [rows |-> [i \in Id |-> IF dirs[i] = NoDir THEN NoRow ELSE OpensAs(i)],
                                            up |-> IF silent THEN {} ELSE Containers]]
            /\ unseen' = [unseen EXCEPT ![l] = {i \in Id : silent}]
    BY <1>1, ConstantsAssumption DEF Look
  <2>2. [rows |-> [i \in Id |-> IF dirs[i] = NoDir THEN NoRow ELSE OpensAs(i)],
         up |-> IF silent THEN {} ELSE Containers] \in Menu
    BY <1>0, <1>b DEF OpensAs, Table, Menu, Containers
  <2>3. menu' \in [Launcher -> Menu] /\ unseen' \in [Launcher -> SUBSET Id]
    BY <1>a, <2>1, <2>2
  <2>4. pc' \in [Launcher -> Places] /\ UNCHANGED <<dirs, table, running, op, copy, crashes, meant, torn>>
    BY <1>0, <1>a, <1>1 DEF Look
  <2>. QED  BY <1>a, <1>b, <2>3, <2>4 DEF TypedLaunchers, TypedHost
<1>2. ASSUME NEW l \in Launcher, Quit(l)
      PROVE  TypedLaunchers' /\ TypedHost'
  <2>1. /\ pc' \in [Launcher -> Places] /\ UNCHANGED <<dirs, table, running, op, copy, crashes, meant, torn>>
        /\ unseen' \in [Launcher -> SUBSET Id]
    BY <1>0, <1>a, <1>2 DEF Quit
  <2>2. menu' \in [Launcher -> Menu]
    BY <1>a, <1>2, Nothing DEF Quit
  <2>. QED  BY <1>a, <1>b, <2>1, <2>2 DEF TypedLaunchers, TypedHost
<1>3. ASSUME NEW l \in Launcher, NEW S \in SUBSET Id, menu' = [menu EXCEPT ![l].up = S]
      PROVE  menu' \in [Launcher -> Menu]
  <2>1. [menu[l] EXCEPT !.up = S] \in Menu
    BY <1>a DEF Menu
  <2>. QED  BY <1>a, <1>3, <2>1
<1>4. ASSUME NEW l \in Launcher, ListRunning(l)
      PROVE  TypedLaunchers' /\ TypedHost'
  <2>1. /\ menu' = [menu EXCEPT ![l].up = Containers] /\ Containers \in SUBSET Id
        /\ UNCHANGED <<dirs, table, running, op, copy, crashes, meant, torn, unseen>>
    BY <1>4 DEF ListRunning, Containers
  <2>2. menu' \in [Launcher -> Menu] /\ pc' \in [Launcher -> Places]
    BY <1>0, <1>a, <1>3, <1>4, <2>1 DEF ListRunning
  <2>. QED  BY <1>a, <1>b, <2>1, <2>2 DEF TypedLaunchers, TypedHost
<1>5. ASSUME NEW l \in Launcher, NEW i \in Id, StopOne(l, i)
      PROVE  TypedLaunchers' /\ TypedHost'
  <2>1. menu[l].up \ {i} \in SUBSET Id
    BY <1>a DEF Menu
  <2>2. /\ menu' = [menu EXCEPT ![l].up = menu[l].up \ {i}] /\ Stopped(i)
        /\ UNCHANGED <<dirs, table, pc, op, copy, crashes, meant, torn, unseen>>
    BY <1>5 DEF StopOne
  <2>3. menu' \in [Launcher -> Menu]
    BY <1>3, <2>1, <2>2
  <2>4. running' \in [Id -> Conv \cup {Nobody}]
    BY <1>0, <2>2, StoppedTyped
  <2>. QED  BY <1>a, <1>b, <2>2, <2>3, <2>4 DEF TypedLaunchers, TypedHost
<1>6. ASSUME NEW l \in Launcher, Crash(l)
      PROVE  TypedLaunchers' /\ TypedHost'
  <2>1. /\ Over(l) /\ UNCHANGED <<dirs, table, running, meant>> /\ crashes' = crashes + 1 /\ crashes < MaxCrashes
        /\ torn' = torn \/ torn' = torn \cup ({dirs[op[l].new]} \cap Conv)
    BY <1>6 DEF Crash
  <2>2. crashes' \in 0..MaxCrashes
    BY <1>b, <2>1, ConstantsAssumption
  <2>. QED  BY <1>0, <1>b, <2>1, <2>2, OverTyped DEF TypedHost
<1>7. ASSUME NEW l \in Launcher, RemoveDir(l)
      PROVE  TypedLaunchers' /\ TypedHost'
  <2>1. CASE /\ dirs' = [dirs EXCEPT ![op[l].old] = NoDir] /\ pc' = [pc EXCEPT ![l] = "load"]
             /\ meant' = [c \in Conv |-> IF c = dirs[op[l].old] THEN Lego ELSE meant[c]]
             /\ torn' = torn \ {dirs[op[l].old]} /\ UNCHANGED <<op, copy, menu, unseen, table, running, crashes>>
    <3>1. TypedLaunchers'
      BY <1>c, <2>1 DEF Places, Busy
    <3>2. dirs' \in [Id -> Conv \cup {NoDir}] /\ meant' \in [Conv -> Build] /\ torn' \subseteq Conv
      BY <1>0, <1>b, <2>1
    <3>. QED  BY <1>b, <2>1, <3>1, <3>2 DEF TypedHost
  <2>2. CASE Over(l) /\ UNCHANGED <<dirs, meant, torn, table, running, crashes>>
    BY <1>0, <1>b, <2>2, OverTyped DEF TypedHost
  <2>. QED  BY <1>7, <2>1, <2>2 DEF RemoveDir
<1>8. ASSUME NEW l \in Launcher, Move(l)
      PROVE  TypedLaunchers' /\ TypedHost'
  <2>1. CASE /\ dirs' = [dirs EXCEPT ![op[l].new] = dirs[op[l].old], ![op[l].old] = NoDir] /\ pc' = [pc EXCEPT ![l] = "load"]
             /\ UNCHANGED <<op, copy, menu, unseen, table, running, crashes, meant, torn>>
    <3>1. TypedLaunchers'
      BY <1>c, <2>1 DEF Places, Busy
    <3>2. op[l].old \in Id
      BY <1>8 DEF Move, OperationsFit, Busy
    <3>3. dirs' \in [Id -> Conv \cup {NoDir}]
      BY <1>b, <2>1, <3>2
    <3>. QED  BY <1>b, <2>1, <3>1, <3>3 DEF TypedHost
  <2>2. CASE Over(l) /\ UNCHANGED <<dirs, table, running, crashes, meant, torn>>
    BY <1>0, <1>b, <2>2, OverTyped DEF TypedHost
  <2>. QED  BY <1>8, <2>1, <2>2 DEF Move
<1>9. ASSUME NEW l \in Launcher, Load(l)
      PROVE  TypedLaunchers' /\ TypedHost'
  <2>1. copy' \in [Launcher -> Table] /\ UNCHANGED <<dirs, table, running, menu, op, crashes, meant, torn, unseen>>
    BY <1>a, <1>b, <1>9, Set DEF Load
  <2>2. pc' \in [Launcher -> Places]
    BY <1>a, <1>9 DEF Load, Places, Busy
  <2>. QED  BY <1>a, <1>b, <2>1, <2>2 DEF TypedLaunchers, TypedHost
<1>10. ASSUME NEW l \in Launcher, Save(l)
      PROVE  TypedLaunchers' /\ TypedHost'
  <2>1. table' \in Table
    <3>1. copy[l] \in Table /\ op[l].build \in Build
      BY <1>a DEF Operation
    <3>. QED  BY <1>10, <3>1 DEF Save, Changed, Table
  <2>2. meant' \in [Conv -> Build] /\ torn' \subseteq Conv /\ UNCHANGED <<dirs, running, crashes>>
    <3>1. op[l].build \in Build
      BY <1>a DEF Operation
    <3>. QED  BY <1>b, <1>10, <3>1 DEF Save
  <2>3. TypedLaunchers'
    <3>1. CASE pc' = [pc EXCEPT ![l] = "stage"] /\ UNCHANGED <<op, copy, menu, unseen>>
      BY <1>c, <3>1 DEF Places, Busy
    <3>2. CASE Over(l)
      BY <1>0, <3>2, OverTyped
    <3>. QED  BY <1>10, <3>1, <3>2 DEF Save
  <2>. QED  BY <1>b, <2>1, <2>2, <2>3 DEF TypedHost
<1>11. ASSUME NEW l \in Launcher, CheckRunning(l)
      PROVE  TypedLaunchers' /\ TypedHost'
  <2>1. TypedLaunchers'
    <3>1. CASE pc' = [pc EXCEPT ![l] = "load"] /\ UNCHANGED <<op, copy, menu, unseen>>
      BY <1>c, <3>1 DEF Places, Busy
    <3>2. CASE Over(l)
      BY <1>0, <3>2, OverTyped
    <3>. QED  BY <1>11, <3>1, <3>2 DEF CheckRunning
  <2>. QED  BY <1>b, <1>11, <2>1 DEF CheckRunning, TypedHost
<1>12. ASSUME NEW l \in Launcher, Stage(l)
      PROVE  TypedLaunchers' /\ TypedHost'
  <2>1. pc[l] \in Busy /\ op[l] \in Operation
    BY <1>a, <1>12 DEF Stage, Busy
  <2>2. CASE WithDir(l) /\ pc' = [pc EXCEPT ![l] = "run"] /\ UNCHANGED <<op, copy, menu, unseen>>
    <3>1. TypedLaunchers'
      BY <1>c, <2>2 DEF Places, Busy
    <3>2. dirs' \in [Id -> Conv \cup {NoDir}] /\ meant' \in [Conv -> Build]
      BY <1>0, <2>1, <2>2, DirEnsured
    <3>. QED  BY <1>b, <1>12, <3>1, <3>2 DEF Stage, TypedHost
  <2>3. CASE Over(l) /\ UNCHANGED <<dirs, meant>>
    BY <1>0, <1>b, <1>12, <2>3, OverTyped DEF Stage, TypedHost
  <2>. QED  BY <1>12, <2>2, <2>3 DEF Stage
<1>13. ASSUME NEW l \in Launcher, Run(l)
      PROVE  TypedLaunchers' /\ TypedHost'
  <2>1. pc[l] \in Busy /\ op[l] \in Operation /\ op[l].new \in Id
    BY <1>a, <1>13 DEF Run, Busy, OperationsFit
  <2>2. pc' \in [Launcher -> Places] /\ op' \in [Launcher -> Operation] /\ menu' \in [Launcher -> Menu]
    BY <1>0, <1>a, <1>13, Nothing DEF Run
  <2>3. copy' \in [Launcher -> Table]
    BY <1>a, <1>13, Nothing, Set DEF Run
  <2>4. unseen' \in [Launcher -> SUBSET Id]
    BY <1>a, <1>13, <2>1 DEF Run
  <2>5. dirs' \in [Id -> Conv \cup {NoDir}] /\ meant' \in [Conv -> Build] /\ running' \in [Id -> Conv \cup {Nobody}]
    <3>1. CASE UNCHANGED <<dirs, meant, running>>
      BY <1>b, <3>1
    <3>2. CASE WithDir(l) /\ running' = [running EXCEPT ![op[l].new] = dirs'[op[l].new]]
      <4>1. dirs' \in [Id -> Conv \cup {NoDir}] /\ meant' \in [Conv -> Build] /\ dirs'[op[l].new] \in Conv
        BY <1>0, <2>1, <3>2, DirEnsured
      <4>. QED  BY <1>b, <3>2, <4>1
    <3>. QED  BY <1>13, <3>1, <3>2 DEF Run
  <2>. QED  BY <1>b, <1>13, <2>2, <2>3, <2>4, <2>5 DEF Run, TypedLaunchers, TypedHost
<1>14. ASSUME NEW i \in Id, ContainerEnds(i)
      PROVE  TypedLaunchers' /\ TypedHost'
  <2>1. running' \in [Id -> Conv \cup {Nobody}]
    BY <1>b, <1>14 DEF ContainerEnds
  <2>. QED  BY <1>a, <1>b, <1>14, <2>1 DEF ContainerEnds, TypedLaunchers, TypedHost
<1>15. ASSUME NEW l \in Launcher,
              \/ \E i \in Id : PickDelete(l, i) \/ PickContinue(l, i) \/ Target(l, i)
              \/ \E i, j \in Id, b \in Build : PickModify(l, i, j, b)
              \/ \E j \in Id, b \in Build : PickCreate(l, j, b)
       PROVE  TypedLaunchers' /\ TypedHost'
  <2>1. TypedLaunchers' /\ UNCHANGED <<dirs, table, running, crashes, meant, torn>>
    <3>1. PICK place \in Busy, kind \in {"delete", "modify", "launch"}, old \in Id, new \in Id, build \in Build :
              Begun(l, place, kind, old, new, build)
      BY <1>15, BeginsAre
    <3>. QED  BY <3>1 DEF Begun
  <2>. QED  BY <1>b, <2>1 DEF TypedHost
<1>16. CASE UNCHANGED vars
  BY <1>a, <1>b, <1>16 DEF vars, TypedLaunchers, TypedHost
<1>. QED
  BY <1>1, <1>2, <1>4, <1>5, <1>6, <1>7, <1>8, <1>9, <1>10, <1>11, <1>12, <1>13, <1>14, <1>15, <1>16 DEF Next

-----------------------------------------------------------------------------
\* What a step is for a launcher, but for the beginning of an operation and a
\* new menu.
Advances(o) ==
    /\ op'[o] = op[o]
    /\ \/ pc[o] \in {"remove", "move", "probe"} /\ pc'[o] = "load"
       \/ pc[o] = "load" /\ pc'[o] = "save" /\ copy'[o] = table /\ UNCHANGED table
       \/ pc[o] = "save" /\ pc'[o] = "stage" /\ op[o].kind = "launch"
       \/ pc[o] = "stage" /\ pc'[o] = "run"
Stays(o) == pc'[o] = pc[o] /\ op'[o] = op[o] /\ menu'[o] = menu[o] /\ copy'[o] = copy[o] /\ unseen[o] \subseteq unseen'[o]
Goes(o) == Stays(o) \/ Advances(o) \/ pc'[o] \in {"off", "stop"}

LEMMA Going ==
    ASSUME TypeOK,
           \/ \E l \in Launcher : \/ Quit(l) \/ Crash(l) \/ RemoveDir(l) \/ Move(l) \/ Load(l) \/ Save(l)
                                  \/ CheckRunning(l) \/ Stage(l) \/ Run(l) \/ ListRunning(l)
                                  \/ \E i \in Id : StopOne(l, i)
           \/ \E i \in Id : ContainerEnds(i)
           \/ UNCHANGED vars
    PROVE  \A o \in Launcher : Goes(o)
<1>a. /\ pc \in [Launcher -> Places] /\ op \in [Launcher -> Operation] /\ menu \in [Launcher -> Menu]
      /\ copy \in [Launcher -> Table] /\ unseen \in [Launcher -> SUBSET Id] /\ TypedLaunchers
  BY Types DEF TypedLaunchers
<1>b. ASSUME NEW l \in Launcher, Over(l)
      PROVE  \A o \in Launcher : Goes(o)
  BY <1>a, <1>b, OverTyped DEF Goes, Stays
<1>c. ASSUME NEW l \in Launcher, NEW place, pc' = [pc EXCEPT ![l] = place], UNCHANGED <<op, copy, menu, unseen>>,
             \/ pc[l] \in {"remove", "move", "probe"} /\ place = "load"
             \/ pc[l] = "save" /\ place = "stage" /\ op[l].kind = "launch"
             \/ pc[l] = "stage" /\ place = "run"
      PROVE  \A o \in Launcher : Goes(o)
  BY <1>a, <1>c DEF Goes, Stays, Advances
<1>1. ASSUME NEW l \in Launcher, Quit(l)
      PROVE  \A o \in Launcher : Goes(o)
  BY <1>a, <1>1 DEF Quit, Goes, Stays
<1>2. ASSUME NEW l \in Launcher, Crash(l)
      PROVE  \A o \in Launcher : Goes(o)
  BY <1>b, <1>2 DEF Crash
<1>3. ASSUME NEW l \in Launcher, RemoveDir(l)
      PROVE  \A o \in Launcher : Goes(o)
  BY <1>b, <1>c, <1>3 DEF RemoveDir
<1>4. ASSUME NEW l \in Launcher, Move(l)
      PROVE  \A o \in Launcher : Goes(o)
  BY <1>b, <1>c, <1>4 DEF Move
<1>5. ASSUME NEW l \in Launcher, Load(l)
      PROVE  \A o \in Launcher : Goes(o)
  BY <1>a, <1>5 DEF Load, Goes, Stays, Advances
<1>6. ASSUME NEW l \in Launcher, Save(l)
      PROVE  \A o \in Launcher : Goes(o)
  BY <1>b, <1>c, <1>6 DEF Save
<1>7. ASSUME NEW l \in Launcher, CheckRunning(l)
      PROVE  \A o \in Launcher : Goes(o)
  BY <1>b, <1>c, <1>7 DEF CheckRunning
<1>8. ASSUME NEW l \in Launcher, Stage(l)
      PROVE  \A o \in Launcher : Goes(o)
  BY <1>b, <1>c, <1>8 DEF Stage
<1>9. ASSUME NEW l \in Launcher, Run(l)
      PROVE  \A o \in Launcher : Goes(o)
  <2>1. /\ pc' = [pc EXCEPT ![l] = "off"] /\ op' = [op EXCEPT ![l] = NoOp] /\ menu' = [menu EXCEPT ![l] = NoMenu]
        /\ copy' = [copy EXCEPT ![l] = [k \in Id |-> NoEntry]]
        /\ \A o \in Launcher : unseen[o] \subseteq unseen'[o]
    BY <1>a, <1>9 DEF Run
  <2>. QED  BY <1>a, <2>1 DEF Goes, Stays
<1>10. ASSUME NEW l \in Launcher, ListRunning(l)
      PROVE  \A o \in Launcher : Goes(o)
  BY <1>a, <1>10 DEF ListRunning, Goes, Stays
<1>11. ASSUME NEW l \in Launcher, NEW i \in Id, StopOne(l, i)
      PROVE  \A o \in Launcher : Goes(o)
  BY <1>a, <1>11 DEF StopOne, Goes, Stays
<1>12. ASSUME NEW i \in Id, ContainerEnds(i)
      PROVE  \A o \in Launcher : Goes(o)
  BY <1>12 DEF ContainerEnds, Goes, Stays
<1>13. CASE UNCHANGED vars
  BY <1>13 DEF vars, Goes, Stays
<1>. QED  BY <1>1, <1>2, <1>3, <1>4, <1>5, <1>6, <1>7, <1>8, <1>9, <1>10, <1>11, <1>12, <1>13

LEMMA HInvKept == HInv /\ [Next]_vars => HInv'
<1>. SUFFICES ASSUME TypeOK, OperationsFit, MenusAreHonest, OnePlaceEach, [Next]_vars
              PROVE  OperationsFit' /\ MenusAreHonest' /\ OnePlaceEach'
  BY TypesKept DEF HInv
<1>a. /\ TypedLaunchers /\ TypedHost /\ dirs \in [Id -> Conv \cup {NoDir}] /\ running \in [Id -> Conv \cup {Nobody}]
      /\ menu \in [Launcher -> Menu] /\ unseen \in [Launcher -> SUBSET Id] /\ op \in [Launcher -> Operation]
      /\ pc \in [Launcher -> Places]
  BY Types DEF TypedLaunchers, TypedHost
<1>1. ASSUME \A o \in Launcher : Goes(o)
      PROVE  OperationsFit'
  BY <1>1 DEF Goes, Stays, Advances, OperationsFit, Busy
<1>2. ASSUME \A o \in Launcher : Goes(o), \A i \in Id : running'[i] # Nobody => running[i] # Nobody
      PROVE  MenusAreHonest'
  BY <1>2 DEF Goes, Stays, Advances, MenusAreHonest
<1>3. ASSUME NEW l \in Launcher, Quit(l) \/ Crash(l) \/ Load(l) \/ Save(l) \/ CheckRunning(l) \/ ListRunning(l)
      PROVE  OperationsFit' /\ MenusAreHonest' /\ OnePlaceEach'
  <2>1. UNCHANGED <<dirs, running>>
    BY <1>3 DEF Quit, Crash, Load, Save, CheckRunning, ListRunning
  <2>2. \A o \in Launcher : Goes(o)
    BY <1>3, Going
  <2>. QED  BY <1>1, <1>2, <2>1, <2>2 DEF OnePlaceEach
<1>4. ASSUME NEW l \in Launcher, NEW i \in Id, StopOne(l, i)
      PROVE  OperationsFit' /\ MenusAreHonest' /\ OnePlaceEach'
  <2>1. UNCHANGED dirs /\ \A k \in Id : running'[k] # Nobody => running[k] # Nobody
    BY <1>a, <1>4, StoppedTyped DEF StopOne
  <2>2. \A o \in Launcher : Goes(o)
    BY <1>4, Going
  <2>. QED  BY <1>1, <1>2, <2>1, <2>2 DEF OnePlaceEach
<1>5. ASSUME NEW i \in Id, ContainerEnds(i)
      PROVE  OperationsFit' /\ MenusAreHonest' /\ OnePlaceEach'
  <2>1. UNCHANGED dirs /\ \A k \in Id : running'[k] # Nobody => running[k] # Nobody
    BY <1>a, <1>5 DEF ContainerEnds
  <2>2. \A o \in Launcher : Goes(o)
    BY <1>5, Going
  <2>. QED  BY <1>1, <1>2, <2>1, <2>2 DEF OnePlaceEach
<1>6. ASSUME NEW l \in Launcher, RemoveDir(l) \/ Move(l)
      PROVE  OperationsFit' /\ MenusAreHonest' /\ OnePlaceEach'
  <2>1. UNCHANGED running /\ op[l].old \in Id /\ op[l].new \in Id
    BY <1>6 DEF RemoveDir, Move, OperationsFit, Busy
  <2>2. \A o \in Launcher : Goes(o)
    BY <1>6, Going
  <2>3. OnePlaceEach'
    <3>1. CASE UNCHANGED dirs
      BY <3>1 DEF OnePlaceEach
    <3>2. CASE dirs' = [dirs EXCEPT ![op[l].old] = NoDir]
      BY <1>a, <2>1, <3>2, ConstantsAssumption DEF OnePlaceEach
    <3>3. CASE dirs' = [dirs EXCEPT ![op[l].new] = dirs[op[l].old], ![op[l].old] = NoDir]
      BY <1>a, <2>1, <3>3, ConstantsAssumption DEF OnePlaceEach
    <3>. QED  BY <1>6, <3>1, <3>2, <3>3 DEF RemoveDir, Move
  <2>. QED  BY <1>1, <1>2, <2>1, <2>2, <2>3
<1>7. ASSUME NEW l \in Launcher, Stage(l)
      PROVE  OperationsFit' /\ MenusAreHonest' /\ OnePlaceEach'
  <2>1. UNCHANGED running /\ pc[l] \in Busy /\ op[l] \in Operation
    BY <1>a, <1>7 DEF Stage, Busy
  <2>2. \A o \in Launcher : Goes(o)
    BY <1>7, Going
  <2>3. OnePlaceEach'
    <3>1. CASE UNCHANGED dirs
      BY <3>1 DEF OnePlaceEach
    <3>2. CASE WithDir(l)
      BY <1>a, <2>1, <3>2, DirEnsured
    <3>. QED  BY <1>7, <3>1, <3>2 DEF Stage
  <2>. QED  BY <1>1, <1>2, <2>1, <2>2, <2>3
<1>8. ASSUME NEW l \in Launcher, Run(l)
      PROVE  OperationsFit' /\ MenusAreHonest' /\ OnePlaceEach'
  <2>1. pc[l] = "run" /\ pc[l] \in Busy /\ op[l] \in Operation /\ op[l].new \in Id
    BY <1>a, <1>8 DEF Run, Busy, OperationsFit
  <2>2. \A o \in Launcher : Goes(o)
    BY <1>8, Going
  <2>3. CASE UNCHANGED <<dirs, running>>
    BY <1>1, <1>2, <2>2, <2>3 DEF OnePlaceEach
  <2>4. CASE /\ WithDir(l) /\ running' = [running EXCEPT ![op[l].new] = dirs'[op[l].new]]
             /\ unseen' = [o \in Launcher |->
                   IF pc[o] = "picker" \/ (pc[o] \in {"remove", "move"} /\ op[o].old = op[l].new)
                   THEN unseen[o] \cup {op[l].new} ELSE unseen[o]]
    <3>1. OnePlaceEach'
      BY <1>a, <2>1, <2>4, DirEnsured
    <3>2. \A k \in Id : k # op[l].new => running'[k] = running[k]
      BY <1>a, <2>1, <2>4
    <3>3. /\ pc'[l] = "off"
          /\ \A o \in Launcher : o # l => pc'[o] = pc[o] /\ op'[o] = op[o] /\ menu'[o] = menu[o]
      BY <1>a, <1>8 DEF Run
    <3>4. ASSUME NEW o \in Launcher, NEW i \in Id, running'[i] # Nobody, o # l
          PROVE  /\ pc[o] = "picker" => i \in menu[o].up \cup unseen'[o]
                 /\ pc[o] \in {"remove", "move"} /\ op[o].old = i => i \in unseen'[o]
      <4>1. CASE i = op[l].new
        BY <2>4, <4>1
      <4>2. CASE i # op[l].new
        BY <2>4, <3>2, <3>4, <4>2 DEF MenusAreHonest
      <4>. QED  BY <4>1, <4>2
    <3>5. MenusAreHonest'
      BY <3>3, <3>4 DEF MenusAreHonest
    <3>. QED  BY <1>1, <2>2, <3>1, <3>5
  <2>. QED  BY <1>8, <2>3, <2>4 DEF Run
<1>9. ASSUME NEW l \in Launcher, Look(l)
      PROVE  OperationsFit' /\ MenusAreHonest' /\ OnePlaceEach'
  <2>1. PICK silent \in BOOLEAN :
            /\ menu' = [menu EXCEPT ![l] = [rows |-> [i \in Id |-> IF dirs[i] = NoDir THEN NoRow ELSE OpensAs(i)],
                                            up |-> IF silent THEN {} ELSE Containers]]
            /\ unseen' = [unseen EXCEPT ![l] = {i \in Id : silent}]
    BY <1>9, ConstantsAssumption DEF Look
  <2>2. pc' = [pc EXCEPT ![l] = "picker"] /\ UNCHANGED <<dirs, running, op>>
    BY <1>9 DEF Look
  <2>3. /\ pc'[l] = "picker" /\ \A i \in Id : running[i] # Nobody => i \in menu'[l].up \cup unseen'[l]
        /\ \A o \in Launcher : o # l => pc'[o] = pc[o] /\ menu'[o] = menu[o] /\ unseen'[o] = unseen[o]
    BY <1>a, <2>1, <2>2 DEF Containers
  <2>4. OperationsFit'
    BY <2>2, <2>3 DEF OperationsFit, Busy
  <2>5. MenusAreHonest'
    BY <2>2, <2>3 DEF MenusAreHonest
  <2>. QED  BY <2>2, <2>4, <2>5 DEF OnePlaceEach
<1>10. ASSUME NEW l \in Launcher,
              \/ \E i \in Id : PickDelete(l, i) \/ PickContinue(l, i) \/ Target(l, i)
              \/ \E i, j \in Id, b \in Build : PickModify(l, i, j, b)
              \/ \E j \in Id, b \in Build : PickCreate(l, j, b)
       PROVE  OperationsFit' /\ MenusAreHonest' /\ OnePlaceEach'
  <2>1. PICK place \in Busy, kind \in {"delete", "modify", "launch"}, old \in Id, new \in Id, build \in Build :
            Begun(l, place, kind, old, new, build)
    BY <1>10, BeginsAre
  <2>2. OperationsFit'
    BY <2>1 DEF Begun, OperationsFit
  <2>3. MenusAreHonest'
    BY <2>1 DEF Begun, MenusAreHonest, Busy
  <2>4. OnePlaceEach'
    BY <2>1 DEF Begun, OnePlaceEach
  <2>. QED  BY <2>2, <2>3, <2>4
<1>11. CASE UNCHANGED vars
  <2>1. \A o \in Launcher : Goes(o)
    BY <1>11, Going
  <2>. QED  BY <1>1, <1>2, <1>11, <2>1 DEF vars, OnePlaceEach
<1>. QED  BY <1>3, <1>4, <1>5, <1>6, <1>7, <1>8, <1>9, <1>10, <1>11 DEF Next

-----------------------------------------------------------------------------
\* Only the launcher that operates has anything to keep in order.
LEMMA Alone ==
    ASSUME OneAtATime, \A o \in Launcher : Goes(o)
    PROVE  /\ OneAtATime'
           /\ \A l, o \in Launcher : pc[l] \in Busy /\ o # l => pc[o] \notin Busy /\ pc'[o] \notin Busy
BY DEF OneAtATime, Goes, Stays, Advances, Busy

\* Nothing durable changes, and nobody begins, gets on with or ends an operation.
LEMMA NobodyOperates ==
    ASSUME OneAtATime, InTheMiddle, EntriesFit, UNCHANGED <<dirs, table, meant, torn>>,
           \A o \in Launcher : \/ pc'[o] = pc[o] /\ op'[o] = op[o] /\ copy'[o] = copy[o]
                               \/ pc[o] \notin Busy /\ pc'[o] \notin Busy
    PROVE  OneAtATime' /\ InTheMiddle' /\ EntriesFit'
<1>1. OneAtATime' /\ InTheMiddle' /\ Renamed' = Renamed
  BY DEF OneAtATime, InTheMiddle, Renamed, Busy
<1>2. \A l \in Renamed : op'[l] = op[l]
  BY DEF Renamed, Busy
<1>3. Spared' = Spared
  BY <1>1, <1>2 DEF Spared
<1>. QED  BY <1>1, <1>3 DEF EntriesFit, OpensAs

LEMMA InOrderKept ==
    Overlap = "pickers" /\ HInv /\ OneAtATime /\ InTheMiddle /\ EntriesFit /\ [Next]_vars
    => OneAtATime' /\ InTheMiddle' /\ EntriesFit'
<1>. SUFFICES ASSUME Overlap = "pickers", HInv, OneAtATime, InTheMiddle, EntriesFit, [Next]_vars
              PROVE  OneAtATime' /\ InTheMiddle' /\ EntriesFit'
  OBVIOUS
<1>a. TypeOK /\ OperationsFit /\ OnePlaceEach /\ NoDir \notin Conv /\ NoEntry \notin Build
  BY ConstantsAssumption DEF HInv
<1>b. /\ pc \in [Launcher -> Places] /\ op \in [Launcher -> Operation] /\ copy \in [Launcher -> Table]
      /\ TypedLaunchers /\ TypedHost
      /\ dirs \in [Id -> Conv \cup {NoDir}] /\ table \in Table /\ meant \in [Conv -> Build] /\ torn \subseteq Conv
  BY <1>a, Types DEF TypedLaunchers, TypedHost
<1>1. ASSUME NEW l \in Launcher, Look(l) \/ Quit(l) \/ ListRunning(l) \/ \E i \in Id : StopOne(l, i)
      PROVE  OneAtATime' /\ InTheMiddle' /\ EntriesFit'
  <2>1. /\ UNCHANGED <<dirs, table, meant, torn, op, copy>> /\ pc[l] \notin Busy /\ pc'[l] \notin Busy
        /\ \A o \in Launcher : o # l => pc'[o] = pc[o]
    BY <1>b, <1>1 DEF Look, Quit, ListRunning, StopOne, Busy
  <2>. QED  BY <2>1, NobodyOperates
<1>2. ASSUME NEW i \in Id, ContainerEnds(i)
      PROVE  OneAtATime' /\ InTheMiddle' /\ EntriesFit'
  BY <1>2, NobodyOperates DEF ContainerEnds
<1>3. CASE UNCHANGED vars
  BY <1>3, NobodyOperates DEF vars
<1>4. ASSUME NEW l \in Launcher,
              \/ \E i \in Id : PickDelete(l, i) \/ PickContinue(l, i) \/ Target(l, i)
              \/ \E i, j \in Id, b \in Build : PickModify(l, i, j, b)
              \/ \E j \in Id, b \in Build : PickCreate(l, j, b)
       PROVE  OneAtATime' /\ InTheMiddle' /\ EntriesFit'
  <2>1. PICK place \in Busy, kind \in {"delete", "modify", "launch"}, old \in Id, new \in Id, build \in Build :
            Begun(l, place, kind, old, new, build)
    BY <1>4, <1>a, BeginsAre
  <2>2. \A o \in Launcher : o # l => pc[o] \notin Busy /\ pc'[o] \notin Busy
    BY <2>1 DEF Begun, MayAct
  <2>3. pc[l] \notin Busy /\ Renamed = {} /\ Renamed' = {}
    BY <2>1, <2>2 DEF Begun, Renamed, Busy
  <2>4. OneAtATime' /\ InTheMiddle'
    BY <2>1, <2>2 DEF Begun, OneAtATime, InTheMiddle, Busy, Renamed
  <2>5. UNCHANGED <<dirs, table, meant, torn>> /\ Spared = torn /\ Spared' = torn
    BY <2>1, <2>3 DEF Begun, Spared
  <2>. QED  BY <2>4, <2>5 DEF EntriesFit, OpensAs
\* From here on the launcher that steps is the only one that operates.
<1>c. ASSUME NEW l \in Launcher, pc[l] \in Busy, \A o \in Launcher : Goes(o)
      PROVE  /\ OneAtATime' /\ Renamed \subseteq {l} /\ Renamed' \subseteq {l}
             /\ \A o \in Launcher : pc'[o] \in Busy => o = l
             /\ Spared = torn \cup (IF l \in Renamed THEN {dirs[op[l].new]} ELSE {})
             /\ Spared' = torn' \cup (IF l \in Renamed' THEN {dirs'[op'[l].new]} ELSE {})
  <2>1. /\ OneAtATime' /\ \A o \in Launcher : pc'[o] \in Busy => o = l
        /\ \A o \in Launcher : pc[o] \in Busy => o = l
    BY <1>c, Alone
  <2>2. Renamed \subseteq {l} /\ Renamed' \subseteq {l}
    BY <2>1 DEF Renamed, Busy
  <2>. QED  BY <2>1, <2>2 DEF Spared
<1>5. ASSUME NEW l \in Launcher, Crash(l)
      PROVE  OneAtATime' /\ InTheMiddle' /\ EntriesFit'
  <2>1. /\ pc[l] \in Busy /\ pc'[l] = "off" /\ UNCHANGED <<dirs, table, meant>>
        /\ torn' = IF l \in Renamed THEN torn \cup ({dirs[op[l].new]} \cap Conv) ELSE torn
    BY <1>b, <1>5, OverTyped DEF Crash, Renamed
  <2>2. \A o \in Launcher : Goes(o)
    BY <1>5, <1>a, Going
  <2>3. /\ OneAtATime' /\ \A o \in Launcher : pc'[o] \in Busy => o = l
        /\ Spared = torn \cup (IF l \in Renamed THEN {dirs[op[l].new]} ELSE {})
        /\ Spared' = torn' \cup (IF l \in Renamed' THEN {dirs'[op'[l].new]} ELSE {})
    BY <1>c, <2>1, <2>2
  <2>4. InTheMiddle'
    BY <2>1, <2>3 DEF InTheMiddle, Busy, Renamed
  <2>5. \A c \in Conv : c \notin Spared' => c \notin Spared
    BY <2>1, <2>3
  <2>6. EntriesFit'
    BY <2>1, <2>5 DEF EntriesFit, OpensAs
  <2>. QED  BY <2>3, <2>4, <2>6
<1>6. ASSUME NEW l \in Launcher, CheckRunning(l) \/ Load(l)
      PROVE  OneAtATime' /\ InTheMiddle' /\ EntriesFit'
  <2>1. pc[l] \in Busy /\ UNCHANGED <<dirs, table, meant, torn>>
    BY <1>6 DEF CheckRunning, Load, Busy
  <2>2. \A o \in Launcher : Goes(o)
    BY <1>6, <1>a, Going
  <2>3. /\ OneAtATime' /\ \A o \in Launcher : pc'[o] \in Busy => o = l
        /\ Spared = torn \cup (IF l \in Renamed THEN {dirs[op[l].new]} ELSE {})
        /\ Spared' = torn' \cup (IF l \in Renamed' THEN {dirs'[op'[l].new]} ELSE {})
    BY <1>c, <2>1, <2>2
  <2>4. \/ pc[l] = "probe" /\ (pc'[l] = "off" \/ (pc'[l] = "load" /\ op'[l] = op[l])) /\ op[l].kind = "launch"
        \/ pc[l] = "load" /\ pc'[l] = "save" /\ op'[l] = op[l] /\ copy'[l] = table
    <3>1. CASE CheckRunning(l)
      <4>1. pc[l] = "probe" /\ op[l].kind = "launch"
        BY <1>a, <3>1 DEF CheckRunning, OperationsFit, Busy
      <4>2. CASE Over(l)
        BY <1>b, <4>1, <4>2, OverTyped
      <4>3. CASE pc' = [pc EXCEPT ![l] = "load"] /\ op' = op
        BY <1>b, <4>1, <4>3
      <4>. QED  BY <3>1, <4>2, <4>3 DEF CheckRunning
    <3>2. CASE Load(l)
      BY <1>b, <3>2 DEF Load
    <3>. QED  BY <1>6, <3>1, <3>2
  <2>5. InTheMiddle'
    BY <2>1, <2>3, <2>4 DEF InTheMiddle, Busy, Renamed
  <2>6. Spared' = Spared
    BY <2>1, <2>3, <2>4 DEF Renamed
  <2>. QED  BY <2>1, <2>3, <2>5, <2>6 DEF EntriesFit, OpensAs
<1>7. ASSUME NEW l \in Launcher, RemoveDir(l)
      PROVE  OneAtATime' /\ InTheMiddle' /\ EntriesFit'
  <2>1. /\ pc[l] = "remove" /\ pc[l] \in Busy /\ table' = table
        /\ op[l].kind = "delete" /\ op[l].old \in Id /\ op[l].new = op[l].old
    BY <1>a, <1>7 DEF RemoveDir, Busy, OperationsFit
  <2>2. \A o \in Launcher : Goes(o)
    BY <1>7, <1>a, Going
  <2>3. /\ OneAtATime' /\ \A o \in Launcher : pc'[o] \in Busy => o = l
        /\ Spared = torn \cup (IF l \in Renamed THEN {dirs[op[l].new]} ELSE {})
        /\ Spared' = torn' \cup (IF l \in Renamed' THEN {dirs'[op'[l].new]} ELSE {})
    BY <1>c, <2>1, <2>2
  <2>4. CASE Over(l) /\ UNCHANGED <<dirs, meant, torn>>
    <3>1. pc'[l] = "off"
      BY <1>b, <2>4, OverTyped
    <3>2. InTheMiddle' /\ Spared' = Spared
      BY <2>1, <2>3, <2>4, <3>1 DEF InTheMiddle, Busy, Renamed
    <3>. QED  BY <2>1, <2>3, <2>4, <3>2 DEF EntriesFit, OpensAs
  <2>5. CASE /\ dirs' = [dirs EXCEPT ![op[l].old] = NoDir] /\ pc' = [pc EXCEPT ![l] = "load"] /\ op' = op
             /\ meant' = [c \in Conv |-> IF c = dirs[op[l].old] THEN Lego ELSE meant[c]]
             /\ torn' = torn \ {dirs[op[l].old]}
    <3>1. pc'[l] = "load" /\ dirs'[op[l].old] = NoDir /\ \A i \in Id : i # op[l].old => dirs'[i] = dirs[i]
      BY <1>b, <2>1, <2>5
    <3>2. InTheMiddle'
      BY <2>1, <2>3, <2>5, <3>1 DEF InTheMiddle, Busy, Renamed
    <3>3. Spared = torn /\ Spared' = torn \ {dirs[op[l].old]}
      BY <2>1, <2>3, <2>5 DEF Renamed
    <3>4. ASSUME NEW i \in Id, dirs'[i] \in Conv \ Spared'
          PROVE  OpensAs(i)' = meant'[dirs'[i]]
      <4>1. i # op[l].old /\ dirs'[i] = dirs[i] /\ dirs[i] # dirs[op[l].old] /\ dirs[i] \in Conv \ Spared
        BY <1>a, <2>1, <3>1, <3>3, <3>4 DEF OnePlaceEach
      <4>2. OpensAs(i) = meant[dirs[i]] /\ meant'[dirs[i]] = meant[dirs[i]]
        BY <2>5, <4>1 DEF EntriesFit
      <4>. QED  BY <2>1, <4>1, <4>2 DEF OpensAs
    <3>. QED  BY <2>3, <3>2, <3>4 DEF EntriesFit
  <2>. QED  BY <1>7, <2>4, <2>5 DEF RemoveDir
<1>8. ASSUME NEW l \in Launcher, Move(l)
      PROVE  OneAtATime' /\ InTheMiddle' /\ EntriesFit'
  <2>1. /\ pc[l] = "move" /\ pc[l] \in Busy /\ UNCHANGED <<table, meant, torn>>
        /\ op[l].kind = "modify" /\ op[l].old \in Id /\ op[l].new \in Id /\ op[l].new # op[l].old
    BY <1>a, <1>8 DEF Move, Busy, OperationsFit
  <2>2. \A o \in Launcher : Goes(o)
    BY <1>8, <1>a, Going
  <2>3. /\ OneAtATime' /\ \A o \in Launcher : pc'[o] \in Busy => o = l
        /\ Spared = torn \cup (IF l \in Renamed THEN {dirs[op[l].new]} ELSE {})
        /\ Spared' = torn' \cup (IF l \in Renamed' THEN {dirs'[op'[l].new]} ELSE {})
    BY <1>c, <2>1, <2>2
  <2>4. CASE Over(l) /\ UNCHANGED dirs
    <3>1. pc'[l] = "off"
      BY <1>b, <2>4, OverTyped
    <3>2. InTheMiddle' /\ Spared' = Spared
      BY <2>1, <2>3, <2>4, <3>1 DEF InTheMiddle, Busy, Renamed
    <3>. QED  BY <2>1, <2>3, <2>4, <3>2 DEF EntriesFit, OpensAs
  <2>5. CASE /\ dirs' = [dirs EXCEPT ![op[l].new] = dirs[op[l].old], ![op[l].old] = NoDir]
             /\ pc' = [pc EXCEPT ![l] = "load"] /\ op' = op
    <3>1. /\ pc'[l] = "load" /\ dirs'[op[l].old] = NoDir /\ dirs'[op[l].new] = dirs[op[l].old]
          /\ \A i \in Id : i # op[l].old /\ i # op[l].new => dirs'[i] = dirs[i]
      BY <1>b, <2>1, <2>5
    <3>2. l \in Renamed' /\ l \notin Renamed
      BY <2>1, <2>5, <3>1 DEF Renamed
    <3>3. InTheMiddle'
      BY <2>1, <2>3, <2>5, <3>1, <3>2 DEF InTheMiddle, Busy, Renamed
    <3>4. Spared = torn /\ Spared' = torn \cup {dirs'[op[l].new]}
      BY <2>1, <2>3, <2>5, <3>2
    <3>5. ASSUME NEW i \in Id, dirs'[i] \in Conv \ Spared'
          PROVE  OpensAs(i)' = meant'[dirs'[i]]
      <4>1. i # op[l].old /\ i # op[l].new /\ dirs'[i] = dirs[i] /\ dirs[i] \in Conv \ Spared
        BY <1>a, <3>1, <3>4, <3>5
      <4>. QED  BY <2>1, <4>1 DEF EntriesFit, OpensAs
    <3>. QED  BY <2>3, <3>3, <3>5 DEF EntriesFit
  <2>. QED  BY <1>8, <2>4, <2>5 DEF Move
<1>9. ASSUME NEW l \in Launcher, Save(l)
      PROVE  OneAtATime' /\ InTheMiddle' /\ EntriesFit'
  <2>. DEFINE c == dirs[op[l].new]
  <2>1. /\ pc[l] = "save" /\ pc[l] \in Busy /\ dirs' = dirs
        /\ op[l].old \in Id /\ op[l].new \in Id /\ op[l].build \in Build
        /\ op[l].kind \in {"delete", "modify", "launch"}
        /\ op[l].kind \in {"delete", "launch"} => op[l].new = op[l].old
    BY <1>a, <1>b, <1>9 DEF Save, Busy, OperationsFit, Operation
  <2>2. \A o \in Launcher : Goes(o)
    BY <1>9, <1>a, Going
  <2>3. /\ OneAtATime' /\ \A o \in Launcher : pc'[o] \in Busy => o = l
        /\ Spared = torn \cup (IF l \in Renamed THEN {dirs[op[l].new]} ELSE {})
        /\ Spared' = torn' \cup (IF l \in Renamed' THEN {dirs'[op'[l].new]} ELSE {})
    BY <1>c, <2>1, <2>2
  <2>4. table' = Changed(table, op[l])
    BY <1>9, <2>1 DEF Save, InTheMiddle
  <2>5. /\ op[l].kind = "delete" => table'[op[l].old] = NoEntry
        /\ op[l].kind # "delete" => table'[op[l].new] = op[l].build
        /\ \A i \in Id : i # op[l].old /\ i # op[l].new => table'[i] = table[i]
    BY <1>b, <2>1, <2>4 DEF Changed, Table
  <2>6. /\ op[l].kind = "delete" => c = NoDir
        /\ op[l].new # op[l].old => dirs[op[l].old] = NoDir
    BY <2>1 DEF InTheMiddle, Renamed
  <2>7. /\ op[l].kind = "launch" => pc'[l] = "stage" /\ op'[l] = op[l]
        /\ op[l].kind # "launch" => pc'[l] = "off"
    <3>1. CASE op[l].kind = "launch"
      BY <1>b, <1>9, <3>1 DEF Save
    <3>2. CASE op[l].kind # "launch"
      BY <1>b, <1>9, <3>2, OverTyped DEF Save
    <3>. QED  BY <3>1, <3>2
  <2>8. InTheMiddle'
    BY <2>1, <2>3, <2>5, <2>7 DEF InTheMiddle, Busy, Renamed
  <2>9. Spared' = torn' /\ Spared \subseteq torn \cup {c}
    BY <2>3, <2>7 DEF Renamed
  <2>10. /\ c \in Conv /\ op[l].kind # "delete" => meant'[c] = op[l].build /\ torn' = torn \ {c}
         /\ c \notin Conv => torn' = torn
         /\ \A d \in Conv : d # c => meant'[d] = meant[d]
    BY <1>b, <1>9 DEF Save
  <2>. HIDE DEF c
  <2>11. ASSUME NEW i \in Id, dirs[i] \in Conv \ Spared'
         PROVE  OpensAs(i)' = meant'[dirs[i]]
    <3>1. CASE i = op[l].new
      <4>1. dirs[i] = c /\ c \in Conv /\ op[l].kind # "delete"
        BY <1>a, <2>6, <2>11, <3>1 DEF c
      <4>2. table'[i] = op[l].build /\ meant'[c] = op[l].build
        BY <2>5, <2>10, <3>1, <4>1
      <4>. QED  BY <1>a, <2>1, <4>1, <4>2 DEF OpensAs
    <3>2. CASE i # op[l].new
      <4>1. i # op[l].old
        BY <1>a, <2>6, <2>11, <3>2
      <4>2. dirs[i] # c
        BY <1>a, <2>1, <2>11, <3>2 DEF OnePlaceEach, c
      <4>3. dirs[i] \notin Spared
        BY <2>1, <2>9, <2>10, <2>11, <2>6, <4>2, <1>a
      <4>4. OpensAs(i) = meant[dirs[i]]
        BY <2>11, <4>3 DEF EntriesFit
      <4>. QED  BY <2>5, <2>10, <2>11, <3>2, <4>1, <4>2, <4>4 DEF OpensAs
    <3>. QED  BY <3>1, <3>2
  <2>. QED  BY <2>1, <2>3, <2>8, <2>11 DEF EntriesFit
<1>d. ASSUME NEW l \in Launcher, pc[l] \in {"stage", "run"}, WithDir(l), table' = table, torn' = torn,
             pc'[l] \in {"run", "off"}, pc'[l] = "run" => op'[l] = op[l], \A o \in Launcher : Goes(o)
      PROVE  OneAtATime' /\ InTheMiddle' /\ EntriesFit'
  <2>1. /\ pc[l] \in Busy /\ op[l] \in Operation /\ op[l].kind = "launch"
        /\ op[l].build \in Build /\ table[op[l].new] = op[l].build
    BY <1>a, <1>b, <1>d DEF Busy, OperationsFit, InTheMiddle, Operation
  <2>2. /\ OneAtATime' /\ \A o \in Launcher : pc'[o] \in Busy => o = l
        /\ Spared = torn \cup (IF l \in Renamed THEN {dirs[op[l].new]} ELSE {})
        /\ Spared' = torn' \cup (IF l \in Renamed' THEN {dirs'[op'[l].new]} ELSE {})
    BY <1>c, <1>d, <2>1
  <2>3. /\ op[l].new \in Id /\ dirs'[op[l].new] \in Conv
        /\ \A k \in Id : k # op[l].new => dirs'[k] = dirs[k]
        /\ \/ UNCHANGED <<dirs, meant>>
           \/ /\ dirs[op[l].new] = NoDir /\ meant'[dirs'[op[l].new]] = op[l].build
              /\ \A c \in Conv : c # dirs'[op[l].new] => meant'[c] = meant[c]
              /\ \A k \in Id : dirs[k] # dirs'[op[l].new]
    BY <1>a, <1>b, <1>d, <2>1, DirEnsured
  <2>4. InTheMiddle'
    BY <1>d, <2>1, <2>2 DEF InTheMiddle, Busy, Renamed
  <2>5. Spared' = Spared
    BY <1>d, <2>2 DEF Renamed
  <2>6. ASSUME NEW i \in Id, dirs'[i] \in Conv \ Spared'
        PROVE  OpensAs(i)' = meant'[dirs'[i]]
    <3>1. CASE UNCHANGED <<dirs, meant>>
      BY <1>d, <2>5, <2>6, <3>1 DEF EntriesFit, OpensAs
    <3>2. CASE /\ dirs[op[l].new] = NoDir /\ meant'[dirs'[op[l].new]] = op[l].build
               /\ \A c \in Conv : c # dirs'[op[l].new] => meant'[c] = meant[c]
               /\ \A k \in Id : dirs[k] # dirs'[op[l].new]
      <4>1. CASE i = op[l].new
        BY <1>a, <1>d, <2>1, <3>2, <4>1 DEF OpensAs
      <4>2. CASE i # op[l].new
        BY <1>d, <2>3, <2>5, <2>6, <3>2, <4>2 DEF EntriesFit, OpensAs
      <4>. QED  BY <4>1, <4>2
    <3>. QED  BY <2>3, <3>1, <3>2
  <2>. QED  BY <2>2, <2>4, <2>6 DEF EntriesFit
<1>e. ASSUME NEW l \in Launcher, pc[l] \in {"stage", "run"}, UNCHANGED <<dirs, table, meant, torn>>,
             pc'[l] = "off", \A o \in Launcher : Goes(o)
      PROVE  OneAtATime' /\ InTheMiddle' /\ EntriesFit'
  <2>1. pc[l] \in Busy
    BY <1>e DEF Busy
  <2>2. /\ OneAtATime' /\ \A o \in Launcher : pc'[o] \in Busy => o = l
        /\ Spared = torn \cup (IF l \in Renamed THEN {dirs[op[l].new]} ELSE {})
        /\ Spared' = torn' \cup (IF l \in Renamed' THEN {dirs'[op'[l].new]} ELSE {})
    BY <1>c, <1>e, <2>1
  <2>3. InTheMiddle' /\ Spared' = Spared
    BY <1>e, <2>2 DEF InTheMiddle, Busy, Renamed
  <2>. QED  BY <1>e, <2>2, <2>3 DEF EntriesFit, OpensAs
<1>10. ASSUME NEW l \in Launcher, Stage(l)
       PROVE  OneAtATime' /\ InTheMiddle' /\ EntriesFit'
  <2>1. \A o \in Launcher : Goes(o)
    BY <1>10, <1>a, Going
  <2>2. pc[l] = "stage" /\ UNCHANGED <<table, torn>>
    BY <1>10 DEF Stage
  <2>3. CASE WithDir(l) /\ pc' = [pc EXCEPT ![l] = "run"] /\ op' = op
    BY <1>b, <1>d, <2>1, <2>2, <2>3
  <2>4. CASE Over(l) /\ UNCHANGED <<dirs, meant>>
    BY <1>b, <1>e, <2>1, <2>2, <2>4, OverTyped
  <2>. QED  BY <1>10, <2>3, <2>4 DEF Stage
<1>11. ASSUME NEW l \in Launcher, Run(l)
       PROVE  OneAtATime' /\ InTheMiddle' /\ EntriesFit'
  <2>1. \A o \in Launcher : Goes(o)
    BY <1>11, <1>a, Going
  <2>2. pc[l] = "run" /\ pc'[l] = "off" /\ UNCHANGED <<table, torn>>
    BY <1>b, <1>11 DEF Run
  <2>3. WithDir(l) \/ UNCHANGED <<dirs, meant>>
    BY <1>11 DEF Run
  <2>. QED  BY <1>d, <1>e, <2>1, <2>2, <2>3
<1>. QED  BY <1>1, <1>2, <1>3, <1>4, <1>5, <1>6, <1>7, <1>8, <1>9, <1>10, <1>11 DEF Next

-----------------------------------------------------------------------------
LEMMA Initially == Init => HInv /\ OneAtATime /\ InTheMiddle /\ EntriesFit
<1>. SUFFICES ASSUME Init PROVE HInv /\ OneAtATime /\ InTheMiddle /\ EntriesFit
  OBVIOUS
<1>. USE ConstantsAssumption
<1>1. TypedLaunchers
  BY Nothing DEF Init, TypedLaunchers, Places
<1>2. TypedHost
  BY DEF Init, TypedHost, Table
<1>3. OperationsFit /\ MenusAreHonest /\ OneAtATime /\ InTheMiddle /\ Renamed = {}
  BY DEF Init, OperationsFit, MenusAreHonest, OneAtATime, InTheMiddle, Renamed, Busy
<1>4. OnePlaceEach
  BY DEF Init, OnePlaceEach
<1>5. EntriesFit
  BY DEF Init, EntriesFit, OpensAs
<1>. QED  BY <1>1, <1>2, <1>3, <1>4, <1>5, Types DEF HInv

\* What holds however launchers overlap: operations fit their places, no two
\* directories hold one conversation, and menus are as docker answered.
THEOREM HostInvariant == Spec => []HInv
<1>1. Init => HInv
  BY Initially
<1>. QED  BY <1>1, HInvKept, PTL DEF Spec

\* One operation at a time on a host, menus open beside it: whatever directory a
\* conversation has come to, it opens with the build it was last launched or
\* edited with (modify_instance, delete_instance, the store's load and save).
THEOREM EntriesAreMeant == ASSUME Overlap = "pickers" PROVE Spec => []EntryIsAsMeant
<1>1. Init => IInv
  BY Initially DEF IInv
<1>2. IInv /\ [Next]_vars => IInv'
  BY HInvKept, InOrderKept DEF IInv
<1>3. IInv => EntryIsAsMeant
  <2>1. Renamed \subseteq {l \in Launcher : op[l].kind = "modify" /\ pc[l] \in {"load", "save"}}
    BY DEF Renamed
  <2>2. Spared \subseteq torn \cup UnderWay
    BY <2>1 DEF Spared, UnderWay
  <2>. QED  BY <2>2 DEF IInv, HInv, EntriesFit, EntryIsAsMeant
<1>. QED  BY <1>1, <1>2, <1>3, PTL DEF Spec

\* However many launchers work at once, only the confirmed deletion of its
\* instance takes a conversation off the disk (delete_instance; modify_instance
\* and ensure_dir never write over one).
THEOREM NoConversationIsLost == Spec => ConversationsSurvive
<1>. DEFINE Survives(i) ==
       dirs[i] \in OnDisk \ {dirs'[j] : j \in Id} => \E l \in Launcher : pc[l] = "remove" /\ op[l].old = i
<1>1. ASSUME HInv, [Next]_vars, NEW i \in Id
      PROVE  Survives(i)
  <2>a. /\ TypeOK /\ OperationsFit /\ OnePlaceEach /\ TypedLaunchers /\ TypedHost
        /\ dirs \in [Id -> Conv \cup {NoDir}] /\ op \in [Launcher -> Operation] /\ NoDir \notin Conv
    BY <1>1, Types, ConstantsAssumption DEF HInv, TypedLaunchers, TypedHost
  <2>1. ASSUME \E j \in Id : dirs'[j] = dirs[i] \/ dirs[i] = NoDir
        PROVE  Survives(i)
    BY <2>1 DEF OnDisk
  <2>2. CASE UNCHANGED dirs
    BY <2>1, <2>2
  <2>3. ASSUME NEW l \in Launcher, RemoveDir(l)
        PROVE  Survives(i)
    <3>1. pc[l] = "remove" /\ op[l].old \in Id
      BY <2>a, <2>3 DEF RemoveDir, OperationsFit, Busy
    <3>2. CASE i = op[l].old
      BY <3>1, <3>2
    <3>3. CASE i # op[l].old
      <4>1. dirs'[i] = dirs[i]
        BY <2>a, <2>3, <3>1, <3>3 DEF RemoveDir
      <4>. QED  BY <2>1, <4>1
    <3>. QED  BY <3>2, <3>3
  <2>4. ASSUME NEW l \in Launcher, Move(l)
        PROVE  Survives(i)
    <3>1. op[l].old \in Id /\ op[l].new \in Id /\ op[l].new # op[l].old
      BY <2>a, <2>4 DEF Move, OperationsFit, Busy
    <3>2. CASE UNCHANGED dirs
      BY <2>1, <3>2
    <3>3. CASE ~Taken(op[l].new) /\ dirs' = [dirs EXCEPT ![op[l].new] = dirs[op[l].old], ![op[l].old] = NoDir]
      <4>1. dirs'[op[l].new] = dirs[op[l].old] /\ \A k \in Id : k # op[l].old /\ k # op[l].new => dirs'[k] = dirs[k]
        BY <2>a, <3>1, <3>3
      <4>2. dirs[op[l].new] = NoDir
        BY <3>3 DEF Taken
      <4>. QED  BY <2>1, <3>1, <4>1, <4>2
    <3>. QED  BY <2>4, <3>2, <3>3 DEF Move
  <2>5. ASSUME NEW l \in Launcher, pc[l] \in Busy, WithDir(l)
        PROVE  Survives(i)
    <3>1. op[l] \in Operation
      BY <2>a
    <3>2. /\ \A k \in Id : k # op[l].new => dirs'[k] = dirs[k]
          /\ UNCHANGED dirs \/ dirs[op[l].new] = NoDir
      BY <2>a, <2>5, <3>1, DirEnsured
    <3>. QED  BY <2>1, <2>2, <3>2
  <2>6. ASSUME NEW l \in Launcher, Stage(l) \/ Run(l)
        PROVE  Survives(i)
    <3>1. pc[l] \in Busy /\ (UNCHANGED dirs \/ WithDir(l))
      BY <2>6 DEF Stage, Run, Busy
    <3>. QED  BY <2>2, <2>5, <3>1
  <2>. QED
    BY <1>1, <2>2, <2>3, <2>4, <2>6
    DEF Next, Look, Quit, Crash, Load, Save, CheckRunning, ListRunning, StopOne, PickDelete, PickContinue, Target,
        PickModify, PickCreate, Begin, ContainerEnds, vars
<1>2. HInv /\ [Next]_vars => [\A i \in Id : Survives(i)]_vars
  BY <1>1
<1>. QED  BY <1>2, HostInvariant, PTL DEF Spec, ConversationsSurvive

\* A directory is moved or deleted under its container only by a launcher whose
\* menu was drawn before the container started, or without docker's answer
\* (the picker's rows, _DockerPs).
THEOREM MenusSpare == Spec => MenuSparesWhatItShowed
<1>. DEFINE Spares(i) ==
       (running[i] \in Conv /\ dirs[i] = running[i] /\ dirs'[i] # dirs[i]) =>
           \E l \in Launcher : pc[l] \in {"remove", "move"} /\ op[l].old = i /\ i \in unseen[l]
<1>1. ASSUME HInv, [Next]_vars, NEW i \in Id
      PROVE  Spares(i)
  <2>a. /\ TypeOK /\ OperationsFit /\ OnePlaceEach /\ MenusAreHonest /\ TypedLaunchers /\ TypedHost
        /\ dirs \in [Id -> Conv \cup {NoDir}] /\ op \in [Launcher -> Operation] /\ NoDir \notin Conv /\ Nobody \notin Conv
    BY <1>1, Types, ConstantsAssumption DEF HInv, TypedLaunchers, TypedHost
  <2>1. CASE dirs[i] = NoDir \/ dirs'[i] = dirs[i]
    BY <2>a, <2>1
  <2>2. ASSUME NEW l \in Launcher, pc[l] \in {"remove", "move"}, op[l].old = i
        PROVE  Spares(i)
    BY <2>a, <2>2 DEF MenusAreHonest
  <2>3. ASSUME NEW l \in Launcher, RemoveDir(l)
        PROVE  Spares(i)
    <3>1. i = op[l].old \/ dirs'[i] = dirs[i]
      BY <2>a, <2>3 DEF RemoveDir
    <3>. QED  BY <2>1, <2>2, <2>3, <3>1 DEF RemoveDir
  <2>4. ASSUME NEW l \in Launcher, Move(l)
        PROVE  Spares(i)
    <3>1. i = op[l].old \/ dirs'[i] = dirs[i] \/ dirs[i] = NoDir
      BY <2>a, <2>4 DEF Move, Taken
    <3>. QED  BY <2>1, <2>2, <2>4, <3>1 DEF Move
  <2>5. ASSUME NEW l \in Launcher, pc[l] \in Busy, WithDir(l)
        PROVE  Spares(i)
    <3>1. op[l] \in Operation
      BY <2>a
    <3>2. /\ \A k \in Id : k # op[l].new => dirs'[k] = dirs[k]
          /\ UNCHANGED dirs \/ dirs[op[l].new] = NoDir
      BY <2>a, <2>5, <3>1, DirEnsured
    <3>. QED  BY <2>1, <3>2
  <2>6. ASSUME NEW l \in Launcher, Stage(l) \/ Run(l)
        PROVE  Spares(i)
    <3>1. pc[l] \in Busy /\ (UNCHANGED dirs \/ WithDir(l))
      BY <2>6 DEF Stage, Run, Busy
    <3>. QED  BY <2>1, <2>5, <3>1
  <2>. QED
    BY <1>1, <2>1, <2>3, <2>4, <2>6
    DEF Next, Look, Quit, Crash, Load, Save, CheckRunning, ListRunning, StopOne, PickDelete, PickContinue, Target,
        PickModify, PickCreate, Begin, ContainerEnds, vars
<1>2. HInv /\ [Next]_vars => [\A i \in Id : Spares(i)]_vars
  BY <1>1
<1>. QED  BY <1>2, HostInvariant, PTL DEF Spec, MenuSparesWhatItShowed
=============================================================================
