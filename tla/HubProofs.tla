----------------------------- MODULE HubProofs ------------------------------
(***************************************************************************)
(* The hub, as one process at a time and as a process that ends.           *)
(*                                                                         *)
(* HubSingleton, for any number of `serve` processes, killed anywhere and  *)
(* with any pids reused: as long as no two of them decide their claim at   *)
(* once, one hub serves, the pidfile names it, and a claim is refused only *)
(* because of a pid that is in use.                                        *)
(*                                                                         *)
(* HubLifetime, for any managers and any Boot < Grace: the clock that ends *)
(* a hub (idle) is never ahead of what it stands for, the time since a     *)
(* pass met a manager (quiet) and the time a launch whose hub it is has    *)
(* been waiting for its container.                                         *)
(***************************************************************************)
EXTENDS HubSingleton, HubLifetime, TLAPS

Holding == {"serve"} \cup Releasing

\* What Serialised gives: no competitor between two calls of one claim.
OneClaimant ==
    \A p, q \in Process : pc[p] \in Claiming /\ pc[q] \in Claiming => p = q

\* A hub's file is intact until the hub itself unlinks it, and an empty file
\* belongs to the claimant about to write it.
FileOfHolder ==
    \A p \in Process :
        /\ pc[p] \in Holding => pidfile = [by |-> p, text |-> p]
        /\ pc[p] = "write" => pidfile = [by |-> p, text |-> NoPid]

\* A claimant that read the file read the name of the hub there is, if any;
\* one that decided the file is stale has no hub to fear.
ClaimantKnows ==
    \A p, q \in Process :
        /\ pc[q] = "probe" /\ pc[p] \in Holding => seen[q] = p
        /\ pc[q] \in {"clear", "create2"} => pc[p] \notin Holding

\* The second O_EXCL of a claim finds nothing in its way.
RetryFindsNoFile == \A q \in Process : pc[q] = "create2" => pidfile = NoFile

\* A process reads its own pid only in a file it wrote, so never while claiming.
OwnNameIsWrittenLast ==
    \A q \in Process :
        /\ pc[q] \in {"unborn"} \cup Claiming => pidfile.text # q
        /\ pc[q] = "probe" => seen[q] # q

IInv == TypeOK /\ OneClaimant /\ FileOfHolder /\ ClaimantKnows /\ RetryFindsNoFile
        /\ OwnNameIsWrittenLast

\* No system call leaves the types.
LEMMA TypeStep == TypeOK /\ [Next]_vars => TypeOK'
<1>. USE DEF TypeOK, Claiming, Releasing, Ended
<1>. SUFFICES ASSUME TypeOK, [Next]_vars PROVE TypeOK'
  OBVIOUS
<1>1. CASE UNCHANGED vars
  BY <1>1 DEF vars
<1>2. ASSUME NEW p \in Process, Start(p) PROVE TypeOK'
  BY <1>2 DEF Start, Goto
<1>3. ASSUME NEW p \in Process, Create(p) PROVE TypeOK'
  BY <1>3 DEF Create, Goto, NoFile
<1>4. ASSUME NEW p \in Process, Write(p) PROVE TypeOK'
  BY <1>4 DEF Write, Goto
<1>5. ASSUME NEW p \in Process, Look(p) PROVE TypeOK'
  BY <1>5 DEF Look, Goto
<1>6. ASSUME NEW p \in Process, Probe(p) \/ Reprobe(p) PROVE TypeOK'
  BY <1>6 DEF Probe, Reprobe, Goto
<1>7. ASSUME NEW p \in Process, Clear(p) \/ Unlink(p) PROVE TypeOK'
  BY <1>7 DEF Clear, Unlink, Goto, NoFile
<1>8. ASSUME NEW p \in Process, Stop(p) \/ Kill(p) \/ Recycle(p) PROVE TypeOK'
  BY <1>8 DEF Stop, Kill, Recycle, Goto
<1>. QED
  BY <1>1, <1>2, <1>3, <1>4, <1>5, <1>6, <1>7, <1>8 DEF Next, Step

\* Every state of the guard is well typed, whoever starts and whoever dies.
THEOREM TypeCorrect == Spec => []TypeOK
<1>1. Init => TypeOK
  BY DEF Init, TypeOK, NoFile, Claiming, Releasing, Ended
<1>. QED
  BY <1>1, TypeStep, PTL DEF Spec

\* On a host where no hub ever ran the invariant holds.
LEMMA Initially == Init => IInv
  BY ConstantsAssumption DEF Init, IInv, TypeOK, OneClaimant, FileOfHolder, ClaimantKnows,
     RetryFindsNoFile, OwnNameIsWrittenLast, NoFile, Claiming, Releasing, Holding, Ended

\* One system call of any process keeps the invariant, given the discipline.
LEMMA Inductive == ASSUME Serialised, IInv, [Next]_vars PROVE IInv'
<1>. DEFINE Rest == /\ OneClaimant /\ FileOfHolder /\ ClaimantKnows
                    /\ RetryFindsNoFile /\ OwnNameIsWrittenLast
<1>1. TypeOK /\ TypeOK'
  BY TypeStep DEF IInv
<1>2. CASE UNCHANGED vars
  BY <1>2, <1>1 DEF IInv, vars, OneClaimant, FileOfHolder, ClaimantKnows,
     RetryFindsNoFile, OwnNameIsWrittenLast
<1>. USE <1>1, ConstantsAssumption DEF IInv, TypeOK, OneClaimant, FileOfHolder,
     ClaimantKnows, RetryFindsNoFile, OwnNameIsWrittenLast, Claiming, Releasing, Holding, Ended, NoFile, Goto
<1>3. ASSUME NEW p \in Process, Start(p) PROVE Rest'
  BY <1>3 DEF Start
<1>4. ASSUME NEW p \in Process, Create(p) PROVE Rest'
  BY <1>4 DEF Create
<1>5. ASSUME NEW p \in Process, Write(p) PROVE Rest'
  BY <1>5 DEF Write
<1>6. ASSUME NEW p \in Process, Look(p) PROVE Rest'
  BY <1>6 DEF Look
<1>7. ASSUME NEW p \in Process, Probe(p) PROVE Rest'
  BY <1>7 DEF Probe, Running
<1>8. ASSUME NEW p \in Process, Clear(p) PROVE Rest'
  BY <1>8 DEF Clear
<1>9. ASSUME NEW p \in Process, Reprobe(p) PROVE Rest'
  BY <1>9 DEF Reprobe
<1>10. ASSUME NEW p \in Process, Unlink(p) PROVE Rest'
  BY <1>10 DEF Unlink
<1>11. ASSUME NEW p \in Process, Stop(p) \/ Kill(p) PROVE Rest'
  BY <1>11 DEF Stop, Kill
<1>12. ASSUME NEW p \in Process, Recycle(p) PROVE Rest'
  BY <1>12 DEF Recycle
<1>. QED
  BY <1>2, <1>3, <1>4, <1>5, <1>6, <1>7, <1>8, <1>9, <1>10, <1>11, <1>12 DEF Next, Step

\* So it always holds.
LEMMA Invariant == ASSUME Serialised PROVE Spec => []IInv
<1>1. IInv /\ [Next]_vars => IInv'
  BY Inductive
<1>. QED
  BY <1>1, Initially, PTL DEF Spec

\* "One hub per host, and only one", and the pidfile names it: for any number
\* of processes, when their claims do not overlap.
THEOREM OneHubServes ==
    ASSUME Serialised
    PROVE  Spec => [](AtMostOneServing /\ ServingIsRecorded)
<1>1. IInv => AtMostOneServing /\ ServingIsRecorded
  BY ConstantsAssumption DEF IInv, FileOfHolder, Holding, AtMostOneServing, ServingIsRecorded, Serving
<1>. QED
  BY <1>1, Invariant, PTL

\* What a crash leaves behind never turns a claimant away; only a pid in use does.
THEOREM RefusalIsJustified ==
    ASSUME Serialised
    PROVE  Spec => RefusedOnlyByALivePid
<1>. DEFINE Justified == \A p \in Process : pc[p] # "refused" /\ pc'[p] = "refused"
                             => seen[p] \in Process \ {p} /\ Running(seen[p])
<1>1. ASSUME IInv, [Next]_vars PROVE [Justified]_vars
  <2>. SUFFICES ASSUME NEW q \in Process, pc[q] # "refused", pc'[q] = "refused", Next
                PROVE  seen[q] \in Process \ {q} /\ Running(seen[q])
    BY <1>1 DEF vars
  <2>. USE <1>1 DEF IInv, TypeOK, Goto
  <2>1. CASE \E p \in Process : Create(p)
    BY <2>1 DEF Create, RetryFindsNoFile
  <2>2. CASE \E p \in Process : Probe(p)
    BY <2>2 DEF Probe, OwnNameIsWrittenLast
  <2>. QED
    BY <2>1, <2>2 DEF Next, Step, Start, Write, Look, Clear, Stop, Reprobe, Unlink, Kill, Recycle
<1>. QED
  BY <1>1, Invariant, PTL DEF Spec, RefusedOnlyByALivePid

\* The guard implements the promise OneHub states: a hub is one process at a
\* time, which takes the place only when nobody has it.
THEOREM ImplementsPromise ==
    ASSUME Serialised
    PROVE  Spec => ImplementsOneHub
<1>1. Init => Abstract!Init
  BY DEF Init, Abstract!Init, AbstractHub, Serving
<1>2. ASSUME IInv, IInv', [Next]_vars PROVE [Abstract!Next]_AbstractHub
  <2>. USE ConstantsAssumption
  <2>1. AtMostOneServing /\ AtMostOneServing'
    BY <1>2 DEF IInv, FileOfHolder, Holding, AtMostOneServing, Serving
  <2>2. \A p, q \in Process : p \in Serving /\ q \in Serving' => p = q
    <3>. SUFFICES ASSUME NEW p \in Process, NEW q \in Process,
                         p \in Serving, q \in Serving', p # q
                  PROVE  FALSE
      OBVIOUS
    <3>1. pc[p] = "serve" /\ pc'[q] = "serve" /\ pidfile.by = p
      BY <1>2 DEF Serving, IInv, FileOfHolder, Holding
    <3>2. pc[q] # "serve"
      BY <3>1, <2>1 DEF Serving, AtMostOneServing
    <3>3. Write(q)
      BY <3>1, <3>2, <1>2 DEF Next, Step, vars, IInv, TypeOK, Goto, Start, Create, Write, Look,
         Probe, Clear, Stop, Reprobe, Unlink, Kill, Recycle
    <3>. QED
      BY <3>1, <3>3, <1>2 DEF Write, IInv, FileOfHolder
  <2>3. AbstractHub = NoPid \/ AbstractHub \in Serving
    BY DEF AbstractHub
  <2>4. AbstractHub' = NoPid \/ AbstractHub' \in Serving'
    BY DEF AbstractHub
  <2>5. Serving \subseteq Process /\ Serving' \subseteq Process
    BY DEF Serving
  <2>. QED
    BY <2>2, <2>3, <2>4, <2>5 DEF Abstract!Next, Abstract!Take, Abstract!Leave
<1>. QED
  BY <1>1, <1>2, Invariant, PTL DEF Spec, ImplementsOneHub, Abstract!Spec

-----------------------------------------------------------------------------
(* HubLifetime *)

\* m's launch was told that a hub is starting for it, and m is not down again.
StartedFor(m) == mgr[m] \in {"ensured", "up"} /\ answer[m] = "starting"

\* Spawned hubs that have not claimed yet belong to a gap between two hubs, or
\* to a hub that has just begun: time does not pass in between.
BootingIsBrief == booting # {} => hub = "none" \/ (hub = "serving" /\ idle <= 0)

IdleIsNotAhead ==
    /\ idle <= quiet
    /\ \A m \in Manager : hub = "serving" /\ mgr[m] = "ensured" /\ answer[m] = "starting" => idle <= waiting[m]

LifetimeInv == StartedHubOutlastsBoot /\ BootingIsBrief /\ IdleIsNotAhead

-----------------------------------------------------------------------------
\* A pass that ends the hub comes a whole grace after one that noticed no
\* manager, and finds none up.
LEMMA StopNeedsGrace ==
    ASSUME LifetimeTypeOK, Watch, hub' = "stopping"
    PROVE  Up = {} /\ idle = Grace /\ idle' = Grace /\ idle > 0 /\ quiet' = quiet
<1>0. idle \in NotIdle..Grace
  BY DEF LifetimeTypeOK
<1>1. /\ hub = "serving" /\ docker /\ Up = {}
      /\ idle' = IF idle = NotIdle THEN 0 ELSE idle
      /\ idle' >= Grace /\ quiet' = quiet
  BY <1>0, TimingAssumption DEF Watch, NotIdle
<1>. QED  BY <1>0, <1>1, TimingAssumption DEF NotIdle

LEMMA LifetimeInductive == LifetimeInv /\ [LifetimeNext]_lifetimeVars => LifetimeInv'
<1>. SUFFICES ASSUME LifetimeInv, [LifetimeNext]_lifetimeVars
              PROVE  LifetimeInv'
  OBVIOUS
<1>. USE TimingAssumption DEF NotIdle
<1>0. /\ LifetimeTypeOK /\ BootingIsBrief /\ IdleIsNotAhead
      /\ \A m \in Manager : StartedFor(m) => hub = "serving" \/ booting # {}
  BY DEF LifetimeInv, StartedHubOutlastsBoot, StartedFor
<1>t. /\ mgr \in [Manager -> {"off", "ensured", "up", "down"}] /\ waiting \in [Manager -> 0..Boot]
      /\ answer \in [Manager -> {"none", "already", "starting"}] /\ booting \subseteq Manager
      /\ hub \in {"none", "serving", "stopping"} /\ idle \in -1..Grace /\ quiet \in 0..Grace
  BY <1>0 DEF LifetimeTypeOK
<1>1. ASSUME NEW m \in Manager, EnsureHubRunning(m)
      PROVE  LifetimeInv'
  <2>1. LifetimeTypeOK'
    BY <1>0, <1>t, <1>1 DEF EnsureHubRunning, LifetimeTypeOK
  <2>2. \A n \in Manager \ {m} : mgr'[n] = mgr[n] /\ answer'[n] = answer[n] /\ waiting'[n] = waiting[n]
    BY <1>0, <1>t, <1>1 DEF EnsureHubRunning
  <2>3. CASE hub = "none"
    <3>1. hub' = "none" /\ booting' # {} /\ idle' = idle /\ quiet' = quiet
      BY <1>1, <2>3 DEF EnsureHubRunning
    <3>. QED  BY <1>0, <1>t, <2>1, <3>1 DEF LifetimeInv, StartedHubOutlastsBoot, BootingIsBrief, IdleIsNotAhead
  <2>4. CASE hub # "none"
    <3>1. UNCHANGED <<hub, idle, quiet, booting>> /\ answer'[m] = "already"
      BY <1>0, <1>t, <1>1, <2>4 DEF EnsureHubRunning
    <3>. QED
      BY <1>0, <1>t, <2>1, <2>2, <3>1
      DEF LifetimeInv, StartedHubOutlastsBoot, StartedFor, BootingIsBrief, IdleIsNotAhead
  <2>. QED  BY <2>3, <2>4
<1>2. ASSUME NEW m \in Manager, ContainerUp(m) \/ ContainerDown(m) \/ Relaunch(m)
      PROVE  LifetimeInv'
  <2>1. LifetimeTypeOK'
    BY <1>0, <1>t, <1>2 DEF ContainerUp, ContainerDown, Relaunch, LifetimeTypeOK
  <2>2. UNCHANGED <<hub, idle, quiet, booting, waiting>>
    BY <1>2 DEF ContainerUp, ContainerDown, Relaunch
  <2>3. \A n \in Manager : /\ StartedFor(n)' => StartedFor(n)
                           /\ mgr'[n] = "ensured" => mgr[n] = "ensured" /\ answer'[n] = answer[n]
    BY <1>0, <1>t, <1>2 DEF ContainerUp, ContainerDown, Relaunch, StartedFor
  <2>. QED
    BY <1>0, <1>t, <2>1, <2>2, <2>3 DEF LifetimeInv, StartedHubOutlastsBoot, StartedFor, BootingIsBrief, IdleIsNotAhead
<1>3. ASSUME NEW m \in Manager, HubClaims(m)
      PROVE  LifetimeInv'
  <2>1. LifetimeTypeOK' /\ UNCHANGED <<mgr, answer, waiting>> /\ m \in booting /\ booting' \subseteq booting
    BY <1>0, <1>t, <1>3 DEF HubClaims, LifetimeTypeOK
  <2>2. hub' = "serving" /\ idle' \in Int /\ idle' <= 0 /\ idle' <= quiet'
    BY <1>0, <1>t, <1>3 DEF HubClaims, BootingIsBrief, IdleIsNotAhead
  <2>3. \A n \in Manager : idle' <= waiting[n]
    BY <1>0, <1>t, <2>1, <2>2
  <2>. QED  BY <2>1, <2>2, <2>3 DEF LifetimeInv, StartedHubOutlastsBoot, BootingIsBrief, IdleIsNotAhead
<1>4. CASE Watch
  <2>1. LifetimeTypeOK' /\ UNCHANGED <<mgr, answer, waiting, booting>> /\ hub = "serving"
        /\ hub' \in {"serving", "stopping"}
    BY <1>0, <1>t, <1>4 DEF Watch, LifetimeTypeOK
  <2>2. idle' <= quiet'
    BY <1>0, <1>t, <1>4 DEF Watch, IdleIsNotAhead
  <2>3. \A n \in Manager : mgr[n] = "ensured" /\ answer[n] = "starting" => idle' <= waiting[n]
    BY <1>0, <1>t, <1>4 DEF Watch, IdleIsNotAhead
  <2>4. booting # {} => hub' = "serving" /\ idle' <= 0
    <3>1. booting # {} => idle <= 0
      BY <1>0, <1>t, <2>1 DEF BootingIsBrief
    <3>2. booting # {} => hub' # "stopping"
      BY <1>0, <1>t, <1>4, <3>1, StopNeedsGrace
    <3>. QED  BY <1>0, <1>t, <1>4, <2>1, <3>1, <3>2 DEF Watch, LifetimeTypeOK
  <2>5. ASSUME NEW n \in Manager, StartedFor(n)
        PROVE  hub' = "serving"
    <3>1. SUFFICES ASSUME hub' = "stopping"
                   PROVE  FALSE
      BY <2>1
    <3>2. mgr[n] # "up" /\ idle = Grace
      BY <1>0, <1>t, <1>4, <3>1, StopNeedsGrace DEF Up
    <3>3. idle <= waiting[n]
      BY <1>0, <1>t, <2>1, <2>5, <3>2 DEF IdleIsNotAhead, StartedFor
    <3>. QED  BY <1>0, <1>t, <3>2, <3>3
  <2>. QED
    BY <2>1, <2>2, <2>3, <2>4, <2>5 DEF LifetimeInv, StartedHubOutlastsBoot, StartedFor, BootingIsBrief, IdleIsNotAhead
<1>5. CASE Release
  <2>1. LifetimeTypeOK' /\ UNCHANGED <<mgr, answer, waiting, booting, quiet>> /\ hub = "stopping" /\ hub' = "none"
        /\ idle' <= quiet
    BY <1>0, <1>t, <1>5 DEF Release, LifetimeTypeOK
  <2>. QED  BY <1>0, <1>t, <2>1 DEF LifetimeInv, StartedHubOutlastsBoot, StartedFor, BootingIsBrief, IdleIsNotAhead
<1>6. CASE Tick
  <2>1. UNCHANGED <<mgr, answer, booting, hub>> /\ booting = {}
        /\ \A m \in Manager : /\ waiting'[m] \in 0..Boot
                              /\ mgr[m] = "ensured" => waiting'[m] = waiting[m] + 1
    BY <1>0, <1>t, <1>6 DEF Tick
  <2>2. LifetimeTypeOK'
    <3>1. waiting' \in [Manager -> 0..Boot]
      BY <1>6, <2>1 DEF Tick
    <3>. QED  BY <1>0, <1>t, <1>6, <3>1 DEF Tick, LifetimeTypeOK
  <2>3. idle' \in Int /\ idle' <= quiet' /\ idle' <= idle + 1
    BY <1>0, <1>t, <1>6 DEF Tick, IdleIsNotAhead
  <2>4. \A m \in Manager : hub = "serving" /\ mgr[m] = "ensured" /\ answer[m] = "starting" => idle' <= waiting'[m]
    BY <1>0, <1>t, <2>1, <2>2, <2>3 DEF IdleIsNotAhead
  <2>. QED
    BY <1>0, <1>t, <2>1, <2>2, <2>3, <2>4 DEF LifetimeInv, StartedHubOutlastsBoot, StartedFor, BootingIsBrief, IdleIsNotAhead
<1>7. CASE DockerFlips \/ UNCHANGED lifetimeVars
  <2>1. LifetimeTypeOK' /\ UNCHANGED <<mgr, answer, waiting, booting, hub, idle, quiet>>
    BY <1>0, <1>t, <1>7 DEF DockerFlips, lifetimeVars, LifetimeTypeOK
  <2>. QED  BY <1>0, <1>t, <2>1 DEF LifetimeInv, StartedHubOutlastsBoot, StartedFor, BootingIsBrief, IdleIsNotAhead
<1>. QED  BY <1>1, <1>2, <1>3, <1>4, <1>5, <1>6, <1>7 DEF LifetimeNext, HubStep

LEMMA LifetimeInvariant == LifetimeSpec => []LifetimeInv
<1>1. LifetimeInit => LifetimeInv
  BY TimingAssumption
  DEF LifetimeInit, LifetimeInv, StartedHubOutlastsBoot, LifetimeTypeOK, BootingIsBrief, IdleIsNotAhead, NotIdle
<1>. QED  BY <1>1, LifetimeInductive, PTL DEF LifetimeSpec

\* The hub that a launch was told is starting serves, or is about to, until
\* the container it was started for is up and as long as it is (run.py,
\* ensure_hub_running; ManagerWatch).  Boot < Grace is what it takes.
THEOREM HubOutlastsBoot == LifetimeSpec => []StartedHubOutlastsBoot
<1>1. LifetimeInv => StartedHubOutlastsBoot
  BY DEF LifetimeInv
<1>. QED  BY <1>1, LifetimeInvariant, PTL

\* A pass of the hub decides to stop only when a whole grace has gone by since
\* one of its passes met a manager or a silent docker (reason_to_stop).
THEOREM StopsAfterQuietGrace == LifetimeSpec => StopsOnlyAfterQuietGrace
<1>1. ASSUME LifetimeInv, [LifetimeNext]_lifetimeVars
      PROVE  [hub = "serving" /\ hub' = "stopping" => quiet >= Grace]_lifetimeVars
  <2>. SUFFICES ASSUME LifetimeNext, hub = "serving", hub' = "stopping"
                PROVE  quiet >= Grace
    BY <1>1 DEF lifetimeVars
  <2>1. Watch
    BY DEF LifetimeNext, HubStep, EnsureHubRunning, ContainerUp, ContainerDown, Relaunch, HubClaims, Release,
       DockerFlips, Tick
  <2>2. LifetimeTypeOK /\ idle <= quiet
    BY <1>1 DEF LifetimeInv, StartedHubOutlastsBoot, IdleIsNotAhead
  <2>. QED  BY <2>1, <2>2, StopNeedsGrace, TimingAssumption DEF LifetimeTypeOK
<1>. QED  BY <1>1, LifetimeInvariant, PTL DEF LifetimeSpec, StopsOnlyAfterQuietGrace
=============================================================================
