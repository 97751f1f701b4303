---------------------------- MODULE HubLifetime -----------------------------
(***************************************************************************)
(* When a hub is started and when it ends: ensure_hub_running, called by a *)
(* {manager}'s launch just before `docker run` (run.py), against           *)
(* ManagerWatch, which the serving hub consults after each pass            *)
(* (cowork/lifecycle.py).  Time is counted in ticks.  The pidfile's claim  *)
(* is one step here, as OneHub states it; HubSingleton has its calls.      *)
(***************************************************************************)
EXTENDS Integers

CONSTANTS
    Manager,      \* the {manager} instances being launched
    Grace,        \* MANAGERLESS_GRACE_SECONDS, in ticks
    Boot          \* the longest time from ensure_hub_running to a container up

ASSUME TimingAssumption == Grace \in Nat /\ Boot \in Nat /\ Boot < Grace

VARIABLES
    mgr,          \* mgr[m]: where m's launch or container is
    waiting,      \* waiting[m]: ticks since m's launch ensured the hub
    answer,       \* answer[m]: what ensure_hub_running told m's launch
    booting,      \* launches whose spawned hub has not reached its claim
    hub,          \* the process recorded in the pidfile
    idle,         \* ticks since ManagerWatch noticed no manager (None: -1)
    docker,       \* whether `docker ps` answers
    quiet         \* ticks since the hub started, or since a pass of it last met
                  \* a manager or a silent docker, capped at Grace; no code
                  \* reads it

lifetimeVars == <<mgr, waiting, answer, booting, hub, idle, docker, quiet>>

NotIdle == -1
Up == {m \in Manager : mgr[m] = "up"}

LifetimeTypeOK ==
    /\ mgr \in [Manager -> {"off", "ensured", "up", "down"}]
    /\ waiting \in [Manager -> 0..Boot]
    /\ answer \in [Manager -> {"none", "already", "starting"}]
    /\ booting \subseteq Manager
    /\ hub \in {"none", "serving", "stopping"}
    /\ idle \in NotIdle..Grace
    /\ docker \in BOOLEAN
    /\ quiet \in 0..Grace

LifetimeInit ==
    /\ mgr = [m \in Manager |-> "off"]
    /\ waiting = [m \in Manager |-> 0]
    /\ answer = [m \in Manager |-> "none"]
    /\ booting = {}
    /\ hub = "none"
    /\ idle = NotIdle
    /\ docker = TRUE
    /\ quiet = 0

-----------------------------------------------------------------------------
\* The launch of m ensures a hub: owner() sees any live process in the file,
\* also one that has decided to stop and not released yet.
EnsureHubRunning(m) ==
    /\ mgr[m] = "off"
    /\ mgr' = [mgr EXCEPT ![m] = "ensured"]
    /\ waiting' = [waiting EXCEPT ![m] = 0]
    /\ IF hub # "none"
       THEN /\ answer' = [answer EXCEPT ![m] = "already"]
            /\ UNCHANGED booting
       ELSE /\ answer' = [answer EXCEPT ![m] = "starting"]
            /\ booting' = booting \cup {m}
    /\ UNCHANGED <<hub, idle, docker, quiet>>

\* `docker run` brings m's container up.
ContainerUp(m) ==
    /\ mgr[m] = "ensured"
    /\ mgr' = [mgr EXCEPT ![m] = "up"]
    /\ UNCHANGED <<waiting, answer, booting, hub, idle, docker, quiet>>

ContainerDown(m) ==
    /\ mgr[m] = "up"
    /\ mgr' = [mgr EXCEPT ![m] = "down"]
    /\ UNCHANGED <<waiting, answer, booting, hub, idle, docker, quiet>>

\* The same manager is launched again later.
Relaunch(m) ==
    /\ mgr[m] = "down"
    /\ mgr' = [mgr EXCEPT ![m] = "off"]
    /\ answer' = [answer EXCEPT ![m] = "none"]
    /\ UNCHANGED <<waiting, booting, hub, idle, docker, quiet>>

\* A spawned hub claims the pidfile, or finds it claimed and exits.
HubClaims(m) ==
    /\ m \in booting
    /\ booting' = booting \ {m}
    /\ IF hub = "none" THEN hub' = "serving" /\ idle' = NotIdle /\ quiet' = 0
                       ELSE UNCHANGED <<hub, idle, quiet>>
    /\ UNCHANGED <<mgr, waiting, answer, docker>>

\* Variants of Watch: no grace; an idle clock that nothing resets; an idle clock
\* that every pass resets.
WatchWithoutGrace ==
    /\ hub = "serving"
    /\ hub' = IF ~docker \/ Up # {} THEN hub ELSE "stopping"
    /\ quiet' = IF ~docker \/ Up # {} THEN 0 ELSE quiet
    /\ UNCHANGED <<mgr, waiting, answer, booting, idle, docker>>

WatchWithoutReset ==
    /\ hub = "serving"
    /\ IF ~docker \/ Up # {}
       THEN UNCHANGED <<idle, hub>>
       ELSE /\ idle' = IF idle = NotIdle THEN 0 ELSE idle
            /\ hub' = IF idle' < Grace THEN hub ELSE "stopping"
    /\ quiet' = IF ~docker \/ Up # {} THEN 0 ELSE quiet
    /\ UNCHANGED <<mgr, waiting, answer, booting, docker>>

WatchRestarting ==
    /\ hub = "serving"
    /\ idle' = 0
    /\ quiet' = IF ~docker \/ Up # {} THEN 0 ELSE quiet
    /\ UNCHANGED <<mgr, waiting, answer, booting, hub, docker>>

\* reason_to_stop after a pass: None for docker silent, or managers present.
Watch ==
    /\ hub = "serving"
    /\ IF ~docker \/ Up # {}
       THEN idle' = NotIdle /\ hub' = hub
       ELSE /\ idle' = IF idle = NotIdle THEN 0 ELSE idle
            /\ hub' = IF idle' < Grace THEN hub ELSE "stopping"
    /\ quiet' = IF ~docker \/ Up # {} THEN 0 ELSE quiet
    /\ UNCHANGED <<mgr, waiting, answer, booting, docker>>

\* serve() returned: the `finally` of _serve releases the pidfile.
Release ==
    /\ hub = "stopping"
    /\ hub' = "none"
    /\ idle' = NotIdle
    /\ UNCHANGED <<mgr, waiting, answer, booting, docker, quiet>>

DockerFlips ==
    /\ docker' = ~docker
    /\ UNCHANGED <<mgr, waiting, answer, booting, hub, idle, quiet>>

\* A container being started is up within Boot ticks, a spawned hub claims
\* within the tick: time does not pass otherwise.
Tick ==
    /\ booting = {}
    /\ \A m \in Manager : mgr[m] = "ensured" => waiting[m] < Boot
    /\ waiting' = [m \in Manager |-> IF mgr[m] = "ensured" THEN waiting[m] + 1 ELSE waiting[m]]
    /\ idle' = IF idle \in 0..(Grace - 1) THEN idle + 1 ELSE idle
    /\ quiet' = IF quiet < Grace THEN quiet + 1 ELSE quiet
    /\ UNCHANGED <<mgr, answer, booting, hub, docker>>

HubStep == Watch \/ Release

LifetimeNext ==
    \/ \E m \in Manager : EnsureHubRunning(m) \/ ContainerUp(m) \/ ContainerDown(m)
                          \/ Relaunch(m) \/ HubClaims(m)
    \/ HubStep \/ DockerFlips \/ Tick

LifetimeSpec == LifetimeInit /\ [][LifetimeNext]_lifetimeVars

\* Time passes, the hub's loop goes on, and a container asked for comes up.
LifetimeFairSpec ==
    /\ LifetimeSpec /\ WF_lifetimeVars(HubStep) /\ WF_lifetimeVars(Tick)
    /\ \A m \in Manager : WF_lifetimeVars(HubClaims(m)) /\ WF_lifetimeVars(ContainerUp(m))

-----------------------------------------------------------------------------
\* The hub a launch started outlasts the boot of the container it was started
\* for: "two gaps have to fit inside" the grace.  (A launch told "already
\* serving" has no such promise.)
StartedHubOutlastsBoot ==
    /\ LifetimeTypeOK
    /\ \A m \in Manager :
        mgr[m] \in {"ensured", "up"} /\ answer[m] = "starting" => hub = "serving" \/ booting # {}

\* A hub stops only after a whole grace period in which no pass of it met a
\* manager or a silent docker: neither a hiccup of docker nor a relaunch within
\* the grace ends it.
StopsOnlyAfterQuietGrace ==
    [][hub = "serving" /\ hub' = "stopping" => quiet >= Grace]_lifetimeVars

\* With docker answering and no manager coming up, a serving hub exits: no
\* hub outlives its managers for ever.
IdleHubExits ==
    <>[](docker /\ Up = {}) => <>[](hub # "serving")

=============================================================================
