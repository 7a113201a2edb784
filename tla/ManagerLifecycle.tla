-------------------------- MODULE ManagerLifecycle --------------------------
(***************************************************************************)
(* Starting, using and stopping a run manager (DefaultRunManager in        *)
(* manager/run-manager.ts): start, stop and the public calls interleave at *)
(* their awaits; between two awaits JavaScript runs one of them alone.     *)
(*                                                                         *)
(* Child workflows that DBOS recovers while it launches take the           *)
(* composition that is installed and wait at its readiness fence before    *)
(* they reach the host.  The child of an agent does so in its first        *)
(* provider step only: once that is stored, a recovered child replays it   *)
(* and goes on to poll the port, or to cancel, without the fence.          *)
(*                                                                         *)
(* Of DBOS it is assumed that a launch which fails has recovered nothing   *)
(* yet, and that a child does not outlive the shutdown.                    *)
(*                                                                         *)
(* A public call is abstract here; RunAdmission makes it a createRun, and  *)
(* has the specification of both.                                          *)
(***************************************************************************)
EXTENDS Naturals, FiniteSets

CONSTANTS
    MaxStarts,  \* bound: the start() calls, made one after the other; each
                \* that composes has a composition of its own
    Stops,      \* stop() calls
    Calls,      \* public calls
    Children,   \* child workflows under recovery
    Agents      \* those of agent operations

ASSUME StartsAssumption == MaxStarts \in Nat

ASSUME AgentsAssumption == Agents \subseteq Children

(* A process makes finitely many public calls in any stretch of its life.  *)
ASSUME CallsAssumption == IsFiniteSet(Calls)

VARIABLES
    lifecycle,    \* "created", "running", "stopping", "stopped"
    starts,       \* how many start() calls were made
    starting,     \* the await the start() call is in, or "none"
    composition,  \* this.composition: the start it is of, or 0
    installed,    \* activeComposition: the start it is of, or 0
    opened,       \* the starts whose fence is open
    dbos,         \* "down", "launching", "recovering", "up", "closing"
    activePublicCalls,  \* the counter that stop() waits for
    call,         \* call[c]: "idle", "active", "done", "refused"
    stop,         \* stop[t]: "idle", "draining", "shutdown", "joined", "returned"
    child,        \* child[w]: "none", "composed" once it has a composition, "host"
                  \* once it called the host, or "threw"
    fence,        \* fence[w]: the start whose composition child w has
    polling       \* the agents whose first provider step is stored

callVars == <<activePublicCalls, call>>
childVars == <<child, fence, polling>>
vars == <<lifecycle, starts, starting, composition, installed, opened, dbos,
          activePublicCalls, call, stop, childVars>>

TypeOK ==
    /\ lifecycle \in {"created", "running", "stopping", "stopped"}
    /\ starts \in 0..MaxStarts
    /\ starting \in {"none", "compatibility", "compose", "launch", "fail"}
    /\ composition \in 0..MaxStarts
    /\ installed \in 0..MaxStarts
    /\ opened \subseteq 1..MaxStarts
    /\ dbos \in {"down", "launching", "recovering", "up", "closing"}
    /\ activePublicCalls \in 0..Cardinality(Calls)
    /\ call \in [Calls -> {"idle", "active", "done", "refused"}]
    /\ stop \in [Stops -> {"idle", "draining", "shutdown", "joined", "returned"}]
    /\ child \in [Children -> {"none", "composed", "host", "threw"}]
    /\ fence \in [Children -> 0..MaxStarts]
    /\ polling \subseteq Agents

(* An earlier process may have stored the first provider step of an agent. *)
Init ==
    /\ lifecycle = "created"
    /\ starts = 0
    /\ starting = "none"
    /\ composition = 0
    /\ installed = 0
    /\ opened = {}
    /\ dbos = "down"
    /\ activePublicCalls = 0
    /\ call = [c \in Calls |-> "idle"]
    /\ stop = [t \in Stops |-> "idle"]
    /\ child = [w \in Children |-> "none"]
    /\ fence = [w \in Children |-> 0]
    /\ polling \in SUBSET Agents

(***************************************************************************)
(* start                                                                   *)
(***************************************************************************)
(* start() of a running manager returns, of a stopping one throws.         *)
Start ==
    /\ starting = "none"
    /\ starts < MaxStarts
    /\ starts' = starts + 1
    /\ starting' = IF lifecycle \in {"running", "stopping"} THEN "none" ELSE "compatibility"
    /\ UNCHANGED <<lifecycle, composition, installed, opened, dbos, callVars, stop, childVars>>

PersistedRunsCompatible ==
    /\ starting = "compatibility"
    /\ starting' = "compose"
    /\ UNCHANGED <<lifecycle, starts, composition, installed, opened, dbos, callVars, stop, childVars>>

(* createRunComposition returns, installRunComposition and DBOS.launch.    *)
Launch ==
    /\ starting = "compose"
    /\ installed = 0
    /\ installed' = starts
    /\ dbos' = "launching"
    /\ starting' = "launch"
    /\ UNCHANGED <<lifecycle, starts, composition, opened, callVars, stop, childVars>>

(* DBOS begins to recover the workflows that were pending.                 *)
Recovers ==
    /\ starting = "launch"
    /\ dbos = "launching"
    /\ dbos' = "recovering"
    /\ UNCHANGED <<lifecycle, starts, starting, composition, installed, opened, callVars,
                   stop, childVars>>

(* The persisted runs are incompatible, or there is a composition already. *)
InitializationFails ==
    /\ starting \in {"compatibility", "compose"}
    /\ starting' = "none"
    /\ UNCHANGED <<lifecycle, starts, composition, installed, opened, dbos, callVars, stop, childVars>>

Launched ==
    /\ dbos = "recovering"
    /\ dbos' = "up"
    /\ opened' = opened \cup {starts}
    /\ composition' = starts
    /\ lifecycle' = "running"
    /\ starting' = "none"
    /\ UNCHANGED <<starts, installed, callVars, stop, childVars>>

(* DBOS.launch throws: the composition is cleared before DBOS is shut down. *)
LaunchFails ==
    /\ starting = "launch"
    /\ dbos = "launching"
    /\ installed' = IF installed = starts THEN 0 ELSE installed
    /\ starting' = "fail"
    /\ UNCHANGED <<lifecycle, starts, composition, opened, dbos, callVars, stop, childVars>>

FailedLaunchShutsDown ==
    /\ starting = "fail"
    /\ dbos' = "down"
    /\ starting' = "none"
    /\ UNCHANGED <<lifecycle, starts, composition, installed, opened, callVars, stop, childVars>>

(***************************************************************************)
(* Public calls: withPublicCall, and subscribeRunEvents likewise.          *)
(* A call made within a call is part of it and is not counted.             *)
(***************************************************************************)
(* A mutant of EnterPublicCall: a refused call is counted, too.            *)
EnterPublicCallCounted(c) ==
    /\ call[c] = "idle"
    /\ activePublicCalls' = activePublicCalls + 1
    /\ call' = [call EXCEPT ![c] = IF lifecycle = "running" THEN "active" ELSE "refused"]
    /\ UNCHANGED <<lifecycle, starts, starting, composition, installed, opened, dbos,
                   stop, childVars>>

EnterPublicCall(c) ==
    /\ call[c] = "idle"
    /\ IF lifecycle = "running"
       THEN /\ activePublicCalls' = activePublicCalls + 1
            /\ call' = [call EXCEPT ![c] = "active"]
       ELSE /\ call' = [call EXCEPT ![c] = "refused"]
            /\ UNCHANGED activePublicCalls
    /\ UNCHANGED <<lifecycle, starts, starting, composition, installed, opened, dbos,
                   stop, childVars>>

(* A mutant of LeavePublicCall: a call may be released again.              *)
LeavePublicCallAgain(c) ==
    /\ call[c] \in {"active", "done"}
    /\ activePublicCalls' = activePublicCalls - 1
    /\ call' = [call EXCEPT ![c] = "done"]
    /\ UNCHANGED <<lifecycle, starts, starting, composition, installed, opened, dbos,
                   stop, childVars>>

LeavePublicCall(c) ==
    /\ call[c] = "active"
    /\ activePublicCalls' = activePublicCalls - 1
    /\ call' = [call EXCEPT ![c] = "done"]
    /\ UNCHANGED <<lifecycle, starts, starting, composition, installed, opened, dbos,
                   stop, childVars>>

(***************************************************************************)
(* stop                                                                    *)
(***************************************************************************)
Stop(t) ==
    /\ stop[t] = "idle"
    /\ \/ /\ lifecycle = "stopping"
          /\ stop' = [stop EXCEPT ![t] = "joined"]
          /\ UNCHANGED lifecycle
       \/ /\ lifecycle \in {"created", "stopped"}
          /\ lifecycle' = "stopped"
          /\ stop' = [stop EXCEPT ![t] = "returned"]
       \/ /\ lifecycle = "running"
          /\ lifecycle' = "stopping"
          /\ stop' = [stop EXCEPT ![t] = "draining"]
    /\ UNCHANGED <<starts, starting, composition, installed, opened, dbos, callVars, childVars>>

(* A mutant of Drained: nobody waits for the public calls.                 *)
DrainedAtOnce == TRUE

(* waitForPublicCallsToDrain: resolved once no public call is active.      *)
Drained == activePublicCalls = 0

PublicCallsDrain(t) ==
    /\ stop[t] = "draining"
    /\ Drained
    /\ stop' = [stop EXCEPT ![t] = "shutdown"]
    /\ dbos' = "closing"
    /\ UNCHANGED <<lifecycle, starts, starting, composition, installed, opened, callVars, childVars>>

(* DBOS.shutdown has returned, or thrown: those who joined return with it. *)
ShutDown(t) ==
    /\ stop[t] = "shutdown"
    /\ installed' = IF installed = composition THEN 0 ELSE installed
    /\ composition' = 0
    /\ lifecycle' = "stopped"
    /\ dbos' = "down"
    /\ child' = [w \in Children |-> IF child[w] = "threw" THEN "threw" ELSE "none"]
    /\ fence' = [w \in Children |-> 0]
    /\ stop' = [u \in Stops |-> IF u = t \/ stop[u] = "joined" THEN "returned" ELSE stop[u]]
    /\ UNCHANGED <<starts, starting, opened, callVars, polling>>

(***************************************************************************)
(* Child workflows.                                                        *)
(***************************************************************************)
(* requireRunComposition; without a composition the workflow throws.       *)
RequireComposition(w) ==
    /\ dbos \in {"recovering", "up", "closing"}
    /\ child[w] = "none"
    /\ child' = [child EXCEPT ![w] = IF installed = 0 THEN "threw" ELSE "composed"]
    /\ fence' = [fence EXCEPT ![w] = installed]
    /\ UNCHANGED <<lifecycle, starts, starting, composition, installed, opened, dbos,
                   callVars, stop, polling>>

ReachHost(w) ==
    /\ child[w] = "composed"
    /\ child' = [child EXCEPT ![w] = "host"]
    /\ UNCHANGED <<lifecycle, starts, starting, composition, installed, opened, dbos,
                   callVars, stop, fence, polling>>

(* A mutant of FenceOpen: the fence does not hold anybody.                 *)
FenceOpenAlways(w) == TRUE

FenceOpen(w) == fence[w] \in opened

(* fence.awaitOpen returns: of every script, wait and gate, however far it *)
(* had come, and of an agent in its first provider step.                   *)
PassFence(w) ==
    /\ w \notin polling
    /\ FenceOpen(w)
    /\ ReachHost(w)

(* The first provider step of an agent is stored.                          *)
DispatchStored(w) ==
    /\ w \in Agents \ polling
    /\ child[w] = "host"
    /\ polling' = polling \cup {w}
    /\ UNCHANGED <<lifecycle, starts, starting, composition, installed, opened, dbos,
                   callVars, stop, child, fence>>

(* agent-result-lookup or agent-cancel-reconcile of a recovered agent.     *)
PollAgent(w) == w \in polling /\ ReachHost(w)

ChildStep(w) ==
    RequireComposition(w) \/ PassFence(w) \/ DispatchStored(w) \/ PollAgent(w)

StartStep ==
    \/ PersistedRunsCompatible \/ Launch \/ Recovers \/ InitializationFails
    \/ Launched \/ LaunchFails \/ FailedLaunchShutsDown

StopStep(t) == PublicCallsDrain(t) \/ ShutDown(t)

(***************************************************************************)
(* Properties                                                              *)
(***************************************************************************)
(* A public call is served by a started manager from its first await to    *)
(* its last: stop() waits for it before it takes DBOS and the composition  *)
(* away, whatever starts, fails or stops beside it.                        *)
CallsAreHosted ==
    (\E c \in Calls : call[c] = "active") =>
        /\ dbos = "up"
        /\ composition # 0
        /\ installed = composition

ReachesHost(w) == child[w] # "host" /\ child'[w] = "host"

HostReady(w) ==
    /\ child'[w] # "threw"
    /\ ReachesHost(w) => fence[w] = installed /\ dbos \in {"recovering", "up", "closing"}
    /\ ReachesHost(w) /\ w \notin polling =>
         /\ lifecycle \in {"running", "stopping"}
         /\ dbos \in {"up", "closing"}
         /\ fence[w] = composition

(* What DBOS recovers reaches the host only in a manager that is ready,    *)
(* and through its composition: every script, wait and gate, and an agent  *)
(* that is still to be dispatched.  An agent beyond that is excepted, and  *)
(* the sentence of docs/architecture.md that recovery cannot reach a host  *)
(* adapter before the manager is ready is false of it (PollAgent): it      *)
(* reaches the installed composition, ready or not.  No recovered workflow *)
(* finds the process without a composition, which would fail it for good.  *)
HostIsReachedWhenReady == [][\A w \in Children : HostReady(w)]_vars

(* Every stop() that waits returns, the ones that joined another included: *)
(* no call, refused or released, leaves the counter above zero.            *)
StopReturns ==
    \A t \in Stops : stop[t] \in {"draining", "joined"} ~> stop[t] = "returned"
=============================================================================
