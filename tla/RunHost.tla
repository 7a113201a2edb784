------------------------------ MODULE RunHost -------------------------------
(***************************************************************************)
(* One run as it executes: the root workflow, the child workflows of its   *)
(* script operations, the scripts themselves, a run manager that cancels,  *)
(* and a host process that may crash and recover.                          *)
(***************************************************************************)
EXTENDS ScriptOperation, Coordinator

CONSTANT Cancellable  \* FALSE to leave the run uncancelled

ASSUME CancellableAssumption == Cancellable \in BOOLEAN

VARIABLES
    cancelCall,  \* RunManager.cancelRun: "idle", "guarded", "sent"
    call         \* call[c]: a call of sendSignal or answerGate, how far it is
                 \* and the interaction it is made for

peerVars == <<interactionVars, agentVars>>
managerVars == <<cancelCall, call>>
vars == <<durableVars, providerVars, laneVars, rootVars, peerVars, managerVars>>

(* getRun: a root workflow that ended in an error is a failed run without  *)
(* details; of any other the root's own journal is what it published.      *)
PublicStatus == IF rootPc = "threw" THEN "failed" ELSE status
Lists(i) == rootPc # "threw" /\ journal[i] = "pending"

(* RunManager.cancelRun reads the published status ...                     *)
CancelRunChecks ==
    /\ Cancellable
    /\ cancelCall = "idle"
    /\ PublicStatus \notin TerminalStatuses \cup {"cancelling", "recovery_required"}
    /\ cancelCall' = "guarded"
    /\ UNCHANGED <<durableVars, providerVars, laneVars, rootVars, peerVars, call>>

(* ... and sends its request some time later.                              *)
CancelRunSends ==
    /\ cancelCall = "guarded"
    /\ Post(CancelRequest)
    /\ cancelCall' = "sent"
    /\ UNCHANGED <<started, winner, providerVars, laneVars, rootVars,
                   peerVars, call>>

(* sendSignal and answerGate read the published details: whatever is not   *)
(* pending is refused.  What they check of the answer itself depends on    *)
(* the call alone, and only the calls that pass are modelled.              *)
CallChecks(c) ==
    /\ call[c].at = "idle"
    /\ \E i \in Answerable :
          call' = [call EXCEPT ![c] =
              [at |-> IF Lists(i) THEN "checked" ELSE "refused", of |-> i]]
    /\ UNCHANGED <<durableVars, providerVars, laneVars, rootVars, peerVars,
                   cancelCall>>

(* sendOperationInteraction delivers once the child exists; that it did    *)
(* may be lost on the way back.                                            *)
CallSends(c) ==
    /\ call[c].at = "checked"
    /\ child[call[c].of] \notin {"unopened", "opened"}
    /\ Deliver(call[c].of, c)
    /\ \E at \in {"accepted", "failed"} : call' = [call EXCEPT ![c].at = at]
    /\ UNCHANGED <<durableVars, providerVars, laneVars, rootVars, child, heard, journal,
                   agentVars, cancelCall>>

(* ... or it gives up.                                                     *)
CallFails(c) ==
    /\ call[c].at = "checked"
    /\ call' = [call EXCEPT ![c].at = "failed"]
    /\ UNCHANGED <<durableVars, providerVars, laneVars, rootVars, peerVars,
                   cancelCall>>

ScriptEnds(a) ==
    /\ \E r \in Endings : Seal(a, r)
    /\ UNCHANGED <<durableVars, laneVars, rootVars, peerVars, managerVars>>

Emits(op) == ScriptEmits(op) /\ UNCHANGED <<rootVars, peerVars, managerVars>>

Init ==
    /\ DurableInit /\ ProviderInit /\ LaneInit /\ RootInit /\ InteractionInit /\ AgentInit
    /\ cancelCall = "idle"
    /\ call = [c \in Calls |-> [at |-> "idle", of |-> "none"]]

Child(op) == LaneStep(op) /\ UNCHANGED <<rootVars, peerVars, managerVars>>
InteractionChild(i) ==
    InteractionStep(i) /\ UNCHANGED <<providerVars, laneVars, rootVars, agentVars, managerVars>>
AgentChild(g) ==
    AgentStep(g) /\ UNCHANGED <<providerVars, laneVars, rootVars, interactionVars, managerVars>>
AgentProcess(g) ==
    AgentEnds(g) /\ UNCHANGED <<providerVars, laneVars, rootVars, interactionVars, managerVars>>
Root == RootStep /\ UNCHANGED <<laneVars, managerVars>>
Crash ==
    /\ HostCrash
    /\ AgentsRecover
    /\ UNCHANGED <<rootVars, interactionVars, agent, managerVars>>

Next ==
    \/ \E op \in Ops : Child(op) \/ Emits(op)
    \/ \E i \in Interactions : InteractionChild(i)
    \/ \E g \in Agents : AgentChild(g) \/ AgentProcess(g)
    \/ Root
    \/ \E a \in Attempts : ScriptEnds(a)
    \/ \E c \in Calls : CallChecks(c) \/ CallSends(c) \/ CallFails(c)
    \/ CancelRunChecks
    \/ CancelRunSends
    \/ Crash

Spec == Init /\ [][Next]_vars

(* DBOS keeps executing every workflow that has not returned, timers       *)
(* expire, and a script ends.  An agent is started without limits: it ends *)
(* only when it was asked to.  Nobody has to cancel or to answer, and      *)
(* nothing has to crash.                                                   *)
Fairness ==
    /\ \A op \in Ops : WF_vars(Child(op))
    /\ \A i \in Interactions : WF_vars(InteractionChild(i))
    /\ \A g \in Agents : WF_vars(AgentChild(g)) /\ WF_vars(agent[g].asked /\ AgentProcess(g))
    /\ WF_vars(Root)
    /\ \A a \in Attempts : WF_vars(ScriptEnds(a))

FairSpec == Spec /\ Fairness

(***************************************************************************)
(* Properties                                                              *)
(***************************************************************************)
Lane == INSTANCE ScriptLane

(* The run lives up to the environment that ScriptLane assumes: whatever   *)
(* holds of the lanes there holds of them here.                            *)
HostsScriptLanes == Lane!Spec

(* Every variable has a value of its type.                                 *)
TypeOK ==
    /\ Lane!TypeOK /\ RootTypeOK /\ InteractionTypeOK /\ AgentTypeOK
    /\ cancelCall \in {"idle", "guarded", "sent"}
    /\ call \in [Calls -> [at : {"idle", "checked", "accepted", "refused", "failed"},
                           of : Answerable \cup {"none"}]]

(* The public journal states no outcome that did not happen: a terminal    *)
(* attempt status agrees with what the provider sealed or the arbitration  *)
(* record decided, or with the end of the agent, through every replay,     *)
(* retry, recovery and cancellation.                                       *)
JournalIsTruthful ==
    /\ \A a \in Attempts :
         CASE attempt[a] = "succeeded" -> effect[a] = "succeeded"
           [] attempt[a] = "failed" -> effect[a] \in {"failed", "retryable"}
           [] attempt[a] = "cancelled" -> effect[a] = "cancelled" \/ winner[a] = "cancel_won"
           [] OTHER -> TRUE
    /\ \A g \in Agents :
         CASE attempt[<<g, 1>>] \in {"succeeded", "cancelled"} ->
                  agent[g].state = attempt[<<g, 1>>]
           [] attempt[<<g, 1>>] = "failed" -> agent[g].state \in {"failed", "rejected"}
           [] OTHER -> TRUE

(* A run that ended has no attempt that the journal still lists as pending *)
(* running or unknown: a terminal command is published only when nothing   *)
(* the root knows of is left.                                              *)
TerminalRunIsSettled ==
    status \in TerminalStatuses =>
        /\ \A a \in HostedAttempts : attempt[a] \notin {"pending", "running", "unknown"}
        /\ \A i \in Interactions : journal[i] # "pending"

(* The outcome that the journal published of an attempt, a wait or a gate  *)
(* is final: neither a late relay, a recovery observation nor a second     *)
(* answer ever replaces it.                                                *)
OutcomeIsFinal ==
    [][/\ \A a \in HostedAttempts : attempt[a] \in K!Outcomes => attempt'[a] = attempt[a]
       /\ \A i \in Interactions : journal[i] \in Heard => journal'[i] = journal[i]]_vars

(* No operation falls out of the run: whatever the kernel still waits for  *)
(* is going to be dispatched, is active, has been settled and is queued    *)
(* for the kernel, or is publicly unknown.  And none is told twice: the    *)
(* kernel never rejects what is queued for it.                             *)
NothingIsForgotten ==
    rootPc # "threw" =>
        /\ \A op \in kernel.pending :
             \/ K!Dispatch(op) \in K!SetOf(commands)
             \/ op \in active
             \/ \E e \in K!SetOf(deferred) : e.of = op
             \/ \E a \in uncertain : a[1] = op
        /\ rootPc = "advance" => K!Accepts(kernel, Head(deferred))

(* The root never waits for an operation that has nothing more to say: the *)
(* child of an active operation still runs, its outcome is unread, or it   *)
(* threw.                                                                  *)
ActiveIsAnswered ==
    rootPc # "threw" =>
        \A op \in active :
            \/ CASE op \in Ops -> pc[op] # "done"
                 [] op \in Interactions -> child[op] # "done"
                 [] op \in Agents -> agentLane[op].pc # "done"
            \/ \E m \in K!SetOf(inbox) :
                   \/ m.type \in {"observation", "recovery"} /\ m.of[1] = op
                   \/ m.type = "interaction" /\ m.of = op

(* An agent is launched once at most: after a recovery a stored dispatch   *)
(* is only reconciled.                                                     *)
AgentIsLaunchedOnce == \A g \in Agents : agent[g].launches <= 1

(* A run that published its end leaves no agent running: the cancellation  *)
(* of the run, or the failure of a sibling, has brought every agent to its *)
(* end first.                                                              *)
NoAgentOutlivesItsRun ==
    status \in TerminalStatuses => \A g \in Agents : agent[g].state # "running"

(* A cancelled run comes to an end, although its agent would run for ever: *)
(* the request reaches the agent wherever its child is, also after a host  *)
(* crash.  Not promised when its child threw, or when an outcome was       *)
(* unknown: the root may then wait, or throw over the late relay of a      *)
(* script that the cancellation had settled.                               *)
CancellationStopsAgents ==
    cancelCall = "sent" ~> \/ rootPc = "returned"
                           \/ uncertain # {}
                           \/ \E m \in posted : m.type = "recovery" /\ m.of[1] \in Ops
                           \/ \E g \in Agents : AgentAt(g, "failed")

(* A wait or gate is published as resolved by what resolved it: a call     *)
(* that was made for it and not refused, its own timer, or a cancellation  *)
(* of a run that was winding down.                                         *)
ResolutionIsTruthful ==
    \A i \in Interactions :
        CASE journal[i] \in Calls ->
                 call[journal[i]].of = i /\ call[journal[i]].at \in {"accepted", "failed"}
          [] journal[i] = "timer" -> i \in Timed
          [] journal[i] = "cancel" -> kernel.mode # "running"
          [] OTHER -> TRUE

(* Of the answers to one wait or gate at most one is ever delivered,       *)
(* however many calls saw it pending.                                      *)
OneAnswerIsDelivered ==
    \A i \in Interactions : Cardinality(told[i] \cap Calls) <= 1

(* A live event the inbox holds is taken: it arrives before the outcome of *)
(* its attempt, or the attempt is being recovered (docs D8).                 *)
LiveEventsAreTaken ==
    rootPc = "loop" /\ commands = << >> /\ inbox # << >> /\ Head(inbox).type = "live"
    => Ignored(Head(inbox)) \/ Drainable(Head(inbox))

(* A run is eventually over or publicly waits for recovery.                *)
EveryRunReturns == <>(rootPc = "returned")

(* A run that was asked to cancel ends, although the scripts it could not  *)
(* stop made it wait for recovery: a late sealed result clears it.         *)
CancellationEnds == cancelCall = "sent" ~> status \in TerminalStatuses

(* A wait or gate of which a call was accepted is eventually resolved.     *)
AcceptedCallsResolve ==
    \A c \in Calls :
        call[c].at = "accepted" ~> \E i \in Answerable : call[c].of = i /\ journal[i] \in Heard

(***************************************************************************)
(* What the repository says of the program, and the program does not do.   *)
(***************************************************************************)
(* kernel-run-workflow.ts, advanceSettledObservation: advancing around the *)
(* unknown result would fabricate ordering.                                *)
NoAdvanceAroundUnknown ==
    [][rootPc = "advance" /\ kernel' # kernel => uncertain = {}]_vars

(* kernel-run-workflow.ts, applyRetryStartRelay: a retry-start relay of an *)
(* operation that is not active is an invalid durable receipt.             *)
RetryStartIsExpected ==
    \A m \in posted :
        m.type = "retryStart" /\ rootPc = "loop" /\ commands = << >>
        /\ inbox # << >> /\ Head(inbox) = m => m.of[1] \in active
=============================================================================
