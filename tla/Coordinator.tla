----------------------------- MODULE Coordinator ----------------------------
(***************************************************************************)
(* The root workflow of a run (kernel-run-workflow.ts): one loop that      *)
(* hosts the commands of the kernel and applies the messages of its inbox, *)
(* in order.  Between two awaits it runs alone; its children, the scripts  *)
(* and the run manager move whenever it waits for a durable step.          *)
(*                                                                         *)
(* The root is deterministic and each of its steps is stored, so a replay  *)
(* after a crash brings it back to the step it had not stored: a crash     *)
(* changes nothing here.  rootPc is that step:                             *)
(*                                                                         *)
(*   "loop"       drainCommands, then waitForCoordinatorMessage            *)
(*   "advance"    advanceSettledObservation, one kernel event at a time    *)
(*   "targets"    cancelTargetOperations, one operation at a time          *)
(*   "provider"   scriptCancellationResult of `target`                     *)
(*   "reconcile"  reconcileScriptCancellation of `target`                  *)
(*   "relay"      the root relays the outcome of `target` to itself        *)
(*   "returned"   the workflow returned, SUCCESS in DBOS                   *)
(*   "threw"      the workflow threw, ERROR in DBOS                        *)
(***************************************************************************)
EXTENDS ScriptProvider, InteractionOperation, AgentOperation, FiniteSets

CONSTANTS
    Entry,  \* the operations dispatched at admission, in order
    After   \* After[op]: the operations dispatched when op has succeeded

Hosted == Ops \cup Interactions \cup Agents

(* An agent operation has one attempt.                                     *)
HostedAttempts == Attempts \cup Agents \X {1}

ASSUME ProgramAssumption ==
    /\ Entry \in Seq(Hosted)
    /\ After \in [Hosted -> Seq(Hosted)]

K == INSTANCE Kernel WITH Activities <- Hosted

(* An operation is identified by the key of its command: the program names *)
(* each at one place.                                                      *)
ASSUME OnceAssumption ==
    /\ \A s \in {Entry} \cup {After[x] : x \in Hosted} :
          \A m, n \in DOMAIN s : s[m] = s[n] => m = n
    /\ \A x \in Hosted :
          /\ K!SetOf(After[x]) \cap K!SetOf(Entry) = {}
          /\ \A y \in Hosted \ {x} : K!SetOf(After[x]) \cap K!SetOf(After[y]) = {}

VARIABLES
    rootPc,
    kernel,            \* runtime.state
    commands,          \* runtime.commands
    active,            \* keys of runtime.active
    recoveryPending,   \* runtime.recoveryPending
    recoveryOps,       \* runtime.recoveryOperations
    receipts,          \* runtime.receipts
    deferred,          \* runtime.deferredKernelEvents
    status,            \* journal: RunSnapshot.status
    attempt,           \* journal: attempt[a], status of attempt a or "none"
    uncertain,         \* journal: the attempts listed under recovery
    targets,           \* operations cancelTargetOperations still has to visit
    target             \* the attempt being cancelled

journalVars == <<status, attempt, uncertain>>
runtimeVars == <<kernel, commands, active, recoveryPending, recoveryOps,
                 receipts, deferred>>
rootVars == <<rootPc, runtimeVars, journalVars, targets, target>>

RunStatuses == {"running", "cancelling", "recovery_required",
                "succeeded", "failed", "cancelled"}
TerminalStatuses == {"succeeded", "failed", "cancelled"}
AttemptStatuses == {"none", "pending", "running", "unknown"} \cup K!Outcomes

RootTypeOK ==
    /\ rootPc \in {"loop", "advance", "targets", "provider", "reconcile",
                   "relay", "returned", "threw"}
    /\ kernel \in [mode : {"running", "failing", "cancelling", "ended"},
                   pending : SUBSET Hosted]
    /\ active \subseteq Hosted
    /\ recoveryPending \in BOOLEAN
    /\ recoveryOps \subseteq Ops
    /\ commands \in Seq(K!Commands)
    /\ deferred \in Seq(K!Settlements)
    /\ status \in RunStatuses
    /\ attempt \in [HostedAttempts -> AttemptStatuses]
    /\ uncertain \subseteq HostedAttempts
    /\ targets \subseteq Hosted
    /\ target \in Attempts \cup {<< >>}

(* initializeKernelContext *)
RootInit ==
    /\ rootPc = "loop"
    /\ kernel = K!InitialState
    /\ commands = K!InitialCommands
    /\ active = {}
    /\ recoveryPending = FALSE
    /\ recoveryOps = {}
    /\ receipts = {}
    /\ deferred = << >>
    /\ status = "running"
    /\ attempt = [a \in HostedAttempts |-> "none"]
    /\ uncertain = {}
    /\ targets = {}
    /\ target = << >>

Throw == rootPc' = "threw"

(***************************************************************************)
(* drainCommands                                                           *)
(***************************************************************************)
HasCommand(kind) ==
    rootPc = "loop" /\ commands # << >> /\ Head(commands).kind = kind

TakeCommand == commands' = Tail(commands)

RefuseCommand ==
    /\ rootPc = "loop" /\ commands # << >>
    /\ recoveryPending
    /\ TakeCommand
    /\ Throw
    /\ UNCHANGED <<durableVars, providerVars, kernel, active, recoveryPending,
                   recoveryOps, receipts, deferred, journalVars, targets, target>>

(* stageOperation, the outbox record and startWorkflow of the child.       *)
DispatchOperation ==
    /\ HasCommand("dispatch")
    /\ Head(commands).of \in Ops
    /\ ~ recoveryPending
    /\ TakeCommand
    /\ LET op == Head(commands).of
       IN /\ attempt' = [attempt EXCEPT ![<<op, 1>>] = "running"]
          /\ active' = active \cup {op}
          /\ started' = started \cup {op}
    /\ UNCHANGED <<inbox, posted, winner, providerVars, rootPc, kernel,
                   recoveryPending, recoveryOps, receipts, deferred,
                   status, uncertain, targets, target>>

DispatchAgent ==
    /\ HasCommand("dispatch")
    /\ Head(commands).of \in Agents
    /\ ~ recoveryPending
    /\ TakeCommand
    /\ LET g == Head(commands).of
       IN /\ attempt' = [attempt EXCEPT ![<<g, 1>>] = "running"]
          /\ active' = active \cup {g}
          /\ AgentGoto(g, "intent")
    /\ UNCHANGED <<durableVars, providerVars, interactionVars, agent, rootPc, kernel,
                   recoveryPending, recoveryOps, receipts, deferred,
                   status, uncertain, targets, target>>

(* stageOperation of a wait or a gate publishes it, ...                    *)
OpenInteraction ==
    /\ HasCommand("dispatch")
    /\ ~ recoveryPending
    /\ LET i == Head(commands).of
       IN /\ i \in Interactions /\ child[i] = "unopened"
          /\ child' = [child EXCEPT ![i] = "opened"]
          /\ journal' = [journal EXCEPT ![i] = "pending"]
    /\ UNCHANGED <<durableVars, providerVars, rootVars, box, told, heard>>

(* ... and its child is started after that.                                *)
StartInteraction ==
    /\ HasCommand("dispatch")
    /\ LET i == Head(commands).of
       IN /\ i \in Interactions /\ child[i] = "opened"
          /\ child' = [child EXCEPT ![i] = "waiting"]
          /\ active' = active \cup {i}
    /\ TakeCommand
    /\ UNCHANGED <<durableVars, providerVars, rootPc, kernel, recoveryPending,
                   recoveryOps, receipts, deferred, journalVars, targets, target,
                   box, told, heard, journal>>

StartCancelPending ==
    /\ HasCommand("cancelPending")
    /\ ~ recoveryPending
    /\ TakeCommand
    /\ targets' = active \cap Head(commands).targets
    /\ rootPc' = "targets"
    /\ UNCHANGED <<durableVars, providerVars, kernel, active, recoveryPending,
                   recoveryOps, receipts, deferred, journalVars, target>>

(* The status that a terminal command gives the run.                       *)
TerminalStatus(kind) == CASE kind = "complete" -> "succeeded"
                          [] kind = "fail" -> "failed"
                          [] kind = "cancel" -> "cancelled"

FinishRun ==
    /\ \E kind \in K!TerminalKinds : HasCommand(kind)
    /\ ~ recoveryPending
    /\ TakeCommand
    /\ IF active # {}
       THEN Throw /\ UNCHANGED status
       ELSE /\ status' = TerminalStatus(Head(commands).kind)
            /\ rootPc' = "returned"
    /\ UNCHANGED <<durableVars, providerVars, kernel, active, recoveryPending,
                   recoveryOps, receipts, deferred, attempt, uncertain,
                   targets, target>>

(***************************************************************************)
(* waitForCoordinatorMessage and the message handlers.  A receive window   *)
(* that expires is waited again, so only an arrival ends the wait.         *)
(***************************************************************************)
Receives(type) ==
    /\ rootPc = "loop" /\ commands = << >>
    /\ inbox # << >> /\ Head(inbox).type = type
    /\ inbox' = Tail(inbox)

(* requestRunCancellation visits the targets itself and queues the rest of *)
(* the kernel's commands; of a cancel request that is one at most.         *)
IsCancelPending(c) == c.kind = "cancelPending"
WithoutHandledCancellation(cs) ==
    IF \E c \in K!SetOf(cs) : IsCancelPending(c) THEN << >> ELSE cs

HandleCancellation ==
    /\ Receives("cancel")
    /\ IF status = "cancelling"
       THEN UNCHANGED <<rootPc, kernel, commands, status, targets>>
       ELSE LET transition == K!AdvancePipeline(kernel, K!CancelRequested)
            IN /\ status' = "cancelling"
               /\ kernel' = transition.state
               /\ commands' = WithoutHandledCancellation(transition.commands)
               /\ targets' = active \cap
                    UNION {c.targets : c \in {d \in K!SetOf(transition.commands) :
                                                IsCancelPending(d)}}
               /\ rootPc' = "targets"
    /\ UNCHANGED <<started, posted, winner, providerVars, active, recoveryPending,
                   recoveryOps, receipts, deferred, attempt, uncertain, target>>

(* RunJournal.scheduleRetryAttempt needs a contiguous attempt history.     *)
Schedulable(a) ==
    attempt[a] # "none" \/ (a[2] > 1 /\ attempt[<<a[1], a[2] - 1>>] # "none")

(* RunJournal.startRetryAttempt refuses to reactivate a terminal attempt.  *)
Startable(a) ==
    a[2] = 1 \/ (Schedulable(a) /\ attempt[a] \in {"none", "pending", "running", "unknown"})

Started(a) == IF attempt[a] \in {"none", "pending"} THEN "running" ELSE attempt[a]

HandleRetryStart ==
    /\ Receives("retryStart")
    /\ LET m == Head(inbox)
       IN IF ReceiptOf(m) \in receipts
          THEN UNCHANGED <<rootPc, receipts, attempt>>
          ELSE IF m.of[1] \in active /\ Startable(m.of)
          THEN /\ attempt' = [attempt EXCEPT ![m.of] = Started(m.of)]
               /\ receipts' = receipts \cup {ReceiptOf(m)}
               /\ UNCHANGED rootPc
          ELSE Throw /\ UNCHANGED <<receipts, attempt>>
    /\ UNCHANGED <<started, posted, winner, providerVars, kernel, commands, active,
                   recoveryPending, recoveryOps, deferred, status, uncertain,
                   targets, target>>

(* A mutant of Ignored: no live event is ignored.                          *)
IgnoredNever(m) == FALSE

(* handleLiveRelay drops the events of an attempt whose cancellation is    *)
(* being recovered; drainLiveRelay takes those of a running attempt.       *)
Ignored(m) == m.of[1] \in recoveryOps
Drainable(m) == m.of[1] \in active /\ attempt[m.of] = "running"

HandleLiveEvent ==
    /\ Receives("live")
    /\ LET m == Head(inbox)
       IN IF ReceiptOf(m) \in receipts \/ Ignored(m) \/ Drainable(m)
          THEN receipts' = receipts \cup {ReceiptOf(m)} /\ UNCHANGED rootPc
          ELSE Throw /\ UNCHANGED receipts
    /\ UNCHANGED <<started, posted, winner, providerVars, kernel, commands, active,
                   recoveryPending, recoveryOps, deferred, journalVars,
                   targets, target>>

(* The journal part of an unknown outcome: RunJournal.markRecovery and     *)
(* setStatus('recovery_required').                                         *)
MarkRecovery(a) ==
    /\ attempt' = [attempt EXCEPT ![a] = "unknown"]
    /\ uncertain' = uncertain \cup {a}
    /\ status' = "recovery_required"

(* A mutant of Recoverable: an attempt is not checked to be running.       *)
RecoverableAnyway(a) == TRUE

(* applyRecoveryRelay accepts the first recovery of a running attempt, or  *)
(* one that the journal already lists.                                     *)
Recoverable(a) == a[1] \in active /\ (a \in uncertain \/ attempt[a] = "running")

(* A mutant of Remaining: a settled operation stays active.                *)
RemainingAll(op) == active

(* runtime.active.delete                                                   *)
Remaining(op) == active \ {op}

HandleRecovery ==
    /\ Receives("recovery")
    /\ LET m == Head(inbox)
       IN IF ReceiptOf(m) \in receipts
          THEN UNCHANGED <<rootPc, receipts, active, recoveryPending, journalVars>>
          ELSE IF Recoverable(m.of)
          THEN /\ MarkRecovery(m.of)
               /\ receipts' = receipts \cup {ReceiptOf(m)}
               /\ active' = Remaining(m.of[1])
               /\ recoveryPending' = TRUE
               /\ rootPc' = IF active' = {} THEN "returned" ELSE rootPc
          ELSE Throw /\ UNCHANGED <<receipts, active, recoveryPending, journalVars>>
    /\ UNCHANGED <<started, posted, winner, providerVars, kernel, commands,
                   recoveryOps, deferred, targets, target>>

(* Mutants of OutcomeOf: a failure is told as a cancellation, and results  *)
(* are not mapped to outcomes at all.                                      *)
OutcomeOfFailureCancelled(result) ==
    IF result = "succeeded" THEN "succeeded" ELSE "cancelled"
OutcomeUnmapped(result) == result

(* scriptPipelineEvent: the outcome of the activity for the kernel.        *)
OutcomeOf(result) == CASE result = "succeeded" -> "succeeded"
                       [] result \in {"cancelled", "preDispatch"} -> "cancelled"
                       [] result \in {"failed", "retryable"} -> "failed"

(* applyScriptObservation with retrying: the attempt is finished, the      *)
(* operation stays active and its next attempt is scheduled.               *)
ApplyRetrying(m) ==
    LET next == <<m.of[1], m.of[2] + 1>>
    IN /\ attempt' = [attempt EXCEPT
                        ![m.of] = "failed",
                        ![next] = IF @ = "none" THEN "pending" ELSE @]
       /\ uncertain' = uncertain \ {m.of}
       /\ UNCHANGED <<rootPc, active, recoveryPending, recoveryOps, deferred>>

(* A mutant of StillRecovering: a sealed terminal does not clear recovery. *)
StillRecoveringAlways(m) == recoveryOps

(* applyScriptRelayObservation: a sealed terminal of a script ends the     *)
(* recovery of its operation; a pre-dispatch cancellation and the result   *)
(* of an agent leave the recovery state alone.                             *)
ClearsRecovery(m) == m.result # "preDispatch" /\ m.of[1] \notin Agents
StillRecovering(m) == IF ClearsRecovery(m) THEN recoveryOps \ {m.of[1]} ELSE recoveryOps

(* finalizeObservation and advanceSettledObservation.                      *)
Settle(op, outcome) ==
    /\ active' = Remaining(op)
    /\ deferred' = Append(deferred, K!Settled(op, outcome))
    /\ rootPc' = IF ~ recoveryPending' THEN "advance"
                 ELSE IF active' = {} THEN "returned" ELSE rootPc

ApplySettled(m) ==
    /\ attempt' = [attempt EXCEPT ![m.of] = OutcomeOf(m.result)]
    /\ uncertain' = uncertain \ {m.of}
    /\ recoveryOps' = StillRecovering(m)
    /\ recoveryPending' = (recoveryPending /\ (ClearsRecovery(m) => recoveryOps' # {}))
    /\ Settle(m.of[1], OutcomeOf(m.result))

(* validateObservationRelay and the checks of the journal.                 *)
Applicable(m) ==
    /\ m.of[1] \in active
    /\ IF m.result = "preDispatch" THEN m.of[2] = 1 \/ Schedulable(m.of)
                                   ELSE Startable(m.of)

HandleObservation ==
    /\ Receives("observation")
    /\ LET m == Head(inbox)
       IN IF ReceiptOf(m) \in receipts
          THEN UNCHANGED <<rootPc, receipts, attempt, uncertain, active,
                           recoveryPending, recoveryOps, deferred>>
          ELSE IF Applicable(m)
          THEN /\ receipts' = receipts \cup {ReceiptOf(m)}
               /\ IF m.retrying THEN ApplyRetrying(m) ELSE ApplySettled(m)
          ELSE /\ Throw
               /\ UNCHANGED <<receipts, attempt, uncertain, active,
                              recoveryPending, recoveryOps, deferred>>
    /\ UNCHANGED <<started, posted, winner, providerVars, kernel, commands,
                   status, targets, target>>

(* applyNonActivityRelayObservation and applyInteractionObservation.       *)
InteractionOutcome(how) == IF how = "cancel" THEN "cancelled" ELSE "succeeded"

(* RunJournal.resolveWait and resolveGate.                                 *)
Resolved(i, how) == [journal EXCEPT ![i] = how]

HandleInteraction ==
    /\ Receives("interaction")
    /\ UNCHANGED recoveryPending
    /\ LET m == Head(inbox)
       IN IF ReceiptOf(m) \in receipts
          THEN UNCHANGED <<rootPc, receipts, active, deferred, journal>>
          ELSE IF m.of \in active
          THEN /\ journal' = Resolved(m.of, m.how)
               /\ receipts' = receipts \cup {ReceiptOf(m)}
               /\ Settle(m.of, InteractionOutcome(m.how))
          ELSE Throw /\ UNCHANGED <<receipts, active, deferred, journal>>
    /\ UNCHANGED <<started, posted, winner, providerVars, kernel, commands,
                   recoveryOps, journalVars, targets, target,
                   child, box, told, heard>>

(* A mutant of AfterAdvance: runtime.deferredKernelEvents is cleared after *)
(* the first event.                                                        *)
AfterAdvanceNothing == << >>

AfterAdvance == Tail(deferred)

(* One iteration of the loop of advanceSettledObservation.                 *)
AdvanceKernel ==
    /\ rootPc = "advance"
    /\ IF K!Accepts(kernel, Head(deferred))
       THEN LET transition == K!AdvancePipeline(kernel, Head(deferred))
            IN /\ kernel' = transition.state
               /\ commands' = commands \o transition.commands
               /\ deferred' = AfterAdvance
               /\ rootPc' = IF deferred' = << >> THEN "loop" ELSE rootPc
       ELSE Throw /\ UNCHANGED <<kernel, commands, deferred>>
    /\ UNCHANGED <<durableVars, providerVars, active, recoveryPending, recoveryOps,
                   receipts, journalVars, targets, target>>

(***************************************************************************)
(* cancelTargetOperations and cancelScriptOperation.  The targets are      *)
(* visited in the order of runtime.active, here in any order.              *)
(***************************************************************************)
TargetsDone ==
    /\ rootPc = "targets"
    /\ targets = {}
    /\ rootPc' = "loop"
    /\ UNCHANGED <<durableVars, providerVars, runtimeVars, journalVars, targets, target>>

(* RunJournal.activeAttemptOrdinal: the latest pending or running attempt. *)
CancellableAttempts(op) ==
    {a \in Attempts : a[1] = op /\ attempt[a] \in {"pending", "running"}}

LatestAttempt(op) ==
    CHOOSE a \in CancellableAttempts(op) :
        \A b \in CancellableAttempts(op) : b[2] <= a[2]

(* recordScriptCancellationRecovery: the operation stays active.           *)
RecordCancellationRecovery(a) ==
    /\ MarkRecovery(a)
    /\ recoveryOps' = recoveryOps \cup {a[1]}
    /\ recoveryPending' = TRUE
    /\ rootPc' = "targets"
    /\ target' = << >>

ClaimCancel(op) ==
    /\ rootPc = "targets"
    /\ op \in targets
    /\ CancellableAttempts(op) # {}
    /\ targets' = targets \ {op}
    /\ Arbitrate(LatestAttempt(op), "cancel_won")
    /\ target' = LatestAttempt(op)
    /\ rootPc' = IF winner'[target'] = "cancel_won" THEN "relay" ELSE "provider"
    /\ UNCHANGED <<started, inbox, posted, providerVars, runtimeVars, journalVars>>

(* The catch around arbitrateAttemptDispatch; the candidate may have been  *)
(* stored before the call failed.                                          *)
ClaimCancelFails(op) ==
    /\ "doubt" \in PortMay
    /\ rootPc = "targets"
    /\ op \in targets
    /\ CancellableAttempts(op) # {}
    /\ targets' = targets \ {op}
    /\ Arbitrate(LatestAttempt(op), "cancel_won") \/ UNCHANGED winner
    /\ RecordCancellationRecovery(LatestAttempt(op))
    /\ UNCHANGED <<started, inbox, posted, providerVars, kernel, commands, active,
                   receipts, deferred>>

(* activeAttemptOrdinal throws when no attempt is pending or running.      *)
NothingToCancel(op) ==
    /\ rootPc = "targets"
    /\ op \in targets
    /\ CancellableAttempts(op) = {}
    /\ Throw
    /\ UNCHANGED <<durableVars, providerVars, runtimeVars, journalVars, targets, target>>

CancelAttempt ==
    /\ rootPc = "provider"
    /\ \/ /\ "alreadyTerminal" \in CancelAnswers(target)
          /\ rootPc' = "relay"
          /\ UNCHANGED <<recoveryPending, recoveryOps, journalVars, target>>
       \/ /\ CancelAnswers(target) \cap {"acknowledged", "uncertain"} # {}
          /\ rootPc' = "reconcile"
          /\ UNCHANGED <<recoveryPending, recoveryOps, journalVars, target>>
       \/ /\ CancelAnswers(target) \cap {"notFound", "unknown"} # {}
          /\ RecordCancellationRecovery(target)
    /\ UNCHANGED <<durableVars, providerVars, kernel, commands, active, receipts,
                   deferred, targets>>

ReconcileCancellation ==
    /\ rootPc = "reconcile"
    /\ \/ /\ ReconcileAnswers(target) \cap Results # {}
          /\ rootPc' = "relay"
          /\ UNCHANGED <<recoveryPending, recoveryOps, journalVars, target>>
       \/ /\ ReconcileAnswers(target) \ Results # {}
          /\ RecordCancellationRecovery(target)
    /\ UNCHANGED <<durableVars, providerVars, kernel, commands, active, receipts,
                   deferred, targets>>

(* A mutant of CancelledAs: what was cancelled was never dispatched.       *)
CancelledAsNotDispatched(a) == "preDispatch"

(* sendScriptPreDispatchCancellation or sendScriptTerminalObservation: the *)
(* root writes to its own inbox under the receipt key of the child.        *)
CancelledAs(a) == IF winner[a] = "cancel_won" THEN "preDispatch" ELSE effect[a]

RelayCancellation ==
    /\ rootPc = "relay"
    /\ Post(Observation(target, CancelledAs(target), FALSE))
    /\ target' = << >>
    /\ rootPc' = "targets"
    /\ UNCHANGED <<started, winner, providerVars, runtimeVars, journalVars, targets>>

(* sendGenericOperationCancellation, of a wait, a gate or an agent.        *)
CancelInteraction(i) ==
    /\ rootPc = "targets"
    /\ i \in targets
    /\ Deliver(i, "cancel")
    /\ targets' = targets \ {i}
    /\ UNCHANGED <<durableVars, providerVars, rootPc, runtimeVars, journalVars, target,
                   child, heard, journal>>

(* A mutant of AskAgent: only waits and gates are told.                    *)
AskNobody(g) ==
    /\ rootPc = "targets"
    /\ g \in targets
    /\ targets' = targets \ {g}
    /\ UNCHANGED <<durableVars, providerVars, interactionVars, agentVars, rootPc,
                   runtimeVars, journalVars, target>>

(* The same message to the child of an agent.                              *)
AskAgent(g) ==
    /\ rootPc = "targets"
    /\ g \in targets
    /\ agentLane' = [agentLane EXCEPT ![g].cancel = IF @ = "none" THEN "queued" ELSE @]
    /\ targets' = targets \ {g}
    /\ UNCHANGED <<durableVars, providerVars, interactionVars, agent, rootPc,
                   runtimeVars, journalVars, target>>

ScriptRootStep ==
    \/ RefuseCommand \/ DispatchOperation \/ StartCancelPending \/ FinishRun
    \/ HandleCancellation \/ HandleLiveEvent \/ HandleRetryStart
    \/ HandleRecovery \/ HandleObservation \/ AdvanceKernel
    \/ TargetsDone
    \/ \E op \in Ops : ClaimCancel(op) \/ ClaimCancelFails(op) \/ NothingToCancel(op)
    \/ CancelAttempt \/ ReconcileCancellation \/ RelayCancellation

InteractionRootStep ==
    \/ OpenInteraction \/ StartInteraction \/ HandleInteraction
    \/ \E i \in Interactions : CancelInteraction(i)

AgentRootStep == DispatchAgent \/ \E g \in Agents : AskAgent(g)

RootStep ==
    \/ ScriptRootStep /\ UNCHANGED <<interactionVars, agentVars>>
    \/ InteractionRootStep /\ UNCHANGED agentVars
    \/ AgentRootStep
=============================================================================
