--------------------------- MODULE ScriptOperation --------------------------
(***************************************************************************)
(* The child workflow of one script operation (scriptOperation in          *)
(* operation-workflow.ts): it runs the attempts of its operation one after *)
(* the other and relays every outcome to the root.                         *)
(*                                                                         *)
(* The workflow is replayed after a host crash.  DBOS keeps the result of  *)
(* every completed step, so pc names the first step without a stored       *)
(* result, and a crash only loses what a step in progress had in memory.   *)
(*                                                                         *)
(*   "intent"      dispatchIntent(phase)                                   *)
(*   "arbitrate"   providerDecision(phase), before its durable step        *)
(*   "provider"    the provider step of that decision                      *)
(*   "executing"   the same step, inside executeAttempt (volatile)         *)
(*   "relay"       the send of what reconcileScript resolved               *)
(*   "retryStart"  the send of the retry-start relay                       *)
(*   "backoff"     the durable sleep before the next attempt               *)
(*   "done"        the workflow returned                                   *)
(*   "failed"      the workflow threw, ERROR in DBOS                       *)
(***************************************************************************)
EXTENDS ScriptProvider

CONSTANTS
    MaxCrashes,  \* bound: how often the host process stops and recovers
    Endings      \* bound: the results with which scripts may end

ASSUME MaxCrashesAssumption == MaxCrashes \in Nat
ASSUME EndingsAssumption == Endings \subseteq Results

VARIABLES
    pc,          \* pc[op], see above
    ordinal,     \* ordinal[op]: attemptOrdinal of the attempt in progress
    phase,       \* phase[op]: ScriptDecisionPhase
    baseline,    \* baseline[op]: recoveryAttemptBaseline of the latest intent
    recoveries,  \* recoveries[op]: recoveryAttempts of the child's DBOS status
    resolution,  \* resolution[op]: what reconcileScript returned, or "none"
    crashes      \* bound counter

laneVars == <<pc, ordinal, phase, baseline, recoveries, resolution, crashes>>

Phases == {"initial", "reconcile", "reexecute"}
Locations == {"intent", "arbitrate", "provider", "executing",
              "relay", "retryStart", "backoff", "done", "failed"}
Ended == {"done", "failed"}
Resolutions == Results \cup {"preDispatch", "unknown"}

LaneTypeOK ==
    /\ pc \in [Ops -> Locations]
    /\ ordinal \in [Ops -> Ordinals]
    /\ phase \in [Ops -> Phases]
    /\ baseline \in [Ops -> Nat]
    /\ recoveries \in [Ops -> Nat]
    /\ resolution \in [Ops -> Resolutions \cup {"none"}]
    /\ crashes \in 0..MaxCrashes

LaneInit ==
    /\ pc = [op \in Ops |-> "intent"]
    /\ ordinal = [op \in Ops |-> 1]
    /\ phase = [op \in Ops |-> "initial"]
    /\ baseline = [op \in Ops |-> 0]
    /\ recoveries = [op \in Ops |-> 0]
    /\ resolution = [op \in Ops |-> "none"]
    /\ crashes = 0

Current(op) == <<op, ordinal[op]>>

At(op, location) == op \in started /\ pc[op] = location

Goto(op, location) == pc' = [pc EXCEPT ![op] = location]

(***************************************************************************)
(* One attempt: reconcileScript and providerDecision.                      *)
(***************************************************************************)
(* A mutant of Resolve: reconciles until the provider knows.               *)
ResolveForever(op, answer) ==
    IF answer = "unknown"
    THEN /\ phase' = [phase EXCEPT ![op] = "reconcile"]
         /\ Goto(op, "intent")
         /\ UNCHANGED resolution
    ELSE /\ resolution' = [resolution EXCEPT ![op] = answer]
         /\ Goto(op, "relay")
         /\ phase' = [phase EXCEPT ![op] = "initial"]

(* reconcileScript reads the answer of one provider decision: proof that   *)
(* nothing was accepted earns one fresh dispatch intent, anything          *)
(* inconclusive in the initial phase earns one reconciliation, and the     *)
(* rest is what the attempt resolved to.                                   *)
Resolve(op, answer) ==
    \/ /\ answer = "notFound"
       /\ phase[op] # "reexecute"
       /\ phase' = [phase EXCEPT ![op] = "reexecute"]
       /\ Goto(op, "intent")
       /\ UNCHANGED resolution
    \/ /\ answer \in {"unknown", "preDispatch"}
       /\ phase[op] = "initial"
       /\ phase' = [phase EXCEPT ![op] = "reconcile"]
       /\ Goto(op, "intent")
       /\ UNCHANGED resolution
    \/ /\ answer \in Results \/ phase[op] = "reexecute"
                             \/ (phase[op] = "reconcile" /\ answer # "notFound")
       /\ resolution' = [resolution EXCEPT
                            ![op] = IF answer = "notFound" THEN "unknown" ELSE answer]
       /\ Goto(op, "relay")
       /\ phase' = [phase EXCEPT ![op] = "initial"]  \* of the next attempt

DispatchIntent(op) ==
    /\ At(op, "intent")
    /\ baseline' = [baseline EXCEPT ![op] = recoveries[op]]
    /\ Goto(op, "arbitrate")
    /\ UNCHANGED <<durableVars, providerVars,
                   ordinal, phase, recoveries, resolution, crashes>>

ArbitrateDispatch(op) ==
    /\ At(op, "arbitrate")
    /\ Arbitrate(Current(op), "dispatch_won")
    /\ IF winner'[Current(op)] = "cancel_won"
       THEN Resolve(op, "preDispatch")
       ELSE Goto(op, "provider") /\ UNCHANGED <<phase, resolution>>
    /\ UNCHANGED <<started, inbox, posted, providerVars,
                   ordinal, baseline, recoveries, crashes>>

(* The catch around arbitrateAttemptDispatch; the candidate may have been  *)
(* stored before the call failed.                                          *)
ArbitrationFails(op) ==
    /\ "doubt" \in PortMay
    /\ At(op, "arbitrate")
    /\ Arbitrate(Current(op), "dispatch_won") \/ UNCHANGED winner
    /\ Resolve(op, "unknown")
    /\ UNCHANGED <<started, inbox, posted, providerVars,
                   ordinal, baseline, recoveries, crashes>>

(* A mutant of MayExecute: forgets that the intent may be older than the   *)
(* latest recovery.                                                        *)
MayExecuteAfterRecovery(op) == phase[op] \in {"initial", "reexecute"}

(* scriptDispatchAction: execute only under an intent of this recovery.    *)
MayExecute(op) ==
    /\ phase[op] \in {"initial", "reexecute"}
    /\ recoveries[op] = baseline[op]

ExecuteAttempt(op) ==
    /\ At(op, "provider")
    /\ MayExecute(op)
    /\ Accept(Current(op))
    /\ Goto(op, "executing")
    /\ UNCHANGED <<durableVars, ordinal, phase, baseline, recoveries,
                   resolution, crashes>>

(* The sealed result reaches the step, or executeAttempt returns an        *)
(* uncertain or invalid result while the script may still be running.      *)
ExecutionReturns(op) ==
    /\ At(op, "executing")
    /\ \/ effect[Current(op)] \in Results /\ Resolve(op, effect[Current(op)])
       \/ "doubt" \in PortMay /\ Resolve(op, "unknown")
    /\ UNCHANGED <<durableVars, providerVars,
                   ordinal, baseline, recoveries, crashes>>

ReconcileAttempt(op) ==
    /\ At(op, "provider")
    /\ ~ MayExecute(op)
    /\ \E answer \in ReconcileAnswers(Current(op)) : Resolve(op, answer)
    /\ UNCHANGED <<durableVars, providerVars,
                   ordinal, baseline, recoveries, crashes>>

(* dispatchIntent cannot read the recovery count, or the provider step     *)
(* throws: the child workflow ends in ERROR and has told the root nothing. *)
LaneFails(op) ==
    /\ "reject" \in PortMay
    /\ \E location \in {"intent", "provider", "executing"} : At(op, location)
    /\ Goto(op, "failed")
    /\ UNCHANGED <<durableVars, providerVars, ordinal, phase, baseline, recoveries,
                   resolution, crashes>>

(* The script emits a live event while executeAttempt waits for it.        *)
ScriptEmits(op) ==
    /\ "emit" \in PortMay
    /\ At(op, "executing")
    /\ effect[Current(op)] = "running"
    /\ Post(LiveEvent(Current(op)))
    /\ UNCHANGED <<started, winner, providerVars, laneVars>>

(***************************************************************************)
(* The serial attempt lane: scriptOperation.                               *)
(***************************************************************************)
(* Mutants of ShouldRetry: a cancelled attempt is retried too, and one     *)
(* attempt too many is made.                                               *)
ShouldRetryPastLimit(op) == resolution[op] = "retryable"
ShouldRetryCancelled(op) ==
    resolution[op] \in {"retryable", "cancelled"} /\ ordinal[op] < MaxAttempts

ShouldRetry(op) == resolution[op] = "retryable" /\ ordinal[op] < MaxAttempts

(* Mutants of Outcome: an unknown outcome is told as a cancellation before *)
(* dispatch, and a retry is announced that the policy does not allow.      *)
OutcomeGuessed(op) ==
    Observation(Current(op),
                IF resolution[op] = "unknown" THEN "preDispatch" ELSE resolution[op],
                ShouldRetry(op))
OutcomeRetrying(op) ==
    IF resolution[op] = "unknown" THEN RecoveryRelay(Current(op))
    ELSE Observation(Current(op), resolution[op], resolution[op] = "retryable")

Outcome(op) ==
    IF resolution[op] = "unknown" THEN RecoveryRelay(Current(op))
    ELSE Observation(Current(op), resolution[op], ShouldRetry(op))

(* sendObservation, sendPreDispatchCancellation or sendRecovery.  The host *)
(* may stop after the message is inserted and before the step is stored:   *)
(* pc then stays and the replayed send finds its key taken.                *)
RelayOutcome(op) ==
    /\ At(op, "relay")
    /\ Post(Outcome(op))
    /\ \/ Goto(op, IF ShouldRetry(op) THEN "retryStart" ELSE "done")
       \/ UNCHANGED pc
    /\ UNCHANGED <<started, winner, providerVars, ordinal, phase, baseline,
                   recoveries, resolution, crashes>>

SendRetryStart(op) ==
    /\ At(op, "retryStart")
    /\ Post(RetryStart(<<op, ordinal[op] + 1>>))
    /\ Goto(op, "backoff") \/ UNCHANGED pc
    /\ UNCHANGED <<started, winner, providerVars, ordinal, phase, baseline,
                   recoveries, resolution, crashes>>

NextAttempt(op) ==
    /\ At(op, "backoff")
    /\ ordinal' = [ordinal EXCEPT ![op] = @ + 1]
    /\ resolution' = [resolution EXCEPT ![op] = "none"]
    /\ Goto(op, "intent")
    /\ UNCHANGED <<durableVars, providerVars, phase, baseline, recoveries, crashes>>

LaneStep(op) ==
    \/ DispatchIntent(op)
    \/ ArbitrateDispatch(op)
    \/ ArbitrationFails(op)
    \/ ExecuteAttempt(op)
    \/ ExecutionReturns(op)
    \/ ReconcileAttempt(op)
    \/ LaneFails(op)
    \/ RelayOutcome(op)
    \/ SendRetryStart(op)
    \/ NextAttempt(op)

(* A crash of the host: DBOS recovers every workflow that has not returned *)
(* and counts the recovery; a provider step in progress starts again.      *)
LanesRecover ==
    /\ recoveries' = [op \in Ops |-> IF op \in started /\ pc[op] \notin Ended
                                     THEN recoveries[op] + 1 ELSE recoveries[op]]
    /\ pc' = [op \in Ops |-> IF pc[op] = "executing" THEN "provider" ELSE pc[op]]

HostCrash ==
    /\ crashes < MaxCrashes
    /\ crashes' = crashes + 1
    /\ LanesRecover
    /\ UNCHANGED <<durableVars, providerVars, ordinal, phase, baseline, resolution>>

(***************************************************************************)
(* What must hold of every attempt lane, alone or under a running root.    *)
(***************************************************************************)
(* At most one physical execution of an attempt is ever accepted: a crash  *)
(* after the dispatch intent may only reconcile, and a fresh intent is     *)
(* given only after proof that nothing was accepted (providerDecision).    *)
AtMostOneExecution == \A a \in Attempts : accepted[a] <= 1

(* An attempt whose cancellation won arbitration is never executed, in     *)
(* whatever order the child and the root reached the arbitration record.   *)
CancelledNeverExecutes ==
    \A a \in Attempts : winner[a] = "cancel_won" => accepted[a] = 0

(* Attempts of one operation are serial: attempt n + 1 is physically       *)
(* accepted only once attempt n is sealed as a retryable failure, also     *)
(* when recoveries re-enter an earlier attempt (scriptOperation).          *)
SerialAttempts ==
    \A a \in Attempts : a[2] > 1 /\ accepted[a] > 0
                        => effect[<<a[1], a[2] - 1>>] = "retryable"

(* What the root is told is what happened: an observation of a result is   *)
(* sent only when the provider sealed that result, a pre-dispatch          *)
(* cancellation only when it won, whichever of child and root sends it.    *)
ObservationsAreTrue ==
    \A m \in posted \cap Observations :
        IF m.result = "preDispatch" THEN winner[m.of] = "cancel_won"
                                    ELSE effect[m.of] = m.result

(* The root receives no second outcome under one receipt: one observation, *)
(* one recovery and one retry start of an attempt at most.                 *)
OneReportPerReceipt ==
    \A m, n \in posted \ {CancelRequest} : m.type = n.type /\ m.of = n.of => m = n

=============================================================================
