---------------------------- MODULE RunMessages ----------------------------
(***************************************************************************)
(* The operations of one run, their attempts, and the messages its root    *)
(* workflow receives on coordinatorTopic (RunCoordinatorMessage).          *)
(*                                                                         *)
(* An operation stands for its operationId and an attempt <<op, n>> for    *)
(* attemptId(operationId, n): identities.ts derives both injectively.      *)
(***************************************************************************)
EXTENDS Naturals

CONSTANTS
    Ops,          \* the script operations of the run
    Agents,       \* its agent operations
    Interactions, \* its waits and gates
    Calls,        \* the calls of sendSignal and answerGate that are made
    MaxAttempts   \* attemptPolicy.retry.maxAttempts of their binding

ASSUME MaxAttemptsAssumption == MaxAttempts \in Nat \ {0}
ASSUME KindsAssumption ==
    /\ Ops \cap Agents = {} /\ Ops \cap Interactions = {} /\ Agents \cap Interactions = {}
    /\ Calls \cap {"cancel", "timer", "none", "pending"} = {}

Ordinals == 1..MaxAttempts
Attempts == Ops \X Ordinals

(* The sealed results of ScriptTerminalAttemptResult that the host tells   *)
(* apart: "retryable" is a failed or timedOut result whose error is        *)
(* retryable, "failed" one whose error is not.                             *)
Results == {"succeeded", "failed", "retryable", "cancelled"}

(* What an agent ends with; it has one attempt.                            *)
AgentResults == {"succeeded", "failed", "cancelled"}

(* An interaction is a call of the run manager, the cancellation of the    *)
(* root or a timer; a call stands for its content.                         *)
Heard == Calls \cup {"cancel", "timer"}

(***************************************************************************)
(* Coordinator messages.                                                   *)
(***************************************************************************)
(* OperationObservationRelayV1; "preDispatch" stands for a relay with      *)
(* preDispatchCancelled and no executor result.                            *)
Observation(a, result, retrying) ==
    [type |-> "observation", of |-> a, result |-> result, retrying |-> retrying]

RecoveryRelay(a) == [type |-> "recovery", of |-> a]
RetryStart(a) == [type |-> "retryStart", of |-> a]

(* The relay of an interaction to the root.                                *)
Settlement(i, how) == [type |-> "interaction", of |-> i, how |-> how]

(* ScriptEventRelayV1: one live event stands for those of an attempt.      *)
LiveEvent(a) == [type |-> "live", of |-> a]

CancelRequest == [type |-> "cancel"]

Observations ==
    [type : {"observation"}, of : Attempts,
     result : Results \cup {"preDispatch"}, retrying : BOOLEAN]

ScriptReports ==
    Observations \cup [type : {"recovery", "retryStart", "live"}, of : Attempts]

AgentReports ==
    [type : {"observation"}, of : Agents \X {1}, result : AgentResults, retrying : {FALSE}]
    \cup [type : {"recovery"}, of : Agents \X {1}]

Settlements == [type : {"interaction"}, of : Interactions, how : Heard]

Messages == ScriptReports \cup AgentReports \cup Settlements \cup {CancelRequest}

(* A mutant of ReceiptOf: a key that also depends on what is reported.     *)
ReceiptOfContent(m) ==
    CASE m.type = "cancel" -> <<m.type>>
      [] m.type = "observation" -> <<m.type, m.of, m.retrying>>
      [] OTHER -> <<m.type, m.of>>

(* The DBOS idempotency key of a message.  operationReceiptId,             *)
(* recoveryReceiptId, retryStartReceiptId and eventReceiptId depend on the *)
(* kind, the operation and the ordinal only: the key of an observation depends       *)
(* neither on its content nor on whether the child or the root sends it.   *)
(* The manager cancels under one key for the whole run.                    *)
ReceiptOf(m) == IF m.type = "cancel" THEN <<m.type>> ELSE <<m.type, m.of>>
=============================================================================
