--------------------------- MODULE AgentOperation ---------------------------
(***************************************************************************)
(* The child workflow of an agent operation (agentOperation in             *)
(* operation-workflow.ts): it starts one agent, polls for its result and   *)
(* for a cancellation of the root, and relays the one outcome.             *)
(*                                                                         *)
(* The agent itself is a process behind the port of agent-port.ts and goes *)
(* on while the host is down.  Like ScriptOperation this names the first   *)
(* step that is not stored:                                                *)
(*                                                                         *)
(*   "unstarted"  the root has not started the child                       *)
(*   "intent"     agentDispatchIntent                                      *)
(*   "dispatch"   the provider step, before it calls the port              *)
(*   "starting"   the same step, inside agents.start (volatile)            *)
(*   "poll"       DBOS.recv with a time out                                *)
(*   "lookup"     the step agent-result-lookup                             *)
(*   "cancel"     the step agent-cancel-reconcile                          *)
(*   "relay"      sendAgentResolution of a terminal result or a recovery   *)
(*   "done"       the workflow returned                                    *)
(*   "failed"     the workflow threw, ERROR in DBOS                        *)
(***************************************************************************)
EXTENDS DurableRun

CONSTANT
    AgentMay  \* "doubt": a call of the port throws, answers unknown or does not
              \* conform; "reject": the recovery count cannot be read

ASSUME AgentMayAssumption == AgentMay \subseteq {"doubt", "reject"}

VARIABLES
    agentLane,  \* agentLane[g]: the child workflow of g
    agent       \* agent[g]: its process

agentVars == <<agentLane, agent>>

AgentTypeOK ==
    /\ agentLane \in [Agents ->
          [pc : {"unstarted", "intent", "dispatch", "starting", "poll", "lookup",
                 "cancel", "relay", "done", "failed"},
           baseline : Nat,     \* recoveryAttemptBaseline of the intent
           recoveries : Nat,   \* recoveryAttempts of the child's DBOS status
           resolution : AgentResults \cup {"none", "recovery"},
           cancel : {"none", "queued", "received"}]]  \* its interaction topic
    /\ agent \in [Agents ->
          [state : {"absent", "rejected", "running"} \cup AgentResults,
           asked : BOOLEAN,    \* to cancel
           launches : Nat]]

AgentInit ==
    /\ agentLane = [g \in Agents |->
          [pc |-> "unstarted", baseline |-> 0, recoveries |-> 0,
           resolution |-> "none", cancel |-> "none"]]
    /\ agent = [g \in Agents |-> [state |-> "absent", asked |-> FALSE, launches |-> 0]]

AgentAt(g, pc) == agentLane[g].pc = pc
AgentGoto(g, pc) == agentLane' = [agentLane EXCEPT ![g].pc = pc]

(* The relayed resolutions; "running" only sends the child back to poll.   *)
AgentResolves(g, answer) ==
    agentLane' = [agentLane EXCEPT
        ![g].pc = IF answer = "running" THEN "poll" ELSE "relay",
        ![g].resolution = IF answer = "running" THEN @ ELSE answer]

(* resolveAgentLookup and lookupAgentResult.                               *)
LookupAnswers(g) ==
    (IF agent[g].state \in {"absent", "rejected"} THEN {"recovery"} ELSE {agent[g].state})
    \cup (IF "doubt" \in AgentMay THEN {"recovery"} ELSE {})

AgentDispatchIntent(g) ==
    /\ AgentAt(g, "intent")
    /\ agentLane' = [agentLane EXCEPT ![g].baseline = agentLane[g].recoveries,
                                      ![g].pc = "dispatch"]
    /\ UNCHANGED <<durableVars, agent>>

(* A mutant of MayStart: the step starts the agent whenever it runs.       *)
MayStartAgain(g) == TRUE

(* scriptDispatchAction: no recovery has happened since the intent.        *)
MayStart(g) == agentLane[g].recoveries = agentLane[g].baseline

(* agents.start: the port launches the agent or rejects it; an input that  *)
(* is no activity input, or a call that throws, leaves it absent.          *)
StartAgent(g) ==
    /\ AgentAt(g, "dispatch")
    /\ MayStart(g)
    /\ \E state \in {"running", "rejected", "absent"} :
          agent' = [agent EXCEPT
              ![g].state = state,
              ![g].launches = IF state = "running" THEN @ + 1 ELSE @]
    /\ AgentGoto(g, "starting")
    /\ UNCHANGED durableVars

(* A rejection carries its terminal result; what was accepted is looked up.*)
StartAnswers(g) ==
    IF agent[g].state = "rejected" THEN {"failed"} ELSE LookupAnswers(g)

StartReturns(g) ==
    /\ AgentAt(g, "starting")
    /\ \E answer \in StartAnswers(g) : AgentResolves(g, answer)
    /\ UNCHANGED <<durableVars, agent>>

ReconcileAgent(g) ==
    /\ AgentAt(g, "dispatch")
    /\ ~ MayStart(g)
    /\ \E answer \in LookupAnswers(g) : AgentResolves(g, answer)
    /\ UNCHANGED <<durableVars, agent>>

(***************************************************************************)
(* The poll loop of agentOperation                                         *)
(***************************************************************************)
ReceiveTimesOut(g) ==
    /\ AgentAt(g, "poll")
    /\ agentLane[g].cancel # "queued"
    /\ AgentGoto(g, "lookup")
    /\ UNCHANGED <<durableVars, agent>>

LookupAgent(g) ==
    /\ AgentAt(g, "lookup")
    /\ \E answer \in LookupAnswers(g) : AgentResolves(g, answer)
    /\ UNCHANGED <<durableVars, agent>>

ReceiveCancel(g) ==
    /\ AgentAt(g, "poll")
    /\ agentLane[g].cancel = "queued"
    /\ agentLane' = [agentLane EXCEPT ![g].cancel = "received", ![g].pc = "cancel"]
    /\ UNCHANGED <<durableVars, agent>>

(* agents.cancel reaches an agent that runs.                               *)
AskedToCancel(g) == agent[g].asked \/ agent[g].state = "running"

(* agentCancellation: a request is followed by a lookup.                   *)
CancelAgent(g) ==
    /\ AgentAt(g, "cancel")
    /\ agent' = [agent EXCEPT ![g].asked = AskedToCancel(g)]
    /\ \E answer \in LookupAnswers(g) : AgentResolves(g, answer)
    /\ UNCHANGED durableVars

(* A mutant of AgentOutcome: an unknown outcome is told as a failure.      *)
AgentOutcomeGuessed(g) ==
    Observation(<<g, 1>>, IF agentLane[g].resolution = "recovery" THEN "failed"
                          ELSE agentLane[g].resolution, FALSE)

AgentOutcome(g) ==
    IF agentLane[g].resolution = "recovery" THEN RecoveryRelay(<<g, 1>>)
    ELSE Observation(<<g, 1>>, agentLane[g].resolution, FALSE)

(* sendAgentResolution; a crash may repeat it under the same receipt.      *)
RelayAgent(g) ==
    /\ AgentAt(g, "relay")
    /\ Post(AgentOutcome(g))
    /\ AgentGoto(g, "done") \/ UNCHANGED agentLane
    /\ UNCHANGED <<started, winner, agent>>

(* The intent or the provider step cannot read the recovery count, which   *)
(* neither of them catches.                                                *)
AgentFails(g) ==
    /\ "reject" \in AgentMay
    /\ agentLane[g].pc \in {"intent", "dispatch"}
    /\ AgentGoto(g, "failed")
    /\ UNCHANGED <<durableVars, agent>>

AgentStep(g) ==
    \/ AgentDispatchIntent(g)
    \/ StartAgent(g)
    \/ StartReturns(g)
    \/ ReconcileAgent(g)
    \/ ReceiveTimesOut(g)
    \/ LookupAgent(g)
    \/ ReceiveCancel(g)
    \/ CancelAgent(g)
    \/ RelayAgent(g)
    \/ AgentFails(g)

(* The process ends by itself, or because it was asked to.                 *)
AgentEnds(g) ==
    /\ agent[g].state = "running"
    /\ \E result \in AgentResults :
          /\ result = "cancelled" => agent[g].asked
          /\ agent' = [agent EXCEPT ![g].state = result]
    /\ UNCHANGED <<durableVars, agentLane>>

(* DBOS recovers a child that has not returned; a start in progress begins *)
(* again.                                                                  *)
AgentsRecover ==
    agentLane' = [g \in Agents |->
        IF agentLane[g].pc \in {"unstarted", "done", "failed"} THEN agentLane[g]
        ELSE [agentLane[g] EXCEPT
                !.recoveries = @ + 1,
                !.pc = IF @ = "starting" THEN "dispatch" ELSE @]]
=============================================================================
