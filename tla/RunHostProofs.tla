---------------------------- MODULE RunHostProofs ---------------------------
(***************************************************************************)
(* Safety of a run as it executes, for every program, every number of      *)
(* attempts and every number of crashes.  What ScriptLaneProofs and        *)
(* ScriptLaneRefinement prove of the attempt lanes is taken over: the root *)
(* is shown to keep to the environment that they assume.                   *)
(***************************************************************************)
EXTENDS RunHost, FiniteSetTheorems, WellFoundedInduction, TLAPS

LaneProofs == INSTANCE ScriptLaneRefinement

InboxSet == {inbox[i] : i \in DOMAIN inbox}

(* The operation that a message is about.                                  *)
Subject(m) == IF m.type = "interaction" THEN m.of ELSE m.of[1]
AboutOperation == Messages \ {CancelRequest}

(* The child workflow of x was started.                                    *)
Moved(x) ==
    \/ x \in started
    \/ x \in Interactions /\ child[x] \notin {"unopened", "opened"}
    \/ x \in Agents /\ agentLane[x].pc # "unstarted"

Issued(x) == x \in kernel.pending \/ Moved(x)
Queued(x) == \E i \in DOMAIN commands : commands[i] = K!Dispatch(x)

(* The kernel issues every operation once: what is queued was not          *)
(* dispatched, and nothing that follows x is issued before x has settled.  *)
IssueInv ==
    /\ \A x \in Hosted : Queued(x) => x \in kernel.pending /\ ~ Moved(x)
    /\ \A i, j \in DOMAIN commands :
          commands[i].kind = "dispatch" /\ commands[i] = commands[j] => i = j
    /\ \A y \in Hosted : \A x \in K!SetOf(After[y]) :
          Issued(x) => Moved(y) /\ y \notin kernel.pending
    /\ \A i \in DOMAIN deferred : Moved(deferred[i].of)
    /\ rootPc = "advance" => deferred # << >>
    /\ \A x \in active : Moved(x)

(* The inbox holds each message once and in an order in which the relay of *)
(* an outcome precedes what the child does next; a receipt is taken for    *)
(* what was received.                                                      *)
InboxInv ==
    /\ InboxSet \subseteq posted
    /\ \A i, j \in DOMAIN inbox : inbox[i] = inbox[j] => i = j
    /\ \A i \in DOMAIN inbox : ReceiptOf(inbox[i]) \notin receipts
    /\ receipts \subseteq {ReceiptOf(p) : p \in posted}
    /\ \A i, j \in DOMAIN inbox :
          /\ inbox[i] \in Observations /\ inbox[j].type = "retryStart"
          /\ inbox[j].of = <<inbox[i].of[1], inbox[i].of[2] + 1>>
          => i < j

(* What is told of an operation was told by a child that was started, and  *)
(* the last word about it, once received, leaves it inactive.              *)
Concluding(m) ==
    m.type \in {"recovery", "interaction"} \/ (m.type = "observation" /\ ~ m.retrying)

SubjectInv ==
    \A m \in posted \cap AboutOperation :
        /\ Moved(Subject(m))
        /\ Concluding(m) /\ m \notin InboxSet /\ rootPc # "threw" => Subject(m) \notin active

(* The root claims only attempts it knows, and reports on a claim only     *)
(* what became of it.                                                      *)
Known(a) == LaneProofs!KnownToRoot(a)

TargetInv ==
    /\ \A a \in Attempts : attempt[a] \in {"pending", "running"} => Known(a)
    /\ rootPc \in {"provider", "reconcile", "relay"} => target \in Attempts /\ Known(target)
    /\ rootPc \in {"provider", "reconcile"} => winner[target] = "dispatch_won"
    /\ rootPc = "relay" =>
          \/ winner[target] = "cancel_won"
          \/ winner[target] = "dispatch_won" /\ effect[target] \in Results

(* The other children relay only what they have heard or found out.        *)
TellersInv ==
    /\ \A i \in Interactions : child[i] = "relay" => heard[i] # "none"
    /\ \A g \in Agents : AgentAt(g, "relay") => agentLane[g].resolution # "none"

(* The inductive invariant of a run.                                       *)
HostInv ==
    /\ TypeOK
    /\ LaneProofs!LanesInv
    /\ IssueInv
    /\ InboxInv
    /\ SubjectInv
    /\ TargetInv
    /\ TellersInv

-----------------------------------------------------------------------------
(* The lanes of a run are the lanes of ScriptLane.                         *)
LEMMA SameLaneStep ==
    ASSUME NEW op \in Ops, LaneStep(op)
    PROVE  LaneProofs!LaneStep(op)
  BY DEF Accept, Arbitrate, ArbitrateDispatch, ArbitrationFails, At, Current,
         DispatchIntent, ExecuteAttempt, ExecutionReturns, Goto, LaneFails,
         LaneStep, MayExecute, NextAttempt, Observation, Outcome, Post,
         ReceiptOf, ReconcileAnswers, ReconcileAttempt, RecoveryRelay,
         RelayOutcome, Resolve, Results, RetryStart, SendRetryStart,
         ShouldRetry, Stored, durableVars, providerVars, LaneProofs!Accept,
         LaneProofs!Arbitrate, LaneProofs!ArbitrateDispatch,
         LaneProofs!ArbitrationFails, LaneProofs!At, LaneProofs!Current,
         LaneProofs!DispatchIntent, LaneProofs!ExecuteAttempt,
         LaneProofs!ExecutionReturns, LaneProofs!Goto, LaneProofs!LaneFails,
         LaneProofs!LaneStep, LaneProofs!MayExecute, LaneProofs!NextAttempt,
         LaneProofs!Observation, LaneProofs!Outcome, LaneProofs!Post,
         LaneProofs!ReceiptOf, LaneProofs!ReconcileAnswers,
         LaneProofs!ReconcileAttempt, LaneProofs!RecoveryRelay,
         LaneProofs!RelayOutcome, LaneProofs!Resolve, LaneProofs!Results,
         LaneProofs!RetryStart, LaneProofs!SendRetryStart,
         LaneProofs!ShouldRetry, LaneProofs!Stored, LaneProofs!durableVars,
         LaneProofs!providerVars

(* What ScriptLane takes from RunMessages and DurableRun is what the run   *)
(* takes from them.                                                        *)
LEMMA SameNames ==
    /\ LaneProofs!Attempts = Attempts
    /\ LaneProofs!Messages = Messages
    /\ LaneProofs!ScriptReports = ScriptReports
    /\ LaneProofs!Observations = Observations
    /\ LaneProofs!Results = Results
    /\ \A m : LaneProofs!ReceiptOf(m) = ReceiptOf(m)
    /\ \A m : LaneProofs!Post(m) <=> Post(m)
    /\ \A a, c : LaneProofs!Arbitrate(a, c) <=> Arbitrate(a, c)
  BY DEF Attempts, Messages, ScriptReports, Observations, AgentReports, Settlements,
         CancelRequest, Results, AgentResults, Heard, Ordinals, ReceiptOf, Post, Arbitrate,
         Stored, LaneProofs!Attempts, LaneProofs!Messages, LaneProofs!ScriptReports,
         LaneProofs!Observations, LaneProofs!AgentReports, LaneProofs!Settlements,
         LaneProofs!CancelRequest, LaneProofs!Results, LaneProofs!AgentResults,
         LaneProofs!Heard, LaneProofs!Ordinals, LaneProofs!ReceiptOf, LaneProofs!Post,
         LaneProofs!Arbitrate, LaneProofs!Stored

(* The types of ScriptLane are the types of the run.                       *)
LEMMA SameTypes ==
    /\ Lane!TypeOK <=> DurableTypeOK /\ ProviderTypeOK /\ LaneTypeOK
    /\ LaneProofs!TypeOK <=> DurableTypeOK /\ ProviderTypeOK /\ LaneTypeOK
<1>1. /\ Lane!Messages = Messages /\ Lane!Attempts = Attempts /\ Lane!Results = Results
      /\ Lane!Ordinals = Ordinals
  BY DEF Attempts, Messages, ScriptReports, Observations, AgentReports, Settlements,
         CancelRequest, Results, AgentResults, Heard, Ordinals, Lane!Attempts, Lane!Messages,
         Lane!ScriptReports, Lane!Observations, Lane!AgentReports, Lane!Settlements,
         Lane!CancelRequest, Lane!Results, Lane!AgentResults, Lane!Heard, Lane!Ordinals
<1>2. LaneProofs!Ordinals = Ordinals
  BY DEF Ordinals, LaneProofs!Ordinals
<1>3. Lane!TypeOK <=> DurableTypeOK /\ ProviderTypeOK /\ LaneTypeOK
  BY <1>1 DEF DurableTypeOK, ProviderTypeOK, LaneTypeOK, Winners, Locations, Phases,
     Resolutions, Lane!TypeOK, Lane!DurableTypeOK, Lane!ProviderTypeOK, Lane!LaneTypeOK,
     Lane!Winners, Lane!Locations, Lane!Phases, Lane!Resolutions
<1>4. LaneProofs!TypeOK <=> DurableTypeOK /\ ProviderTypeOK /\ LaneTypeOK
  BY <1>2, SameNames DEF DurableTypeOK, ProviderTypeOK, LaneTypeOK, Winners, Locations,
     Phases, Resolutions, LaneProofs!TypeOK, LaneProofs!DurableTypeOK,
     LaneProofs!ProviderTypeOK, LaneProofs!LaneTypeOK, LaneProofs!Winners,
     LaneProofs!Locations, LaneProofs!Phases, LaneProofs!Resolutions
<1>. QED
  BY <1>3, <1>4

(* The types of what the run shares with its lanes.                        *)
LEMMA HostTypes ==
    ASSUME TypeOK
    PROVE  /\ DurableTypeOK /\ ProviderTypeOK /\ LaneTypeOK
           /\ RootTypeOK /\ InteractionTypeOK /\ AgentTypeOK
  BY SameTypes DEF TypeOK

(* The kinds of messages.                                                  *)
LEMMA Kinds ==
    ASSUME NEW m \in Messages
    PROVE  /\ m.type \in {"observation", "recovery", "retryStart", "live", "interaction", "cancel"}
           /\ m.type = "cancel" <=> m = CancelRequest
           /\ m.type = "interaction" => m \in Settlements
           /\ m.type \in {"retryStart", "live"} => m \in ScriptReports
           /\ m.type \in {"observation", "recovery"} => m \in ScriptReports \cup AgentReports
           /\ m \in ScriptReports => m.of \in Attempts
           /\ m \in ScriptReports /\ m.type = "observation" => m \in Observations
           /\ m \in AgentReports => m.of \in Agents \X {1} /\ m.type \in {"observation", "recovery"}
           /\ m \in Settlements => m.of \in Interactions /\ m.how \in Heard
<1>1. m \in Observations => m.type = "observation" /\ m.of \in Attempts
  BY DEF Observations
<1>2. m \in ScriptReports \ Observations =>
          m.type \in {"recovery", "retryStart", "live"} /\ m.of \in Attempts
  BY DEF ScriptReports
<1>3. m \in AgentReports => m.type \in {"observation", "recovery"} /\ m.of \in Agents \X {1}
  BY DEF AgentReports
<1>4. m \in Settlements => /\ m.type = "interaction" /\ m.of \in Interactions
                           /\ m.how \in Heard
  BY DEF Settlements
<1>5. CancelRequest.type = "cancel"
  BY DEF CancelRequest
<1>6. Observations \subseteq ScriptReports
  BY DEF ScriptReports
<1>. QED
  BY <1>1, <1>2, <1>3, <1>4, <1>5, <1>6 DEF Messages

(* No two of the messages posted have the same receipt.                    *)
LEMMA ReceiptsDiffer ==
    ASSUME TypeOK, LaneProofs!LanesInv
    PROVE  \A p, q \in posted : ReceiptOf(p) = ReceiptOf(q) => p = q
<1>. SUFFICES ASSUME NEW p \in posted, NEW q \in posted, ReceiptOf(p) = ReceiptOf(q)
              PROVE  p = q
  OBVIOUS
<1>1. p \in Messages /\ q \in Messages
  BY HostTypes DEF DurableTypeOK
<1>2. \A m, n \in posted \ {CancelRequest} : m.type = n.type /\ m.of = n.of => m = n
  BY DEF LaneProofs!LanesInv, LaneProofs!RefinementInv, LaneProofs!Inv,
         LaneProofs!OneReportPerReceipt, LaneProofs!CancelRequest, CancelRequest
<1>. QED
  BY <1>1, <1>2, Kinds DEF ReceiptOf

(* LatestAttempt chooses one of the attempts it is to choose from.         *)
LEMMA LatestAttemptExists ==
    ASSUME NEW op, CancellableAttempts(op) # {}
    PROVE  LatestAttempt(op) \in CancellableAttempts(op)
<1>. DEFINE S == CancellableAttempts(op)
            Left == {MaxAttempts - a[2] : a \in S}
<1>1. \A a \in S : a \in Attempts /\ a[2] \in Nat /\ a[2] <= MaxAttempts
  BY MaxAttemptsAssumption DEF CancellableAttempts, Attempts, Ordinals
<1>2. Left \subseteq Nat /\ Left # {}
  BY <1>1, MaxAttemptsAssumption
<1>3. PICK n \in Left : \A m \in Left : <<m, n>> \notin OpToRel(<, Nat)
  BY <1>2, NatLessThanWellFounded, WFMin
<1>4. PICK a \in S : n = MaxAttempts - a[2]
  BY <1>3
<1>5. ASSUME NEW b \in S PROVE b[2] <= a[2]
  <2>1. MaxAttempts - b[2] \in Left /\ MaxAttempts - b[2] \in Nat /\ n \in Nat
    BY <1>1, <1>2, <1>3
  <2>2. ~ (MaxAttempts - b[2] < n)
    BY <1>3, <2>1 DEF OpToRel
  <2>. QED
    BY <1>1, <1>4, <2>1, <2>2, MaxAttemptsAssumption
<1>. QED
  BY <1>4, <1>5 DEF LatestAttempt

-----------------------------------------------------------------------------
(* What a child and its script do is what they do in ScriptLane.           *)
LEMMA ChildSteps ==
    ASSUME NEW op \in Ops, Child(op) \/ Emits(op)
    PROVE  LaneProofs!Next
<1>1. CASE Child(op)
  BY <1>1, SameLaneStep DEF Child, LaneProofs!Next
<1>2. CASE Emits(op)
  <2>1. LaneProofs!ScriptEmits(op)
    BY <1>2, SameNames DEF Emits, ScriptEmits, At, Current, LiveEvent, providerVars, laneVars,
       LaneProofs!ScriptEmits, LaneProofs!At, LaneProofs!Current, LaneProofs!LiveEvent,
       LaneProofs!providerVars, LaneProofs!laneVars
  <2>. QED
    BY <2>1 DEF LaneProofs!Next
<1>. QED
  BY <1>1, <1>2

LEMMA WorldSteps ==
    ASSUME \/ \E a \in Attempts : ScriptEnds(a)
           \/ Crash
    PROVE  LaneProofs!Next
<1>1. ASSUME NEW a \in Attempts, ScriptEnds(a) PROVE LaneProofs!Next
  <2>1. LaneProofs!ScriptEnds(a)
    BY <1>1 DEF ScriptEnds, Seal, durableVars, laneVars, LaneProofs!ScriptEnds,
       LaneProofs!Seal, LaneProofs!durableVars, LaneProofs!laneVars
  <2>. QED
    BY <1>1, <2>1, SameNames DEF LaneProofs!Next
<1>2. CASE Crash
  BY <1>2 DEF Crash, HostCrash, LanesRecover, Ended, durableVars, providerVars,
     LaneProofs!Next, LaneProofs!HostCrash, LaneProofs!LanesRecover, LaneProofs!Ended,
     LaneProofs!durableVars, LaneProofs!providerVars
<1>. QED
  BY <1>1, <1>2

(* The messages that do not report on scripts are sent by others.          *)
LEMMA OthersSend ==
    ASSUME NEW m \in Messages \ ScriptReports, Post(m),
           UNCHANGED <<started, winner, providerVars, laneVars>>
    PROVE  LaneProofs!Next
  BY SameNames DEF providerVars, laneVars, LaneProofs!OthersPost, LaneProofs!Next,
     LaneProofs!providerVars, LaneProofs!laneVars

LEMMA OtherKinds ==
    /\ CancelRequest \in Messages \ ScriptReports
    /\ \A i \in Interactions, how \in Heard : Settlement(i, how) \in Messages \ ScriptReports
    /\ \A g \in Agents, r \in AgentResults :
          Observation(<<g, 1>>, r, FALSE) \in Messages \ ScriptReports
    /\ \A g \in Agents : RecoveryRelay(<<g, 1>>) \in Messages \ ScriptReports
<1>1. \A g \in Agents : <<g, 1>> \in Agents \X {1} /\ <<g, 1>> \notin Attempts
  BY KindsAssumption DEF Attempts
<1>2. \A i \in Interactions, how \in Heard : Settlement(i, how) \in Messages \ ScriptReports
  BY DEF Settlement, Settlements, Messages, ScriptReports, Observations
<1>3. \A g \in Agents, r \in AgentResults :
          Observation(<<g, 1>>, r, FALSE) \in Messages \ ScriptReports
  BY <1>1 DEF Observation, AgentReports, Messages, ScriptReports, Observations
<1>4. \A g \in Agents : RecoveryRelay(<<g, 1>>) \in Messages \ ScriptReports
  BY <1>1 DEF RecoveryRelay, AgentReports, Messages, ScriptReports, Observations
<1>. QED
  BY <1>2, <1>3, <1>4 DEF CancelRequest, Messages, ScriptReports, Observations

(* The root takes messages off its inbox.                                  *)
LEMMA ReceivingSteps ==
    ASSUME \/ HandleCancellation \/ HandleLiveEvent \/ HandleRetryStart
           \/ HandleRecovery \/ HandleObservation \/ HandleInteraction,
           UNCHANGED laneVars
    PROVE  LaneProofs!Next
<1>1. /\ inbox # << >> /\ inbox' = Tail(inbox)
      /\ UNCHANGED <<started, posted, winner, providerVars>>
  BY DEF HandleCancellation, HandleLiveEvent, HandleRetryStart, HandleRecovery,
         HandleObservation, HandleInteraction, Receives
<1>. QED
  BY <1>1 DEF providerVars, laneVars, LaneProofs!RootReceives, LaneProofs!Next,
     LaneProofs!providerVars, LaneProofs!laneVars

(* What the root does to the attempts of its targets.                      *)
LEMMA ClaimingSteps ==
    ASSUME HostInv, NEW op \in Ops, ClaimCancel(op) \/ ClaimCancelFails(op),
           UNCHANGED laneVars
    PROVE  [LaneProofs!Next]_(LaneProofs!vars)
<1>. DEFINE a == LatestAttempt(op)
<1>1. a \in CancellableAttempts(op)
  BY LatestAttemptExists DEF ClaimCancel, ClaimCancelFails
<1>2. a \in Attempts /\ Known(a)
  BY <1>1 DEF CancellableAttempts, HostInv, TargetInv
<1>3. UNCHANGED <<started, inbox, posted, providerVars>>
  BY DEF ClaimCancel, ClaimCancelFails
<1>4. CASE Arbitrate(a, "cancel_won")
  BY <1>2, <1>3, <1>4, SameNames DEF Known, providerVars, laneVars, LaneProofs!Next,
     LaneProofs!RootClaimsCancel, LaneProofs!providerVars, LaneProofs!laneVars
<1>5. CASE UNCHANGED winner
  BY <1>3, <1>5 DEF providerVars, laneVars, LaneProofs!vars, LaneProofs!durableVars,
     LaneProofs!providerVars, LaneProofs!laneVars
<1>. QED
  BY <1>4, <1>5 DEF ClaimCancel, ClaimCancelFails

LEMMA RelayingStep ==
    ASSUME HostInv, RelayCancellation, UNCHANGED laneVars
    PROVE  LaneProofs!RootReports(target) /\ target \in Attempts
<1>1. target \in Attempts /\ Known(target)
  BY DEF HostInv, TargetInv, RelayCancellation
<1>2. UNCHANGED <<started, winner, providerVars>>
  BY DEF RelayCancellation
<1>3. \/ winner[target] = "cancel_won" /\ Post(Observation(target, "preDispatch", FALSE))
      \/ /\ winner[target] = "dispatch_won" /\ effect[target] \in Results
         /\ Post(Observation(target, effect[target], FALSE))
  BY DEF HostInv, TargetInv, RelayCancellation, CancelledAs
<1>4. \A a, r, b : LaneProofs!Observation(a, r, b) = Observation(a, r, b)
  BY DEF Observation, LaneProofs!Observation
<1>. QED
  BY <1>1, <1>2, <1>3, <1>4, SameNames DEF Known, providerVars, laneVars,
     LaneProofs!RootReports, LaneProofs!providerVars, LaneProofs!laneVars

(* Every step of the root is one that ScriptLane allows it.                *)
LEMMA RootSteps ==
    ASSUME HostInv, Root
    PROVE  [LaneProofs!Next]_(LaneProofs!vars)
<1>. USE DEF LaneProofs!vars, LaneProofs!durableVars, LaneProofs!providerVars,
             LaneProofs!laneVars, laneVars, durableVars, providerVars
<1>1. UNCHANGED laneVars
  BY DEF Root
<1>2. CASE UNCHANGED <<durableVars, providerVars>>
  BY <1>1, <1>2
<1>3. CASE DispatchOperation
  BY <1>1, <1>3 DEF DispatchOperation, LaneProofs!RootStartsChild, LaneProofs!Next
<1>4. ASSUME NEW op \in Ops, ClaimCancel(op) \/ ClaimCancelFails(op)
      PROVE  [LaneProofs!Next]_(LaneProofs!vars)
  BY <1>1, <1>4, ClaimingSteps
<1>5. CASE RelayCancellation
  BY <1>1, <1>5, RelayingStep, SameNames DEF LaneProofs!Next
<1>6. CASE \/ HandleCancellation \/ HandleLiveEvent \/ HandleRetryStart
           \/ HandleRecovery \/ HandleObservation \/ HandleInteraction
  BY <1>1, <1>6, ReceivingSteps
<1>7. CASE \/ RefuseCommand \/ StartCancelPending \/ FinishRun \/ AdvanceKernel
           \/ TargetsDone \/ CancelAttempt \/ ReconcileCancellation
           \/ OpenInteraction \/ StartInteraction \/ DispatchAgent
  BY <1>2, <1>7 DEF RefuseCommand, StartCancelPending, FinishRun, AdvanceKernel, TargetsDone,
     CancelAttempt, ReconcileCancellation, OpenInteraction, StartInteraction, DispatchAgent
<1>8. CASE \/ \E op \in Ops : NothingToCancel(op)
           \/ \E i \in Interactions : CancelInteraction(i)
           \/ \E g \in Agents : AskAgent(g)
  BY <1>2, <1>8 DEF NothingToCancel, CancelInteraction, AskAgent
<1>. QED
  BY <1>3, <1>4, <1>5, <1>6, <1>7, <1>8
     DEF Root, RootStep, ScriptRootStep, InteractionRootStep, AgentRootStep

(* Every step of the run is a step of ScriptLane, or none that it sees.    *)
LEMMA HostStepIsLaneStep ==
    ASSUME HostInv, [Next]_vars
    PROVE  [LaneProofs!Next]_(LaneProofs!vars)
<1>. USE DEF LaneProofs!vars, LaneProofs!durableVars, LaneProofs!providerVars,
             LaneProofs!laneVars, laneVars, durableVars, providerVars
<1>1. ASSUME NEW i \in Interactions, InteractionChild(i)
      PROVE  [LaneProofs!Next]_(LaneProofs!vars)
  <2>1. CASE RelaySettlement(i)
    <3>1. heard[i] \in Heard
      BY <2>1, HostTypes DEF RelaySettlement, HostInv, TellersInv, InteractionTypeOK
    <3>. QED
      BY <1>1, <2>1, <3>1, OthersSend, OtherKinds DEF RelaySettlement, InteractionChild
  <2>2. CASE ReceivesInteraction(i) \/ TimerExpires(i) \/ WindowExpires(i)
    BY <1>1, <2>2 DEF ReceivesInteraction, TimerExpires, WindowExpires, Hears, InteractionChild
  <2>. QED
    BY <1>1, <2>1, <2>2 DEF InteractionChild, InteractionStep
<1>2. ASSUME NEW g \in Agents, AgentChild(g)
      PROVE  [LaneProofs!Next]_(LaneProofs!vars)
  <2>1. CASE RelayAgent(g)
    <3>1. agentLane[g].resolution \in AgentResults \cup {"recovery"}
      BY <2>1, HostTypes DEF RelayAgent, HostInv, TellersInv, AgentTypeOK, AgentAt
    <3>2. AgentOutcome(g) \in Messages \ ScriptReports
      BY <3>1, OtherKinds DEF AgentOutcome
    <3>. QED
      BY <1>2, <2>1, <3>2, OthersSend DEF RelayAgent, AgentChild
  <2>2. CASE UNCHANGED durableVars
    BY <1>2, <2>2 DEF AgentChild
  <2>. QED
    BY <1>2, <2>1, <2>2 DEF AgentChild, AgentStep, AgentDispatchIntent, StartAgent,
       StartReturns, ReconcileAgent, ReceiveTimesOut, LookupAgent, ReceiveCancel,
       CancelAgent, AgentFails
<1>3. ASSUME NEW g \in Agents, AgentProcess(g)
      PROVE  [LaneProofs!Next]_(LaneProofs!vars)
  BY <1>3 DEF AgentProcess, AgentEnds
<1>4. ASSUME NEW c \in Calls, CallChecks(c) \/ CallSends(c) \/ CallFails(c)
      PROVE  [LaneProofs!Next]_(LaneProofs!vars)
  BY <1>4 DEF CallChecks, CallSends, CallFails
<1>5. CASE CancelRunChecks \/ UNCHANGED vars
  BY <1>5 DEF CancelRunChecks, vars
<1>6. CASE CancelRunSends
  BY <1>6, OthersSend, OtherKinds DEF CancelRunSends
<1>. QED
  BY <1>1, <1>2, <1>3, <1>4, <1>5, <1>6, ChildSteps, WorldSteps, RootSteps DEF Next

-----------------------------------------------------------------------------
(* Every step of the run keeps what the lanes keep true, and takes back    *)
(* neither a decision nor a sealed result.                                 *)
LEMMA LanesKeep ==
    ASSUME HostInv, [Next]_vars
    PROVE  /\ LaneProofs!LanesInv'
           /\ \A a \in Attempts : winner[a] # "none" => winner'[a] = winner[a]
           /\ \A a \in Attempts : effect[a] \in Results => effect'[a] = effect[a]
<1>1. [LaneProofs!Next]_(LaneProofs!vars)
  BY HostStepIsLaneStep
<1>2. LaneProofs!LanesInv /\ LaneProofs!RefinementInv /\ LaneProofs!TypeOK
  BY DEF HostInv, LaneProofs!LanesInv, LaneProofs!RefinementInv, LaneProofs!Inv
<1>3. LaneProofs!LanesInv'
  BY <1>1, <1>2, LaneProofs!LanesInvStep, MaxAttemptsAssumption, KindsAssumption,
     PortAssumption, MaxCrashesAssumption, EndingsAssumption DEF Results, LaneProofs!Results
<1>4. LaneProofs!ContractStep
  BY <1>1, <1>2, LaneProofs!LanesStep, MaxAttemptsAssumption, KindsAssumption,
     PortAssumption, MaxCrashesAssumption, EndingsAssumption DEF Results, LaneProofs!Results
<1>5. LaneProofs!DecisionsStand /\ LaneProofs!ResultsStand
  BY <1>2, <1>4, LaneProofs!ContractStands, MaxAttemptsAssumption, KindsAssumption,
     PortAssumption, MaxCrashesAssumption, EndingsAssumption DEF Results, LaneProofs!Results
<1>. QED
  BY <1>3, <1>5, SameNames DEF LaneProofs!DecisionsStand, LaneProofs!ResultsStand

(* The command at hand.                                                    *)
LEMMA HeadCommand ==
    ASSUME RootTypeOK, HasCommand("dispatch")
    PROVE  /\ Head(commands).of \in Hosted
           /\ Head(commands) = K!Dispatch(Head(commands).of)
           /\ 1 \in DOMAIN commands /\ commands[1] = Head(commands)
<1>1. commands \in Seq(K!Commands) /\ commands # << >> /\ Head(commands).kind = "dispatch"
  BY DEF HasCommand, RootTypeOK
<1>2. Head(commands) \in K!Commands /\ 1 \in DOMAIN commands /\ commands[1] = Head(commands)
  BY <1>1
<1>3. Head(commands) \in [kind : {"dispatch"}, of : Hosted]
  BY <1>1, <1>2 DEF K!Commands, K!TerminalKinds
<1>. QED
  BY <1>2, <1>3 DEF K!Dispatch

(* A child that was started stays started, and only the dispatch of its    *)
(* operation starts it.                                                    *)
Starts(x) ==
    /\ x \in Hosted /\ HasCommand("dispatch") /\ Head(commands) = K!Dispatch(x)
    /\ commands' = Tail(commands) /\ active' = active \cup {x}
    /\ UNCHANGED <<rootPc, kernel, inbox, posted, receipts, deferred>>

LEMMA Moves ==
    ASSUME HostInv, [Next]_vars, NEW x \in Hosted
    PROVE  /\ Moved(x) => Moved(x)'
           /\ Moved(x)' /\ ~ Moved(x) => Starts(x)
<1>. DEFINE Same == /\ Moved(x) => Moved(x)'
                    /\ Moved(x)' /\ ~ Moved(x) => Starts(x)
<1>1. RootTypeOK /\ InteractionTypeOK /\ AgentTypeOK
  BY HostTypes DEF HostInv
<1>2. ASSUME UNCHANGED <<started, child>>,
             \A g \in Agents : agentLane'[g].pc = "unstarted" <=> agentLane[g].pc = "unstarted"
      PROVE  Same
  BY <1>2 DEF Moved
<1>3. ASSUME HasCommand("dispatch"), TakeCommand,
             active' = active \cup {Head(commands).of},
             UNCHANGED <<rootPc, kernel, inbox, posted, receipts, deferred>>
      PROVE  Head(commands).of \in Hosted /\ Starts(Head(commands).of)
  BY <1>1, <1>3, HeadCommand DEF Starts, TakeCommand
<1>4. CASE DispatchOperation /\ UNCHANGED <<interactionVars, agentVars>>
  <2>. DEFINE y == Head(commands).of
  <2>1. Starts(y) /\ y \in Hosted
    BY <1>3, <1>4 DEF DispatchOperation
  <2>2. started' = started \cup {y} /\ UNCHANGED <<child, agentLane>>
    BY <1>4 DEF DispatchOperation, interactionVars, agentVars
  <2>. QED
    BY <2>1, <2>2 DEF Moved
<1>5. CASE DispatchAgent
  <2>. DEFINE y == Head(commands).of
  <2>1. Starts(y) /\ y \in Agents
    BY <1>3, <1>5 DEF DispatchAgent, durableVars
  <2>2. /\ UNCHANGED <<started, child>>
        /\ agentLane' = [agentLane EXCEPT ![y].pc = "intent"]
    BY <1>5 DEF DispatchAgent, interactionVars, AgentGoto, durableVars
  <2>. QED
    BY <1>1, <2>1, <2>2 DEF Moved, AgentTypeOK
<1>6. CASE StartInteraction /\ UNCHANGED agentVars
  <2>. DEFINE y == Head(commands).of
  <2>1. Starts(y) /\ y \in Interactions
    BY <1>3, <1>6 DEF StartInteraction, durableVars
  <2>2. /\ UNCHANGED <<started, agentLane>>
        /\ child' = [child EXCEPT ![y] = "waiting"]
    BY <1>6 DEF StartInteraction, agentVars, durableVars
  <2>. QED
    BY <1>1, <2>1, <2>2 DEF Moved, InteractionTypeOK
<1>7. CASE OpenInteraction /\ UNCHANGED agentVars
  BY <1>1, <1>7 DEF OpenInteraction, agentVars, durableVars, Moved, InteractionTypeOK
<1>8. CASE (\E g \in Agents : AskAgent(g))
  <2>1. PICK g \in Agents : AskAgent(g)
    BY <1>8
  <2>2. /\ UNCHANGED <<started, child>>
        /\ agentLane' = [agentLane EXCEPT ![g].cancel = IF @ = "none" THEN "queued" ELSE @]
    BY <2>1 DEF AskAgent, durableVars, interactionVars
  <2>. QED
    BY <1>1, <1>2, <2>2 DEF AgentTypeOK
<1>9. CASE Root
  <2>1. CASE /\ HandleInteraction \/ \E i \in Interactions : CancelInteraction(i)
             /\ UNCHANGED agentVars
    BY <1>2, <2>1 DEF HandleInteraction, CancelInteraction, durableVars, agentVars
  <2>2. CASE ScriptRootStep /\ ~ DispatchOperation /\ UNCHANGED <<interactionVars, agentVars>>
    <3>1. UNCHANGED <<started, child, agentLane>>
      BY <2>2 DEF ScriptRootStep, RefuseCommand, StartCancelPending, FinishRun,
         HandleCancellation, HandleLiveEvent, HandleRetryStart, HandleRecovery,
         HandleObservation, AdvanceKernel, TargetsDone, ClaimCancel, ClaimCancelFails,
         NothingToCancel, CancelAttempt, ReconcileCancellation, RelayCancellation,
         durableVars, interactionVars, agentVars
    <3>. QED
      BY <1>2, <3>1
  <2>. QED
    BY <1>4, <1>5, <1>6, <1>7, <1>8, <1>9, <2>1, <2>2
       DEF Root, RootStep, InteractionRootStep, AgentRootStep, ScriptRootStep
<1>10. ASSUME NEW op \in Ops, Child(op) \/ Emits(op) PROVE Same
  <2>1. UNCHANGED <<started, child, agentLane>>
    BY <1>10 DEF Child, Emits, ScriptEmits, LaneStep, DispatchIntent, ArbitrateDispatch,
       ArbitrationFails, ExecuteAttempt, ExecutionReturns, ReconcileAttempt, LaneFails,
       RelayOutcome, SendRetryStart, NextAttempt, durableVars, peerVars, interactionVars,
       agentVars
  <2>. QED
    BY <1>2, <2>1
<1>11. ASSUME NEW i \in Interactions, InteractionChild(i) PROVE Same
  <2>1. UNCHANGED <<started, agentLane>>
    BY <1>11 DEF InteractionChild, InteractionStep, ReceivesInteraction, TimerExpires,
       WindowExpires, Hears, RelaySettlement, durableVars, agentVars
  <2>2. /\ child[i] \in {"waiting", "relay"}
        /\ \/ UNCHANGED child
           \/ \E w \in {"relay", "failed", "done"} : child' = [child EXCEPT ![i] = w]
    BY <1>11 DEF InteractionChild, InteractionStep, ReceivesInteraction, TimerExpires,
       WindowExpires, Hears, RelaySettlement
  <2>. QED
    BY <1>1, <2>1, <2>2 DEF Moved, InteractionTypeOK
<1>12. ASSUME NEW g \in Agents, AgentChild(g) \/ AgentProcess(g) PROVE Same
  <2>1. UNCHANGED <<started, child>>
    BY <1>12 DEF AgentChild, AgentProcess, AgentEnds, AgentStep, AgentDispatchIntent,
       StartAgent, StartReturns, ReconcileAgent, ReceiveTimesOut, LookupAgent, ReceiveCancel,
       CancelAgent, RelayAgent, AgentFails, durableVars, interactionVars
  <2>2. \/ UNCHANGED agentLane
        \/ /\ agentLane[g].pc # "unstarted"
           /\ \A h \in Agents \ {g} : agentLane'[h] = agentLane[h]
           /\ agentLane'[g].pc # "unstarted"
    <3>1. \/ UNCHANGED agentLane
          \/ /\ agentLane[g].pc # "unstarted"
             /\ \/ \E w \in {"starting", "lookup", "done", "failed"} : AgentGoto(g, w)
                \/ \E answer : AgentResolves(g, answer)
                \/ AgentDispatchIntent(g) \/ ReceiveCancel(g)
      BY <1>12 DEF AgentChild, AgentProcess, AgentEnds, AgentStep, StartAgent, StartReturns,
         ReconcileAgent, ReceiveTimesOut, LookupAgent, CancelAgent, RelayAgent, AgentFails,
         AgentAt, AgentDispatchIntent, ReceiveCancel
    <3>2. ASSUME NEW w \in {"starting", "lookup", "done", "failed"}, AgentGoto(g, w)
          PROVE  /\ \A h \in Agents \ {g} : agentLane'[h] = agentLane[h]
                 /\ agentLane'[g].pc # "unstarted"
      BY <1>1, <3>2 DEF AgentGoto, AgentTypeOK
    <3>3. ASSUME NEW answer, AgentResolves(g, answer)
          PROVE  /\ \A h \in Agents \ {g} : agentLane'[h] = agentLane[h]
                 /\ agentLane'[g].pc # "unstarted"
      BY <1>1, <3>3 DEF AgentResolves, AgentTypeOK
    <3>4. ASSUME AgentDispatchIntent(g) \/ ReceiveCancel(g)
          PROVE  /\ \A h \in Agents \ {g} : agentLane'[h] = agentLane[h]
                 /\ agentLane'[g].pc # "unstarted"
      BY <1>1, <3>4 DEF AgentDispatchIntent, ReceiveCancel, AgentTypeOK
    <3>. QED
      BY <3>1, <3>2, <3>3, <3>4
  <2>. QED
    BY <1>2, <2>1, <2>2
<1>13. CASE Crash
  <2>1. UNCHANGED <<started, child>>
    BY <1>13 DEF Crash, HostCrash, durableVars, interactionVars
  <2>2. \A g \in Agents : agentLane'[g].pc = "unstarted" <=> agentLane[g].pc = "unstarted"
    <3>. SUFFICES ASSUME NEW g \in Agents
                  PROVE  agentLane'[g].pc = "unstarted" <=> agentLane[g].pc = "unstarted"
      OBVIOUS
    <3>1. agentLane'[g] = IF agentLane[g].pc \in {"unstarted", "done", "failed"}
                          THEN agentLane[g]
                          ELSE [agentLane[g] EXCEPT
                                  !.recoveries = @ + 1,
                                  !.pc = IF @ = "starting" THEN "dispatch" ELSE @]
      BY <1>13, Zenon DEF Crash, AgentsRecover
    <3>2. agentLane[g].pc \notin {"unstarted", "done", "failed"} =>
              agentLane'[g].pc = IF agentLane[g].pc = "starting" THEN "dispatch"
                                 ELSE agentLane[g].pc
      BY <1>1, <3>1 DEF AgentTypeOK
    <3>. QED
      BY <3>1, <3>2
  <2>. QED
    BY <1>2, <2>1, <2>2
<1>14. CASE \/ \E c \in Calls : CallChecks(c) \/ CallSends(c) \/ CallFails(c)
            \/ \E a \in Attempts : ScriptEnds(a)
            \/ CancelRunChecks \/ CancelRunSends \/ UNCHANGED vars
  <2>1. UNCHANGED <<started, child, agentLane>>
    BY <1>14 DEF CallChecks, CallSends, CallFails, ScriptEnds, CancelRunChecks, CancelRunSends,
       vars, durableVars, peerVars, interactionVars, agentVars
  <2>. QED
    BY <1>2, <2>1
<1>. QED
  BY <1>9, <1>10, <1>11, <1>12, <1>13, <1>14 DEF Next

(* A root that threw takes no step.                                        *)
LEMMA ThrewStays ==
    ASSUME [Next]_vars, rootPc = "threw"
    PROVE  UNCHANGED rootVars
<1>1. ~ RootStep
  BY DEF RootStep, ScriptRootStep, InteractionRootStep, AgentRootStep, RefuseCommand,
     DispatchOperation, DispatchAgent, OpenInteraction, StartInteraction, StartCancelPending,
     FinishRun, HasCommand, HandleCancellation, HandleLiveEvent, HandleRetryStart,
     HandleRecovery, HandleObservation, HandleInteraction, Receives, AdvanceKernel,
     TargetsDone, ClaimCancel, ClaimCancelFails, NothingToCancel, CancelAttempt,
     ReconcileCancellation, RelayCancellation, CancelInteraction, AskAgent
<1>. QED
  BY <1>1 DEF Next, Root, Child, Emits, InteractionChild, AgentChild, AgentProcess, ScriptEnds,
     CallChecks, CallSends, CallFails, CancelRunChecks, CancelRunSends, Crash, vars

(* The message at hand was posted, and its receipt is not taken.           *)
LEMMA HeadMessage ==
    ASSUME HostInv, inbox # << >>
    PROVE  /\ 1 \in DOMAIN inbox /\ Head(inbox) = inbox[1]
           /\ Head(inbox) \in InboxSet /\ Head(inbox) \in posted /\ Head(inbox) \in Messages
           /\ ReceiptOf(Head(inbox)) \notin receipts
<1>1. inbox \in Seq(Messages)
  BY HostTypes DEF HostInv, DurableTypeOK
<1>2. 1 \in DOMAIN inbox /\ Head(inbox) = inbox[1] /\ Head(inbox) \in Messages
  BY <1>1
<1>. QED
  BY <1>2 DEF HostInv, InboxInv, InboxSet

(* The root takes the first message off its inbox, and its receipt.  The   *)
(* last word about an operation leaves it inactive.                        *)
Takes ==
    /\ inbox # << >> /\ inbox' = Tail(inbox) /\ UNCHANGED posted
    /\ receipts' \subseteq receipts \cup {ReceiptOf(Head(inbox))}
    /\ active' \subseteq active
    /\ Concluding(Head(inbox)) /\ rootPc' # "threw" => Subject(Head(inbox)) \notin active'

LEMMA HandlersTake ==
    ASSUME HostInv,
           \/ HandleCancellation \/ HandleLiveEvent \/ HandleRetryStart
           \/ HandleRecovery \/ HandleObservation \/ HandleInteraction
    PROVE  Takes
<1>. DEFINE m == Head(inbox)
<1>1. /\ inbox # << >> /\ inbox' = Tail(inbox) /\ UNCHANGED posted
  BY DEF HandleCancellation, HandleLiveEvent, HandleRetryStart, HandleRecovery,
         HandleObservation, HandleInteraction, Receives
<1>2. ReceiptOf(m) \notin receipts
  BY <1>1, HeadMessage
<1>3. CASE HandleCancellation \/ HandleLiveEvent \/ HandleRetryStart
  <2>1. m.type \in {"cancel", "live", "retryStart"} /\ UNCHANGED active
    BY <1>3 DEF HandleCancellation, HandleLiveEvent, HandleRetryStart, Receives
  <2>2. receipts' \subseteq receipts \cup {ReceiptOf(m)}
    BY <1>3 DEF HandleCancellation, HandleLiveEvent, HandleRetryStart
  <2>. QED
    BY <1>1, <2>1, <2>2 DEF Takes, Concluding
<1>4. CASE HandleRecovery
  <2>1. m.type = "recovery"
    BY <1>4 DEF HandleRecovery, Receives
  <2>2. \/ /\ rootPc' = "threw" /\ UNCHANGED <<receipts, active>>
        \/ receipts' = receipts \cup {ReceiptOf(m)} /\ active' = active \ {m.of[1]}
    BY <1>2, <1>4 DEF HandleRecovery, Remaining, Throw
  <2>. QED
    BY <1>1, <2>1, <2>2 DEF Takes, Subject
<1>5. CASE HandleObservation
  <2>1. m.type = "observation"
    BY <1>5 DEF HandleObservation, Receives
  <2>2. \/ /\ rootPc' = "threw" /\ UNCHANGED <<receipts, active>>
        \/ /\ receipts' = receipts \cup {ReceiptOf(m)}
           /\ \/ m.retrying /\ UNCHANGED active
              \/ active' = active \ {m.of[1]}
    BY <1>2, <1>5
       DEF HandleObservation, ApplyRetrying, ApplySettled, Settle, Remaining, Throw
  <2>. QED
    BY <1>1, <2>1, <2>2 DEF Takes, Subject, Concluding
<1>6. CASE HandleInteraction
  <2>1. m.type = "interaction"
    BY <1>6 DEF HandleInteraction, Receives
  <2>2. \/ /\ rootPc' = "threw" /\ UNCHANGED <<receipts, active>>
        \/ receipts' = receipts \cup {ReceiptOf(m)} /\ active' = active \ {m.of}
    BY <1>2, <1>6 DEF HandleInteraction, Settle, Remaining, Throw
  <2>. QED
    BY <1>1, <2>1, <2>2 DEF Takes, Subject
<1>. QED
  BY <1>3, <1>4, <1>5, <1>6

(* A message is sent about an operation whose child was started.           *)
Sends(m) ==
    /\ m \in Messages /\ Post(m)
    /\ m # CancelRequest => Moved(Subject(m))
    /\ UNCHANGED <<receipts, active>>

LEMMA ScriptsSend ==
    ASSUME HostInv, NEW op \in Ops, Child(op) \/ Emits(op)
    PROVE  UNCHANGED <<inbox, posted, receipts, active>> \/ \E m \in ScriptReports : Sends(m)
<1>1. LaneTypeOK /\ UNCHANGED <<receipts, active>>
  BY HostTypes DEF HostInv, Child, Emits, rootVars, runtimeVars
<1>2. /\ pc[op] = "relay" => resolution[op] # "none"
      /\ pc[op] = "retryStart" => ordinal[op] < MaxAttempts
  BY DEF HostInv, LaneProofs!LanesInv, LaneProofs!RefinementInv, LaneProofs!Inv,
         LaneProofs!LaneInv
<1>3. Current(op) \in Attempts /\ Current(op) = <<op, ordinal[op]>> /\ ordinal[op] \in Ordinals
  BY <1>1 DEF LaneTypeOK, Current, Attempts
<1>4. CASE RelayOutcome(op)
  <2>1. Outcome(op) \in ScriptReports /\ Outcome(op).of = Current(op)
    BY <1>1, <1>2, <1>3, <1>4 DEF RelayOutcome, At, Outcome, RecoveryRelay, Observation,
       ScriptReports, Observations, LaneTypeOK, Resolutions, ShouldRetry
  <2>2. Subject(Outcome(op)) = op /\ op \in started /\ Post(Outcome(op))
    BY <1>3, <1>4, <2>1 DEF RelayOutcome, At, Subject, ScriptReports, Observations
  <2>. QED
    BY <1>1, <2>1, <2>2 DEF Sends, Messages, Moved
<1>5. CASE SendRetryStart(op)
  <2>. DEFINE m == RetryStart(<<op, ordinal[op] + 1>>)
  <2>1. m \in ScriptReports
    BY <1>2, <1>3, <1>5, MaxAttemptsAssumption
       DEF SendRetryStart, At, RetryStart, ScriptReports, Attempts, Ordinals
  <2>2. Subject(m) = op /\ op \in started /\ Post(m)
    BY <1>5 DEF SendRetryStart, At, Subject, RetryStart
  <2>. QED
    BY <1>1, <2>1, <2>2 DEF Sends, Messages, Moved
<1>6. CASE Emits(op)
  <2>. DEFINE m == LiveEvent(Current(op))
  <2>1. m \in ScriptReports
    BY <1>3 DEF LiveEvent, ScriptReports
  <2>2. Subject(m) = op /\ op \in started /\ Post(m)
    BY <1>3, <1>6 DEF Emits, ScriptEmits, At, Subject, LiveEvent
  <2>. QED
    BY <1>1, <2>1, <2>2 DEF Sends, Messages, Moved
<1>7. CASE Child(op) /\ ~ RelayOutcome(op) /\ ~ SendRetryStart(op)
  BY <1>1, <1>7 DEF Child, LaneStep, DispatchIntent, ArbitrateDispatch, ArbitrationFails,
     ExecuteAttempt, ExecutionReturns, ReconcileAttempt, LaneFails, NextAttempt, durableVars
<1>. QED
  BY <1>4, <1>5, <1>6, <1>7

LEMMA OthersRelay ==
    ASSUME HostInv,
           \/ \E i \in Interactions : InteractionChild(i)
           \/ \E g \in Agents : AgentChild(g)
           \/ CancelRunSends
    PROVE  UNCHANGED <<inbox, posted, receipts, active>> \/ \E m \in Messages : Sends(m)
<1>1. UNCHANGED <<receipts, active>>
  BY DEF InteractionChild, AgentChild, CancelRunSends, rootVars, runtimeVars
<1>2. ASSUME NEW i \in Interactions, RelaySettlement(i) PROVE \E m \in Messages : Sends(m)
  <2>1. heard[i] \in Heard /\ child[i] = "relay"
    BY <1>2, HostTypes DEF RelaySettlement, HostInv, TellersInv, InteractionTypeOK
  <2>2. Settlement(i, heard[i]) \in Messages /\ Subject(Settlement(i, heard[i])) = i
    BY <2>1, OtherKinds DEF Settlement, Subject
  <2>. QED
    BY <1>1, <1>2, <2>1, <2>2 DEF RelaySettlement, Sends, Moved
<1>3. ASSUME NEW g \in Agents, RelayAgent(g) PROVE \E m \in Messages : Sends(m)
  <2>1. agentLane[g].resolution \in AgentResults \cup {"recovery"} /\ agentLane[g].pc = "relay"
    BY <1>3, HostTypes DEF RelayAgent, HostInv, TellersInv, AgentTypeOK, AgentAt
  <2>2. AgentOutcome(g) \in Messages
    BY <2>1, OtherKinds DEF AgentOutcome
  <2>3. Subject(AgentOutcome(g)) = g
    BY DEF AgentOutcome, Subject, Observation, RecoveryRelay
  <2>. QED
    BY <1>1, <1>3, <2>1, <2>2, <2>3 DEF RelayAgent, Sends, Moved
<1>4. CASE CancelRunSends
  BY <1>1, <1>4, OtherKinds DEF CancelRunSends, Sends
<1>5. ASSUME NEW i \in Interactions, InteractionChild(i), ~ RelaySettlement(i)
      PROVE  UNCHANGED <<inbox, posted, receipts, active>>
  BY <1>1, <1>5 DEF InteractionChild, InteractionStep, ReceivesInteraction, TimerExpires,
     WindowExpires, Hears, durableVars
<1>6. ASSUME NEW g \in Agents, AgentChild(g), ~ RelayAgent(g)
      PROVE  UNCHANGED <<inbox, posted, receipts, active>>
  BY <1>1, <1>6 DEF AgentChild, AgentStep, AgentDispatchIntent, StartAgent, StartReturns,
     ReconcileAgent, ReceiveTimesOut, LookupAgent, ReceiveCancel, CancelAgent, AgentFails,
     durableVars
<1>. QED
  BY <1>2, <1>3, <1>4, <1>5, <1>6

(* The root inserts its own relays of the attempts it claimed.             *)
LEMMA RootRelays ==
    ASSUME HostInv, RelayCancellation
    PROVE  \E m \in ScriptReports : Sends(m)
<1>. DEFINE m == Observation(target, CancelledAs(target), FALSE)
<1>1. target \in Attempts /\ target[1] \in started
  BY DEF HostInv, TargetInv, RelayCancellation, Known, LaneProofs!KnownToRoot
<1>2. CancelledAs(target) \in Results \cup {"preDispatch"}
  BY DEF HostInv, TargetInv, RelayCancellation, CancelledAs
<1>3. m \in ScriptReports /\ Subject(m) = target[1]
  BY <1>1, <1>2 DEF Observation, Observations, ScriptReports, Messages, Subject
<1>. QED
  BY <1>1, <1>3 DEF RelayCancellation, Sends, Moved, Messages, runtimeVars

(* Every step leaves the inbox alone, takes the first message off it, or   *)
(* sends one.                                                              *)
LEMMA MessagesMove ==
    ASSUME HostInv, [Next]_vars
    PROVE  \/ UNCHANGED <<inbox, posted, receipts>>
           \/ Takes
           \/ \E m \in Messages : Sends(m)
<1>1. CASE Root
  <2>1. CASE RelayCancellation
    BY <2>1, RootRelays DEF Messages
  <2>2. CASE \/ HandleCancellation \/ HandleLiveEvent \/ HandleRetryStart
             \/ HandleRecovery \/ HandleObservation \/ HandleInteraction
    BY <2>2, HandlersTake
  <2>3. CASE \/ RefuseCommand \/ DispatchOperation \/ StartCancelPending \/ FinishRun
             \/ AdvanceKernel \/ TargetsDone \/ CancelAttempt \/ ReconcileCancellation
             \/ OpenInteraction \/ StartInteraction \/ DispatchAgent
             \/ \E op \in Ops : ClaimCancel(op) \/ ClaimCancelFails(op) \/ NothingToCancel(op)
             \/ \E i \in Interactions : CancelInteraction(i)
             \/ \E g \in Agents : AskAgent(g)
    <3>1. UNCHANGED <<inbox, posted, receipts>>
      BY <2>3 DEF RefuseCommand, DispatchOperation, StartCancelPending, FinishRun,
         AdvanceKernel, TargetsDone, CancelAttempt, ReconcileCancellation, OpenInteraction,
         StartInteraction, DispatchAgent, ClaimCancel, ClaimCancelFails, NothingToCancel,
         CancelInteraction, AskAgent, durableVars, rootVars, runtimeVars
    <3>. QED
      BY <3>1
  <2>. QED
    BY <1>1, <2>1, <2>2, <2>3
       DEF Root, RootStep, ScriptRootStep, InteractionRootStep, AgentRootStep
<1>2. CASE \/ \E g \in Agents : AgentProcess(g)
           \/ \E c \in Calls : CallChecks(c) \/ CallSends(c) \/ CallFails(c)
           \/ \E a \in Attempts : ScriptEnds(a)
           \/ CancelRunChecks \/ Crash \/ UNCHANGED vars
  <2>1. UNCHANGED <<inbox, posted, receipts>>
    BY <1>2 DEF AgentProcess, AgentEnds, CallChecks, CallSends, CallFails, ScriptEnds,
       CancelRunChecks, Crash, HostCrash, vars, durableVars, rootVars, runtimeVars
  <2>. QED
    BY <2>1
<1>. QED
  BY <1>1, <1>2, ScriptsSend, OthersRelay DEF Next, Messages

(* An operation becomes active only when its child is started.             *)
LEMMA ActiveMoves ==
    ASSUME HostInv, [Next]_vars
    PROVE  active' \subseteq active \/ \E x \in Hosted : Starts(x) /\ ~ Moved(x) /\ Moved(x)'
<1>1. RootTypeOK /\ AgentTypeOK /\ InteractionTypeOK
  BY HostTypes DEF HostInv
<1>2. CASE DispatchOperation \/ DispatchAgent \/ StartInteraction
  <2>. DEFINE x == Head(commands).of
  <2>1. HasCommand("dispatch") /\ x \in Hosted /\ Head(commands) = K!Dispatch(x)
    BY <1>1, <1>2, HeadCommand DEF DispatchOperation, DispatchAgent, StartInteraction
  <2>2. Starts(x)
    BY <1>2, <2>1
       DEF DispatchOperation, DispatchAgent, StartInteraction, Starts, TakeCommand, durableVars
  <2>3. ~ Moved(x)
    BY <1>1, <2>1, HeadCommand DEF HostInv, IssueInv, Queued
  <2>4. \E y \in Hosted : y = x /\ Moved(y)'
    <3>1. PICK y \in Hosted : y = x
      BY <2>1
    <3>2. Moved(y)'
      BY <1>1, <1>2, <3>1 DEF DispatchOperation, DispatchAgent, AgentGoto, StartInteraction,
         Moved, AgentTypeOK, InteractionTypeOK
    <3>. QED
      BY <3>1, <3>2
  <2>. QED
    BY <2>2, <2>3, <2>4
<1>3. CASE Root /\ ~ (DispatchOperation \/ DispatchAgent \/ StartInteraction)
  <2>1. active' \subseteq active
    BY <1>3, HandlersTake DEF Root, RootStep, ScriptRootStep, InteractionRootStep,
       AgentRootStep, RefuseCommand, StartCancelPending, FinishRun, AdvanceKernel,
       TargetsDone, ClaimCancel, ClaimCancelFails, NothingToCancel, CancelAttempt,
       ReconcileCancellation, RelayCancellation, OpenInteraction, CancelInteraction,
       AskAgent, Takes, rootVars, runtimeVars
  <2>. QED
    BY <2>1
<1>4. CASE ~ Root
  BY <1>4 DEF Next, Child, Emits, InteractionChild, AgentChild, AgentProcess, ScriptEnds,
     CallChecks, CallSends, CallFails, CancelRunChecks, CancelRunSends, Crash, vars, rootVars,
     runtimeVars
<1>. QED
  BY <1>2, <1>3, <1>4

-----------------------------------------------------------------------------
(* An observation is not sent any more once its next attempt is announced. *)
LEMMA ObservationComesFirst ==
    ASSUME HostInv, NEW m \in Observations, Post(m), m \notin posted, m \in posted',
           NEW p \in posted, p.type = "retryStart"
    PROVE  p.of # <<m.of[1], m.of[2] + 1>>
<1>1. posted \subseteq Messages
  BY HostTypes DEF HostInv, DurableTypeOK
<1>2. m.of \in Attempts /\ m.of[2] \in Nat /\ m.of[2] > 0 /\ m.of = <<m.of[1], m.of[2]>>
      /\ m.type = "observation"
  BY MaxAttemptsAssumption DEF Observations, Attempts, Ordinals
<1>3. p \in ScriptReports
  BY <1>1, Kinds
<1>4. p \in LaneProofs!Reports
  BY <1>3, SameNames DEF LaneProofs!Reports
<1>5. SUFFICES ASSUME p.of = <<m.of[1], m.of[2] + 1>> PROVE FALSE
  OBVIOUS
<1>6. p.of[1] = m.of[1] /\ p.of[2] = m.of[2] + 1
  BY <1>5
<1>7. p.of[2] > 1 /\ p.of[2] - 1 = m.of[2]
  BY <1>2, <1>6
<1>8. PICK q \in LaneProofs!Reports :
          q.type = "observation" /\ q.of = <<p.of[1], p.of[2] - 1>>
  BY <1>4, <1>7 DEF HostInv, LaneProofs!LanesInv, LaneProofs!ReportsOrdered
<1>9. q \in posted /\ q.type = "observation" /\ q.of = m.of
  BY <1>2, <1>6, <1>7, <1>8 DEF LaneProofs!Reports
<1>10. ReceiptOf(q) = ReceiptOf(m)
  BY <1>2, <1>9 DEF ReceiptOf
<1>. QED
  BY <1>9, <1>10 DEF Post

LEMMA InboxSends ==
    ASSUME HostInv, NEW m \in Messages, Sends(m)
    PROVE  InboxInv'
<1>1. inbox \in Seq(Messages) /\ InboxInv /\ UNCHANGED receipts
  BY HostTypes DEF HostInv, DurableTypeOK, Sends
<1>2. CASE UNCHANGED <<inbox, posted>>
  BY <1>1, <1>2 DEF InboxInv, InboxSet
<1>3. CASE ~ UNCHANGED <<inbox, posted>>
  <2>1. /\ inbox' = Append(inbox, m) /\ posted' = posted \cup {m}
        /\ \A p \in posted : ReceiptOf(p) # ReceiptOf(m)
    BY <1>3 DEF Sends, Post
  <2>2. m \notin posted
    BY <2>1
  <2>. DEFINE n == Len(inbox)
  <2>3. /\ n \in Nat /\ DOMAIN inbox = 1..n /\ DOMAIN inbox' = 1..(n + 1)
        /\ inbox'[n + 1] = m /\ \A i \in 1..n : inbox'[i] = inbox[i]
    BY <1>1, <2>1
  <2>4. \A i \in 1..n : inbox[i] \in posted
    BY <1>1, <2>3 DEF InboxInv, InboxSet
  <2>5. (InboxSet \subseteq posted)'
    BY <2>1, <2>3, <2>4 DEF InboxSet
  <2>6. \A i, j \in DOMAIN inbox' : inbox'[i] = inbox'[j] => i = j
    BY <1>1, <2>2, <2>3, <2>4 DEF InboxInv
  <2>7. \A i \in DOMAIN inbox' : ReceiptOf(inbox'[i]) \notin receipts'
    BY <1>1, <2>1, <2>3, <2>4 DEF InboxInv
  <2>8. receipts' \subseteq {ReceiptOf(p) : p \in posted'}
    BY <1>1, <2>1 DEF InboxInv
  <2>9. ASSUME NEW i \in DOMAIN inbox', NEW j \in DOMAIN inbox',
               inbox'[i] \in Observations, inbox'[j].type = "retryStart",
               inbox'[j].of = <<inbox'[i].of[1], inbox'[i].of[2] + 1>>
        PROVE  i < j
    <3>1. CASE i \in 1..n /\ j \in 1..n
      BY <1>1, <2>3, <2>9, <3>1 DEF InboxInv
    <3>2. CASE i \in 1..n /\ j = n + 1
      BY <2>3, <3>2
    <3>3. CASE i = n + 1 /\ j \in 1..n
      BY <2>1, <2>2, <2>3, <2>4, <2>9, <3>3, ObservationComesFirst DEF Sends
    <3>4. CASE i = n + 1 /\ j = n + 1
      BY <2>3, <2>9, <3>4 DEF Observations
    <3>. QED
      BY <2>3, <3>1, <3>2, <3>3, <3>4
  <2>. QED
    BY <2>5, <2>6, <2>7, <2>8, <2>9 DEF InboxInv
<1>. QED
  BY <1>2, <1>3

LEMMA InboxTakes ==
    ASSUME HostInv, Takes
    PROVE  InboxInv'
<1>1. inbox \in Seq(Messages) /\ InboxInv /\ inbox # << >>
  BY HostTypes DEF HostInv, DurableTypeOK, Takes
<1>. DEFINE n == Len(inbox)
<1>2. /\ n \in Nat /\ DOMAIN inbox = 1..n /\ 1 \in DOMAIN inbox
      /\ DOMAIN inbox' = 1..(n - 1) /\ \A i \in 1..(n - 1) : inbox'[i] = inbox[i + 1]
      /\ Head(inbox) = inbox[1] /\ UNCHANGED posted
  BY <1>1 DEF Takes
<1>3. \A i \in 1..(n - 1) : i + 1 \in DOMAIN inbox /\ i + 1 # 1
  BY <1>2
<1>4. \A i \in 1..n : inbox[i] \in posted
  BY <1>1, <1>2 DEF InboxInv, InboxSet
<1>5. (InboxSet \subseteq posted)'
  BY <1>2, <1>3, <1>4 DEF InboxSet
<1>6. \A i, j \in DOMAIN inbox' : inbox'[i] = inbox'[j] => i = j
  <2>. SUFFICES ASSUME NEW i \in 1..(n - 1), NEW j \in 1..(n - 1), inbox[i + 1] = inbox[j + 1]
                PROVE  i = j
    BY <1>2
  <2>1. i + 1 = j + 1
    BY <1>1, <1>3 DEF InboxInv
  <2>. QED
    BY <1>2, <2>1
<1>7. ASSUME NEW i \in DOMAIN inbox' PROVE ReceiptOf(inbox'[i]) \notin receipts'
  <2>1. inbox[i + 1] # inbox[1]
    BY <1>1, <1>2, <1>3 DEF InboxInv
  <2>2. ReceiptOf(inbox[i + 1]) # ReceiptOf(inbox[1])
    BY <1>2, <1>3, <1>4, <2>1, ReceiptsDiffer DEF HostInv
  <2>3. ReceiptOf(inbox[i + 1]) \notin receipts
    BY <1>1, <1>2, <1>3 DEF InboxInv
  <2>. QED
    BY <1>2, <2>2, <2>3 DEF Takes
<1>8. receipts' \subseteq {ReceiptOf(p) : p \in posted'}
  BY <1>1, <1>2, <1>4 DEF InboxInv, Takes
<1>9. ASSUME NEW i \in DOMAIN inbox', NEW j \in DOMAIN inbox',
             inbox'[i] \in Observations, inbox'[j].type = "retryStart",
             inbox'[j].of = <<inbox'[i].of[1], inbox'[i].of[2] + 1>>
      PROVE  i < j
  <2>1. i + 1 < j + 1
    BY <1>1, <1>2, <1>3, <1>9 DEF InboxInv
  <2>. QED
    BY <1>2, <2>1
<1>. QED
  BY <1>5, <1>6, <1>7, <1>8, <1>9 DEF InboxInv

LEMMA InboxStep ==
    ASSUME HostInv, [Next]_vars
    PROVE  InboxInv'
<1>1. CASE UNCHANGED <<inbox, posted, receipts>>
  BY <1>1 DEF HostInv, InboxInv, InboxSet
<1>. QED
  BY <1>1, MessagesMove, InboxSends, InboxTakes

(* What was posted about an operation stays true of it.                    *)
LEMMA SubjectStep ==
    ASSUME HostInv, [Next]_vars
    PROVE  SubjectInv'
<1>1. posted \subseteq Messages /\ inbox \in Seq(Messages) /\ SubjectInv
  BY HostTypes DEF HostInv, DurableTypeOK
<1>2. \A m \in AboutOperation : Subject(m) \in Hosted
  BY DEF AboutOperation, Messages, ScriptReports, Observations, AgentReports, Settlements,
     CancelRequest, Subject, Attempts, Hosted
<1>3. ASSUME NEW m \in posted' \cap AboutOperation PROVE Moved(Subject(m))
  <2>1. CASE m \in posted
    BY <1>1, <1>3, <2>1 DEF SubjectInv
  <2>2. CASE m \notin posted
    <3>1. PICK p \in Messages : Sends(p)
      BY <1>3, <2>2, MessagesMove DEF Takes
    <3>2. m = p
      BY <1>3, <2>2, <3>1 DEF Sends, Post
    <3>. QED
      BY <1>3, <3>1, <3>2 DEF Sends, AboutOperation
  <2>. QED
    BY <2>1, <2>2
<1>4. ASSUME NEW m \in posted' \cap AboutOperation PROVE Moved(Subject(m))'
  BY <1>2, <1>3, <1>4, Moves
<1>5. ASSUME NEW m \in posted' \cap AboutOperation,
             Concluding(m), m \notin InboxSet', rootPc' # "threw"
      PROVE  Subject(m) \notin active'
  <2>1. rootPc # "threw"
    BY <1>5, ThrewStays DEF rootVars
  <2>2. Subject(m) \in active' => Subject(m) \in active
    BY <1>2, <1>3, <1>5, ActiveMoves DEF Starts, Moved
  <2>3. CASE m \in posted /\ m \notin InboxSet
    BY <1>1, <1>5, <2>1, <2>2, <2>3 DEF SubjectInv
  <2>4. CASE m \in InboxSet
    <3>1. CASE Takes
      <4>1. inbox # << >> /\ inbox' = Tail(inbox)
        BY <3>1 DEF Takes
      <4>2. \A i \in DOMAIN inbox : i # 1 => i - 1 \in DOMAIN inbox' /\ inbox'[i - 1] = inbox[i]
        BY <1>1, <4>1
      <4>3. m = Head(inbox)
        <5>1. PICK i \in DOMAIN inbox : inbox[i] = m
          BY <2>4 DEF InboxSet
        <5>2. \A j \in DOMAIN inbox' : inbox'[j] # m
          BY <1>5 DEF InboxSet
        <5>3. i = 1
          BY <4>2, <5>1, <5>2
        <5>. QED
          BY <1>1, <4>1, <5>1, <5>3
      <4>. QED
        BY <1>5, <3>1, <4>3 DEF Takes
    <3>2. CASE UNCHANGED <<inbox, posted, receipts>>
      BY <1>5, <2>4, <3>2 DEF InboxSet
    <3>3. ASSUME NEW p \in Messages, Sends(p) PROVE m \in InboxSet'
      <4>1. inbox' \in {inbox, Append(inbox, p)}
        BY <3>3 DEF Sends, Post
      <4>2. \A i \in DOMAIN inbox : i \in DOMAIN inbox' /\ inbox'[i] = inbox[i]
        BY <1>1, <4>1
      <4>. QED
        BY <2>4, <4>2 DEF InboxSet
    <3>. QED
      BY <1>5, <3>1, <3>2, <3>3, MessagesMove
  <2>5. CASE m \notin posted
    <3>1. PICK p \in Messages : Sends(p)
      BY <1>5, <2>5, MessagesMove DEF Takes
    <3>2. m = p /\ inbox' = Append(inbox, p)
      BY <1>5, <2>5, <3>1 DEF Sends, Post
    <3>3. Len(inbox) + 1 \in DOMAIN inbox' /\ inbox'[Len(inbox) + 1] = m
      BY <1>1, <3>2
    <3>. QED
      BY <1>5, <3>3 DEF InboxSet
  <2>. QED
    BY <2>3, <2>4, <2>5
<1>. QED
  BY <1>4, <1>5 DEF SubjectInv

(* What the root knows of an attempt it goes on knowing.                   *)
LEMMA KnownStays ==
    ASSUME HostInv, [Next]_vars, NEW a \in Attempts, Known(a)
    PROVE  Known(a)'
<1>1. posted \subseteq posted'
  BY MessagesMove DEF Takes, Sends, Post
<1>2. a[1] \in Ops /\ a[1] \notin Interactions /\ a[1] \notin Agents
  BY KindsAssumption DEF Attempts
<1>3. a[1] \in started'
  BY <1>2, Moves DEF Moved, Hosted, Known, LaneProofs!KnownToRoot
<1>. QED
  BY <1>1, <1>3 DEF Known, LaneProofs!KnownToRoot

(* Every attempt that becomes pending or running is one the root knows.    *)
LEMMA RetryStartsKnown ==
    ASSUME HostInv, HandleRetryStart, UNCHANGED <<started, posted>>, NEW a \in Attempts,
           attempt'[a] # attempt[a]
    PROVE  Known(a)
<1>. DEFINE m == Head(inbox)
<1>1. /\ m \in posted /\ m \in Messages /\ m = inbox[1] /\ 1 \in DOMAIN inbox
      /\ ReceiptOf(m) \notin receipts /\ m.type = "retryStart" /\ rootPc = "loop"
  BY HeadMessage DEF HandleRetryStart, Receives
<1>2. m \in ScriptReports /\ m.of \in Attempts
  BY <1>1, Kinds
<1>3. attempt \in [HostedAttempts -> AttemptStatuses] /\ posted \subseteq Messages
      /\ inbox \in Seq(Messages)
  BY HostTypes DEF HostInv, RootTypeOK, DurableTypeOK
<1>4. a = m.of /\ m.of[1] \in active
  BY <1>1, <1>3 DEF HandleRetryStart, HostedAttempts, Throw
<1>5. m.of[1] \in started
  <2>1. m.of[1] \in Ops /\ Moved(m.of[1])
    BY <1>2, <1>4 DEF HostInv, IssueInv, Attempts
  <2>. QED
    BY <2>1, KindsAssumption DEF Moved
<1>6. CASE m.of[2] = 1
  BY <1>4, <1>5, <1>6 DEF Known, LaneProofs!KnownToRoot
<1>7. CASE m.of[2] # 1
  <2>1. m.of[2] \in Nat /\ m.of[2] > 1
    BY <1>2, <1>7, MaxAttemptsAssumption DEF Attempts, Ordinals
  <2>2. PICK p \in LaneProofs!Reports :
            p.type = "observation" /\ p.of = <<m.of[1], m.of[2] - 1>>
    BY <1>1, <1>2, <2>1, SameNames
       DEF HostInv, LaneProofs!LanesInv, LaneProofs!ReportsOrdered, LaneProofs!Reports
  <2>3. p \in posted /\ p \in Observations /\ p \in Messages
    BY <1>3, <2>2, Kinds, SameNames DEF LaneProofs!Reports
  <2>4. p.of[1] = m.of[1] /\ p.of[2] + 1 = m.of[2] /\ m.of = <<m.of[1], m.of[2]>>
    <3>1. p.of[1] = m.of[1] /\ p.of[2] = m.of[2] - 1
      BY <2>2
    <3>. QED
      BY <1>2, <2>1, <3>1 DEF Attempts
  <2>5. CASE p.retrying
    BY <1>4, <1>5, <2>2, <2>3, <2>5 DEF Known, LaneProofs!KnownToRoot
  <2>6. CASE ~ p.retrying
    <3>1. p \notin InboxSet
      <4>. SUFFICES ASSUME NEW i \in DOMAIN inbox, inbox[i] = p PROVE FALSE
        BY DEF InboxSet
      <4>1. i < 1
        BY <1>1, <2>3, <2>4 DEF HostInv, InboxInv
      <4>. QED
        BY <1>3, <4>1
    <3>2. Subject(p) = m.of[1] /\ Concluding(p) /\ p \in AboutOperation
      BY <2>2, <2>3, <2>4, <2>6, Kinds DEF Subject, Concluding, AboutOperation
    <3>. QED
      BY <1>1, <1>4, <2>3, <3>1, <3>2 DEF HostInv, SubjectInv
  <2>. QED
    BY <2>5, <2>6
<1>. QED
  BY <1>6, <1>7

LEMMA ObservationsKnown ==
    ASSUME HostInv, HandleObservation, NEW a \in Attempts,
           attempt'[a] \in {"pending", "running"}, attempt'[a] # attempt[a]
    PROVE  Known(a)
<1>. DEFINE m == Head(inbox)
<1>1. m \in posted /\ m \in Messages /\ m.type = "observation"
  BY HeadMessage DEF HandleObservation, Receives
<1>2. attempt \in [HostedAttempts -> AttemptStatuses]
  BY HostTypes DEF HostInv, RootTypeOK
<1>3. \A r : OutcomeOf(r) \notin {"pending", "running"} \/ r \notin Results \cup {"preDispatch"}
  BY DEF OutcomeOf, Results
<1>4. m.result \in Results \cup {"preDispatch"}
  BY <1>1, Kinds DEF Observations, AgentReports, AgentResults, Results
<1>5. ~ ApplySettled(m)
  BY <1>2, <1>3, <1>4 DEF ApplySettled, HostedAttempts
<1>6. ApplyRetrying(m) /\ m.retrying
  BY <1>5 DEF HandleObservation
<1>7. a = <<m.of[1], m.of[2] + 1>>
  BY <1>2, <1>6 DEF ApplyRetrying, HostedAttempts
<1>8. m \in Observations /\ m.of \in Attempts
  BY <1>1, <1>6, Kinds DEF AgentReports
<1>9. m.of[1] \in started
  <2>1. m.of[1] \in Ops /\ Moved(Subject(m)) /\ Subject(m) = m.of[1]
    BY <1>1, <1>8, Kinds DEF HostInv, SubjectInv, AboutOperation, Subject, Attempts
  <2>. QED
    BY <2>1, KindsAssumption DEF Moved
<1>10. <<a[1], a[2] - 1>> = m.of /\ a[1] = m.of[1]
  <2>1. a[1] = m.of[1] /\ a[2] = m.of[2] + 1 /\ m.of[2] \in Nat /\ m.of = <<m.of[1], m.of[2]>>
    BY <1>7, <1>8, MaxAttemptsAssumption DEF Attempts, Ordinals
  <2>2. a[2] - 1 = m.of[2]
    BY <2>1
  <2>. QED
    BY <2>1, <2>2
<1>. QED
  BY <1>1, <1>6, <1>9, <1>10 DEF Known, LaneProofs!KnownToRoot

LEMMA AttemptsKnown ==
    ASSUME HostInv, [Next]_vars, NEW a \in Attempts, attempt'[a] \in {"pending", "running"}
    PROVE  Known(a)'
<1>1. attempt \in [HostedAttempts -> AttemptStatuses] /\ a \in HostedAttempts
  BY HostTypes DEF HostInv, RootTypeOK, HostedAttempts
<1>2. CASE attempt'[a] = attempt[a]
  BY <1>2, KnownStays DEF HostInv, TargetInv
<1>3. CASE attempt'[a] # attempt[a]
  <2>1. Root
    BY <1>3 DEF Next, Child, Emits, InteractionChild, AgentChild, AgentProcess, ScriptEnds,
       CallChecks, CallSends, CallFails, CancelRunChecks, CancelRunSends, Crash, vars,
       rootVars, journalVars
  <2>2. CASE DispatchOperation
    <3>1. a = <<Head(commands).of, 1>> /\ started' = started \cup {Head(commands).of}
      BY <1>1, <1>3, <2>2 DEF DispatchOperation
    <3>. QED
      BY <3>1 DEF Known, LaneProofs!KnownToRoot
  <2>3. CASE DispatchAgent
    BY <1>1, <1>3, <2>3, KindsAssumption DEF DispatchAgent, Attempts
  <2>4. CASE HandleRetryStart
    <3>1. UNCHANGED <<started, posted>>
      BY <2>4 DEF HandleRetryStart
    <3>. QED
      BY <1>3, <2>4, <3>1, RetryStartsKnown, KnownStays
  <2>5. CASE HandleObservation
    BY <1>3, <2>5, ObservationsKnown, KnownStays
  <2>6. CASE HandleRecovery
    BY <1>1, <1>3, <2>6 DEF HandleRecovery, MarkRecovery, journalVars
  <2>7. CASE \/ CancelAttempt \/ ReconcileCancellation
             \/ \E op \in Ops : ClaimCancelFails(op)
    BY <1>1, <1>3, <2>7 DEF CancelAttempt, ReconcileCancellation, ClaimCancelFails,
       RecordCancellationRecovery, MarkRecovery, journalVars
  <2>. QED
    BY <1>3, <2>1, <2>2, <2>3, <2>4, <2>5, <2>6, <2>7
       DEF Root, RootStep, ScriptRootStep, InteractionRootStep, AgentRootStep, RefuseCommand,
       StartCancelPending, FinishRun, HandleCancellation, HandleLiveEvent, AdvanceKernel,
       TargetsDone, ClaimCancel, NothingToCancel, RelayCancellation, OpenInteraction,
       StartInteraction, HandleInteraction, CancelInteraction, AskAgent, rootVars, journalVars
<1>. QED
  BY <1>2, <1>3

Claiming == {"provider", "reconcile", "relay"}

(* The root leaves its target alone unless it claims one or hears of it.   *)
LEMMA TargetMoves ==
    ASSUME HostInv, [Next]_vars, rootPc' \in Claiming
    PROVE  \/ UNCHANGED <<rootPc, target>>
           \/ \E op \in Ops : ClaimCancel(op)
           \/ CancelAttempt \/ ReconcileCancellation
<1>1. CASE Root
  BY <1>1 DEF Root, RootStep, ScriptRootStep, InteractionRootStep, AgentRootStep, Claiming,
     RefuseCommand, DispatchOperation, StartCancelPending, FinishRun, HandleCancellation,
     HandleLiveEvent, HandleRetryStart, HandleRecovery, HandleObservation, ApplyRetrying,
     ApplySettled, Settle, AdvanceKernel, TargetsDone, ClaimCancelFails,
     RecordCancellationRecovery, NothingToCancel, RelayCancellation, OpenInteraction,
     StartInteraction, HandleInteraction, CancelInteraction, DispatchAgent, AskAgent, Throw,
     rootVars, runtimeVars
<1>2. CASE ~ Root
  BY <1>2 DEF Next, Child, Emits, InteractionChild, AgentChild, AgentProcess, ScriptEnds,
     CallChecks, CallSends, CallFails, CancelRunChecks, CancelRunSends, Crash, vars, rootVars
<1>. QED
  BY <1>1, <1>2

LEMMA TargetStep ==
    ASSUME HostInv, [Next]_vars
    PROVE  TargetInv'
<1>1. /\ winner \in [Attempts -> Winners] /\ TargetInv
      /\ \A a \in Attempts : winner[a] # "none" => winner'[a] = winner[a]
      /\ \A a \in Attempts : effect[a] \in Results => effect'[a] = effect[a]
  BY HostTypes, LanesKeep DEF HostInv, DurableTypeOK
<1>2. \A a \in Attempts : attempt'[a] \in {"pending", "running"} => Known(a)'
  BY AttemptsKnown
<1>3. ASSUME rootPc' \in Claiming
      PROVE  \E a \in Attempts :
                 /\ a = target' /\ Known(a)'
                 /\ rootPc' \in {"provider", "reconcile"} => winner'[a] = "dispatch_won"
                 /\ rootPc' = "relay" =>
                       \/ winner'[a] = "cancel_won"
                       \/ winner'[a] = "dispatch_won" /\ effect'[a] \in Results
  <2>1. CASE UNCHANGED <<rootPc, target>>
    <3>1. target \in Attempts /\ Known(target)
      BY <1>1, <1>3, <2>1 DEF TargetInv, Claiming
    <3>2. PICK a \in Attempts : a = target /\ Known(a)
      BY <3>1
    <3>3. Known(a)'
      BY <3>2, KnownStays
    <3>. QED
      BY <1>1, <1>3, <2>1, <3>2, <3>3 DEF TargetInv, Claiming
  <2>2. CASE \E op \in Ops : ClaimCancel(op)
    <3>1. PICK op \in Ops : ClaimCancel(op)
      BY <2>2
    <3>2. PICK a \in Attempts : a = LatestAttempt(op) /\ attempt[a] \in {"pending", "running"}
      BY <3>1, LatestAttemptExists DEF ClaimCancel, CancellableAttempts
    <3>3. target' = a /\ rootPc' = IF winner'[a] = "cancel_won" THEN "relay" ELSE "provider"
      BY <3>1, <3>2 DEF ClaimCancel
    <3>4. winner'[a] \in {"cancel_won", "dispatch_won"}
      BY <1>1, <3>1, <3>2 DEF ClaimCancel, Arbitrate, Stored, Winners
    <3>5. Known(a)'
      BY <1>1, <3>2, KnownStays DEF TargetInv
    <3>. QED
      BY <3>3, <3>4, <3>5
  <2>3. CASE CancelAttempt \/ ReconcileCancellation
    <3>1. /\ UNCHANGED <<target, winner, effect>>
          /\ rootPc \in {"provider", "reconcile"}
          /\ \/ rootPc' = "reconcile"
             \/ rootPc' = "relay" /\ effect[target] \in Results
      BY <1>3, <2>3 DEF CancelAttempt, ReconcileCancellation, CancelAnswers, ReconcileAnswers,
         RecordCancellationRecovery, Claiming, Results, durableVars, providerVars
    <3>2. target \in Attempts /\ Known(target) /\ winner[target] = "dispatch_won"
      BY <1>1, <3>1 DEF TargetInv
    <3>3. PICK a \in Attempts : a = target /\ Known(a)
      BY <3>2
    <3>4. Known(a)'
      BY <3>3, KnownStays
    <3>. QED
      BY <3>1, <3>2, <3>3, <3>4
  <2>. QED
    BY <1>3, <2>1, <2>2, <2>3, TargetMoves
<1>4. rootPc' \in Claiming => target' \in Attempts /\ Known(target)'
  BY <1>3 DEF Known, LaneProofs!KnownToRoot
<1>. QED
  BY <1>2, <1>3, <1>4 DEF TargetInv, Claiming

-----------------------------------------------------------------------------
(* What the child of an agent resolves.                                    *)
LEMMA AgentAnswers ==
    ASSUME AgentTypeOK, NEW g \in Agents
    PROVE  /\ LookupAnswers(g) \subseteq {"running", "recovery"} \cup AgentResults
           /\ StartAnswers(g) \subseteq {"running", "recovery"} \cup AgentResults
  BY DEF AgentTypeOK, LookupAnswers, StartAnswers, AgentResults

LEMMA AgentResolvesToRelay ==
    ASSUME AgentTypeOK, NEW g \in Agents,
           NEW answer \in {"running", "recovery"} \cup AgentResults, AgentResolves(g, answer)
    PROVE  /\ \A h \in Agents \ {g} : agentLane'[h] = agentLane[h]
           /\ agentLane'[g].pc = "relay" => agentLane'[g].resolution = answer
           /\ agentLane'[g].pc \in {"poll", "relay"}
  BY DEF AgentResolves, AgentTypeOK

LEMMA TellersStep ==
    ASSUME HostInv, [Next]_vars
    PROVE  TellersInv'
<1>1. InteractionTypeOK /\ AgentTypeOK /\ TellersInv
  BY HostTypes DEF HostInv
<1>2. ASSUME NEW i \in Interactions, child'[i] = "relay" PROVE heard'[i] # "none"
  <2>1. CASE child'[i] = child[i] /\ heard'[i] = heard[i]
    BY <1>1, <1>2, <2>1 DEF TellersInv
  <2>2. CASE \E j \in Interactions : InteractionChild(j)
    <3>1. PICK j \in Interactions : InteractionChild(j)
      BY <2>2
    <3>2. CASE RelaySettlement(j) \/ WindowExpires(j)
      <4>1. heard' = heard /\ (child'[i] = "relay" => child[i] = "relay")
        BY <1>1, <3>1, <3>2 DEF RelaySettlement, WindowExpires, InteractionTypeOK
      <4>. QED
        BY <1>1, <1>2, <4>1 DEF TellersInv
    <3>3. ASSUME NEW what \in Heard, Hears(j, what) PROVE heard'[i] # "none"
      <4>1. CASE i = j
        BY <1>1, <3>3, <4>1, KindsAssumption DEF Hears, InteractionTypeOK, Heard
      <4>2. CASE i # j
        BY <1>1, <1>2, <3>3, <4>2 DEF Hears, InteractionTypeOK, TellersInv
      <4>. QED
        BY <4>1, <4>2
    <3>4. CASE ReceivesInteraction(j)
      <4>1. Head(box[j]) \in Heard /\ Hears(j, Head(box[j]))
        BY <1>1, <3>4 DEF ReceivesInteraction, InteractionTypeOK
      <4>. QED
        BY <3>3, <4>1
    <3>5. CASE TimerExpires(j)
      BY <3>3, <3>5 DEF TimerExpires, Heard
    <3>. QED
      BY <3>1, <3>2, <3>3, <3>4, <3>5 DEF InteractionChild, InteractionStep
  <2>3. CASE Root
    <3>1. heard' = heard
      BY <2>3 DEF Root, RootStep, ScriptRootStep, InteractionRootStep, AgentRootStep,
         OpenInteraction, StartInteraction, HandleInteraction, CancelInteraction, DispatchAgent,
         AskAgent, interactionVars
    <3>2. UNCHANGED child \/ OpenInteraction \/ StartInteraction
      BY <2>3 DEF Root, RootStep, ScriptRootStep, InteractionRootStep, AgentRootStep,
         HandleInteraction, CancelInteraction, DispatchAgent, AskAgent, interactionVars
    <3>3. child'[i] = child[i]
      BY <1>1, <1>2, <3>2 DEF OpenInteraction, StartInteraction, InteractionTypeOK
    <3>. QED
      BY <2>1, <3>1, <3>3
  <2>. QED
    BY <2>1, <2>2, <2>3 DEF Next, Child, Emits, AgentChild, AgentProcess, ScriptEnds,
       CallChecks, CallSends, CallFails, CancelRunChecks, CancelRunSends, Crash, vars,
       peerVars, interactionVars
<1>3. ASSUME NEW g \in Agents, agentLane'[g].pc = "relay"
      PROVE  agentLane'[g].resolution # "none"
  <2>1. CASE agentLane'[g] = agentLane[g]
    BY <1>1, <1>3, <2>1 DEF TellersInv, AgentAt
  <2>2. CASE \E h \in Agents : AgentChild(h)
    <3>1. PICK h \in Agents : AgentChild(h)
      BY <2>2
    <3>2. ASSUME NEW answer \in LookupAnswers(h) \cup StartAnswers(h), AgentResolves(h, answer)
          PROVE  agentLane'[g].resolution # "none"
      BY <1>1, <1>3, <2>1, <3>2, AgentAnswers, AgentResolvesToRelay DEF AgentResults
    <3>3. ASSUME NEW w \in {"starting", "lookup", "done", "failed"}, AgentGoto(h, w)
          PROVE  agentLane'[g] = agentLane[g]
      BY <1>1, <1>3, <3>3 DEF AgentGoto, AgentTypeOK
    <3>4. CASE AgentDispatchIntent(h) \/ ReceiveCancel(h)
      <4>1. agentLane'[g] = agentLane[g]
        BY <1>1, <1>3, <3>4 DEF AgentDispatchIntent, ReceiveCancel, AgentTypeOK
      <4>. QED
        BY <2>1, <4>1
    <3>. QED
      BY <2>1, <3>1, <3>2, <3>3, <3>4 DEF AgentChild, AgentStep, StartAgent, StartReturns,
         ReconcileAgent, ReceiveTimesOut, LookupAgent, CancelAgent, RelayAgent, AgentFails
  <2>3. CASE Crash
    <3>1. \/ agentLane'[g] = agentLane[g]
          \/ agentLane'[g] = [agentLane[g] EXCEPT
                                !.recoveries = @ + 1,
                                !.pc = IF @ = "starting" THEN "dispatch" ELSE @]
      BY <2>3, Zenon DEF Crash, AgentsRecover
    <3>2. agentLane[g].pc = "relay" /\ agentLane'[g].resolution = agentLane[g].resolution
      BY <1>1, <1>3, <3>1 DEF AgentTypeOK
    <3>. QED
      BY <1>1, <3>2 DEF TellersInv, AgentAt
  <2>4. CASE Root
    <3>1. CASE UNCHANGED agentLane
      BY <2>1, <3>1
    <3>2. CASE DispatchAgent
      BY <1>1, <1>3, <2>1, <3>2 DEF DispatchAgent, AgentGoto, AgentTypeOK
    <3>3. ASSUME NEW h \in Agents, AskAgent(h) PROVE agentLane'[g].resolution # "none"
      <4>1. agentLane'[g].pc = agentLane[g].pc /\ agentLane'[g].resolution = agentLane[g].resolution
        BY <1>1, <3>3 DEF AskAgent, AgentTypeOK
      <4>. QED
        BY <1>1, <1>3, <4>1 DEF TellersInv, AgentAt
    <3>. QED
      BY <2>4, <3>1, <3>2, <3>3 DEF Root, RootStep, AgentRootStep, agentVars
  <2>. QED
    BY <2>1, <2>2, <2>3, <2>4 DEF Next, Child, Emits, InteractionChild, AgentProcess,
       AgentEnds, ScriptEnds, CallChecks, CallSends, CallFails, CancelRunChecks,
       CancelRunSends, vars, peerVars, agentVars
<1>. QED
  BY <1>2, <1>3 DEF TellersInv, AgentAt

-----------------------------------------------------------------------------
(* What the kernel answers to the end of an operation it waits for, and to *)
(* a request to cancel.                                                    *)
KernelStates == [mode : {"running", "failing", "cancelling", "ended"}, pending : SUBSET Hosted]

LEMMA KernelSettles ==
    ASSUME kernel \in KernelStates, NEW e \in K!Settlements, K!Accepts(kernel, e)
    PROVE  LET t == K!AdvancePipeline(kernel, e)
               rest == kernel.pending \ {e.of}
           IN /\ e.of \in kernel.pending /\ e.of \in Hosted
              /\ t.state \in KernelStates
              /\ t.state.mode = "running" => kernel.mode = "running"
              /\ \/ t.state.pending = rest \cup K!SetOf(After[e.of])
                    /\ t.commands = K!DispatchAll(After[e.of])
                 \/ t.state.pending = rest /\ t.commands = << >>
                 \/ /\ t.state.pending = rest /\ t.commands = <<K!CancelPending(rest)>>
                    /\ t.state.mode # "running"
                 \/ /\ rest = {} /\ t.state.pending = {}
                    /\ \E kind \in K!TerminalKinds : t.commands = <<K!End(kind)>>
<1>. DEFINE t == K!AdvancePipeline(kernel, e)
            rest == kernel.pending \ {e.of}
            next == After[e.of]
<1>1. /\ e.kind = "settled" /\ e.of \in Hosted /\ kernel.mode # "ended"
      /\ e.of \in kernel.pending /\ kernel.pending \subseteq Hosted
      /\ next \in Seq(Hosted) /\ K!SetOf(next) \subseteq Hosted
  BY ProgramAssumption DEF KernelStates, K!Settlements, K!Accepts, K!SetOf
<1>2. t = CASE kernel.mode = "running" /\ e.outcome # "succeeded" -> K!WindDown("failing", rest)
            [] kernel.mode = "running" /\ e.outcome = "succeeded" /\ next # << >> ->
                   K!Continue("running", rest \cup K!SetOf(next), K!DispatchAll(next))
            [] OTHER -> IF rest = {} THEN K!Finish(kernel.mode)
                        ELSE K!Continue(kernel.mode, rest, << >>)
  BY <1>1 DEF K!AdvancePipeline
<1>3. kernel.mode \in {"running", "failing", "cancelling"}
  BY <1>1 DEF KernelStates
<1>4. CASE kernel.mode = "running" /\ e.outcome # "succeeded"
  BY <1>1, <1>2, <1>4
     DEF K!WindDown, K!Finish, K!Continue, K!Verdict, K!TerminalKinds, KernelStates
<1>5. CASE kernel.mode = "running" /\ e.outcome = "succeeded" /\ next # << >>
  BY <1>1, <1>2, <1>5 DEF K!Continue, KernelStates
<1>6. CASE ~ (kernel.mode = "running" /\ e.outcome # "succeeded")
           /\ ~ (kernel.mode = "running" /\ e.outcome = "succeeded" /\ next # << >>)
  <2>1. t = IF rest = {} THEN K!Finish(kernel.mode) ELSE K!Continue(kernel.mode, rest, << >>)
    BY <1>2, <1>6
  <2>. QED
    BY <1>1, <1>3, <2>1 DEF K!Finish, K!Continue, K!Verdict, K!TerminalKinds, KernelStates
<1>. QED
  BY <1>4, <1>5, <1>6

LEMMA KernelCancels ==
    ASSUME kernel \in KernelStates
    PROVE  LET t == K!AdvancePipeline(kernel, K!CancelRequested)
           IN /\ t.state \in KernelStates
              /\ t.state.mode # "running"
              /\ \/ t.state.pending = kernel.pending /\ t.commands = << >>
                 \/ /\ t.state.pending = kernel.pending
                    /\ t.commands = <<K!CancelPending(kernel.pending)>>
                 \/ /\ kernel.pending = {} /\ t.state.pending = {}
                    /\ \E kind \in K!TerminalKinds : t.commands = <<K!End(kind)>>
<1>. DEFINE t == K!AdvancePipeline(kernel, K!CancelRequested)
<1>1. t = IF kernel.mode = "running" THEN K!WindDown("cancelling", kernel.pending)
          ELSE K!Continue("cancelling", kernel.pending, << >>)
  BY DEF K!AdvancePipeline, K!CancelRequested
<1>. QED
  BY <1>1 DEF K!WindDown, K!Finish, K!Continue, K!Verdict, K!TerminalKinds, KernelStates

(* What that does to the commands queued is known of every kind of answer. *)
LEMMA CommandsTyped ==
    /\ \A s \in Seq(Hosted) : K!DispatchAll(s) \in Seq(K!Commands)
    /\ \A xs \in SUBSET Hosted : <<K!CancelPending(xs)>> \in Seq(K!Commands)
    /\ \A kind \in K!TerminalKinds : <<K!End(kind)>> \in Seq(K!Commands)
<1>1. \A x \in Hosted : K!Dispatch(x) \in K!Commands
  BY DEF K!Dispatch, K!Commands
<1>2. \A xs \in SUBSET Hosted : K!CancelPending(xs) \in K!Commands
  BY DEF K!CancelPending, K!Commands
<1>3. \A kind \in K!TerminalKinds : K!End(kind) \in K!Commands
  BY DEF K!End, K!Commands
<1>4. ASSUME NEW s \in Seq(Hosted) PROVE K!DispatchAll(s) \in Seq(K!Commands)
  <2>1. /\ K!DispatchAll(s) = [i \in 1..Len(s) |-> K!Dispatch(s[i])] /\ Len(s) \in Nat
        /\ \A i \in 1..Len(s) : s[i] \in Hosted
    BY DEF K!DispatchAll
  <2>. QED
    BY <1>1, <2>1
<1>. QED
  BY <1>2, <1>3, <1>4

-----------------------------------------------------------------------------
(* How the queues of the root move.                                        *)
Waits == UNCHANGED <<kernel, commands>>
TakesCommand ==
    /\ commands # << >> /\ commands' = Tail(commands) /\ UNCHANGED <<kernel, deferred>>

LEMMA QueuesMove ==
    ASSUME HostInv, [Next]_vars
    PROVE  Waits \/ TakesCommand \/ AdvanceKernel \/ HandleCancellation
<1>1. CASE Root
  BY <1>1 DEF Root, RootStep, ScriptRootStep, InteractionRootStep, AgentRootStep, Waits,
     TakesCommand, TakeCommand, HasCommand, RefuseCommand, DispatchOperation,
     StartCancelPending, FinishRun, HandleLiveEvent, HandleRetryStart, HandleRecovery,
     HandleObservation, TargetsDone, ClaimCancel, ClaimCancelFails, NothingToCancel,
     CancelAttempt, ReconcileCancellation, RelayCancellation, OpenInteraction,
     StartInteraction, HandleInteraction, CancelInteraction, DispatchAgent, AskAgent,
     rootVars, runtimeVars
<1>2. CASE ~ Root
  BY <1>2 DEF Next, Child, Emits, InteractionChild, AgentChild, AgentProcess, ScriptEnds,
     CallChecks, CallSends, CallFails, CancelRunChecks, CancelRunSends, Crash, vars, rootVars,
     runtimeVars, Waits
<1>. QED
  BY <1>1, <1>2

(* An event is deferred only of the operation the message at hand is       *)
(* about.                                                                  *)
LEMMA DeferredMoves ==
    ASSUME HostInv, [Next]_vars
    PROVE  \/ UNCHANGED deferred
           \/ \E e \in K!Settlements : deferred' = Append(deferred, e) /\ Moved(e.of)
           \/ AdvanceKernel
<1>1. CASE HandleObservation
  <2>. DEFINE m == Head(inbox)
  <2>1. m \in posted /\ m \in Messages /\ m.type = "observation"
    BY <1>1, HeadMessage DEF HandleObservation, Receives
  <2>2. m.of[1] \in Hosted /\ m.result \in Results \cup {"preDispatch"}
        /\ Subject(m) = m.of[1] /\ m \in AboutOperation
    BY <2>1, Kinds DEF Observations, AgentReports, AgentResults, Results, Hosted, Attempts,
       Subject, AboutOperation
  <2>3. OutcomeOf(m.result) \in K!Outcomes
    BY <2>2 DEF OutcomeOf, K!Outcomes, Results
  <2>4. K!Settled(m.of[1], OutcomeOf(m.result)) \in K!Settlements
    BY <2>2, <2>3 DEF K!Settled, K!Settlements
  <2>5. Moved(K!Settled(m.of[1], OutcomeOf(m.result)).of)
    BY <2>1, <2>2 DEF HostInv, SubjectInv, K!Settled
  <2>. QED
    BY <1>1, <2>4, <2>5 DEF HandleObservation, ApplyRetrying, ApplySettled, Settle
<1>2. CASE HandleInteraction
  <2>. DEFINE m == Head(inbox)
  <2>1. m \in posted /\ m \in Messages /\ m.type = "interaction"
    BY <1>2, HeadMessage DEF HandleInteraction, Receives
  <2>2. m.of \in Hosted /\ Subject(m) = m.of /\ m \in AboutOperation
    BY <2>1, Kinds DEF Hosted, Subject, AboutOperation
  <2>3. K!Settled(m.of, InteractionOutcome(m.how)) \in K!Settlements
    BY <2>2 DEF InteractionOutcome, K!Outcomes, K!Settled, K!Settlements
  <2>4. Moved(K!Settled(m.of, InteractionOutcome(m.how)).of)
    BY <2>1, <2>2 DEF HostInv, SubjectInv, K!Settled
  <2>. QED
    BY <1>2, <2>3, <2>4 DEF HandleInteraction, Settle
<1>3. CASE Root /\ ~ HandleObservation /\ ~ HandleInteraction
  BY <1>3 DEF Root, RootStep, ScriptRootStep, InteractionRootStep, AgentRootStep,
     RefuseCommand, DispatchOperation, StartCancelPending, FinishRun, HandleCancellation,
     HandleLiveEvent, HandleRetryStart, HandleRecovery, TargetsDone, ClaimCancel,
     ClaimCancelFails, NothingToCancel, CancelAttempt, ReconcileCancellation,
     RelayCancellation, OpenInteraction, StartInteraction, CancelInteraction, DispatchAgent,
     AskAgent, rootVars, runtimeVars
<1>4. CASE ~ Root
  BY <1>4 DEF Next, Child, Emits, InteractionChild, AgentChild, AgentProcess, ScriptEnds,
     CallChecks, CallSends, CallFails, CancelRunChecks, CancelRunSends, Crash, vars, rootVars,
     runtimeVars
<1>. QED
  BY <1>1, <1>2, <1>3, <1>4

LEMMA AdvancingMoves ==
    ASSUME HostInv, [Next]_vars, rootPc' = "advance"
    PROVE  \/ rootPc = "advance" /\ UNCHANGED deferred
           \/ \E e \in K!Settlements : deferred' = Append(deferred, e)
           \/ AdvanceKernel /\ deferred' # << >>
<1>1. CASE Root
  <2>1. CASE HandleObservation \/ HandleInteraction
    <3>1. rootPc = "loop" /\ ~ UNCHANGED deferred
      BY <1>1, <2>1 DEF HandleObservation, HandleInteraction, Receives, ApplyRetrying,
         ApplySettled, Settle, Throw
    <3>. QED
      BY <3>1, DeferredMoves DEF AdvanceKernel
  <2>. QED
    BY <1>1, <2>1, DeferredMoves
       DEF Root, RootStep, ScriptRootStep, InteractionRootStep, AgentRootStep, RefuseCommand,
       DispatchOperation, StartCancelPending, FinishRun, HandleCancellation, HandleLiveEvent,
       HandleRetryStart, HandleRecovery, TargetsDone, ClaimCancel, ClaimCancelFails,
       NothingToCancel, CancelAttempt, ReconcileCancellation, RelayCancellation,
       OpenInteraction, StartInteraction, CancelInteraction, DispatchAgent, AskAgent,
       AdvanceKernel, RecordCancellationRecovery, HasCommand, Receives, Throw, rootVars,
       runtimeVars
<1>2. CASE ~ Root
  BY <1>2 DEF Next, Child, Emits, InteractionChild, AgentChild, AgentProcess, ScriptEnds,
     CallChecks, CallSends, CallFails, CancelRunChecks, CancelRunSends, Crash, vars, rootVars,
     runtimeVars
<1>. QED
  BY <1>1, <1>2

-----------------------------------------------------------------------------
(* Nothing that follows an operation is issued before its command is at    *)
(* hand: the parts of IssueInv that speak of the commands.                 *)
CommandsIssued ==
    /\ \A x \in Hosted : Queued(x) => x \in kernel.pending /\ ~ Moved(x)
    /\ \A i, j \in DOMAIN commands :
          commands[i].kind = "dispatch" /\ commands[i] = commands[j] => i = j
    /\ \A y \in Hosted : \A x \in K!SetOf(After[y]) :
          Issued(x) => Moved(y) /\ y \notin kernel.pending

LEMMA DispatchIdentifies ==
    \A x, y : K!Dispatch(x) = K!Dispatch(y) => x = y
  BY DEF K!Dispatch

LEMMA FollowersAreHosted ==
    \A y \in Hosted : K!SetOf(After[y]) \subseteq Hosted
  BY ProgramAssumption DEF K!SetOf

LEMMA WaitsIssued ==
    ASSUME HostInv, [Next]_vars, Waits
    PROVE  CommandsIssued'
<1>1. commands \in Seq(K!Commands)
  BY HostTypes DEF HostInv, RootTypeOK
<1>2. ASSUME NEW x \in Hosted PROVE Moved(x)' <=> Moved(x)
  <2>1. Starts(x) => commands # << >> /\ commands' = Tail(commands)
    BY DEF Starts, HasCommand
  <2>2. ~ Starts(x)
    BY <1>1, <2>1 DEF Waits
  <2>. QED
    BY <2>2, Moves
<1>3. IssueInv /\ kernel' = kernel /\ commands' = commands
  BY DEF HostInv, Waits
<1>4. \A x \in Hosted : Queued(x)' => x \in kernel'.pending /\ ~ Moved(x)'
  BY <1>2, <1>3 DEF IssueInv, Queued
<1>5. \A y \in Hosted : \A x \in K!SetOf(After[y]) :
          Issued(x)' => Moved(y)' /\ y \notin kernel'.pending
  BY <1>2, <1>3, FollowersAreHosted DEF IssueInv, Issued
<1>. QED
  BY <1>3, <1>4, <1>5 DEF IssueInv, CommandsIssued

LEMMA TakesIssued ==
    ASSUME HostInv, [Next]_vars, TakesCommand
    PROVE  CommandsIssued'
<1>1. commands \in Seq(K!Commands) /\ commands # << >> /\ commands' = Tail(commands)
      /\ kernel' = kernel /\ IssueInv
  BY HostTypes DEF HostInv, RootTypeOK, TakesCommand
<1>. DEFINE n == Len(commands)
<1>2. /\ n \in Nat /\ DOMAIN commands = 1..n /\ 1 \in DOMAIN commands
      /\ DOMAIN commands' = 1..(n - 1) /\ \A i \in 1..(n - 1) : commands'[i] = commands[i + 1]
      /\ Head(commands) = commands[1]
  BY <1>1
<1>3. \A i \in 1..(n - 1) : i + 1 \in DOMAIN commands /\ i + 1 # 1
  BY <1>2
<1>4. ASSUME NEW x \in Hosted, Moved(x)', ~ Moved(x)
      PROVE  commands[1] = K!Dispatch(x)
  BY <1>2, <1>4, Moves DEF Starts
<1>5. ASSUME NEW x \in Hosted, Queued(x)'
      PROVE  x \in kernel'.pending /\ ~ Moved(x)'
  <2>1. PICK i \in 1..(n - 1) : commands[i + 1] = K!Dispatch(x)
    BY <1>2, <1>5 DEF Queued
  <2>2. Queued(x) /\ K!Dispatch(x).kind = "dispatch"
    BY <1>3, <2>1 DEF Queued, K!Dispatch
  <2>3. commands[1] # K!Dispatch(x)
    BY <1>1, <1>2, <1>3, <2>1, <2>2 DEF IssueInv
  <2>. QED
    BY <1>1, <1>4, <2>2, <2>3 DEF IssueInv
<1>6. ASSUME NEW i \in DOMAIN commands', NEW j \in DOMAIN commands',
             commands'[i].kind = "dispatch", commands'[i] = commands'[j]
      PROVE  i = j
  <2>1. i + 1 = j + 1
    BY <1>1, <1>2, <1>3, <1>6 DEF IssueInv
  <2>. QED
    BY <1>2, <2>1
<1>7. ASSUME NEW y \in Hosted, NEW x \in K!SetOf(After[y]), Issued(x)'
      PROVE  Moved(y)' /\ y \notin kernel'.pending
  <2>1. x \in Hosted
    BY FollowersAreHosted
  <2>2. Issued(x)
    <3>1. CASE x \in kernel.pending
      BY <3>1 DEF Issued
    <3>2. CASE Moved(x)
      BY <3>2 DEF Issued
    <3>3. CASE Moved(x)' /\ ~ Moved(x)
      BY <1>1, <1>2, <1>4, <2>1, <3>3 DEF Issued, IssueInv, Queued
    <3>. QED
      BY <1>1, <1>7, <3>1, <3>2, <3>3 DEF Issued
  <2>3. Moved(y) /\ y \notin kernel.pending
    BY <1>1, <2>2 DEF IssueInv
  <2>. QED
    BY <1>1, <2>3, Moves
<1>. QED
  BY <1>5, <1>6, <1>7 DEF CommandsIssued

(* The kernel moves on: what it dispatches next follows the operation that *)
(* settled, and was never issued before.                                   *)
LEMMA AdvancesIssued ==
    ASSUME HostInv, [Next]_vars, AdvanceKernel
    PROVE  CommandsIssued'
<1>. DEFINE e == Head(deferred)
            t == K!AdvancePipeline(kernel, e)
            rest == kernel.pending \ {e.of}
            n == Len(commands)
<1>1. /\ commands \in Seq(K!Commands) /\ kernel \in KernelStates /\ IssueInv
      /\ deferred \in Seq(K!Settlements) /\ deferred # << >>
  BY HostTypes DEF HostInv, RootTypeOK, KernelStates, IssueInv, AdvanceKernel
<1>2. e \in K!Settlements /\ Moved(e.of) /\ e.of \in Hosted
  <2>1. 1 \in DOMAIN deferred /\ e = deferred[1] /\ e \in K!Settlements
    BY <1>1
  <2>. QED
    BY <1>1, <2>1 DEF IssueInv, K!Settlements
<1>3. \A x \in Hosted : Moved(x)' <=> Moved(x)
  BY Moves DEF Starts, HasCommand, AdvanceKernel
<1>4. CASE ~ K!Accepts(kernel, e)
  <2>1. UNCHANGED <<kernel, commands>>
    BY <1>4 DEF AdvanceKernel
  <2>. QED
    BY <2>1, WaitsIssued DEF Waits
<1>5. CASE K!Accepts(kernel, e)
  <2>1. kernel' = t.state /\ commands' = commands \o t.commands
    BY <1>5 DEF AdvanceKernel
  <2>2. /\ e.of \in kernel.pending
        /\ \/ t.state.pending = rest \cup K!SetOf(After[e.of])
              /\ t.commands = K!DispatchAll(After[e.of])
           \/ t.state.pending = rest /\ t.commands = << >>
           \/ t.state.pending = rest /\ t.commands = <<K!CancelPending(rest)>>
           \/ /\ rest = {} /\ t.state.pending = {}
              /\ \E kind \in K!TerminalKinds : t.commands = <<K!End(kind)>>
    BY <1>1, <1>2, <1>5, KernelSettles
  <2>3. \A x \in K!SetOf(After[e.of]) : x \in Hosted /\ ~ Issued(x)
    BY <1>1, <1>2, <2>2, FollowersAreHosted DEF IssueInv
  <2>4. \A x \in Hosted : Queued(x) => x \in rest
    BY <1>1, <1>2 DEF IssueInv
  <2>5. CASE /\ t.state.pending = rest \cup K!SetOf(After[e.of])
             /\ t.commands = K!DispatchAll(After[e.of])
    <3>. DEFINE next == After[e.of]
    <3>1. /\ next \in Seq(Hosted) /\ DOMAIN next = 1..Len(next) /\ Len(next) \in Nat
          /\ \A i, j \in DOMAIN next : next[i] = next[j] => i = j
          /\ \A i \in DOMAIN next : next[i] \in K!SetOf(next)
      <4>1. next \in Seq(Hosted)
        BY <1>2, ProgramAssumption
      <4>2. next \in {Entry} \cup {After[x] : x \in Hosted}
        BY <1>2
      <4>3. \A i, j \in DOMAIN next : next[i] = next[j] => i = j
        BY <4>2, OnceAssumption
      <4>. QED
        BY <4>1, <4>3 DEF K!SetOf
    <3>2. t.commands \in Seq(K!Commands) /\ t.commands = [i \in DOMAIN next |-> K!Dispatch(next[i])]
      BY <2>5, <3>1, CommandsTyped DEF K!DispatchAll
    <3>3. /\ DOMAIN commands' = 1..(n + Len(next)) /\ n \in Nat /\ DOMAIN commands = 1..n
          /\ \A i \in 1..n : commands'[i] = commands[i]
          /\ \A i \in 1..Len(next) : commands'[n + i] = K!Dispatch(next[i])
      <4>1. Len(t.commands) = Len(next) /\ \A i \in 1..Len(next) : t.commands[i] = K!Dispatch(next[i])
        BY <3>1, <3>2
      <4>2. n \in Nat /\ DOMAIN commands = 1..n
        BY <1>1
      <4>3. Len(commands \o t.commands) = n + Len(next)
        <5>1. \A s \in Seq(K!Commands) : Len(commands \o s) = Len(commands) + Len(s)
          BY <1>1
        <5>. QED
          BY <3>2, <4>1, <5>1
      <4>4. DOMAIN commands' = 1..(n + Len(next))
        BY <1>1, <2>1, <3>2, <4>3
      <4>5. \A i \in 1..n : commands'[i] = commands[i]
        BY <1>1, <2>1, <3>1, <3>2, <4>1, <4>2
      <4>6. \A i \in 1..Len(next) : commands'[n + i] = t.commands[i]
        BY <1>1, <2>1, <3>1, <3>2, <4>1, <4>2
      <4>. QED
        BY <4>1, <4>2, <4>4, <4>5, <4>6
    <3>4. \A i \in (DOMAIN commands') \ 1..n : i - n \in 1..Len(next) /\ i = n + (i - n)
      BY <3>1, <3>3
    <3>5. ASSUME NEW x \in Hosted, Queued(x)' PROVE x \in kernel'.pending /\ ~ Moved(x)'
      <4>1. PICK i \in DOMAIN commands' : commands'[i] = K!Dispatch(x)
        BY <3>5 DEF Queued
      <4>2. CASE i \in 1..n
        <5>1. Queued(x)
          BY <3>3, <4>1, <4>2 DEF Queued
        <5>. QED
          BY <1>1, <1>3, <2>1, <2>4, <2>5, <5>1 DEF IssueInv
      <4>3. CASE i \notin 1..n
        <5>1. x = next[i - n] /\ i - n \in DOMAIN next
          BY <3>1, <3>3, <3>4, <4>1, <4>3, DispatchIdentifies
        <5>. QED
          BY <1>3, <2>1, <2>3, <2>5, <3>1, <5>1 DEF Issued
      <4>. QED
        BY <4>2, <4>3
    <3>6. ASSUME NEW i \in DOMAIN commands', NEW j \in DOMAIN commands',
                 commands'[i].kind = "dispatch", commands'[i] = commands'[j]
          PROVE  i = j
      <4>1. ASSUME NEW k \in 1..n, NEW l \in (DOMAIN commands') \ 1..n
            PROVE  commands'[k] # commands'[l]
        <5>1. commands'[l] = K!Dispatch(next[l - n]) /\ l - n \in DOMAIN next
          BY <3>1, <3>3, <3>4
        <5>2. ~ Queued(next[l - n])
          BY <1>1, <2>3, <3>1, <5>1 DEF IssueInv, Issued
        <5>. QED
          BY <3>3, <5>1, <5>2 DEF Queued
      <4>2. CASE i \in 1..n /\ j \in 1..n
        BY <1>1, <3>3, <3>6, <4>2 DEF IssueInv
      <4>3. CASE i \notin 1..n /\ j \notin 1..n
        <5>1. next[i - n] = next[j - n] /\ i - n \in DOMAIN next /\ j - n \in DOMAIN next
          BY <3>1, <3>3, <3>4, <3>6, <4>3, DispatchIdentifies
        <5>. QED
          BY <3>1, <3>3, <3>4, <4>3, <5>1
      <4>. QED
        BY <3>6, <4>1, <4>2, <4>3
    <3>7. ASSUME NEW y \in Hosted, NEW x \in K!SetOf(After[y]), Issued(x)'
          PROVE  Moved(y)' /\ y \notin kernel'.pending
      <4>1. x \in Hosted
        BY FollowersAreHosted
      <4>2. CASE x \in K!SetOf(next)
        <5>1. y = e.of
          BY <1>2, <4>2, OnceAssumption
        <5>2. y \notin K!SetOf(next)
          BY <1>2, <2>2, <2>3, <5>1 DEF Issued
        <5>. QED
          BY <1>2, <1>3, <2>1, <2>5, <5>1, <5>2
      <4>3. CASE x \notin K!SetOf(next)
        <5>1. Issued(x)
          BY <1>3, <2>1, <2>5, <3>7, <4>1, <4>3 DEF Issued
        <5>2. Moved(y) /\ y \notin kernel.pending
          BY <1>1, <5>1 DEF IssueInv
        <5>3. y \notin K!SetOf(next)
          BY <2>3, <5>2 DEF Issued
        <5>. QED
          BY <1>3, <2>1, <2>5, <5>2, <5>3
      <4>. QED
        BY <4>2, <4>3
    <3>. QED
      BY <3>5, <3>6, <3>7 DEF CommandsIssued
  <2>6. CASE /\ t.state.pending = rest
             /\ t.commands = << >> \/ \E c : t.commands = <<c>> /\ c.kind # "dispatch"
    <3>1. /\ \A i \in DOMAIN commands' : commands'[i].kind = "dispatch" =>
                i \in DOMAIN commands /\ commands'[i] = commands[i]
      BY <1>1, <2>1, <2>6
    <3>2. \A x \in Hosted : Queued(x)' => Queued(x)
      BY <3>1 DEF Queued, K!Dispatch
    <3>3. \A x \in Hosted : Queued(x)' => x \in kernel'.pending /\ ~ Moved(x)'
      BY <1>1, <1>3, <2>1, <2>4, <2>6, <3>2 DEF IssueInv
    <3>4. \A i, j \in DOMAIN commands' :
              commands'[i].kind = "dispatch" /\ commands'[i] = commands'[j] => i = j
      BY <1>1, <3>1 DEF IssueInv
    <3>5. \A y \in Hosted : \A x \in K!SetOf(After[y]) :
              Issued(x)' => Moved(y)' /\ y \notin kernel'.pending
      BY <1>1, <1>3, <2>1, <2>6, FollowersAreHosted DEF IssueInv, Issued
    <3>. QED
      BY <3>3, <3>4, <3>5 DEF CommandsIssued
  <2>. QED
    BY <2>2, <2>5, <2>6 DEF K!CancelPending, K!End, K!TerminalKinds
<1>. QED
  BY <1>4, <1>5

LEMMA CancelsIssued ==
    ASSUME HostInv, [Next]_vars, HandleCancellation
    PROVE  CommandsIssued'
<1>. DEFINE t == K!AdvancePipeline(kernel, K!CancelRequested)
<1>1. kernel \in KernelStates /\ IssueInv /\ commands = << >>
  BY HostTypes DEF HostInv, RootTypeOK, KernelStates, HandleCancellation, Receives
<1>2. CASE UNCHANGED <<kernel, commands>>
  BY <1>2, WaitsIssued DEF Waits
<1>3. CASE kernel' = t.state /\ commands' = WithoutHandledCancellation(t.commands)
  <2>1. t.state.pending = kernel.pending
    BY <1>1, KernelCancels
  <2>2. commands' = << >> \/ \E c : commands' = <<c>> /\ c.kind # "dispatch"
    BY <1>1, <1>3, KernelCancels DEF WithoutHandledCancellation, K!End, K!TerminalKinds,
       IsCancelPending, K!CancelPending, K!SetOf
  <2>3. \A i \in DOMAIN commands' : commands'[i].kind # "dispatch"
    BY <2>2
  <2>4. \A x \in Hosted : Moved(x)' <=> Moved(x)
    BY <1>1, Moves DEF Starts, HasCommand
  <2>5. \A y \in Hosted : \A x \in K!SetOf(After[y]) :
            Issued(x)' => Moved(y)' /\ y \notin kernel'.pending
    BY <1>1, <1>3, <2>1, <2>4, FollowersAreHosted DEF IssueInv, Issued
  <2>6. \A x : ~ Queued(x)'
    BY <2>3 DEF Queued, K!Dispatch
  <2>. QED
    BY <2>3, <2>5, <2>6 DEF CommandsIssued
<1>. QED
  BY <1>2, <1>3 DEF HandleCancellation

LEMMA IssueStep ==
    ASSUME HostInv, [Next]_vars
    PROVE  IssueInv'
<1>1. /\ deferred \in Seq(K!Settlements) /\ active \subseteq Hosted /\ IssueInv
  BY HostTypes DEF HostInv, RootTypeOK
<1>2. CommandsIssued'
  BY QueuesMove, WaitsIssued, TakesIssued, AdvancesIssued, CancelsIssued
<1>3. ASSUME NEW x \in Hosted, NEW i \in DOMAIN deferred, deferred[i].of = x PROVE Moved(x)'
  BY <1>1, <1>3, Moves DEF IssueInv
<1>4. ASSUME NEW i \in DOMAIN deferred' PROVE \E x \in Hosted : x = deferred'[i].of /\ Moved(x)'
  <2>. DEFINE Follows == \E x \in Hosted : x = deferred'[i].of /\ Moved(x)'
  <2>0. \A j \in DOMAIN deferred : deferred[j].of \in Hosted
    <3>1. \A j \in DOMAIN deferred : deferred[j] \in K!Settlements
      BY <1>1
    <3>2. \A e \in K!Settlements : e.of \in Hosted
      BY DEF K!Settlements
    <3>. QED
      BY <3>1, <3>2
  <2>1. CASE UNCHANGED deferred
    BY <1>3, <1>4, <2>0, <2>1
  <2>2. ASSUME NEW e \in K!Settlements, deferred' = Append(deferred, e), Moved(e.of)
        PROVE  Follows
    <3>1. (i \in DOMAIN deferred /\ deferred'[i] = deferred[i]) \/ deferred'[i] = e
      BY <1>1, <1>4, <2>2
    <3>2. \E x \in Hosted : x = e.of /\ Moved(x)'
      BY <2>2, Moves DEF K!Settlements
    <3>. QED
      BY <1>3, <2>0, <3>1, <3>2
  <2>3. CASE AdvanceKernel
    <3>1. deferred # << >> /\ (UNCHANGED deferred \/ deferred' = Tail(deferred))
      BY <1>1, <2>3 DEF AdvanceKernel, AfterAdvance, IssueInv
    <3>2. \E j \in DOMAIN deferred : deferred'[i] = deferred[j]
      BY <1>1, <1>4, <3>1
    <3>. QED
      BY <1>3, <2>0, <3>2
  <2>. QED
    BY <2>1, <2>2, <2>3, DeferredMoves
<1>5. rootPc' = "advance" => deferred' # << >>
  BY <1>1, AdvancingMoves DEF IssueInv
<1>6. ASSUME NEW x \in active' PROVE Moved(x)'
  <2>1. CASE x \in active
    BY <1>1, <2>1, Moves DEF IssueInv
  <2>2. CASE x \notin active
    <3>1. PICK y \in Hosted : Starts(y) /\ Moved(y)'
      BY <1>6, <2>2, ActiveMoves
    <3>2. x = y
      BY <1>6, <2>2, <3>1 DEF Starts
    <3>. QED
      BY <3>1, <3>2
  <2>. QED
    BY <2>1, <2>2
<1>. QED
  BY <1>2, <1>4, <1>5, <1>6 DEF IssueInv, CommandsIssued

-----------------------------------------------------------------------------
(* Every variable keeps its type.                                          *)
LEMMA CommandHandlersTyped ==
    ASSUME RootTypeOK,
           \/ RefuseCommand \/ DispatchOperation \/ DispatchAgent \/ OpenInteraction
           \/ StartInteraction \/ StartCancelPending \/ FinishRun
    PROVE  RootTypeOK'
<1>1. commands \in Seq(K!Commands) /\ commands # << >>
  BY DEF RootTypeOK, RefuseCommand, DispatchOperation, DispatchAgent, OpenInteraction,
     StartInteraction, StartCancelPending, FinishRun, HasCommand
<1>2. Tail(commands) \in Seq(K!Commands) /\ Head(commands) \in K!Commands
  BY <1>1
<1>3. CASE DispatchOperation \/ DispatchAgent
  <2>1. Head(commands).of \in Hosted
    BY <1>3, HeadCommand DEF DispatchOperation, DispatchAgent
  <2>. QED
    BY <1>2, <1>3, <2>1
       DEF RootTypeOK, DispatchOperation, DispatchAgent, TakeCommand, AttemptStatuses
<1>4. CASE StartInteraction
  <2>1. Head(commands).of \in Hosted
    BY <1>4, HeadCommand DEF StartInteraction
  <2>. QED
    BY <1>2, <1>4, <2>1 DEF RootTypeOK, StartInteraction, TakeCommand, journalVars
<1>5. CASE FinishRun
  <2>1. \A kind \in K!TerminalKinds : TerminalStatus(kind) \in RunStatuses
    BY DEF TerminalStatus, K!TerminalKinds, RunStatuses
  <2>2. status' \in RunStatuses
    BY <1>5, <2>1 DEF FinishRun, HasCommand, RootTypeOK
  <2>. QED
    BY <1>2, <1>5, <2>2 DEF RootTypeOK, FinishRun, TakeCommand, Throw
<1>6. CASE RefuseCommand
  BY <1>2, <1>6 DEF RootTypeOK, RefuseCommand, TakeCommand, Throw, journalVars
<1>7. CASE StartCancelPending
  BY <1>2, <1>7 DEF RootTypeOK, StartCancelPending, TakeCommand, journalVars
<1>8. CASE OpenInteraction
  BY <1>8 DEF RootTypeOK, OpenInteraction, rootVars, runtimeVars, journalVars
<1>. QED
  BY <1>3, <1>4, <1>5, <1>6, <1>7, <1>8

LEMMA MarkingTyped ==
    ASSUME RootTypeOK, NEW a \in HostedAttempts, MarkRecovery(a)
    PROVE  /\ attempt' \in [HostedAttempts -> AttemptStatuses]
           /\ uncertain' \subseteq HostedAttempts
           /\ status' \in RunStatuses
  BY DEF RootTypeOK, MarkRecovery, AttemptStatuses, RunStatuses

LEMMA RecordingTyped ==
    ASSUME RootTypeOK, NEW a \in Attempts, RecordCancellationRecovery(a),
           UNCHANGED <<kernel, commands, active, deferred>>, targets' \subseteq targets
    PROVE  RootTypeOK'
<1>1. a \in HostedAttempts /\ a[1] \in Ops
  BY DEF HostedAttempts, Attempts
<1>. QED
  BY <1>1, MarkingTyped DEF RootTypeOK, RecordCancellationRecovery

LEMMA CancellingTyped ==
    ASSUME HostInv,
           \/ TargetsDone \/ CancelAttempt \/ ReconcileCancellation \/ RelayCancellation
           \/ \E op \in Ops : ClaimCancel(op) \/ ClaimCancelFails(op) \/ NothingToCancel(op)
           \/ \E i \in Interactions : CancelInteraction(i)
           \/ \E g \in Agents : AskAgent(g)
    PROVE  RootTypeOK'
<1>1. RootTypeOK
  BY HostTypes DEF HostInv
<1>2. ASSUME NEW op \in Ops, ClaimCancel(op) \/ ClaimCancelFails(op) PROVE RootTypeOK'
  <2>1. PICK a \in Attempts : a = LatestAttempt(op)
    BY <1>2, LatestAttemptExists DEF ClaimCancel, ClaimCancelFails, CancellableAttempts
  <2>2. CASE ClaimCancel(op)
    BY <1>1, <2>1, <2>2 DEF ClaimCancel, RootTypeOK, runtimeVars, journalVars
  <2>3. CASE ClaimCancelFails(op)
    <3>1. /\ RecordCancellationRecovery(a) /\ targets' \subseteq targets
          /\ UNCHANGED <<kernel, commands, active, deferred>>
      BY <2>1, <2>3 DEF ClaimCancelFails
    <3>. QED
      BY <1>1, <3>1, RecordingTyped
  <2>. QED
    BY <1>2, <2>2, <2>3
<1>3. CASE CancelAttempt \/ ReconcileCancellation
  <2>1. PICK a \in Attempts : a = target
    BY <1>3 DEF CancelAttempt, ReconcileCancellation, HostInv, TargetInv
  <2>2. UNCHANGED <<kernel, commands, active, deferred, targets>>
    BY <1>3 DEF CancelAttempt, ReconcileCancellation
  <2>3. CASE RecordCancellationRecovery(a)
    BY <1>1, <2>2, <2>3, RecordingTyped
  <2>4. CASE /\ rootPc' \in {"relay", "reconcile"}
             /\ UNCHANGED <<recoveryPending, recoveryOps, journalVars, target>>
    BY <1>1, <2>2, <2>4 DEF RootTypeOK, journalVars
  <2>. QED
    BY <1>3, <2>1, <2>3, <2>4 DEF CancelAttempt, ReconcileCancellation
<1>4. CASE TargetsDone \/ RelayCancellation \/ \E op \in Ops : NothingToCancel(op)
  BY <1>1, <1>4 DEF RootTypeOK, TargetsDone, RelayCancellation, NothingToCancel, Throw,
     runtimeVars, journalVars
<1>5. CASE (\E i \in Interactions : CancelInteraction(i)) \/ (\E g \in Agents : AskAgent(g))
  BY <1>1, <1>5 DEF RootTypeOK, CancelInteraction, AskAgent, runtimeVars, journalVars
<1>. QED
  BY <1>2, <1>3, <1>4, <1>5

LEMMA KernelMovesTyped ==
    ASSUME HostInv, AdvanceKernel \/ HandleCancellation
    PROVE  RootTypeOK'
<1>1. RootTypeOK /\ kernel \in KernelStates /\ commands \in Seq(K!Commands)
  BY HostTypes DEF HostInv, RootTypeOK, KernelStates
<1>2. \A cs : cs \in Seq(K!Commands) => WithoutHandledCancellation(cs) \in Seq(K!Commands)
  BY DEF WithoutHandledCancellation
<1>3. CASE AdvanceKernel
  <2>. DEFINE e == Head(deferred)
              t == K!AdvancePipeline(kernel, e)
  <2>1. deferred # << >> /\ e \in K!Settlements /\ Tail(deferred) \in Seq(K!Settlements)
    BY <1>1, <1>3 DEF AdvanceKernel, HostInv, IssueInv, RootTypeOK
  <2>2. CASE K!Accepts(kernel, e)
    <3>1. t.state \in KernelStates /\ t.commands \in Seq(K!Commands)
      <4>1. e.of \in Hosted /\ After[e.of] \in Seq(Hosted)
        BY <2>1, ProgramAssumption DEF K!Settlements
      <4>2. kernel.pending \ {e.of} \in SUBSET Hosted
        BY <1>1 DEF KernelStates
      <4>3. << >> \in Seq(K!Commands)
        OBVIOUS
      <4>. QED
        BY <1>1, <2>1, <2>2, <4>1, <4>2, <4>3, KernelSettles, CommandsTyped
    <3>2. commands \o t.commands \in Seq(K!Commands)
      BY <1>1, <3>1
    <3>3. /\ kernel' \in KernelStates /\ commands' \in Seq(K!Commands)
          /\ deferred' \in Seq(K!Settlements)
      BY <1>3, <2>1, <2>2, <3>1, <3>2 DEF AdvanceKernel, AfterAdvance
    <3>. QED
      BY <1>1, <1>3, <2>2, <3>3 DEF RootTypeOK, AdvanceKernel, KernelStates, journalVars
  <2>3. CASE ~ K!Accepts(kernel, e)
    BY <1>1, <1>3, <2>3 DEF RootTypeOK, AdvanceKernel, Throw, journalVars
  <2>. QED
    BY <2>2, <2>3
<1>4. CASE HandleCancellation
  <2>. DEFINE t == K!AdvancePipeline(kernel, K!CancelRequested)
  <2>1. t.state \in KernelStates /\ t.commands \in Seq(K!Commands)
    <3>1. kernel.pending \in SUBSET Hosted /\ << >> \in Seq(K!Commands)
      BY <1>1 DEF KernelStates
    <3>. QED
      BY <1>1, <3>1, KernelCancels, CommandsTyped
  <2>2. kernel' \in KernelStates /\ commands' \in Seq(K!Commands)
    BY <1>1, <1>2, <1>4, <2>1 DEF HandleCancellation
  <2>3. /\ targets' \subseteq Hosted
        /\ rootPc' \in {rootPc, "targets"} /\ status' \in {status, "cancelling"}
    BY <1>1, <1>4 DEF HandleCancellation, RootTypeOK
  <2>. QED
    BY <1>1, <1>4, <2>2, <2>3
       DEF RootTypeOK, HandleCancellation, KernelStates, RunStatuses
<1>. QED
  BY <1>3, <1>4

LEMMA ObservationTyped ==
    ASSUME HostInv, HandleObservation
    PROVE  RootTypeOK'
<1>. DEFINE m == Head(inbox)
<1>1. RootTypeOK /\ m \in Messages /\ m.type = "observation" /\ rootPc = "loop"
  BY HostTypes, HeadMessage DEF HostInv, HandleObservation, Receives
<1>2. m.of \in HostedAttempts /\ m.of[1] \in Hosted /\ m.result \in Results \cup {"preDispatch"}
  BY <1>1, Kinds DEF Observations, AgentReports, AgentResults, Results, Hosted, Attempts,
     HostedAttempts
<1>3. OutcomeOf(m.result) \in K!Outcomes
  BY <1>2 DEF OutcomeOf, K!Outcomes, Results
<1>4. CASE ApplyRetrying(m)
  BY <1>1, <1>4 DEF RootTypeOK, HandleObservation, ApplyRetrying, AttemptStatuses, K!Outcomes
<1>5. CASE ApplySettled(m)
  <2>1. K!Settled(m.of[1], OutcomeOf(m.result)) \in K!Settlements
    BY <1>2, <1>3 DEF K!Settled, K!Settlements
  <2>2. deferred' \in Seq(K!Settlements)
    BY <1>1, <1>5, <2>1 DEF ApplySettled, Settle, RootTypeOK
  <2>3. attempt' \in [HostedAttempts -> AttemptStatuses] /\ uncertain' \subseteq HostedAttempts
    BY <1>1, <1>3, <1>5 DEF ApplySettled, RootTypeOK, AttemptStatuses
  <2>4. /\ active' \subseteq Hosted /\ recoveryOps' \subseteq Ops /\ recoveryPending' \in BOOLEAN
        /\ rootPc' \in {"loop", "advance", "returned"}
    BY <1>1, <1>5 DEF ApplySettled, Settle, Remaining, StillRecovering, RootTypeOK
  <2>. QED
    BY <1>1, <1>5, <2>2, <2>3, <2>4 DEF RootTypeOK, HandleObservation
<1>6. CASE ~ ApplyRetrying(m) /\ ~ ApplySettled(m)
  BY <1>1, <1>6 DEF RootTypeOK, HandleObservation, Throw
<1>. QED
  BY <1>4, <1>5, <1>6

LEMMA HandlersTyped ==
    ASSUME HostInv,
           \/ HandleLiveEvent \/ HandleRetryStart \/ HandleRecovery \/ HandleInteraction
    PROVE  RootTypeOK'
<1>. DEFINE m == Head(inbox)
<1>1. RootTypeOK /\ rootPc = "loop"
  BY HostTypes DEF HostInv, HandleLiveEvent, HandleRetryStart, HandleRecovery,
     HandleInteraction, Receives
<1>2. inbox # << >> => m \in Messages
  BY HeadMessage
<1>3. CASE HandleLiveEvent
  BY <1>1, <1>3 DEF RootTypeOK, HandleLiveEvent, Throw, journalVars
<1>4. CASE HandleRetryStart
  BY <1>1, <1>4 DEF RootTypeOK, HandleRetryStart, Started, Throw, AttemptStatuses
<1>5. CASE HandleRecovery
  <2>1. m.of \in HostedAttempts
    BY <1>2, <1>5, Kinds DEF HandleRecovery, Receives, HostedAttempts
  <2>2. CASE MarkRecovery(m.of)
    BY <1>1, <1>5, <2>1, <2>2, MarkingTyped
       DEF RootTypeOK, HandleRecovery, Remaining, Throw, journalVars
  <2>3. CASE ~ MarkRecovery(m.of)
    BY <1>1, <1>5, <2>3 DEF RootTypeOK, HandleRecovery, Throw, journalVars
  <2>. QED
    BY <2>2, <2>3
<1>6. CASE HandleInteraction
  <2>1. m.of \in Hosted
    BY <1>2, <1>6, Kinds DEF HandleInteraction, Receives, Hosted
  <2>2. K!Settled(m.of, InteractionOutcome(m.how)) \in K!Settlements
    BY <2>1 DEF InteractionOutcome, K!Outcomes, K!Settled, K!Settlements
  <2>3. /\ deferred' \in Seq(K!Settlements) /\ active' \subseteq Hosted
        /\ rootPc' \in {"loop", "advance", "returned", "threw"}
    BY <1>1, <1>6, <2>2 DEF HandleInteraction, Settle, Remaining, Throw, RootTypeOK
  <2>. QED
    BY <1>1, <1>6, <2>3 DEF RootTypeOK, HandleInteraction, journalVars
<1>. QED
  BY <1>3, <1>4, <1>5, <1>6

LEMMA RootTyped ==
    ASSUME HostInv, [Next]_vars
    PROVE  RootTypeOK'
<1>1. RootTypeOK
  BY HostTypes DEF HostInv
<1>2. CASE Root
  BY <1>1, <1>2, CommandHandlersTyped, CancellingTyped, KernelMovesTyped, ObservationTyped,
     HandlersTyped DEF Root, RootStep, ScriptRootStep, InteractionRootStep, AgentRootStep
<1>3. CASE ~ Root
  <2>1. UNCHANGED rootVars
    BY <1>3 DEF Next, Child, Emits, InteractionChild, AgentChild, AgentProcess, ScriptEnds,
       CallChecks, CallSends, CallFails, CancelRunChecks, CancelRunSends, Crash, vars
  <2>. QED
    BY <1>1, <2>1 DEF RootTypeOK, rootVars, runtimeVars, journalVars
<1>. QED
  BY <1>2, <1>3

LEMMA DeliveriesTyped ==
    ASSUME InteractionTypeOK, NEW i \in Interactions, NEW what \in Heard, Deliver(i, what),
           UNCHANGED <<child, heard, journal>>
    PROVE  InteractionTypeOK'
<1>1. /\ box \in [Interactions -> Seq(Heard)] /\ Append(box[i], what) \in Seq(Heard)
      /\ told \in [Interactions -> SUBSET Heard] /\ told[i] \cup {what} \in SUBSET Heard
  BY DEF InteractionTypeOK
<1>2. /\ box' \in {box, [box EXCEPT ![i] = Append(box[i], what)]}
      /\ told' \in {told, [told EXCEPT ![i] = told[i] \cup {what}]}
  BY DEF Deliver
<1>3. box' \in [Interactions -> Seq(Heard)] /\ told' \in [Interactions -> SUBSET Heard]
  BY <1>1, <1>2
<1>. QED
  BY <1>3 DEF InteractionTypeOK

LEMMA InteractionsTyped ==
    ASSUME HostInv, [Next]_vars
    PROVE  InteractionTypeOK'
<1>1. InteractionTypeOK
  BY HostTypes DEF HostInv
<1>2. CASE UNCHANGED interactionVars
  BY <1>1, <1>2 DEF InteractionTypeOK, interactionVars
<1>3. ASSUME NEW i \in Interactions, InteractionChild(i) PROVE InteractionTypeOK'
  <2>1. ASSUME NEW what \in Heard, Hears(i, what),
               box' = box \/ box' = [box EXCEPT ![i] = Tail(@)], box[i] # << >> \/ box' = box
        PROVE  InteractionTypeOK'
    <3>1. box' \in [Interactions -> Seq(Heard)]
      <4>1. box \in [Interactions -> Seq(Heard)] /\ box[i] \in Seq(Heard)
        BY <1>1 DEF InteractionTypeOK
      <4>2. box[i] # << >> => Tail(box[i]) \in Seq(Heard)
        BY <4>1
      <4>. QED
        BY <2>1, <4>1, <4>2
    <3>. QED
      BY <1>1, <2>1, <3>1 DEF InteractionTypeOK, Hears
  <2>2. CASE ReceivesInteraction(i)
    <3>1. Head(box[i]) \in Heard
      BY <1>1, <2>2 DEF ReceivesInteraction, InteractionTypeOK
    <3>. QED
      BY <2>1, <2>2, <3>1 DEF ReceivesInteraction
  <2>3. CASE TimerExpires(i)
    BY <2>1, <2>3 DEF TimerExpires, Heard
  <2>4. CASE WindowExpires(i) \/ RelaySettlement(i)
    BY <1>1, <2>4 DEF WindowExpires, RelaySettlement, InteractionTypeOK
  <2>. QED
    BY <1>3, <2>2, <2>3, <2>4 DEF InteractionChild, InteractionStep
<1>4. ASSUME NEW c \in Calls, CallChecks(c) \/ CallSends(c) \/ CallFails(c)
      PROVE  InteractionTypeOK'
  <2>1. CASE CallSends(c)
    <3>1. call[c].of \in Answerable \cup {"none"}
      BY DEF HostInv, TypeOK
    <3>2. CASE call[c].of \in Interactions
      <4>1. PICK i \in Interactions : i = call[c].of
        BY <3>2
      <4>. QED
        BY <1>1, <2>1, <4>1, DeliveriesTyped DEF CallSends, Heard
    <3>3. CASE call[c].of \notin Interactions
      <4>1. UNCHANGED <<child, heard, journal>> /\ Deliver(call[c].of, c)
        BY <2>1 DEF CallSends
      <4>2. UNCHANGED <<box, told>>
        BY <1>1, <3>3, <4>1 DEF Deliver, InteractionTypeOK
      <4>. QED
        BY <1>1, <4>1, <4>2 DEF InteractionTypeOK
    <3>. QED
      BY <3>2, <3>3
  <2>. QED
    BY <1>2, <1>4, <2>1 DEF CallChecks, CallFails, peerVars
<1>5. CASE Root
  <2>1. ASSUME NEW i \in Interactions, CancelInteraction(i) PROVE InteractionTypeOK'
    BY <1>1, <2>1, DeliveriesTyped DEF CancelInteraction, Heard
  <2>2. CASE OpenInteraction \/ StartInteraction
    BY <1>1, <2>2 DEF OpenInteraction, StartInteraction, InteractionTypeOK
  <2>3. CASE HandleInteraction
    <3>1. Head(inbox).how \in Heard
      BY <2>3, HeadMessage, Kinds DEF HandleInteraction, Receives
    <3>. QED
      BY <1>1, <2>3, <3>1 DEF HandleInteraction, Resolved, InteractionTypeOK
  <2>. QED
    BY <1>2, <1>5, <2>1, <2>2, <2>3 DEF Root, RootStep, InteractionRootStep, AgentRootStep,
       DispatchAgent, AskAgent
<1>. QED
  BY <1>2, <1>3, <1>4, <1>5 DEF Next, Child, Emits, AgentChild, AgentProcess, ScriptEnds,
     CancelRunChecks, CancelRunSends, Crash, vars, peerVars

AgentLanes ==
    [pc : {"unstarted", "intent", "dispatch", "starting", "poll", "lookup", "cancel", "relay",
           "done", "failed"},
     baseline : Nat, recoveries : Nat,
     resolution : AgentResults \cup {"none", "recovery"},
     cancel : {"none", "queued", "received"}]

LEMMA AgentLaneChanges ==
    ASSUME NEW lane \in AgentLanes
    PROVE  /\ \A w \in {"unstarted", "intent", "dispatch", "starting", "poll", "lookup", "cancel",
                         "relay", "done", "failed"} : [lane EXCEPT !.pc = w] \in AgentLanes
           /\ \A answer \in AgentResults \cup {"none", "recovery"} :
                 [lane EXCEPT !.resolution = answer] \in AgentLanes
           /\ \A n \in Nat : [lane EXCEPT !.baseline = n] \in AgentLanes
           /\ \A n \in Nat : [lane EXCEPT !.recoveries = n] \in AgentLanes
           /\ \A c \in {"none", "queued", "received"} : [lane EXCEPT !.cancel = c] \in AgentLanes
           /\ lane.recoveries \in Nat /\ lane.recoveries + 1 \in Nat
           /\ lane.cancel \in {"none", "queued", "received"}
           /\ lane.resolution \in AgentResults \cup {"none", "recovery"}
  BY DEF AgentLanes

LEMMA AgentLanesTyped ==
    ASSUME AgentTypeOK, NEW g \in Agents,
           \/ \E w \in {"intent", "starting", "lookup", "done", "failed"} : AgentGoto(g, w)
           \/ \E answer \in {"running", "recovery"} \cup AgentResults : AgentResolves(g, answer)
           \/ AgentDispatchIntent(g) \/ ReceiveCancel(g) \/ AskAgent(g)
    PROVE  agentLane' \in [Agents -> AgentLanes]
<1>1. agentLane \in [Agents -> AgentLanes] /\ agentLane[g] \in AgentLanes
  BY DEF AgentTypeOK, AgentLanes
<1>2. SUFFICES \E lane \in AgentLanes : agentLane' = [agentLane EXCEPT ![g] = lane]
  BY <1>1
<1>3. CASE \E w \in {"intent", "starting", "lookup", "done", "failed"} : AgentGoto(g, w)
  BY <1>1, <1>3, AgentLaneChanges DEF AgentGoto
<1>4. CASE \E answer \in {"running", "recovery"} \cup AgentResults : AgentResolves(g, answer)
  <2>1. PICK answer \in {"running", "recovery"} \cup AgentResults : AgentResolves(g, answer)
    BY <1>4
  <2>. DEFINE first == [agentLane[g] EXCEPT !.pc = IF answer = "running" THEN "poll" ELSE "relay"]
              lane == [first EXCEPT !.resolution =
                          IF answer = "running" THEN agentLane[g].resolution ELSE answer]
  <2>2. lane \in AgentLanes
    BY <1>1, AgentLaneChanges
  <2>3. agentLane' = [agentLane EXCEPT ![g] = lane]
    <3>. DEFINE mid == [agentLane EXCEPT ![g] = first]
                said == IF answer = "running" THEN agentLane[g].resolution ELSE answer
    <3>1. mid = [agentLane EXCEPT ![g].pc = IF answer = "running" THEN "poll" ELSE "relay"]
      BY <1>1
    <3>2. mid[g] = first /\ first.resolution = agentLane[g].resolution
      BY <1>1 DEF AgentLanes
    <3>3. agentLane' = [mid EXCEPT ![g].resolution =
                           IF answer = "running" THEN mid[g].resolution ELSE answer]
      BY <2>1, <3>1 DEF AgentResolves
    <3>4. agentLane' = [mid EXCEPT ![g] = [first EXCEPT !.resolution = said]]
      BY <3>2, <3>3
    <3>. QED
      BY <1>1, <3>4
  <2>. QED
    BY <2>2, <2>3
<1>5. CASE AgentDispatchIntent(g)
  <2>. DEFINE lane == [[agentLane[g] EXCEPT !.baseline = agentLane[g].recoveries]
                        EXCEPT !.pc = "dispatch"]
  <2>1. lane \in AgentLanes
    BY <1>1, AgentLaneChanges
  <2>2. agentLane' = [agentLane EXCEPT ![g] = lane]
    BY <1>1, <1>5 DEF AgentDispatchIntent, AgentLanes
  <2>. QED
    BY <2>1, <2>2
<1>6. CASE ReceiveCancel(g)
  <2>. DEFINE lane == [[agentLane[g] EXCEPT !.cancel = "received"] EXCEPT !.pc = "cancel"]
  <2>1. lane \in AgentLanes
    BY <1>1, AgentLaneChanges
  <2>2. agentLane' = [agentLane EXCEPT ![g] = lane]
    BY <1>1, <1>6 DEF ReceiveCancel, AgentLanes
  <2>. QED
    BY <2>1, <2>2
<1>7. CASE AskAgent(g)
  <2>. DEFINE lane == [agentLane[g] EXCEPT !.cancel =
                          IF agentLane[g].cancel = "none" THEN "queued" ELSE agentLane[g].cancel]
  <2>1. lane \in AgentLanes
    BY <1>1, AgentLaneChanges
  <2>2. agentLane' = [agentLane EXCEPT ![g] = lane]
    BY <1>1, <1>7 DEF AskAgent, AgentLanes
  <2>. QED
    BY <2>1, <2>2
<1>. QED
  BY <1>3, <1>4, <1>5, <1>6, <1>7

LEMMA AgentsTyped ==
    ASSUME HostInv, [Next]_vars
    PROVE  AgentTypeOK'
<1>1. AgentTypeOK
  BY HostTypes DEF HostInv
<1>2. CASE UNCHANGED agentVars
  BY <1>1, <1>2 DEF AgentTypeOK, agentVars
<1>3. ASSUME NEW g \in Agents, AgentChild(g) PROVE AgentTypeOK'
  <2>1. LookupAnswers(g) \cup StartAnswers(g) \subseteq {"running", "recovery"} \cup AgentResults
    BY <1>1, AgentAnswers
  <2>2. agent' \in [Agents -> [state : {"absent", "rejected", "running"} \cup AgentResults,
                               asked : BOOLEAN, launches : Nat]]
    <3>1. CASE StartAgent(g)
      <4>1. PICK state \in {"running", "rejected", "absent"} :
                agent' = [agent EXCEPT
                    ![g].state = state,
                    ![g].launches = IF state = "running" THEN @ + 1 ELSE @]
        BY <3>1 DEF StartAgent
      <4>2. /\ agent \in [Agents -> [state : {"absent", "rejected", "running"} \cup AgentResults,
                                     asked : BOOLEAN, launches : Nat]]
            /\ agent[g].launches \in Nat /\ agent[g].launches + 1 \in Nat
        BY <1>1 DEF AgentTypeOK
      <4>3. [agent[g] EXCEPT !.state = state,
                             !.launches = IF state = "running" THEN agent[g].launches + 1
                                                               ELSE agent[g].launches]
               \in [state : {"absent", "rejected", "running"} \cup AgentResults,
                    asked : BOOLEAN, launches : Nat]
        BY <4>2
      <4>4. agent' = [agent EXCEPT ![g] =
                [agent[g] EXCEPT !.state = state,
                                 !.launches = IF state = "running" THEN agent[g].launches + 1
                                                                   ELSE agent[g].launches]]
        BY <4>1, <4>2
      <4>. QED
        BY <4>2, <4>3, <4>4
    <3>2. CASE CancelAgent(g)
      BY <1>1, <3>2 DEF CancelAgent, AskedToCancel, AgentTypeOK
    <3>. QED
      BY <1>1, <1>3, <3>1, <3>2 DEF AgentChild, AgentStep, AgentDispatchIntent, StartReturns,
         ReconcileAgent, ReceiveTimesOut, LookupAgent, ReceiveCancel, RelayAgent, AgentFails,
         AgentTypeOK
  <2>3. \/ UNCHANGED agentLane
        \/ \E w \in {"intent", "starting", "lookup", "done", "failed"} : AgentGoto(g, w)
        \/ \E answer \in {"running", "recovery"} \cup AgentResults : AgentResolves(g, answer)
        \/ AgentDispatchIntent(g) \/ ReceiveCancel(g)
    BY <1>3, <2>1 DEF AgentChild, AgentStep, StartAgent, StartReturns, ReconcileAgent,
       ReceiveTimesOut, LookupAgent, CancelAgent, RelayAgent, AgentFails
  <2>. QED
    BY <1>1, <2>2, <2>3, AgentLanesTyped DEF AgentTypeOK, AgentLanes
<1>4. ASSUME NEW g \in Agents, AgentProcess(g) PROVE AgentTypeOK'
  BY <1>1, <1>4 DEF AgentProcess, AgentEnds, AgentTypeOK
<1>5. CASE Crash
  <2>. DEFINE Recovered(g) == [agentLane[g] EXCEPT
                                 !.recoveries = @ + 1,
                                 !.pc = IF @ = "starting" THEN "dispatch" ELSE @]
  <2>1. agentLane' = [g \in Agents |->
            IF agentLane[g].pc \in {"unstarted", "done", "failed"} THEN agentLane[g]
            ELSE Recovered(g)]
    BY <1>5, Zenon DEF Crash, AgentsRecover
  <2>2. ASSUME NEW g \in Agents PROVE agentLane[g] \in AgentLanes /\ Recovered(g) \in AgentLanes
    <3>1. agentLane[g] \in AgentLanes
      BY <1>1 DEF AgentTypeOK, AgentLanes
    <3>. DEFINE first == [agentLane[g] EXCEPT !.recoveries = agentLane[g].recoveries + 1]
    <3>2. /\ first \in AgentLanes
          /\ agentLane[g].pc \in {"unstarted", "intent", "dispatch", "starting", "poll", "lookup",
                                  "cancel", "relay", "done", "failed"}
      <4>1. first \in AgentLanes
        BY <3>1, AgentLaneChanges
      <4>. QED
        BY <3>1, <4>1 DEF AgentLanes
    <3>3. Recovered(g) = [first EXCEPT !.pc = IF agentLane[g].pc = "starting" THEN "dispatch"
                                              ELSE agentLane[g].pc]
      BY <3>1 DEF AgentLanes
    <3>. QED
      BY <3>1, <3>2, <3>3, AgentLaneChanges
  <2>. HIDE DEF Recovered
  <2>. QED
    BY <1>1, <1>5, <2>1, <2>2 DEF AgentTypeOK, AgentLanes, Crash
<1>6. CASE Root
  <2>1. CASE DispatchAgent
    <3>1. PICK g \in Agents : g = Head(commands).of
      BY <2>1 DEF DispatchAgent
    <3>. QED
      BY <1>1, <2>1, <3>1, AgentLanesTyped DEF DispatchAgent, AgentTypeOK, AgentLanes
  <2>2. ASSUME NEW g \in Agents, AskAgent(g) PROVE AgentTypeOK'
    <3>1. UNCHANGED agent
      BY <2>2 DEF AskAgent
    <3>. QED
      BY <1>1, <2>2, <3>1, AgentLanesTyped DEF AgentTypeOK, AgentLanes
  <2>. QED
    BY <1>2, <1>6, <2>1, <2>2 DEF Root, RootStep, AgentRootStep
<1>. QED
  BY <1>2, <1>3, <1>4, <1>5, <1>6 DEF Next, Child, Emits, InteractionChild, ScriptEnds,
     CallChecks, CallSends, CallFails, CancelRunChecks, CancelRunSends, vars, peerVars

LEMMA TypeStep ==
    ASSUME HostInv, [Next]_vars
    PROVE  TypeOK'
<1>1. LaneProofs!TypeOK'
  BY LanesKeep DEF LaneProofs!LanesInv, LaneProofs!RefinementInv, LaneProofs!Inv
<1>2. Lane!TypeOK'
  BY <1>1, SameTypes, PTL
<1>3. /\ cancelCall' \in {"idle", "guarded", "sent"}
      /\ call' \in [Calls -> [at : {"idle", "checked", "accepted", "refused", "failed"},
                              of : Answerable \cup {"none"}]]
  <2>1. /\ cancelCall \in {"idle", "guarded", "sent"}
        /\ call \in [Calls -> [at : {"idle", "checked", "accepted", "refused", "failed"},
                               of : Answerable \cup {"none"}]]
    BY DEF HostInv, TypeOK
  <2>2. CASE UNCHANGED managerVars
    BY <2>1, <2>2 DEF managerVars
  <2>3. CASE CancelRunChecks \/ CancelRunSends
    BY <2>1, <2>3 DEF CancelRunChecks, CancelRunSends
  <2>4. ASSUME NEW c \in Calls, CallChecks(c) \/ CallSends(c) \/ CallFails(c)
        PROVE  /\ UNCHANGED cancelCall
               /\ call' \in [Calls -> [at : {"idle", "checked", "accepted", "refused", "failed"},
                                       of : Answerable \cup {"none"}]]
    BY <2>1, <2>4 DEF CallChecks, CallSends, CallFails
  <2>. QED
    BY <2>1, <2>2, <2>3, <2>4 DEF Next, Child, Emits, InteractionChild, AgentChild,
       AgentProcess, Root, ScriptEnds, Crash, vars
<1>. QED
  BY <1>2, <1>3, RootTyped, InteractionsTyped, AgentsTyped DEF TypeOK

-----------------------------------------------------------------------------
(* The run begins with nothing started but the operations of its program   *)
(* queued.                                                                 *)
LEMMA EntryTyped == K!InitialCommands \in Seq(K!Commands)
  BY ProgramAssumption, CommandsTyped DEF K!InitialCommands

LEMMA HostInit == Init => HostInv
<1>. SUFFICES ASSUME Init PROVE HostInv
  OBVIOUS
<1>. USE DEF Init
<1>1. LaneProofs!LanesInv
  <2>1. LaneProofs!Init
    BY SameNames DEF DurableInit, ProviderInit, LaneInit, LaneProofs!Init,
       LaneProofs!DurableInit, LaneProofs!ProviderInit, LaneProofs!LaneInit
  <2>. QED
    BY <2>1, LaneProofs!LanesInvInit, MaxAttemptsAssumption, KindsAssumption,
       PortAssumption, MaxCrashesAssumption, EndingsAssumption DEF Results, LaneProofs!Results
<1>2. Lane!TypeOK
  BY <1>1, SameTypes DEF LaneProofs!LanesInv, LaneProofs!RefinementInv, LaneProofs!Inv
<1>3. RootTypeOK
  <2>1. kernel \in KernelStates
    BY ProgramAssumption DEF RootInit, K!InitialState, K!SetOf, KernelStates
  <2>2. commands \in Seq(K!Commands)
    BY EntryTyped DEF RootInit
  <2>3. << >> \in Seq(K!Settlements)
    OBVIOUS
  <2>. QED
    BY <2>1, <2>2, <2>3 DEF RootInit, RootTypeOK, KernelStates, RunStatuses, AttemptStatuses
<1>4. InteractionTypeOK
  BY DEF InteractionInit, InteractionTypeOK
<1>5. AgentTypeOK
  BY DEF AgentInit, AgentTypeOK
<1>6. TypeOK
  BY <1>2, <1>3, <1>4, <1>5 DEF TypeOK
<1>7. \A x \in Hosted : ~ Moved(x)
  BY DEF DurableInit, InteractionInit, AgentInit, Moved
<1>8. IssueInv
  <2>1. /\ Entry \in Seq(Hosted) /\ DOMAIN commands = DOMAIN Entry
        /\ \A i \in DOMAIN Entry : commands[i] = K!Dispatch(Entry[i])
        /\ kernel.pending = K!SetOf(Entry)
    BY ProgramAssumption DEF RootInit, K!InitialCommands, K!DispatchAll, K!InitialState
  <2>2. \A i, j \in DOMAIN Entry : Entry[i] = Entry[j] => i = j
    BY OnceAssumption
  <2>3. \A x \in Hosted : Queued(x) => x \in kernel.pending /\ ~ Moved(x)
    BY <1>7, <2>1, DispatchIdentifies DEF Queued, K!SetOf
  <2>4. \A i, j \in DOMAIN commands : commands[i] = commands[j] => i = j
    BY <2>1, <2>2, DispatchIdentifies
  <2>5. ASSUME NEW y \in Hosted, NEW x \in K!SetOf(After[y]) PROVE ~ Issued(x)
    BY <1>7, <2>1, FollowersAreHosted, OnceAssumption DEF Issued
  <2>6. deferred = << >> /\ active = {} /\ rootPc = "loop"
    BY DEF RootInit
  <2>. QED
    BY <2>3, <2>4, <2>5, <2>6 DEF IssueInv
<1>9. InboxInv /\ SubjectInv
  BY DEF DurableInit, RootInit, InboxInv, InboxSet, SubjectInv
<1>10. TargetInv
  <2>1. \A a \in Attempts : attempt[a] = "none"
    BY DEF RootInit, HostedAttempts
  <2>. QED
    BY <2>1 DEF RootInit, TargetInv
<1>11. TellersInv
  BY DEF InteractionInit, AgentInit, TellersInv, AgentAt
<1>. QED
  BY <1>1, <1>6, <1>8, <1>9, <1>10, <1>11 DEF HostInv

LEMMA HostStep == HostInv /\ [Next]_vars => HostInv'
  BY TypeStep, LanesKeep, IssueStep, InboxStep, SubjectStep, TargetStep, TellersStep DEF HostInv

(* Whatever the program and however often the host crashes, the run keeps  *)
(* to its inductive invariant: the kernel issues no operation twice, the   *)
(* inbox holds no message twice, the root claims only what it started.     *)
THEOREM HostInvariant == Spec => []HostInv
<1>1. Init => HostInv
  BY HostInit
<1>2. HostInv /\ [Next]_vars => HostInv'
  BY HostStep
<1>. QED
  BY <1>1, <1>2, PTL DEF Spec

(* Every variable of the run has its type: what kernel-run-workflow.ts     *)
(* queues, defers, lists and targets are commands, events, attempts and    *)
(* operations of the program.                                              *)
THEOREM TypeCorrect == Spec => []TypeOK
<1>1. HostInv => TypeOK
  BY DEF HostInv
<1>. QED
  BY <1>1, HostInvariant, PTL

-----------------------------------------------------------------------------
(* The names of ScriptLane as the run states its environment property.     *)
LEMMA SameLane ==
    /\ LaneProofs!Init <=> Lane!Init
    /\ LaneProofs!Next <=> Lane!Next
<1>. USE DEF LaneProofs!durableVars, LaneProofs!providerVars, LaneProofs!laneVars,
             Lane!durableVars, Lane!providerVars, Lane!laneVars
<1>2. /\ LaneProofs!Attempts = Lane!Attempts /\ LaneProofs!Messages = Lane!Messages
      /\ LaneProofs!ScriptReports = Lane!ScriptReports /\ LaneProofs!Results = Lane!Results
      /\ \A m : LaneProofs!Post(m) <=> Lane!Post(m)
      /\ \A a, c : LaneProofs!Arbitrate(a, c) <=> Lane!Arbitrate(a, c)
      /\ \A a, r, b : LaneProofs!Observation(a, r, b) = Lane!Observation(a, r, b)
  BY DEF Lane!Attempts, Lane!Messages, Lane!ScriptReports, Lane!Observations,
     Lane!AgentReports, Lane!Settlements, Lane!CancelRequest, Lane!Results, Lane!AgentResults,
     Lane!Heard, Lane!Ordinals, Lane!ReceiptOf, Lane!Post, Lane!Arbitrate, Lane!Stored,
     Lane!Observation,
     LaneProofs!Attempts, LaneProofs!Messages, LaneProofs!ScriptReports,
     LaneProofs!Observations, LaneProofs!AgentReports, LaneProofs!Settlements,
     LaneProofs!CancelRequest, LaneProofs!Results, LaneProofs!AgentResults, LaneProofs!Heard,
     LaneProofs!Ordinals, LaneProofs!ReceiptOf, LaneProofs!Post, LaneProofs!Arbitrate,
     LaneProofs!Stored, LaneProofs!Observation
<1>3. LaneProofs!Init <=> Lane!Init
  BY <1>2 DEF LaneProofs!Init, LaneProofs!DurableInit, LaneProofs!ProviderInit,
     LaneProofs!LaneInit, Lane!Init, Lane!DurableInit, Lane!ProviderInit, Lane!LaneInit
<1>4. ASSUME NEW op \in Ops
      PROVE  /\ LaneProofs!LaneStep(op) <=> Lane!LaneStep(op)
             /\ LaneProofs!ScriptEmits(op) <=> Lane!ScriptEmits(op)
             /\ LaneProofs!RootStartsChild(op) <=> Lane!RootStartsChild(op)
  <2>. USE DEF LaneProofs!At, LaneProofs!Current, LaneProofs!Goto, LaneProofs!Resolve,
               Lane!At, Lane!Current, Lane!Goto, Lane!Resolve
  <2>1. /\ LaneProofs!DispatchIntent(op) <=> Lane!DispatchIntent(op)
        /\ LaneProofs!ArbitrateDispatch(op) <=> Lane!ArbitrateDispatch(op)
        /\ LaneProofs!ArbitrationFails(op) <=> Lane!ArbitrationFails(op)
    BY <1>2 DEF LaneProofs!DispatchIntent, LaneProofs!ArbitrateDispatch,
       LaneProofs!ArbitrationFails, Lane!DispatchIntent, Lane!ArbitrateDispatch,
       Lane!ArbitrationFails
  <2>2. /\ LaneProofs!ExecuteAttempt(op) <=> Lane!ExecuteAttempt(op)
        /\ LaneProofs!ExecutionReturns(op) <=> Lane!ExecutionReturns(op)
        /\ LaneProofs!ReconcileAttempt(op) <=> Lane!ReconcileAttempt(op)
        /\ LaneProofs!LaneFails(op) <=> Lane!LaneFails(op)
    BY <1>2 DEF LaneProofs!ExecuteAttempt, LaneProofs!ExecutionReturns, LaneProofs!MayExecute,
       LaneProofs!Accept, LaneProofs!ReconcileAttempt, LaneProofs!ReconcileAnswers,
       LaneProofs!LaneFails, Lane!ExecuteAttempt, Lane!ExecutionReturns, Lane!MayExecute,
       Lane!Accept, Lane!ReconcileAttempt, Lane!ReconcileAnswers, Lane!LaneFails
  <2>3. /\ LaneProofs!RelayOutcome(op) <=> Lane!RelayOutcome(op)
        /\ LaneProofs!SendRetryStart(op) <=> Lane!SendRetryStart(op)
        /\ LaneProofs!NextAttempt(op) <=> Lane!NextAttempt(op)
    BY <1>2 DEF LaneProofs!RelayOutcome, LaneProofs!Outcome, LaneProofs!ShouldRetry,
       LaneProofs!RecoveryRelay, LaneProofs!SendRetryStart, LaneProofs!RetryStart,
       LaneProofs!NextAttempt, Lane!RelayOutcome, Lane!Outcome, Lane!ShouldRetry,
       Lane!RecoveryRelay, Lane!SendRetryStart, Lane!RetryStart, Lane!NextAttempt
  <2>4. /\ LaneProofs!ScriptEmits(op) <=> Lane!ScriptEmits(op)
        /\ LaneProofs!RootStartsChild(op) <=> Lane!RootStartsChild(op)
    BY <1>2 DEF LaneProofs!ScriptEmits, LaneProofs!LiveEvent, LaneProofs!RootStartsChild,
       Lane!ScriptEmits, Lane!LiveEvent, Lane!RootStartsChild
  <2>. QED
    BY <2>1, <2>2, <2>3, <2>4 DEF LaneProofs!LaneStep, Lane!LaneStep
<1>5. ASSUME NEW a \in Attempts
      PROVE  /\ LaneProofs!ScriptEnds(a) <=> Lane!ScriptEnds(a)
             /\ LaneProofs!RootClaimsCancel(a) <=> Lane!RootClaimsCancel(a)
             /\ LaneProofs!RootReports(a) <=> Lane!RootReports(a)
  BY <1>2 DEF LaneProofs!ScriptEnds, LaneProofs!Seal, LaneProofs!RootClaimsCancel,
     LaneProofs!RootReports, LaneProofs!KnownToRoot, Lane!ScriptEnds, Lane!Seal,
     Lane!RootClaimsCancel, Lane!RootReports, Lane!KnownToRoot
<1>6. /\ LaneProofs!RootReceives <=> Lane!RootReceives
      /\ LaneProofs!OthersPost <=> Lane!OthersPost
      /\ LaneProofs!HostCrash <=> Lane!HostCrash
  BY <1>2 DEF LaneProofs!RootReceives, LaneProofs!OthersPost, LaneProofs!HostCrash,
     LaneProofs!LanesRecover, LaneProofs!Ended, Lane!RootReceives, Lane!OthersPost,
     Lane!HostCrash, Lane!LanesRecover, Lane!Ended
<1>7. LaneProofs!Next <=> Lane!Next
  BY <1>2, <1>4, <1>5, <1>6, SameNames DEF LaneProofs!Next, Lane!Next
<1>. QED
  BY <1>3, <1>7

(* The root workflow is the environment that the lanes of its scripts      *)
(* assume: it starts children, claims and reports cancellations only of    *)
(* attempts it knows, and reads its inbox in order.  What the lanes        *)
(* promise in ScriptLane they promise in every run.                        *)
THEOREM RunHostsScriptLanes == Spec => HostsScriptLanes
<1>1. Init => Lane!Init
  <2>1. Init => LaneProofs!Init
    BY SameNames DEF Init, DurableInit, ProviderInit, LaneInit, LaneProofs!Init,
       LaneProofs!DurableInit, LaneProofs!ProviderInit, LaneProofs!LaneInit
  <2>. QED
    BY <2>1, SameLane
<1>2. HostInv /\ [Next]_vars => [Lane!Next]_(Lane!vars)
  <2>1. UNCHANGED LaneProofs!vars => UNCHANGED Lane!vars
    BY DEF LaneProofs!vars, LaneProofs!durableVars, LaneProofs!providerVars,
       LaneProofs!laneVars, Lane!vars, Lane!durableVars, Lane!providerVars, Lane!laneVars
  <2>. QED
    BY <2>1, HostStepIsLaneStep, SameLane
<1>. QED
  BY <1>1, <1>2, HostInvariant, PTL DEF Spec, HostsScriptLanes, Lane!Spec

=============================================================================
