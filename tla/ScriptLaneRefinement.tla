------------------------ MODULE ScriptLaneRefinement ------------------------
(***************************************************************************)
(* The attempt lanes implement the contract of a script attempt, for every *)
(* set of operations, every number of attempts and every number of         *)
(* crashes: Contract takes its reports from the coordinator messages and   *)
(* its other variables from the lanes as they are.                         *)
(***************************************************************************)
EXTENDS ScriptLaneProofs

(* An observation of a was sent to the root.                               *)
Observed(a) == \E p \in posted : p.type = "observation" /\ p.of = a

(* The lane of op has relayed an outcome that a retry follows.             *)
Scheduling(op) == pc[op] \in {"retryStart", "backoff"}

(* A lane goes on to another attempt only after it relayed the outcome of  *)
(* the one before, and schedules it only after it relayed this one.        *)
RelayInv(op) ==
    /\ ordinal[op] > 1 => Observed(<<op, ordinal[op] - 1>>)
    /\ Scheduling(op) => Observed(Current(op))

RefinementInv == Inv /\ \A op \in Ops : RelayInv(op)

(* A step of the contract, or one it does not see.                         *)
ContractStep == [Contract!Next]_(Contract!contractVars)

USE DEF Scheduling

-----------------------------------------------------------------------------
(* A lane that stays at its attempt keeps its invariant: nothing that was  *)
(* posted is ever withdrawn.                                               *)
LEMMA RelayStands ==
    ASSUME NEW op \in Ops, RelayInv(op), posted \subseteq posted', ordinal'[op] = ordinal[op],
           Scheduling(op)' => Scheduling(op)
    PROVE  RelayInv(op)'
<1>1. Current(op)' = Current(op)
  BY DEF Current
<1>. QED
  BY <1>1 DEF RelayInv, Observed

(* An answer never takes the lane to its retry.                            *)
LEMMA ResolveLeadsElsewhere ==
    ASSUME LaneTypeOK, NEW op \in Ops, NEW answer, Resolve(op, answer)
    PROVE  \A o \in Ops : Scheduling(o)' => Scheduling(o)
  BY DEF Resolve, Goto, LaneTypeOK

(* After a send its receipt is taken: the outcome of the attempt in        *)
(* progress is known to the root.                                          *)
LEMMA RelayIsObserved ==
    ASSUME TypeOK, NEW op \in Ops, Post(Outcome(op)), Outcome(op) \in Messages,
           resolution[op] # "unknown", UNCHANGED ordinal
    PROVE  Observed(Current(op))'
<1>. DEFINE m == Outcome(op)
<1>1. m.type = "observation" /\ m.of = Current(op) /\ m # CancelRequest
  BY DEF Outcome, Observation, CancelRequest
<1>2. CASE m \in posted'
  BY <1>1, <1>2 DEF Observed, Current
<1>3. CASE m \notin posted'
  <2>1. PICK p \in posted : ReceiptOf(p) = ReceiptOf(m)
    BY <1>3 DEF Post
  <2>2. p \in Messages /\ p # CancelRequest
    BY <1>1, <2>1 DEF ReceiptOf, TypeOK, DurableTypeOK, CancelRequest
  <2>3. p.type = "observation" /\ p.of = Current(op)
    BY <1>1, <2>1, <2>2, ReceiptIdentifies
  <2>4. p \in posted' /\ Current(op)' = Current(op)
    BY <1>3 DEF Post, Current
  <2>. QED
    BY <2>3, <2>4 DEF Observed
<1>. QED
  BY <1>2, <1>3

(* The invariant holds initially, and every step preserves it.             *)
LEMMA RefinementInit == Init => RefinementInv
<1>1. ASSUME Init, NEW op \in Ops PROVE RelayInv(op)
  <2>1. ordinal[op] = 1 /\ pc[op] = "intent"
    BY <1>1 DEF Init, LaneInit
  <2>. QED
    BY <2>1 DEF RelayInv
<1>. QED
  BY <1>1, InvInit DEF RefinementInv

LEMMA RelayOutcomeStep ==
    ASSUME Inv, NEW op \in Ops, RelayOutcome(op), \A o \in Ops : RelayInv(o)
    PROVE  \A o \in Ops : RelayInv(o)'
<1>. USE DEF RelayOutcome
<1>1. LaneTypeOK /\ pc[op] = "relay" /\ UNCHANGED ordinal
  BY DEF Inv, TypeOK, At
<1>2. Outcome(op) \in Messages
  BY <1>1, OutcomeType DEF Inv, LaneInv
<1>3. posted \subseteq posted'
  BY <1>2, PostEffect DEF Inv, TypeOK
<1>4. ASSUME NEW o \in Ops, o # op PROVE RelayInv(o)'
  BY <1>1, <1>3, <1>4, RelayStands DEF Goto, LaneTypeOK
<1>5. ASSUME pc'[op] = "retryStart" PROVE RelayInv(op)'
  <2>1. resolution[op] # "unknown"
    BY <1>1, <1>5 DEF Goto, ShouldRetry, LaneTypeOK
  <2>2. Observed(Current(op))'
    BY <1>2, <2>1, RelayIsObserved DEF Inv
  <2>. QED
    BY <1>1, <1>3, <2>2 DEF RelayInv, Observed
<1>6. ASSUME pc'[op] # "retryStart" PROVE RelayInv(op)'
  BY <1>1, <1>3, <1>6, RelayStands DEF Goto, LaneTypeOK
<1>. QED
  BY <1>4, <1>5, <1>6

LEMMA NextAttemptStep ==
    ASSUME Inv, NEW op \in Ops, NextAttempt(op), \A o \in Ops : RelayInv(o)
    PROVE  \A o \in Ops : RelayInv(o)'
<1>. USE DEF NextAttempt, durableVars
<1>1. LaneTypeOK /\ pc[op] = "backoff" /\ UNCHANGED posted
  BY DEF Inv, TypeOK, At
<1>2. ASSUME NEW o \in Ops, o # op PROVE RelayInv(o)'
  BY <1>1, <1>2, RelayStands DEF Goto, LaneTypeOK
<1>3. ordinal[op] \in Nat /\ ordinal'[op] = ordinal[op] + 1 /\ pc'[op] = "intent"
  BY <1>1, MaxAttemptsAssumption DEF Goto, LaneTypeOK, Ordinals
<1>4. Observed(<<op, ordinal[op]>>)
  BY <1>1 DEF RelayInv, Current
<1>5. ordinal'[op] - 1 = ordinal[op]
  BY <1>3
<1>6. RelayInv(op)'
  BY <1>1, <1>3, <1>4, <1>5 DEF RelayInv, Observed
<1>. QED
  BY <1>2, <1>6

LEMMA RefinementStep == RefinementInv /\ [Next]_vars => RefinementInv'
<1>. SUFFICES ASSUME RefinementInv, [Next]_vars PROVE \A op \in Ops : RelayInv(op)'
  BY InvStep DEF RefinementInv
<1>. USE DEF RefinementInv
<1>1. Inv /\ LaneTypeOK /\ DurableTypeOK
  BY DEF Inv, TypeOK
<1>2. ASSUME NEW op \in Ops, NEW m \in Messages, Post(m), UNCHANGED ordinal,
             \A o \in Ops : Scheduling(o)' => Scheduling(o)
      PROVE  RelayInv(op)'
  BY <1>1, <1>2, PostEffect, RelayStands
<1>3. ASSUME NEW op \in Ops, UNCHANGED <<posted, ordinal>>,
             \A o \in Ops : Scheduling(o)' => Scheduling(o)
      PROVE  RelayInv(op)'
  BY <1>3, RelayStands
<1>4. ASSUME NEW op \in Ops, LaneStep(op) PROVE \A o \in Ops : RelayInv(o)'
  <2>1. CASE RelayOutcome(op)
    BY <1>1, <2>1, RelayOutcomeStep
  <2>2. CASE NextAttempt(op)
    BY <1>1, <2>2, NextAttemptStep
  <2>3. CASE SendRetryStart(op)
    <3>1. RetryStart(<<op, ordinal[op] + 1>>) \in Messages
      BY <1>1, <2>3, MaxAttemptsAssumption
         DEF SendRetryStart, RetryStart, Messages, ScriptReports, Attempts, Ordinals, Inv,
             LaneInv, At, LaneTypeOK
    <3>. QED
      BY <1>1, <1>2, <2>3, <3>1 DEF SendRetryStart, At, Goto, LaneTypeOK
  <2>4. CASE DispatchIntent(op) \/ ExecuteAttempt(op) \/ LaneFails(op)
    BY <1>1, <1>3, <2>4
       DEF DispatchIntent, ExecuteAttempt, LaneFails, durableVars, Goto, LaneTypeOK
  <2>5. CASE ArbitrateDispatch(op) \/ ArbitrationFails(op)
    <3>1. \/ \E answer : Resolve(op, answer)
          \/ Goto(op, "provider")
      BY <2>5 DEF ArbitrateDispatch, ArbitrationFails
    <3>. QED
      BY <1>1, <1>3, <2>5, <3>1, ResolveLeadsElsewhere
         DEF ArbitrateDispatch, ArbitrationFails, Goto, LaneTypeOK
  <2>6. CASE ExecutionReturns(op) \/ ReconcileAttempt(op)
    <3>1. \E answer : Resolve(op, answer)
      BY <2>6 DEF ExecutionReturns, ReconcileAttempt
    <3>. QED
      BY <1>1, <1>3, <2>6, <3>1, ResolveLeadsElsewhere
         DEF ExecutionReturns, ReconcileAttempt, durableVars
  <2>. QED
    BY <1>4, <2>1, <2>2, <2>3, <2>4, <2>5, <2>6 DEF LaneStep
<1>5. ASSUME NEW op \in Ops, ScriptEmits(op) PROVE \A o \in Ops : RelayInv(o)'
  <2>1. LiveEvent(Current(op)) \in Messages
    BY <1>1, CurrentIsAttempt DEF LiveEvent, Messages, ScriptReports
  <2>. QED
    BY <1>2, <1>5, <2>1 DEF ScriptEmits, laneVars
<1>6. ASSUME NEW a \in Attempts, RootReports(a) PROVE \A o \in Ops : RelayInv(o)'
  <2>1. PICK m \in Messages : Post(m)
    BY <1>6 DEF RootReports, Observation, Messages, ScriptReports, Observations
  <2>. QED
    BY <1>2, <1>6, <2>1 DEF RootReports, laneVars
<1>7. CASE OthersPost
  BY <1>2, <1>7 DEF OthersPost, laneVars
<1>8. ASSUME NEW op \in Ops, RootStartsChild(op) PROVE \A o \in Ops : RelayInv(o)'
  BY <1>3, <1>8 DEF RootStartsChild, laneVars
<1>9. ASSUME NEW a \in Attempts, ScriptEnds(a) \/ RootClaimsCancel(a)
      PROVE  \A o \in Ops : RelayInv(o)'
  BY <1>3, <1>9 DEF ScriptEnds, RootClaimsCancel, durableVars, laneVars
<1>10. CASE RootReceives
  BY <1>3, <1>10 DEF RootReceives, laneVars
<1>11. CASE HostCrash
  BY <1>1, <1>3, <1>11 DEF HostCrash, LanesRecover, durableVars, LaneTypeOK
<1>12. CASE UNCHANGED vars
  BY <1>3, <1>12 DEF vars, durableVars, laneVars
<1>. QED
  BY <1>4, <1>5, <1>6, <1>7, <1>8, <1>9, <1>10, <1>11, <1>12 DEF Next

-----------------------------------------------------------------------------
(* The initial states of the lanes are initial states of the contract.     *)
LEMMA ContractInit == Init => Contract!Init
  BY DEF Init, DurableInit, ProviderInit, Contract!Init, Contract!Attempts, Contract!Ordinals,
         Attempts, Ordinals, Reports

(* A message that tells the truth about an attempt, and whose predecessor  *)
(* was observed, is a report of the contract; any other message is none.   *)
LEMMA PostReports ==
    ASSUME TypeOK, NEW m \in Messages, Post(m), UNCHANGED providerVars, UNCHANGED winner,
           m \in ScriptReports =>
               /\ Contract!Truthful(m)
               /\ m.of[2] > 1 => Observed(<<m.of[1], m.of[2] - 1>>)
    PROVE  ContractStep
<1>. USE DEF ContractStep, Contract!contractVars, providerVars
<1>1. CASE UNCHANGED posted \/ m \notin ScriptReports
  BY <1>1 DEF Reports, Post
<1>2. CASE ~ UNCHANGED posted /\ m \in ScriptReports
  <2>1. posted' = posted \cup {m} /\ \A p \in posted : ReceiptOf(p) # ReceiptOf(m)
    BY <1>2 DEF Post
  <2>2. m # CancelRequest /\ CancelRequest \notin ScriptReports
    BY <1>2 DEF ScriptReports, Observations, CancelRequest
  <2>3. \A p \in Reports : p.type = m.type => p.of # m.of
    BY <2>1, <2>2, ReceiptIdentifies DEF Reports, TypeOK, DurableTypeOK
  <2>4. ASSUME m.of[2] > 1
        PROVE  \E p \in Reports : p.type = "observation" /\ p.of = Contract!Predecessor(m.of)
    <3>1. PICK p \in posted : p.type = "observation" /\ p.of = <<m.of[1], m.of[2] - 1>>
      BY <1>2, <2>4 DEF Observed
    <3>2. m.of[1] \in Ops
      BY <1>2 DEF ScriptReports, Observations, Attempts
    <3>3. p.of \notin Agents \X {1}
      BY <3>1, <3>2, KindsAssumption
    <3>4. p \in ScriptReports \cup AgentReports
      BY <3>1 DEF TypeOK, DurableTypeOK, Messages, Settlements, CancelRequest
    <3>5. p \notin AgentReports
      BY <3>3 DEF AgentReports
    <3>. QED
      BY <3>1, <3>4, <3>5 DEF Contract!Predecessor, Reports
  <2>5. Reports' = Reports \cup {m}
    BY <1>2, <2>1 DEF Reports
  <2>6. Contract!Report(m)
    BY <1>2, <2>3, <2>4, <2>5 DEF Contract!Report
  <2>7. m \in Contract!ScriptReports
    BY <1>2 DEF Contract!ScriptReports, Contract!Observations, Contract!Attempts,
         Contract!Ordinals, Contract!Results, ScriptReports, Observations, Attempts, Ordinals,
         Results
  <2>. QED
    BY <2>6, <2>7 DEF Contract!Next
<1>. QED
  BY <1>1, <1>2

(* The arbitration record decides an attempt once.                         *)
LEMMA ArbitrateDecides ==
    ASSUME TypeOK, NEW a \in Attempts, NEW c \in {"dispatch_won", "cancel_won"},
           Arbitrate(a, c), UNCHANGED providerVars, UNCHANGED posted
    PROVE  ContractStep
<1>. USE DEF ContractStep, Contract!contractVars, providerVars, Arbitrate, Stored
<1>1. CASE winner[a] = "none"
  <2>1. Contract!Decide(a)
    BY <1>1 DEF Contract!Decide, Reports
  <2>. QED
    BY <2>1 DEF Contract!Next, Contract!Attempts, Contract!Ordinals, Attempts, Ordinals
<1>2. CASE winner[a] # "none"
  <2>1. winner' = winner
    BY <1>2 DEF TypeOK, DurableTypeOK
  <2>. QED
    BY <2>1 DEF Reports
<1>. QED
  BY <1>1, <1>2

(* What the child relays of an attempt is true of it.                      *)
LEMMA OutcomeIsTruthful ==
    ASSUME Inv, NEW op \in Ops, pc[op] = "relay"
    PROVE  Contract!Truthful(Outcome(op))
<1>. DEFINE a == Current(op)
<1>1. a \in Attempts /\ a = <<op, ordinal[op]>> /\ ordinal[op] \in Ordinals
  BY CurrentIsAttempt DEF Inv, TypeOK, LaneTypeOK, Current
<1>2. resolution[op] \in Resolutions
  BY DEF Inv, TypeOK, LaneTypeOK, LaneInv
<1>3. CASE resolution[op] = "unknown"
  BY <1>3 DEF Outcome, RecoveryRelay, Contract!Truthful
<1>4. CASE resolution[op] = "preDispatch"
  BY <1>4 DEF Outcome, Observation, ShouldRetry, Contract!Truthful, Inv, LaneInv
<1>5. CASE resolution[op] \in Results
  <2>1. effect[a] = resolution[op] /\ winner[a] = "dispatch_won"
    <3>1. effect[a] = resolution[op]
      BY <1>5 DEF Inv, LaneInv
    <3>2. accepted[a] # 0 /\ accepted[a] \in Nat
      BY <1>1, <1>5, <3>1 DEF Inv, AttemptInv, Results, TypeOK, ProviderTypeOK
    <3>. QED
      BY <1>1, <3>1, <3>2 DEF Inv, AttemptInv
  <2>2. Outcome(op) = Observation(a, resolution[op], ShouldRetry(op))
    BY <1>5 DEF Outcome, Results
  <2>3. ShouldRetry(op) => resolution[op] = "retryable" /\ a[2] < MaxAttempts
    BY <1>1 DEF ShouldRetry
  <2>4. /\ Outcome(op).type = "observation" /\ Outcome(op).of = a
        /\ Outcome(op).result = resolution[op] /\ resolution[op] # "preDispatch"
        /\ Outcome(op).retrying = ShouldRetry(op)
    BY <1>5, <2>2 DEF Observation, Results
  <2>. QED
    BY <2>1, <2>3, <2>4, Zenon DEF Contract!Truthful
<1>. QED
  BY <1>2, <1>3, <1>4, <1>5 DEF Resolutions

(* Executing an attempt is its one start in the contract.                  *)
LEMMA ExecuteStarts ==
    ASSUME Inv, NEW op \in Ops, ExecuteAttempt(op)
    PROVE  ContractStep
<1>. USE DEF ExecuteAttempt, durableVars, ContractStep
<1>. DEFINE a == Current(op)
<1>1. /\ a \in Attempts /\ a = <<op, ordinal[op]>>
      /\ ordinal[op] \in Ordinals /\ ordinal[op] \in Nat
  BY CurrentIsAttempt, MaxAttemptsAssumption DEF Inv, TypeOK, LaneTypeOK, Current, Ordinals
<1>2. accepted[a] = 0 /\ effect[a] = "absent" /\ winner[a] = "dispatch_won"
  BY <1>1 DEF Inv, LaneInv, AttemptInv, At, MayExecute
<1>3. /\ accepted' = [accepted EXCEPT ![a] = 1]
      /\ effect' = [effect EXCEPT ![a] = "running"]
  BY <1>1, <1>2 DEF Accept, Inv, TypeOK, ProviderTypeOK
<1>4. a[2] > 1 => effect[Contract!Predecessor(a)] = "retryable"
  <2>. SUFFICES ASSUME ordinal[op] > 1 PROVE effect[<<op, ordinal[op] - 1>>] = "retryable"
    BY <1>1 DEF Contract!Predecessor
  <2>1. ordinal[op] - 1 \in Ordinals /\ ordinal[op] - 1 < ordinal[op]
    BY <1>1, MaxAttemptsAssumption DEF Ordinals
  <2>. QED
    BY <2>1 DEF Inv, AttemptInv
<1>5. Contract!Start(a)
  BY <1>1, <1>2, <1>3, <1>4 DEF Contract!Start, Reports
<1>. QED
  BY <1>1, <1>5 DEF Contract!Next, Contract!Attempts, Contract!Ordinals, Attempts, Ordinals

(* Every step of the lanes and of the world around them is a step of the   *)
(* contract or leaves all that the contract speaks of alone.               *)
LEMMA LanesStep ==
    ASSUME RefinementInv, [Next]_vars
    PROVE  ContractStep
<1>. USE DEF RefinementInv
<1>1. Inv /\ TypeOK /\ LaneTypeOK /\ DurableTypeOK
  BY DEF Inv, TypeOK
<1>2. ASSUME UNCHANGED <<posted, winner, providerVars>>
      PROVE  ContractStep
  BY <1>2 DEF ContractStep, Contract!contractVars, providerVars, Reports
<1>3. ASSUME NEW op \in Ops
      PROVE  /\ Current(op) \in Attempts /\ Current(op) = <<op, ordinal[op]>>
             /\ ordinal[op] \in Ordinals /\ ordinal[op] \in Nat /\ ordinal[op] > 0
  BY <1>1, CurrentIsAttempt, MaxAttemptsAssumption DEF LaneTypeOK, Current, Ordinals
<1>4. ASSUME NEW op \in Ops, LaneStep(op) PROVE ContractStep
  <2>1. CASE RelayOutcome(op)
    <3>1. Outcome(op) \in Messages /\ Contract!Truthful(Outcome(op))
      BY <1>1, <2>1, OutcomeType, OutcomeIsTruthful DEF RelayOutcome, At, Inv, LaneInv
    <3>2. Outcome(op).of = Current(op)
      BY DEF Outcome, Observation, RecoveryRelay
    <3>3. ordinal[op] > 1 => Observed(<<op, ordinal[op] - 1>>)
      BY DEF RelayInv
    <3>4. Outcome(op).of[2] > 1 => Observed(<<Outcome(op).of[1], Outcome(op).of[2] - 1>>)
      BY <1>3, <3>2, <3>3
    <3>. QED
      BY <1>1, <2>1, <3>1, <3>4, PostReports DEF RelayOutcome
  <2>2. CASE SendRetryStart(op)
    <3>. DEFINE m == RetryStart(<<op, ordinal[op] + 1>>)
    <3>1. effect[Current(op)] = "retryable" /\ ordinal[op] < MaxAttempts /\ Observed(Current(op))
      BY <2>2 DEF SendRetryStart, At, Inv, LaneInv, RelayInv
    <3>2. m \in Messages /\ m.type = "retryStart" /\ m.of = <<op, ordinal[op] + 1>>
      BY <1>3, <3>1, MaxAttemptsAssumption DEF RetryStart, Messages, ScriptReports,
         Attempts, Ordinals
    <3>3. <<m.of[1], m.of[2] - 1>> = Current(op) /\ m.of[2] > 1
      <4>1. m.of[1] = op /\ m.of[2] = ordinal[op] + 1
        BY <3>2
      <4>2. ordinal[op] \in Nat /\ Current(op) = <<op, ordinal[op]>>
        BY <1>3
      <4>3. m.of[2] - 1 = ordinal[op] /\ m.of[2] > 1
        BY <1>3, <4>1
      <4>. QED
        BY <4>1, <4>2, <4>3
    <3>4. Contract!Truthful(m)
      BY <3>1, <3>2, <3>3 DEF Contract!Truthful, Contract!Predecessor
    <3>. QED
      BY <1>1, <2>2, <3>1, <3>2, <3>3, <3>4, PostReports DEF SendRetryStart
  <2>3. CASE ArbitrateDispatch(op) \/ ArbitrationFails(op)
    <3>1. Arbitrate(Current(op), "dispatch_won") \/ UNCHANGED winner
      BY <2>3 DEF ArbitrateDispatch, ArbitrationFails
    <3>. QED
      BY <1>1, <1>2, <1>3, <2>3, <3>1, ArbitrateDecides DEF ArbitrateDispatch, ArbitrationFails
  <2>4. CASE ExecuteAttempt(op)
    BY <1>1, <2>4, ExecuteStarts
  <2>5. CASE \/ DispatchIntent(op) \/ ExecutionReturns(op) \/ ReconcileAttempt(op)
             \/ LaneFails(op) \/ NextAttempt(op)
    BY <1>2, <2>5 DEF DispatchIntent, ExecutionReturns, ReconcileAttempt, LaneFails,
       NextAttempt, durableVars
  <2>. QED
    BY <1>4, <2>1, <2>2, <2>3, <2>4, <2>5 DEF LaneStep
<1>5. ASSUME NEW op \in Ops, ScriptEmits(op) PROVE ContractStep
  <2>. DEFINE m == LiveEvent(Current(op))
  <2>1. m \in Messages /\ m.type = "live" /\ m.of = Current(op)
    BY <1>3 DEF LiveEvent, Messages, ScriptReports
  <2>2. Contract!Truthful(m)
    BY <1>5, <2>1 DEF ScriptEmits, Contract!Truthful
  <2>3. ordinal[op] > 1 => Observed(<<op, ordinal[op] - 1>>)
    BY DEF RelayInv
  <2>4. m.of[2] > 1 => Observed(<<m.of[1], m.of[2] - 1>>)
    BY <1>3, <2>1, <2>3
  <2>. QED
    BY <1>1, <1>5, <2>1, <2>2, <2>4, PostReports DEF ScriptEmits
<1>6. ASSUME NEW a \in Attempts, RootReports(a) PROVE ContractStep
  <2>1. PICK m \in Messages : Post(m) /\ m.of = a /\ Contract!Truthful(m)
    <3>1. CASE winner[a] = "cancel_won" /\ Post(Observation(a, "preDispatch", FALSE))
      <4>1. Observation(a, "preDispatch", FALSE) \in Messages
        BY DEF Observation, Messages, ScriptReports, Observations
      <4>. QED
        BY <3>1, <4>1 DEF Observation, Contract!Truthful
    <3>2. CASE /\ winner[a] = "dispatch_won" /\ effect[a] \in Results
               /\ Post(Observation(a, effect[a], FALSE))
      <4>1. Observation(a, effect[a], FALSE) \in Messages
        BY <3>2 DEF Observation, Messages, ScriptReports, Observations
      <4>. QED
        BY <3>2, <4>1 DEF Observation, Contract!Truthful, Results
    <3>. QED
      BY <1>6, <3>1, <3>2 DEF RootReports
  <2>2. a[2] > 1 => Observed(<<a[1], a[2] - 1>>)
    BY <1>6 DEF RootReports, KnownToRoot, Observed, Attempts, Ordinals
  <2>. QED
    BY <1>1, <1>6, <2>1, <2>2, PostReports DEF RootReports
<1>7. CASE OthersPost
  BY <1>1, <1>7, PostReports DEF OthersPost
<1>8. ASSUME NEW a \in Attempts, ScriptEnds(a) PROVE ContractStep
  <2>1. Contract!End(a)
    BY <1>8, EndingsAssumption
       DEF ScriptEnds, Seal, Contract!End, Contract!Results, Results, durableVars, Reports
  <2>. QED
    BY <2>1
       DEF ContractStep, Contract!Next, Contract!Attempts, Contract!Ordinals, Attempts, Ordinals
<1>9. ASSUME NEW a \in Attempts, RootClaimsCancel(a) PROVE ContractStep
  BY <1>1, <1>9, ArbitrateDecides DEF RootClaimsCancel
<1>10. ASSUME NEW op \in Ops, RootStartsChild(op) PROVE ContractStep
  BY <1>2, <1>10 DEF RootStartsChild
<1>11. CASE RootReceives \/ HostCrash \/ UNCHANGED vars
  BY <1>2, <1>11 DEF RootReceives, HostCrash, vars, durableVars
<1>. QED
  BY <1>4, <1>5, <1>6, <1>7, <1>8, <1>9, <1>10, <1>11 DEF Next

-----------------------------------------------------------------------------
(* The reports on an attempt follow an observation of the attempt before   *)
(* it, and a retry is announced only while the policy allows one.          *)
ReportsOrdered ==
    \A m \in Reports :
        /\ m.of[2] > 1 => \E p \in Reports : /\ p.type = "observation"
                                            /\ p.of = <<m.of[1], m.of[2] - 1>>
        /\ m.type = "observation" /\ m.retrying =>
              m.result = "retryable" /\ m.of[2] < MaxAttempts

(* All that the lanes keep true of themselves and of what they report.     *)
LanesInv == RefinementInv /\ ReportsOrdered

(* A step of the contract takes back neither a decision, a sealed result   *)
(* nor a report.                                                           *)
LEMMA ContractStands ==
    ASSUME TypeOK, ContractStep
    PROVE  DecisionsStand /\ ResultsStand /\ Reports \subseteq Reports'
  BY DEF ContractStep, Contract!Next, Contract!contractVars, Contract!Decide, Contract!Start,
         Contract!End, Contract!Report, Contract!Attempts, Contract!Ordinals, Attempts,
         Ordinals, DecisionsStand, ResultsStand, Results, TypeOK, DurableTypeOK,
         ProviderTypeOK

LEMMA ContractOrdersReports ==
    ASSUME TypeOK, ReportsOrdered, ContractStep
    PROVE  ReportsOrdered'
<1>1. CASE Reports' = Reports
  BY <1>1 DEF ReportsOrdered
<1>2. CASE Reports' # Reports
  <2>1. PICK m \in Contract!ScriptReports : Contract!Report(m)
    BY <1>2 DEF ContractStep, Contract!Next, Contract!contractVars, Contract!Decide,
         Contract!Start, Contract!End
  <2>2. Reports' = Reports \cup {m}
    BY <2>1 DEF Contract!Report
  <2>3. m.of[2] > 1 => \E p \in Reports : /\ p.type = "observation"
                                         /\ p.of = <<m.of[1], m.of[2] - 1>>
    BY <2>1 DEF Contract!Report, Contract!Predecessor
  <2>4. m.type = "observation" /\ m.retrying => m.result = "retryable" /\ m.of[2] < MaxAttempts
    BY <2>1 DEF Contract!Report, Contract!Truthful
  <2>. QED
    BY <2>2, <2>3, <2>4 DEF ReportsOrdered
<1>. QED
  BY <1>1, <1>2

LEMMA LanesInvInit == Init => LanesInv
  BY RefinementInit DEF Init, DurableInit, LanesInv, ReportsOrdered, Reports

LEMMA LanesInvStep == LanesInv /\ [Next]_vars => LanesInv'
<1>1. LanesInv => TypeOK
  BY DEF LanesInv, RefinementInv, Inv
<1>. QED
  BY <1>1, RefinementStep, LanesStep, ContractOrdersReports DEF LanesInv

-----------------------------------------------------------------------------
(* scriptOperation, cancelScriptOperation and the provider together keep   *)
(* the contract of a script attempt: decided once, started once at most    *)
(* and only after its predecessor failed retryably, reported truthfully,   *)
(* in order and once under each kind of receipt.                           *)
THEOREM LanesImplementTheContract == Spec => ImplementsContract
<1>1. RefinementInv /\ [Next]_vars => [Contract!Next]_(Contract!contractVars)
  BY LanesStep DEF ContractStep
<1>. QED
  BY <1>1, ContractInit, RefinementInit, RefinementStep, PTL
     DEF Spec, ImplementsContract, Contract!Spec

=============================================================================
