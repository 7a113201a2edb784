-------------------------- MODULE ScriptLaneProofs --------------------------
(***************************************************************************)
(* Safety of the attempt lanes for every set of operations, every number   *)
(* of attempts and every number of crashes.                                *)
(***************************************************************************)
EXTENDS ScriptLane, TLAPS

(* The state of attempt n of op: it was accepted at most once, only after  *)
(* its dispatch was decided, and the lane has not reached it or has left   *)
(* it behind as a retryable failure unless it is the current one.          *)
AttemptInv(op, n) ==
    LET a == <<op, n>>
    IN /\ accepted[a] <= 1
       /\ accepted[a] = 0 <=> effect[a] = "absent"
       /\ accepted[a] > 0 => winner[a] = "dispatch_won"
       /\ n > ordinal[op] => accepted[a] = 0
       /\ n < ordinal[op] => effect[a] = "retryable"

(* Where the lane of op may stand.  The third conjunct is the heart of it: *)
(* wherever the lane may still execute, nothing was accepted so far.       *)
LaneInv(op) ==
    /\ baseline[op] <= recoveries[op]
    /\ op \notin started => pc[op] = "intent"
    /\ /\ phase[op] # "reconcile"
       /\ pc[op] \in {"intent", "arbitrate"}
            \/ (pc[op] = "provider" /\ recoveries[op] = baseline[op])
       => accepted[Current(op)] = 0
    /\ pc[op] \in {"provider", "executing"} => winner[Current(op)] = "dispatch_won"
    /\ pc[op] \in {"relay", "retryStart", "backoff", "done"} => phase[op] = "initial"
    /\ pc[op] = "relay" =>
          /\ resolution[op] # "none"
          /\ resolution[op] \in Results => effect[Current(op)] = resolution[op]
          /\ resolution[op] = "preDispatch" => winner[Current(op)] = "cancel_won"
    /\ pc[op] \in {"retryStart", "backoff"} =>
          effect[Current(op)] = "retryable" /\ ordinal[op] < MaxAttempts

Inv ==
    /\ TypeOK
    /\ \A op \in Ops, n \in Ordinals : AttemptInv(op, n)
    /\ \A op \in Ops : LaneInv(op)
    /\ ObservationsAreTrue
    /\ OneReportPerReceipt

-----------------------------------------------------------------------------
(* What one insertion does to the inbox and to the notifications.          *)
LEMMA PostEffect ==
    ASSUME NEW m \in Messages, DurableTypeOK, Post(m)
    PROVE  /\ inbox' \in Seq(Messages)
           /\ posted' \subseteq Messages
           /\ posted \subseteq posted'
           /\ posted' \subseteq posted \cup {m}
  BY DEF Post, DurableTypeOK

(* A receipt identifies the kind and the attempt of a report.              *)
LEMMA ReceiptIdentifies ==
    ASSUME NEW m \in Messages \ {CancelRequest}, NEW p \in Messages \ {CancelRequest}
    PROVE  ReceiptOf(m) = ReceiptOf(p) <=> m.type = p.type /\ m.of = p.of
  BY DEF ReceiptOf, Messages, ScriptReports, AgentReports, Settlements, Observations,
     CancelRequest

(* Posting never gives an attempt a second report of the same kind.        *)
LEMMA PostKeepsReceiptsUnique ==
    ASSUME NEW m \in Messages, DurableTypeOK, OneReportPerReceipt, Post(m)
    PROVE  OneReportPerReceipt'
<1>1. CASE posted' = posted
  BY <1>1 DEF OneReportPerReceipt
<1>2. CASE posted' # posted
  <2>1. /\ posted' = posted \cup {m}
        /\ \A p \in posted : ReceiptOf(p) # ReceiptOf(m)
    BY <1>2 DEF Post
  <2>2. SUFFICES ASSUME NEW p \in posted' \ {CancelRequest}, NEW q \in posted' \ {CancelRequest},
                        p.type = q.type, p.of = q.of
                 PROVE  p = q
    BY DEF OneReportPerReceipt
  <2>3. p \in Messages \ {CancelRequest} /\ q \in Messages \ {CancelRequest}
    BY <2>1 DEF DurableTypeOK
  <2>4. ReceiptOf(p) = ReceiptOf(q)
    BY <2>2, <2>3, ReceiptIdentifies
  <2>5. CASE p \in posted /\ q \in posted
    BY <2>2, <2>5 DEF OneReportPerReceipt
  <2>6. CASE p = m \/ q = m
    BY <2>1, <2>4, <2>6
  <2>. QED
    BY <2>1, <2>5, <2>6
<1>. QED
  BY <1>1, <1>2

(* The attempt in progress is one of the policy.                           *)
LEMMA CurrentIsAttempt ==
    ASSUME LaneTypeOK, NEW op \in Ops
    PROVE  Current(op) \in Attempts
  BY DEF Current, Attempts, LaneTypeOK

(* A decision and a sealed result are never replaced.                      *)
DecisionsStand ==
    \A a \in Attempts : winner[a] # "none" => winner'[a] = winner[a]
ResultsStand ==
    \A a \in Attempts : effect[a] \in Results => effect'[a] = effect[a]

(* The arbitration record keeps the first candidate.                       *)
LEMMA ArbitrateEffect ==
    ASSUME NEW a \in Attempts, NEW c \in {"dispatch_won", "cancel_won"},
           DurableTypeOK, Arbitrate(a, c)
    PROVE  /\ winner' \in [Attempts -> Winners]
           /\ winner'[a] # "none"
           /\ \A b \in Attempts : b # a => winner'[b] = winner[b]
           /\ DecisionsStand
  BY DEF Arbitrate, Stored, DurableTypeOK, Winners, DecisionsStand

(* What was reported stays true while decisions and results stand.         *)
LEMMA ReportsStand ==
    ASSUME DurableTypeOK, ObservationsAreTrue, OneReportPerReceipt,
           DecisionsStand, ResultsStand, UNCHANGED posted
    PROVE  ObservationsAreTrue' /\ OneReportPerReceipt'
  BY DEF DurableTypeOK, ObservationsAreTrue, OneReportPerReceipt, DecisionsStand,
         ResultsStand, Messages, Observations, CancelRequest

(* Every answer takes the lane to one of two places.                       *)
LEMMA ResolveType ==
    ASSUME NEW op \in Ops, NEW answer \in Resolutions \cup {"notFound"},
           LaneTypeOK, Resolve(op, answer)
    PROVE  /\ pc' \in [Ops -> Locations]
           /\ phase' \in [Ops -> Phases]
           /\ resolution' \in [Ops -> Resolutions \cup {"none"}]
  BY DEF Resolve, LaneTypeOK, Goto, Locations, Phases, Resolutions, Results

(* The message that ends an attempt is a coordinator message.              *)
LEMMA OutcomeType ==
    ASSUME NEW op \in Ops, LaneTypeOK, resolution[op] # "none"
    PROVE  Outcome(op) \in Messages
  BY DEF Outcome, RecoveryRelay, Observation, Messages, ScriptReports, Observations,
     Current, Attempts, LaneTypeOK, Resolutions, ShouldRetry

(* A lane that does not move keeps its invariant while the rest of the     *)
(* system only adds decisions and results.                                 *)
Untouched(o) ==
    /\ pc'[o] = pc[o] /\ ordinal'[o] = ordinal[o] /\ phase'[o] = phase[o]
    /\ baseline'[o] = baseline[o] /\ recoveries'[o] = recoveries[o]
    /\ resolution'[o] = resolution[o]
    /\ accepted'[Current(o)] = accepted[Current(o)]

LEMMA LaneStands ==
    ASSUME NEW o \in Ops, LaneTypeOK, DurableTypeOK, LaneInv(o), Untouched(o),
           DecisionsStand, ResultsStand, started \subseteq started'
    PROVE  LaneInv(o)'
<1>1. Current(o) \in Attempts /\ Current(o)' = Current(o)
  BY CurrentIsAttempt DEF Current, Untouched
<1>. QED
  BY <1>1 DEF LaneInv, Untouched, DecisionsStand, ResultsStand, Results

(* Where an answer leads to while nothing else of the lane changes.        *)
LEMMA ResolveLane ==
    ASSUME NEW op \in Ops, NEW answer \in Resolutions \cup {"notFound"},
           LaneTypeOK, LaneInv(op), Resolve(op, answer), op \in started,
           answer = "notFound" => accepted[Current(op)] = 0,
           answer \in Results => effect[Current(op)] = answer,
           answer = "preDispatch" => winner'[Current(op)] = "cancel_won",
           UNCHANGED <<started, effect, accepted, ordinal, baseline, recoveries>>
    PROVE  LaneInv(op)'
<1>1. Current(op)' = Current(op)
  BY DEF Current
<1>. QED
  BY <1>1 DEF LaneInv, Resolve, Goto, LaneTypeOK, Phases, Resolutions, Results

(* Each of the four actions that resolve an answer preserves the invariant *)
(* if the answer is true.                                                  *)
LEMMA InvResolve ==
    ASSUME Inv, NEW op \in Ops, op \in started,
           NEW answer \in Resolutions \cup {"notFound"}, Resolve(op, answer),
           answer = "notFound" => accepted[Current(op)] = 0,
           answer \in Results => effect[Current(op)] = answer,
           answer = "preDispatch" => winner'[Current(op)] = "cancel_won",
           winner' \in [Attempts -> Winners], DecisionsStand,
           UNCHANGED <<started, inbox, posted, effect, accepted, ordinal,
                       baseline, recoveries, crashes>>
    PROVE  Inv'
<1>. USE DEF Inv
<1>1. TypeOK'
  BY ResolveType DEF TypeOK, DurableTypeOK, ProviderTypeOK, LaneTypeOK
<1>2. \A o \in Ops, n \in Ordinals : AttemptInv(o, n)'
  BY DEF AttemptInv, DecisionsStand, Attempts
<1>3. LaneInv(op)'
  BY ResolveLane DEF TypeOK
<1>4. \A o \in Ops \ {op} : LaneInv(o)'
  BY LaneStands DEF TypeOK, Untouched, ResultsStand, Resolve, Goto, LaneTypeOK
<1>5. ObservationsAreTrue' /\ OneReportPerReceipt'
  BY ReportsStand DEF TypeOK, ResultsStand
<1>. QED
  BY <1>1, <1>2, <1>3, <1>4, <1>5

(* A truthful message leaves everything but the notifications alone.       *)
LEMMA InvPost ==
    ASSUME Inv, NEW m \in Messages, Post(m),
           m \in Observations =>
               IF m.result = "preDispatch" THEN winner[m.of] = "cancel_won"
                                           ELSE effect[m.of] = m.result,
           UNCHANGED <<started, winner, effect, accepted, ordinal>>
    PROVE  /\ DurableTypeOK'
           /\ \A o \in Ops, n \in Ordinals : AttemptInv(o, n)'
           /\ ObservationsAreTrue'
           /\ OneReportPerReceipt'
<1>. USE DEF Inv
<1>1. DurableTypeOK'
  BY PostEffect DEF TypeOK, DurableTypeOK
<1>2. \A o \in Ops, n \in Ordinals : AttemptInv(o, n)'
  BY DEF AttemptInv
<1>3. ObservationsAreTrue'
  BY PostEffect DEF TypeOK, ObservationsAreTrue
<1>4. OneReportPerReceipt'
  BY PostKeepsReceiptsUnique DEF TypeOK
<1>. QED
  BY <1>1, <1>2, <1>3, <1>4

-----------------------------------------------------------------------------
(* The invariant holds initially ...                                       *)
LEMMA InvInit == Init => Inv
<1>. SUFFICES ASSUME Init PROVE Inv
  OBVIOUS
<1>. USE DEF Init, DurableInit, ProviderInit, LaneInit
<1>1. 1 \in Ordinals
  BY MaxAttemptsAssumption DEF Ordinals
<1>2. TypeOK
  BY <1>1, MaxCrashesAssumption
     DEF TypeOK, DurableTypeOK, ProviderTypeOK, LaneTypeOK, Winners, Locations, Phases
<1>3. \A op \in Ops, n \in Ordinals : AttemptInv(op, n)
  BY DEF AttemptInv, Attempts, Ordinals
<1>4. \A op \in Ops : LaneInv(op)
  <2>. SUFFICES ASSUME NEW op \in Ops PROVE LaneInv(op)
    OBVIOUS
  <2>1. Current(op) \in Attempts
    BY <1>1 DEF Current, Attempts
  <2>. QED
    BY <2>1 DEF LaneInv
<1>. QED
  BY <1>2, <1>3, <1>4 DEF Inv, ObservationsAreTrue, OneReportPerReceipt

(* ... and every step of a lane preserves it.                              *)
LEMMA InvDispatchIntent ==
    ASSUME Inv, NEW op \in Ops, DispatchIntent(op)
    PROVE  Inv'
<1>. USE DEF Inv, DispatchIntent, durableVars, providerVars
<1>1. TypeOK'
  BY DEF TypeOK, DurableTypeOK, ProviderTypeOK, LaneTypeOK, Goto, Locations
<1>2. \A o \in Ops, n \in Ordinals : AttemptInv(o, n)'
  BY DEF AttemptInv
<1>3. \A o \in Ops : LaneInv(o)'
  BY DEF LaneInv, Current, Goto, At, TypeOK, LaneTypeOK
<1>. QED
  BY <1>1, <1>2, <1>3 DEF ObservationsAreTrue, OneReportPerReceipt


LEMMA InvArbitrateDispatch ==
    ASSUME Inv, NEW op \in Ops, ArbitrateDispatch(op)
    PROVE  Inv'
<1>. USE DEF Inv, ArbitrateDispatch, providerVars
<1>. DEFINE a == Current(op)
<1>1. a \in Attempts /\ Arbitrate(a, "dispatch_won")
  BY CurrentIsAttempt DEF TypeOK
<1>2. DecisionsStand /\ winner' \in [Attempts -> Winners] /\ winner'[a] # "none"
  BY <1>1, ArbitrateEffect DEF TypeOK
<1>3. CASE winner'[a] = "cancel_won"
  BY <1>2, <1>3, InvResolve DEF At, Resolutions, Results
<1>4. CASE winner'[a] # "cancel_won"
  <2>1. TypeOK'
    BY <1>2, <1>4 DEF TypeOK, DurableTypeOK, ProviderTypeOK, LaneTypeOK, Goto, Locations
  <2>2. \A o \in Ops, n \in Ordinals : AttemptInv(o, n)'
    BY <1>2 DEF AttemptInv, DecisionsStand, Attempts
  <2>3. LaneInv(op)'
    <3>1. Current(op)' = a
      BY DEF Current
    <3>. QED
      BY <1>1, <1>2, <1>4, <3>1 DEF LaneInv, At, Goto, TypeOK, LaneTypeOK, Winners
  <2>4. \A o \in Ops \ {op} : LaneInv(o)'
    BY <1>2, <1>4, LaneStands DEF TypeOK, Untouched, ResultsStand, Goto, LaneTypeOK
  <2>5. ObservationsAreTrue' /\ OneReportPerReceipt'
    BY <1>2, ReportsStand DEF TypeOK, ResultsStand
  <2>. QED
    BY <2>1, <2>2, <2>3, <2>4, <2>5
<1>. QED
  BY <1>3, <1>4

LEMMA InvArbitrationFails ==
    ASSUME Inv, NEW op \in Ops, ArbitrationFails(op)
    PROVE  Inv'
<1>. USE DEF Inv, ArbitrationFails, providerVars
<1>1. DecisionsStand /\ winner' \in [Attempts -> Winners]
  BY CurrentIsAttempt, ArbitrateEffect DEF TypeOK, DurableTypeOK, DecisionsStand
<1>. QED
  BY <1>1, InvResolve DEF At, Resolutions, Results

LEMMA InvExecuteAttempt ==
    ASSUME Inv, NEW op \in Ops, ExecuteAttempt(op)
    PROVE  Inv'
<1>. USE DEF Inv, ExecuteAttempt, durableVars
<1>. DEFINE a == Current(op)
<1>1. a \in Attempts /\ a = <<op, ordinal[op]>> /\ ordinal[op] \in Ordinals
  BY CurrentIsAttempt DEF TypeOK, LaneTypeOK, Current
<1>2. accepted[a] = 0 /\ effect[a] = "absent" /\ winner[a] = "dispatch_won"
  BY <1>1 DEF LaneInv, AttemptInv, At, MayExecute
<1>3. /\ accepted' = [accepted EXCEPT ![a] = 1]
      /\ effect' = [effect EXCEPT ![a] = "running"]
  BY <1>1, <1>2 DEF Accept, TypeOK, ProviderTypeOK
<1>4. TypeOK'
  BY <1>3 DEF TypeOK, DurableTypeOK, ProviderTypeOK, LaneTypeOK, Goto, Locations
<1>5. ASSUME NEW o \in Ops, NEW n \in Ordinals PROVE AttemptInv(o, n)'
  <2>1. <<o, n>> \in Attempts /\ AttemptInv(o, n)
    BY DEF Attempts
  <2>2. CASE <<o, n>> = a
    BY <1>1, <1>2, <1>3, <2>1, <2>2, MaxAttemptsAssumption
       DEF AttemptInv, TypeOK, ProviderTypeOK, Ordinals
  <2>3. CASE <<o, n>> # a
    BY <1>3, <2>1, <2>3 DEF AttemptInv, TypeOK, ProviderTypeOK
  <2>. QED
    BY <2>2, <2>3
<1>6. ResultsStand /\ DecisionsStand
  BY <1>2, <1>3 DEF ResultsStand, DecisionsStand, TypeOK, ProviderTypeOK, Results
<1>7. LaneInv(op)'
  BY <1>1, <1>2, <1>3 DEF LaneInv, Goto, At, Current, TypeOK, LaneTypeOK
<1>8. \A o \in Ops \ {op} : LaneInv(o)'
  <2>1. \A o \in Ops \ {op} : Untouched(o)
    BY <1>1, <1>3, CurrentIsAttempt
       DEF Untouched, Goto, TypeOK, LaneTypeOK, ProviderTypeOK, Current
  <2>. QED
    BY <2>1, <1>6, LaneStands DEF TypeOK
<1>9. ObservationsAreTrue' /\ OneReportPerReceipt'
  BY <1>6, ReportsStand DEF TypeOK
<1>. QED
  BY <1>4, <1>5, <1>7, <1>8, <1>9

LEMMA InvExecutionReturns ==
    ASSUME Inv, NEW op \in Ops, ExecutionReturns(op)
    PROVE  Inv'
<1>. USE DEF Inv, ExecutionReturns, durableVars, providerVars
<1>1. DecisionsStand /\ winner' \in [Attempts -> Winners]
  BY DEF TypeOK, DurableTypeOK, DecisionsStand
<1>2. CASE Resolve(op, effect[Current(op)]) /\ effect[Current(op)] \in Results
  BY <1>1, <1>2, InvResolve DEF At, Resolutions, Results
<1>3. CASE Resolve(op, "unknown")
  BY <1>1, <1>3, InvResolve DEF At, Resolutions, Results
<1>. QED
  BY <1>2, <1>3

LEMMA InvReconcileAttempt ==
    ASSUME Inv, NEW op \in Ops, ReconcileAttempt(op)
    PROVE  Inv'
<1>. USE DEF Inv, ReconcileAttempt, durableVars, providerVars
<1>1. DecisionsStand /\ winner' \in [Attempts -> Winners]
  BY DEF TypeOK, DurableTypeOK, DecisionsStand
<1>2. PICK answer \in ReconcileAnswers(Current(op)) : Resolve(op, answer)
  OBVIOUS
<1>3. /\ answer \in Results \cup {"notFound", "unknown"}
      /\ answer \in Results => effect[Current(op)] = answer
      /\ answer = "notFound" => effect[Current(op)] = "absent"
  BY DEF ReconcileAnswers, Results
<1>4. answer = "notFound" => accepted[Current(op)] = 0
  BY <1>3 DEF AttemptInv, Current, TypeOK, LaneTypeOK
<1>. QED
  BY <1>1, <1>2, <1>3, <1>4, InvResolve DEF At, Resolutions, Results

LEMMA InvLaneFails ==
    ASSUME Inv, NEW op \in Ops, LaneFails(op)
    PROVE  Inv'
<1>. USE DEF Inv, LaneFails, durableVars, providerVars
<1>1. TypeOK'
  BY DEF TypeOK, DurableTypeOK, ProviderTypeOK, LaneTypeOK, Goto, Locations
<1>2. \A o \in Ops, n \in Ordinals : AttemptInv(o, n)'
  BY DEF AttemptInv
<1>3. \A o \in Ops : LaneInv(o)'
  BY DEF LaneInv, Current, Goto, At, TypeOK, LaneTypeOK
<1>. QED
  BY <1>1, <1>2, <1>3 DEF ObservationsAreTrue, OneReportPerReceipt

LEMMA InvScriptEmits ==
    ASSUME Inv, NEW op \in Ops, ScriptEmits(op)
    PROVE  Inv'
<1>. USE DEF Inv, ScriptEmits, providerVars, laneVars
<1>1. LiveEvent(Current(op)) \in Messages /\ LiveEvent(Current(op)) \notin Observations
  BY CurrentIsAttempt DEF LiveEvent, Messages, ScriptReports, Observations, TypeOK
<1>2. /\ DurableTypeOK' /\ ObservationsAreTrue' /\ OneReportPerReceipt'
      /\ \A o \in Ops, n \in Ordinals : AttemptInv(o, n)'
  BY <1>1, InvPost
<1>3. TypeOK'
  BY <1>2 DEF TypeOK, ProviderTypeOK, LaneTypeOK
<1>4. \A o \in Ops : LaneInv(o)'
  BY LaneStands DEF TypeOK, Untouched, DecisionsStand, ResultsStand
<1>. QED
  BY <1>2, <1>3, <1>4

LEMMA InvRelayOutcome ==
    ASSUME Inv, NEW op \in Ops, RelayOutcome(op)
    PROVE  Inv'
<1>. USE DEF Inv, RelayOutcome, providerVars
<1>1. Outcome(op) \in Messages
  BY OutcomeType DEF TypeOK, LaneInv, At
<1>2. Outcome(op) \in Observations =>
        IF Outcome(op).result = "preDispatch" THEN winner[Outcome(op).of] = "cancel_won"
                                              ELSE effect[Outcome(op).of] = Outcome(op).result
  BY DEF Outcome, Observation, RecoveryRelay, Observations, LaneInv, At, TypeOK,
     LaneTypeOK, Resolutions
<1>3. /\ DurableTypeOK' /\ ObservationsAreTrue' /\ OneReportPerReceipt'
      /\ \A o \in Ops, n \in Ordinals : AttemptInv(o, n)'
  BY <1>1, <1>2, InvPost
<1>4. TypeOK'
  BY <1>3 DEF TypeOK, ProviderTypeOK, LaneTypeOK, Goto, Locations
<1>5. LaneInv(op)'
  BY DEF LaneInv, Goto, At, Current, ShouldRetry, TypeOK, LaneTypeOK, Results
<1>6. \A o \in Ops \ {op} : LaneInv(o)'
  BY LaneStands
     DEF TypeOK, Untouched, DecisionsStand, ResultsStand, Goto, LaneTypeOK, Current
<1>. QED
  BY <1>3, <1>4, <1>5, <1>6

LEMMA InvSendRetryStart ==
    ASSUME Inv, NEW op \in Ops, SendRetryStart(op)
    PROVE  Inv'
<1>. USE DEF Inv, SendRetryStart, providerVars
<1>. DEFINE m == RetryStart(<<op, ordinal[op] + 1>>)
<1>1. m \in Messages /\ m \notin Observations
  BY MaxAttemptsAssumption DEF RetryStart, Messages, ScriptReports, Observations,
     Attempts, Ordinals, LaneInv, At, TypeOK, LaneTypeOK
<1>2. /\ DurableTypeOK' /\ ObservationsAreTrue' /\ OneReportPerReceipt'
      /\ \A o \in Ops, n \in Ordinals : AttemptInv(o, n)'
  BY <1>1, InvPost
<1>3. TypeOK'
  BY <1>2 DEF TypeOK, ProviderTypeOK, LaneTypeOK, Goto, Locations
<1>4. LaneInv(op)'
  BY DEF LaneInv, Goto, At, Current, TypeOK, LaneTypeOK
<1>5. \A o \in Ops \ {op} : LaneInv(o)'
  BY LaneStands
     DEF TypeOK, Untouched, DecisionsStand, ResultsStand, Goto, LaneTypeOK, Current
<1>. QED
  BY <1>2, <1>3, <1>4, <1>5

LEMMA InvNextAttempt ==
    ASSUME Inv, NEW op \in Ops, NextAttempt(op)
    PROVE  Inv'
<1>. USE DEF Inv, NextAttempt, durableVars, providerVars
<1>1. /\ ordinal[op] \in Nat /\ ordinal[op] + 1 \in Ordinals
      /\ ordinal' = [ordinal EXCEPT ![op] = ordinal[op] + 1]
      /\ effect[<<op, ordinal[op]>>] = "retryable"
  BY MaxAttemptsAssumption DEF LaneInv, At, Current, TypeOK, LaneTypeOK, Ordinals
<1>2. TypeOK'
  BY <1>1 DEF TypeOK, DurableTypeOK, ProviderTypeOK, LaneTypeOK, Goto, Locations
<1>3. ASSUME NEW o \in Ops, NEW n \in Ordinals PROVE AttemptInv(o, n)'
  <2>1. AttemptInv(o, n) /\ n \in Nat /\ ordinal[o] \in Nat
    BY MaxAttemptsAssumption DEF TypeOK, LaneTypeOK, Ordinals
  <2>2. CASE o = op
    <3>1. ordinal'[o] = ordinal[o] + 1
      BY <1>1, <2>2 DEF TypeOK, LaneTypeOK
    <3>2. n < ordinal'[o] => n < ordinal[o] \/ n = ordinal[o]
      BY <2>1, <3>1
    <3>3. n > ordinal'[o] => n > ordinal[o]
      BY <2>1, <3>1
    <3>. QED
      BY <1>1, <2>1, <2>2, <3>2, <3>3 DEF AttemptInv
  <2>3. CASE o # op
    BY <1>1, <2>1, <2>3 DEF AttemptInv, TypeOK, LaneTypeOK
  <2>. QED
    BY <2>2, <2>3
<1>4. LaneInv(op)'
  <2>1. Current(op)' = <<op, ordinal[op] + 1>>
    BY <1>1 DEF Current, TypeOK, LaneTypeOK
  <2>2. accepted[<<op, ordinal[op] + 1>>] = 0
    BY <1>1 DEF AttemptInv
  <2>. QED
    BY <2>1, <2>2 DEF LaneInv, Goto, At, TypeOK, LaneTypeOK
<1>5. \A o \in Ops \ {op} : LaneInv(o)'
  BY <1>1, LaneStands
     DEF TypeOK, Untouched, DecisionsStand, ResultsStand, Goto, LaneTypeOK
<1>6. ObservationsAreTrue' /\ OneReportPerReceipt'
  BY ReportsStand DEF TypeOK, DecisionsStand, ResultsStand
<1>. QED
  BY <1>2, <1>3, <1>4, <1>5, <1>6

(* A crash only turns executions in progress into ones to be reconciled.   *)
LEMMA InvHostCrash ==
    ASSUME Inv, HostCrash
    PROVE  Inv'
<1>. USE DEF Inv, HostCrash, durableVars, providerVars
<1>1. TypeOK'
  BY MaxCrashesAssumption
     DEF TypeOK, DurableTypeOK, ProviderTypeOK, LaneTypeOK, LanesRecover, Locations, Ended
<1>2. \A o \in Ops, n \in Ordinals : AttemptInv(o, n)'
  BY DEF AttemptInv
<1>3. ASSUME NEW o \in Ops PROVE LaneInv(o)'
  <2>1. /\ Current(o)' = Current(o)
        /\ pc'[o] = IF pc[o] = "executing" THEN "provider" ELSE pc[o]
        /\ recoveries'[o] = IF o \in started /\ pc[o] \notin Ended
                            THEN recoveries[o] + 1 ELSE recoveries[o]
        /\ recoveries[o] \in Nat /\ baseline[o] \in Nat
    BY DEF Current, LanesRecover, TypeOK, LaneTypeOK
  <2>2. LaneInv(o)
    OBVIOUS
  <2>. QED
    BY <2>1, <2>2 DEF LaneInv, Ended
<1>4. ObservationsAreTrue' /\ OneReportPerReceipt'
  BY ReportsStand DEF TypeOK, DecisionsStand, ResultsStand
<1>. QED
  BY <1>1, <1>2, <1>3, <1>4

-----------------------------------------------------------------------------
(* ... and so does every step of the world around the lanes.               *)
LEMMA InvScriptEnds ==
    ASSUME Inv, NEW a \in Attempts, ScriptEnds(a)
    PROVE  Inv'
<1>. USE DEF Inv, ScriptEnds, durableVars, laneVars
<1>1. PICK r \in Endings : Seal(a, r)
  OBVIOUS
<1>2. /\ effect[a] = "running" /\ r \in Results
      /\ effect' = [effect EXCEPT ![a] = r] /\ UNCHANGED accepted
  BY <1>1, EndingsAssumption DEF Seal
<1>3. TypeOK'
  BY <1>2 DEF TypeOK, DurableTypeOK, ProviderTypeOK, LaneTypeOK
<1>4. ASSUME NEW o \in Ops, NEW n \in Ordinals PROVE AttemptInv(o, n)'
  <2>1. <<o, n>> \in Attempts /\ AttemptInv(o, n)
    BY DEF Attempts
  <2>2. CASE <<o, n>> = a
    BY <1>2, <2>1, <2>2 DEF AttemptInv, TypeOK, ProviderTypeOK, Results
  <2>3. CASE <<o, n>> # a
    BY <1>2, <2>1, <2>3 DEF AttemptInv, TypeOK, ProviderTypeOK
  <2>. QED
    BY <2>2, <2>3
<1>5. DecisionsStand /\ ResultsStand
  BY <1>2 DEF DecisionsStand, ResultsStand, TypeOK, ProviderTypeOK, Results
<1>6. \A o \in Ops : LaneInv(o)'
  BY <1>2, <1>5, LaneStands DEF TypeOK, Untouched
<1>7. ObservationsAreTrue' /\ OneReportPerReceipt'
  BY <1>5, ReportsStand DEF TypeOK
<1>. QED
  BY <1>3, <1>4, <1>6, <1>7

LEMMA InvRootStartsChild ==
    ASSUME Inv, NEW op \in Ops, RootStartsChild(op)
    PROVE  Inv'
<1>. USE DEF Inv, RootStartsChild, providerVars, laneVars
<1>1. TypeOK'
  BY DEF TypeOK, DurableTypeOK, ProviderTypeOK, LaneTypeOK
<1>2. \A o \in Ops, n \in Ordinals : AttemptInv(o, n)'
  BY DEF AttemptInv
<1>3. \A o \in Ops : LaneInv(o)'
  BY LaneStands DEF TypeOK, Untouched, DecisionsStand, ResultsStand
<1>4. ObservationsAreTrue' /\ OneReportPerReceipt'
  BY ReportsStand DEF TypeOK, DecisionsStand, ResultsStand
<1>. QED
  BY <1>1, <1>2, <1>3, <1>4

LEMMA InvRootClaimsCancel ==
    ASSUME Inv, NEW a \in Attempts, RootClaimsCancel(a)
    PROVE  Inv'
<1>. USE DEF Inv, RootClaimsCancel, providerVars, laneVars
<1>1. DecisionsStand /\ winner' \in [Attempts -> Winners]
  BY ArbitrateEffect DEF TypeOK
<1>2. TypeOK'
  BY <1>1 DEF TypeOK, DurableTypeOK, ProviderTypeOK, LaneTypeOK
<1>3. \A o \in Ops, n \in Ordinals : AttemptInv(o, n)'
  BY <1>1 DEF AttemptInv, DecisionsStand, Attempts
<1>4. \A o \in Ops : LaneInv(o)'
  BY <1>1, LaneStands DEF TypeOK, Untouched, ResultsStand
<1>5. ObservationsAreTrue' /\ OneReportPerReceipt'
  BY <1>1, ReportsStand DEF TypeOK, ResultsStand
<1>. QED
  BY <1>2, <1>3, <1>4, <1>5

LEMMA InvRootReports ==
    ASSUME Inv, NEW a \in Attempts, RootReports(a)
    PROVE  Inv'
<1>. USE DEF Inv, RootReports, providerVars, laneVars
<1>1. PICK m \in Messages :
        /\ Post(m)
        /\ m \in Observations =>
             IF m.result = "preDispatch" THEN winner[m.of] = "cancel_won"
                                         ELSE effect[m.of] = m.result
  <2>1. CASE winner[a] = "cancel_won" /\ Post(Observation(a, "preDispatch", FALSE))
    <3>1. Observation(a, "preDispatch", FALSE) \in Messages
      BY DEF Observation, Messages, ScriptReports, Observations
    <3>. QED
      BY <2>1, <3>1 DEF Observation
  <2>2. CASE effect[a] \in Results /\ Post(Observation(a, effect[a], FALSE))
    <3>1. Observation(a, effect[a], FALSE) \in Messages
      BY <2>2 DEF Observation, Messages, ScriptReports, Observations
    <3>. QED
      BY <2>2, <3>1 DEF Observation, Results
  <2>. QED
    BY <2>1, <2>2
<1>2. /\ DurableTypeOK' /\ ObservationsAreTrue' /\ OneReportPerReceipt'
      /\ \A o \in Ops, n \in Ordinals : AttemptInv(o, n)'
  BY <1>1, InvPost
<1>3. TypeOK'
  BY <1>2 DEF TypeOK, ProviderTypeOK, LaneTypeOK
<1>4. \A o \in Ops : LaneInv(o)'
  BY LaneStands DEF TypeOK, Untouched, DecisionsStand, ResultsStand
<1>. QED
  BY <1>2, <1>3, <1>4

LEMMA InvRootReceives ==
    ASSUME Inv, RootReceives
    PROVE  Inv'
<1>. USE DEF Inv, RootReceives, providerVars, laneVars
<1>1. TypeOK'
  BY DEF TypeOK, DurableTypeOK, ProviderTypeOK, LaneTypeOK
<1>2. \A o \in Ops, n \in Ordinals : AttemptInv(o, n)'
  BY DEF AttemptInv
<1>3. \A o \in Ops : LaneInv(o)'
  BY LaneStands DEF TypeOK, Untouched, DecisionsStand, ResultsStand
<1>4. ObservationsAreTrue' /\ OneReportPerReceipt'
  BY ReportsStand DEF TypeOK, DecisionsStand, ResultsStand
<1>. QED
  BY <1>1, <1>2, <1>3, <1>4

LEMMA InvOthersPost ==
    ASSUME Inv, OthersPost
    PROVE  Inv'
<1>. USE DEF Inv, OthersPost, providerVars, laneVars
<1>1. PICK m \in Messages : Post(m) /\ m \notin Observations
  BY DEF ScriptReports
<1>2. /\ DurableTypeOK' /\ ObservationsAreTrue' /\ OneReportPerReceipt'
      /\ \A o \in Ops, n \in Ordinals : AttemptInv(o, n)'
  BY <1>1, InvPost
<1>3. TypeOK'
  BY <1>2 DEF TypeOK, ProviderTypeOK, LaneTypeOK
<1>4. \A o \in Ops : LaneInv(o)'
  BY LaneStands DEF TypeOK, Untouched, DecisionsStand, ResultsStand
<1>. QED
  BY <1>2, <1>3, <1>4

LEMMA InvStep == Inv /\ [Next]_vars => Inv'
<1>. SUFFICES ASSUME Inv, [Next]_vars PROVE Inv'
  OBVIOUS
<1>1. ASSUME NEW op \in Ops, LaneStep(op) PROVE Inv'
  BY <1>1, InvLaneFails, InvDispatchIntent, InvArbitrateDispatch, InvArbitrationFails,
     InvExecuteAttempt, InvExecutionReturns, InvReconcileAttempt,
     InvRelayOutcome, InvSendRetryStart, InvNextAttempt DEF LaneStep
<1>2. ASSUME NEW op \in Ops, ScriptEmits(op) \/ RootStartsChild(op) PROVE Inv'
  BY <1>2, InvScriptEmits, InvRootStartsChild
<1>3. ASSUME NEW a \in Attempts, ScriptEnds(a) \/ RootClaimsCancel(a) \/ RootReports(a)
      PROVE  Inv'
  BY <1>3, InvScriptEnds, InvRootClaimsCancel, InvRootReports
<1>4. CASE RootReceives \/ OthersPost \/ HostCrash
  BY <1>4, InvRootReceives, InvOthersPost, InvHostCrash
<1>5. CASE UNCHANGED vars
  BY <1>5
     DEF vars, durableVars, providerVars, laneVars, Inv, TypeOK, DurableTypeOK,
         ProviderTypeOK, LaneTypeOK, AttemptInv, LaneInv, Current,
         ObservationsAreTrue, OneReportPerReceipt
<1>. QED
  BY <1>1, <1>2, <1>3, <1>4, <1>5 DEF Next

-----------------------------------------------------------------------------
(* The inductive invariant of the lanes: operation-workflow.ts keeps the   *)
(* arbitration record, the physical executions and its own place in step.  *)
THEOREM LaneInvariant == Spec => []Inv
  BY InvInit, InvStep, PTL DEF Spec

(* Every variable keeps its type.                                          *)
THEOREM LaneTypeCorrect == Spec => []TypeOK
<1>1. Inv => TypeOK
  BY DEF Inv
<1>. QED
  BY <1>1, LaneInvariant, PTL

(* executeAttempt: no attempt is physically accepted twice, whatever       *)
(* crashes, recoveries and reconciliations happen around it.               *)
THEOREM LaneAtMostOneExecution == Spec => []AtMostOneExecution
<1>1. Inv => AtMostOneExecution
  BY DEF Inv, AttemptInv, AtMostOneExecution, Attempts
<1>. QED
  BY <1>1, LaneInvariant, PTL

(* arbitrateAttemptDispatch: an attempt whose cancellation won is never    *)
(* executed.                                                               *)
THEOREM LaneCancelledNeverExecutes == Spec => []CancelledNeverExecutes
<1>1. Inv => CancelledNeverExecutes
  BY DEF Inv, TypeOK, ProviderTypeOK, AttemptInv, CancelledNeverExecutes, Attempts
<1>. QED
  BY <1>1, LaneInvariant, PTL

(* scriptOperation: attempt n + 1 is executed only after attempt n failed  *)
(* retryably.                                                              *)
THEOREM LaneSerialAttempts == Spec => []SerialAttempts
<1>1. ASSUME Inv, NEW a \in Attempts, a[2] > 1, accepted[a] > 0
      PROVE  effect[<<a[1], a[2] - 1>>] = "retryable"
  <2>1. PICK op \in Ops, n \in Ordinals : a = <<op, n>>
    BY DEF Attempts
  <2>2. n \in Nat /\ n > 1 /\ n - 1 \in Ordinals /\ ordinal[op] \in Nat
    BY <1>1, <2>1, MaxAttemptsAssumption DEF Ordinals, Inv, TypeOK, LaneTypeOK
  <2>3. ~ (n > ordinal[op])
    BY <1>1, <2>1 DEF Inv, AttemptInv
  <2>4. n - 1 < ordinal[op]
    BY <2>2, <2>3
  <2>. QED
    BY <1>1, <2>1, <2>2, <2>4 DEF Inv, AttemptInv
<1>2. Inv => SerialAttempts
  BY <1>1 DEF SerialAttempts
<1>. QED
  BY <1>2, LaneInvariant, PTL

(* sendObservation and sendPreDispatchCancellation: the root is told only  *)
(* what happened.                                                          *)
THEOREM LaneObservationsAreTrue == Spec => []ObservationsAreTrue
<1>1. Inv => ObservationsAreTrue
  BY DEF Inv
<1>. QED
  BY <1>1, LaneInvariant, PTL

(* operationReceiptId: the root hears of an attempt once under one kind of *)
(* receipt, although child and root both report it.                        *)
THEOREM LaneOneReportPerReceipt == Spec => []OneReportPerReceipt
<1>1. Inv => OneReportPerReceipt
  BY DEF Inv
<1>. QED
  BY <1>1, LaneInvariant, PTL
=============================================================================
