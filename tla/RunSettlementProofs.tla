------------------------ MODULE RunSettlementProofs ------------------------
(***************************************************************************)
(* What is still to come in a run: nothing that the kernel waits for is    *)
(* lost, whatever is active has a word to come, and a run that ended has   *)
(* left nothing behind.  For every program, every number of attempts and   *)
(* every number of crashes.                                                *)
(***************************************************************************)
EXTENDS RunOutcomeProofs

DeferredOps == {deferred[i].of : i \in DOMAIN deferred}

(* The kernel waits for what is active and for what was settled but not    *)
(* told to it yet, and each of these is settled once.  It has nothing to   *)
(* wait for when it ends the run.                                          *)
KernelInv ==
    /\ kernel.mode = "ended" => kernel.pending = {}
    /\ active \subseteq kernel.pending
    /\ \A i \in DOMAIN deferred : deferred[i].of \in kernel.pending \ active
    /\ \A i, j \in DOMAIN deferred : deferred[i].of = deferred[j].of => i = j
    /\ \A i \in DOMAIN commands :
          commands[i].kind \in K!TerminalKinds => kernel.pending = {}

Covered(x) ==
    \/ Queued(x) \/ x \in active \/ x \in DeferredOps
    \/ \E a \in uncertain : a[1] = x

CoverInv == rootPc # "threw" => \A x \in kernel.pending : Covered(x)

-----------------------------------------------------------------------------
(* A child that returned has told the root its last word.                  *)
LastWord(x, m) == m \in AboutOperation /\ Concluding(m) /\ Subject(m) = x

LastWordsInv ==
    /\ \A op \in Ops : pc[op] = "done" => \E m \in posted : LastWord(op, m)
    /\ \A i \in Interactions : child[i] = "done" => \E m \in posted : LastWord(i, m)
    /\ \A g \in Agents : AgentAt(g, "done") => \E m \in posted : LastWord(g, m)

(* A lane reports on an attempt after it announced it, and announces it    *)
(* after the outcomes of all attempts before it were told.  A recovery is  *)
(* the last that a lane tells.                                             *)
ReportsInv ==
    /\ \A m \in posted \cap ScriptReports : \A n \in 1..(m.of[2] - 1) :
          LaneProofs!Observed(<<m.of[1], n>>)
    /\ \A op \in Ops :
          /\ ordinal[op] > 1 => RetryStart(Current(op)) \in posted
          /\ pc[op] = "backoff" => RetryStart(<<op, ordinal[op] + 1>>) \in posted
    /\ \A m \in posted \cap ScriptReports :
          /\ m.type \in {"live", "recovery"} /\ m.of[2] > 1 => RetryStart(m.of) \in posted
          /\ m.type = "recovery" => /\ m.of = Current(m.of[1])
                                    /\ pc[m.of[1]] \in {"relay", "done"}
                                    /\ resolution[m.of[1]] = "unknown"

(* The order of what is told of one script.                                *)
Precedes(m, n) ==
    /\ m \in ScriptReports /\ n \in ScriptReports /\ m.of[1] = n.of[1]
    /\ \/ m.type = "observation" /\ m.of[2] < n.of[2]
       \/ m.type = "retryStart" /\ n.type \in {"live", "recovery"} /\ m.of = n.of
       \/ m.type = "live" /\ n.type \in {"observation", "recovery"} /\ m.of = n.of

(* It is the order of the inbox and of the receipts.                       *)
OrderInv ==
    /\ \A i, j \in DOMAIN inbox : Precedes(inbox[i], inbox[j]) => i < j
    /\ \A p, q \in posted :
          Precedes(q, p) /\ ReceiptOf(p) \in receipts => ReceiptOf(q) \in receipts
    /\ \A p \in posted \ InboxSet :
          p # CancelRequest /\ rootPc # "threw" => ReceiptOf(p) \in receipts

-----------------------------------------------------------------------------
Received(a) == <<"observation", a>> \in receipts
InDoubt(a) == <<"recovery", a>> \in receipts
Begun(a) == IF a[2] = 1 THEN a[1] \in started ELSE <<"retryStart", a>> \in receipts

(* The journal lists a as not settled.                                     *)
Open(a) == attempt[a] \in {"pending", "running", "unknown"}

(* What is open has not been heard of.  It is active until its outcome is  *)
(* in doubt; the kernel waits for an operation in doubt and is told        *)
(* nothing of it.                                                          *)
OpenInv(a) ==
    /\ Received(a) => attempt[a] \in K!Outcomes
    /\ attempt[a] \in {"pending", "running"} => a[1] \in active
    /\ attempt[a] = "unknown" => a[1] \in kernel.pending \ DeferredOps

(* An open attempt of a script is the latest of its operation, and one     *)
(* that has begun is running until the root hears of its outcome or        *)
(* recovers its cancellation.                                              *)
SerialInv(a) ==
    /\ Open(a) => \A n \in 1..(a[2] - 1) : Received(<<a[1], n>>)
    /\ attempt[a] = "unknown" => a[1] \in recoveryOps \/ InDoubt(a)
    /\ Begun(a) /\ ~ Received(a) /\ ~ InDoubt(a) =>
          \/ a[1] \in active /\ attempt[a] = "running"
          \/ a[1] \in recoveryOps

AttemptsInv ==
    /\ \A a \in HostedAttempts : OpenInv(a)
    /\ \A a \in Attempts : SerialInv(a)
    /\ \A g \in Agents : ~ AgentAt(g, "unstarted") => attempt[<<g, 1>>] # "none"

(* A wait or gate published as pending is active, but for the moment in    *)
(* which its child is started.  A run that ended has settled everything.   *)
PendingHeld(i) ==
    \/ i \in active
    \/ /\ rootPc = "loop" /\ child[i] = "opened"
       /\ commands # << >> /\ Head(commands) = K!Dispatch(i)

EndInv ==
    /\ \A i \in Interactions : journal[i] = "pending" /\ rootPc # "threw" => PendingHeld(i)
    /\ status \in TerminalStatuses =>
          /\ rootPc = "returned"
          /\ \A a \in HostedAttempts : ~ Open(a)
          /\ \A i \in Interactions : journal[i] # "pending"

SettlementInv ==
    KernelInv /\ CoverInv /\ LastWordsInv /\ ReportsInv /\ OrderInv /\ AttemptsInv /\ EndInv

-----------------------------------------------------------------------------
(* After a send there is a message of its kind about the same attempt or   *)
(* operation.                                                              *)
LEMMA SentOnce ==
    ASSUME posted \subseteq Messages, NEW m \in Messages \ {CancelRequest}, Post(m)
    PROVE  /\ posted \subseteq posted'
           /\ \E p \in posted' : /\ p \in Messages /\ p.type = m.type /\ p.of = m.of
                                 /\ p = m \/ p \in posted
<1>1. m.type # "cancel"
  BY Kinds
<1>2. CASE m \in posted'
  BY <1>2 DEF Post
<1>3. CASE m \notin posted'
  <2>1. PICK p \in posted : ReceiptOf(p) = ReceiptOf(m)
    BY <1>3 DEF Post
  <2>2. p.type = m.type /\ p.of = m.of
    BY <1>1, <2>1 DEF ReceiptOf
  <2>. QED
    BY <1>3, <2>1, <2>2 DEF Post
<1>. QED
  BY <1>2, <1>3

(* Nothing that was posted is withdrawn.                                   *)
LEMMA PostedStays ==
    ASSUME HostInv, [Next]_vars
    PROVE  posted \subseteq posted'
  BY MessagesMove DEF Takes, Sends, Post

(* A lane returns only after it told its last word: an attempt that failed *)
(* retryably is not taken for the last one while the policy allows a next. *)
LEMMA LaneReturns ==
    ASSUME HostInv, NEW op \in Ops, RelayOutcome(op), pc'[op] = "done"
    PROVE  \E m \in posted' : LastWord(op, m)
<1>. DEFINE m == Outcome(op)
            a == Current(op)
<1>1. LaneTypeOK /\ posted \subseteq Messages
  BY HostTypes DEF HostInv, DurableTypeOK
<1>2. pc[op] = "relay" /\ Post(m)
  BY DEF RelayOutcome, At
<1>3. a \in Attempts /\ a = <<op, ordinal[op]>> /\ ordinal[op] \in Ordinals
  BY <1>1 DEF LaneTypeOK, Current, Attempts
<1>4. ~ ShouldRetry(op)
  BY <1>1, <1>2 DEF RelayOutcome, Goto, LaneTypeOK
<1>5. /\ LaneProofs!LaneInv(op) /\ LaneProofs!AttemptInv(op, ordinal[op])
      /\ LaneProofs!ObservationsAreTrue /\ LaneProofs!ReportsOrdered
  BY <1>3 DEF HostInv, LaneProofs!LanesInv, LaneProofs!RefinementInv, LaneProofs!Inv,
     Ordinals, LaneProofs!Ordinals
<1>6. /\ resolution[op] \in Results \cup {"preDispatch", "unknown"}
      /\ resolution[op] \in Results => effect[a] = resolution[op]
      /\ resolution[op] = "preDispatch" => effect[a] = "absent"
  <2>1. /\ resolution[op] # "none" /\ winner[a] \in Winners /\ accepted[a] \in Nat
        /\ resolution[op] \in Results => effect[a] = resolution[op]
        /\ resolution[op] = "preDispatch" => winner[a] = "cancel_won"
    BY <1>2, <1>3, <1>5, HostTypes, SameNames DEF LaneProofs!LaneInv, LaneProofs!Current,
       Current, HostInv, DurableTypeOK, ProviderTypeOK
  <2>2. winner[a] = "cancel_won" => effect[a] = "absent"
    BY <1>3, <1>5, <2>1 DEF LaneProofs!AttemptInv
  <2>. QED
    BY <1>1, <2>1, <2>2 DEF LaneTypeOK, Resolutions
<1>7. /\ m \in ScriptReports /\ m # CancelRequest /\ m \in Messages /\ m.of = a
      /\ m.type \in {"observation", "recovery"}
      /\ m.type = "observation" => resolution[op] # "unknown" /\ ~ m.retrying
  <2>1. CASE resolution[op] = "unknown"
    <3>1. m = [type |-> "recovery", of |-> a]
      BY <2>1 DEF Outcome, RecoveryRelay
    <3>2. m \in [type : {"recovery", "retryStart", "live"}, of : Attempts]
      BY <1>3, <3>1
    <3>. QED
      BY <3>1, <3>2 DEF ScriptReports, Messages, CancelRequest
  <2>2. CASE resolution[op] \in Results \cup {"preDispatch"}
    <3>1. resolution[op] # "unknown" /\ (ShouldRetry(op) <=> FALSE)
      BY <1>4, <2>2 DEF Results
    <3>2. m = [type |-> "observation", of |-> a, result |-> resolution[op], retrying |-> FALSE]
      BY <3>1 DEF Outcome, Observation, ShouldRetry
    <3>3. m \in Observations
      BY <1>3, <2>2, <3>2 DEF Observations
    <3>. QED
      BY <3>1, <3>2, <3>3 DEF ScriptReports, Messages, CancelRequest
  <2>. QED
    BY <1>6, <2>1, <2>2
<1>8. PICK p \in posted' : /\ p \in Messages /\ p.type = m.type /\ p.of = a
                           /\ p = m \/ p \in posted
  BY <1>1, <1>2, <1>7, SentOnce
<1>9. p \in ScriptReports /\ p \in AboutOperation /\ Subject(p) = op
  <2>1. p \in ScriptReports \cup AgentReports
    BY <1>7, <1>8, Kinds
  <2>2. p \notin AgentReports
    BY <1>3, <1>8, Kinds, KindsAssumption DEF Attempts
  <2>. QED
    BY <1>3, <1>7, <1>8, <2>1, <2>2 DEF AboutOperation, Subject, CancelRequest
<1>10. Concluding(p)
  <2>1. CASE p.type = "recovery"
    BY <2>1 DEF Concluding
  <2>2. CASE p = m
    BY <1>7, <2>2 DEF Concluding
  <2>3. CASE p \in posted /\ p.type = "observation" /\ p.retrying
    <3>1. p \in LaneProofs!Reports /\ p \in Observations
      BY <1>8, <1>9, <2>3, SameNames, Kinds DEF LaneProofs!Reports
    <3>2. p.result = "retryable" /\ a[2] < MaxAttempts
      BY <1>5, <1>8, <2>3, <3>1 DEF LaneProofs!ReportsOrdered
    <3>3. effect[a] = "retryable"
      BY <1>5, <1>8, <2>3, <3>1, <3>2, SameNames DEF LaneProofs!ObservationsAreTrue
    <3>4. resolution[op] = "retryable"
      BY <1>6, <1>7, <1>8, <2>3, <3>3 DEF Results
    <3>. QED
      BY <1>3, <1>4, <3>2, <3>4 DEF ShouldRetry
  <2>. QED
    BY <1>7, <1>8, <2>1, <2>2, <2>3 DEF Concluding
<1>. QED
  BY <1>8, <1>9, <1>10 DEF LastWord

(* So does the child of a wait or gate, and that of an agent.              *)
LEMMA OthersReturn ==
    ASSUME HostInv
    PROVE  /\ \A i \in Interactions : RelaySettlement(i) => \E m \in posted' : LastWord(i, m)
           /\ \A g \in Agents : RelayAgent(g) => \E m \in posted' : LastWord(g, m)
<1>1. posted \subseteq Messages /\ InteractionTypeOK /\ AgentTypeOK
  BY HostTypes DEF HostInv, DurableTypeOK
<1>2. ASSUME NEW i \in Interactions, RelaySettlement(i) PROVE \E m \in posted' : LastWord(i, m)
  <2>1. heard[i] \in Heard
    BY <1>1, <1>2 DEF RelaySettlement, HostInv, TellersInv, InteractionTypeOK
  <2>2. Settlement(i, heard[i]) \in Messages \ {CancelRequest} /\ Post(Settlement(i, heard[i]))
    BY <1>2, <2>1, OtherKinds DEF RelaySettlement, Settlement, CancelRequest
  <2>3. PICK p \in posted' : p \in Messages /\ p.type = "interaction" /\ p.of = i
    BY <1>1, <2>2, SentOnce DEF Settlement
  <2>. QED
    BY <2>3 DEF LastWord, AboutOperation, CancelRequest, Concluding, Subject
<1>3. ASSUME NEW g \in Agents, RelayAgent(g) PROVE \E m \in posted' : LastWord(g, m)
  <2>. DEFINE m == AgentOutcome(g)
  <2>1. agentLane[g].resolution \in AgentResults \cup {"recovery"}
    BY <1>1, <1>3 DEF RelayAgent, HostInv, TellersInv, AgentTypeOK
  <2>2. /\ m \in Messages \ {CancelRequest} /\ Post(m)
        /\ m.type \in {"observation", "recovery"} /\ m.of = <<g, 1>>
    BY <1>3, <2>1, OtherKinds DEF RelayAgent, AgentOutcome, Observation, RecoveryRelay,
       CancelRequest
  <2>3. PICK p \in posted' : /\ p \in Messages /\ p.of = <<g, 1>>
                             /\ p.type \in {"observation", "recovery"}
    BY <1>1, <2>2, SentOnce
  <2>4. p \in AgentReports
    BY <2>3, Kinds, KindsAssumption DEF Attempts
  <2>5. p.type = "observation" => ~ p.retrying
    BY <2>4 DEF AgentReports
  <2>. QED
    BY <2>3, <2>5 DEF LastWord, AboutOperation, CancelRequest, Concluding, Subject
<1>. QED
  BY <1>2, <1>3

(* A child returns by relaying its last word.                              *)
LEMMA ChildrenReturn ==
    ASSUME HostInv, [Next]_vars
    PROVE  /\ \A op \in Ops : pc'[op] = "done" /\ pc[op] # "done" => RelayOutcome(op)
           /\ \A i \in Interactions :
                 child'[i] = "done" /\ child[i] # "done" => RelaySettlement(i)
           /\ \A g \in Agents : AgentAt(g, "done")' /\ ~ AgentAt(g, "done") => RelayAgent(g)
<1>1. LaneTypeOK /\ InteractionTypeOK /\ AgentTypeOK
  BY HostTypes DEF HostInv
<1>2. ASSUME NEW op \in Ops, pc'[op] = "done", pc[op] # "done" PROVE RelayOutcome(op)
  <2>1. CASE UNCHANGED pc
    BY <1>2, <2>1
  <2>2. CASE HostCrash
    BY <1>1, <1>2, <2>2 DEF HostCrash, LanesRecover
  <2>3. ASSUME NEW o \in Ops, LaneStep(o) PROVE RelayOutcome(op)
    <3>1. CASE RelayOutcome(o)
      BY <1>1, <1>2, <3>1 DEF RelayOutcome, Goto, LaneTypeOK
    <3>2. CASE ~ RelayOutcome(o)
      <4>1. pc'[op] # "done"
        BY <1>1, <1>2, <2>3, <3>2 DEF LaneStep, DispatchIntent, ArbitrateDispatch,
           ArbitrationFails, ExecuteAttempt, ExecutionReturns, ReconcileAttempt, LaneFails,
           SendRetryStart, NextAttempt, Resolve, Goto, LaneTypeOK
      <4>. QED
        BY <1>2, <4>1
    <3>. QED
      BY <3>1, <3>2
  <2>. QED
    BY <2>1, <2>2, <2>3 DEF Next, Child, Emits, ScriptEmits, InteractionChild, AgentChild,
       AgentProcess, Root, ScriptEnds, CallChecks, CallSends, CallFails, CancelRunChecks,
       CancelRunSends, Crash, vars, laneVars
<1>3. ASSUME NEW i \in Interactions, child'[i] = "done", child[i] # "done"
      PROVE  RelaySettlement(i)
  <2>1. CASE UNCHANGED child
    BY <1>3, <2>1
  <2>2. CASE OpenInteraction \/ StartInteraction
    BY <1>1, <1>3, <2>2 DEF OpenInteraction, StartInteraction, InteractionTypeOK
  <2>3. ASSUME NEW j \in Interactions, InteractionStep(j) PROVE RelaySettlement(i)
    BY <1>1, <1>3, <2>3 DEF InteractionStep, ReceivesInteraction, TimerExpires, WindowExpires,
       Hears, RelaySettlement, InteractionTypeOK
  <2>4. CASE Root /\ ~ OpenInteraction /\ ~ StartInteraction
    BY <1>3, <2>1, <2>4 DEF Root, RootStep, ScriptRootStep, InteractionRootStep, AgentRootStep,
       HandleInteraction, CancelInteraction, DispatchAgent, AskAgent, interactionVars
  <2>. QED
    BY <2>1, <2>2, <2>3, <2>4 DEF Next, Child, Emits, InteractionChild, AgentChild,
       AgentProcess, ScriptEnds, CallChecks, CallSends, CallFails, CancelRunChecks,
       CancelRunSends, Crash, vars, peerVars, interactionVars
<1>4. ASSUME NEW g \in Agents, AgentAt(g, "done")', ~ AgentAt(g, "done") PROVE RelayAgent(g)
  <2>1. CASE UNCHANGED agentLane
    BY <1>4, <2>1 DEF AgentAt
  <2>2. CASE DispatchAgent
    <3>1. PICK h \in Agents : AgentGoto(h, "intent")
      BY <2>2 DEF DispatchAgent
    <3>. QED
      BY <1>1, <1>4, <3>1, AgentGoesOn DEF AgentAt
  <2>3. ASSUME NEW h \in Agents, AskAgent(h) PROVE RelayAgent(g)
    BY <1>1, <1>4, <2>3 DEF AskAgent, AgentTypeOK, AgentAt
  <2>4. CASE Crash
    <3>. DEFINE lane == agentLane[g]
                counted == [lane EXCEPT !.recoveries = @ + 1]
    <3>1. lane \in AgentLanes
      BY <1>1 DEF AgentTypeOK, AgentLanes
    <3>2. counted \in AgentLanes /\ counted.pc = lane.pc
      <4>1. lane.recoveries + 1 \in Nat
        BY <3>1, AgentLaneChanges
      <4>2. counted = [lane EXCEPT !.recoveries = lane.recoveries + 1]
        BY <3>1 DEF AgentLanes
      <4>3. [lane EXCEPT !.recoveries = lane.recoveries + 1] \in AgentLanes
        BY <3>1, <4>1, AgentLaneChanges
      <4>4. counted.pc = lane.pc
        BY <3>1 DEF AgentLanes
      <4>. QED
        BY <4>2, <4>3, <4>4
    <3>3. \/ agentLane'[g] = lane
          \/ agentLane'[g] = [counted EXCEPT !.pc = IF lane.pc = "starting" THEN "dispatch"
                                                    ELSE lane.pc]
      <4>1. agentLane'[g] = IF lane.pc \in {"unstarted", "done", "failed"} THEN lane
                            ELSE [lane EXCEPT
                                    !.recoveries = @ + 1,
                                    !.pc = IF @ = "starting" THEN "dispatch" ELSE @]
        BY <2>4, Zenon DEF Crash, AgentsRecover
      <4>2. [lane EXCEPT !.recoveries = @ + 1,
                         !.pc = IF @ = "starting" THEN "dispatch" ELSE @]
            = [counted EXCEPT !.pc = IF lane.pc = "starting" THEN "dispatch" ELSE lane.pc]
        BY <3>1, <3>2 DEF AgentLanes
      <4>. QED
        BY <4>1, <4>2
    <3>4. agentLane'[g].pc \in {lane.pc, "dispatch"}
      BY <3>2, <3>3 DEF AgentLanes
    <3>. QED
      BY <1>4, <3>4 DEF AgentAt
  <2>5. ASSUME NEW h \in Agents, AgentStep(h) PROVE RelayAgent(g)
    <3>1. CASE RelayAgent(h)
      <4>1. AgentGoto(h, "done") \/ UNCHANGED agentLane
        BY <3>1 DEF RelayAgent
      <4>2. h = g
        BY <1>1, <1>4, <2>1, <4>1, AgentGoesOn DEF AgentAt
      <4>. QED
        BY <3>1, <4>2
    <3>2. CASE StartReturns(h) \/ ReconcileAgent(h) \/ LookupAgent(h) \/ CancelAgent(h)
      <4>1. PICK answer \in {"running", "recovery"} \cup AgentResults : AgentResolves(h, answer)
        BY <1>1, <3>2, AgentAnswers DEF StartReturns, ReconcileAgent, LookupAgent, CancelAgent
      <4>. QED
        BY <1>1, <1>4, <4>1, AgentResolvesTo DEF AgentAt
    <3>3. CASE StartAgent(h) \/ ReceiveTimesOut(h) \/ AgentFails(h)
      <4>1. PICK w \in {"starting", "lookup", "failed"} : AgentGoto(h, w)
        BY <3>3 DEF StartAgent, ReceiveTimesOut, AgentFails
      <4>. QED
        BY <1>1, <1>4, <4>1, AgentGoesOn DEF AgentAt
    <3>4. CASE AgentDispatchIntent(h) \/ ReceiveCancel(h)
      BY <1>1, <1>4, <3>4 DEF AgentDispatchIntent, ReceiveCancel, AgentTypeOK, AgentAt
    <3>. QED
      BY <2>5, <3>1, <3>2, <3>3, <3>4 DEF AgentStep
  <2>6. CASE Root /\ ~ DispatchAgent /\ ~ (\E h \in Agents : AskAgent(h))
    BY <2>1, <2>6 DEF Root, RootStep, AgentRootStep, agentVars
  <2>. QED
    BY <2>1, <2>2, <2>3, <2>4, <2>5, <2>6 DEF Next, Child, Emits, InteractionChild, AgentChild,
       AgentProcess, AgentEnds, ScriptEnds, CallChecks, CallSends, CallFails, CancelRunChecks,
       CancelRunSends, vars, peerVars, agentVars
<1>. QED
  BY <1>2, <1>3, <1>4

LEMMA LastWordsStep ==
    ASSUME HostInv, LastWordsInv, [Next]_vars
    PROVE  LastWordsInv'
<1>1. posted \subseteq posted'
  BY PostedStays
<1>2. ASSUME NEW op \in Ops, pc'[op] = "done" PROVE \E m \in posted' : LastWord(op, m)
  <2>1. CASE pc[op] = "done"
    BY <1>1, <2>1 DEF LastWordsInv
  <2>2. CASE pc[op] # "done"
    BY <1>2, <2>2, ChildrenReturn, LaneReturns
  <2>. QED
    BY <2>1, <2>2
<1>3. ASSUME NEW i \in Interactions, child'[i] = "done" PROVE \E m \in posted' : LastWord(i, m)
  <2>1. CASE child[i] = "done"
    BY <1>1, <2>1 DEF LastWordsInv
  <2>2. CASE child[i] # "done"
    BY <1>3, <2>2, ChildrenReturn, OthersReturn
  <2>. QED
    BY <2>1, <2>2
<1>4. ASSUME NEW g \in Agents, AgentAt(g, "done")' PROVE \E m \in posted' : LastWord(g, m)
  <2>1. CASE AgentAt(g, "done")
    BY <1>1, <2>1 DEF LastWordsInv
  <2>2. CASE ~ AgentAt(g, "done")
    BY <1>4, <2>2, ChildrenReturn, OthersReturn
  <2>. QED
    BY <2>1, <2>2
<1>. QED
  BY <1>2, <1>3, <1>4 DEF LastWordsInv, AgentAt

LEMMA LastWordsInvariant == Spec => []LastWordsInv
<1>1. Init => LastWordsInv
  BY DEF Init, LaneInit, InteractionInit, AgentInit, LastWordsInv, AgentAt
<1>. QED
  BY <1>1, LastWordsStep, HostInvariant, PTL DEF Spec

(* The root never waits for an operation that has nothing more to say:     *)
(* what is active has a child that still runs or threw, or its last word   *)
(* is still in the inbox.                                                  *)
THEOREM ActivesAreAnswered == Spec => []ActiveIsAnswered
<1>1. HostInv /\ LastWordsInv => ActiveIsAnswered
  <2>. SUFFICES ASSUME HostInv, LastWordsInv, rootPc # "threw", NEW op \in active
                PROVE  \/ CASE op \in Ops -> pc[op] # "done"
                            [] op \in Interactions -> child[op] # "done"
                            [] op \in Agents -> agentLane[op].pc # "done"
                       \/ \E m \in K!SetOf(inbox) :
                             \/ m.type \in {"observation", "recovery"} /\ m.of[1] = op
                             \/ m.type = "interaction" /\ m.of = op
    BY DEF ActiveIsAnswered
  <2>1. op \in Ops \/ op \in Interactions \/ op \in Agents
    BY HostTypes DEF HostInv, RootTypeOK, Hosted
  <2>2. ASSUME NEW m \in posted, LastWord(op, m)
        PROVE  /\ m \in K!SetOf(inbox)
               /\ \/ m.type \in {"observation", "recovery"} /\ m.of[1] = op
                  \/ m.type = "interaction" /\ m.of = op
    <3>1. m \in InboxSet
      BY <2>2 DEF HostInv, SubjectInv, LastWord
    <3>2. m \in Messages /\ m.type \in {"observation", "recovery", "interaction"}
      BY <2>2 DEF LastWord, Concluding, AboutOperation
    <3>. QED
      BY <2>2, <3>1, <3>2 DEF InboxSet, K!SetOf, LastWord, Subject
  <2>3. \/ op \in Ops /\ pc[op] = "done"
        \/ op \in Interactions /\ child[op] = "done"
        \/ op \in Agents /\ agentLane[op].pc = "done"
        => \E m \in posted : LastWord(op, m)
    BY DEF LastWordsInv, AgentAt
  <2>. QED
    BY <2>1, <2>2, <2>3, KindsAssumption
<1>. QED
  BY <1>1, LastWordsInvariant, HostInvariant, PTL

-----------------------------------------------------------------------------
(* Only what is active is settled, and it is not active any more.          *)
Settles(e) ==
    /\ e \in K!Settlements /\ e.of \in active /\ active' = active \ {e.of}
    /\ deferred' = Append(deferred, e) /\ UNCHANGED <<kernel, commands>>

LEMMA SettlingMoves ==
    ASSUME HostInv, [Next]_vars
    PROVE  \/ UNCHANGED deferred
           \/ \E e \in K!Settlements : Settles(e)
           \/ AdvanceKernel
<1>1. active \subseteq Hosted
  BY HostTypes DEF HostInv, RootTypeOK
<1>2. CASE HandleObservation /\ ~ UNCHANGED deferred
  <2>1. PICK m : m = Head(inbox)
    OBVIOUS
  <2>2. m \in Messages /\ m.type = "observation"
    BY <1>2, <2>1, HeadMessage DEF HandleObservation, Receives
  <2>3. OutcomeOf(m.result) \in K!Outcomes
    BY <2>2, Kinds DEF OutcomeOf, K!Outcomes, Results, Observations, AgentReports, AgentResults
  <2>4. m.of[1] \in active /\ Settle(m.of[1], OutcomeOf(m.result))
    BY <1>2, <2>1 DEF HandleObservation, Applicable, ApplyRetrying, ApplySettled
  <2>5. K!Settled(m.of[1], OutcomeOf(m.result)) \in K!Settlements
    BY <1>1, <2>3, <2>4 DEF K!Settled, K!Settlements
  <2>6. K!Settled(m.of[1], OutcomeOf(m.result)).of = m.of[1]
    BY DEF K!Settled
  <2>7. Settles(K!Settled(m.of[1], OutcomeOf(m.result)))
    BY <1>2, <2>4, <2>5, <2>6 DEF Settles, Settle, Remaining, HandleObservation
  <2>. QED
    BY <2>5, <2>7
<1>3. CASE HandleInteraction /\ ~ UNCHANGED deferred
  <2>1. PICK m : m = Head(inbox)
    OBVIOUS
  <2>2. m.of \in active /\ Settle(m.of, InteractionOutcome(m.how))
    BY <1>3, <2>1 DEF HandleInteraction
  <2>3. K!Settled(m.of, InteractionOutcome(m.how)) \in K!Settlements
    BY <1>1, <2>2 DEF InteractionOutcome, K!Outcomes, K!Settled, K!Settlements
  <2>4. K!Settled(m.of, InteractionOutcome(m.how)).of = m.of
    BY DEF K!Settled
  <2>5. Settles(K!Settled(m.of, InteractionOutcome(m.how)))
    BY <1>3, <2>2, <2>3, <2>4 DEF Settles, Settle, Remaining, HandleInteraction
  <2>. QED
    BY <2>3, <2>5
<1>4. CASE Root /\ ~ HandleObservation /\ ~ HandleInteraction
  BY <1>4 DEF Root, RootStep, ScriptRootStep, InteractionRootStep, AgentRootStep,
     RefuseCommand, DispatchOperation, StartCancelPending, FinishRun, HandleCancellation,
     HandleLiveEvent, HandleRetryStart, HandleRecovery, TargetsDone, ClaimCancel,
     ClaimCancelFails, NothingToCancel, CancelAttempt, ReconcileCancellation,
     RelayCancellation, OpenInteraction, StartInteraction, CancelInteraction, DispatchAgent,
     AskAgent, rootVars, runtimeVars
<1>5. CASE ~ Root
  BY <1>5 DEF Next, Child, Emits, InteractionChild, AgentChild, AgentProcess, ScriptEnds,
     CallChecks, CallSends, CallFails, CancelRunChecks, CancelRunSends, Crash, vars, rootVars,
     runtimeVars
<1>. QED
  BY <1>2, <1>3, <1>4, <1>5

(* The kernel is told the first of the deferred events, or the root throws *)
(* over it.                                                                *)
Tells(e) ==
    LET t == K!AdvancePipeline(kernel, e)
    IN /\ e \in K!Settlements /\ e = Head(deferred) /\ K!Accepts(kernel, e)
       /\ kernel' = t.state /\ commands' = commands \o t.commands
       /\ deferred # << >> /\ deferred' = Tail(deferred)

LEMMA Telling ==
    ASSUME HostInv, AdvanceKernel
    PROVE  /\ UNCHANGED active
           /\ \/ UNCHANGED <<kernel, commands, deferred>> /\ rootPc' = "threw"
              \/ \E e \in K!Settlements : Tells(e)
<1>1. deferred \in Seq(K!Settlements) /\ deferred # << >>
  BY HostTypes DEF HostInv, RootTypeOK, IssueInv, AdvanceKernel
<1>2. PICK e \in K!Settlements : e = Head(deferred)
  BY <1>1
<1>. QED
  BY <1>1, <1>2 DEF AdvanceKernel, AfterAdvance, Throw, Tells

(* The kernel ends a run when it waits for nothing any more.               *)
LEMMA KernelEnds ==
    ASSUME kernel \in KernelStates, NEW e, K!Accepts(kernel, e),
           e = K!CancelRequested \/ e \in K!Settlements
    PROVE  LET t == K!AdvancePipeline(kernel, e)
           IN t.state.mode = "ended" => t.state.pending = {}
  BY DEF KernelStates, K!Accepts, K!CancelRequested, K!Settlements, K!AdvancePipeline,
     K!WindDown, K!Continue, K!Finish

LEMMA KernelInvTells ==
    ASSUME HostInv, KernelInv, NEW e \in K!Settlements, Tells(e), UNCHANGED active
    PROVE  KernelInv'
<1>. DEFINE t == K!AdvancePipeline(kernel, e)
            rest == kernel.pending \ {e.of}
<1>1. /\ commands \in Seq(K!Commands) /\ deferred \in Seq(K!Settlements)
      /\ kernel \in KernelStates /\ After \in [Hosted -> Seq(Hosted)]
  BY HostTypes, ProgramAssumption DEF HostInv, RootTypeOK, KernelStates
<1>2. /\ e.of \in kernel.pending /\ e.of \in Hosted
      /\ \/ t.state.pending = rest \cup K!SetOf(After[e.of])
            /\ t.commands = K!DispatchAll(After[e.of])
         \/ t.state.pending = rest /\ t.commands = << >>
         \/ t.state.pending = rest /\ t.commands = <<K!CancelPending(rest)>>
         \/ /\ rest = {} /\ t.state.pending = {}
            /\ \E kind \in K!TerminalKinds : t.commands = <<K!End(kind)>>
  BY <1>1, KernelSettles DEF Tells
<1>3. /\ kernel' = t.state /\ commands' = commands \o t.commands /\ e = Head(deferred)
      /\ deferred # << >> /\ deferred' = Tail(deferred)
  BY DEF Tells
<1>4. rest \subseteq kernel'.pending
  BY <1>2, <1>3
<1>5. kernel'.mode = "ended" => kernel'.pending = {}
  BY <1>1, <1>3, KernelEnds DEF Tells
<1>6. /\ 1 \in DOMAIN deferred /\ deferred[1] = e
      /\ \A i \in DOMAIN deferred' : /\ i + 1 \in DOMAIN deferred /\ i + 1 # 1 /\ i \in Nat
                                     /\ deferred'[i] = deferred[i + 1]
  BY <1>1, <1>3
<1>7. active \subseteq rest
  BY <1>6 DEF KernelInv
<1>8. \A i \in DOMAIN deferred' : deferred'[i].of \in rest \ active
  BY <1>6 DEF KernelInv
<1>9. ASSUME NEW i \in DOMAIN deferred', NEW j \in DOMAIN deferred',
             deferred'[i].of = deferred'[j].of
      PROVE  i = j
  <2>1. i + 1 = j + 1
    BY <1>6, <1>9 DEF KernelInv
  <2>. QED
    BY <1>6, <2>1
<1>10. ASSUME NEW i \in DOMAIN commands', commands'[i].kind \in K!TerminalKinds
       PROVE  kernel'.pending = {}
  <2>1. \A n \in DOMAIN commands : commands[n].kind \notin K!TerminalKinds
    BY <1>2 DEF KernelInv
  <2>2. t.commands \in Seq(K!Commands)
    <3>1. rest \in SUBSET Hosted /\ After[e.of] \in Seq(Hosted) /\ << >> \in Seq(K!Commands)
      BY <1>1, <1>2 DEF KernelStates
    <3>. HIDE DEF t, rest
    <3>. QED
      BY <1>2, <3>1, CommandsTyped
  <2>3. \/ i \in DOMAIN commands /\ commands'[i] = commands[i]
        \/ \E n \in DOMAIN t.commands : commands'[i] = t.commands[n]
    <3>. HIDE DEF t
    <3>1. /\ i \in 1..(Len(commands) + Len(t.commands))
          /\ commands'[i] = IF i <= Len(commands) THEN commands[i]
                            ELSE t.commands[i - Len(commands)]
      BY <1>1, <1>3, <2>2
    <3>. QED
      BY <1>1, <2>2, <3>1
  <2>4. PICK n \in DOMAIN t.commands : t.commands[n].kind \in K!TerminalKinds
    BY <1>10, <2>1, <2>3
  <2>5. t.commands # K!DispatchAll(After[e.of])
    BY <2>4 DEF K!DispatchAll, K!Dispatch, K!TerminalKinds
  <2>6. t.commands # <<K!CancelPending(rest)>>
    BY <2>4 DEF K!CancelPending, K!TerminalKinds
  <2>. QED
    BY <1>2, <1>3, <2>4, <2>5, <2>6
<1>. QED
  BY <1>4, <1>5, <1>7, <1>8, <1>9, <1>10 DEF KernelInv

LEMMA KernelInvCancels ==
    ASSUME HostInv, KernelInv, HandleCancellation
    PROVE  KernelInv'
<1>. DEFINE t == K!AdvancePipeline(kernel, K!CancelRequested)
<1>1. kernel \in KernelStates /\ commands = << >> /\ UNCHANGED <<active, deferred>>
  BY HostTypes DEF HostInv, RootTypeOK, KernelStates, HandleCancellation, Receives
<1>2. CASE UNCHANGED <<kernel, commands>>
  BY <1>1, <1>2 DEF KernelInv
<1>3. CASE ~ UNCHANGED <<kernel, commands>>
  <2>1. kernel' = t.state /\ commands' = WithoutHandledCancellation(t.commands)
    BY <1>3 DEF HandleCancellation
  <2>2. /\ t.state.mode = "ended" => t.state.pending = {}
        /\ t.state.pending = kernel.pending
    <3>1. kernel.mode = "running" \/ kernel.mode # "running"
      OBVIOUS
    <3>. QED
      BY <1>1 DEF KernelStates, K!CancelRequested, K!AdvancePipeline, K!WindDown, K!Continue,
         K!Finish
  <2>3. \/ t.commands = << >>
        \/ t.commands = <<K!CancelPending(kernel.pending)>>
        \/ kernel.pending = {} /\ \E kind \in K!TerminalKinds : t.commands = <<K!End(kind)>>
    BY <1>1, KernelCancels
  <2>4. \/ commands' = << >>
        \/ kernel.pending = {} /\ \E kind \in K!TerminalKinds : commands' = <<K!End(kind)>>
    <3>1. CASE t.commands = <<K!CancelPending(kernel.pending)>>
      <4>1. K!CancelPending(kernel.pending) \in K!SetOf(t.commands)
        BY <3>1 DEF K!SetOf
      <4>. QED
        BY <2>1, <4>1 DEF WithoutHandledCancellation, IsCancelPending, K!CancelPending
    <3>. HIDE DEF t
    <3>. QED
      BY <2>1, <2>3, <3>1 DEF WithoutHandledCancellation
  <2>5. ASSUME NEW i \in DOMAIN commands', commands'[i].kind \in K!TerminalKinds
        PROVE  kernel'.pending = {}
    <3>. HIDE DEF t
    <3>1. commands' # << >>
      BY <2>5
    <3>. QED
      BY <2>1, <2>2, <2>4, <3>1
  <2>. HIDE DEF t
  <2>. QED
    BY <1>1, <2>1, <2>2, <2>5 DEF KernelInv
<1>. QED
  BY <1>2, <1>3

LEMMA KernelInvStep ==
    ASSUME HostInv, KernelInv, [Next]_vars
    PROVE  KernelInv'
<1>1. /\ commands \in Seq(K!Commands) /\ deferred \in Seq(K!Settlements)
      /\ IssueInv
  BY HostTypes DEF HostInv, RootTypeOK
<1>2. CASE AdvanceKernel
  <2>1. CASE UNCHANGED <<kernel, commands, deferred>>
    BY <1>2, <2>1, Telling DEF KernelInv
  <2>. QED
    BY <1>2, <2>1, Telling, KernelInvTells
<1>3. CASE HandleCancellation
  BY <1>3, KernelInvCancels
<1>4. CASE ~ AdvanceKernel /\ ~ HandleCancellation
  <2>1. /\ UNCHANGED kernel
        /\ \A i \in DOMAIN commands' : \E n \in DOMAIN commands : commands'[i] = commands[n]
    <3>1. CASE Waits
      BY <3>1 DEF Waits
    <3>2. CASE TakesCommand
      <4>1. \A i \in DOMAIN commands' : i + 1 \in DOMAIN commands /\ commands'[i] = commands[i + 1]
        BY <1>1, <3>2 DEF TakesCommand
      <4>. QED
        BY <3>2, <4>1 DEF TakesCommand
    <3>. QED
      BY <1>4, <3>1, <3>2, QueuesMove
  <2>2. /\ kernel'.mode = "ended" => kernel'.pending = {}
        /\ \A i \in DOMAIN commands' :
              commands'[i].kind \in K!TerminalKinds => kernel'.pending = {}
    BY <2>1 DEF KernelInv
  <2>3. \A x \in active' : x \in active \/ (x \in kernel.pending /\ ~ Moved(x))
    <3>1. ASSUME NEW x \in Hosted, Starts(x) PROVE x \in kernel.pending /\ ~ Moved(x)
      <4>1. Queued(x)
        BY <1>1, <3>1 DEF Starts, Queued, HasCommand
      <4>. QED
        BY <1>1, <4>1 DEF IssueInv
    <3>. QED
      BY <3>1, ActiveMoves DEF Starts
  <2>4. active' \subseteq kernel'.pending
    BY <2>1, <2>3 DEF KernelInv
  <2>5. CASE UNCHANGED deferred
    <3>1. \A i \in DOMAIN deferred : deferred[i].of \notin active'
      BY <1>1, <2>3 DEF KernelInv, IssueInv
    <3>. QED
      BY <2>1, <2>2, <2>4, <2>5, <3>1 DEF KernelInv
  <2>6. ASSUME NEW e \in K!Settlements, Settles(e) PROVE KernelInv'
    <3>1. /\ e.of \in kernel.pending /\ active' = active \ {e.of}
          /\ deferred' = Append(deferred, e)
      BY <2>6 DEF Settles, KernelInv
    <3>2. /\ Len(deferred) \in Nat /\ DOMAIN deferred = 1..Len(deferred)
          /\ DOMAIN deferred' = 1..(Len(deferred) + 1)
          /\ deferred'[Len(deferred) + 1] = e
          /\ \A i \in DOMAIN deferred : deferred'[i] = deferred[i]
      BY <1>1, <3>1
    <3>3. \A i \in DOMAIN deferred : deferred[i].of # e.of
      BY <2>6 DEF Settles, KernelInv
    <3>4. \A i \in DOMAIN deferred' : deferred'[i].of \in kernel'.pending \ active'
      BY <2>1, <3>1, <3>2 DEF KernelInv
    <3>5. \A i, j \in DOMAIN deferred' : deferred'[i].of = deferred'[j].of => i = j
      BY <3>2, <3>3 DEF KernelInv
    <3>. QED
      BY <2>2, <2>4, <3>4, <3>5 DEF KernelInv
  <2>. QED
    BY <1>4, <2>5, <2>6, SettlingMoves
<1>. QED
  BY <1>2, <1>3, <1>4

LEMMA KernelInvariant == Spec => []KernelInv
<1>1. Init => KernelInv
  BY DEF Init, RootInit, K!InitialState, K!InitialCommands, K!DispatchAll, K!Dispatch,
     K!TerminalKinds, KernelInv
<1>. QED
  BY <1>1, KernelInvStep, HostInvariant, PTL DEF Spec

-----------------------------------------------------------------------------
(* What is queued stays queued or becomes active, what is active is        *)
(* settled or becomes uncertain, and what is uncertain is settled or stays *)
(* active.                                                                 *)
LEMMA QueuedMoves ==
    ASSUME HostInv, [Next]_vars, ~ AdvanceKernel, ~ HandleCancellation, rootPc' # "threw",
           NEW x \in Hosted, Queued(x)
    PROVE  Queued(x)' \/ x \in active'
<1>1. commands \in Seq(K!Commands)
  BY HostTypes DEF HostInv, RootTypeOK
<1>2. PICK i \in DOMAIN commands : commands[i] = K!Dispatch(x)
  BY DEF Queued
<1>3. CASE Waits
  BY <1>3 DEF Waits, Queued
<1>4. CASE TakesCommand /\ i # 1
  <2>1. i - 1 \in DOMAIN commands' /\ commands'[i - 1] = commands[i]
    BY <1>1, <1>4 DEF TakesCommand
  <2>. QED
    BY <1>2, <2>1 DEF Queued
<1>5. CASE TakesCommand /\ i = 1
  <2>1. Head(commands) = K!Dispatch(x) /\ Head(commands).kind = "dispatch"
        /\ Head(commands).of = x
    BY <1>1, <1>2, <1>5 DEF TakesCommand, K!Dispatch
  <2>2. commands' # commands
    <3>1. Len(commands') # Len(commands)
      BY <1>1, <1>5 DEF TakesCommand
    <3>. QED
      BY <3>1
  <2>3. CASE DispatchOperation \/ DispatchAgent \/ StartInteraction
    BY <2>1, <2>3 DEF DispatchOperation, DispatchAgent, StartInteraction
  <2>4. CASE RefuseCommand
    BY <2>4 DEF RefuseCommand, Throw
  <2>5. CASE StartCancelPending \/ FinishRun
    BY <2>1, <2>5 DEF StartCancelPending, FinishRun, HasCommand, K!TerminalKinds
  <2>6. CASE /\ Root /\ ~ RefuseCommand /\ ~ StartCancelPending /\ ~ FinishRun
             /\ ~ DispatchOperation /\ ~ DispatchAgent /\ ~ StartInteraction
    <3>1. UNCHANGED commands
      BY <2>6 DEF Root, RootStep, ScriptRootStep, InteractionRootStep, AgentRootStep,
         HandleLiveEvent, HandleRetryStart, HandleRecovery, HandleObservation, TargetsDone,
         ClaimCancel, ClaimCancelFails, NothingToCancel, CancelAttempt, ReconcileCancellation,
         RelayCancellation, OpenInteraction, HandleInteraction, CancelInteraction, AskAgent,
         rootVars, runtimeVars
    <3>. QED
      BY <2>2, <3>1
  <2>7. CASE ~ Root
    <3>1. UNCHANGED commands
      BY <2>7 DEF Next, Child, Emits, InteractionChild, AgentChild, AgentProcess, ScriptEnds,
         CallChecks, CallSends, CallFails, CancelRunChecks, CancelRunSends, Crash, vars,
         rootVars, runtimeVars
    <3>. QED
      BY <2>2, <3>1
  <2>. QED
    BY <2>3, <2>4, <2>5, <2>6, <2>7
<1>. QED
  BY <1>3, <1>4, <1>5, QueuesMove

LEMMA ActiveLeaves ==
    ASSUME HostInv, [Next]_vars, NEW x \in active, x \notin active'
    PROVE  \/ \E e \in K!Settlements : Settles(e) /\ e.of = x
           \/ HandleRecovery /\ \E a \in uncertain' : a[1] = x
<1>1. CASE HandleObservation \/ HandleInteraction
  <2>1. ~ UNCHANGED deferred
    <3>1. deferred \in Seq(K!Settlements)
      BY HostTypes DEF HostInv, RootTypeOK
    <3>2. \E e : deferred' = Append(deferred, e)
      BY <1>1 DEF HandleObservation, HandleInteraction, ApplyRetrying, ApplySettled, Settle
    <3>3. Len(deferred') # Len(deferred)
      BY <3>1, <3>2
    <3>. QED
      BY <3>3
  <2>2. ~ AdvanceKernel
    BY <1>1 DEF HandleObservation, HandleInteraction, Receives, AdvanceKernel
  <2>3. PICK e \in K!Settlements : Settles(e)
    BY <2>1, <2>2, SettlingMoves
  <2>. QED
    BY <2>3 DEF Settles
<1>2. CASE HandleRecovery
  <2>1. PICK m : m = Head(inbox)
    OBVIOUS
  <2>2. m.of[1] = x /\ m.of \in uncertain'
    BY <1>2, <2>1 DEF HandleRecovery, MarkRecovery, Remaining
  <2>. QED
    BY <1>2, <2>2
<1>3. CASE Root /\ ~ HandleObservation /\ ~ HandleInteraction /\ ~ HandleRecovery
  <2>1. active \subseteq active'
    BY <1>3 DEF Root, RootStep, ScriptRootStep, InteractionRootStep, AgentRootStep,
       RefuseCommand, DispatchOperation, StartCancelPending, FinishRun, HandleCancellation,
       HandleLiveEvent, HandleRetryStart, AdvanceKernel, TargetsDone, ClaimCancel,
       ClaimCancelFails, NothingToCancel, CancelAttempt, ReconcileCancellation,
       RelayCancellation, OpenInteraction, StartInteraction, CancelInteraction, DispatchAgent,
       AskAgent, rootVars, runtimeVars
  <2>. QED
    BY <2>1
<1>4. CASE ~ Root
  BY <1>4 DEF Next, Child, Emits, InteractionChild, AgentChild, AgentProcess, ScriptEnds,
     CallChecks, CallSends, CallFails, CancelRunChecks, CancelRunSends, Crash, vars, rootVars,
     runtimeVars
<1>. QED
  BY <1>1, <1>2, <1>3, <1>4

LEMMA UncertainLeaves ==
    ASSUME HostInv, [Next]_vars, NEW a \in uncertain, a \notin uncertain'
    PROVE  \/ a[1] \in active'
           \/ \E e \in K!Settlements : Settles(e) /\ e.of = a[1]
<1>1. CASE HandleObservation
  <2>1. PICK m : m = Head(inbox)
    OBVIOUS
  <2>2. m.of = a /\ m.of[1] \in active
    BY <1>1, <2>1 DEF HandleObservation, Applicable, ApplyRetrying, ApplySettled
  <2>3. ~ HandleRecovery
    BY <1>1 DEF HandleRecovery, HandleObservation, Receives
  <2>. QED
    BY <2>2, <2>3, ActiveLeaves
<1>2. CASE Root /\ ~ HandleObservation
  <2>1. uncertain \subseteq uncertain'
    BY <1>2 DEF Root, RootStep, ScriptRootStep, InteractionRootStep, AgentRootStep,
       RefuseCommand, DispatchOperation, StartCancelPending, FinishRun, HandleCancellation,
       HandleLiveEvent, HandleRetryStart, HandleRecovery, HandleInteraction, AdvanceKernel,
       TargetsDone, ClaimCancel, ClaimCancelFails, NothingToCancel, CancelAttempt,
       ReconcileCancellation, RecordCancellationRecovery, MarkRecovery, RelayCancellation,
       OpenInteraction, StartInteraction, CancelInteraction, DispatchAgent, AskAgent, rootVars,
       journalVars
  <2>. QED
    BY <2>1
<1>3. CASE ~ Root
  BY <1>3 DEF Next, Child, Emits, InteractionChild, AgentChild, AgentProcess, ScriptEnds,
     CallChecks, CallSends, CallFails, CancelRunChecks, CancelRunSends, Crash, vars, rootVars,
     journalVars
<1>. QED
  BY <1>1, <1>2, <1>3

(* What is settled is deferred.                                            *)
LEMMA SettledIsDeferred ==
    ASSUME HostInv, NEW e \in K!Settlements, Settles(e)
    PROVE  DeferredOps \subseteq DeferredOps' /\ e.of \in DeferredOps'
<1>1. deferred \in Seq(K!Settlements) /\ deferred' = Append(deferred, e)
  BY HostTypes DEF HostInv, RootTypeOK, Settles
<1>2. /\ \A i \in DOMAIN deferred : i \in DOMAIN deferred' /\ deferred'[i] = deferred[i]
      /\ Len(deferred) + 1 \in DOMAIN deferred' /\ deferred'[Len(deferred) + 1] = e
  BY <1>1
<1>. QED
  BY <1>2 DEF DeferredOps

LEMMA CoverInvTells ==
    ASSUME HostInv, CoverInv, rootPc # "threw", AdvanceKernel,
           NEW e \in K!Settlements, Tells(e), NEW x \in kernel'.pending
    PROVE  Covered(x)'
<1>. DEFINE t == K!AdvancePipeline(kernel, e)
            rest == kernel.pending \ {e.of}
<1>1. /\ commands \in Seq(K!Commands) /\ deferred \in Seq(K!Settlements)
      /\ kernel \in KernelStates /\ After \in [Hosted -> Seq(Hosted)]
  BY HostTypes, ProgramAssumption DEF HostInv, RootTypeOK, KernelStates
<1>2. /\ e.of \in Hosted
      /\ \/ t.state.pending = rest \cup K!SetOf(After[e.of])
            /\ t.commands = K!DispatchAll(After[e.of])
         \/ t.state.pending = rest /\ t.commands = << >>
         \/ t.state.pending = rest /\ t.commands = <<K!CancelPending(rest)>>
         \/ /\ rest = {} /\ t.state.pending = {}
            /\ \E kind \in K!TerminalKinds : t.commands = <<K!End(kind)>>
  BY <1>1, KernelSettles DEF Tells
<1>3. /\ kernel' = t.state /\ commands' = commands \o t.commands /\ e = Head(deferred)
      /\ deferred # << >> /\ deferred' = Tail(deferred) /\ UNCHANGED <<active, uncertain>>
  BY DEF Tells, AdvanceKernel, journalVars
<1>4. t.commands \in Seq(K!Commands)
  <2>1. rest \in SUBSET Hosted /\ After[e.of] \in Seq(Hosted) /\ << >> \in Seq(K!Commands)
    BY <1>1, <1>2 DEF KernelStates
  <2>. HIDE DEF t, rest
  <2>. QED
    BY <1>2, <2>1, CommandsTyped
<1>5. /\ \A i \in DOMAIN commands : i \in DOMAIN commands' /\ commands'[i] = commands[i]
      /\ \A n \in DOMAIN t.commands : /\ Len(commands) + n \in DOMAIN commands'
                                      /\ commands'[Len(commands) + n] = t.commands[n]
  <2>. HIDE DEF t
  <2>1. /\ Len(commands) \in Nat /\ Len(t.commands) \in Nat
        /\ DOMAIN commands = 1..Len(commands) /\ DOMAIN t.commands = 1..Len(t.commands)
        /\ DOMAIN commands' = 1..(Len(commands) + Len(t.commands))
        /\ \A i \in DOMAIN commands' :
              commands'[i] = IF i <= Len(commands) THEN commands[i]
                             ELSE t.commands[i - Len(commands)]
    BY <1>1, <1>3, <1>4
  <2>2. \A i \in DOMAIN commands : i \in DOMAIN commands' /\ commands'[i] = commands[i]
    BY <2>1
  <2>3. ASSUME NEW n \in DOMAIN t.commands
        PROVE  /\ Len(commands) + n \in DOMAIN commands'
               /\ commands'[Len(commands) + n] = t.commands[n]
    <3>1. n \in Nat /\ n >= 1 /\ n <= Len(t.commands)
      BY <2>1
    <3>2. /\ Len(commands) + n \in DOMAIN commands' /\ ~ (Len(commands) + n <= Len(commands))
          /\ Len(commands) + n - Len(commands) = n
      BY <2>1, <3>1
    <3>. QED
      BY <2>1, <3>2
  <2>. QED
    BY <2>2, <2>3
<1>6. CASE x \notin rest
  <2>1. x \in K!SetOf(After[e.of]) /\ t.commands = K!DispatchAll(After[e.of])
    BY <1>2, <1>3, <1>6
  <2>2. PICK n \in DOMAIN After[e.of] : After[e.of][n] = x
    BY <2>1 DEF K!SetOf
  <2>3. n \in DOMAIN t.commands /\ t.commands[n] = K!Dispatch(x)
    BY <2>1, <2>2 DEF K!DispatchAll
  <2>. QED
    BY <1>5, <2>3 DEF Covered, Queued
<1>7. CASE x \in rest
  <2>1. Covered(x)
    BY <1>7 DEF CoverInv
  <2>2. Queued(x) => Queued(x)'
    BY <1>5 DEF Queued
  <2>3. ASSUME x \in DeferredOps PROVE x \in DeferredOps'
    <3>1. PICK i \in DOMAIN deferred : deferred[i].of = x
      BY <2>3 DEF DeferredOps
    <3>2. i # 1
      BY <1>1, <1>3, <1>7, <3>1
    <3>3. i - 1 \in DOMAIN deferred' /\ deferred'[i - 1] = deferred[i]
      BY <1>1, <1>3, <3>1, <3>2
    <3>. QED
      BY <3>1, <3>3 DEF DeferredOps
  <2>. QED
    BY <1>3, <2>1, <2>2, <2>3 DEF Covered
<1>. QED
  BY <1>6, <1>7

LEMMA CoverInvStep ==
    ASSUME HostInv, CoverInv, [Next]_vars
    PROVE  CoverInv'
<1>. SUFFICES ASSUME rootPc' # "threw", NEW x \in kernel'.pending PROVE Covered(x)'
  BY DEF CoverInv
<1>1. rootPc # "threw"
  BY ThrewStays DEF rootVars
<1>2. CASE AdvanceKernel
  BY <1>1, <1>2, Telling, CoverInvTells
<1>3. CASE HandleCancellation
  <2>1. UNCHANGED <<active, deferred, uncertain>> /\ commands = << >>
    BY <1>3 DEF HandleCancellation, Receives
  <2>2. kernel' = kernel \/ kernel' = K!AdvancePipeline(kernel, K!CancelRequested).state
    BY <1>3 DEF HandleCancellation
  <2>3. kernel'.pending = kernel.pending
    <3>1. kernel \in KernelStates
      BY HostTypes DEF HostInv, RootTypeOK, KernelStates
    <3>2. LET t == K!AdvancePipeline(kernel, K!CancelRequested)
          IN t.state.pending = kernel.pending
      BY <3>1, KernelCancels
    <3>. QED
      BY <2>2, <3>2
  <2>4. Covered(x) /\ ~ Queued(x)
    BY <1>1, <2>1, <2>3 DEF CoverInv, Queued
  <2>. QED
    BY <2>1, <2>4 DEF Covered, DeferredOps
<1>4. CASE ~ AdvanceKernel /\ ~ HandleCancellation
  <2>1. UNCHANGED kernel
    BY <1>4, QueuesMove DEF Waits, TakesCommand
  <2>2. Covered(x) /\ x \in Hosted
    BY <1>1, <2>1, HostTypes DEF CoverInv, HostInv, RootTypeOK
  <2>3. CASE Queued(x)
    BY <1>4, <2>2, <2>3, QueuedMoves DEF Covered
  <2>4. \A e \in K!Settlements : Settles(e) => DeferredOps \subseteq DeferredOps' /\ e.of \in DeferredOps'
    BY SettledIsDeferred
  <2>5. CASE x \in active
    BY <2>4, <2>5, ActiveLeaves DEF Covered
  <2>6. CASE x \in DeferredOps
    <3>1. DeferredOps \subseteq DeferredOps'
      BY <1>4, <2>4, SettlingMoves DEF DeferredOps
    <3>. QED
      BY <2>6, <3>1 DEF Covered
  <2>7. ASSUME NEW a \in uncertain, a[1] = x PROVE Covered(x)'
    BY <2>4, <2>7, UncertainLeaves DEF Covered
  <2>. QED
    BY <2>2, <2>3, <2>5, <2>6, <2>7 DEF Covered
<1>. QED
  BY <1>2, <1>3, <1>4

LEMMA CoverInvariant == Spec => []CoverInv
<1>1. Init => CoverInv
  <2>. SUFFICES ASSUME Init, NEW x \in kernel.pending PROVE Queued(x)
    BY DEF CoverInv, Covered
  <2>. QED
    BY DEF Init, RootInit, K!InitialState, K!InitialCommands, K!DispatchAll, K!SetOf, Queued
<1>. QED
  BY <1>1, CoverInvStep, HostInvariant, PTL DEF Spec

(* No operation falls out of the run: whatever the kernel still waits for  *)
(* is queued, active, settled but not told yet, or publicly unknown, and   *)
(* the kernel never rejects what is queued for it.                         *)
THEOREM NothingFallsOut == Spec => []NothingIsForgotten
<1>1. HostInv /\ KernelInv /\ CoverInv => NothingIsForgotten
  <2>. SUFFICES ASSUME HostInv, KernelInv, CoverInv, rootPc # "threw"
                PROVE  /\ \A op \in kernel.pending :
                             \/ K!Dispatch(op) \in K!SetOf(commands)
                             \/ op \in active
                             \/ \E e \in K!SetOf(deferred) : e.of = op
                             \/ \E a \in uncertain : a[1] = op
                       /\ rootPc = "advance" => K!Accepts(kernel, Head(deferred))
    BY DEF NothingIsForgotten
  <2>1. ASSUME NEW op \in kernel.pending
        PROVE  \/ K!Dispatch(op) \in K!SetOf(commands)
               \/ op \in active
               \/ \E e \in K!SetOf(deferred) : e.of = op
               \/ \E a \in uncertain : a[1] = op
    <3>1. Covered(op)
      BY <2>1 DEF CoverInv
    <3>2. Queued(op) => K!Dispatch(op) \in K!SetOf(commands)
      BY DEF Queued, K!SetOf
    <3>3. op \in DeferredOps => \E e \in K!SetOf(deferred) : e.of = op
      BY DEF DeferredOps, K!SetOf
    <3>. QED
      BY <3>1, <3>2, <3>3 DEF Covered
  <2>2. ASSUME rootPc = "advance" PROVE K!Accepts(kernel, Head(deferred))
    <3>1. deferred \in Seq(K!Settlements) /\ deferred # << >>
      BY <2>2, HostTypes DEF HostInv, RootTypeOK, IssueInv
    <3>2. 1 \in DOMAIN deferred /\ Head(deferred) = deferred[1]
      BY <3>1
    <3>3. Head(deferred).of \in kernel.pending
      BY <3>2 DEF KernelInv
    <3>. QED
      BY <3>3 DEF KernelInv, K!Accepts
  <2>. QED
    BY <2>1, <2>2
<1>. QED
  BY <1>1, KernelInvariant, CoverInvariant, HostInvariant, PTL

-----------------------------------------------------------------------------
(* Where what is told of a script comes from.                              *)
LEMMA ScriptNewsComesFrom ==
    ASSUME HostInv, [Next]_vars, NEW m \in posted', m \notin posted, m \in ScriptReports
    PROVE  /\ \A p \in posted : ReceiptOf(p) # ReceiptOf(m)
           /\ inbox' = Append(inbox, m) /\ posted' = posted \cup {m}
           /\ \/ \E op \in Ops : RelayOutcome(op) /\ m = Outcome(op)
              \/ \E op \in Ops : SendRetryStart(op) /\ m = RetryStart(<<op, ordinal[op] + 1>>)
              \/ \E op \in Ops : ScriptEmits(op) /\ m = LiveEvent(Current(op))
              \/ RelayCancellation /\ m = Observation(target, CancelledAs(target), FALSE)
<1>1. PICK n \in Messages : Sends(n)
  BY MessagesMove DEF Takes
<1>2. /\ m = n /\ \A p \in posted : ReceiptOf(p) # ReceiptOf(m)
      /\ inbox' = Append(inbox, m) /\ posted' = posted \cup {m}
  BY <1>1 DEF Sends, Post
<1>3. \A n2 : Post(n2) => m = n2
  BY DEF Post
<1>4. InteractionTypeOK /\ AgentTypeOK
  BY HostTypes DEF HostInv
<1>5. CASE Root
  <2>1. CASE RelayCancellation
    BY <1>2, <1>3, <2>1 DEF RelayCancellation
  <2>2. CASE ~ RelayCancellation
    <3>1. UNCHANGED posted
      BY <1>5, <2>2
         DEF Root, RootStep, ScriptRootStep, InteractionRootStep, AgentRootStep, RefuseCommand,
             DispatchOperation, StartCancelPending, FinishRun, HandleCancellation,
             HandleLiveEvent, HandleRetryStart, HandleRecovery, HandleObservation,
             HandleInteraction, AdvanceKernel, TargetsDone, ClaimCancel, ClaimCancelFails,
             NothingToCancel, CancelAttempt, ReconcileCancellation, OpenInteraction,
             StartInteraction, CancelInteraction, DispatchAgent, AskAgent, durableVars
    <3>. QED
      BY <3>1
  <2>. QED
    BY <2>1, <2>2
<1>6. ASSUME NEW op \in Ops, Child(op) \/ Emits(op)
      PROVE  \/ RelayOutcome(op) /\ m = Outcome(op)
             \/ SendRetryStart(op) /\ m = RetryStart(<<op, ordinal[op] + 1>>)
             \/ ScriptEmits(op) /\ m = LiveEvent(Current(op))
  <2>1. CASE RelayOutcome(op) \/ SendRetryStart(op) \/ Emits(op)
    BY <1>3, <2>1 DEF RelayOutcome, SendRetryStart, Emits, ScriptEmits
  <2>2. CASE Child(op) /\ ~ RelayOutcome(op) /\ ~ SendRetryStart(op)
    <3>1. UNCHANGED posted
      BY <2>2 DEF Child, LaneStep, DispatchIntent, ArbitrateDispatch, ArbitrationFails,
         ExecuteAttempt, ExecutionReturns, ReconcileAttempt, LaneFails, NextAttempt, durableVars
    <3>. QED
      BY <3>1
  <2>. QED
    BY <1>6, <2>1, <2>2
<1>7. ASSUME NEW i \in Interactions, InteractionChild(i) PROVE FALSE
  <2>1. CASE RelaySettlement(i)
    <3>1. heard[i] \in Heard
      BY <1>4, <2>1 DEF RelaySettlement, HostInv, TellersInv, InteractionTypeOK
    <3>. QED
      BY <1>3, <2>1, <3>1, OtherKinds DEF RelaySettlement
  <2>2. CASE ~ RelaySettlement(i)
    BY <1>7, <2>2 DEF InteractionChild, InteractionStep, ReceivesInteraction, TimerExpires,
       WindowExpires, Hears, durableVars
  <2>. QED
    BY <2>1, <2>2
<1>8. ASSUME NEW g \in Agents, AgentChild(g) PROVE FALSE
  <2>1. CASE RelayAgent(g)
    <3>1. agentLane[g].resolution \in AgentResults \cup {"recovery"}
      BY <1>4, <2>1 DEF RelayAgent, HostInv, TellersInv, AgentTypeOK
    <3>2. AgentOutcome(g) \notin ScriptReports
      BY <3>1, OtherKinds DEF AgentOutcome
    <3>. QED
      BY <1>3, <2>1, <3>2 DEF RelayAgent
  <2>2. CASE ~ RelayAgent(g)
    BY <1>8, <2>2 DEF AgentChild, AgentStep, AgentDispatchIntent, StartAgent, StartReturns,
       ReconcileAgent, ReceiveTimesOut, LookupAgent, ReceiveCancel, CancelAgent, AgentFails,
       durableVars
  <2>. QED
    BY <2>1, <2>2
<1>9. CASE CancelRunSends
  BY <1>3, <1>9, OtherKinds DEF CancelRunSends
<1>10. CASE \/ \E g \in Agents : AgentProcess(g)
            \/ \E c \in Calls : CallChecks(c) \/ CallSends(c) \/ CallFails(c)
            \/ \E a \in Attempts : ScriptEnds(a)
            \/ CancelRunChecks \/ Crash \/ UNCHANGED vars
  BY <1>10 DEF AgentProcess, AgentEnds, CallChecks, CallSends, CallFails, ScriptEnds,
     CancelRunChecks, Crash, HostCrash, vars, durableVars
<1>. QED
  BY <1>2, <1>5, <1>6, <1>7, <1>8, <1>9, <1>10 DEF Next

(* What is told of a script that is no observation is told by its type.    *)
LEMMA ReportShape ==
    ASSUME NEW m \in Messages, m.type = "retryStart"
    PROVE  m = RetryStart(m.of)
<1>1. m \in ScriptReports \ Observations
  BY Kinds DEF Observations
<1>2. m \in [type : {"recovery", "retryStart", "live"}, of : Attempts]
  BY <1>1 DEF ScriptReports
<1>. QED
  BY <1>2 DEF RetryStart

(* How a lane moves on to the next attempt, and where it stays when it has *)
(* told that it does not know.                                             *)
LEMMA LanesMove ==
    ASSUME HostInv, [Next]_vars, NEW op \in Ops
    PROVE  /\ \/ NextAttempt(op) /\ ordinal'[op] = ordinal[op] + 1 /\ pc'[op] = "intent"
              \/ ordinal'[op] = ordinal[op]
           /\ pc'[op] = "backoff" => pc[op] = "backoff" \/ SendRetryStart(op)
           /\ pc[op] \in {"relay", "done"} =>
                 \/ UNCHANGED <<pc[op], resolution[op], ordinal[op]>>
                 \/ RelayOutcome(op)
<1>1. LaneTypeOK
  BY HostTypes DEF HostInv
<1>2. CASE UNCHANGED laneVars
  BY <1>2 DEF laneVars
<1>3. CASE HostCrash
  BY <1>1, <1>3 DEF HostCrash, LanesRecover, LaneTypeOK, Locations
<1>4. ASSUME NEW o \in Ops, LaneStep(o), o # op
      PROVE  UNCHANGED <<pc[op], resolution[op], ordinal[op]>>
  BY <1>1, <1>4 DEF LaneStep, DispatchIntent, ArbitrateDispatch, ArbitrationFails,
     ExecuteAttempt, ExecutionReturns, ReconcileAttempt, LaneFails, RelayOutcome,
     SendRetryStart, NextAttempt, Resolve, Goto, LaneTypeOK
<1>5. CASE RelayOutcome(op) \/ SendRetryStart(op) \/ NextAttempt(op)
  BY <1>1, <1>5 DEF RelayOutcome, SendRetryStart, NextAttempt, At, Goto, LaneTypeOK
<1>6. CASE LaneStep(op) /\ ~ RelayOutcome(op) /\ ~ SendRetryStart(op) /\ ~ NextAttempt(op)
  BY <1>1, <1>6 DEF LaneStep, DispatchIntent, ArbitrateDispatch, ArbitrationFails,
     ExecuteAttempt, ExecutionReturns, ReconcileAttempt, LaneFails, Resolve, At, Goto,
     LaneTypeOK
<1>7. \/ UNCHANGED laneVars \/ HostCrash \/ \E o \in Ops : LaneStep(o)
  BY DEF Next, Child, Emits, ScriptEmits, InteractionChild, AgentChild, AgentProcess, Root,
     ScriptEnds, CallChecks, CallSends, CallFails, CancelRunChecks, CancelRunSends, Crash, vars
<1>. QED
  BY <1>2, <1>3, <1>4, <1>5, <1>6, <1>7

(* The report of an attempt follows the observations of all before it.     *)
LEMMA ReportsFollow ==
    ASSUME HostInv, ReportsInv, [Next]_vars, NEW m \in posted' \cap ScriptReports,
           NEW n \in 1..(m.of[2] - 1)
    PROVE  LaneProofs!Observed(<<m.of[1], n>>)'
<1>1. posted \subseteq posted'
  BY PostedStays
<1>2. ASSUME NEW p \in posted \cap ScriptReports, NEW k \in 1..(p.of[2] - 1)
      PROVE  LaneProofs!Observed(<<p.of[1], k>>)'
  BY <1>1, <1>2 DEF ReportsInv, LaneProofs!Observed
<1>3. CASE m \in posted
  BY <1>2, <1>3
<1>4. CASE m \notin posted
  <2>1. m.of \in Attempts /\ m.of[2] \in Nat /\ n \in Nat /\ n < m.of[2] /\ n > 0
    <3>1. m.of \in Attempts
      BY DEF ScriptReports, Observations
    <3>. QED
      BY <3>1, MaxAttemptsAssumption DEF Attempts, Ordinals
  <2>2. posted' = posted \cup {m}
    BY <1>4, ScriptNewsComesFrom
  <2>3. m \in LaneProofs!Reports' /\ LaneProofs!ReportsOrdered'
    BY LanesKeep, SameNames DEF LaneProofs!Reports, LaneProofs!LanesInv
  <2>4. PICK q \in LaneProofs!Reports' :
            q.type = "observation" /\ q.of = <<m.of[1], m.of[2] - 1>>
    <3>1. m.of[2] > 1
      BY <2>1
    <3>2. \A r \in LaneProofs!Reports' : r.of[2] > 1 =>
             \E q \in LaneProofs!Reports' :
                q.type = "observation" /\ q.of = <<r.of[1], r.of[2] - 1>>
      BY <2>3, Zenon DEF LaneProofs!ReportsOrdered
    <3>. QED
      BY <2>3, <3>1, <3>2
  <2>5. q \in posted' /\ q \in ScriptReports /\ q.of[2] = m.of[2] - 1 /\ q.of[1] = m.of[1]
    BY <2>4, SameNames DEF LaneProofs!Reports
  <2>6. q # m
    BY <2>1, <2>5
  <2>7. q \in posted
    BY <2>2, <2>5, <2>6
  <2>8. CASE n = m.of[2] - 1
    BY <2>4, <2>5, <2>8 DEF LaneProofs!Observed
  <2>9. CASE n # m.of[2] - 1
    <3>1. n \in 1..(q.of[2] - 1)
      BY <2>1, <2>5, <2>9
    <3>. QED
      BY <1>2, <2>5, <2>7, <3>1
  <2>. QED
    BY <2>8, <2>9
<1>. QED
  BY <1>3, <1>4

(* A lane that goes on to the next attempt has announced it.               *)
LEMMA LanesAnnounce ==
    ASSUME HostInv, ReportsInv, [Next]_vars, NEW op \in Ops
    PROVE  /\ ordinal'[op] > 1 => RetryStart(Current(op))' \in posted'
           /\ pc'[op] = "backoff" => RetryStart(<<op, ordinal[op] + 1>>)' \in posted'
<1>1. posted \subseteq posted' /\ LaneTypeOK /\ posted \subseteq Messages
  BY PostedStays, HostTypes DEF HostInv, DurableTypeOK
<1>2. CASE NextAttempt(op) /\ ordinal'[op] = ordinal[op] + 1 /\ pc'[op] = "intent"
  <2>1. pc[op] = "backoff"
    BY <1>2 DEF NextAttempt, At
  <2>. QED
    BY <1>1, <1>2, <2>1 DEF ReportsInv, Current, RetryStart
<1>3. CASE ordinal'[op] = ordinal[op]
  <2>1. ordinal[op] > 1 => RetryStart(Current(op)) \in posted
    BY DEF ReportsInv
  <2>2. ordinal'[op] > 1 => RetryStart(Current(op))' \in posted'
    BY <1>1, <1>3, <2>1 DEF Current, RetryStart
  <2>3. CASE pc[op] = "backoff"
    BY <1>1, <1>3, <2>2, <2>3 DEF ReportsInv, RetryStart
  <2>4. CASE SendRetryStart(op)
    <3>. DEFINE a == <<op, ordinal[op] + 1>>
    <3>1. RetryStart(a) \in Messages \ {CancelRequest} /\ Post(RetryStart(a))
      <4>1. ordinal[op] < MaxAttempts /\ ordinal[op] \in Ordinals
        BY <1>1, <2>4 DEF SendRetryStart, At, HostInv, LaneProofs!LanesInv,
           LaneProofs!RefinementInv, LaneProofs!Inv, LaneProofs!LaneInv, LaneTypeOK
      <4>2. a \in Attempts
        BY <4>1, MaxAttemptsAssumption DEF Attempts, Ordinals
      <4>. QED
        BY <2>4, <4>2 DEF SendRetryStart, RetryStart, Messages, ScriptReports, CancelRequest
    <3>2. PICK p \in posted' : p \in Messages /\ p.type = "retryStart" /\ p.of = a
      BY <1>1, <3>1, SentOnce DEF RetryStart
    <3>3. RetryStart(a) \in posted'
      BY <3>2, ReportShape
    <3>. QED
      BY <1>3, <2>2, <3>3 DEF RetryStart
  <2>. QED
    BY <2>2, <2>3, <2>4, LanesMove
<1>. QED
  BY <1>2, <1>3, LanesMove

(* A recovery is the last that a lane tells.                               *)
LEMMA RecoveriesStay ==
    ASSUME HostInv, ReportsInv, [Next]_vars, NEW m \in posted' \cap ScriptReports,
           m.type = "recovery"
    PROVE  LET op == m.of[1]
           IN /\ op \in Ops /\ m.of = Current(op)'
              /\ pc'[op] \in {"relay", "done"} /\ resolution'[op] = "unknown"
<1>. DEFINE op == m.of[1]
<1>1. LaneTypeOK
  BY HostTypes DEF HostInv
<1>2. m.of \in Attempts /\ op \in Ops
  <2>1. m.of \in Attempts
    BY DEF ScriptReports, Observations
  <2>. QED
    BY <2>1 DEF Attempts
<1>3. ASSUME NEW o \in Ops, RelayOutcome(o), resolution[o] = "unknown"
      PROVE  /\ pc[o] = "relay" /\ pc'[o] \in {"relay", "done"}
             /\ UNCHANGED <<resolution[o], ordinal[o]>>
  <2>1. ~ ShouldRetry(o)
    BY <1>3 DEF ShouldRetry
  <2>. QED
    BY <1>1, <1>3, <2>1 DEF RelayOutcome, At, Goto, LaneTypeOK
<1>4. CASE m \in posted
  <2>1. m.of = Current(op) /\ pc[op] \in {"relay", "done"} /\ resolution[op] = "unknown"
    BY <1>4 DEF ReportsInv
  <2>2. pc'[op] \in {"relay", "done"} /\ UNCHANGED <<resolution[op], ordinal[op]>>
    BY <1>2, <1>3, <2>1, LanesMove
  <2>. QED
    BY <1>2, <2>1, <2>2 DEF Current
<1>5. CASE m \notin posted
  <2>1. PICK o \in Ops : RelayOutcome(o) /\ m = Outcome(o)
    BY <1>5, ScriptNewsComesFrom DEF RetryStart, LiveEvent, Observation
  <2>2. resolution[o] = "unknown" /\ m.of = Current(o) /\ o = op
    BY <2>1 DEF Outcome, Observation, RecoveryRelay, Current
  <2>. QED
    BY <1>2, <1>3, <2>1, <2>2 DEF Current
<1>. QED
  BY <1>4, <1>5

LEMMA ReportsInvStep ==
    ASSUME HostInv, ReportsInv, [Next]_vars
    PROVE  ReportsInv'
<1>1. posted \subseteq posted' /\ LaneTypeOK
  BY PostedStays, HostTypes DEF HostInv
<1>2. ASSUME NEW m \in posted' \cap ScriptReports, m.type = "live", m.of[2] > 1
      PROVE  RetryStart(m.of) \in posted'
  <2>1. CASE m \in posted
    BY <1>1, <1>2, <2>1 DEF ReportsInv
  <2>2. CASE m \notin posted
    <3>1. PICK o \in Ops : m = LiveEvent(Current(o))
      BY <1>2, <2>2, ScriptNewsComesFrom DEF Outcome, RecoveryRelay, RetryStart, LiveEvent,
         Observation
    <3>2. m.of = Current(o) /\ ordinal[o] > 1
      BY <1>2, <3>1 DEF LiveEvent, Current
    <3>. QED
      BY <1>1, <3>2 DEF ReportsInv
  <2>. QED
    BY <2>1, <2>2
<1>3. ASSUME NEW m \in posted' \cap ScriptReports, m.type = "recovery", m.of[2] > 1
      PROVE  RetryStart(m.of) \in posted'
  <2>1. m.of[1] \in Ops /\ m.of = Current(m.of[1])'
    BY <1>3, RecoveriesStay
  <2>2. ordinal'[m.of[1]] > 1
    BY <1>3, <2>1 DEF Current
  <2>. QED
    BY <2>1, <2>2, LanesAnnounce DEF RetryStart
<1>4. ASSUME NEW m \in posted' \cap ScriptReports, m.type = "recovery"
      PROVE  /\ m.of = Current(m.of[1])' /\ pc'[m.of[1]] \in {"relay", "done"}
             /\ resolution'[m.of[1]] = "unknown"
  BY <1>4, RecoveriesStay
<1>5. ASSUME NEW m \in posted' \cap ScriptReports, NEW n \in 1..(m.of[2] - 1)
      PROVE  LaneProofs!Observed(<<m.of[1], n>>)'
  BY ReportsFollow
<1>. QED
  BY <1>2, <1>3, <1>4, <1>5, LanesAnnounce, SameNames DEF ReportsInv, LaneProofs!Observed,
     Current

LEMMA ReportsInvariant == Spec => []ReportsInv
<1>1. Init => ReportsInv
  BY DEF Init, DurableInit, LaneInit, ReportsInv
<1>. QED
  BY <1>1, ReportsInvStep, HostInvariant, PTL DEF Spec

-----------------------------------------------------------------------------
(* Nothing is told of a script that should have been told before what was. *)
LEMMA NewsFollows ==
    ASSUME HostInv, ReportsInv, [Next]_vars, NEW m \in posted', m \notin posted,
           NEW p \in posted'
    PROVE  ~ Precedes(m, p)
<1>. SUFFICES ASSUME Precedes(m, p) PROVE FALSE
  OBVIOUS
<1>1. m \in ScriptReports /\ p \in ScriptReports /\ m.of[1] = p.of[1]
  BY DEF Precedes
<1>2. m.of \in Attempts /\ p.of \in Attempts /\ m.of = <<m.of[1], m.of[2]>>
      /\ m.of[2] \in Nat /\ p.of[2] \in Nat /\ m.of[2] > 0
  <2>1. m.of \in Attempts /\ p.of \in Attempts
    BY <1>1 DEF ScriptReports, Observations
  <2>. QED
    BY <2>1, MaxAttemptsAssumption DEF Attempts, Ordinals
<1>3. /\ \A q \in posted : ReceiptOf(q) # ReceiptOf(m)
      /\ posted' = posted \cup {m}
  BY <1>1, ScriptNewsComesFrom
<1>4. \A q \in posted : q.type = m.type /\ q.of = m.of => FALSE
  BY <1>3 DEF ReceiptOf
<1>5. p # m
  BY <1>2 DEF Precedes
<1>6. p \in posted /\ p \in posted \cap ScriptReports
  BY <1>1, <1>3, <1>5
<1>7. CASE m.type = "observation" /\ m.of[2] < p.of[2]
  <2>1. m.of[2] \in 1..(p.of[2] - 1)
    BY <1>2, <1>7
  <2>2. LaneProofs!Observed(<<p.of[1], m.of[2]>>)
    BY <1>6, <2>1 DEF ReportsInv
  <2>. QED
    BY <1>1, <1>2, <1>4, <1>7, <2>2 DEF LaneProofs!Observed
<1>8. CASE m.type = "retryStart" /\ p.type \in {"live", "recovery"} /\ m.of = p.of
  <2>1. PICK op \in Ops : SendRetryStart(op) /\ m = RetryStart(<<op, ordinal[op] + 1>>)
    BY <1>1, <1>8, ScriptNewsComesFrom DEF Outcome, RecoveryRelay, LiveEvent, Observation
  <2>2. ordinal[op] \in Ordinals
    BY HostTypes DEF HostInv, LaneTypeOK
  <2>3. p.of[2] > 1
    BY <1>8, <2>1, <2>2, MaxAttemptsAssumption DEF RetryStart, Ordinals
  <2>4. RetryStart(p.of) \in posted
    BY <1>6, <1>8, <2>3 DEF ReportsInv
  <2>. QED
    BY <1>4, <1>8, <2>4 DEF RetryStart
<1>9. CASE m.type = "live" /\ p.type \in {"observation", "recovery"} /\ m.of = p.of
  <2>1. PICK op \in Ops : ScriptEmits(op) /\ m = LiveEvent(Current(op))
    BY <1>1, <1>9, ScriptNewsComesFrom DEF Outcome, RecoveryRelay, RetryStart, Observation
  <2>2. p.of = Current(op) /\ pc[op] = "executing" /\ effect[p.of] = "running" /\ p.of[1] = op
    BY <1>9, <2>1 DEF LiveEvent, ScriptEmits, At, Current
  <2>3. p.type # "recovery"
    BY <1>6, <2>2 DEF ReportsInv
  <2>4. p \in Observations
    BY <1>1, <1>9, <2>3, Kinds DEF Messages
  <2>5. IF p.result = "preDispatch" THEN winner[p.of] = "cancel_won"
                                    ELSE effect[p.of] = p.result
    BY <1>6, <2>4, SameNames DEF HostInv, LaneProofs!LanesInv, LaneProofs!RefinementInv,
       LaneProofs!Inv, LaneProofs!ObservationsAreTrue
  <2>6. p.result \in Results \cup {"preDispatch"} /\ p.of[2] \in Ordinals /\ op \in Ops
    BY <1>2, <2>4 DEF Observations, Attempts
  <2>7. winner[p.of] # "cancel_won"
    <3>1. LaneProofs!AttemptInv(op, p.of[2]) /\ p.of = <<op, p.of[2]>>
      BY <1>2, <2>2, <2>6 DEF HostInv, LaneProofs!LanesInv, LaneProofs!RefinementInv,
         LaneProofs!Inv, Ordinals, LaneProofs!Ordinals, Attempts
    <3>2. accepted[p.of] \in Nat
      BY <1>2, HostTypes DEF HostInv, ProviderTypeOK
    <3>. QED
      BY <2>2, <3>1, <3>2 DEF LaneProofs!AttemptInv
  <2>. QED
    BY <2>2, <2>5, <2>6, <2>7 DEF Results
<1>. QED
  BY <1>7, <1>8, <1>9 DEF Precedes

(* What is taken off the inbox is received, unless the root throws over    *)
(* it.                                                                     *)
LEMMA TakingReceives ==
    ASSUME HostInv, [Next]_vars, inbox # << >>, inbox' = Tail(inbox), rootPc' # "threw"
    PROVE  ReceiptOf(Head(inbox)) \in receipts' \/ Head(inbox) = CancelRequest
<1>1. inbox \in Seq(Messages)
  BY HostTypes DEF HostInv, DurableTypeOK
<1>2. inbox' # inbox /\ \A m \in Messages : ~ Sends(m)
  <2>1. Len(inbox') = Len(inbox) - 1 /\ Len(inbox) \in Nat
    BY <1>1
  <2>2. \A m \in Messages : Len(Append(inbox, m)) = Len(inbox) + 1
    BY <1>1
  <2>3. inbox' # inbox /\ \A m \in Messages : inbox' # Append(inbox, m)
    <3>1. ASSUME NEW m \in Messages, inbox' = Append(inbox, m) PROVE FALSE
      <4>1. Len(inbox') = Len(inbox) + 1
        BY <2>2, <3>1
      <4>. QED
        BY <2>1, <4>1
    <3>2. ASSUME inbox' = inbox PROVE FALSE
      <4>1. Len(inbox') = Len(inbox)
        BY <3>2
      <4>. QED
        BY <2>1, <4>1
    <3>. QED
      BY <3>1, <3>2
  <2>. QED
    BY <2>3 DEF Sends, Post
<1>3. CASE HandleCancellation
  BY <1>3, HeadMessage, Kinds DEF HandleCancellation, Receives
<1>4. CASE HandleLiveEvent \/ HandleRetryStart
  BY <1>4 DEF HandleLiveEvent, HandleRetryStart, Throw
<1>5. CASE HandleRecovery
  BY <1>5 DEF HandleRecovery, Throw
<1>6. CASE HandleObservation
  BY <1>6 DEF HandleObservation, Throw
<1>7. CASE HandleInteraction
  BY <1>7 DEF HandleInteraction, Throw
<1>8. CASE /\ Root /\ ~ HandleCancellation /\ ~ HandleLiveEvent /\ ~ HandleRetryStart
           /\ ~ HandleRecovery /\ ~ HandleObservation /\ ~ HandleInteraction
  <2>1. CASE RelayCancellation
    BY <1>2, <2>1, RootRelays DEF Messages
  <2>2. CASE ~ RelayCancellation
    <3>1. UNCHANGED inbox
      BY <1>8, <2>2
         DEF Root, RootStep, ScriptRootStep, InteractionRootStep, AgentRootStep, RefuseCommand,
             DispatchOperation, StartCancelPending, FinishRun, AdvanceKernel, TargetsDone,
             ClaimCancel, ClaimCancelFails, NothingToCancel, CancelAttempt,
             ReconcileCancellation, OpenInteraction, StartInteraction, CancelInteraction,
             DispatchAgent, AskAgent, durableVars
    <3>. QED
      BY <1>2, <3>1
  <2>. QED
    BY <2>1, <2>2
<1>9. CASE \/ \E op \in Ops : Child(op) \/ Emits(op)
           \/ \E i \in Interactions : InteractionChild(i)
           \/ \E g \in Agents : AgentChild(g)
           \/ CancelRunSends
  BY <1>2, <1>9, ScriptsSend, OthersRelay DEF Messages
<1>10. CASE \/ \E g \in Agents : AgentProcess(g)
            \/ \E c \in Calls : CallChecks(c) \/ CallSends(c) \/ CallFails(c)
            \/ \E a \in Attempts : ScriptEnds(a)
            \/ CancelRunChecks \/ Crash \/ UNCHANGED vars
  <2>1. UNCHANGED inbox
    BY <1>10 DEF AgentProcess, AgentEnds, CallChecks, CallSends, CallFails, ScriptEnds,
       CancelRunChecks, Crash, HostCrash, vars, durableVars
  <2>. QED
    BY <1>2, <2>1
<1>. QED
  BY <1>3, <1>4, <1>5, <1>6, <1>7, <1>8, <1>9, <1>10 DEF Next

(* The inbox keeps the order of what is told of a script, and the receipts *)
(* follow it.                                                              *)
LEMMA OrderSends ==
    ASSUME HostInv, ReportsInv, OrderInv, [Next]_vars, NEW m \in Messages, Sends(m),
           rootPc' # "threw" => rootPc # "threw"
    PROVE  OrderInv'
<1>1. inbox \in Seq(Messages) /\ UNCHANGED receipts
  BY HostTypes DEF HostInv, DurableTypeOK, Sends
<1>2. CASE UNCHANGED <<inbox, posted>>
  BY <1>1, <1>2 DEF OrderInv, InboxSet
<1>3. CASE ~ UNCHANGED <<inbox, posted>>
  <2>1. /\ inbox' = Append(inbox, m) /\ posted' = posted \cup {m}
        /\ \A p \in posted : ReceiptOf(p) # ReceiptOf(m)
    BY <1>3 DEF Sends, Post
  <2>2. m \in posted' /\ m \notin posted
    BY <2>1
  <2>. DEFINE n == Len(inbox)
  <2>3. /\ n \in Nat /\ DOMAIN inbox = 1..n /\ DOMAIN inbox' = 1..(n + 1)
        /\ inbox'[n + 1] = m /\ \A i \in 1..n : inbox'[i] = inbox[i]
    BY <1>1, <2>1
  <2>4. \A i \in 1..n : inbox[i] \in posted'
    BY <2>1, <2>3 DEF HostInv, InboxInv, InboxSet
  <2>5. \A p \in posted' : ~ Precedes(m, p)
    BY <2>2, NewsFollows
  <2>6. ASSUME NEW i \in DOMAIN inbox', NEW j \in DOMAIN inbox', Precedes(inbox'[i], inbox'[j])
        PROVE  i < j
    <3>1. CASE i \in 1..n /\ j \in 1..n
      BY <2>3, <2>6, <3>1 DEF OrderInv
    <3>2. CASE i \in 1..n /\ j = n + 1
      BY <2>3, <3>2
    <3>3. CASE i = n + 1
      <4>1. inbox'[j] \in posted'
        BY <2>2, <2>3, <2>4
      <4>. QED
        BY <2>3, <2>5, <2>6, <3>3, <4>1
    <3>. QED
      BY <2>3, <3>1, <3>2, <3>3
  <2>7. ASSUME NEW p \in posted', NEW q \in posted', Precedes(q, p), ReceiptOf(p) \in receipts'
        PROVE  ReceiptOf(q) \in receipts'
    <3>1. q # m
      BY <2>5, <2>7
    <3>2. p # m
      BY <1>1, <2>1, <2>7 DEF HostInv, InboxInv
    <3>. QED
      BY <1>1, <2>1, <2>7, <3>1, <3>2 DEF OrderInv
  <2>8. ASSUME NEW p \in posted' \ InboxSet', p # CancelRequest, rootPc' # "threw"
        PROVE  ReceiptOf(p) \in receipts'
    <3>1. p # m
      BY <2>3, <2>8 DEF InboxSet
    <3>2. p \notin InboxSet
      BY <2>3, <2>8 DEF InboxSet
    <3>. QED
      BY <1>1, <2>1, <2>8, <3>1, <3>2 DEF OrderInv
  <2>. QED
    BY <2>6, <2>7, <2>8 DEF OrderInv
<1>. QED
  BY <1>2, <1>3

LEMMA OrderTakes ==
    ASSUME HostInv, OrderInv, [Next]_vars, Takes
    PROVE  OrderInv'
<1>1. inbox \in Seq(Messages) /\ inbox # << >> /\ UNCHANGED posted
  BY HostTypes DEF HostInv, DurableTypeOK, Takes
<1>. DEFINE n == Len(inbox)
<1>2. /\ n \in Nat /\ DOMAIN inbox = 1..n /\ 1 \in DOMAIN inbox
      /\ DOMAIN inbox' = 1..(n - 1) /\ \A i \in 1..(n - 1) : inbox'[i] = inbox[i + 1]
      /\ Head(inbox) = inbox[1]
  BY <1>1 DEF Takes
<1>3. \A i \in 1..(n - 1) : i + 1 \in DOMAIN inbox
  BY <1>2
<1>4. receipts \subseteq receipts' /\ (rootPc' # "threw" => rootPc # "threw")
  BY ReceiptsStay, ThrewStays DEF rootVars
<1>5. ASSUME NEW i \in DOMAIN inbox', NEW j \in DOMAIN inbox', Precedes(inbox'[i], inbox'[j])
      PROVE  i < j
  <2>1. i + 1 < j + 1
    BY <1>2, <1>3, <1>5 DEF OrderInv
  <2>. QED
    BY <1>2, <2>1
<1>6. ASSUME NEW p \in posted', NEW q \in posted', Precedes(q, p), ReceiptOf(p) \in receipts'
      PROVE  ReceiptOf(q) \in receipts'
  <2>1. CASE ReceiptOf(p) \in receipts
    BY <1>1, <1>4, <1>6, <2>1 DEF OrderInv
  <2>2. CASE ReceiptOf(p) \notin receipts
    <3>1. ReceiptOf(p) = ReceiptOf(Head(inbox))
      BY <1>6, <2>2 DEF Takes
    <3>2. Head(inbox) \in posted
      BY <1>1, HeadMessage
    <3>3. p = inbox[1]
      BY <1>1, <1>2, <3>1, <3>2, ReceiptsDiffer DEF HostInv
    <3>4. q \notin InboxSet
      <4>1. ASSUME NEW i \in DOMAIN inbox, inbox[i] = q PROVE FALSE
        <5>1. i < 1
          BY <1>2, <1>6, <3>3, <4>1 DEF OrderInv
        <5>. QED
          BY <1>2, <5>1
      <4>. QED
        BY <4>1 DEF InboxSet
    <3>5. rootPc # "threw"
      BY <1>6, <2>2, ThrewStays DEF rootVars, runtimeVars
    <3>6. q # CancelRequest
      BY <1>6 DEF Precedes, CancelRequest, ScriptReports, Observations
    <3>. QED
      BY <1>1, <1>4, <3>4, <3>5, <3>6 DEF OrderInv
  <2>. QED
    BY <2>1, <2>2
<1>7. ASSUME NEW p \in posted' \ InboxSet', p # CancelRequest, rootPc' # "threw"
      PROVE  ReceiptOf(p) \in receipts'
  <2>1. CASE p \notin InboxSet
    BY <1>1, <1>4, <1>7, <2>1 DEF OrderInv
  <2>2. CASE p \in InboxSet
    <3>1. PICK i \in DOMAIN inbox : inbox[i] = p
      BY <2>2 DEF InboxSet
    <3>2. i = 1
      <4>1. i # 1 => i - 1 \in DOMAIN inbox' /\ inbox'[i - 1] = inbox[i]
        BY <1>2
      <4>. QED
        BY <1>7, <3>1, <4>1 DEF InboxSet
    <3>3. p = Head(inbox)
      BY <1>2, <3>1, <3>2
    <3>. QED
      BY <1>1, <1>7, <3>3, TakingReceives DEF Takes
  <2>. QED
    BY <2>1, <2>2
<1>. QED
  BY <1>5, <1>6, <1>7 DEF OrderInv

LEMMA OrderInvStep ==
    ASSUME HostInv, ReportsInv, OrderInv, [Next]_vars
    PROVE  OrderInv'
<1>1. rootPc' # "threw" => rootPc # "threw"
  BY ThrewStays DEF rootVars
<1>2. CASE UNCHANGED <<inbox, posted, receipts>>
  BY <1>1, <1>2 DEF OrderInv, InboxSet
<1>. QED
  BY <1>1, <1>2, MessagesMove, OrderSends, OrderTakes

LEMMA OrderInvariant == Spec => []OrderInv
<1>1. Init => OrderInv
  BY DEF Init, DurableInit, RootInit, OrderInv, InboxSet
<1>. QED
  BY <1>1, OrderInvStep, ReportsInvariant, HostInvariant, PTL DEF Spec

-----------------------------------------------------------------------------
(* A receipt is of something that was told about an operation that was     *)
(* started.                                                                *)
LEMMA ReceiptsTell ==
    ASSUME HostInv, NEW a \in HostedAttempts,
           NEW type \in {"observation", "recovery", "retryStart"}, <<type, a>> \in receipts
    PROVE  /\ \E p \in posted : p.type = type /\ p.of = a /\ ReceiptOf(p) = <<type, a>>
           /\ Moved(a[1])
<1>1. PICK p \in posted : ReceiptOf(p) = <<type, a>>
  BY DEF HostInv, InboxInv
<1>2. p \in Messages
  BY HostTypes DEF HostInv, DurableTypeOK
<1>3. p.type = type /\ p.of = a
  BY <1>1 DEF ReceiptOf
<1>4. p \in AboutOperation /\ Subject(p) = a[1]
  BY <1>2, <1>3, Kinds DEF AboutOperation, Subject, CancelRequest
<1>. QED
  BY <1>1, <1>3, <1>4 DEF HostInv, SubjectInv

(* When a report of a script is at hand, what precedes it was received and *)
(* what it precedes was not.                                               *)
LEMMA HeadFollows ==
    ASSUME HostInv, OrderInv, inbox # << >>, rootPc # "threw", NEW p \in posted
    PROVE  /\ Precedes(p, Head(inbox)) => ReceiptOf(p) \in receipts
           /\ Precedes(Head(inbox), p) => ReceiptOf(p) \notin receipts
<1>1. /\ 1 \in DOMAIN inbox /\ Head(inbox) = inbox[1] /\ Head(inbox) \in posted
      /\ ReceiptOf(Head(inbox)) \notin receipts
  BY HeadMessage
<1>2. \A i \in DOMAIN inbox : ~ (i < 1)
  BY HostTypes DEF HostInv, DurableTypeOK
<1>3. ASSUME Precedes(p, Head(inbox)) PROVE ReceiptOf(p) \in receipts
  <2>1. p \notin InboxSet
    BY <1>1, <1>2, <1>3 DEF OrderInv, InboxSet
  <2>2. p # CancelRequest
    BY <1>3, OtherKinds DEF Precedes
  <2>. QED
    BY <2>1, <2>2 DEF OrderInv
<1>. QED
  BY <1>1, <1>3 DEF OrderInv

LEMMA EarlierReceived ==
    ASSUME HostInv, ReportsInv, OrderInv, inbox # << >>, rootPc # "threw",
           Head(inbox) \in ScriptReports, NEW n \in 1..(Head(inbox).of[2] - 1)
    PROVE  Received(<<Head(inbox).of[1], n>>)
<1>1. PICK m : m = Head(inbox)
  OBVIOUS
<1>2. m \in posted /\ m \in ScriptReports /\ n \in 1..(m.of[2] - 1)
  BY <1>1, HeadMessage
<1>3. m.of \in Attempts /\ m.of[1] \in Ops /\ m.of[2] \in Nat /\ n < m.of[2]
  <2>1. m.of \in Attempts
    BY <1>2 DEF ScriptReports, Observations
  <2>. QED
    BY <1>2, <2>1, MaxAttemptsAssumption DEF Attempts, Ordinals
<1>4. PICK p \in posted : p.type = "observation" /\ p.of = <<m.of[1], n>>
  BY <1>2 DEF ReportsInv, LaneProofs!Observed
<1>5. p \in Messages
  BY HostTypes DEF HostInv, DurableTypeOK
<1>6. p \in ScriptReports
  <2>1. p.of[1] \notin Agents
    BY <1>3, <1>4, KindsAssumption
  <2>. QED
    BY <1>4, <1>5, <2>1, Kinds
<1>7. Precedes(p, m) /\ ReceiptOf(p) = <<"observation", <<m.of[1], n>>>>
  BY <1>2, <1>3, <1>4, <1>6 DEF Precedes, ReceiptOf
<1>. QED
  BY <1>1, <1>7, HeadFollows DEF Received

LEMMA LaterUnheard ==
    ASSUME HostInv, OrderInv, inbox # << >>, rootPc # "threw",
           Head(inbox) \in Observations, NEW a \in Attempts,
           a[1] = Head(inbox).of[1], a[2] > Head(inbox).of[2]
    PROVE  <<"retryStart", a>> \notin receipts
<1>. SUFFICES ASSUME <<"retryStart", a>> \in receipts PROVE FALSE
  OBVIOUS
<1>1. PICK p \in posted : /\ p.type = "retryStart" /\ p.of = a
                          /\ ReceiptOf(p) = <<"retryStart", a>>
  BY ReceiptsTell DEF HostedAttempts
<1>2. p \in ScriptReports
  BY <1>1, HostTypes, Kinds DEF HostInv, DurableTypeOK
<1>3. Precedes(Head(inbox), p)
  BY <1>1, <1>2 DEF Precedes, ScriptReports, Observations
<1>. QED
  BY <1>1, <1>3, HeadFollows

(* Of one operation at most one attempt is open.                           *)
LEMMA OpenIsLatest ==
    ASSUME AttemptsInv, NEW a \in HostedAttempts, NEW b \in HostedAttempts, a[1] = b[1],
           Open(a), Open(b)
    PROVE  a = b
<1>1. ASSUME NEW c \in Attempts, NEW d \in Attempts, c[1] = d[1], Open(c), Open(d), c[2] < d[2]
      PROVE  FALSE
  <2>1. c[2] \in 1..(d[2] - 1) /\ c = <<d[1], c[2]>>
    BY <1>1, MaxAttemptsAssumption DEF Attempts, Ordinals
  <2>2. Received(c)
    BY <1>1, <2>1 DEF AttemptsInv, SerialInv
  <2>. QED
    BY <1>1, <2>2 DEF AttemptsInv, OpenInv, HostedAttempts, Open, K!Outcomes
<1>2. CASE a \in Attempts /\ b \in Attempts
  <2>1. a[2] \in Nat /\ b[2] \in Nat /\ a = <<a[1], a[2]>> /\ b = <<b[1], b[2]>>
    BY <1>2, MaxAttemptsAssumption DEF Attempts, Ordinals
  <2>2. ~ (a[2] < b[2]) /\ ~ (b[2] < a[2])
    BY <1>1, <1>2
  <2>. QED
    BY <2>1, <2>2
<1>3. CASE a \notin Attempts \/ b \notin Attempts
  BY <1>3, KindsAssumption DEF HostedAttempts, Attempts
<1>. QED
  BY <1>2, <1>3

(* When an observation is at hand, no other attempt of its operation is    *)
(* open.                                                                   *)
LEMMA OthersAreClosed ==
    ASSUME HostInv, ReportsInv, OrderInv, AttemptsInv, inbox # << >>, rootPc # "threw",
           Head(inbox).type = "observation", NEW a \in HostedAttempts,
           a[1] = Head(inbox).of[1], a # Head(inbox).of
    PROVE  /\ ~ Open(a)
           /\ a \in Attempts /\ ~ Received(a) => ~ Begun(a)
<1>1. PICK m : m = Head(inbox)
  OBVIOUS
<1>2. m \in Messages /\ m.type = "observation" /\ ReceiptOf(m) \notin receipts
  BY <1>1, HeadMessage
<1>3. m \in Observations /\ m.of \in Attempts /\ a \in Attempts
  <2>1. CASE m \in AgentReports
    BY <1>1, <1>2, <2>1, Kinds, KindsAssumption DEF HostedAttempts, Attempts
  <2>2. CASE m \notin AgentReports
    <3>1. m \in Observations /\ m.of \in Attempts
      BY <1>2, <2>2, Kinds
    <3>. QED
      BY <1>1, <3>1, KindsAssumption DEF HostedAttempts, Attempts
  <2>. QED
    BY <2>1, <2>2
<1>4. /\ a = <<a[1], a[2]>> /\ m.of = <<m.of[1], m.of[2]>>
      /\ a[2] \in Nat \ {0} /\ m.of[2] \in Nat \ {0}
  BY <1>3, MaxAttemptsAssumption DEF Attempts, Ordinals
<1>5. ~ Received(m.of)
  BY <1>2 DEF Received, ReceiptOf
<1>6. CASE a[2] < m.of[2]
  <2>1. a[2] \in 1..(m.of[2] - 1) /\ m \in ScriptReports
    BY <1>3, <1>4, <1>6 DEF ScriptReports
  <2>2. Received(<<m.of[1], a[2]>>)
    BY <1>1, <2>1, EarlierReceived
  <2>3. Received(a)
    BY <1>1, <1>4, <2>2
  <2>. QED
    BY <2>3 DEF AttemptsInv, OpenInv, Open, K!Outcomes
<1>7. CASE a[2] > m.of[2]
  <2>1. m.of[2] \in 1..(a[2] - 1) /\ a[2] # 1
    BY <1>4, <1>7
  <2>2. ~ Open(a)
    BY <1>1, <1>3, <1>4, <1>5, <2>1 DEF AttemptsInv, SerialInv
  <2>3. <<"retryStart", a>> \notin receipts
    BY <1>1, <1>3, <1>7, LaterUnheard
  <2>. QED
    BY <2>1, <2>2, <2>3 DEF Begun
<1>. QED
  BY <1>1, <1>4, <1>6, <1>7

(* What the root does to what AttemptsInv speaks of.                       *)
LEMMA AttemptsRest ==
    ASSUME [Next]_vars,
           ~ DispatchOperation, ~ DispatchAgent, ~ StartInteraction, ~ HandleRetryStart,
           ~ HandleLiveEvent, ~ HandleRecovery, ~ HandleObservation, ~ HandleInteraction,
           ~ CancelAttempt, ~ ReconcileCancellation, \A op \in Ops : ~ ClaimCancelFails(op)
    PROVE  /\ UNCHANGED <<started, attempt, active, receipts, recoveryOps>>
           /\ UNCHANGED <<kernel, deferred>> \/ AdvanceKernel \/ HandleCancellation
<1>1. CASE Root
  BY <1>1
     DEF Root, RootStep, ScriptRootStep, InteractionRootStep, AgentRootStep, RefuseCommand,
         StartCancelPending, FinishRun, HandleCancellation, AdvanceKernel, TargetsDone,
         ClaimCancel, NothingToCancel, RelayCancellation, OpenInteraction, CancelInteraction,
         AskAgent, rootVars, runtimeVars, journalVars, durableVars
<1>2. CASE ~ Root
  <2>1. UNCHANGED rootVars
    BY <1>2 DEF Next, Child, Emits, InteractionChild, AgentChild, AgentProcess, ScriptEnds,
       CallChecks, CallSends, CallFails, CancelRunChecks, CancelRunSends, Crash, vars
  <2>2. ASSUME NEW op \in Ops, Child(op) \/ Emits(op) PROVE UNCHANGED started
    BY <2>2 DEF Child, Emits, LaneStep, DispatchIntent, ArbitrateDispatch, ArbitrationFails,
       ExecuteAttempt, ExecutionReturns, ReconcileAttempt, LaneFails, RelayOutcome,
       SendRetryStart, NextAttempt, ScriptEmits, durableVars
  <2>3. ASSUME NEW i \in Interactions, InteractionChild(i) PROVE UNCHANGED started
    BY <2>3 DEF InteractionChild, InteractionStep, ReceivesInteraction, TimerExpires,
       WindowExpires, Hears, RelaySettlement, durableVars
  <2>4. ASSUME NEW g \in Agents, AgentChild(g) PROVE UNCHANGED started
    BY <2>4 DEF AgentChild, AgentStep, AgentDispatchIntent, StartAgent, StartReturns,
       ReconcileAgent, ReceiveTimesOut, LookupAgent, ReceiveCancel, CancelAgent, AgentFails,
       RelayAgent, durableVars
  <2>5. ASSUME \/ \E g \in Agents : AgentProcess(g)
               \/ \E c \in Calls : CallChecks(c) \/ CallSends(c) \/ CallFails(c)
               \/ \E a \in Attempts : ScriptEnds(a)
               \/ CancelRunChecks \/ Crash \/ UNCHANGED vars
        PROVE  UNCHANGED started
    <3>1. UNCHANGED durableVars
      BY <2>5 DEF AgentProcess, AgentEnds, CallChecks, CallSends, CallFails, ScriptEnds,
         CancelRunChecks, Crash, HostCrash, vars
    <3>. QED
      BY <3>1 DEF durableVars
  <2>6. CancelRunSends => UNCHANGED started
    BY DEF CancelRunSends
  <2>7. UNCHANGED started
    BY <1>2, <2>2, <2>3, <2>4, <2>5, <2>6 DEF Next
  <2>. QED
    BY <2>1, <2>7 DEF rootVars, runtimeVars, journalVars
<1>. QED
  BY <1>1, <1>2

(* An agent is started by the root alone, with its attempt.                *)
LEMMA AgentsStart ==
    ASSUME HostInv, [Next]_vars, NEW g \in Agents, AgentAt(g, "unstarted"),
           ~ AgentAt(g, "unstarted")'
    PROVE  DispatchAgent /\ Head(commands).of = g
<1>1. g \in Hosted /\ ~ Moved(g) /\ Moved(g)'
  <2>1. g \notin Ops /\ g \notin Interactions /\ started \subseteq Ops
    BY HostTypes, KindsAssumption DEF HostInv, DurableTypeOK
  <2>. QED
    BY <2>1 DEF Hosted, Moved, AgentAt
<1>2. Starts(g) /\ g \notin active
  BY <1>1, Moves DEF HostInv, IssueInv
<1>3. /\ HasCommand("dispatch") /\ Head(commands) = K!Dispatch(g) /\ Head(commands).of = g
      /\ active' = active \cup {g}
  BY <1>2 DEF Starts, K!Dispatch
<1>4. ~ UNCHANGED active
  BY <1>2, <1>3
<1>5. ~ DispatchOperation /\ ~ StartInteraction
  BY <1>3, KindsAssumption DEF DispatchOperation, StartInteraction
<1>6. /\ ~ HandleRetryStart /\ ~ HandleLiveEvent /\ ~ HandleRecovery /\ ~ HandleObservation
      /\ ~ HandleInteraction /\ ~ CancelAttempt /\ ~ ReconcileCancellation
      /\ \A op \in Ops : ~ ClaimCancelFails(op)
  BY <1>3 DEF HasCommand, HandleRetryStart, HandleLiveEvent, HandleRecovery,
     HandleObservation, HandleInteraction, Receives, CancelAttempt, ReconcileCancellation,
     ClaimCancelFails
<1>. QED
  BY <1>3, <1>4, <1>5, <1>6, AttemptsRest

(* A step that changes no attempt keeps what is said of them, unless it    *)
(* takes an operation off the active ones or off the kernel.               *)
LEMMA AttemptsStay ==
    ASSUME HostInv, AttemptsInv, [Next]_vars, UNCHANGED <<started, attempt, recoveryOps>>,
           ~ DispatchAgent,
           \A a \in HostedAttempts :
              /\ Received(a)' <=> Received(a)
              /\ InDoubt(a)' <=> InDoubt(a)
              /\ <<"retryStart", a>> \in receipts' <=> <<"retryStart", a>> \in receipts
              /\ a[1] \in active => a[1] \in active'
              /\ a[1] \in kernel.pending \ DeferredOps => a[1] \in kernel'.pending \ DeferredOps'
    PROVE  AttemptsInv'
<1>1. ASSUME NEW a \in HostedAttempts PROVE OpenInv(a)'
  BY DEF AttemptsInv, OpenInv
<1>2. ASSUME NEW a \in Attempts PROVE SerialInv(a)'
  <2>1. a \in HostedAttempts /\ \A n \in 1..(a[2] - 1) : <<a[1], n>> \in HostedAttempts
    <3>1. a \in Attempts /\ \A n \in 1..(a[2] - 1) : n \in Ordinals
      BY MaxAttemptsAssumption DEF Attempts, Ordinals
    <3>. QED
      BY <3>1 DEF HostedAttempts, Attempts
  <2>2. Begun(a)' <=> Begun(a)
    BY <2>1 DEF Begun
  <2>. QED
    BY <2>1, <2>2 DEF AttemptsInv, SerialInv, Open
<1>3. ASSUME NEW g \in Agents, ~ AgentAt(g, "unstarted")' PROVE attempt'[<<g, 1>>] # "none"
  BY <1>3, AgentsStart DEF AttemptsInv
<1>. QED
  BY <1>1, <1>2, <1>3 DEF AttemptsInv

(* The kernel goes on: what is in doubt is not told to it.                 *)
LEMMA KernelKeepsDoubts ==
    ASSUME HostInv, AdvanceKernel \/ HandleCancellation,
           NEW x \in kernel.pending \ DeferredOps
    PROVE  x \in kernel'.pending \ DeferredOps'
<1>1. kernel \in KernelStates /\ deferred \in Seq(K!Settlements)
  BY HostTypes DEF HostInv, RootTypeOK, KernelStates
<1>2. CASE UNCHANGED <<kernel, deferred>>
  BY <1>2 DEF DeferredOps
<1>3. ASSUME NEW e \in K!Settlements, Tells(e) PROVE x \in kernel'.pending \ DeferredOps'
  <2>1. deferred # << >> /\ deferred' = Tail(deferred) /\ e = Head(deferred)
    BY <1>3 DEF Tells
  <2>2. 1 \in DOMAIN deferred /\ deferred[1] = e
        /\ \A i \in DOMAIN deferred' : i + 1 \in DOMAIN deferred /\ deferred'[i] = deferred[i + 1]
    BY <1>1, <2>1
  <2>3. x # e.of /\ x \notin DeferredOps'
    BY <2>2 DEF DeferredOps
  <2>4. /\ K!AdvancePipeline(kernel, e).state = kernel'
        /\ kernel.pending \ {e.of} \subseteq K!AdvancePipeline(kernel, e).state.pending
    BY <1>1, <1>3, KernelSettles DEF Tells
  <2>. QED
    BY <2>3, <2>4
<1>4. CASE HandleCancellation /\ ~ UNCHANGED <<kernel, deferred>>
  <2>1. UNCHANGED deferred /\ kernel' = K!AdvancePipeline(kernel, K!CancelRequested).state
    BY <1>4 DEF HandleCancellation
  <2>2. kernel'.pending = kernel.pending
    BY <1>1, <2>1, KernelCancels
  <2>. QED
    BY <2>1, <2>2 DEF DeferredOps
<1>. QED
  BY <1>2, <1>3, <1>4, Telling

(* The steps that change no attempt.                                       *)
LEMMA AttemptsWait ==
    ASSUME HostInv, AttemptsInv, [Next]_vars,
           ~ DispatchOperation, ~ DispatchAgent, ~ HandleRetryStart, ~ HandleRecovery,
           ~ HandleObservation, ~ CancelAttempt, ~ ReconcileCancellation,
           \A op \in Ops : ~ ClaimCancelFails(op)
    PROVE  AttemptsInv'
<1>1. CASE ~ StartInteraction /\ ~ HandleLiveEvent /\ ~ HandleInteraction
  <2>1. UNCHANGED <<started, attempt, active, receipts, recoveryOps>>
    BY <1>1, AttemptsRest
  <2>2. \A x \in kernel.pending \ DeferredOps : x \in kernel'.pending \ DeferredOps'
    BY <1>1, AttemptsRest, KernelKeepsDoubts DEF DeferredOps
  <2>. QED
    BY <2>1, <2>2, AttemptsStay DEF Received, InDoubt
<1>2. CASE StartInteraction \/ HandleLiveEvent
  <2>1. /\ UNCHANGED <<started, attempt, recoveryOps, kernel, deferred>>
        /\ active \subseteq active'
        /\ \A a : /\ Received(a)' <=> Received(a)
                  /\ InDoubt(a)' <=> InDoubt(a)
                  /\ <<"retryStart", a>> \in receipts' <=> <<"retryStart", a>> \in receipts
    <3>1. CASE StartInteraction
      BY <3>1 DEF StartInteraction, durableVars, journalVars, Received, InDoubt
    <3>2. CASE HandleLiveEvent
      <4>1. ReceiptOf(Head(inbox)) = <<"live", Head(inbox).of>>
        BY <3>2 DEF HandleLiveEvent, Receives, ReceiptOf
      <4>2. receipts' \subseteq receipts \cup {<<"live", Head(inbox).of>>}
            /\ receipts \subseteq receipts'
        BY <3>2, <4>1 DEF HandleLiveEvent
      <4>. QED
        BY <3>2, <4>2 DEF HandleLiveEvent, journalVars, Received, InDoubt
    <3>. QED
      BY <1>2, <3>1, <3>2
  <2>. QED
    BY <2>1, AttemptsStay DEF DeferredOps
<1>3. CASE HandleInteraction
  <2>1. PICK m : m = Head(inbox)
    OBVIOUS
  <2>2. m \in Messages /\ m.type = "interaction" /\ m.of \in Interactions
    BY <1>3, <2>1, HeadMessage, Kinds DEF HandleInteraction, Receives
  <2>3. /\ UNCHANGED <<started, attempt, recoveryOps, kernel>>
        /\ receipts \subseteq receipts' /\ receipts' \subseteq receipts \cup {<<"interaction", m.of>>}
    BY <1>3, <2>1, <2>2 DEF HandleInteraction, journalVars, ReceiptOf
  <2>4. active \ {m.of} \subseteq active' /\ DeferredOps' \subseteq DeferredOps \cup {m.of}
    <3>1. \/ UNCHANGED <<active, deferred>>
          \/ /\ active' = active \ {m.of}
             /\ deferred' = Append(deferred, K!Settled(m.of, InteractionOutcome(m.how)))
      BY <1>3, <2>1 DEF HandleInteraction, Settle, Remaining
    <3>2. deferred \in Seq(K!Settlements)
      BY HostTypes DEF HostInv, RootTypeOK
    <3>3. ASSUME NEW e, e.of = m.of, deferred' = Append(deferred, e)
          PROVE  DeferredOps' \subseteq DeferredOps \cup {m.of}
      <4>1. \A i \in DOMAIN deferred' : (i \in DOMAIN deferred /\ deferred'[i] = deferred[i])
                                        \/ deferred'[i] = e
        BY <3>2, <3>3
      <4>. QED
        BY <3>3, <4>1 DEF DeferredOps
    <3>. QED
      BY <3>1, <3>3 DEF DeferredOps, K!Settled
  <2>5. \A a \in HostedAttempts : a[1] # m.of
    BY <2>2, KindsAssumption DEF HostedAttempts, Attempts
  <2>6. \A a : /\ Received(a)' <=> Received(a)
               /\ InDoubt(a)' <=> InDoubt(a)
               /\ <<"retryStart", a>> \in receipts' <=> <<"retryStart", a>> \in receipts
    BY <2>3 DEF Received, InDoubt
  <2>. QED
    BY <2>3, <2>4, <2>5, <2>6, AttemptsStay
<1>. QED
  BY <1>1, <1>2, <1>3

(* The root dispatches an operation: its first attempt runs.               *)
LEMMA AttemptsLaunch ==
    ASSUME HostInv, AttemptsInv, [Next]_vars, DispatchOperation \/ DispatchAgent
    PROVE  AttemptsInv'
<1>1. PICK x \in Ops \cup Agents :
          /\ x = Head(commands).of /\ ~ Moved(x)
          /\ attempt' = [attempt EXCEPT ![<<x, 1>>] = "running"]
          /\ active' = active \cup {x}
          /\ started' = started \/ (x \in Ops /\ started' = started \cup {x})
          /\ UNCHANGED <<kernel, deferred, receipts, recoveryOps>>
  <2>1. HasCommand("dispatch") /\ Head(commands).of \in Ops \cup Agents
    BY DEF DispatchOperation, DispatchAgent
  <2>2. Head(commands).of \in Hosted /\ Queued(Head(commands).of)
    BY <2>1, HostTypes, HeadCommand DEF HostInv, Queued
  <2>3. ~ Moved(Head(commands).of)
    BY <2>2 DEF HostInv, IssueInv
  <2>. QED
    BY <2>1, <2>3 DEF DispatchOperation, DispatchAgent, durableVars
<1>2. attempt \in [HostedAttempts -> AttemptStatuses]
  BY HostTypes DEF HostInv, RootTypeOK
<1>3. \A a \in HostedAttempts : attempt'[a] = IF a = <<x, 1>> THEN "running" ELSE attempt[a]
  BY <1>1, <1>2
<1>4. \A a \in HostedAttempts : a[1] = x =>
         /\ ~ Received(a)
         /\ <<"retryStart", a>> \notin receipts
  BY <1>1, ReceiptsTell DEF Received
<1>5. ASSUME NEW a \in HostedAttempts PROVE OpenInv(a)'
  <2>1. OpenInv(a) /\ DeferredOps' = DeferredOps /\ (Received(a)' <=> Received(a))
    BY <1>1 DEF AttemptsInv, Received, DeferredOps
  <2>2. CASE a = <<x, 1>>
    <3>1. attempt'[a] = "running" /\ a[1] = x /\ x \in active'
      BY <1>1, <1>3, <2>2
    <3>2. ~ Received(a)'
      BY <1>4, <2>1, <3>1
    <3>. QED
      BY <3>1, <3>2 DEF OpenInv
  <2>3. CASE a # <<x, 1>>
    <3>1. attempt'[a] = attempt[a]
      BY <1>3, <2>3
    <3>. QED
      BY <1>1, <2>1, <3>1 DEF OpenInv
  <2>. QED
    BY <2>2, <2>3
<1>6. ASSUME NEW a \in Attempts PROVE SerialInv(a)'
  <2>1. a \in HostedAttempts /\ a = <<a[1], a[2]>> /\ SerialInv(a)
    BY DEF HostedAttempts, Attempts, AttemptsInv
  <2>2. CASE a = <<x, 1>>
    <3>1. attempt'[a] = "running" /\ a[1] = x /\ a[2] = 1 /\ x \in active'
      BY <1>1, <1>3, <2>1, <2>2
    <3>. QED
      BY <3>1 DEF SerialInv
  <2>3. CASE a # <<x, 1>>
    <3>1. attempt'[a] = attempt[a]
      BY <1>3, <2>1, <2>3
    <3>2. Begun(a)' => Begun(a)
      BY <1>1, <2>1, <2>3 DEF Begun
    <3>. QED
      BY <1>1, <2>1, <3>1, <3>2 DEF SerialInv, Open, Received, InDoubt
  <2>. QED
    BY <2>2, <2>3
<1>7. ASSUME NEW g \in Agents, ~ AgentAt(g, "unstarted")' PROVE attempt'[<<g, 1>>] # "none"
  <2>1. <<g, 1>> \in HostedAttempts
    BY DEF HostedAttempts
  <2>. QED
    BY <1>1, <1>3, <1>7, <2>1, AgentsStart DEF AttemptsInv
<1>. QED
  BY <1>5, <1>6, <1>7 DEF AttemptsInv

(* The root hears that the next attempt of a script starts.                *)
LEMMA AttemptsRestart ==
    ASSUME HostInv, JournalInv, ReportsInv, OrderInv, AttemptsInv, [Next]_vars,
           HandleRetryStart
    PROVE  AttemptsInv'
<1>1. PICK m : m = Head(inbox)
  OBVIOUS
<1>2. /\ m \in posted /\ m \in ScriptReports /\ m.of \in Attempts /\ m.type = "retryStart"
      /\ ReceiptOf(m) = <<"retryStart", m.of>> /\ inbox # << >> /\ rootPc # "threw"
      /\ ReceiptOf(m) \notin receipts
  BY <1>1, HeadMessage, Kinds DEF HandleRetryStart, Receives, ReceiptOf
<1>3. /\ UNCHANGED <<started, kernel, deferred, active, recoveryOps>>
      /\ \/ UNCHANGED <<attempt, receipts>>
         \/ /\ m.of[1] \in active /\ attempt' = [attempt EXCEPT ![m.of] = Started(m.of)]
            /\ receipts' = receipts \cup {<<"retryStart", m.of>>}
  BY <1>1, <1>2 DEF HandleRetryStart
<1>4. ~ DispatchAgent
  BY <1>2 DEF HandleRetryStart, Receives, DispatchAgent, HasCommand
<1>5. CASE UNCHANGED <<attempt, receipts>>
  BY <1>3, <1>4, <1>5, AttemptsStay DEF DeferredOps, Received, InDoubt
<1>6. CASE /\ m.of[1] \in active /\ attempt' = [attempt EXCEPT ![m.of] = Started(m.of)]
           /\ receipts' = receipts \cup {<<"retryStart", m.of>>}
  <2>1. attempt \in [HostedAttempts -> AttemptStatuses] /\ m.of \in HostedAttempts
    BY <1>2, HostTypes DEF HostInv, RootTypeOK, HostedAttempts
  <2>2. \A a \in HostedAttempts :
           attempt'[a] = IF a = m.of THEN Started(m.of) ELSE attempt[a]
    BY <1>6, <2>1
  <2>3. \A a : (Received(a)' <=> Received(a)) /\ (InDoubt(a)' <=> InDoubt(a))
    BY <1>6 DEF Received, InDoubt
  <2>4. \A a \in HostedAttempts :
           /\ attempt[a] \in K!Outcomes \cup {"unknown"} => attempt'[a] = attempt[a]
           /\ a = m.of \/ attempt'[a] = attempt[a]
           /\ attempt'[a] \in K!Outcomes \cup {"unknown"} => attempt'[a] = attempt[a]
    BY <2>1, <2>2 DEF Started, K!Outcomes
  <2>5. ASSUME NEW a \in HostedAttempts PROVE OpenInv(a)'
    BY <1>3, <1>6, <2>3, <2>4 DEF AttemptsInv, OpenInv, DeferredOps
  <2>6. ASSUME NEW a \in Attempts PROVE SerialInv(a)'
    <3>1. a \in HostedAttempts /\ SerialInv(a)
      BY DEF HostedAttempts, AttemptsInv
    <3>2. CASE a = m.of
      <4>1. \A n \in 1..(a[2] - 1) : Received(<<a[1], n>>)
        BY <1>1, <1>2, <3>2, EarlierReceived
      <4>2. attempt[a] = "unknown" => a[1] \in recoveryOps \/ InDoubt(a)
        BY <3>1 DEF SerialInv
      <4>3. attempt[a] \in K!Outcomes => Received(a)
        BY <3>1 DEF JournalInv, PublishedOnce, Received
      <4>4. attempt'[a] = "running" \/ attempt[a] \in K!Outcomes \cup {"unknown"}
        BY <2>1, <2>2, <3>1, <3>2 DEF Started, AttemptStatuses
      <4>. QED
        BY <1>3, <1>6, <2>3, <2>4, <3>1, <3>2, <4>1, <4>2, <4>3, <4>4 DEF SerialInv
    <3>3. CASE a # m.of
      <4>1. Begun(a)' <=> Begun(a)
        BY <1>3, <1>6, <3>3 DEF Begun
      <4>. QED
        BY <1>3, <2>3, <2>4, <3>1, <3>3, <4>1 DEF SerialInv, Open
    <3>. QED
      BY <3>2, <3>3
  <2>7. ASSUME NEW g \in Agents, ~ AgentAt(g, "unstarted")' PROVE attempt'[<<g, 1>>] # "none"
    <3>1. attempt[<<g, 1>>] # "none" /\ <<g, 1>> \in HostedAttempts
      BY <1>4, <2>7, AgentsStart DEF AttemptsInv, HostedAttempts
    <3>. QED
      BY <2>2, <3>1 DEF Started
  <2>. QED
    BY <2>5, <2>6, <2>7 DEF AttemptsInv
<1>. QED
  BY <1>3, <1>5, <1>6

(* The outcome of a running attempt is in doubt: its child relayed that,   *)
(* or its cancellation is to be recovered.                                 *)
LEMMA AttemptsDoubt ==
    ASSUME HostInv, KernelInv, AttemptsInv, [Next]_vars, ~ DispatchAgent,
           NEW b \in HostedAttempts, Open(b), MarkRecovery(b),
           b[1] \in active, UNCHANGED <<started, kernel, deferred>>,
           \/ /\ UNCHANGED recoveryOps /\ active' = active \ {b[1]}
              /\ receipts' = receipts \cup {<<"recovery", b>>}
           \/ /\ UNCHANGED <<active, receipts>> /\ recoveryOps' = recoveryOps \cup {b[1]}
    PROVE  AttemptsInv'
<1>1. attempt \in [HostedAttempts -> AttemptStatuses]
  BY HostTypes DEF HostInv, RootTypeOK
<1>2. \A a \in HostedAttempts : attempt'[a] = IF a = b THEN "unknown" ELSE attempt[a]
  BY <1>1 DEF MarkRecovery
<1>3. ~ Received(b)
  BY DEF AttemptsInv, OpenInv, Open, K!Outcomes
<1>4. b[1] \in kernel.pending \ DeferredOps
  BY DEF KernelInv, DeferredOps
<1>5. /\ \A a : Received(a)' <=> Received(a)
      /\ \A a : <<"retryStart", a>> \in receipts' <=> <<"retryStart", a>> \in receipts
      /\ \A a : InDoubt(a) => InDoubt(a)'
      /\ \A a : a # b => (InDoubt(a)' <=> InDoubt(a))
      /\ InDoubt(b)' \/ b[1] \in recoveryOps'
      /\ recoveryOps \subseteq recoveryOps'
  BY DEF Received, InDoubt
<1>6. \A a \in HostedAttempts : a # b /\ Open(a) => a[1] # b[1]
  BY OpenIsLatest
<1>7. \A x \in active : x # b[1] => x \in active'
  OBVIOUS
<1>8. ASSUME NEW a \in HostedAttempts PROVE OpenInv(a)'
  <2>1. OpenInv(a) /\ DeferredOps' = DeferredOps
    BY DEF AttemptsInv, DeferredOps
  <2>2. CASE a = b
    <3>1. attempt'[a] = "unknown" /\ ~ Received(a)'
      BY <1>2, <1>3, <1>5, <2>2
    <3>. QED
      BY <1>4, <2>1, <2>2, <3>1 DEF OpenInv
  <2>3. CASE a # b
    <3>1. attempt'[a] = attempt[a]
      BY <1>2, <2>3
    <3>. QED
      BY <1>5, <1>6, <1>7, <2>1, <2>3, <3>1 DEF OpenInv, Open
  <2>. QED
    BY <2>2, <2>3
<1>9. ASSUME NEW a \in Attempts PROVE SerialInv(a)'
  <2>1. a \in HostedAttempts /\ SerialInv(a) /\ (Begun(a)' <=> Begun(a))
    BY <1>5 DEF HostedAttempts, AttemptsInv, Begun
  <2>2. CASE a = b
    BY <1>3, <1>5, <2>1, <2>2 DEF SerialInv
  <2>3. CASE a # b
    <3>1. attempt'[a] = attempt[a]
      BY <1>2, <2>1, <2>3
    <3>2. a[1] \in active /\ attempt[a] = "running" => a[1] \in active'
      BY <1>6, <1>7, <2>1, <2>3 DEF Open
    <3>. QED
      BY <1>5, <2>1, <2>3, <3>1, <3>2 DEF SerialInv, Open
  <2>. QED
    BY <2>2, <2>3
<1>10. ASSUME NEW g \in Agents, ~ AgentAt(g, "unstarted")' PROVE attempt'[<<g, 1>>] # "none"
  <2>1. attempt[<<g, 1>>] # "none" /\ <<g, 1>> \in HostedAttempts
    BY <1>10, AgentsStart DEF AttemptsInv, HostedAttempts
  <2>. QED
    BY <1>2, <2>1
<1>. QED
  BY <1>8, <1>9, <1>10 DEF AttemptsInv

LEMMA AttemptsRecover ==
    ASSUME HostInv, KernelInv, JournalInv, AttemptsInv, [Next]_vars,
           \/ HandleRecovery \/ CancelAttempt \/ ReconcileCancellation
           \/ \E op \in Ops : ClaimCancelFails(op)
    PROVE  AttemptsInv'
<1>1. ~ DispatchAgent
  BY DEF HandleRecovery, Receives, CancelAttempt, ReconcileCancellation, ClaimCancelFails,
     DispatchAgent, HasCommand
<1>2. CASE UNCHANGED <<started, attempt, recoveryOps, receipts, active, kernel, deferred>>
  BY <1>1, <1>2, AttemptsStay DEF DeferredOps, Received, InDoubt
<1>3. CASE HandleRecovery
  <2>1. PICK m : m = Head(inbox)
    OBVIOUS
  <2>2. /\ m \in Messages /\ m.type = "recovery" /\ m.of \in HostedAttempts
        /\ ReceiptOf(m) = <<"recovery", m.of>>
    BY <1>3, <2>1, HeadMessage, Kinds DEF HandleRecovery, Receives, ReceiptOf, HostedAttempts
  <2>3. CASE Recoverable(m.of) /\ MarkRecovery(m.of)
             /\ receipts' = receipts \cup {<<"recovery", m.of>>}
             /\ active' = active \ {m.of[1]}
    <3>1. Open(m.of) /\ m.of[1] \in active
      BY <2>2, <2>3 DEF Recoverable, JournalInv, PublishedOnce, Open
    <3>2. UNCHANGED <<started, kernel, deferred, recoveryOps>>
      BY <1>3 DEF HandleRecovery
    <3>. QED
      BY <1>1, <2>2, <2>3, <3>1, <3>2, AttemptsDoubt
  <2>4. UNCHANGED <<started, kernel, deferred, recoveryOps>>
    BY <1>3 DEF HandleRecovery
  <2>5. CASE UNCHANGED <<receipts, active, attempt>>
    BY <1>2, <2>4, <2>5
  <2>. QED
    BY <1>3, <2>1, <2>2, <2>3, <2>5 DEF HandleRecovery, Remaining, journalVars
<1>4. ASSUME NEW a \in Attempts, RecordCancellationRecovery(a),
             attempt[a] \in {"pending", "running"},
             UNCHANGED <<started, kernel, deferred, active, receipts>>
      PROVE  AttemptsInv'
  <2>1. a \in HostedAttempts /\ Open(a) /\ a[1] \in active
    BY <1>4 DEF HostedAttempts, Open, AttemptsInv, OpenInv
  <2>. QED
    BY <1>1, <1>4, <2>1, AttemptsDoubt DEF RecordCancellationRecovery
<1>5. CASE CancelAttempt \/ ReconcileCancellation
  <2>1. target \in Attempts /\ attempt[target] \in {"pending", "running"}
    BY <1>5 DEF CancelAttempt, ReconcileCancellation, HostInv, TargetInv, JournalInv,
       PublishedOnce, Claiming
  <2>2. UNCHANGED <<started, kernel, deferred, active, receipts>>
    BY <1>5 DEF CancelAttempt, ReconcileCancellation, durableVars
  <2>3. UNCHANGED <<attempt, recoveryOps>> \/ RecordCancellationRecovery(target)
    BY <1>5 DEF CancelAttempt, ReconcileCancellation, journalVars
  <2>. QED
    BY <1>2, <1>4, <2>1, <2>2, <2>3
<1>6. ASSUME NEW op \in Ops, ClaimCancelFails(op) PROVE AttemptsInv'
  <2>1. LatestAttempt(op) \in CancellableAttempts(op)
    BY <1>6, LatestAttemptExists DEF ClaimCancelFails
  <2>. QED
    BY <1>4, <1>6, <2>1 DEF ClaimCancelFails, CancellableAttempts
<1>. QED
  BY <1>3, <1>5, <1>6

(* The root hears that an attempt failed and another follows.              *)
LEMMA AttemptsRetry ==
    ASSUME HostInv, ReportsInv, OrderInv, AttemptsInv, [Next]_vars, ~ DispatchAgent,
           NEW m, m = Head(inbox), inbox # << >>, rootPc # "threw", m.type = "observation",
           m.retrying, m.of[1] \in active, ApplyRetrying(m),
           receipts' = receipts \cup {<<"observation", m.of>>},
           UNCHANGED <<started, kernel>>
    PROVE  AttemptsInv'
<1>. DEFINE next == <<m.of[1], m.of[2] + 1>>
<1>1. m \in Messages /\ m \in posted
  BY HeadMessage
<1>2. m \in Observations /\ m \in ScriptReports /\ m.of \in Attempts /\ m.of \in HostedAttempts
  <2>1. m \notin AgentReports
    BY DEF AgentReports
  <2>. QED
    BY <1>1, <2>1, Kinds DEF HostedAttempts
<1>3. m.of = <<m.of[1], m.of[2]>> /\ m.of[2] \in Nat \ {0}
  BY <1>2, MaxAttemptsAssumption DEF Attempts, Ordinals
<1>4. attempt \in [HostedAttempts -> AttemptStatuses]
  BY HostTypes DEF HostInv, RootTypeOK
<1>5. UNCHANGED <<active, deferred, recoveryOps>>
  BY DEF ApplyRetrying
<1>6. Observes(m)
  <2>1. ReceiptOf(m) \notin receipts /\ ReceiptOf(m) = <<"observation", m.of>>
    BY HeadMessage DEF ReceiptOf
  <2>. QED
    BY <1>1, <1>2, <2>1 DEF Observes, ApplyRetrying
<1>7. \A a \in HostedAttempts :
         \/ a = m.of /\ attempt'[a] = "failed"
         \/ a # m.of /\ a = next /\ attempt[a] = "none" /\ attempt'[a] = "pending"
         \/ a # m.of /\ attempt'[a] = attempt[a]
  BY <1>6, ObservedChanges
<1>8. /\ \A a : Received(a)' <=> Received(a) \/ a = m.of
      /\ \A a : InDoubt(a)' <=> InDoubt(a)
      /\ \A a : <<"retryStart", a>> \in receipts' <=> <<"retryStart", a>> \in receipts
      /\ DeferredOps' = DeferredOps
  BY <1>5 DEF Received, InDoubt, DeferredOps
<1>9. ASSUME NEW a \in HostedAttempts PROVE OpenInv(a)'
  <2>1. OpenInv(a)
    BY DEF AttemptsInv
  <2>2. CASE a = m.of
    BY <1>7, <2>2 DEF OpenInv, K!Outcomes
  <2>3. CASE a # m.of /\ a = next /\ attempt[a] = "none" /\ attempt'[a] = "pending"
    <3>1. attempt'[a] = "pending" /\ a[1] = m.of[1] /\ ~ Received(a)'
      BY <1>7, <1>8, <2>1, <2>3 DEF OpenInv, K!Outcomes
    <3>. QED
      BY <1>5, <3>1 DEF OpenInv
  <2>4. CASE a # m.of /\ attempt'[a] = attempt[a]
    BY <1>5, <1>8, <2>1, <2>4 DEF OpenInv
  <2>. QED
    BY <1>7, <2>1, <2>2, <2>3, <2>4
<1>10. ASSUME NEW a \in Attempts PROVE SerialInv(a)'
  <2>1. a \in HostedAttempts /\ SerialInv(a) /\ (Begun(a)' <=> Begun(a))
    BY <1>8 DEF HostedAttempts, AttemptsInv, Begun
  <2>2. CASE a = m.of
    BY <1>7, <1>8, <2>1, <2>2 DEF SerialInv, Open
  <2>3. CASE a # m.of /\ a = next /\ attempt[a] = "none" /\ attempt'[a] = "pending"
    <3>1. attempt'[a] = "pending" /\ a[1] = m.of[1] /\ a[2] = m.of[2] + 1
      BY <1>7, <2>1, <2>3
    <3>2. ASSUME NEW n \in 1..(a[2] - 1) PROVE Received(<<a[1], n>>)'
      <4>1. n \in 1..(m.of[2] - 1) \/ n = m.of[2]
        BY <1>3, <3>1, <3>2
      <4>2. n = m.of[2] => <<a[1], n>> = m.of
        BY <1>3, <3>1
      <4>3. n \in 1..(m.of[2] - 1) => Received(<<m.of[1], n>>)
        BY <1>2, EarlierReceived
      <4>. QED
        BY <1>8, <3>1, <4>1, <4>2, <4>3
    <3>3. ~ (Open(a)) /\ attempt[a] # "running"
      BY <2>3 DEF Open
    <3>. QED
      BY <1>5, <1>8, <2>1, <2>3, <3>1, <3>2, <3>3 DEF SerialInv
  <2>4. CASE a # m.of /\ attempt'[a] = attempt[a]
    BY <1>5, <1>8, <2>1, <2>4 DEF SerialInv, Open
  <2>. QED
    BY <1>7, <2>1, <2>2, <2>3, <2>4
<1>11. ASSUME NEW g \in Agents, ~ AgentAt(g, "unstarted")' PROVE attempt'[<<g, 1>>] # "none"
  <2>1. attempt[<<g, 1>>] # "none" /\ <<g, 1>> \in HostedAttempts
    BY <1>11, AgentsStart DEF AttemptsInv, HostedAttempts
  <2>. QED
    BY <1>7, <2>1
<1>. QED
  BY <1>9, <1>10, <1>11 DEF AttemptsInv

(* The root hears of the end of an operation.                              *)
LEMMA AttemptsSettle ==
    ASSUME HostInv, ReportsInv, OrderInv, AttemptsInv, [Next]_vars, ~ DispatchAgent,
           NEW m, m = Head(inbox), inbox # << >>, rootPc # "threw", m.type = "observation",
           m.of[1] \in active, ApplySettled(m),
           receipts' = receipts \cup {<<"observation", m.of>>},
           UNCHANGED <<started, kernel>>
    PROVE  AttemptsInv'
<1>. DEFINE op == m.of[1]
            outcome == OutcomeOf(m.result)
<1>1. m \in Messages /\ m.of \in HostedAttempts
  <2>1. m \in Messages
    BY HeadMessage
  <2>. QED
    BY <2>1, Kinds DEF HostedAttempts
<1>2. outcome \in K!Outcomes
  <2>1. m.result \in Results \cup {"preDispatch"}
    BY <1>1, Kinds DEF Observations, AgentReports, AgentResults, Results
  <2>. QED
    BY <2>1 DEF OutcomeOf, K!Outcomes, Results
<1>3. \A a \in HostedAttempts : attempt'[a] = IF a = m.of THEN outcome ELSE attempt[a]
  <2>1. attempt \in [HostedAttempts -> AttemptStatuses]
    BY HostTypes DEF HostInv, RootTypeOK
  <2>. QED
    BY <2>1 DEF ApplySettled
<1>4. active' = active \ {op} /\ recoveryOps \ {op} \subseteq recoveryOps'
      /\ deferred' = Append(deferred, K!Settled(op, outcome))
  BY DEF ApplySettled, Settle, Remaining, StillRecovering
<1>5. DeferredOps' \subseteq DeferredOps \cup {op}
  <2>1. deferred \in Seq(K!Settlements)
    BY HostTypes DEF HostInv, RootTypeOK
  <2>2. PICK e : e = K!Settled(op, outcome)
    OBVIOUS
  <2>3. e.of = op /\ deferred' = Append(deferred, e)
    BY <1>4, <2>2 DEF K!Settled
  <2>4. \A i \in DOMAIN deferred' : (i \in DOMAIN deferred /\ deferred'[i] = deferred[i])
                                    \/ deferred'[i] = e
    BY <2>1, <2>3
  <2>. QED
    BY <2>3, <2>4 DEF DeferredOps
<1>6. /\ \A a : Received(a)' <=> Received(a) \/ a = m.of
      /\ \A a : InDoubt(a)' <=> InDoubt(a)
      /\ \A a : <<"retryStart", a>> \in receipts' <=> <<"retryStart", a>> \in receipts
  BY DEF Received, InDoubt
<1>7. ASSUME NEW a \in HostedAttempts, a # m.of, a[1] = op
      PROVE  ~ Open(a) /\ (a \in Attempts /\ ~ Received(a) => ~ Begun(a))
  BY <1>7, OthersAreClosed
<1>. HIDE DEF op, outcome
<1>8. ASSUME NEW a \in HostedAttempts PROVE OpenInv(a)'
  <2>1. OpenInv(a)
    BY DEF AttemptsInv
  <2>2. CASE a = m.of
    BY <1>2, <1>3, <2>2 DEF OpenInv, K!Outcomes
  <2>3. CASE a # m.of
    <3>1. attempt'[a] = attempt[a]
      BY <1>3, <2>3
    <3>. QED
      BY <1>4, <1>5, <1>6, <1>7, <2>1, <2>3, <3>1 DEF OpenInv, Open
  <2>. QED
    BY <2>2, <2>3
<1>9. ASSUME NEW a \in Attempts PROVE SerialInv(a)'
  <2>1. a \in HostedAttempts /\ SerialInv(a) /\ (Begun(a)' <=> Begun(a))
    BY <1>6 DEF HostedAttempts, AttemptsInv, Begun
  <2>2. CASE a = m.of
    <3>1. attempt'[a] \in K!Outcomes /\ Received(a)'
      BY <1>2, <1>3, <1>6, <2>1, <2>2
    <3>. QED
      BY <3>1 DEF SerialInv, Open, K!Outcomes
  <2>3. CASE a # m.of /\ a[1] = op
    <3>1. attempt'[a] = attempt[a] /\ ~ Open(a)' /\ (Begun(a)' => Received(a)')
      BY <1>3, <1>6, <1>7, <2>1, <2>3 DEF Open
    <3>. QED
      BY <3>1 DEF SerialInv, Open
  <2>4. CASE a # m.of /\ a[1] # op
    <3>1. attempt'[a] = attempt[a]
      BY <1>3, <2>1, <2>4
    <3>. QED
      BY <1>4, <1>6, <2>1, <2>4, <3>1 DEF SerialInv, Open
  <2>. QED
    BY <2>2, <2>3, <2>4
<1>10. ASSUME NEW g \in Agents, ~ AgentAt(g, "unstarted")' PROVE attempt'[<<g, 1>>] # "none"
  <2>1. attempt[<<g, 1>>] # "none" /\ <<g, 1>> \in HostedAttempts
    BY <1>10, AgentsStart DEF AttemptsInv, HostedAttempts
  <2>. QED
    BY <1>2, <1>3, <2>1 DEF K!Outcomes
<1>. QED
  BY <1>8, <1>9, <1>10 DEF AttemptsInv

LEMMA AttemptsObserve ==
    ASSUME HostInv, ReportsInv, OrderInv, AttemptsInv, [Next]_vars, HandleObservation
    PROVE  AttemptsInv'
<1>1. PICK m : m = Head(inbox)
  OBVIOUS
<1>2. /\ m.type = "observation" /\ inbox # << >> /\ rootPc # "threw" /\ ~ DispatchAgent
      /\ UNCHANGED <<started, kernel>> /\ ReceiptOf(m) = <<"observation", m.of>>
  BY <1>1 DEF HandleObservation, Receives, DispatchAgent, HasCommand, ReceiptOf
<1>3. CASE UNCHANGED <<receipts, attempt, active, recoveryOps, deferred>>
  BY <1>2, <1>3, AttemptsStay DEF DeferredOps, Received, InDoubt
<1>4. CASE /\ receipts' = receipts \cup {ReceiptOf(m)} /\ m.of[1] \in active
           /\ IF m.retrying THEN ApplyRetrying(m) ELSE ApplySettled(m)
  BY <1>1, <1>2, <1>4, AttemptsRetry, AttemptsSettle
<1>. QED
  BY <1>1, <1>3, <1>4 DEF HandleObservation, Applicable

LEMMA AttemptsInvStep ==
    ASSUME HostInv, JournalInv, KernelInv, ReportsInv, OrderInv, AttemptsInv, [Next]_vars
    PROVE  AttemptsInv'
  BY AttemptsLaunch, AttemptsRestart, AttemptsRecover, AttemptsObserve, AttemptsWait

LEMMA AttemptsInvariant == Spec => []AttemptsInv
<1>1. Init => AttemptsInv
  <2>. SUFFICES ASSUME Init PROVE AttemptsInv
    OBVIOUS
  <2>1. /\ \A a \in HostedAttempts : attempt[a] = "none"
        /\ receipts = {} /\ started = {} /\ \A g \in Agents : AgentAt(g, "unstarted")
    BY DEF Init, RootInit, DurableInit, AgentInit, AgentAt
  <2>. QED
    BY <2>1 DEF AttemptsInv, OpenInv, SerialInv, Open, Received, InDoubt, Begun, HostedAttempts
<1>2. HostInv /\ JournalInv /\ KernelInv /\ ReportsInv /\ OrderInv /\ AttemptsInv /\ [Next]_vars
      => AttemptsInv'
  BY AttemptsInvStep
<1>. QED
  BY <1>1, <1>2, HostInvariant, JournalInvariant, KernelInvariant, ReportsInvariant,
     OrderInvariant, PTL DEF Spec

(* A live event is told before the outcome of its attempt and after the    *)
(* root was told that the attempt starts: the root takes it.               *)
THEOREM LiveEventsAreDrained == Spec => []LiveEventsAreTaken
<1>1. ASSUME HostInv, ReportsInv, OrderInv, AttemptsInv, rootPc = "loop", inbox # << >>,
             Head(inbox).type = "live"
      PROVE  Ignored(Head(inbox)) \/ Drainable(Head(inbox))
  <2>1. PICK m : m = Head(inbox)
    OBVIOUS
  <2>. DEFINE a == m.of
  <2>2. /\ m \in posted /\ m \in Messages /\ m \in ScriptReports /\ m.type = "live"
        /\ a \in Attempts /\ rootPc # "threw"
    BY <1>1, <2>1, HeadMessage, Kinds
  <2>3. a[1] \in Ops /\ a = <<a[1], a[2]>> /\ a[2] \in Nat \ {0} /\ a \in HostedAttempts
    BY <2>2, MaxAttemptsAssumption DEF Attempts, Ordinals, HostedAttempts
  <2>4. ASSUME NEW type \in {"observation", "recovery"}, <<type, a>> \in receipts
        PROVE  FALSE
    <3>1. PICK p \in posted : p.type = type /\ p.of = a /\ ReceiptOf(p) = <<type, a>>
      <4>1. ASSUME NEW b \in HostedAttempts, <<"observation", b>> \in receipts
            PROVE  \E p \in posted :
                      /\ p.type = "observation" /\ p.of = b
                      /\ ReceiptOf(p) = <<"observation", b>>
        BY <1>1, <4>1, ReceiptsTell
      <4>2. ASSUME NEW b \in HostedAttempts, <<"recovery", b>> \in receipts
            PROVE  \E p \in posted : p.type = "recovery" /\ p.of = b /\ ReceiptOf(p) = <<"recovery", b>>
        BY <1>1, <4>2, ReceiptsTell
      <4>. QED
        BY <2>3, <2>4, <4>1, <4>2
    <3>2. p \in Messages /\ p.of[1] \notin Agents
      BY <1>1, <2>3, <3>1, HostTypes, KindsAssumption DEF HostInv, DurableTypeOK
    <3>3. p \in ScriptReports
      BY <3>1, <3>2, Kinds
    <3>4. Precedes(m, p)
      BY <2>2, <3>1, <3>3 DEF Precedes
    <3>. QED
      BY <1>1, <2>1, <2>2, <2>4, <3>1, <3>4, HeadFollows
  <2>5. Begun(a)
    <3>1. CASE a[2] = 1
      <4>1. Moved(a[1])
        <5>1. m \in AboutOperation /\ Subject(m) = a[1]
          BY <2>2 DEF AboutOperation, Subject, CancelRequest
        <5>. QED
          BY <1>1, <2>2, <5>1 DEF HostInv, SubjectInv
      <4>2. a[1] \in started
        BY <2>3, <4>1, KindsAssumption DEF Moved
      <4>. QED
        BY <3>1, <4>2 DEF Begun
    <3>2. CASE a[2] # 1
      <4>1. RetryStart(a) \in posted /\ a[2] > 1
        BY <1>1, <2>2, <2>3, <3>2 DEF ReportsInv
      <4>2. RetryStart(a) \in ScriptReports /\ RetryStart(a).type = "retryStart"
            /\ RetryStart(a).of = a /\ ReceiptOf(RetryStart(a)) = <<"retryStart", a>>
        BY <2>2 DEF RetryStart, ScriptReports, ReceiptOf
      <4>3. Precedes(RetryStart(a), m)
        BY <2>2, <4>2 DEF Precedes
      <4>. QED
        BY <1>1, <2>1, <2>2, <3>2, <4>1, <4>2, <4>3, HeadFollows DEF Begun
    <3>. QED
      BY <3>1, <3>2
  <2>6. (a[1] \in active /\ attempt[a] = "running") \/ a[1] \in recoveryOps
    BY <1>1, <2>2, <2>4, <2>5 DEF AttemptsInv, SerialInv, Received, InDoubt
  <2>. QED
    BY <2>1, <2>6 DEF Ignored, Drainable
<1>2. HostInv /\ ReportsInv /\ OrderInv /\ AttemptsInv => LiveEventsAreTaken
  BY <1>1 DEF LiveEventsAreTaken
<1>. QED
  BY <1>2, HostInvariant, ReportsInvariant, OrderInvariant, AttemptsInvariant, PTL

-----------------------------------------------------------------------------
(* A root that returned takes no step.                                     *)
LEMMA ReturnedStays ==
    ASSUME [Next]_vars, rootPc = "returned"
    PROVE  UNCHANGED <<rootVars, journal>>
<1>1. ~ RootStep
  BY DEF RootStep, ScriptRootStep, InteractionRootStep, AgentRootStep, RefuseCommand,
     DispatchOperation, DispatchAgent, OpenInteraction, StartInteraction, StartCancelPending,
     FinishRun, HasCommand, HandleCancellation, HandleLiveEvent, HandleRetryStart,
     HandleRecovery, HandleObservation, HandleInteraction, Receives, AdvanceKernel,
     TargetsDone, ClaimCancel, ClaimCancelFails, NothingToCancel, CancelAttempt,
     ReconcileCancellation, RelayCancellation, CancelInteraction, AskAgent
<1>2. UNCHANGED rootVars
  BY <1>1 DEF Next, Root, Child, Emits, InteractionChild, AgentChild, AgentProcess, ScriptEnds,
     CallChecks, CallSends, CallFails, CancelRunChecks, CancelRunSends, Crash, vars
<1>3. ASSUME NEW i \in Interactions, InteractionChild(i) PROVE UNCHANGED journal
  BY <1>3 DEF InteractionChild, InteractionStep, ReceivesInteraction, TimerExpires,
     WindowExpires, RelaySettlement, Hears
<1>4. UNCHANGED journal
  BY <1>1, <1>3 DEF Next, Root, Child, Emits, AgentChild, AgentProcess, ScriptEnds,
     CallChecks, CallSends, CallFails, CancelRunChecks, CancelRunSends, Crash, vars, peerVars,
     interactionVars
<1>. QED
  BY <1>2, <1>4

(* How the journal of a wait or gate comes to say that it is pending.      *)
LEMMA PendingMoves ==
    ASSUME HostInv, [Next]_vars, NEW i \in Interactions, journal'[i] = "pending"
    PROVE  \/ /\ journal[i] = "pending"
              /\ HandleInteraction /\ ~ UNCHANGED active => Head(inbox).of # i
           \/ OpenInteraction /\ Head(commands).of = i
<1>1. journal \in [Interactions -> Heard \cup {"none", "pending"}]
  BY HostTypes DEF HostInv, InteractionTypeOK
<1>2. CASE OpenInteraction
  <2>1. CASE Head(commands).of = i
    BY <1>2, <2>1
  <2>2. CASE Head(commands).of # i
    BY <1>1, <1>2, <2>2, HeadCommand DEF OpenInteraction, HandleInteraction, Receives,
       HasCommand
  <2>. QED
    BY <2>1, <2>2
<1>3. CASE HandleInteraction
  <2>1. PICK m : m = Head(inbox)
    OBVIOUS
  <2>2. m \in Settlements
    BY <1>3, <2>1, HeadMessage, Kinds DEF HandleInteraction, Receives
  <2>3. m.how # "pending"
    BY <2>2, KindsAssumption DEF Settlements, Heard
  <2>4. UNCHANGED <<journal, active>> \/ journal' = [journal EXCEPT ![m.of] = m.how]
    BY <1>3, <2>1 DEF HandleInteraction, Resolved
  <2>. QED
    BY <1>1, <2>1, <2>3, <2>4
<1>4. CASE ~ OpenInteraction /\ ~ HandleInteraction
  <2>1. CASE Root
    <3>1. UNCHANGED journal
      BY <1>4, <2>1
         DEF Root, RootStep, ScriptRootStep, InteractionRootStep, AgentRootStep,
             StartInteraction, CancelInteraction, DispatchAgent, AskAgent, interactionVars
    <3>. QED
      BY <1>4, <3>1
  <2>2. CASE ~ Root
    <3>1. ASSUME NEW x \in Interactions, InteractionChild(x) PROVE UNCHANGED journal
      BY <3>1 DEF InteractionChild, InteractionStep, ReceivesInteraction, TimerExpires,
         WindowExpires, RelaySettlement, Hears
    <3>2. UNCHANGED journal
      BY <2>2, <3>1 DEF Next, Child, Emits, AgentChild, AgentProcess, ScriptEnds, CallChecks,
         CallSends, CallFails, CancelRunChecks, CancelRunSends, Crash, vars, peerVars,
         interactionVars
    <3>. QED
      BY <1>4, <3>2
  <2>. QED
    BY <2>1, <2>2
<1>. QED
  BY <1>2, <1>3, <1>4

(* What is active stays so until the root hears of its end.                *)
LEMMA ActiveStays ==
    ASSUME [Next]_vars
    PROVE  \/ active \subseteq active'
           \/ /\ HandleObservation \/ HandleRecovery \/ HandleInteraction
              /\ active \ active' \subseteq {IF HandleInteraction THEN Head(inbox).of
                                             ELSE Head(inbox).of[1]}
<1>1. CASE HandleObservation \/ HandleRecovery \/ HandleInteraction
  <2>1. PICK m : m = Head(inbox)
    OBVIOUS
  <2>2. CASE HandleInteraction
    <3>1. active' \in {active, active \ {m.of}}
      BY <2>1, <2>2 DEF HandleInteraction, Settle, Remaining
    <3>. QED
      BY <2>1, <2>2, <3>1
  <2>3. CASE HandleObservation \/ HandleRecovery
    <3>1. active' \in {active, active \ {m.of[1]}}
      BY <2>1, <2>3
         DEF HandleObservation, HandleRecovery, ApplyRetrying, ApplySettled, Settle, Remaining
    <3>2. ~ HandleInteraction
      BY <2>3 DEF HandleObservation, HandleRecovery, HandleInteraction, Receives
    <3>. QED
      BY <2>1, <2>3, <3>1, <3>2
  <2>. QED
    BY <1>1, <2>2, <2>3
<1>2. CASE Root /\ ~ HandleObservation /\ ~ HandleInteraction /\ ~ HandleRecovery
  BY <1>2 DEF Root, RootStep, ScriptRootStep, InteractionRootStep, AgentRootStep,
     RefuseCommand, DispatchOperation, StartCancelPending, FinishRun, HandleCancellation,
     HandleLiveEvent, HandleRetryStart, AdvanceKernel, TargetsDone, ClaimCancel,
     ClaimCancelFails, NothingToCancel, CancelAttempt, ReconcileCancellation,
     RelayCancellation, OpenInteraction, StartInteraction, CancelInteraction, DispatchAgent,
     AskAgent, rootVars, runtimeVars
<1>3. CASE ~ Root
  BY <1>3 DEF Next, Child, Emits, InteractionChild, AgentChild, AgentProcess, ScriptEnds,
     CallChecks, CallSends, CallFails, CancelRunChecks, CancelRunSends, Crash, vars, rootVars,
     runtimeVars
<1>. QED
  BY <1>1, <1>2, <1>3

(* The root starts the child of what it has just published, or throws.     *)
LEMMA OpenedStarts ==
    ASSUME HostInv, [Next]_vars, NEW i \in Interactions, rootPc = "loop",
           child[i] = "opened", commands # << >>, Head(commands) = K!Dispatch(i)
    PROVE  \/ rootPc' = "threw"
           \/ i \in active'
           \/ UNCHANGED <<rootPc, commands>> /\ child'[i] = "opened"
<1>1. /\ Head(commands).kind = "dispatch" /\ Head(commands).of = i
      /\ i \notin Ops /\ i \notin Agents
  BY KindsAssumption DEF K!Dispatch
<1>2. child \in [Interactions -> {"unopened", "opened", "waiting", "relay", "done", "failed"}]
  BY HostTypes DEF HostInv, InteractionTypeOK
<1>3. CASE RefuseCommand
  BY <1>3 DEF RefuseCommand, Throw
<1>4. CASE StartInteraction
  BY <1>1, <1>4 DEF StartInteraction
<1>5. CASE Root /\ ~ RefuseCommand /\ ~ StartInteraction
  <2>1. ~ OpenInteraction
    BY <1>1 DEF OpenInteraction
  <2>2. UNCHANGED <<rootPc, commands, child>>
    BY <1>1, <1>5, <2>1 DEF Root, RootStep, ScriptRootStep, InteractionRootStep, AgentRootStep,
       DispatchOperation, DispatchAgent, StartCancelPending, FinishRun, HasCommand,
       K!TerminalKinds, HandleCancellation, HandleLiveEvent, HandleRetryStart, HandleRecovery,
       HandleObservation, HandleInteraction, Receives, AdvanceKernel, TargetsDone, ClaimCancel,
       ClaimCancelFails, NothingToCancel, CancelAttempt, ReconcileCancellation,
       RelayCancellation, CancelInteraction, AskAgent
  <2>. QED
    BY <2>2
<1>6. CASE ~ Root
  <2>1. UNCHANGED <<rootPc, commands>>
    BY <1>6 DEF Next, Child, Emits, InteractionChild, AgentChild, AgentProcess, ScriptEnds,
       CallChecks, CallSends, CallFails, CancelRunChecks, CancelRunSends, Crash, vars, rootVars,
       runtimeVars
  <2>2. ASSUME NEW x \in Interactions, InteractionChild(x) PROVE child'[i] = "opened"
    <3>1. child[x] \in {"waiting", "relay"}
      BY <2>2 DEF InteractionChild, InteractionStep, ReceivesInteraction, TimerExpires,
         WindowExpires, RelaySettlement
    <3>2. x # i /\ (UNCHANGED child \/ \E at : child' = [child EXCEPT ![x] = at])
      BY <2>2, <3>1 DEF InteractionChild, InteractionStep, ReceivesInteraction, TimerExpires,
         WindowExpires, RelaySettlement, Hears
    <3>. QED
      BY <1>2, <3>2
  <2>3. child'[i] = "opened"
    BY <1>6, <2>2 DEF Next, Child, Emits, AgentChild, AgentProcess, ScriptEnds,
       CallChecks, CallSends, CallFails, CancelRunChecks, CancelRunSends, Crash, vars, peerVars,
       interactionVars
  <2>. QED
    BY <2>1, <2>3
<1>. QED
  BY <1>3, <1>4, <1>5, <1>6

(* A wait or gate stays held as long as it is pending.                     *)
LEMMA PendingStays ==
    ASSUME HostInv, EndInv, [Next]_vars, NEW i \in Interactions, journal'[i] = "pending",
           rootPc' # "threw"
    PROVE  PendingHeld(i)'
<1>1. rootPc # "threw"
  BY ThrewStays DEF rootVars
<1>2. child \in [Interactions -> {"unopened", "opened", "waiting", "relay", "done", "failed"}]
      /\ RootTypeOK
  BY HostTypes DEF HostInv, InteractionTypeOK
<1>3. CASE OpenInteraction /\ Head(commands).of = i
  <2>1. UNCHANGED rootVars /\ HasCommand("dispatch") /\ child' = [child EXCEPT ![i] = "opened"]
    BY <1>3 DEF OpenInteraction
  <2>2. rootPc' = "loop" /\ commands' # << >> /\ Head(commands') = K!Dispatch(i)
    BY <1>2, <1>3, <2>1, HeadCommand DEF HasCommand, rootVars, runtimeVars
  <2>. QED
    BY <1>2, <2>1, <2>2 DEF PendingHeld
<1>4. CASE /\ journal[i] = "pending"
           /\ HandleInteraction /\ ~ UNCHANGED active => Head(inbox).of # i
  <2>1. CASE i \in active
    <3>1. ASSUME HandleObservation \/ HandleRecovery PROVE Head(inbox).of[1] # i
      <4>1. PICK m : m = Head(inbox)
        OBVIOUS
      <4>2. m \in Messages /\ m.type \in {"observation", "recovery"}
        BY <3>1, <4>1, HeadMessage DEF HandleObservation, HandleRecovery, Receives
      <4>3. m.of \in Attempts \cup Agents \X {1}
        BY <4>2, Kinds
      <4>4. m.of[1] \in Ops \cup Agents
        BY <4>3 DEF Attempts
      <4>. QED
        BY <4>1, <4>4, KindsAssumption
    <3>2. i \in active'
      BY <1>4, <2>1, <3>1, ActiveStays
    <3>. QED
      BY <3>2 DEF PendingHeld
  <2>2. CASE i \notin active
    BY <1>1, <1>4, <2>2, OpenedStarts DEF EndInv, PendingHeld
  <2>. QED
    BY <2>1, <2>2
<1>. QED
  BY <1>3, <1>4, PendingMoves

(* The root ends a run that has nothing left.                              *)
LEMMA FinishSettles ==
    ASSUME HostInv, KernelInv, AttemptsInv, EndInv, FinishRun, rootPc' # "threw"
    PROVE  /\ rootPc' = "returned"
           /\ \A a \in HostedAttempts : ~ Open(a)'
           /\ \A i \in Interactions : journal[i] # "pending"
<1>1. active = {} /\ rootPc = "loop" /\ rootPc' = "returned" /\ UNCHANGED attempt
  BY DEF FinishRun, Throw, HasCommand
<1>2. /\ commands # << >> /\ Head(commands).kind \in K!TerminalKinds
      /\ Head(commands).kind # "dispatch"
  BY DEF FinishRun, HasCommand, K!TerminalKinds
<1>3. kernel.pending = {}
  <2>1. commands \in Seq(K!Commands)
    BY HostTypes DEF HostInv, RootTypeOK
  <2>2. 1 \in DOMAIN commands /\ commands[1] = Head(commands)
    BY <1>2, <2>1
  <2>. QED
    BY <1>2, <2>2 DEF KernelInv
<1>4. ASSUME NEW a \in HostedAttempts PROVE ~ Open(a)'
  BY <1>1, <1>3, <1>4 DEF AttemptsInv, OpenInv, Open
<1>5. ASSUME NEW i \in Interactions, journal[i] = "pending" PROVE FALSE
  <2>1. Head(commands) = K!Dispatch(i)
    BY <1>1, <1>5 DEF EndInv, PendingHeld
  <2>. QED
    BY <1>2, <2>1 DEF K!Dispatch
<1>. QED
  BY <1>1, <1>4, <1>5

(* No other step ends a run.                                               *)
LEMMA OthersDoNotEnd ==
    ASSUME [Next]_vars, ~ FinishRun, status' \in TerminalStatuses
    PROVE  UNCHANGED status
<1>1. CASE HandleCancellation
  BY <1>1 DEF HandleCancellation, TerminalStatuses
<1>2. CASE HandleRecovery
  BY <1>2 DEF HandleRecovery, MarkRecovery, TerminalStatuses, journalVars
<1>3. CASE \/ CancelAttempt \/ ReconcileCancellation
           \/ \E op \in Ops : ClaimCancelFails(op)
  BY <1>3 DEF CancelAttempt, ReconcileCancellation, ClaimCancelFails,
     RecordCancellationRecovery, MarkRecovery, TerminalStatuses, journalVars
<1>4. CASE /\ Root /\ ~ HandleCancellation /\ ~ HandleRecovery /\ ~ CancelAttempt
           /\ ~ ReconcileCancellation /\ ~ \E op \in Ops : ClaimCancelFails(op)
  BY <1>4 DEF Root, RootStep, ScriptRootStep, InteractionRootStep, AgentRootStep,
     RefuseCommand, DispatchOperation, StartCancelPending, HandleLiveEvent, HandleRetryStart,
     HandleObservation, AdvanceKernel, TargetsDone, ClaimCancel, NothingToCancel,
     RelayCancellation, OpenInteraction, StartInteraction, HandleInteraction,
     CancelInteraction, DispatchAgent, AskAgent, rootVars, journalVars
<1>5. CASE ~ Root
  BY <1>5 DEF Next, Child, Emits, InteractionChild, AgentChild, AgentProcess, ScriptEnds,
     CallChecks, CallSends, CallFails, CancelRunChecks, CancelRunSends, Crash, vars, rootVars,
     journalVars
<1>. QED
  BY <1>1, <1>2, <1>3, <1>4, <1>5

(* These hold in every state.                                              *)
LEMMA EndInvStep ==
    ASSUME HostInv, KernelInv, AttemptsInv, EndInv, [Next]_vars
    PROVE  EndInv'
<1>1. ASSUME NEW i \in Interactions, journal'[i] = "pending", rootPc' # "threw"
      PROVE  PendingHeld(i)'
  BY <1>1, PendingStays
<1>2. ASSUME status' \in TerminalStatuses
      PROVE  /\ rootPc' = "returned"
             /\ \A a \in HostedAttempts : ~ Open(a)'
             /\ \A i \in Interactions : journal'[i] # "pending"
  <2>1. CASE status \in TerminalStatuses
    BY <2>1, ReturnedStays DEF EndInv, Open, rootVars, journalVars
  <2>2. CASE status \notin TerminalStatuses
    <3>1. FinishRun /\ UNCHANGED journal
      <4>1. FinishRun
        BY <1>2, <2>2, OthersDoNotEnd
      <4>2. ~ OpenInteraction /\ ~ HandleInteraction
        BY <1>2, <2>2 DEF OpenInteraction, HandleInteraction, rootVars, journalVars
      <4>3. Root
        BY <1>2, <2>2 DEF Next, Child, Emits, InteractionChild, AgentChild, AgentProcess,
           ScriptEnds, CallChecks, CallSends, CallFails, CancelRunChecks, CancelRunSends, Crash,
           vars, rootVars, journalVars
      <4>4. UNCHANGED journal
        BY <4>2, <4>3
           DEF Root, RootStep, ScriptRootStep, InteractionRootStep, AgentRootStep,
               StartInteraction, CancelInteraction, DispatchAgent, AskAgent, interactionVars
      <4>. QED
        BY <4>1, <4>4
    <3>2. rootPc' # "threw"
      BY <1>2, <2>2, <3>1 DEF FinishRun
    <3>. QED
      BY <3>1, <3>2, FinishSettles
  <2>. QED
    BY <2>1, <2>2
<1>. QED
  BY <1>1, <1>2 DEF EndInv

LEMMA EndInvariant == Spec => []EndInv
<1>1. Init => EndInv
  BY DEF Init, RootInit, InteractionInit, EndInv, TerminalStatuses
<1>2. HostInv /\ KernelInv /\ AttemptsInv /\ EndInv /\ [Next]_vars => EndInv'
  BY EndInvStep
<1>. QED
  BY <1>1, <1>2, HostInvariant, KernelInvariant, AttemptsInvariant, PTL DEF Spec

(* A run that ended lists no attempt, wait or gate as pending, running or  *)
(* unknown: the kernel ends it when it waits for nothing, and whatever is  *)
(* open is active or awaited by the kernel.                                *)
THEOREM EndedRunsAreSettled == Spec => []TerminalRunIsSettled
<1>1. EndInv => TerminalRunIsSettled
  BY DEF EndInv, TerminalRunIsSettled, Open
<1>. QED
  BY <1>1, EndInvariant, PTL

(* No agent runs when its run has ended: the journal published its outcome *)
(* and what it publishes of an agent is the end of its process.            *)
THEOREM EndedRunsLeaveNoAgent == Spec => []NoAgentOutlivesItsRun
<1>1. ASSUME HostInv, AgentsInv, JournalInv, AttemptsInv, EndInv, status \in TerminalStatuses,
             NEW g \in Agents, agent[g].state = "running"
      PROVE  FALSE
  <2>1. <<g, 1>> \in HostedAttempts
    BY DEF HostedAttempts
  <2>2. ~ AgentAt(g, "unstarted")
    BY <1>1 DEF AgentsInv, AgentInv, AgentAt
  <2>3. attempt[<<g, 1>>] \in AttemptStatuses \ {"none", "pending", "running", "unknown"}
    BY <1>1, <2>1, <2>2, HostTypes DEF HostInv, RootTypeOK, AttemptsInv, EndInv, Open
  <2>4. attempt[<<g, 1>>] \in {"succeeded", "failed", "cancelled"}
    BY <2>3 DEF AttemptStatuses, K!Outcomes
  <2>. QED
    BY <1>1, <2>4 DEF JournalInv, PublishedTruly
<1>2. HostInv /\ AgentsInv /\ JournalInv /\ AttemptsInv /\ EndInv => NoAgentOutlivesItsRun
  BY <1>1 DEF NoAgentOutlivesItsRun
<1>. QED
  BY <1>2, HostInvariant, AgentsInvariant, JournalInvariant, AttemptsInvariant,
     EndInvariant, PTL

(* What is still to come in a run is accounted for in every state of it.   *)
THEOREM SettlementInvariant == Spec => []SettlementInv
<1>1. KernelInv /\ CoverInv /\ LastWordsInv /\ ReportsInv /\ OrderInv /\ AttemptsInv /\ EndInv
      => SettlementInv
  BY DEF SettlementInv
<1>. QED
  BY <1>1, KernelInvariant, CoverInvariant, LastWordsInvariant, ReportsInvariant,
     OrderInvariant, AttemptsInvariant, EndInvariant, PTL

=============================================================================
