-------------------------- MODULE RunOutcomeProofs --------------------------
(***************************************************************************)
(* What a run publishes about its operations is what became of them, for   *)
(* every program, every number of attempts, calls and crashes: agents,     *)
(* waits and gates, and the public journal.                                *)
(***************************************************************************)
EXTENDS RunHostProofs

(* The child of an agent: it launches an agent only from a dispatch step   *)
(* that nothing interrupted, and resolves what became of the agent.        *)
AgentInv(g) ==
    LET lane == agentLane[g]
        state == agent[g].state
    IN /\ lane.baseline <= lane.recoveries
       /\ lane.pc \in {"unstarted", "intent"}
            \/ (lane.pc = "dispatch" /\ lane.recoveries = lane.baseline)
          => state = "absent" /\ agent[g].launches = 0
       /\ agent[g].launches <= 1
       /\ lane.resolution \in AgentResults =>
             \/ state = lane.resolution
             \/ lane.resolution = "failed" /\ state = "rejected"

AgentsInv == \A g \in Agents : AgentInv(g)

-----------------------------------------------------------------------------
(* What an answer to the child of an agent says of the agent.              *)
LEMMA AnswersAreTrue ==
    ASSUME AgentTypeOK, NEW g \in Agents, NEW answer \in LookupAnswers(g) \cup StartAnswers(g)
    PROVE  /\ answer \in {"running", "recovery"} \cup AgentResults
           /\ answer \in AgentResults =>
                 \/ agent[g].state = answer
                 \/ answer = "failed" /\ agent[g].state = "rejected"
<1>1. agent[g].state \in {"absent", "rejected", "running"} \cup AgentResults
  BY DEF AgentTypeOK
<1>. QED
  BY <1>1 DEF LookupAnswers, StartAnswers, AgentResults

LEMMA AgentGoesOn ==
    ASSUME AgentTypeOK, NEW g \in Agents, NEW w, AgentGoto(g, w)
    PROVE  /\ agentLane'[g].pc = w
           /\ agentLane'[g].baseline = agentLane[g].baseline
           /\ agentLane'[g].recoveries = agentLane[g].recoveries
           /\ agentLane'[g].resolution = agentLane[g].resolution
           /\ \A h \in Agents \ {g} : agentLane'[h] = agentLane[h]
  BY DEF AgentGoto, AgentTypeOK

LEMMA AgentResolvesTo ==
    ASSUME AgentTypeOK, NEW g \in Agents,
           NEW answer \in {"running", "recovery"} \cup AgentResults, AgentResolves(g, answer)
    PROVE  /\ agentLane'[g].pc \in {"poll", "relay"}
           /\ agentLane'[g].baseline = agentLane[g].baseline
           /\ agentLane'[g].recoveries = agentLane[g].recoveries
           /\ agentLane'[g].resolution = IF answer = "running" THEN agentLane[g].resolution
                                         ELSE answer
           /\ \A h \in Agents \ {g} : agentLane'[h] = agentLane[h]
<1>1. CASE answer = "running"
  BY <1>1 DEF AgentResolves, AgentTypeOK
<1>2. CASE answer # "running"
  BY <1>2 DEF AgentResolves, AgentTypeOK
<1>. QED
  BY <1>1, <1>2

(* One step of the child of g, or of the agent itself.                     *)
LEMMA AgentStepKeeps ==
    ASSUME AgentTypeOK, NEW g \in Agents, AgentInv(g), AgentStep(g) \/ AgentEnds(g)
    PROVE  AgentInv(g)' /\ \A h \in Agents \ {g} : AgentInv(h) => AgentInv(h)'
<1>1. /\ agentLane[g].baseline \in Nat /\ agentLane[g].recoveries \in Nat
      /\ agent[g].launches \in Nat
  BY DEF AgentTypeOK
<1>2. ASSUME \A h \in Agents \ {g} : agentLane'[h] = agentLane[h] /\ agent'[h] = agent[h]
      PROVE  \A h \in Agents \ {g} : AgentInv(h) => AgentInv(h)'
  BY <1>2 DEF AgentInv
<1>3. ASSUME UNCHANGED agent, NEW answer \in LookupAnswers(g) \cup StartAnswers(g),
             AgentResolves(g, answer)
      PROVE  AgentInv(g)' /\ \A h \in Agents \ {g} : AgentInv(h) => AgentInv(h)'
  <2>1. /\ answer \in {"running", "recovery"} \cup AgentResults
        /\ answer \in AgentResults =>
                 \/ agent[g].state = answer
                 \/ answer = "failed" /\ agent[g].state = "rejected"
    BY <1>3, AnswersAreTrue
  <2>2. AgentInv(g)'
    BY <1>3, <2>1, AgentResolvesTo DEF AgentInv, AgentResults
  <2>. QED
    BY <1>2, <1>3, <2>1, <2>2, AgentResolvesTo
<1>4. ASSUME UNCHANGED agent, NEW w \in {"lookup", "done", "failed"}, AgentGoto(g, w)
      PROVE  AgentInv(g)' /\ \A h \in Agents \ {g} : AgentInv(h) => AgentInv(h)'
  <2>1. AgentInv(g)'
    BY <1>4, AgentGoesOn DEF AgentInv
  <2>. QED
    BY <1>2, <1>4, <2>1, AgentGoesOn
<1>5. CASE UNCHANGED agentVars
  BY <1>5 DEF AgentInv, agentVars
<1>6. CASE AgentDispatchIntent(g)
  <2>1. /\ agentLane'[g].pc = "dispatch" /\ UNCHANGED agent /\ agentLane[g].pc = "intent"
        /\ agentLane'[g].baseline = agentLane[g].recoveries
        /\ agentLane'[g].recoveries = agentLane[g].recoveries
        /\ agentLane'[g].resolution = agentLane[g].resolution
        /\ \A h \in Agents \ {g} : agentLane'[h] = agentLane[h]
    BY <1>6 DEF AgentDispatchIntent, AgentTypeOK, AgentAt
  <2>2. AgentInv(g)'
    BY <1>1, <2>1 DEF AgentInv
  <2>. QED
    BY <1>2, <2>1, <2>2
<1>7. CASE StartAgent(g)
  <2>1. PICK state \in {"running", "rejected", "absent"} :
            agent' = [agent EXCEPT ![g].state = state,
                                   ![g].launches = IF state = "running" THEN @ + 1 ELSE @]
    BY <1>7 DEF StartAgent
  <2>2. /\ agent'[g].launches \in {agent[g].launches, agent[g].launches + 1}
        /\ \A h \in Agents \ {g} : agent'[h] = agent[h]
    BY <2>1 DEF AgentTypeOK
  <2>3. agent[g].launches = 0 /\ agent[g].state = "absent" /\ AgentGoto(g, "starting")
    BY <1>7 DEF StartAgent, AgentAt, MayStart, AgentInv
  <2>4. AgentInv(g)'
    BY <1>1, <2>2, <2>3, AgentGoesOn DEF AgentInv, AgentResults
  <2>. QED
    BY <1>2, <2>2, <2>3, <2>4, AgentGoesOn
<1>8. CASE ReceiveCancel(g)
  <2>1. /\ agentLane'[g].pc = "cancel" /\ UNCHANGED agent
        /\ agentLane'[g].baseline = agentLane[g].baseline
        /\ agentLane'[g].recoveries = agentLane[g].recoveries
        /\ agentLane'[g].resolution = agentLane[g].resolution
        /\ \A h \in Agents \ {g} : agentLane'[h] = agentLane[h]
    BY <1>8 DEF ReceiveCancel, AgentTypeOK
  <2>2. AgentInv(g)'
    BY <2>1 DEF AgentInv
  <2>. QED
    BY <1>2, <2>1, <2>2
<1>9. CASE CancelAgent(g)
  <2>1. PICK answer \in LookupAnswers(g) : AgentResolves(g, answer)
    BY <1>9 DEF CancelAgent
  <2>2. /\ agent'[g].state = agent[g].state /\ agent'[g].launches = agent[g].launches
        /\ \A h \in Agents \ {g} : agent'[h] = agent[h]
    BY <1>9 DEF CancelAgent, AgentTypeOK
  <2>3. /\ answer \in {"running", "recovery"} \cup AgentResults
        /\ answer \in AgentResults =>
                 \/ agent[g].state = answer
                 \/ answer = "failed" /\ agent[g].state = "rejected"
    BY AnswersAreTrue
  <2>4. AgentInv(g)'
    BY <2>1, <2>2, <2>3, AgentResolvesTo DEF AgentInv, AgentResults
  <2>. QED
    BY <1>2, <2>1, <2>2, <2>3, <2>4, AgentResolvesTo
<1>10. CASE AgentEnds(g)
  <2>1. /\ agent[g].state = "running" /\ agent'[g].launches = agent[g].launches
        /\ UNCHANGED agentLane /\ \A h \in Agents \ {g} : agent'[h] = agent[h]
    BY <1>10 DEF AgentEnds, AgentTypeOK
  <2>2. AgentInv(g)'
    BY <2>1 DEF AgentInv, AgentResults
  <2>. QED
    BY <1>2, <2>1, <2>2
<1>. QED
  BY <1>3, <1>4, <1>5, <1>6, <1>7, <1>8, <1>9, <1>10 DEF AgentStep, StartReturns,
     ReconcileAgent, ReceiveTimesOut, LookupAgent, RelayAgent, AgentFails, agentVars

LEMMA AgentsKeep ==
    ASSUME HostInv, AgentsInv, [Next]_vars
    PROVE  AgentsInv'
<1>1. AgentTypeOK
  BY HostTypes DEF HostInv
<1>2. CASE UNCHANGED agentVars
  BY <1>2 DEF AgentsInv, AgentInv, agentVars
<1>3. ASSUME NEW g \in Agents, AgentChild(g) \/ AgentProcess(g) PROVE AgentsInv'
  <2>1. AgentStep(g) \/ AgentEnds(g)
    BY <1>3 DEF AgentChild, AgentProcess
  <2>. QED
    BY <1>1, <2>1, AgentStepKeeps DEF AgentsInv
<1>4. CASE Crash
  <2>. SUFFICES ASSUME NEW g \in Agents PROVE AgentInv(g)'
    BY DEF AgentsInv
  <2>1. agentLane'[g] = IF agentLane[g].pc \in {"unstarted", "done", "failed"}
                        THEN agentLane[g]
                        ELSE [agentLane[g] EXCEPT
                                !.recoveries = @ + 1,
                                !.pc = IF @ = "starting" THEN "dispatch" ELSE @]
    BY <1>4, Zenon DEF Crash, AgentsRecover
  <2>2. /\ agentLane[g].baseline \in Nat /\ agentLane[g].recoveries \in Nat
        /\ UNCHANGED agent /\ AgentInv(g)
    BY <1>1, <1>4 DEF Crash, AgentTypeOK, AgentsInv
  <2>3. CASE agentLane[g].pc \in {"unstarted", "done", "failed"}
    BY <2>1, <2>2, <2>3 DEF AgentInv
  <2>4. CASE agentLane[g].pc \notin {"unstarted", "done", "failed"}
    <3>1. /\ agentLane'[g].recoveries = agentLane[g].recoveries + 1
          /\ agentLane'[g].baseline = agentLane[g].baseline
          /\ agentLane'[g].resolution = agentLane[g].resolution
          /\ agentLane'[g].pc = IF agentLane[g].pc = "starting" THEN "dispatch"
                                ELSE agentLane[g].pc
      BY <1>1, <2>1, <2>4 DEF AgentTypeOK
    <3>. QED
      BY <2>2, <2>4, <3>1 DEF AgentInv
  <2>. QED
    BY <2>3, <2>4
<1>5. CASE Root
  <2>1. CASE DispatchAgent
    <3>1. PICK g \in Agents : g = Head(commands).of
      BY <2>1 DEF DispatchAgent
    <3>2. ~ Moved(g)
      <4>1. HasCommand("dispatch") /\ g \in Hosted
        BY <2>1 DEF DispatchAgent, Hosted
      <4>2. Queued(g)
        BY <3>1, <4>1, HostTypes, HeadCommand DEF HostInv, Queued
      <4>. QED
        BY <4>1, <4>2 DEF HostInv, IssueInv
    <3>3. agentLane[g].pc = "unstarted" /\ AgentGoto(g, "intent") /\ UNCHANGED agent
      BY <2>1, <3>1, <3>2 DEF Moved, DispatchAgent
    <3>4. AgentInv(g)'
      BY <1>1, <3>3, AgentGoesOn DEF AgentsInv, AgentInv
    <3>. QED
      BY <1>1, <3>3, <3>4, AgentGoesOn DEF AgentsInv, AgentInv
  <2>2. ASSUME NEW g \in Agents, AskAgent(g) PROVE AgentsInv'
    <3>1. \A h \in Agents : /\ agentLane'[h].pc = agentLane[h].pc
                            /\ agentLane'[h].baseline = agentLane[h].baseline
                            /\ agentLane'[h].recoveries = agentLane[h].recoveries
                            /\ agentLane'[h].resolution = agentLane[h].resolution
      BY <1>1, <2>2 DEF AskAgent, AgentTypeOK
    <3>2. UNCHANGED agent
      BY <2>2 DEF AskAgent
    <3>. QED
      BY <3>1, <3>2 DEF AgentsInv, AgentInv
  <2>. QED
    BY <1>2, <1>5, <2>1, <2>2 DEF Root, RootStep, AgentRootStep
<1>. QED
  BY <1>2, <1>3, <1>4, <1>5 DEF Next, Child, Emits, InteractionChild, ScriptEnds,
     CallChecks, CallSends, CallFails, CancelRunChecks, CancelRunSends, vars, peerVars

(* Where the child of an agent stands and what it resolved agree with the  *)
(* agent itself, in every state of the run (agentOperation).               *)
THEOREM AgentsInvariant == Spec => []AgentsInv
<1>1. Init => AgentsInv
  BY DEF Init, AgentInit, AgentsInv, AgentInv, AgentResults
<1>. QED
  BY <1>1, AgentsKeep, HostInvariant, PTL DEF Spec

(* An agent is started once at most, however often its child recovers and  *)
(* wherever it was interrupted (agentDispatchIntent, scriptDispatchAction).*)
THEOREM AgentsAreLaunchedOnce == Spec => []AgentIsLaunchedOnce
<1>1. AgentsInv => AgentIsLaunchedOnce
  BY DEF AgentsInv, AgentInv, AgentIsLaunchedOnce
<1>. QED
  BY <1>1, AgentsInvariant, PTL

-----------------------------------------------------------------------------
(* Who posts what: the scripts and the root report on attempts, a wait or  *)
(* gate what it heard, an agent what it resolved.                          *)
LEMMA NewsComesFrom ==
    ASSUME HostInv, [Next]_vars, NEW m \in posted', m \notin posted
    PROVE  \/ m \in ScriptReports \cup {CancelRequest}
           \/ \E i \in Interactions :
                 child[i] = "relay" /\ heard[i] \in Heard /\ m = Settlement(i, heard[i])
           \/ \E g \in Agents : AgentAt(g, "relay") /\ m = AgentOutcome(g)
<1>1. ASSUME NEW n, Post(n) PROVE m = n
  BY <1>1 DEF Post
<1>2. CASE \/ \E op \in Ops : Child(op) \/ Emits(op)
           \/ RelayCancellation
  <2>1. PICK n \in ScriptReports : Sends(n)
    BY <1>2, ScriptsSend, RootRelays
  <2>. QED
    BY <1>1, <2>1 DEF Sends
<1>3. ASSUME NEW i \in Interactions, InteractionChild(i)
      PROVE  child[i] = "relay" /\ heard[i] \in Heard /\ m = Settlement(i, heard[i])
  <2>1. RelaySettlement(i)
    BY <1>3 DEF InteractionChild, InteractionStep, ReceivesInteraction, TimerExpires,
       WindowExpires, Hears, durableVars
  <2>2. heard[i] \in Heard
    BY <2>1, HostTypes DEF RelaySettlement, HostInv, TellersInv, InteractionTypeOK
  <2>. QED
    BY <1>1, <2>1, <2>2 DEF RelaySettlement
<1>4. ASSUME NEW g \in Agents, AgentChild(g) PROVE AgentAt(g, "relay") /\ m = AgentOutcome(g)
  <2>1. RelayAgent(g)
    BY <1>4 DEF AgentChild, AgentStep, AgentDispatchIntent, StartAgent, StartReturns,
       ReconcileAgent, ReceiveTimesOut, LookupAgent, ReceiveCancel, CancelAgent, AgentFails,
       durableVars
  <2>. QED
    BY <1>1, <2>1 DEF RelayAgent
<1>5. CASE CancelRunSends
  BY <1>1, <1>5 DEF CancelRunSends
<1>6. CASE Root /\ ~ RelayCancellation
  BY <1>6, HandlersTake DEF Root, RootStep, ScriptRootStep, InteractionRootStep,
     AgentRootStep, RefuseCommand, DispatchOperation, StartCancelPending, FinishRun,
     AdvanceKernel, TargetsDone, ClaimCancel, ClaimCancelFails, NothingToCancel,
     CancelAttempt, ReconcileCancellation, OpenInteraction, StartInteraction,
     CancelInteraction, DispatchAgent, AskAgent, Takes, durableVars
<1>. QED
  BY <1>2, <1>3, <1>4, <1>5, <1>6 DEF Next, AgentProcess, AgentEnds, ScriptEnds, CallChecks,
     CallSends, CallFails, CancelRunChecks, Crash, HostCrash, vars, durableVars

(* What was told of an agent is what became of it.                         *)
AgentsTold ==
    \A m \in posted \cap AgentReports :
        m.type = "observation" =>
            \/ agent[m.of[1]].state = m.result
            \/ m.result = "failed" /\ agent[m.of[1]].state = "rejected"

(* An agent that ended stays ended.                                        *)
LEMMA EndsStand ==
    ASSUME HostInv, AgentsInv, [Next]_vars, NEW g \in Agents,
           agent[g].state \in AgentResults \cup {"rejected"}
    PROVE  agent'[g].state = agent[g].state
<1>1. AgentTypeOK
  BY HostTypes DEF HostInv
<1>2. ASSUME NEW h \in Agents, AgentChild(h) \/ AgentProcess(h)
      PROVE  agent'[g].state = agent[g].state
  <2>1. CASE StartAgent(h)
    <3>1. agent[h].state = "absent" /\ h # g
      BY <2>1 DEF StartAgent, AgentAt, MayStart, AgentsInv, AgentInv, AgentResults
    <3>. QED
      BY <1>1, <2>1, <3>1 DEF StartAgent, AgentTypeOK
  <2>2. CASE CancelAgent(h)
    BY <1>1, <2>2 DEF CancelAgent, AgentTypeOK
  <2>3. CASE AgentEnds(h)
    BY <1>1, <2>3 DEF AgentEnds, AgentTypeOK, AgentResults
  <2>. QED
    BY <1>2, <2>1, <2>2, <2>3 DEF AgentChild, AgentProcess, AgentStep, AgentDispatchIntent,
       StartReturns, ReconcileAgent, ReceiveTimesOut, LookupAgent, ReceiveCancel, RelayAgent,
       AgentFails
<1>3. CASE UNCHANGED agent
  BY <1>3
<1>. QED
  BY <1>2, <1>3 DEF Next, Child, Emits, InteractionChild, Root, RootStep, AgentRootStep,
     DispatchAgent, AskAgent, ScriptEnds, CallChecks, CallSends, CallFails, CancelRunChecks,
     CancelRunSends, Crash, vars, peerVars, agentVars

LEMMA AgentsToldStep ==
    ASSUME HostInv, AgentsInv, AgentsTold, [Next]_vars
    PROVE  AgentsTold'
<1>. SUFFICES ASSUME NEW m \in posted' \cap AgentReports, m.type = "observation"
              PROVE  \/ agent'[m.of[1]].state = m.result
                     \/ m.result = "failed" /\ agent'[m.of[1]].state = "rejected"
  BY DEF AgentsTold
<1>1. m.of[1] \in Agents /\ m.result \in AgentResults
  BY DEF AgentReports
<1>2. SUFFICES \/ agent[m.of[1]].state = m.result
               \/ m.result = "failed" /\ agent[m.of[1]].state = "rejected"
  BY <1>1, EndsStand
<1>3. CASE m \in posted
  BY <1>3 DEF AgentsTold
<1>4. CASE m \notin posted
  <2>1. m \notin ScriptReports \cup {CancelRequest} /\ m.type # "interaction"
    <3>1. m.of \notin Attempts
      BY KindsAssumption DEF AgentReports, Attempts
    <3>2. m \in Messages
      BY DEF Messages
    <3>. QED
      BY <3>1, <3>2, Kinds
  <2>2. PICK g \in Agents : AgentAt(g, "relay") /\ m = AgentOutcome(g)
    BY <1>4, <2>1, NewsComesFrom DEF Settlement
  <2>3. m = Observation(<<g, 1>>, agentLane[g].resolution, FALSE)
    BY <2>2 DEF AgentOutcome, RecoveryRelay
  <2>4. m.of[1] = g /\ m.result = agentLane[g].resolution
    BY <2>3 DEF Observation
  <2>. QED
    BY <1>1, <2>4 DEF AgentsInv, AgentInv
<1>. QED
  BY <1>3, <1>4

LEMMA AgentsToldInvariant == Spec => []AgentsTold
<1>1. Init => AgentsTold
  BY DEF Init, DurableInit, AgentsTold
<1>. QED
  BY <1>1, AgentsToldStep, HostInvariant, AgentsInvariant, PTL DEF Spec

-----------------------------------------------------------------------------
(* Of a wait or gate only a call that was made for it is heard, its own    *)
(* timer, or a cancellation of a run that winds down.                      *)
Heeded(i, how) ==
    /\ how \in Calls => call[how].of = i /\ call[how].at \in {"accepted", "failed"}
    /\ how = "timer" => i \in Timed
    /\ how = "cancel" => kernel.mode # "running"

InteractionInv(i) ==
    /\ \A t \in told[i] : t # "timer" /\ Heeded(i, t)
    /\ \A s, t \in told[i] : KeyOf(s) = KeyOf(t) => s = t
    /\ \A n \in DOMAIN box[i] : box[i][n] \in told[i]
    /\ heard[i] # "none" => Heeded(i, heard[i])
    /\ journal[i] \in Heard => Heeded(i, journal[i])

SettlementsTold == \A m \in posted \cap Settlements : Heeded(m.of, m.how)

CallsMade == \A c \in Calls : call[c].at # "idle" => call[c].of \in Answerable

InteractionsInv ==
    (\A i \in Interactions : InteractionInv(i)) /\ SettlementsTold /\ CallsMade

(* Who cancels has left the running mode behind.                           *)
WindDownInv ==
    /\ targets # {} => kernel.mode # "running"
    /\ \A n \in DOMAIN commands :
          commands[n].kind = "cancelPending" => kernel.mode # "running"

(* A run that winds down does not run again.                               *)
LEMMA ModeStays ==
    ASSUME HostInv, [Next]_vars, kernel.mode # "running"
    PROVE  kernel'.mode # "running"
<1>1. kernel \in KernelStates
  BY HostTypes DEF HostInv, RootTypeOK, KernelStates
<1>2. CASE Waits \/ TakesCommand
  BY <1>2 DEF Waits, TakesCommand
<1>3. CASE AdvanceKernel
  <2>1. Head(deferred) \in K!Settlements
    BY <1>3, HostTypes DEF HostInv, AdvanceKernel, IssueInv, RootTypeOK
  <2>2. CASE K!Accepts(kernel, Head(deferred))
    <3>1. kernel' = K!AdvancePipeline(kernel, Head(deferred)).state
      BY <1>3, <2>2 DEF AdvanceKernel
    <3>2. /\ kernel'.mode = "running" => kernel.mode = "running"
      BY <1>1, <2>1, <2>2, <3>1, KernelSettles
    <3>. QED
      BY <3>2
  <2>3. CASE ~ K!Accepts(kernel, Head(deferred))
    BY <1>3, <2>3 DEF AdvanceKernel
  <2>. QED
    BY <2>2, <2>3
<1>4. CASE HandleCancellation
  BY <1>1, <1>4, KernelCancels DEF HandleCancellation
<1>. QED
  BY <1>2, <1>3, <1>4, QueuesMove

LEMMA WindDownStep ==
    ASSUME HostInv, WindDownInv, [Next]_vars
    PROVE  WindDownInv'
<1>1. commands \in Seq(K!Commands) /\ kernel \in KernelStates
  BY HostTypes DEF HostInv, RootTypeOK, KernelStates
<1>2. targets' \subseteq targets \/ HandleCancellation \/ StartCancelPending
  <2>1. CASE Root
    BY <2>1 DEF Root, RootStep, ScriptRootStep, InteractionRootStep, AgentRootStep,
       RefuseCommand, DispatchOperation, FinishRun, HandleLiveEvent, HandleRetryStart,
       HandleRecovery, HandleObservation, AdvanceKernel, TargetsDone, ClaimCancel,
       ClaimCancelFails, NothingToCancel, CancelAttempt, ReconcileCancellation,
       RelayCancellation, OpenInteraction, StartInteraction, HandleInteraction,
       CancelInteraction, DispatchAgent, AskAgent, rootVars
  <2>2. CASE ~ Root
    BY <2>2 DEF Next, Child, Emits, InteractionChild, AgentChild, AgentProcess, ScriptEnds,
       CallChecks, CallSends, CallFails, CancelRunChecks, CancelRunSends, Crash, vars, rootVars
  <2>. QED
    BY <2>1, <2>2
<1>3. CASE HandleCancellation
  <2>1. CASE UNCHANGED <<kernel, commands, targets>>
    BY <2>1 DEF WindDownInv
  <2>2. CASE kernel'.mode # "running"
    BY <2>2 DEF WindDownInv
  <2>. QED
    BY <1>1, <1>3, <2>1, <2>2, KernelCancels DEF HandleCancellation
<1>4. CASE StartCancelPending
  <2>1. kernel.mode # "running"
    BY <1>1, <1>4 DEF StartCancelPending, HasCommand, WindDownInv
  <2>. QED
    BY <2>1, ModeStays DEF WindDownInv
<1>5. CASE AdvanceKernel /\ targets' \subseteq targets
  <2>. DEFINE e == Head(deferred)
              t == K!AdvancePipeline(kernel, e)
  <2>1. CASE K!Accepts(kernel, e)
    <3>1. e \in K!Settlements /\ e.of \in Hosted /\ After[e.of] \in Seq(Hosted)
      <4>1. e \in K!Settlements
        BY <1>5, HostTypes DEF HostInv, AdvanceKernel, IssueInv, RootTypeOK
      <4>. QED
        BY <4>1, ProgramAssumption DEF K!Settlements
    <3>2. /\ t.commands \in Seq(K!Commands)
          /\ t.state.mode # "running" \/ \A n \in DOMAIN t.commands : t.commands[n].kind # "cancelPending"
      <4>1. kernel.pending \ {e.of} \in SUBSET Hosted /\ << >> \in Seq(K!Commands)
        BY <1>1 DEF KernelStates
      <4>2. K!DispatchAll(After[e.of]) \in Seq(K!Commands)
        BY <3>1, CommandsTyped
      <4>3. \A n \in DOMAIN K!DispatchAll(After[e.of]) :
                K!DispatchAll(After[e.of])[n].kind # "cancelPending"
        BY DEF K!DispatchAll, K!Dispatch
      <4>4. \A kind \in K!TerminalKinds : kind # "cancelPending" /\ K!End(kind).kind = kind
        BY DEF K!TerminalKinds, K!End
      <4>5. \/ t.commands = K!DispatchAll(After[e.of])
            \/ t.commands = << >>
            \/ /\ t.commands = <<K!CancelPending(kernel.pending \ {e.of})>>
               /\ t.state.mode # "running"
            \/ \E kind \in K!TerminalKinds : t.commands = <<K!End(kind)>>
        BY <1>1, <2>1, <3>1, KernelSettles
      <4>6. CASE t.commands = K!DispatchAll(After[e.of])
        BY <4>2, <4>3, <4>6
      <4>7. CASE t.commands = << >>
        <5>1. DOMAIN << >> = {}
          OBVIOUS
        <5>2. DOMAIN t.commands = {}
          BY <4>7, <5>1, Zenon
        <5>. QED
          BY <4>1, <4>7, <5>2, Zenon
      <4>8. CASE /\ t.commands = <<K!CancelPending(kernel.pending \ {e.of})>>
                 /\ t.state.mode # "running"
        BY <4>1, <4>8, CommandsTyped
      <4>9. ASSUME NEW kind \in K!TerminalKinds, t.commands = <<K!End(kind)>>
            PROVE  /\ t.commands \in Seq(K!Commands)
                   /\ \A n \in DOMAIN t.commands : t.commands[n].kind # "cancelPending"
        <5>1. DOMAIN <<K!End(kind)>> = {1} /\ <<K!End(kind)>>[1] = K!End(kind)
          OBVIOUS
        <5>. QED
          BY <4>4, <4>9, <5>1, CommandsTyped
      <4>. QED
        BY <4>5, <4>6, <4>7, <4>8, <4>9
    <3>3. kernel' = t.state /\ commands' = commands \o t.commands
      BY <1>5, <2>1 DEF AdvanceKernel
    <3>4. CASE kernel'.mode # "running"
      BY <3>4 DEF WindDownInv
    <3>5. CASE kernel'.mode = "running"
      <4>1. kernel.mode = "running"
        BY <3>5, ModeStays
      <4>2. /\ \A n \in DOMAIN commands : commands[n].kind # "cancelPending"
            /\ \A n \in DOMAIN t.commands : t.commands[n].kind # "cancelPending"
        BY <3>2, <3>3, <3>5, <4>1 DEF WindDownInv
      <4>3. \A n \in DOMAIN commands' : commands'[n].kind # "cancelPending"
        <5>1. PICK s \in Seq(K!Commands) : s = t.commands
          BY <3>2
        <5>2. \A n \in DOMAIN (commands \o s) :
                  \/ n \in DOMAIN commands /\ (commands \o s)[n] = commands[n]
                  \/ n - Len(commands) \in DOMAIN s /\ (commands \o s)[n] = s[n - Len(commands)]
          BY <1>1
        <5>. QED
          BY <3>3, <4>2, <5>1, <5>2
      <4>. QED
        BY <1>5, <4>1, <4>3 DEF WindDownInv
    <3>. QED
      BY <3>4, <3>5
  <2>2. CASE ~ K!Accepts(kernel, e)
    BY <1>5, <2>2 DEF AdvanceKernel, WindDownInv
  <2>. QED
    BY <2>1, <2>2
<1>6. CASE Waits /\ targets' \subseteq targets
  BY <1>6 DEF Waits, WindDownInv
<1>7. CASE TakesCommand /\ targets' \subseteq targets
  <2>1. \A n \in DOMAIN commands' : n + 1 \in DOMAIN commands /\ commands'[n] = commands[n + 1]
    BY <1>1, <1>7 DEF TakesCommand
  <2>. QED
    BY <1>7, <2>1 DEF TakesCommand, WindDownInv
<1>. QED
  BY <1>2, <1>3, <1>4, <1>5, <1>6, <1>7, QueuesMove

LEMMA WindDownInvariant == Spec => []WindDownInv
<1>1. Init => WindDownInv
  BY ProgramAssumption
     DEF Init, RootInit, WindDownInv, K!InitialCommands, K!DispatchAll, K!Dispatch
<1>. QED
  BY <1>1, WindDownStep, HostInvariant, PTL DEF Spec

(* What is heeded stays heeded.                                            *)
LEMMA HeedStays ==
    ASSUME HostInv, [Next]_vars, NEW i, NEW how \in Heard, Heeded(i, how)
    PROVE  Heeded(i, how)'
<1>1. CASE how \in Calls
  <2>1. call \in [Calls -> [at : {"idle", "checked", "accepted", "refused", "failed"},
                            of : Answerable \cup {"none"}]]
    BY DEF HostInv, TypeOK
  <2>2. call[how].of = i /\ call[how].at \in {"accepted", "failed"}
    BY <1>1 DEF Heeded
  <2>3. call'[how] = call[how]
    <3>1. ASSUME NEW c \in Calls, CallChecks(c) \/ CallSends(c) \/ CallFails(c)
          PROVE  call'[how] = call[how]
      BY <1>1, <2>1, <2>2, <3>1 DEF CallChecks, CallSends, CallFails
    <3>2. CASE UNCHANGED call
      BY <3>2
    <3>. QED
      BY <3>1, <3>2 DEF Next, Child, Emits, InteractionChild, AgentChild, AgentProcess, Root,
         ScriptEnds, CancelRunChecks, CancelRunSends, Crash, vars, managerVars
  <2>. QED
    BY <1>1, <2>2, <2>3, KindsAssumption DEF Heeded
<1>2. CASE how = "timer"
  BY <1>2, KindsAssumption DEF Heeded
<1>3. CASE how = "cancel"
  <2>1. kernel.mode # "running"
    BY <1>3 DEF Heeded
  <2>2. kernel'.mode # "running"
    BY <2>1, ModeStays
  <2>. QED
    BY <1>3, <2>2, KindsAssumption DEF Heeded
<1>. QED
  BY <1>1, <1>2, <1>3 DEF Heard

(* A delivery that is heeded keeps what is known of every wait and gate.   *)
LEMMA DeliveryKeeps ==
    ASSUME HostInv, InteractionsInv, [Next]_vars,
           NEW i \in Interactions, NEW what \in Heard \ {"timer"},
           Deliver(i, what), Heeded(i, what)', UNCHANGED <<heard, journal>>,
           NEW x \in Interactions
    PROVE  InteractionInv(x)'
<1>1. InteractionTypeOK
  BY HostTypes DEF HostInv
<1>2. /\ \A t \in told[x] : t \in Heard /\ t # "timer" /\ Heeded(x, t)'
      /\ heard[x] # "none" => Heeded(x, heard[x])'
      /\ journal[x] \in Heard => Heeded(x, journal[x])'
      /\ Heeded(i, what)'
  BY <1>1, HeedStays DEF InteractionsInv, InteractionInv, InteractionTypeOK
<1>3. CASE told'[x] = told[x] /\ box'[x] = box[x]
  BY <1>2, <1>3 DEF InteractionsInv, InteractionInv
<1>4. CASE /\ x = i /\ told'[i] = told[i] \cup {what} /\ box'[i] = Append(box[i], what)
           /\ ~ \E t \in told[i] : KeyOf(t) = KeyOf(what)
  <2>1. \A t \in told'[x] : t # "timer" /\ Heeded(x, t)'
    BY <1>2, <1>4
  <2>2. \A s, t \in told'[x] : KeyOf(s) = KeyOf(t) => s = t
    BY <1>4 DEF InteractionsInv, InteractionInv
  <2>3. \A n \in DOMAIN box'[x] : box'[x][n] \in told'[x]
    BY <1>1, <1>4 DEF InteractionsInv, InteractionInv, InteractionTypeOK
  <2>. QED
    BY <1>2, <2>1, <2>2, <2>3 DEF InteractionInv
<1>. QED
  BY <1>1, <1>3, <1>4 DEF Deliver, InteractionTypeOK

LEMMA SettlementsToldStep ==
    ASSUME HostInv, InteractionsInv, [Next]_vars
    PROVE  SettlementsTold'
<1>. SUFFICES ASSUME NEW m \in posted' \cap Settlements PROVE Heeded(m.of, m.how)'
  BY DEF SettlementsTold
<1>1. m.how \in Heard
  BY DEF Settlements
<1>2. CASE m \in posted
  <2>1. Heeded(m.of, m.how)
    BY <1>2 DEF InteractionsInv, SettlementsTold
  <2>. QED
    BY <1>1, <2>1, HeedStays
<1>3. CASE m \notin posted
  <2>1. m \notin ScriptReports \cup {CancelRequest} /\ m.type = "interaction"
    BY DEF Settlements, ScriptReports, Observations, CancelRequest
  <2>2. PICK i \in Interactions :
            child[i] = "relay" /\ heard[i] \in Heard /\ m = Settlement(i, heard[i])
    BY <1>3, <2>1, NewsComesFrom DEF AgentOutcome, Observation, RecoveryRelay
  <2>3. m.of = i /\ m.how = heard[i] /\ heard[i] # "none"
    BY <2>2, KindsAssumption DEF Settlement, Heard
  <2>4. Heeded(i, heard[i])
    BY <2>3 DEF InteractionsInv, InteractionInv
  <2>. QED
    BY <1>1, <2>3, <2>4, HeedStays
<1>. QED
  BY <1>2, <1>3

LEMMA CallsMadeStep ==
    ASSUME HostInv, InteractionsInv, [Next]_vars
    PROVE  CallsMade'
<1>1. call \in [Calls -> [at : {"idle", "checked", "accepted", "refused", "failed"},
                          of : Answerable \cup {"none"}]]
  BY DEF HostInv, TypeOK
<1>2. CASE UNCHANGED call
  BY <1>2 DEF InteractionsInv, CallsMade
<1>3. ASSUME NEW c \in Calls, CallChecks(c) PROVE CallsMade'
  BY <1>1, <1>3 DEF CallChecks, InteractionsInv, CallsMade
<1>4. ASSUME NEW c \in Calls, CallSends(c) \/ CallFails(c) PROVE CallsMade'
  BY <1>1, <1>4 DEF CallSends, CallFails, InteractionsInv, CallsMade
<1>. QED
  BY <1>2, <1>3, <1>4 DEF Next, Child, Emits, InteractionChild, AgentChild, AgentProcess, Root,
     ScriptEnds, CancelRunChecks, CancelRunSends, Crash, vars, managerVars

LEMMA InteractionsStep ==
    ASSUME HostInv, WindDownInv, InteractionsInv, [Next]_vars
    PROVE  InteractionsInv'
<1>. SUFFICES ASSUME NEW x \in Interactions PROVE InteractionInv(x)'
  BY SettlementsToldStep, CallsMadeStep DEF InteractionsInv
<1>1. InteractionTypeOK /\ InteractionInv(x)
  BY HostTypes DEF HostInv, InteractionsInv
<1>2. /\ \A t \in told[x] : t \in Heard /\ t # "timer" /\ Heeded(x, t)'
      /\ \A how \in Heard : how = heard[x] => Heeded(x, how)'
      /\ \A how \in Heard : how = journal[x] => Heeded(x, how)'
      /\ heard[x] \in Heard \cup {"none"}
  <2>1. told[x] \subseteq Heard /\ heard[x] \in Heard \cup {"none"}
    BY <1>1 DEF InteractionTypeOK
  <2>2. \A how \in Heard : Heeded(x, how) => Heeded(x, how)'
    BY HeedStays
  <2>3. \A t \in told[x] : t \in Heard /\ t # "timer" /\ Heeded(x, t)
    BY <1>1, <2>1 DEF InteractionInv
  <2>4. \A how \in Heard : how \in {heard[x], journal[x]} => Heeded(x, how)
    BY <1>1, KindsAssumption DEF InteractionInv, Heard
  <2>. QED
    BY <2>1, <2>2, <2>3, <2>4
<1>3. CASE UNCHANGED <<told, box, heard, journal>>
  BY <1>1, <1>2, <1>3 DEF InteractionInv
<1>4. ASSUME NEW i \in Interactions, InteractionChild(i) PROVE InteractionInv(x)'
  <2>1. CASE ReceivesInteraction(i)
    <3>1. /\ UNCHANGED <<told, journal>> /\ heard' = [heard EXCEPT ![i] = Head(box[i])]
          /\ box' = [box EXCEPT ![i] = Tail(@)] /\ box[i] # << >>
      BY <2>1 DEF ReceivesInteraction, Hears
    <3>2. CASE x # i
      <4>1. heard'[x] = heard[x] /\ box'[x] = box[x]
        BY <1>1, <3>1, <3>2 DEF InteractionTypeOK
      <4>. QED
        BY <1>1, <1>2, <3>1, <4>1 DEF InteractionInv
    <3>3. CASE x = i
      <4>1. /\ heard'[x] = Head(box[x]) /\ box'[x] = Tail(box[x])
            /\ box[x] \in Seq(Heard) /\ box[x] # << >>
        BY <1>1, <3>1, <3>3 DEF InteractionTypeOK
      <4>2. Head(box[x]) \in told[x]
        BY <1>1, <4>1 DEF InteractionInv
      <4>3. \A n \in DOMAIN box'[x] : box'[x][n] \in told[x]
        BY <1>1, <4>1 DEF InteractionInv
      <4>. QED
        BY <1>1, <1>2, <3>1, <4>1, <4>2, <4>3 DEF InteractionInv
    <3>. QED
      BY <3>2, <3>3
  <2>2. CASE TimerExpires(i)
    <3>1. /\ UNCHANGED <<told, journal, box>> /\ heard' = [heard EXCEPT ![i] = "timer"]
          /\ i \in Timed
      BY <2>2 DEF TimerExpires, Hears
    <3>2. heard'[x] = IF x = i THEN "timer" ELSE heard[x]
      BY <1>1, <3>1 DEF InteractionTypeOK
    <3>3. Heeded(i, "timer")'
      BY <3>1, KindsAssumption DEF Heeded
    <3>. QED
      BY <1>1, <1>2, <3>1, <3>2, <3>3 DEF InteractionInv
  <2>3. CASE WindowExpires(i) \/ RelaySettlement(i)
    BY <1>3, <2>3 DEF WindowExpires, RelaySettlement
  <2>. QED
    BY <1>4, <2>1, <2>2, <2>3 DEF InteractionChild, InteractionStep
<1>5. CASE OpenInteraction
  <2>1. /\ UNCHANGED <<told, box, heard>>
        /\ journal'[x] = journal[x] \/ journal'[x] = "pending"
    BY <1>1, <1>5 DEF OpenInteraction, InteractionTypeOK
  <2>. QED
    BY <1>1, <1>2, <2>1, KindsAssumption DEF InteractionInv, Heard
<1>6. CASE HandleInteraction
  <2>0. PICK m \in posted \cap Settlements : m = Head(inbox)
    BY <1>6, HeadMessage, Kinds DEF HandleInteraction, Receives
  <2>1. UNCHANGED <<told, box, heard>>
    BY <1>6 DEF HandleInteraction
  <2>2. CASE UNCHANGED journal
    BY <1>3, <2>1, <2>2
  <2>3. CASE journal' = Resolved(m.of, m.how)
    <3>1. m.of \in Interactions /\ m.how \in Heard /\ Heeded(m.of, m.how)
      BY DEF Settlements, InteractionsInv, SettlementsTold
    <3>2. Heeded(m.of, m.how)'
      BY <3>1, HeedStays
    <3>3. journal'[x] = IF x = m.of THEN m.how ELSE journal[x]
      BY <1>1, <2>3, <3>1 DEF Resolved, InteractionTypeOK
    <3>. QED
      BY <1>1, <1>2, <2>1, <3>2, <3>3 DEF InteractionInv
  <2>. QED
    BY <1>6, <2>0, <2>2, <2>3 DEF HandleInteraction
<1>7. ASSUME NEW i \in Interactions, CancelInteraction(i) PROVE InteractionInv(x)'
  <2>1. kernel.mode # "running"
    BY <1>7 DEF CancelInteraction, WindDownInv
  <2>2. Heeded(i, "cancel") /\ "cancel" \in Heard \ {"timer"}
    BY <2>1, KindsAssumption DEF Heeded, Heard
  <2>3. Heeded(i, "cancel")'
    BY <2>2, HeedStays
  <2>. QED
    BY <1>7, <2>2, <2>3, DeliveryKeeps DEF CancelInteraction
<1>8. ASSUME NEW c \in Calls, CallSends(c) PROVE InteractionInv(x)'
  <2>. DEFINE i == call[c].of
  <2>1. c \in Heard \ {"timer"} /\ c # "cancel" /\ c # "timer"
    BY KindsAssumption DEF Heard
  <2>2. call[c] \in [at : {"idle", "checked", "accepted", "refused", "failed"},
                     of : Answerable \cup {"none"}]
    BY DEF HostInv, TypeOK
  <2>3. /\ call'[c].of = i /\ call'[c].at \in {"accepted", "failed"}
        /\ Deliver(i, c) /\ UNCHANGED <<heard, journal>>
    BY <1>8, <2>2 DEF CallSends, HostInv, TypeOK
  <2>4. i \in Interactions
    BY <1>8, InteractionsAssumption DEF CallSends, InteractionsInv, CallsMade
  <2>5. Heeded(i, c)'
    BY <2>1, <2>3 DEF Heeded
  <2>. QED
    BY <2>1, <2>3, <2>4, <2>5, DeliveryKeeps
<1>. QED
  BY <1>3, <1>4, <1>5, <1>6, <1>7, <1>8 DEF Next, Child, Emits, AgentChild, AgentProcess, Root,
     RootStep, ScriptRootStep, InteractionRootStep, AgentRootStep, ScriptEnds, CallChecks,
     CallFails, CancelRunChecks, CancelRunSends, Crash, vars, peerVars, interactionVars,
     StartInteraction, DispatchAgent, AskAgent

LEMMA InteractionsInvariant == Spec => []InteractionsInv
<1>1. Init => InteractionsInv
  BY KindsAssumption
     DEF Init, InteractionInit, DurableInit, InteractionsInv, InteractionInv, SettlementsTold,
         CallsMade, Heard
<1>. QED
  BY <1>1, InteractionsStep, HostInvariant, WindDownInvariant, PTL DEF Spec

(* What the journal publishes as the end of a wait or gate is what ended   *)
(* it: a call made for it and not refused, its own timer, or a             *)
(* cancellation of a run that winds down (applyInteractionObservation).    *)
THEOREM ResolutionsAreTrue == Spec => []ResolutionIsTruthful
<1>1. InteractionsInv => ResolutionIsTruthful
  BY KindsAssumption
     DEF InteractionsInv, InteractionInv, Heeded, Heard, ResolutionIsTruthful
<1>. QED
  BY <1>1, InteractionsInvariant, PTL

(* The answers to a wait or gate share one idempotency key, so at most one *)
(* is delivered, however many calls found it pending                       *)
(* (sendOperationInteraction).                                             *)
THEOREM AnswersAreDeliveredOnce == Spec => []OneAnswerIsDelivered
<1>1. ASSUME InteractionsInv, NEW i \in Interactions
      PROVE  Cardinality(told[i] \cap Calls) <= 1
  <2>1. \A s, t \in told[i] \cap Calls : s = t
    BY <1>1, KindsAssumption DEF InteractionsInv, InteractionInv, KeyOf
  <2>2. CASE told[i] \cap Calls = {}
    BY <2>2, FS_EmptySet
  <2>3. ASSUME NEW c \in told[i] \cap Calls PROVE Cardinality(told[i] \cap Calls) <= 1
    <3>1. told[i] \cap Calls = {c}
      BY <2>1
    <3>. QED
      BY <3>1, FS_Singleton
  <2>. QED
    BY <2>2, <2>3
<1>2. InteractionsInv => OneAnswerIsDelivered
  BY <1>1 DEF OneAnswerIsDelivered
<1>. QED
  BY <1>2, InteractionsInvariant, PTL

-----------------------------------------------------------------------------
(* What the journal publishes of an attempt, and on what grounds.          *)
PublishedTruly ==
    /\ \A a \in Attempts :
          /\ attempt[a] = "succeeded" => effect[a] = "succeeded"
          /\ attempt[a] = "failed" => effect[a] \in {"failed", "retryable"}
          /\ attempt[a] = "cancelled" => effect[a] = "cancelled" \/ winner[a] = "cancel_won"
    /\ \A g \in Agents :
          /\ attempt[<<g, 1>>] \in {"succeeded", "cancelled"} =>
                agent[g].state = attempt[<<g, 1>>]
          /\ attempt[<<g, 1>>] = "failed" => agent[g].state \in {"failed", "rejected"}

PublishedOnce ==
    /\ \A a \in HostedAttempts :
          attempt[a] \in K!Outcomes => <<"observation", a>> \in receipts
    /\ \A i \in Interactions : journal[i] \in Heard => <<"interaction", i>> \in receipts
    /\ \A a \in uncertain : attempt[a] = "unknown" /\ Moved(a[1])
    /\ rootPc \in Claiming => attempt[target] \in {"pending", "running"}

JournalInv == PublishedTruly /\ PublishedOnce

(* The four ways in which the root changes what it publishes of attempts.  *)
Launches(x) ==
    /\ Starts(x) /\ x \in Ops \cup Agents
    /\ attempt' = [attempt EXCEPT ![<<x, 1>>] = "running"]
    /\ UNCHANGED uncertain

Restarts(a) ==
    /\ a \in Attempts /\ attempt' = [attempt EXCEPT ![a] = Started(a)]
    /\ UNCHANGED uncertain

Doubts(a) ==
    /\ a \in HostedAttempts /\ Moved(a[1])
    /\ a \in uncertain \/ attempt[a] \in {"pending", "running"}
    /\ MarkRecovery(a)

Observes(m) ==
    /\ m \in posted /\ m.type = "observation" /\ m.of \in HostedAttempts
    /\ ReceiptOf(m) \notin receipts /\ ReceiptOf(m) \in receipts'
    /\ uncertain' = uncertain \ {m.of}
    /\ IF m.retrying
       THEN LET next == <<m.of[1], m.of[2] + 1>>
            IN attempt' = [attempt EXCEPT ![m.of] = "failed",
                                          ![next] = IF @ = "none" THEN "pending" ELSE @]
       ELSE attempt' = [attempt EXCEPT ![m.of] = OutcomeOf(m.result)]

LEMMA Restarting ==
    ASSUME HostInv, HandleRetryStart
    PROVE  UNCHANGED <<attempt, uncertain>> \/ \E a \in HostedAttempts : Restarts(a)
<1>1. Head(inbox).of \in Attempts
  BY HeadMessage, Kinds DEF HandleRetryStart, Receives
<1>. QED
  BY <1>1 DEF HandleRetryStart, Restarts, HostedAttempts

LEMMA Doubting ==
    ASSUME HostInv, [Next]_vars,
           \/ HandleRecovery \/ CancelAttempt \/ ReconcileCancellation
           \/ \E op \in Ops : ClaimCancelFails(op),
           PublishedOnce
    PROVE  UNCHANGED <<attempt, uncertain>> \/ \E a \in HostedAttempts : Doubts(a)
<1>1. CASE HandleRecovery
  <2>. DEFINE m == Head(inbox)
  <2>1. /\ m \in posted /\ m \in Messages /\ m.type = "recovery"
    BY <1>1, HeadMessage DEF HandleRecovery, Receives
  <2>2. m.of \in HostedAttempts /\ m \in AboutOperation /\ Subject(m) = m.of[1]
    BY <2>1, Kinds DEF HostedAttempts, AboutOperation, CancelRequest, Subject
  <2>3. Moved(m.of[1])
    BY <2>1, <2>2 DEF HostInv, SubjectInv
  <2>4. UNCHANGED <<attempt, uncertain>> \/ (Recoverable(m.of) /\ MarkRecovery(m.of))
    BY <1>1 DEF HandleRecovery, journalVars
  <2>5. Recoverable(m.of) /\ MarkRecovery(m.of) => Doubts(m.of)
    BY <2>2, <2>3 DEF Recoverable, Doubts
  <2>. QED
    BY <2>2, <2>4, <2>5
<1>2. ASSUME NEW a \in Attempts, RecordCancellationRecovery(a),
             attempt[a] \in {"pending", "running"}
      PROVE  \E b \in HostedAttempts : Doubts(b)
  <2>1. Known(a) /\ Moved(a[1])
    BY <1>2 DEF HostInv, TargetInv, Known, LaneProofs!KnownToRoot, Moved
  <2>. QED
    BY <1>2, <2>1 DEF RecordCancellationRecovery, Doubts, HostedAttempts
<1>3. CASE CancelAttempt \/ ReconcileCancellation
  <2>1. target \in Attempts /\ attempt[target] \in {"pending", "running"}
    BY <1>3 DEF CancelAttempt, ReconcileCancellation, HostInv, TargetInv, PublishedOnce,
       Claiming
  <2>. QED
    BY <1>2, <1>3, <2>1 DEF CancelAttempt, ReconcileCancellation, journalVars
<1>4. ASSUME NEW op \in Ops, ClaimCancelFails(op) PROVE \E b \in HostedAttempts : Doubts(b)
  <2>1. LatestAttempt(op) \in CancellableAttempts(op)
    BY <1>4, LatestAttemptExists DEF ClaimCancelFails
  <2>. QED
    BY <1>2, <1>4, <2>1 DEF ClaimCancelFails, CancellableAttempts
<1>. QED
  BY <1>1, <1>3, <1>4

LEMMA Observing ==
    ASSUME HostInv, HandleObservation
    PROVE  UNCHANGED <<attempt, uncertain>> \/ \E m \in posted : Observes(m)
<1>. DEFINE m == Head(inbox)
<1>1. /\ m \in posted /\ m \in Messages /\ m.type = "observation"
      /\ ReceiptOf(m) \notin receipts
  BY HeadMessage DEF HandleObservation, Receives
<1>2. m.of \in HostedAttempts
  BY <1>1, Kinds DEF HostedAttempts
<1>. QED
  BY <1>1, <1>2 DEF HandleObservation, Observes, ApplyRetrying, ApplySettled

LEMMA Launching ==
    ASSUME HostInv, DispatchOperation \/ DispatchAgent
    PROVE  \E x \in Hosted : Launches(x) /\ ~ Moved(x)
<1>1. HasCommand("dispatch") /\ Head(commands).of \in Ops \cup Agents
  BY DEF DispatchOperation, DispatchAgent
<1>2. PICK x \in Hosted : x = Head(commands).of /\ Head(commands) = K!Dispatch(x) /\ Queued(x)
  BY <1>1, HostTypes, HeadCommand DEF HostInv, Queued
<1>3. ~ Moved(x)
  BY <1>2 DEF HostInv, IssueInv
<1>4. Starts(x) /\ UNCHANGED uncertain /\ attempt' = [attempt EXCEPT ![<<x, 1>>] = "running"]
  BY <1>1, <1>2 DEF Starts, DispatchOperation, DispatchAgent, TakeCommand, durableVars
<1>. QED
  BY <1>1, <1>2, <1>3, <1>4 DEF Launches

LEMMA AttemptsMove ==
    ASSUME HostInv, PublishedOnce, [Next]_vars
    PROVE  \/ UNCHANGED <<attempt, uncertain>>
           \/ \E x \in Hosted : Launches(x) /\ ~ Moved(x)
           \/ \E a \in HostedAttempts : Restarts(a) \/ Doubts(a)
           \/ \E m \in posted : Observes(m)
<1>1. CASE Root
  BY <1>1, Restarting, Doubting, Observing, Launching
     DEF Root, RootStep, ScriptRootStep, InteractionRootStep, AgentRootStep, RefuseCommand,
         StartCancelPending, FinishRun, HandleCancellation, HandleLiveEvent, AdvanceKernel,
         TargetsDone, ClaimCancel, NothingToCancel, RelayCancellation, OpenInteraction,
         StartInteraction, HandleInteraction, CancelInteraction, AskAgent, journalVars, rootVars
<1>2. CASE ~ Root
  BY <1>2 DEF Next, Child, Emits, InteractionChild, AgentChild, AgentProcess, ScriptEnds,
     CallChecks, CallSends, CallFails, CancelRunChecks, CancelRunSends, Crash, vars, rootVars,
     journalVars
<1>. QED
  BY <1>1, <1>2

(* No receipt is forgotten.                                                *)
LEMMA ReceiptsStay ==
    ASSUME [Next]_vars
    PROVE  receipts \subseteq receipts'
<1>1. CASE Root
  BY <1>1
     DEF Root, RootStep, ScriptRootStep, InteractionRootStep, AgentRootStep, RefuseCommand,
         DispatchOperation, StartCancelPending, FinishRun, HandleCancellation, HandleLiveEvent,
         HandleRetryStart, HandleRecovery, HandleObservation, AdvanceKernel, TargetsDone,
         ClaimCancel, ClaimCancelFails, NothingToCancel, CancelAttempt, ReconcileCancellation,
         RelayCancellation, OpenInteraction, StartInteraction, HandleInteraction,
         CancelInteraction, DispatchAgent, AskAgent, rootVars, runtimeVars
<1>2. CASE ~ Root
  BY <1>2 DEF Next, Child, Emits, InteractionChild, AgentChild, AgentProcess, ScriptEnds,
     CallChecks, CallSends, CallFails, CancelRunChecks, CancelRunSends, Crash, vars, rootVars,
     runtimeVars
<1>. QED
  BY <1>1, <1>2

(* What one observation does to the journal.                               *)
LEMMA ObservedChanges ==
    ASSUME HostInv, NEW m, Observes(m), NEW a \in HostedAttempts
    PROVE  \/ /\ a = m.of
              /\ attempt'[a] = IF m.retrying THEN "failed" ELSE OutcomeOf(m.result)
           \/ /\ a # m.of /\ attempt[a] = "none" /\ attempt'[a] = "pending"
              /\ m.retrying /\ a = <<m.of[1], m.of[2] + 1>>
           \/ a # m.of /\ attempt'[a] = attempt[a]
<1>1. attempt \in [HostedAttempts -> AttemptStatuses]
  BY HostTypes DEF HostInv, RootTypeOK
<1>2. CASE ~ m.retrying
  BY <1>1, <1>2 DEF Observes
<1>3. CASE m.retrying
  <2>. DEFINE next == <<m.of[1], m.of[2] + 1>>
              first == [attempt EXCEPT ![m.of] = "failed"]
  <2>1. /\ m.of \in HostedAttempts
        /\ attempt' = [first EXCEPT ![next] = IF @ = "none" THEN "pending" ELSE @]
    BY <1>3 DEF Observes
  <2>2. next # m.of
    <3>1. m.of[2] \in Nat
      BY <2>1, MaxAttemptsAssumption DEF HostedAttempts, Attempts, Ordinals
    <3>. QED
      BY <3>1
  <2>3. first \in [HostedAttempts -> AttemptStatuses \cup {"failed"}]
    BY <1>1
  <2>4. first[a] = IF a = m.of THEN "failed" ELSE attempt[a]
    BY <1>1, <2>1
  <2>5. attempt'[a] = IF a = next /\ first[a] = "none" THEN "pending" ELSE first[a]
    BY <2>1, <2>3
  <2>. QED
    BY <1>3, <2>2, <2>4, <2>5
<1>. QED
  BY <1>2, <1>3

(* While the root cancels an attempt it publishes nothing of it.           *)
LEMMA ClaimingStays ==
    ASSUME HostInv, [Next]_vars, rootPc \in Claiming, UNCHANGED rootPc
    PROVE  UNCHANGED attempt
<1>1. CASE Root
  BY <1>1
     DEF Root, RootStep, ScriptRootStep, InteractionRootStep, AgentRootStep, Claiming,
         HasCommand, Receives, RefuseCommand, DispatchOperation, StartCancelPending, FinishRun,
         HandleCancellation, HandleLiveEvent, HandleRetryStart, HandleRecovery,
         HandleObservation, AdvanceKernel, TargetsDone, ClaimCancel, ClaimCancelFails,
         NothingToCancel, CancelAttempt, ReconcileCancellation, RecordCancellationRecovery,
         RelayCancellation, OpenInteraction, StartInteraction, HandleInteraction,
         CancelInteraction, DispatchAgent, AskAgent, rootVars, journalVars
<1>2. CASE ~ Root
  BY <1>2 DEF Next, Child, Emits, InteractionChild, AgentChild, AgentProcess, ScriptEnds,
     CallChecks, CallSends, CallFails, CancelRunChecks, CancelRunSends, Crash, vars, rootVars,
     journalVars
<1>. QED
  BY <1>1, <1>2

(* How the attempts change: only an observation makes an outcome, and only *)
(* of an attempt that had none.                                            *)
LEMMA OutcomesStand ==
    ASSUME HostInv, PublishedOnce, [Next]_vars, NEW a \in HostedAttempts
    PROVE  /\ attempt[a] \in K!Outcomes => attempt'[a] = attempt[a]
           /\ attempt'[a] \in K!Outcomes =>
                 \/ attempt[a] = attempt'[a]
                 \/ \E m \in posted : Observes(m) /\ m.of = a
<1>1. attempt \in [HostedAttempts -> AttemptStatuses]
  BY HostTypes DEF HostInv, RootTypeOK
<1>2. attempt[a] \in K!Outcomes => <<"observation", a>> \in receipts /\ Moved(a[1])
  <2>. SUFFICES ASSUME attempt[a] \in K!Outcomes
                PROVE  <<"observation", a>> \in receipts /\ Moved(a[1])
    OBVIOUS
  <2>1. <<"observation", a>> \in receipts
    BY DEF PublishedOnce
  <2>2. PICK p \in posted : ReceiptOf(p) = <<"observation", a>>
    BY <2>1 DEF HostInv, InboxInv
  <2>3. p \in Messages
    BY HostTypes DEF HostInv, DurableTypeOK
  <2>4. p.type = "observation" /\ p.of = a
    BY <2>2 DEF ReceiptOf
  <2>5. p \in AboutOperation /\ Subject(p) = a[1]
    BY <2>3, <2>4, Kinds DEF AboutOperation, Subject, CancelRequest
  <2>. QED
    BY <2>1, <2>5 DEF HostInv, SubjectInv
<1>3. CASE UNCHANGED <<attempt, uncertain>>
  BY <1>3
<1>4. ASSUME NEW x \in Hosted, Launches(x), ~ Moved(x)
      PROVE  /\ attempt[a] \in K!Outcomes => attempt'[a] = attempt[a]
             /\ attempt'[a] \in K!Outcomes => attempt[a] = attempt'[a]
  <2>1. a[1] = x => attempt[a] \notin K!Outcomes
    BY <1>2, <1>4
  <2>2. attempt'[a] = IF a = <<x, 1>> THEN "running" ELSE attempt[a]
    BY <1>1, <1>4 DEF Launches
  <2>. QED
    BY <2>1, <2>2 DEF K!Outcomes
<1>5. ASSUME NEW b \in HostedAttempts, Restarts(b)
      PROVE  /\ attempt[a] \in K!Outcomes => attempt'[a] = attempt[a]
             /\ attempt'[a] \in K!Outcomes => attempt[a] = attempt'[a]
  BY <1>1, <1>5 DEF Restarts, Started, K!Outcomes
<1>6. ASSUME NEW b \in HostedAttempts, Doubts(b)
      PROVE  /\ attempt[a] \in K!Outcomes => attempt'[a] = attempt[a]
             /\ attempt'[a] \in K!Outcomes => attempt[a] = attempt'[a]
  <2>1. attempt[b] \notin K!Outcomes
    BY <1>6 DEF Doubts, PublishedOnce, K!Outcomes
  <2>. QED
    BY <1>1, <1>6, <2>1 DEF Doubts, MarkRecovery, K!Outcomes
<1>7. ASSUME NEW m \in posted, Observes(m)
      PROVE  /\ attempt[a] \in K!Outcomes => attempt'[a] = attempt[a]
             /\ attempt'[a] \in K!Outcomes => attempt[a] = attempt'[a] \/ m.of = a
  <2>1. m.of = a => attempt[a] \notin K!Outcomes
    BY <1>2, <1>7 DEF Observes, ReceiptOf
  <2>. QED
    BY <1>7, <2>1, ObservedChanges DEF K!Outcomes
<1>. QED
  BY <1>3, <1>4, <1>5, <1>6, <1>7, AttemptsMove

(* An observation of a script is true of it when the root applies it, ...  *)
LEMMA ScriptOutcomesAreTrue ==
    ASSUME HostInv, NEW m \in posted, Observes(m), m.of \in Attempts
    PROVE  /\ attempt'[m.of] = "succeeded" => effect[m.of] = "succeeded"
           /\ attempt'[m.of] = "failed" => effect[m.of] \in {"failed", "retryable"}
           /\ attempt'[m.of] = "cancelled" =>
                 effect[m.of] = "cancelled" \/ winner[m.of] = "cancel_won"
<1>1. m \in Messages /\ m.type = "observation"
  BY HostTypes DEF HostInv, DurableTypeOK, Observes
<1>2. m.of \notin Agents \X {1}
  BY KindsAssumption DEF Attempts
<1>3. m \in ScriptReports /\ m \in Observations
  BY <1>1, <1>2, Kinds
<1>4. IF m.result = "preDispatch" THEN winner[m.of] = "cancel_won"
                                  ELSE effect[m.of] = m.result
  BY <1>3, SameNames
     DEF HostInv, LaneProofs!LanesInv, LaneProofs!RefinementInv, LaneProofs!Inv,
         LaneProofs!ObservationsAreTrue
<1>5. m.retrying => m.result = "retryable"
  BY <1>1, <1>3, SameNames
     DEF HostInv, LaneProofs!LanesInv, LaneProofs!ReportsOrdered, LaneProofs!Reports
<1>6. m.result \in Results \cup {"preDispatch"}
  BY <1>3 DEF Observations
<1>7. attempt'[m.of] = IF m.retrying THEN "failed" ELSE OutcomeOf(m.result)
  BY ObservedChanges DEF HostedAttempts
<1>. QED
  BY <1>4, <1>5, <1>6, <1>7 DEF OutcomeOf, Results

(* ... and so is one of an agent.                                          *)
LEMMA AgentOutcomesAreTrue ==
    ASSUME HostInv, AgentsTold, NEW m \in posted, Observes(m),
           NEW g \in Agents, m.of = <<g, 1>>
    PROVE  /\ attempt'[<<g, 1>>] \in {"succeeded", "cancelled"} =>
                 agent[g].state = attempt'[<<g, 1>>]
           /\ attempt'[<<g, 1>>] = "failed" => agent[g].state \in {"failed", "rejected"}
<1>1. m \in Messages /\ m.type = "observation"
  BY HostTypes DEF HostInv, DurableTypeOK, Observes
<1>2. m.of \notin Attempts
  BY KindsAssumption DEF Attempts
<1>3. m \in AgentReports
  BY <1>1, <1>2, Kinds
<1>4. m.result \in AgentResults /\ m.retrying = FALSE
  BY <1>1, <1>3 DEF AgentReports
<1>5. \/ agent[g].state = m.result
      \/ m.result = "failed" /\ agent[g].state = "rejected"
  BY <1>1, <1>3 DEF AgentsTold
<1>6. attempt'[<<g, 1>>] = OutcomeOf(m.result)
  BY <1>4, ObservedChanges DEF Observes
<1>. QED
  BY <1>4, <1>5, <1>6 DEF OutcomeOf, AgentResults

LEMMA PublishedTrulyStep ==
    ASSUME HostInv, AgentsInv, AgentsTold, JournalInv, [Next]_vars
    PROVE  PublishedTruly'
<1>1. /\ effect \in [Attempts -> {"absent", "running"} \cup Results]
      /\ winner \in [Attempts -> Winners]
      /\ \A a \in Attempts : winner[a] # "none" => winner'[a] = winner[a]
      /\ \A a \in Attempts : effect[a] \in Results => effect'[a] = effect[a]
  BY HostTypes, LanesKeep DEF HostInv, DurableTypeOK, ProviderTypeOK
<1>2. ASSUME NEW a \in Attempts
      PROVE  /\ attempt'[a] = "succeeded" => effect'[a] = "succeeded"
             /\ attempt'[a] = "failed" => effect'[a] \in {"failed", "retryable"}
             /\ attempt'[a] = "cancelled" =>
                   effect'[a] = "cancelled" \/ winner'[a] = "cancel_won"
  <2>1. attempt'[a] \in K!Outcomes =>
            attempt[a] = attempt'[a] \/ \E m \in posted : Observes(m) /\ m.of = a
    BY OutcomesStand DEF JournalInv, HostedAttempts
  <2>2. attempt'[a] \in K!Outcomes =>
            /\ attempt'[a] = "succeeded" => effect[a] = "succeeded"
            /\ attempt'[a] = "failed" => effect[a] \in {"failed", "retryable"}
            /\ attempt'[a] = "cancelled" =>
                   effect[a] = "cancelled" \/ winner[a] = "cancel_won"
    BY <2>1, ScriptOutcomesAreTrue DEF JournalInv, PublishedTruly
  <2>. QED
    BY <1>1, <2>2 DEF K!Outcomes, Results
<1>3. ASSUME NEW g \in Agents
      PROVE  /\ attempt'[<<g, 1>>] \in {"succeeded", "cancelled"} =>
                   agent'[g].state = attempt'[<<g, 1>>]
             /\ attempt'[<<g, 1>>] = "failed" => agent'[g].state \in {"failed", "rejected"}
  <2>1. attempt'[<<g, 1>>] \in K!Outcomes =>
            \/ attempt[<<g, 1>>] = attempt'[<<g, 1>>]
            \/ \E m \in posted : Observes(m) /\ m.of = <<g, 1>>
    BY OutcomesStand DEF JournalInv, HostedAttempts
  <2>2. /\ attempt'[<<g, 1>>] \in {"succeeded", "cancelled"} =>
              agent[g].state = attempt'[<<g, 1>>]
        /\ attempt'[<<g, 1>>] = "failed" => agent[g].state \in {"failed", "rejected"}
    BY <2>1, AgentOutcomesAreTrue DEF JournalInv, PublishedTruly, K!Outcomes
  <2>3. agent[g].state \in AgentResults \cup {"rejected"} => agent'[g].state = agent[g].state
    BY EndsStand
  <2>. QED
    BY <2>2, <2>3 DEF AgentResults
<1>. QED
  BY <1>2, <1>3 DEF PublishedTruly

(* Nor is the end of a wait or gate published twice.                       *)
LEMMA ResolutionsStand ==
    ASSUME HostInv, PublishedOnce, [Next]_vars, NEW i \in Interactions
    PROVE  /\ journal[i] \in Heard => journal'[i] = journal[i]
           /\ journal'[i] \in Heard => <<"interaction", i>> \in receipts'
<1>1. journal \in [Interactions -> Heard \cup {"none", "pending"}]
  BY HostTypes DEF HostInv, InteractionTypeOK
<1>2. journal[i] \in Heard => <<"interaction", i>> \in receipts /\ <<"interaction", i>> \in receipts'
  BY ReceiptsStay DEF PublishedOnce
<1>3. CASE UNCHANGED journal
  BY <1>2, <1>3
<1>4. CASE OpenInteraction
  <2>1. \/ journal'[i] = journal[i]
        \/ child[i] = "unopened" /\ journal'[i] = "pending"
    <3>1. PICK j : /\ j = Head(commands).of /\ child[j] = "unopened"
                   /\ journal' = [journal EXCEPT ![j] = "pending"]
      BY <1>4 DEF OpenInteraction
    <3>. QED
      BY <1>1, <3>1
  <2>2. journal[i] \in Heard => Moved(i)
    <3>. SUFFICES ASSUME journal[i] \in Heard PROVE Moved(i)
      OBVIOUS
    <3>1. PICK p \in posted : ReceiptOf(p) = <<"interaction", i>>
      BY <1>2 DEF HostInv, InboxInv
    <3>2. p \in Messages
      BY HostTypes DEF HostInv, DurableTypeOK
    <3>3. p.type = "interaction" /\ p.of = i
      BY <3>1 DEF ReceiptOf
    <3>4. p \in AboutOperation /\ Subject(p) = i
      BY <3>2, <3>3, Kinds DEF AboutOperation, Subject, CancelRequest
    <3>. QED
      BY <3>4 DEF HostInv, SubjectInv
  <2>3. child[i] = "unopened" => ~ Moved(i)
    <3>1. i \notin started /\ i \notin Agents
      BY HostTypes, KindsAssumption DEF HostInv, DurableTypeOK
    <3>. QED
      BY <3>1 DEF Moved
  <2>. QED
    BY <1>2, <2>1, <2>2, <2>3, KindsAssumption DEF Heard
<1>5. CASE HandleInteraction /\ ~ UNCHANGED journal
  <2>1. PICK m \in Messages :
            /\ m = Head(inbox) /\ m.type = "interaction" /\ ReceiptOf(m) \notin receipts
            /\ ReceiptOf(m) \in receipts' /\ journal' = Resolved(m.of, m.how)
    BY <1>5, HeadMessage DEF HandleInteraction, Receives
  <2>2. m.of \in Interactions /\ ReceiptOf(m) = <<"interaction", m.of>>
    BY <2>1, Kinds DEF ReceiptOf
  <2>3. journal'[i] = IF i = m.of THEN m.how ELSE journal[i]
    BY <1>1, <2>1, <2>2 DEF Resolved
  <2>. QED
    BY <1>2, <2>1, <2>2, <2>3
<1>6. CASE Root
  BY <1>3, <1>4, <1>5, <1>6 DEF Root, RootStep, InteractionRootStep, AgentRootStep,
     StartInteraction, CancelInteraction, DispatchAgent, AskAgent, interactionVars
<1>7. CASE ~ Root
  BY <1>3, <1>7 DEF Next, Child, Emits, InteractionChild, InteractionStep, ReceivesInteraction,
     TimerExpires, WindowExpires, Hears, RelaySettlement, AgentChild, AgentProcess, ScriptEnds,
     CallChecks, CallSends, CallFails, CancelRunChecks, CancelRunSends, Crash, vars, peerVars,
     interactionVars
<1>. QED
  BY <1>6, <1>7

LEMMA PublishedOnceStep ==
    ASSUME HostInv, PublishedOnce, [Next]_vars
    PROVE  PublishedOnce'
<1>1. /\ attempt \in [HostedAttempts -> AttemptStatuses] /\ uncertain \subseteq HostedAttempts
      /\ receipts \subseteq receipts'
  BY HostTypes, ReceiptsStay DEF HostInv, RootTypeOK
<1>2. ASSUME NEW a \in HostedAttempts, attempt'[a] \in K!Outcomes
      PROVE  <<"observation", a>> \in receipts'
  <2>1. attempt[a] \in K!Outcomes \/ \E m \in posted : Observes(m) /\ m.of = a
    BY <1>2, OutcomesStand
  <2>. QED
    BY <1>1, <2>1 DEF PublishedOnce, Observes, ReceiptOf
<1>3. ASSUME NEW i \in Interactions, journal'[i] \in Heard
      PROVE  <<"interaction", i>> \in receipts'
  BY <1>3, ResolutionsStand
<1>4. ASSUME NEW a \in uncertain' PROVE attempt'[a] = "unknown" /\ Moved(a[1])'
  <2>1. ASSUME NEW b \in HostedAttempts, Moved(b[1]) PROVE Moved(b[1])'
    <3>1. PICK x \in Hosted : x = b[1]
      BY DEF HostedAttempts, Attempts, Hosted
    <3>. QED
      BY <2>1, <3>1, Moves
  <2>2. CASE UNCHANGED <<attempt, uncertain>>
    BY <1>1, <1>4, <2>1, <2>2 DEF PublishedOnce
  <2>3. ASSUME NEW x \in Hosted, Launches(x), ~ Moved(x)
        PROVE  attempt'[a] = "unknown" /\ Moved(a[1])'
    <3>1. a \in uncertain /\ attempt[a] = "unknown" /\ Moved(a[1]) /\ a \in HostedAttempts
      BY <1>1, <1>4, <2>3 DEF Launches, PublishedOnce
    <3>2. a # <<x, 1>>
      BY <2>3, <3>1
    <3>. QED
      BY <1>1, <2>1, <2>3, <3>1, <3>2 DEF Launches
  <2>4. ASSUME NEW b \in HostedAttempts, Restarts(b)
        PROVE  attempt'[a] = "unknown" /\ Moved(a[1])'
    <3>1. a \in uncertain /\ attempt[a] = "unknown" /\ Moved(a[1]) /\ a \in HostedAttempts
      BY <1>1, <1>4, <2>4 DEF Restarts, PublishedOnce
    <3>. QED
      BY <1>1, <2>1, <2>4, <3>1 DEF Restarts, Started
  <2>5. ASSUME NEW b \in HostedAttempts, Doubts(b)
        PROVE  attempt'[a] = "unknown" /\ Moved(a[1])'
    <3>1. a \in HostedAttempts /\ Moved(a[1]) /\ (a = b \/ attempt[a] = "unknown")
      BY <1>1, <1>4, <2>5 DEF Doubts, MarkRecovery, PublishedOnce
    <3>. QED
      BY <1>1, <2>1, <2>5, <3>1 DEF Doubts, MarkRecovery
  <2>6. ASSUME NEW m \in posted, Observes(m)
        PROVE  attempt'[a] = "unknown" /\ Moved(a[1])'
    <3>1. /\ a \in uncertain /\ a # m.of /\ attempt[a] = "unknown" /\ Moved(a[1])
          /\ a \in HostedAttempts
      BY <1>1, <1>4, <2>6 DEF Observes, PublishedOnce
    <3>. QED
      BY <2>1, <2>6, <3>1, ObservedChanges
  <2>. QED
    BY <2>2, <2>3, <2>4, <2>5, <2>6, AttemptsMove
<1>5. ASSUME rootPc' \in Claiming PROVE attempt'[target'] \in {"pending", "running"}
  <2>1. CASE UNCHANGED <<rootPc, target>>
    BY <1>5, <2>1, ClaimingStays DEF PublishedOnce
  <2>2. ASSUME NEW op \in Ops, ClaimCancel(op) PROVE attempt'[target'] \in {"pending", "running"}
    <3>1. LatestAttempt(op) \in CancellableAttempts(op)
      BY <2>2, LatestAttemptExists DEF ClaimCancel
    <3>. QED
      BY <2>2, <3>1 DEF ClaimCancel, CancellableAttempts, journalVars
  <2>3. CASE CancelAttempt \/ ReconcileCancellation
    <3>1. rootPc \in Claiming /\ UNCHANGED <<target, attempt>>
      BY <1>5, <2>3 DEF CancelAttempt, ReconcileCancellation, RecordCancellationRecovery,
         Claiming, journalVars
    <3>. QED
      BY <3>1 DEF PublishedOnce
  <2>. QED
    BY <1>5, <2>1, <2>2, <2>3, TargetMoves
<1>. QED
  BY <1>2, <1>3, <1>4, <1>5 DEF PublishedOnce

(* What the journal publishes has its grounds, in every state of the run.  *)
LEMMA JournalInvariant == Spec => []JournalInv
<1>1. Init => JournalInv
  BY KindsAssumption
     DEF Init, RootInit, InteractionInit, JournalInv, PublishedTruly, PublishedOnce,
         HostedAttempts, K!Outcomes, Claiming, Heard
<1>2. HostInv /\ AgentsInv /\ AgentsTold /\ JournalInv /\ [Next]_vars => JournalInv'
  BY PublishedTrulyStep, PublishedOnceStep DEF JournalInv
<1>. QED
  BY <1>1, <1>2, HostInvariant, AgentsInvariant, AgentsToldInvariant, PTL DEF Spec

(* The journal publishes no outcome that did not happen                    *)
(* (applyScriptObservation, applyNonActivityRelayObservation): it agrees   *)
(* with what the provider sealed, the arbitration decided, or the agent    *)
(* ended with, whatever was retried, recovered or cancelled.               *)
THEOREM JournalIsTrue == Spec => []JournalIsTruthful
<1>1. JournalInv => JournalIsTruthful
  BY DEF JournalInv, PublishedTruly, JournalIsTruthful
<1>. QED
  BY <1>1, JournalInvariant, PTL

(* No outcome that was published is ever replaced: an observation is       *)
(* applied under a receipt that no other observation of the attempt gets,  *)
(* and neither a retry, a recovery nor a cancellation touches an attempt   *)
(* that has its outcome (finalizeObservation, RunJournal).                 *)
THEOREM OutcomesAreFinal == Spec => OutcomeIsFinal
<1>1. HostInv /\ JournalInv /\ [Next]_vars =>
          /\ \A a \in HostedAttempts : attempt[a] \in K!Outcomes => attempt'[a] = attempt[a]
          /\ \A i \in Interactions : journal[i] \in Heard => journal'[i] = journal[i]
  BY OutcomesStand, ResolutionsStand DEF JournalInv
<1>. QED
  BY <1>1, HostInvariant, JournalInvariant, PTL DEF Spec, OutcomeIsFinal

=============================================================================
