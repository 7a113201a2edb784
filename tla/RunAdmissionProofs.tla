------------------------- MODULE RunAdmissionProofs -------------------------
(***************************************************************************)
(* Safety of the life of a run manager and of the createRun calls in it,   *)
(* for every number of starts and all sets of stops, calls and recovered   *)
(* workflows.                                                              *)
(***************************************************************************)
EXTENDS RunAdmission, FiniteSetTheorems, TLAPS

(* The public calls that have not settled.                                 *)
Active == {c \in Calls : call[c] = "active"}

Pending(t) == stop[t] \in {"draining", "shutdown"}
Hosting == lifecycle \in {"running", "stopping"}

(* The counter that stop() waits for counts them; they are made in a       *)
(* running manager, and DBOS is closed only when none is left.             *)
CallsInv ==
    /\ activePublicCalls = Cardinality(Active)
    /\ Active # {} => Hosting /\ dbos = "up"

(* A start() that gets through makes the manager run; one that fails, or   *)
(* is not there, leaves nothing behind.  A start is its composition: its   *)
(* fence is closed until it has got through.                               *)
StartInv ==
    /\ opened \subseteq 1..starts
    /\ starting # "none" => ~Hosting /\ starts # 0 /\ starts \notin opened
    /\ Hosting => composition # 0 /\ installed = composition
    /\ lifecycle = "running" => dbos = "up"
    /\ lifecycle = "stopping" => dbos \in {"up", "closing"}
    /\ ~Hosting /\ starting = "launch" =>
          installed = starts /\ dbos \in {"launching", "recovering"}
    /\ ~Hosting /\ starting = "fail" => installed = 0 /\ dbos = "launching"
    /\ ~Hosting /\ starting \notin {"launch", "fail"} => installed = 0 /\ dbos = "down"

(* One stop() at a time drains the calls and shuts DBOS down.              *)
StopInv ==
    /\ \A t \in Stops : Pending(t) => lifecycle = "stopping"
    /\ \A t \in Stops : stop[t] = "draining" => dbos = "up"
    /\ \A t \in Stops : stop[t] = "shutdown" => dbos = "closing"
    /\ \A t, u \in Stops : Pending(t) /\ Pending(u) => t = u

(* A recovered workflow lives while DBOS does, and until it reaches the    *)
(* host it has the composition that is installed.                          *)
ChildInv(w) ==
    /\ child[w] # "threw"
    /\ child[w] # "none" => dbos \in {"recovering", "up", "closing"}
    /\ child[w] = "composed" => fence[w] = installed

LifecycleInv == TypeOK /\ CallsInv /\ StartInv /\ StopInv /\ \A w \in Children : ChildInv(w)

-----------------------------------------------------------------------------
LEMMA ActiveFinite ==
    IsFiniteSet(Active) /\ Cardinality(Active) \in 0..Cardinality(Calls)
<1>1. Active \in SUBSET Calls
  BY DEF Active
<1>. QED
  BY <1>1, CallsAssumption, FS_Subset, FS_CardinalityType

(* A step that leaves the calls alone.                                     *)
LEMMA CallsStand ==
    ASSUME CallsInv, UNCHANGED callVars,
           Active # {} => lifecycle' \in {"running", "stopping"} /\ dbos' = "up"
    PROVE  CallsInv'
<1>1. Active' = Active /\ activePublicCalls' = activePublicCalls
  BY DEF Active, callVars
<1>. QED
  BY <1>1 DEF CallsInv, Hosting

LEMMA StartCallStep ==
    ASSUME LifecycleInv, Start
    PROVE  LifecycleInv'
<1>. USE DEF LifecycleInv
<1>1. TypeOK'
  BY StartsAssumption DEF TypeOK, Start, callVars, childVars
<1>2. CallsInv'
  BY CallsStand DEF CallsInv, StartInv, StopInv, Hosting, Pending, Start, callVars
<1>3. StartInv'
  BY StartsAssumption DEF TypeOK, StartInv, StopInv, Hosting, Pending, Start
<1>4. StopInv'
  BY DEF TypeOK, StartInv, StopInv, CallsInv, Hosting, Pending, Start
<1>5. ASSUME NEW v \in Children
      PROVE  ChildInv(v)'
  BY <1>5, StartsAssumption DEF TypeOK, StartInv, StopInv, ChildInv, Hosting, Pending,
     Start, childVars
<1>. QED
  BY <1>1, <1>2, <1>3, <1>4, <1>5

LEMMA PersistedRunsCompatibleStep ==
    ASSUME LifecycleInv, PersistedRunsCompatible
    PROVE  LifecycleInv'
<1>. USE DEF LifecycleInv
<1>1. TypeOK'
  BY StartsAssumption DEF TypeOK, PersistedRunsCompatible, callVars, childVars
<1>2. CallsInv'
  BY CallsStand DEF CallsInv, StartInv, StopInv, Hosting, Pending,
     PersistedRunsCompatible, callVars
<1>3. StartInv'
  BY StartsAssumption DEF TypeOK, StartInv, StopInv, Hosting, Pending, PersistedRunsCompatible
<1>4. StopInv'
  BY DEF TypeOK, StartInv, StopInv, CallsInv, Hosting, Pending, PersistedRunsCompatible
<1>5. ASSUME NEW v \in Children
      PROVE  ChildInv(v)'
  BY <1>5, StartsAssumption DEF TypeOK, StartInv, StopInv, ChildInv, Hosting, Pending,
     PersistedRunsCompatible, childVars
<1>. QED
  BY <1>1, <1>2, <1>3, <1>4, <1>5

LEMMA LaunchStep ==
    ASSUME LifecycleInv, Launch
    PROVE  LifecycleInv'
<1>. USE DEF LifecycleInv
<1>1. TypeOK'
  BY StartsAssumption DEF TypeOK, Launch, callVars, childVars
<1>2. CallsInv'
  BY CallsStand DEF CallsInv, StartInv, StopInv, Hosting, Pending, Launch, callVars
<1>3. StartInv'
  BY StartsAssumption DEF TypeOK, StartInv, StopInv, Hosting, Pending, Launch
<1>4. StopInv'
  BY DEF TypeOK, StartInv, StopInv, CallsInv, Hosting, Pending, Launch
<1>5. ASSUME NEW v \in Children
      PROVE  ChildInv(v)'
  BY <1>5, StartsAssumption DEF TypeOK, StartInv, StopInv, ChildInv, Hosting, Pending,
     Launch, childVars
<1>. QED
  BY <1>1, <1>2, <1>3, <1>4, <1>5

LEMMA RecoversStep ==
    ASSUME LifecycleInv, Recovers
    PROVE  LifecycleInv'
<1>. USE DEF LifecycleInv
<1>1. TypeOK'
  BY StartsAssumption DEF TypeOK, Recovers, callVars, childVars
<1>2. CallsInv'
  BY CallsStand DEF CallsInv, StartInv, StopInv, Hosting, Pending, Recovers, callVars
<1>3. StartInv'
  BY StartsAssumption DEF TypeOK, StartInv, StopInv, Hosting, Pending, Recovers
<1>4. StopInv'
  BY DEF TypeOK, StartInv, StopInv, CallsInv, Hosting, Pending, Recovers
<1>5. ASSUME NEW v \in Children
      PROVE  ChildInv(v)'
  BY <1>5, StartsAssumption DEF TypeOK, StartInv, StopInv, ChildInv, Hosting, Pending,
     Recovers, childVars
<1>. QED
  BY <1>1, <1>2, <1>3, <1>4, <1>5

LEMMA InitializationFailsStep ==
    ASSUME LifecycleInv, InitializationFails
    PROVE  LifecycleInv'
<1>. USE DEF LifecycleInv
<1>1. TypeOK'
  BY StartsAssumption DEF TypeOK, InitializationFails, callVars, childVars
<1>2. CallsInv'
  BY CallsStand DEF CallsInv, StartInv, StopInv, Hosting, Pending, InitializationFails, callVars
<1>3. StartInv'
  BY StartsAssumption DEF TypeOK, StartInv, StopInv, Hosting, Pending, InitializationFails
<1>4. StopInv'
  BY DEF TypeOK, StartInv, StopInv, CallsInv, Hosting, Pending, InitializationFails
<1>5. ASSUME NEW v \in Children
      PROVE  ChildInv(v)'
  BY <1>5, StartsAssumption DEF TypeOK, StartInv, StopInv, ChildInv, Hosting, Pending,
     InitializationFails, childVars
<1>. QED
  BY <1>1, <1>2, <1>3, <1>4, <1>5

LEMMA LaunchedStep ==
    ASSUME LifecycleInv, Launched
    PROVE  LifecycleInv'
<1>. USE DEF LifecycleInv
<1>1. TypeOK'
  BY StartsAssumption DEF TypeOK, StartInv, Hosting, Launched, callVars, childVars
<1>2. CallsInv'
  BY CallsStand DEF CallsInv, StartInv, StopInv, Hosting, Pending, Launched, callVars
<1>3. StartInv'
  BY StartsAssumption DEF TypeOK, StartInv, StopInv, Hosting, Pending, Launched
<1>4. StopInv'
  BY DEF TypeOK, StartInv, StopInv, CallsInv, Hosting, Pending, Launched
<1>5. ASSUME NEW v \in Children
      PROVE  ChildInv(v)'
  BY <1>5, StartsAssumption DEF TypeOK, StartInv, StopInv, ChildInv, Hosting, Pending,
     Launched, childVars
<1>. QED
  BY <1>1, <1>2, <1>3, <1>4, <1>5

LEMMA LaunchFailsStep ==
    ASSUME LifecycleInv, LaunchFails
    PROVE  LifecycleInv'
<1>. USE DEF LifecycleInv
<1>1. TypeOK'
  BY StartsAssumption DEF TypeOK, LaunchFails, callVars, childVars
<1>2. CallsInv'
  BY CallsStand DEF CallsInv, StartInv, StopInv, Hosting, Pending, LaunchFails, callVars
<1>3. StartInv'
  BY StartsAssumption DEF TypeOK, StartInv, StopInv, Hosting, Pending, LaunchFails
<1>4. StopInv'
  BY DEF TypeOK, StartInv, StopInv, CallsInv, Hosting, Pending, LaunchFails
<1>5. ASSUME NEW v \in Children
      PROVE  ChildInv(v)'
  BY <1>5, StartsAssumption DEF TypeOK, StartInv, StopInv, ChildInv, Hosting, Pending,
     LaunchFails, childVars
<1>. QED
  BY <1>1, <1>2, <1>3, <1>4, <1>5

LEMMA FailedLaunchShutsDownStep ==
    ASSUME LifecycleInv, FailedLaunchShutsDown
    PROVE  LifecycleInv'
<1>. USE DEF LifecycleInv
<1>1. TypeOK'
  BY StartsAssumption DEF TypeOK, FailedLaunchShutsDown, callVars, childVars
<1>2. CallsInv'
  BY CallsStand DEF CallsInv, StartInv, StopInv, Hosting, Pending, FailedLaunchShutsDown,
     callVars
<1>3. StartInv'
  BY StartsAssumption DEF TypeOK, StartInv, StopInv, Hosting, Pending, FailedLaunchShutsDown
<1>4. StopInv'
  BY DEF TypeOK, StartInv, StopInv, CallsInv, Hosting, Pending, FailedLaunchShutsDown
<1>5. ASSUME NEW v \in Children
      PROVE  ChildInv(v)'
  BY <1>5, StartsAssumption DEF TypeOK, StartInv, StopInv, ChildInv, Hosting, Pending,
     FailedLaunchShutsDown, childVars
<1>. QED
  BY <1>1, <1>2, <1>3, <1>4, <1>5

LEMMA StopCallStep ==
    ASSUME NEW t \in Stops, LifecycleInv, Stop(t)
    PROVE  LifecycleInv'
<1>. USE DEF LifecycleInv
<1>1. TypeOK'
  BY StartsAssumption DEF TypeOK, Stop, callVars, childVars
<1>2. CallsInv'
  BY CallsStand DEF CallsInv, StartInv, StopInv, Hosting, Pending, Stop, callVars
<1>3. StartInv'
  BY StartsAssumption DEF TypeOK, StartInv, StopInv, Hosting, Pending, Stop
<1>4. StopInv'
  BY DEF TypeOK, StartInv, StopInv, CallsInv, Hosting, Pending, Stop
<1>5. ASSUME NEW v \in Children
      PROVE  ChildInv(v)'
  BY <1>5, StartsAssumption DEF TypeOK, StartInv, StopInv, ChildInv, Hosting, Pending,
     Stop, childVars
<1>. QED
  BY <1>1, <1>2, <1>3, <1>4, <1>5

LEMMA PublicCallsDrainStep ==
    ASSUME NEW t \in Stops, LifecycleInv, PublicCallsDrain(t)
    PROVE  LifecycleInv'
<1>. USE DEF LifecycleInv
<1>1. TypeOK'
  BY StartsAssumption DEF TypeOK, PublicCallsDrain, callVars, childVars
<1>2. CallsInv'
  <2>1. Active = {}
    BY ActiveFinite, FS_EmptySet DEF CallsInv, PublicCallsDrain, Drained
  <2>. QED
    BY <2>1, CallsStand DEF CallsInv, PublicCallsDrain
<1>3. StartInv'
  BY StartsAssumption DEF TypeOK, StartInv, StopInv, Hosting, Pending, PublicCallsDrain
<1>4. StopInv'
  BY DEF TypeOK, StartInv, StopInv, CallsInv, Hosting, Pending, PublicCallsDrain
<1>5. ASSUME NEW v \in Children
      PROVE  ChildInv(v)'
  BY <1>5, StartsAssumption DEF TypeOK, StartInv, StopInv, ChildInv, Hosting, Pending,
     PublicCallsDrain, Drained, childVars
<1>. QED
  BY <1>1, <1>2, <1>3, <1>4, <1>5

LEMMA ShutDownStep ==
    ASSUME NEW t \in Stops, LifecycleInv, ShutDown(t)
    PROVE  LifecycleInv'
<1>. USE DEF LifecycleInv
<1>1. TypeOK'
  BY StartsAssumption DEF TypeOK, ShutDown, callVars, childVars
<1>2. CallsInv'
  BY CallsStand DEF CallsInv, StartInv, StopInv, Hosting, Pending, ShutDown, callVars
<1>3. StartInv'
  BY StartsAssumption DEF TypeOK, StartInv, StopInv, Hosting, Pending, ShutDown
<1>4. StopInv'
  BY DEF TypeOK, StartInv, StopInv, CallsInv, Hosting, Pending, ShutDown
<1>5. ASSUME NEW v \in Children
      PROVE  ChildInv(v)'
  BY <1>5, StartsAssumption DEF TypeOK, StartInv, StopInv, ChildInv, Hosting, Pending,
     ShutDown, childVars
<1>. QED
  BY <1>1, <1>2, <1>3, <1>4, <1>5

LEMMA RequireCompositionStep ==
    ASSUME NEW w \in Children, LifecycleInv, RequireComposition(w)
    PROVE  LifecycleInv'
<1>. USE DEF LifecycleInv
<1>1. TypeOK'
  BY StartsAssumption DEF TypeOK, RequireComposition, callVars, childVars
<1>2. CallsInv'
  BY CallsStand DEF CallsInv, StartInv, StopInv, Hosting, Pending, RequireComposition, callVars
<1>3. StartInv'
  BY StartsAssumption DEF TypeOK, StartInv, StopInv, Hosting, Pending, RequireComposition
<1>4. StopInv'
  BY DEF TypeOK, StartInv, StopInv, CallsInv, Hosting, Pending, RequireComposition
<1>5. ASSUME NEW v \in Children
      PROVE  ChildInv(v)'
  BY <1>5, StartsAssumption DEF TypeOK, StartInv, StopInv, ChildInv, Hosting, Pending,
     RequireComposition, childVars
<1>. QED
  BY <1>1, <1>2, <1>3, <1>4, <1>5

LEMMA ReachHostStep ==
    ASSUME NEW w \in Children, LifecycleInv, ReachHost(w)
    PROVE  LifecycleInv'
<1>. USE DEF LifecycleInv
<1>1. TypeOK'
  BY StartsAssumption DEF TypeOK, ReachHost, callVars, childVars
<1>2. CallsInv'
  BY CallsStand DEF CallsInv, StartInv, StopInv, Hosting, Pending, ReachHost, callVars
<1>3. StartInv'
  BY StartsAssumption DEF TypeOK, StartInv, StopInv, Hosting, Pending, ReachHost
<1>4. StopInv'
  BY DEF TypeOK, StartInv, StopInv, CallsInv, Hosting, Pending, ReachHost
<1>5. ASSUME NEW v \in Children
      PROVE  ChildInv(v)'
  BY <1>5, StartsAssumption DEF TypeOK, StartInv, StopInv, ChildInv, Hosting, Pending,
     ReachHost, childVars
<1>. QED
  BY <1>1, <1>2, <1>3, <1>4, <1>5

LEMMA DispatchStoredStep ==
    ASSUME NEW w \in Children, LifecycleInv, DispatchStored(w)
    PROVE  LifecycleInv'
<1>. USE DEF LifecycleInv
<1>1. TypeOK'
  BY StartsAssumption DEF TypeOK, DispatchStored, callVars, childVars
<1>2. CallsInv'
  BY CallsStand DEF CallsInv, StartInv, StopInv, Hosting, Pending, DispatchStored, callVars
<1>3. StartInv'
  BY StartsAssumption DEF TypeOK, StartInv, StopInv, Hosting, Pending, DispatchStored
<1>4. StopInv'
  BY DEF TypeOK, StartInv, StopInv, CallsInv, Hosting, Pending, DispatchStored
<1>5. ASSUME NEW v \in Children
      PROVE  ChildInv(v)'
  BY <1>5, StartsAssumption DEF TypeOK, StartInv, StopInv, ChildInv, Hosting, Pending,
     DispatchStored, childVars
<1>. QED
  BY <1>1, <1>2, <1>3, <1>4, <1>5

LEMMA EnterPublicCallStep ==
    ASSUME NEW c \in Calls, LifecycleInv, EnterPublicCall(c)
    PROVE  LifecycleInv'
<1>. USE DEF LifecycleInv
<1>1. CASE lifecycle = "running"
  <2>1. Active' = Active \cup {c} /\ c \notin Active
    BY <1>1 DEF TypeOK, Active, EnterPublicCall, childVars
  <2>2. CallsInv'
    BY <1>1, <2>1, ActiveFinite, FS_AddElement DEF CallsInv, StartInv, Hosting,
       EnterPublicCall, childVars
  <2>3. Cardinality(Active') \in 0..Cardinality(Calls)
    <3>1. Active' \in SUBSET Calls
      BY DEF Active
    <3>. QED
      BY <3>1, CallsAssumption, FS_Subset, FS_CardinalityType
  <2>4. TypeOK'
    BY <1>1, <2>2, <2>3 DEF TypeOK, CallsInv, EnterPublicCall, childVars
  <2>. QED
    BY <2>2, <2>4 DEF StartInv, StopInv, ChildInv, Hosting, Pending, EnterPublicCall, childVars
<1>2. CASE lifecycle # "running"
  <2>1. Active' = Active
    BY <1>2 DEF TypeOK, Active, EnterPublicCall, childVars
  <2>2. TypeOK' /\ CallsInv'
    BY <1>2, <2>1 DEF TypeOK, CallsInv, Hosting, EnterPublicCall, childVars
  <2>. QED
    BY <2>2 DEF StartInv, StopInv, ChildInv, Hosting, Pending, EnterPublicCall, childVars
<1>. QED
  BY <1>1, <1>2

LEMMA LeavePublicCallStep ==
    ASSUME NEW c \in Calls, LifecycleInv, LeavePublicCall(c)
    PROVE  LifecycleInv'
<1>. USE DEF LifecycleInv
<1>1. Active' = Active \ {c} /\ c \in Active
  BY DEF TypeOK, Active, LeavePublicCall, childVars
<1>2. CallsInv'
  BY <1>1, ActiveFinite, FS_RemoveElement DEF CallsInv, Hosting, LeavePublicCall, childVars
<1>3. Cardinality(Active') \in 0..Cardinality(Calls)
  <2>1. Active' \in SUBSET Calls
    BY DEF Active
  <2>. QED
    BY <2>1, CallsAssumption, FS_Subset, FS_CardinalityType
<1>4. TypeOK'
  BY <1>2, <1>3 DEF TypeOK, CallsInv, LeavePublicCall, childVars
<1>. QED
  BY <1>2, <1>4 DEF StartInv, StopInv, ChildInv, Hosting, Pending, LeavePublicCall, childVars

-----------------------------------------------------------------------------
(* A createRun is a public call from its first await to its last.  What    *)
(* the call knows of the stored workflow: there is one once a start has    *)
(* returned or was found, it is its own when the call says so, and when it *)
(* is and the call denies it, the call could not read it.                  *)
AdmissionInv(c) ==
    /\ admission[c] \notin Settled \cup {"idle"} => call[c] = "active"
    /\ admission[c] \in {"confirming", "token", "run_id_conflict"} => stored # "none"
    /\ admission[c] = "created" => stored = c
    /\ admission[c] \in {"run_id_conflict", "run_admission_failed"} /\ stored = c
          => c \in unread

Inv == LifecycleInv /\ AdmissionTypeOK /\ \A c \in Calls : AdmissionInv(c)

LEMMA ManagerStepKeeps ==
    ASSUME LifecycleInv, ManagerStep
    PROVE  LifecycleInv'
<1>1. CASE \E t \in Stops : Stop(t) \/ StopStep(t)
  BY <1>1, StopCallStep, PublicCallsDrainStep, ShutDownStep DEF StopStep
<1>2. CASE \E w \in Children : ChildStep(w)
  BY <1>2, RequireCompositionStep, ReachHostStep, DispatchStoredStep
     DEF ChildStep, PassFence, PollAgent
<1>3. CASE Start \/ StartStep
  BY <1>3, StartCallStep, PersistedRunsCompatibleStep, LaunchStep, RecoversStep,
     InitializationFailsStep, LaunchedStep, LaunchFailsStep, FailedLaunchShutsDownStep
     DEF StartStep
<1>. QED
  BY <1>1, <1>2, <1>3 DEF ManagerStep

LEMMA LifecycleStands ==
    ASSUME LifecycleInv, UNCHANGED vars
    PROVE  LifecycleInv'
  BY DEF LifecycleInv, vars, callVars, childVars, TypeOK, CallsInv, Active, StartInv, StopInv,
     ChildInv, Hosting, Pending

(* A createRun that does not move while what is stored is not replaced.    *)
LEMMA AdmissionStands ==
    ASSUME NEW c \in Calls, AdmissionInv(c), admission'[c] = admission[c],
           call'[c] = call[c] \/ admission[c] \in Settled \cup {"idle"},
           stored # "none" => stored' = stored,
           stored = "none" /\ stored' = c =>
               admission[c] \notin {"run_id_conflict", "run_admission_failed"} \/ c \in unread',
           unread \subseteq unread'
    PROVE  AdmissionInv(c)'
  BY StoredAssumption DEF AdmissionInv
-----------------------------------------------------------------------------
LEMMA CreateRunStep ==
    ASSUME NEW c \in Calls, Inv, CreateRun(c)
    PROVE  Inv'
<1>1. LifecycleInv'
  BY EnterPublicCallStep DEF Inv, CreateRun
<1>2. AdmissionTypeOK'
  BY <1>1 DEF Inv, AdmissionTypeOK, LifecycleInv, CreateRun, Goes, Settled
<1>3. \A d \in Calls : AdmissionInv(d)'
  BY DEF Inv, LifecycleInv, TypeOK, AdmissionTypeOK, AdmissionInv, CreateRun,
     EnterPublicCall, Goes, Settled
<1>. QED
  BY <1>1, <1>2, <1>3 DEF Inv

LEMMA AdmitRunStep ==
    ASSUME NEW c \in Calls, Inv, AdmitRun(c)
    PROVE  Inv'
<1>1. LifecycleInv'
  BY LifecycleStands DEF Inv, AdmitRun
<1>2. AdmissionTypeOK'
  BY <1>1 DEF Inv, AdmissionTypeOK, LifecycleInv, AdmitRun, Goes, Settled
<1>3. \A d \in Calls : AdmissionInv(d)'
  BY StoredAssumption DEF Inv, AdmissionTypeOK, AdmissionInv, AdmitRun, Goes, Settled, vars
<1>. QED
  BY <1>1, <1>2, <1>3 DEF Inv

LEMMA StartWorkflowStep ==
    ASSUME NEW c \in Calls, Inv, StartWorkflow(c)
    PROVE  Inv'
<1>1. LifecycleInv'
  BY LifecycleStands DEF Inv, StartWorkflow
<1>2. AdmissionTypeOK'
  BY <1>1 DEF Inv, AdmissionTypeOK, LifecycleInv, StartWorkflow, Goes, Commit, AfterStart,
     Settled
<1>3. \A d \in Calls : AdmissionInv(d)'
  BY StoredAssumption DEF Inv, AdmissionTypeOK, AdmissionInv, StartWorkflow, Goes, Commit,
     AfterStart, Settled, vars
<1>. QED
  BY <1>1, <1>2, <1>3 DEF Inv

LEMMA StartThrowsStep ==
    ASSUME NEW c \in Calls, Inv, StartThrows(c)
    PROVE  Inv'
<1>1. LifecycleInv'
  BY LifecycleStands DEF Inv, StartThrows
<1>2. AdmissionTypeOK'
  BY <1>1 DEF Inv, AdmissionTypeOK, LifecycleInv, StartThrows, Goes, Commit, Settled
<1>3. \A d \in Calls : AdmissionInv(d)'
  BY StoredAssumption DEF Inv, AdmissionTypeOK, AdmissionInv, StartThrows, Goes, Commit,
     Settled, vars
<1>. QED
  BY <1>1, <1>2, <1>3 DEF Inv

LEMMA ReadStatusStep ==
    ASSUME NEW c \in Calls, Inv, ReadStatus(c)
    PROVE  Inv'
<1>1. LifecycleInv'
  BY LifecycleStands DEF Inv, ReadStatus
<1>2. AdmissionTypeOK'
  BY <1>1 DEF Inv, AdmissionTypeOK, LifecycleInv, ReadStatus, Goes, Settled
<1>3. \A d \in Calls : AdmissionInv(d)'
  BY StoredAssumption DEF Inv, AdmissionTypeOK, AdmissionInv, ReadStatus, Goes, Settled, vars
<1>. QED
  BY <1>1, <1>2, <1>3 DEF Inv

LEMMA ReadTokenStep ==
    ASSUME NEW c \in Calls, Inv, ReadToken(c)
    PROVE  Inv'
<1>1. LifecycleInv'
  BY LifecycleStands DEF Inv, ReadToken
<1>2. AdmissionTypeOK'
  BY <1>1 DEF Inv, AdmissionTypeOK, LifecycleInv, ReadToken, Goes, OwnAdmission, Verdict,
     Settled
<1>3. \A d \in Calls : AdmissionInv(d)'
  BY StoredAssumption DEF Inv, AdmissionTypeOK, AdmissionInv, ReadToken, Goes,
     OwnAdmission, Verdict, Settled, vars
<1>. QED
  BY <1>1, <1>2, <1>3 DEF Inv

LEMMA CommitsLateStep ==
    ASSUME NEW c \in Calls, Inv, CommitsLate(c)
    PROVE  Inv'
<1>1. LifecycleInv'
  BY LifecycleStands DEF Inv, CommitsLate
<1>2. AdmissionTypeOK'
  BY <1>1 DEF Inv, AdmissionTypeOK, LifecycleInv, CommitsLate, Commit, Settled
<1>3. \A d \in Calls : AdmissionInv(d)'
  BY StoredAssumption DEF Inv, AdmissionTypeOK, AdmissionInv, CommitsLate, Commit, Settled, vars
<1>. QED
  BY <1>1, <1>2, <1>3 DEF Inv

LEMMA CreateRunSettlesStep ==
    ASSUME NEW c \in Calls, Inv, CreateRunSettles(c)
    PROVE  Inv'
<1>1. LifecycleInv'
  BY LeavePublicCallStep DEF Inv, CreateRunSettles
<1>2. AdmissionTypeOK'
  BY <1>1 DEF Inv, AdmissionTypeOK, LifecycleInv, CreateRunSettles, admissionVars
<1>3. \A d \in Calls : AdmissionInv(d)'
  BY DEF Inv, LifecycleInv, TypeOK, AdmissionTypeOK, AdmissionInv, CreateRunSettles,
     LeavePublicCall, admissionVars, Settled
<1>. QED
  BY <1>1, <1>2, <1>3 DEF Inv

LEMMA InvInit == AdmissionInit => Inv
<1>. SUFFICES ASSUME AdmissionInit
              PROVE  Inv
  OBVIOUS
<1>1. Active = {} /\ activePublicCalls = 0
  BY DEF AdmissionInit, Init, Active
<1>2. TypeOK
  BY ActiveFinite, StartsAssumption, <1>1, FS_EmptySet DEF AdmissionInit, Init, TypeOK
<1>3. LifecycleInv
  BY <1>1, <1>2, FS_EmptySet DEF AdmissionInit, Init, LifecycleInv, CallsInv, StartInv, StopInv,
     ChildInv, Hosting, Pending
<1>. QED
  BY <1>2, <1>3, StoredAssumption DEF AdmissionInit, Inv, AdmissionTypeOK, AdmissionInv, Settled

LEMMA InvStep == Inv /\ [AdmissionNext]_admissionAll => Inv'
<1>1. ASSUME Inv, UNCHANGED admissionVars, LifecycleInv', UNCHANGED call
      PROVE  Inv'
  BY <1>1 DEF Inv, AdmissionTypeOK, AdmissionInv, LifecycleInv, admissionVars
<1>2. ASSUME Inv, UNCHANGED admissionAll
      PROVE  Inv'
  BY <1>1, <1>2, LifecycleStands DEF Inv, admissionAll, vars
<1>3. ASSUME Inv, ManagerStep, UNCHANGED admissionVars
      PROVE  Inv'
  <2>1. UNCHANGED call
    BY <1>3 DEF ManagerStep, Start, StartStep, PersistedRunsCompatible, Launch, Recovers,
       InitializationFails, Launched, LaunchFails, FailedLaunchShutsDown, Stop, StopStep,
       PublicCallsDrain, ShutDown, ChildStep, RequireComposition, PassFence, PollAgent,
       ReachHost, DispatchStored, callVars
  <2>. QED
    BY <1>1, <1>3, <2>1, ManagerStepKeeps DEF Inv
<1>4. ASSUME Inv, NEW c \in Calls, CreateRun(c) \/ AdmissionStep(c) \/ CommitsLate(c)
      PROVE  Inv'
  BY <1>4, CreateRunStep, AdmitRunStep, StartWorkflowStep, StartThrowsStep, ReadStatusStep,
     ReadTokenStep, CreateRunSettlesStep, CommitsLateStep DEF AdmissionStep
<1>. QED
  BY <1>2, <1>3, <1>4 DEF AdmissionNext

LEMMA Invariance == AdmissionSpec => []Inv
  BY InvInit, InvStep, PTL DEF AdmissionSpec

-----------------------------------------------------------------------------
(* The manager, its calls and what they know keep to the values the        *)
(* program knows; no more calls are counted than were made.                *)
THEOREM TypeCorrect == AdmissionSpec => []AdmissionTypeOK
<1>1. Inv => AdmissionTypeOK
  BY DEF Inv
<1>. QED
  BY <1>1, Invariance, PTL

(* While a public call is active the manager has launched DBOS and has its *)
(* composition installed, whatever starts, fails or stops beside it.       *)
THEOREM PublicCallsAreHosted == AdmissionSpec => []CallsAreHosted
<1>1. Inv => CallsAreHosted
  BY DEF Inv, LifecycleInv, CallsInv, StartInv, Active, Hosting, CallsAreHosted
<1>. QED
  BY <1>1, Invariance, PTL

(* In particular a createRun that is still at work, wherever it awaits.    *)
THEOREM AdmissionsAreHosted ==
    AdmissionSpec => [](\A c \in Calls :
        admission[c] \notin Settled \cup {"idle"} => dbos = "up" /\ installed = composition)
<1>1. Inv => \A c \in Calls :
        admission[c] \notin Settled \cup {"idle"} => dbos = "up" /\ installed = composition
  BY DEF Inv, AdmissionInv, LifecycleInv, CallsInv, StartInv, Active, Hosting
<1>. QED
  BY <1>1, Invariance, PTL

(* createRun resolves only for the call whose token is stored, tells that  *)
(* the id is taken only when it is, and denies a run it did create only    *)
(* when that could not be read back.                                       *)
THEOREM AdmissionsAreTrue == AdmissionSpec => []AdmissionIsTruthful
<1>1. Inv => AdmissionIsTruthful
  BY DEF Inv, AdmissionInv, AdmissionIsTruthful
<1>. QED
  BY <1>1, Invariance, PTL

(* A recovered workflow reaches the host only by a step of its own.        *)
LEMMA HostStep ==
    ASSUME LifecycleInv, LifecycleInv', ManagerStep, NEW w \in Children
    PROVE  HostReady(w)
<1>1. child'[w] # "threw"
  BY DEF LifecycleInv, ChildInv
<1>2. ASSUME ReachesHost(w)
      PROVE  ReachHost(w) /\ (w \notin polling => FenceOpen(w))
  BY <1>2 DEF LifecycleInv, TypeOK, ReachesHost, ManagerStep, Start, StartStep,
     PersistedRunsCompatible, Launch, Recovers, InitializationFails, Launched,
     LaunchFails, FailedLaunchShutsDown, Stop, StopStep, PublicCallsDrain, ShutDown,
     ChildStep, RequireComposition, PassFence, PollAgent, DispatchStored, ReachHost, childVars
<1>3. ASSUME ReachHost(w)
      PROVE  fence[w] = installed /\ dbos \in {"recovering", "up", "closing"}
  BY <1>3 DEF LifecycleInv, ChildInv, ReachHost
<1>4. ASSUME ReachHost(w), FenceOpen(w)
      PROVE  /\ lifecycle \in {"running", "stopping"}
             /\ dbos \in {"up", "closing"}
             /\ fence[w] = composition
  BY <1>4, StartsAssumption DEF LifecycleInv, TypeOK, StartInv, ChildInv, Hosting,
     ReachHost, FenceOpen
<1>. QED
  BY <1>1, <1>2, <1>3, <1>4 DEF HostReady

(* A recovered workflow reaches the host only through the composition that *)
(* is installed, and only that of a manager that has started, unless it is *)
(* an agent beyond its dispatch; it never finds the process without one.   *)
THEOREM HostsAreReady == AdmissionSpec => HostIsReachedWhenReady
<1>1. Inv /\ Inv' /\ [AdmissionNext]_admissionAll => [\A w \in Children : HostReady(w)]_vars
  <2>. SUFFICES ASSUME Inv, Inv', [AdmissionNext]_admissionAll, NEW w \in Children
                PROVE  HostReady(w) \/ UNCHANGED vars
    OBVIOUS
  <2>1. CASE ManagerStep
    BY <2>1, HostStep DEF Inv
  <2>2. CASE UNCHANGED admissionAll
    BY <2>2 DEF admissionAll
  <2>3. CASE \E c \in Calls : CreateRun(c) \/ AdmissionStep(c) \/ CommitsLate(c)
    <3>1. UNCHANGED child
      BY <2>3 DEF CreateRun, EnterPublicCall, AdmissionStep, AdmitRun, StartWorkflow,
         StartThrows, ReadStatus, ReadToken, CreateRunSettles, LeavePublicCall,
         CommitsLate, vars, childVars
    <3>. QED
      BY <3>1 DEF Inv, LifecycleInv, ChildInv, HostReady, ReachesHost
  <2>. QED
    BY <2>1, <2>2, <2>3 DEF AdmissionNext
<1>. QED
  BY <1>1, Invariance, PTL DEF AdmissionSpec, HostIsReachedWhenReady

=============================================================================
