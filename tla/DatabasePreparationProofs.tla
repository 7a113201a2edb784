---------------------- MODULE DatabasePreparationProofs ----------------------
(***************************************************************************)
(* Safety of prepareRunManagerDatabase for every set of preparers and      *)
(* every latest version.                                                   *)
(***************************************************************************)
EXTENDS DatabasePreparation, TLAPS

(* Who may have been granted the lock: the server has answered, or the     *)
(* client has read the answer and has not given the lock back.             *)
Granted(p) == Locked(p) \/ At(p, "unlocking") \/ call[p].answer = "acquired"

(* The lock belongs to an open session.  A call to which it was granted    *)
(* has it until its session ends, and a session is closed only by the      *)
(* call itself or because the client destroyed its socket, which it does   *)
(* not do while the schema command runs.                                   *)
LockInv(p) ==
    /\ lockHolder = p => session[p] = "open"
    /\ Granted(p) => lockHolder = p \/ session[p] \in {"lost", "reported", "closed"}
    /\ session[p] = "closed" => call[p].destroyed \/ At(p, "returned")
    /\ At(p, "returned") /\ session[p] = "open" => call[p].destroyed
    /\ MigrationRunning(p) => ~call[p].destroyed
    /\ call[p].answer # "none" => At(p, "locking")
    /\ call[p].pc \in {"idle", "connecting"} => session[p] = "none"

(* A failure is set by what happened, the client knows of it before it     *)
(* reads the version again, and a cancelled call has no running command.   *)
FailureInv(p) ==
    /\ call[p].failure = "aborted" => aborted[p]
    /\ call[p].failure = "session_lost" => session[p] = "reported"
    /\ session[p] = "reported" => Cancelled(p)
    /\ child[p] = "running" => ~Cancelled(p)
    /\ At(p, "reading_to") /\ Cancelled(p) => call[p].destroyed
    /\ call[p].commandFailure = "aborted" => Cancelled(p)

(* The child lives while the call waits for it, and once the command has   *)
(* succeeded the schema is at the latest version.                          *)
CommandInv(p) ==
    /\ child[p] # "none" <=> At(p, "child")
    /\ child[p] = "succeeded" => version = Latest
    /\ call[p].commandFailure # "none" => At(p, "removing")
    /\ At(p, "removing") /\ call[p].commandFailure = "none" => version = Latest
    /\ At(p, "reading_to") => version = Latest /\ ~call[p].directory

(* The outcome is decided on the way into close().                         *)
OutcomeInv(p) ==
    /\ call[p].outcome # "none" <=> call[p].pc \in {"unlocking", "ending", "returned"}
    /\ call[p].outcome = "aborted" => aborted[p]
    /\ call[p].outcome = "session_lost" => session[p] = "reported"
    /\ call[p].outcome = "success" =>
          call[p].to = Latest /\ version = Latest /\ ~call[p].directory

CallInv(p) == LockInv(p) /\ FailureInv(p) /\ CommandInv(p) /\ OutcomeInv(p)

Inv == TypeOK /\ \A p \in Preparers : CallInv(p)

-----------------------------------------------------------------------------
LEMMA CallType ==
    ASSUME NEW p \in Preparers, TypeOK
    PROVE  call[p] \in PreparationCalls
  BY DEF TypeOK

(* A call that does not move keeps its invariant while the others take and *)
(* release the lock and their commands migrate.                            *)
Untouched(q) ==
    /\ call'[q] = call[q] /\ aborted'[q] = aborted[q]
    /\ session'[q] = session[q] /\ child'[q] = child[q]
    /\ lockHolder' = q <=> lockHolder = q
    /\ version = Latest => version' = Latest

LEMMA CallStands ==
    ASSUME NEW q \in Preparers, CallInv(q), Untouched(q)
    PROVE  CallInv(q)'
  BY DEF CallInv, LockInv, FailureInv, CommandInv, OutcomeInv, Untouched, Granted,
     Locked, MigrationRunning, At, Cancelled

(* It suffices to look at the call that takes the step.                    *)
LEMMA StepOf ==
    ASSUME NEW p \in Preparers, Inv, TypeOK', CallInv(p)',
           \A q \in Preparers \ {p} : Untouched(q)
    PROVE  Inv'
  BY CallStands DEF Inv

-----------------------------------------------------------------------------
LEMMA OpenStep ==
    ASSUME NEW p \in Preparers, Inv, Open(p)
    PROVE  Inv'
<1>1. TypeOK'
  <2>1. PICK outcome \in {"stage", "aborted", "none"}, pc \in {"connecting", "returned"} :
          call' = [call EXCEPT ![p].pc = pc, ![p].outcome = outcome]
    <3>1. PICK valid \in BOOLEAN :
            call' = [call EXCEPT
               ![p].pc = IF valid /\ ~aborted[p] THEN "connecting" ELSE "returned",
               ![p].outcome = CASE ~valid -> "stage"
                                [] valid /\ aborted[p] -> "aborted"
                                [] OTHER -> "none"]
      BY DEF Open
    <3>2. aborted[p] \in BOOLEAN
      BY DEF Inv, TypeOK
    <3>. QED
      BY <3>1, <3>2
  <2>2. [call[p] EXCEPT !.pc = pc, !.outcome = outcome] \in PreparationCalls
    <3>1. call[p] \in PreparationCalls /\ outcome \in Outcomes
      BY CallType DEF Inv, Outcomes, Failures
    <3>. QED
      BY <3>1 DEF PreparationCalls
  <2>3. call' \in [Preparers -> PreparationCalls]
    BY <2>1, <2>2 DEF Inv, TypeOK
  <2>. QED
    BY <2>3 DEF Inv, TypeOK, Open
<1>2. CallInv(p)'
  BY DEF Inv, TypeOK, CallInv, LockInv, FailureInv, CommandInv, OutcomeInv, Granted,
     Locked, MigrationRunning, At, Open
<1>3. \A q \in Preparers \ {p} : Untouched(q)
  BY DEF Inv, TypeOK, Untouched, Open
<1>. QED
  BY <1>1, <1>2, <1>3, StepOf

LEMMA ConnectedStep ==
    ASSUME NEW p \in Preparers, Inv, Connected(p)
    PROVE  Inv'
<1>1. TypeOK'
  BY DEF Inv, TypeOK, PreparationCalls, Outcomes, At, Connected
<1>2. CallInv(p)'
  BY DEF Inv, TypeOK, CallInv, LockInv, FailureInv, CommandInv, OutcomeInv, Granted,
     Locked, MigrationRunning, At, Connected
<1>3. \A q \in Preparers \ {p} : Untouched(q)
  BY DEF Inv, Untouched, Connected
<1>. QED
  BY <1>1, <1>2, <1>3, StepOf

LEMMA TryAdvisoryLockStep ==
    ASSUME NEW p \in Preparers, Inv, TryAdvisoryLock(p)
    PROVE  Inv'
<1>1. TypeOK'
  BY DEF Inv, TypeOK, PreparationCalls, At, TryAdvisoryLock
<1>2. CallInv(p)'
  BY DEF Inv, CallInv, LockInv, FailureInv, CommandInv, OutcomeInv, Granted, Locked,
     MigrationRunning, At, TryAdvisoryLock
<1>3. \A q \in Preparers \ {p} : Untouched(q)
  BY PreparationAssumption DEF Inv, Untouched, TryAdvisoryLock
<1>. QED
  BY <1>1, <1>2, <1>3, StepOf

LEMMA LockAnsweredStep ==
    ASSUME NEW p \in Preparers, Inv, LockAnswered(p)
    PROVE  Inv'
<1>1. TypeOK'
  BY DEF Inv, TypeOK, PreparationCalls, At, LockAnswered
<1>2. CallInv(p)'
  BY DEF Inv, TypeOK, CallInv, LockInv, FailureInv, CommandInv, OutcomeInv, Granted,
     Locked, MigrationRunning, At, Cancelled, LockAnswered
<1>3. \A q \in Preparers \ {p} : Untouched(q)
  BY DEF Inv, TypeOK, Untouched, LockAnswered
<1>. QED
  BY <1>1, <1>2, <1>3, StepOf

LEMMA WaitForRetryStep ==
    ASSUME NEW p \in Preparers, Inv, WaitForRetry(p)
    PROVE  Inv'
<1>1. TypeOK'
  BY DEF Inv, TypeOK, PreparationCalls, At, WaitForRetry, Close, Closing
<1>2. CallInv(p)'
  BY DEF Inv, TypeOK, PreparationCalls, CallInv, LockInv, FailureInv, CommandInv,
     OutcomeInv, Granted, Locked, MigrationRunning, At, WaitForRetry, Close, Closing
<1>3. \A q \in Preparers \ {p} : Untouched(q)
  BY DEF Inv, TypeOK, Untouched, WaitForRetry, Close, Closing
<1>. QED
  BY <1>1, <1>2, <1>3, StepOf

LEMMA ReadMigrationVersionStep ==
    ASSUME NEW p \in Preparers, Inv, ReadMigrationVersion(p)
    PROVE  Inv'
<1>1. TypeOK'
  <2>1. Closing(p) \in {"unlocking", "ending"} /\ version \in 0..Latest
    BY DEF Inv, TypeOK, Closing
  <2>2. \A c \in PreparationCalls :
            /\ [c EXCEPT !.from = version, !.pc = "directory"] \in PreparationCalls
            /\ [c EXCEPT !.to = version, !.outcome = "success", !.pc = Closing(p)]
                   \in PreparationCalls
    BY <2>1 DEF PreparationCalls, Outcomes
  <2>3. \E c \in PreparationCalls : call' = [call EXCEPT ![p] = c]
    <3>1. call[p] \in PreparationCalls
      BY DEF Inv, TypeOK
    <3>2. \/ call' = [call EXCEPT ![p] = [call[p] EXCEPT !.from = version, !.pc = "directory"]]
          \/ call' = [call EXCEPT ![p] = [call[p] EXCEPT !.to = version, !.outcome = "success",
                                                         !.pc = Closing(p)]]
      BY DEF ReadMigrationVersion, StoredVersion
    <3>. QED
      BY <2>2, <3>1, <3>2
  <2>. QED
    BY <2>3 DEF Inv, TypeOK, ReadMigrationVersion
<1>2. CallInv(p)'
  BY DEF Inv, TypeOK, PreparationCalls, CallInv, Granted, At, ReadMigrationVersion,
     StoredVersion, Closing
<1>3. \A q \in Preparers \ {p} : Untouched(q)
  BY DEF Inv, TypeOK, Untouched, ReadMigrationVersion, StoredVersion, Closing
<1>. QED
  BY <1>1, <1>2, <1>3, StepOf

LEMMA OperationFailsStep ==
    ASSUME NEW p \in Preparers, Inv, OperationFails(p)
    PROVE  Inv'
<1>1. TypeOK'
  BY DEF Inv, TypeOK, PreparationCalls, OperationFails, Close, Closing, FailureOr
<1>2. CallInv(p)'
  <2>1. LockInv(p)'
    BY DEF Inv, TypeOK, CallInv, LockInv, Granted, Locked, MigrationRunning, At,
       OperationFails, Close, Closing, FailureOr
  <2>2. FailureInv(p)'
    BY DEF Inv, TypeOK, CallInv, FailureInv, Granted, At, Cancelled, OperationFails,
       Close, Closing, FailureOr
  <2>3. CommandInv(p)'
    BY DEF Inv, TypeOK, CallInv, CommandInv, Granted, At, OperationFails, Close,
       Closing, FailureOr
  <2>4. OutcomeInv(p)'
    BY DEF Inv, TypeOK, PreparationCalls, CallInv, Granted, OperationFails, Close,
       Closing, FailureOr
  <2>. QED
    BY <2>1, <2>2, <2>3, <2>4 DEF CallInv
<1>3. \A q \in Preparers \ {p} : Untouched(q)
  BY DEF Inv, TypeOK, Untouched, OperationFails, Close, Closing, FailureOr
<1>. QED
  BY <1>1, <1>2, <1>3, StepOf

LEMMA MakeDirectoryStep ==
    ASSUME NEW p \in Preparers, Inv, MakeDirectory(p)
    PROVE  Inv'
<1>1. TypeOK'
  BY DEF Inv, TypeOK, PreparationCalls, At, MakeDirectory, Closing, FailureOr
<1>2. CallInv(p)'
  BY DEF Inv, TypeOK, PreparationCalls, CallInv, Granted, At, MakeDirectory, Closing,
     FailureOr
<1>3. \A q \in Preparers \ {p} : Untouched(q)
  BY DEF Inv, TypeOK, Untouched, MakeDirectory, Closing, FailureOr
<1>. QED
  BY <1>1, <1>2, <1>3, StepOf

LEMMA SpawnSchemaCommandStep ==
    ASSUME NEW p \in Preparers, Inv, SpawnSchemaCommand(p)
    PROVE  Inv'
<1>1. TypeOK'
  BY DEF Inv, TypeOK, PreparationCalls, SpawnSchemaCommand
<1>2. CallInv(p)'
  BY DEF Inv, TypeOK, CallInv, LockInv, FailureInv, CommandInv, OutcomeInv, Granted,
     Locked, MigrationRunning, At, Cancelled, SpawnSchemaCommand
<1>3. \A q \in Preparers \ {p} : Untouched(q)
  BY DEF Inv, Untouched, SpawnSchemaCommand
<1>. QED
  BY <1>1, <1>2, <1>3, StepOf

LEMMA CommandNotRunStep ==
    ASSUME NEW p \in Preparers, Inv, CommandNotRun(p)
    PROVE  Inv'
<1>1. TypeOK'
  BY DEF Inv, TypeOK, PreparationCalls, At, CommandNotRun
<1>2. CallInv(p)'
  BY DEF Inv, TypeOK, CallInv, LockInv, FailureInv, CommandInv, OutcomeInv, Granted,
     Locked, MigrationRunning, At, Cancelled, CommandNotRun
<1>3. \A q \in Preparers \ {p} : Untouched(q)
  BY DEF Inv, TypeOK, Untouched, CommandNotRun
<1>. QED
  BY <1>1, <1>2, <1>3, StepOf

LEMMA ChildClosedStep ==
    ASSUME NEW p \in Preparers, Inv, ChildClosed(p)
    PROVE  Inv'
<1>1. TypeOK'
  BY DEF Inv, TypeOK, PreparationCalls, At, ChildClosed, Alive
<1>2. CallInv(p)'
  BY DEF Inv, TypeOK, CallInv, LockInv, FailureInv, CommandInv, OutcomeInv, Granted,
     Locked, MigrationRunning, At, Cancelled, ChildClosed, Alive
<1>3. \A q \in Preparers \ {p} : Untouched(q)
  BY DEF Inv, TypeOK, Untouched, ChildClosed, Alive
<1>. QED
  BY <1>1, <1>2, <1>3, StepOf

LEMMA RemoveDirectoryStep ==
    ASSUME NEW p \in Preparers, Inv, RemoveDirectory(p)
    PROVE  Inv'
<1>1. TypeOK'
  BY DEF Inv, TypeOK, PreparationCalls, At, RemoveDirectory, Closing, FailureOr,
     NextQueryRefused
<1>2. CallInv(p)'
  BY DEF Inv, TypeOK, PreparationCalls, CallInv, Granted, At, RemoveDirectory, Closing,
     FailureOr, NextQueryRefused
<1>3. \A q \in Preparers \ {p} : Untouched(q)
  BY DEF Inv, TypeOK, Untouched, RemoveDirectory, Closing, FailureOr, NextQueryRefused
<1>. QED
  BY <1>1, <1>2, <1>3, StepOf

LEMMA UnlockStep ==
    ASSUME NEW p \in Preparers, Inv, Unlock(p)
    PROVE  Inv'
<1>1. TypeOK'
  BY DEF Inv, TypeOK, PreparationCalls, Unlock, ReleaseLock
<1>2. CallInv(p)'
  BY DEF Inv, TypeOK, CallInv, LockInv, FailureInv, CommandInv, OutcomeInv, Granted,
     Locked, MigrationRunning, At, Unlock, ReleaseLock
<1>3. \A q \in Preparers \ {p} : Untouched(q)
  BY PreparationAssumption DEF Inv, Untouched, Unlock, ReleaseLock
<1>. QED
  BY <1>1, <1>2, <1>3, StepOf

LEMMA UnlockRejectedStep ==
    ASSUME NEW p \in Preparers, Inv, UnlockRejected(p)
    PROVE  Inv'
<1>1. TypeOK'
  <2>1. /\ call[p] \in PreparationCalls
        /\ CleanupFailed(p) \in Outcomes /\ call[p].outcome \in Outcomes
    BY CallType DEF Inv, PreparationCalls, CleanupFailed, Outcomes
  <2>2. [call[p] EXCEPT !.pc = "ending", !.outcome = CleanupFailed(p)] \in PreparationCalls
    BY <2>1 DEF PreparationCalls
  <2>. QED
    BY <2>2 DEF Inv, TypeOK, UnlockRejected
<1>2. CallInv(p)'
  BY DEF Inv, TypeOK, CallInv, LockInv, FailureInv, CommandInv, OutcomeInv, Granted,
     MigrationRunning, At, Cancelled, UnlockRejected, CleanupFailed
<1>3. \A q \in Preparers \ {p} : Untouched(q)
  BY DEF Inv, TypeOK, Untouched, UnlockRejected, CleanupFailed
<1>. QED
  BY <1>1, <1>2, <1>3, StepOf

LEMMA EndStep ==
    ASSUME NEW p \in Preparers, Inv, End(p)
    PROVE  Inv'
<1>1. TypeOK'
  <2>1. /\ call[p] \in PreparationCalls
        /\ CleanupFailed(p) \in Outcomes /\ call[p].outcome \in Outcomes
    BY CallType DEF Inv, PreparationCalls, CleanupFailed, Outcomes
  <2>2. \A outcome \in {call[p].outcome, CleanupFailed(p)} :
          [call[p] EXCEPT !.pc = "returned", !.outcome = outcome] \in PreparationCalls
    BY <2>1 DEF PreparationCalls
  <2>3. PICK outcome \in {call[p].outcome, CleanupFailed(p)} :
          call' = [call EXCEPT ![p].pc = "returned", ![p].outcome = outcome]
    BY DEF End
  <2>4. call' \in [Preparers -> PreparationCalls]
    BY <2>2, <2>3 DEF Inv, TypeOK
  <2>. QED
    BY <2>4 DEF Inv, TypeOK, End, ReleaseLock
<1>2. CallInv(p)'
  BY PreparationAssumption DEF Inv, TypeOK, CallInv, LockInv, FailureInv, CommandInv,
     OutcomeInv, Granted, Locked, MigrationRunning, At, Cancelled, End, ReleaseLock,
     CleanupFailed
<1>3. \A q \in Preparers \ {p} : Untouched(q)
  BY PreparationAssumption DEF Inv, TypeOK, Untouched, End, ReleaseLock, CleanupFailed
<1>. QED
  BY <1>1, <1>2, <1>3, StepOf

LEMMA StopType ==
    ASSUME NEW p \in Preparers, NEW failure \in {"aborted", "session_lost"},
           TypeOK, Stop(p, failure)
    PROVE  /\ call' \in [Preparers -> PreparationCalls]
           /\ child' \in [Preparers ->
                          {"none", "running", "terminated", "killed", "succeeded", "failed"}]
<1>1. PICK f \in {"none", "aborted", "session_lost"}, d \in BOOLEAN :
        call' = [call EXCEPT ![p].failure = f, ![p].destroyed = d]
  BY DEF Stop, TypeOK, PreparationCalls
<1>2. PICK c \in {"none", "running", "terminated", "killed", "succeeded", "failed"} :
        child' = [child EXCEPT ![p] = c]
  BY DEF Stop, TypeOK
<1>3. [call[p] EXCEPT !.failure = f, !.destroyed = d] \in PreparationCalls
  <2>1. call[p] \in PreparationCalls
    BY CallType
  <2>. QED
    BY <2>1 DEF PreparationCalls
<1>. QED
  BY <1>1, <1>2, <1>3 DEF TypeOK

LEMMA AbortStep ==
    ASSUME NEW p \in Preparers, Inv, Abort(p)
    PROVE  Inv'
<1>1. TypeOK'
  BY StopType DEF Inv, TypeOK, Abort
<1>2. CallInv(p)'
  BY DEF Inv, TypeOK, PreparationCalls, CallInv, LockInv, FailureInv, CommandInv,
     OutcomeInv, Granted, Locked, MigrationRunning, At, Cancelled, Abort, Stop
<1>3. \A q \in Preparers \ {p} : Untouched(q)
  BY DEF Inv, TypeOK, Untouched, Abort, Stop
<1>. QED
  BY <1>1, <1>2, <1>3, StepOf

LEMMA LoseSessionStep ==
    ASSUME NEW p \in Preparers, Inv, LoseSession(p)
    PROVE  Inv'
<1>1. TypeOK'
  BY DEF Inv, TypeOK, LoseSession, ReleaseLock
<1>2. CallInv(p)'
  BY PreparationAssumption DEF Inv, TypeOK, CallInv, LockInv, FailureInv, CommandInv,
     OutcomeInv, Granted, At, Cancelled, LoseSession, ReleaseLock
<1>3. \A q \in Preparers \ {p} : Untouched(q)
  BY PreparationAssumption DEF Inv, Untouched, LoseSession, ReleaseLock
<1>. QED
  BY <1>1, <1>2, <1>3, StepOf

LEMMA OnConnectionLostStep ==
    ASSUME NEW p \in Preparers, Inv, OnConnectionLost(p)
    PROVE  Inv'
<1>1. TypeOK'
  BY StopType DEF Inv, TypeOK, OnConnectionLost
<1>2. CallInv(p)'
  BY DEF Inv, TypeOK, PreparationCalls, CallInv, LockInv, FailureInv, CommandInv,
     OutcomeInv, Granted, MigrationRunning, At, Cancelled, OnConnectionLost, Stop
<1>3. \A q \in Preparers \ {p} : Untouched(q)
  BY DEF Inv, TypeOK, Untouched, OnConnectionLost, Stop
<1>. QED
  BY <1>1, <1>2, <1>3, StepOf

LEMMA ServerDropsSessionStep ==
    ASSUME NEW p \in Preparers, Inv, ServerDropsSession(p)
    PROVE  Inv'
<1>1. TypeOK'
  BY DEF Inv, TypeOK, ServerDropsSession, ReleaseLock
<1>2. CallInv(p)'
  BY PreparationAssumption DEF Inv, TypeOK, CallInv, LockInv, FailureInv, CommandInv,
     OutcomeInv, Granted, MigrationRunning, At, ServerDropsSession, ReleaseLock
<1>3. \A q \in Preparers \ {p} : Untouched(q)
  BY PreparationAssumption DEF Inv, Untouched, ServerDropsSession, ReleaseLock
<1>. QED
  BY <1>1, <1>2, <1>3, StepOf

LEMMA ChildMigratesStep ==
    ASSUME NEW p \in Preparers, Inv, ChildMigrates(p)
    PROVE  Inv'
<1>1. TypeOK'
  BY PreparationAssumption DEF Inv, TypeOK, ChildMigrates, Alive
<1>2. CallInv(p)'
  BY DEF Inv, CallInv, LockInv, FailureInv, CommandInv, OutcomeInv, Granted, Locked,
     MigrationRunning, At, Cancelled, ChildMigrates, Alive
<1>3. \A q \in Preparers \ {p} : Untouched(q)
  BY DEF Inv, TypeOK, Untouched, ChildMigrates, Alive
<1>. QED
  BY <1>1, <1>2, <1>3, StepOf

LEMMA ChildEndsStep ==
    ASSUME NEW p \in Preparers, Inv, ChildEnds(p)
    PROVE  Inv'
<1>1. TypeOK'
  BY DEF Inv, TypeOK, ChildEnds, Alive
<1>2. CallInv(p)'
  BY DEF Inv, CallInv, LockInv, FailureInv, CommandInv, OutcomeInv, Granted, Locked,
     MigrationRunning, At, Cancelled, ChildEnds, Alive
<1>3. \A q \in Preparers \ {p} : Untouched(q)
  BY DEF Inv, Untouched, ChildEnds, Alive
<1>. QED
  BY <1>1, <1>2, <1>3, StepOf

LEMMA GraceExpiresStep ==
    ASSUME NEW p \in Preparers, Inv, GraceExpires(p)
    PROVE  Inv'
<1>1. TypeOK'
  BY DEF Inv, TypeOK, GraceExpires
<1>2. CallInv(p)'
  BY DEF Inv, CallInv, LockInv, FailureInv, CommandInv, OutcomeInv, Granted, Locked,
     MigrationRunning, At, Cancelled, GraceExpires
<1>3. \A q \in Preparers \ {p} : Untouched(q)
  BY DEF Inv, Untouched, GraceExpires
<1>. QED
  BY <1>1, <1>2, <1>3, StepOf

-----------------------------------------------------------------------------
(* The invariant holds before any call and is kept by every step.          *)
LEMMA InvInit == Init => Inv
  BY PreparationAssumption DEF Init, Inv, TypeOK, PreparationCalls, Outcomes, CallInv,
     LockInv, FailureInv, CommandInv, OutcomeInv, Granted, Locked, MigrationRunning, At

LEMMA InvStep == Inv /\ [Next]_vars => Inv'
<1>1. ASSUME Inv, UNCHANGED vars
      PROVE  Inv'
  BY <1>1 DEF vars, Inv, TypeOK, CallInv, LockInv, FailureInv, CommandInv, OutcomeInv,
     Granted, Locked, MigrationRunning, At, Cancelled
<1>2. ASSUME Inv, NEW p \in Preparers, Client(p)
      PROVE  Inv'
  BY <1>2, OpenStep, ConnectedStep, TryAdvisoryLockStep, LockAnsweredStep,
     WaitForRetryStep, ReadMigrationVersionStep, MakeDirectoryStep,
     SpawnSchemaCommandStep, CommandNotRunStep, ChildClosedStep, RemoveDirectoryStep,
     UnlockStep, UnlockRejectedStep, EndStep DEF Client
<1>. QED
  BY <1>1, <1>2, OperationFailsStep, AbortStep, LoseSessionStep, OnConnectionLostStep,
     ServerDropsSessionStep, ChildMigratesStep, ChildEndsStep, GraceExpiresStep DEF Next

LEMMA Invariance == Spec => []Inv
  BY InvInit, InvStep, PTL DEF Spec

-----------------------------------------------------------------------------
(* The control of every call, the sessions and the versions keep to what   *)
(* the program knows.                                                      *)
THEOREM TypeCorrect == Spec => []TypeOK
<1>1. Inv => TypeOK
  BY DEF Inv
<1>. QED
  BY <1>1, Invariance, PTL

(* The schema command of a call runs under its advisory lock until the     *)
(* session that holds the lock is lost, and once the client knows of the   *)
(* loss the command has been told to terminate.                            *)
THEOREM SchemaCommandHoldsTheLock == Spec => []ChildRunsUnderLock
<1>1. Inv => ChildRunsUnderLock
  BY DEF Inv, CallInv, LockInv, FailureInv, CommandInv, ChildRunsUnderLock, Alive,
     Granted, Locked, MigrationRunning, At
<1>. QED
  BY <1>1, Invariance, PTL

(* Two schema commands run at once only when the session of one of them    *)
(* was lost.                                                               *)
THEOREM CommandsExclude ==
    Spec => [](\A p, q \in Preparers :
                 p # q /\ Alive(p) /\ Alive(q) =>
                    session[p] \in {"lost", "reported"} \/ session[q] \in {"lost", "reported"})
<1>1. Inv => \A p, q \in Preparers :
                p # q /\ Alive(p) /\ Alive(q) =>
                   session[p] \in {"lost", "reported"} \/ session[q] \in {"lost", "reported"}
  BY DEF Inv, CallInv, LockInv, CommandInv, Alive, Granted, Locked, MigrationRunning, At
<1>. QED
  BY <1>1, Invariance, PTL

(* An abort, a lost session and a result are reported only when they       *)
(* happened, and a result leaves neither a directory nor the lock behind.  *)
THEOREM OutcomesAreTrue == Spec => []OutcomeIsTruthful
<1>1. Inv => OutcomeIsTruthful
  <2>1. SUFFICES ASSUME Inv, NEW p \in Preparers, call[p].outcome = "success"
                 PROVE  /\ call[p].from <= call[p].to
                        /\ call[p].to = Latest /\ version = Latest
                        /\ ~call[p].directory
                        /\ At(p, "returned") => lockHolder # p \/ call[p].destroyed
    BY DEF Inv, CallInv, OutcomeInv, OutcomeIsTruthful
  <2>2. call[p].from \in 0..Latest
    BY <2>1, CallType DEF Inv, PreparationCalls
  <2>3. CallInv(p)
    BY <2>1 DEF Inv
  <2>. QED
    BY <2>1, <2>2, <2>3 DEF CallInv, LockInv, OutcomeInv
<1>. QED
  BY <1>1, Invariance, PTL

(* What a step may do to the outcome of q.                                 *)
FailureStands(q) ==
    /\ call[q].outcome = "none" /\ call'[q].outcome = "success" => ~Cancelled(q)
    /\ call[q].outcome \in Failures => call'[q].outcome = call[q].outcome

LEMMA FailureStandsStep ==
    ASSUME Inv, Next, NEW q \in Preparers
    PROVE  FailureStands(q)
<1>1. PICK p \in Preparers :
        \/ Client(p) \/ OperationFails(p) \/ Abort(p) \/ LoseSession(p)
        \/ OnConnectionLost(p) \/ ServerDropsSession(p) \/ ChildMigrates(p)
        \/ ChildEnds(p) \/ GraceExpires(p)
  BY DEF Next
<1>2. call \in [Preparers -> PreparationCalls] /\ call[q] \in PreparationCalls /\ call[p] \in PreparationCalls
  BY CallType DEF Inv, TypeOK
<1>3. CallInv(p) /\ CallInv(q)
  BY DEF Inv
<1>4. CASE call'[q].outcome = call[q].outcome
  BY <1>4 DEF FailureStands
<1>5. CASE OperationFails(p) \/ WaitForRetry(p)
  BY <1>2, <1>3, <1>5 DEF FailureStands, OperationFails, WaitForRetry, Close, Closing,
     FailureOr, CallInv, At, PreparationCalls
<1>6. CASE Open(p) \/ MakeDirectory(p)
  <2>1. CASE Open(p)
    BY <1>2, <1>3, <2>1 DEF FailureStands, Open, CallInv, PreparationCalls
  <2>2. CASE MakeDirectory(p)
    BY <1>2, <1>3, <2>2 DEF FailureStands, MakeDirectory, FailureOr, CallInv,
       PreparationCalls
  <2>. QED
    BY <1>6, <2>1, <2>2
<1>10. CASE RemoveDirectory(p)
  <2>1. PICK failure \in {"none", "aborted", "stage", "cleanup"} :
          call'[p].outcome = IF failure # "none" \/ Cancelled(p)
                             THEN FailureOr(p, failure) ELSE call[p].outcome
    BY <1>2, <1>10 DEF RemoveDirectory, NextQueryRefused, PreparationCalls
  <2>2. call[p].outcome = "none"
    BY <1>3, <1>10 DEF CallInv, OutcomeInv, RemoveDirectory, At
  <2>3. call'[p].outcome # "success"
    BY <1>2, <2>1, <2>2 DEF FailureOr, PreparationCalls
  <2>4. q # p => call'[q].outcome = call[q].outcome
    BY <1>2, <1>10 DEF RemoveDirectory
  <2>. QED
    BY <1>4, <2>2, <2>3, <2>4 DEF FailureStands, Failures
<1>7. CASE ReadMigrationVersion(p)
  BY <1>2, <1>3, <1>7 DEF FailureStands, ReadMigrationVersion, Closing, CallInv,
     PreparationCalls
<1>8. CASE UnlockRejected(p) \/ End(p)
  BY <1>2, <1>8 DEF FailureStands, UnlockRejected, End, CleanupFailed, PreparationCalls
<1>9. CASE \/ Connected(p) \/ TryAdvisoryLock(p) \/ LockAnswered(p) \/ SpawnSchemaCommand(p)
           \/ CommandNotRun(p) \/ ChildClosed(p) \/ Unlock(p) \/ Abort(p) \/ LoseSession(p)
           \/ OnConnectionLost(p) \/ ServerDropsSession(p) \/ ChildMigrates(p)
           \/ ChildEnds(p) \/ GraceExpires(p)
  <2>1. CASE \/ LoseSession(p) \/ ServerDropsSession(p) \/ ChildMigrates(p)
             \/ ChildEnds(p) \/ GraceExpires(p)
    BY <1>4, <2>1 DEF LoseSession, ServerDropsSession, ChildMigrates, ChildEnds,
       GraceExpires
  <2>2. CASE Connected(p) \/ TryAdvisoryLock(p) \/ LockAnswered(p)
    BY <1>2, <1>4, <2>2 DEF Connected, TryAdvisoryLock, LockAnswered, PreparationCalls
  <2>3. CASE SpawnSchemaCommand(p) \/ ChildClosed(p) \/ Unlock(p)
    BY <1>2, <1>4, <2>3 DEF SpawnSchemaCommand, ChildClosed, Unlock, PreparationCalls
  <2>5. CASE CommandNotRun(p)
    BY <1>2, <1>4, <2>5 DEF CommandNotRun
  <2>4. CASE Abort(p) \/ OnConnectionLost(p)
    BY <1>2, <1>4, <2>4 DEF Abort, OnConnectionLost, Stop, PreparationCalls
  <2>. QED
    BY <1>9, <2>1, <2>2, <2>3, <2>4, <2>5
<1>. QED
  BY <1>1, <1>5, <1>6, <1>7, <1>8, <1>9, <1>10 DEF Client

(* A cancelled call never turns into a result, and close() keeps the       *)
(* failure it was entered with.                                            *)
THEOREM FirstFailureStands == Spec => FirstFailureIsThrown
<1>1. Inv /\ [Next]_vars =>
        [\A p \in Preparers :
           /\ call[p].outcome = "none" /\ call'[p].outcome = "success" => ~Cancelled(p)
           /\ call[p].outcome \in Failures => call'[p].outcome = call[p].outcome]_vars
  BY FailureStandsStep DEF FailureStands
<1>. QED
  BY <1>1, Invariance, PTL DEF Spec, FirstFailureIsThrown
==============================================================================
