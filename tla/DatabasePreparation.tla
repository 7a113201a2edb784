------------------------- MODULE DatabasePreparation -------------------------
(***************************************************************************)
(* prepareRunManagerDatabase: several hosts prepare the DBOS schema of one *)
(* database. Each opens a PostgreSQL session, polls for an advisory lock,  *)
(* reads the schema version, runs the DBOS schema command in a child       *)
(* process, reads the version again and gives everything back.             *)
(*                                                                         *)
(* The advisory lock belongs to the session on the server, which may end   *)
(* it before the client learns; the child has a connection of its own and  *)
(* keeps no lock. The caller may abort at any await.                       *)
(*                                                                         *)
(* Of the schema command it is assumed that it only moves the version up   *)
(* and exits with 0 only when the version is the latest one.               *)
(***************************************************************************)
EXTENDS Naturals

CONSTANTS
    Preparers,    \* calls of prepareRunManagerDatabase, each of a host of its own
    NoPreparer,   \* nobody holds the lock
    Latest        \* the schema version of the installed DBOS

ASSUME PreparationAssumption == NoPreparer \notin Preparers /\ Latest \in Nat

VARIABLES
    call,         \* call[p]: the control and the PreparationDatabase of call p
    aborted,      \* aborted[p]: the caller's AbortSignal
    session,      \* session[p]: "none", "open", "lost" before the client knows,
                  \* "reported" once it does, "closed"
    lockHolder,   \* the preparer whose session has the advisory lock
    child,        \* child[p]: "none", "running", "terminated" by SIGTERM, "killed"
                  \* by SIGKILL (both alive), "succeeded", "failed"
    version       \* the schema version in the database

vars == <<call, aborted, session, lockHolder, child, version>>

Failures == {"aborted", "session_lost", "stage"}
Outcomes == {"none", "success", "cleanup"} \cup Failures

PreparationCalls ==
    [pc: {"idle", "connecting", "locking", "waiting", "reading_from", "directory",
          "resolving", "child", "removing", "reading_to", "unlocking", "ending",
          "returned"},
     failure: {"none", "aborted", "session_lost"},
     destroyed: BOOLEAN,
     answer: {"none", "acquired", "busy"},
     commandFailure: {"none", "aborted", "stage"},
     directory: BOOLEAN,
     from: 0..Latest, to: 0..Latest, outcome: Outcomes]

TypeOK ==
    /\ call \in [Preparers -> PreparationCalls]
    /\ aborted \in [Preparers -> BOOLEAN]
    /\ session \in [Preparers -> {"none", "open", "lost", "reported", "closed"}]
    /\ lockHolder \in Preparers \cup {NoPreparer}
    /\ child \in [Preparers ->
                  {"none", "running", "terminated", "killed", "succeeded", "failed"}]
    /\ version \in 0..Latest

Init ==
    /\ call = [p \in Preparers |->
         [pc |-> "idle", failure |-> "none", destroyed |-> FALSE,
          answer |-> "none", commandFailure |-> "none", directory |-> FALSE,
          from |-> 0, to |-> 0, outcome |-> "none"]]
    /\ aborted = [p \in Preparers |-> FALSE]
    /\ session = [p \in Preparers |-> "none"]
    /\ lockHolder = NoPreparer
    /\ child = [p \in Preparers |-> "none"]
    /\ version \in 0..Latest

At(p, pc) == call[p].pc = pc
Alive(p) == child[p] \in {"running", "terminated", "killed"}

(* cancellation.abort() comes with every failure that is set.              *)
Cancelled(p) == call[p].failure # "none"

(* A mutant of MigrationRunning: an abort closes the session under the     *)
(* command.                                                                *)
NeverRunning(p) == FALSE

MigrationRunning(p) == call[p].pc \in {"directory", "resolving", "child", "removing"}

(* A mutant of FailureOr: whatever failed, the abort is blamed.            *)
AlwaysAborted(p, other) == "aborted"

(* this.failure ?? other                                                   *)
FailureOr(p, other) == IF Cancelled(p) THEN call[p].failure ELSE other

(* this.locked, read by close(): the lock has been answered to the client. *)
Locked(p) == MigrationRunning(p) \/ call[p].pc \in {"reading_from", "reading_to"}

(* close() begins with the unlock when there is something to unlock.       *)
Closing(p) == IF Locked(p) /\ ~call[p].destroyed THEN "unlocking" ELSE "ending"

(* The call enters close() with what it will throw; the versions it read   *)
(* go out of scope.                                                        *)
Close(p, failure) ==
    call' = [call EXCEPT ![p].outcome = failure, ![p].pc = Closing(p), ![p].from = 0,
                         ![p].answer = "none", ![p].commandFailure = "none"]

ReleaseLock(p) == lockHolder' = IF lockHolder = p THEN NoPreparer ELSE lockHolder

(***************************************************************************)
(* Abort, and the loss of the session                                      *)
(***************************************************************************)
(* Stop, and the abort listener of the schema command it calls.            *)
Stop(p, failure) ==
    /\ call' = [call EXCEPT ![p].failure = IF @ = "none" THEN failure ELSE @,
                            ![p].destroyed = @ \/ ~MigrationRunning(p)]
    /\ child' = [child EXCEPT ![p] = IF @ = "running" THEN "terminated" ELSE @]

Abort(p) ==
    /\ ~aborted[p]
    /\ ~At(p, "returned")
    /\ aborted' = [aborted EXCEPT ![p] = TRUE]
    /\ IF At(p, "idle") THEN UNCHANGED <<call, child>> ELSE Stop(p, "aborted")
    /\ UNCHANGED <<session, lockHolder, version>>

(* The server, or the network, ends the session.                           *)
LoseSession(p) ==
    /\ session[p] = "open"
    /\ ~call[p].destroyed
    /\ session' = [session EXCEPT ![p] = "lost"]
    /\ ReleaseLock(p)
    /\ UNCHANGED <<call, aborted, child, version>>

(* The 'error' event of the pg client.                                     *)
OnConnectionLost(p) ==
    /\ session[p] = "lost"
    /\ ~At(p, "returned")
    /\ session' = [session EXCEPT ![p] = "reported"]
    /\ Stop(p, "session_lost")
    /\ UNCHANGED <<aborted, lockHolder, version>>

(* The server finds that the client has destroyed the socket.              *)
ServerDropsSession(p) ==
    /\ session[p] = "open"
    /\ call[p].destroyed
    /\ session' = [session EXCEPT ![p] = "closed"]
    /\ ReleaseLock(p)
    /\ UNCHANGED <<call, aborted, child, version>>

(***************************************************************************)
(* Session, lock and version                                               *)
(***************************************************************************)
(* parseOptions and openPreparationDatabase; a signal that is aborted      *)
(* already, options that are no options.                                   *)
Open(p) ==
    /\ At(p, "idle")
    /\ \E valid \in BOOLEAN :
         call' = [call EXCEPT
             ![p].pc = IF valid /\ ~aborted[p] THEN "connecting" ELSE "returned",
             ![p].outcome = CASE ~valid -> "stage"
                              [] valid /\ aborted[p] -> "aborted"
                              [] OTHER -> "none"]
    /\ UNCHANGED <<aborted, session, lockHolder, child, version>>

Connected(p) ==
    /\ At(p, "connecting")
    /\ ~call[p].destroyed
    /\ session' = [session EXCEPT ![p] = "open"]
    /\ call' = [call EXCEPT ![p].pc = "locking"]
    /\ UNCHANGED <<aborted, lockHolder, child, version>>

(* The server runs pg_try_advisory_lock, whatever became of the client.    *)
TryAdvisoryLock(p) ==
    /\ At(p, "locking")
    /\ session[p] = "open"
    /\ call[p].answer = "none"
    /\ call' = [call EXCEPT ![p].answer = IF lockHolder = NoPreparer THEN "acquired" ELSE "busy"]
    /\ lockHolder' = IF lockHolder = NoPreparer THEN p ELSE lockHolder
    /\ UNCHANGED <<aborted, session, child, version>>

LockAnswered(p) ==
    /\ At(p, "locking")
    /\ ~call[p].destroyed
    /\ call[p].answer # "none"
    /\ call' = [call EXCEPT ![p].answer = "none",
                            ![p].pc = IF call[p].answer = "acquired"
                                      THEN "reading_from" ELSE "waiting"]
    /\ UNCHANGED <<aborted, session, lockHolder, child, version>>

(* waitForRetry: the timer, or the abort.                                  *)
WaitForRetry(p) ==
    /\ At(p, "waiting")
    /\ IF Cancelled(p)
       THEN Close(p, call[p].failure)
       ELSE call' = [call EXCEPT ![p].pc = "locking"]
    /\ UNCHANGED <<aborted, session, lockHolder, child, version>>

(* A mutant of StoredVersion: the migration that would come next.          *)
NextVersion == version + 1

(* The migration table holds the versions that were applied.               *)
StoredVersion == version

(* readMigrationVersion, before and after the command.                     *)
ReadMigrationVersion(p) ==
    /\ session[p] = "open"
    /\ ~call[p].destroyed
    /\ \/ /\ At(p, "reading_from")
          /\ call' = [call EXCEPT ![p].from = StoredVersion, ![p].pc = "directory"]
       \/ /\ At(p, "reading_to")
          /\ call' = [call EXCEPT ![p].to = StoredVersion, ![p].outcome = "success",
                                  ![p].pc = Closing(p)]
    /\ UNCHANGED <<aborted, session, lockHolder, child, version>>

(* connect or a query rejects.                                             *)
OperationFails(p) ==
    /\ call[p].pc \in {"connecting", "locking", "reading_from", "reading_to"}
    /\ Close(p, FailureOr(p, "stage"))
    /\ UNCHANGED <<aborted, session, lockHolder, child, version>>

(***************************************************************************)
(* runDbosSchemaMigration                                                  *)
(***************************************************************************)
(* mkdtemp and writeFile; when the second fails the directory stays.       *)
MakeDirectory(p) ==
    /\ At(p, "directory")
    /\ \E made \in BOOLEAN :
         \/ call' = [call EXCEPT ![p].directory = TRUE, ![p].pc = "resolving"]
         \/ call' = [call EXCEPT ![p].directory = made, ![p].from = 0,
                                 ![p].outcome = FailureOr(p, "stage"), ![p].pc = Closing(p)]
    /\ UNCHANGED <<aborted, session, lockHolder, child, version>>

(* resolveDbosCli returns and runSchemaCommand spawns the child.           *)
SpawnSchemaCommand(p) ==
    /\ At(p, "resolving")
    /\ ~Cancelled(p)
    /\ child' = [child EXCEPT ![p] = "running"]
    /\ call' = [call EXCEPT ![p].pc = "child"]
    /\ UNCHANGED <<aborted, session, lockHolder, version>>

(* No command is run: the CLI is not found, the child does not spawn, or   *)
(* the signal is aborted by then.                                          *)
CommandNotRun(p) ==
    /\ At(p, "resolving")
    /\ \E f \in {"stage"} \cup (IF Cancelled(p) THEN {"aborted"} ELSE {}) :
         call' = [call EXCEPT ![p].commandFailure = f, ![p].pc = "removing"]
    /\ UNCHANGED <<aborted, session, lockHolder, child, version>>

ChildMigrates(p) ==
    /\ Alive(p)
    /\ version < Latest
    /\ version' = version + 1
    /\ UNCHANGED <<call, aborted, session, lockHolder, child>>

ChildEnds(p) ==
    /\ Alive(p)
    /\ \E exit \in {"succeeded", "failed"} :
         /\ exit = "succeeded" => version = Latest
         /\ child' = [child EXCEPT ![p] = exit]
    /\ UNCHANGED <<call, aborted, session, lockHolder, version>>

(* A mutant of GraceExpires: a child that ignores SIGTERM is waited for.   *)
TerminatedAgain(p) ==
    /\ child[p] = "terminated"
    /\ UNCHANGED vars

(* The force timer of the abort listener.                                  *)
GraceExpires(p) ==
    /\ child[p] = "terminated"
    /\ child' = [child EXCEPT ![p] = "killed"]
    /\ UNCHANGED <<call, aborted, session, lockHolder, version>>

(* The child's 'close' event, with its exit code.                          *)
ChildClosed(p) ==
    /\ At(p, "child")
    /\ ~Alive(p)
    /\ call' = [call EXCEPT
         ![p].commandFailure = CASE Cancelled(p) -> "aborted"
                                 [] ~Cancelled(p) /\ child[p] # "succeeded" -> "stage"
                                 [] OTHER -> "none",
         ![p].pc = "removing"]
    /\ child' = [child EXCEPT ![p] = "none"]
    /\ UNCHANGED <<aborted, session, lockHolder, version>>

(* A mutant of NextQueryRefused: the query after the command starts        *)
(* without looking.                                                        *)
NeverRefused(p) == FALSE

(* run() of the next query throws when the call was stopped meanwhile.     *)
NextQueryRefused(p) == Cancelled(p)

(* rm of the directory, and the return of the command through migrate.     *)
RemoveDirectory(p) ==
    /\ At(p, "removing")
    /\ \E removed \in BOOLEAN :
         LET failure == IF call[p].commandFailure = "none" /\ ~removed
                        THEN "cleanup" ELSE call[p].commandFailure
             thrown == failure # "none" \/ NextQueryRefused(p) IN
         call' = [call EXCEPT
             ![p].directory = ~removed,
             ![p].commandFailure = "none",
             ![p].from = IF thrown THEN 0 ELSE @,
             ![p].outcome = IF thrown THEN FailureOr(p, failure) ELSE @,
             ![p].pc = IF thrown THEN Closing(p) ELSE "reading_to"]
    /\ UNCHANGED <<aborted, session, lockHolder, child, version>>

(***************************************************************************)
(* close                                                                   *)
(***************************************************************************)
Unlock(p) ==
    /\ At(p, "unlocking")
    /\ ~call[p].destroyed
    /\ session[p] = "open"
    /\ ReleaseLock(p)
    /\ call' = [call EXCEPT ![p].pc = "ending"]
    /\ UNCHANGED <<aborted, session, child, version>>

(* A failure of the cleanup is thrown only when there is no other.         *)
CleanupFailed(p) == IF call[p].outcome = "success" THEN "cleanup" ELSE call[p].outcome

UnlockRejected(p) ==
    /\ At(p, "unlocking")
    /\ call' = [call EXCEPT ![p].pc = "ending", ![p].outcome = CleanupFailed(p)]
    /\ UNCHANGED <<aborted, session, lockHolder, child, version>>

(* client.end() of a session the client has not destroyed ends it on the   *)
(* server as well.                                                         *)
End(p) ==
    /\ At(p, "ending")
    /\ \E ended \in BOOLEAN :
         call' = [call EXCEPT ![p].pc = "returned",
                              ![p].outcome = IF ended THEN @ ELSE CleanupFailed(p)]
    /\ IF session[p] = "open" /\ ~call[p].destroyed
       THEN /\ session' = [session EXCEPT ![p] = "closed"]
            /\ ReleaseLock(p)
       ELSE UNCHANGED <<session, lockHolder>>
    /\ UNCHANGED <<aborted, child, version>>

(***************************************************************************)
(* Specification                                                           *)
(***************************************************************************)
Client(p) ==
    \/ Open(p)
    \/ Connected(p)
    \/ TryAdvisoryLock(p)
    \/ LockAnswered(p)
    \/ WaitForRetry(p)
    \/ ReadMigrationVersion(p)
    \/ MakeDirectory(p)
    \/ SpawnSchemaCommand(p)
    \/ CommandNotRun(p)
    \/ ChildClosed(p)
    \/ RemoveDirectory(p)
    \/ Unlock(p)
    \/ UnlockRejected(p)
    \/ End(p)

Next ==
    \E p \in Preparers :
        \/ Client(p)
        \/ OperationFails(p)
        \/ Abort(p)
        \/ LoseSession(p)
        \/ OnConnectionLost(p)
        \/ ServerDropsSession(p)
        \/ ChildMigrates(p)
        \/ ChildEnds(p)
        \/ GraceExpires(p)

(* What the host and the server do by themselves goes on; an operation on  *)
(* a destroyed connection rejects, and a SIGKILL ends the child. A child   *)
(* is not assumed to end otherwise, nor a caller to abort.                 *)
Fairness ==
    \A p \in Preparers :
        /\ WF_vars(~At(p, "idle") /\ Client(p))
        /\ WF_vars(call[p].destroyed /\ OperationFails(p))
        /\ WF_vars(OnConnectionLost(p))
        /\ WF_vars(ServerDropsSession(p))
        /\ WF_vars(GraceExpires(p))
        /\ WF_vars(child[p] = "killed" /\ ChildEnds(p))

Spec == Init /\ [][Next]_vars /\ Fairness

(***************************************************************************)
(* Properties                                                              *)
(***************************************************************************)
(* A schema command runs under the advisory lock of its call, unless the   *)
(* server ended the session; once the client learns of that, the command   *)
(* has been told to terminate. So two commands run at once only after such *)
(* a loss. An abort terminates and reaps the child first, only then does   *)
(* the call unlock and return (acquireMigrationLock, stop, migrate,        *)
(* runSchemaCommand, close).                                               *)
ChildRunsUnderLock ==
    \A p \in Preparers :
        /\ Alive(p) => At(p, "child")
        /\ Alive(p) => lockHolder = p \/ session[p] \in {"lost", "reported"}
        /\ child[p] = "running" => lockHolder = p \/ session[p] = "lost"

(* What the call returns or throws is what happened: an abort only when    *)
(* the caller aborted, a lost session only when the session was lost, a    *)
(* result only when the schema is at the latest version, and then nothing  *)
(* is left behind.                                                         *)
OutcomeIsTruthful ==
    \A p \in Preparers :
        LET outcome == call[p].outcome IN
        /\ outcome = "aborted" => aborted[p]
        /\ outcome = "session_lost" => session[p] = "reported"
        /\ outcome = "success" =>
             /\ call[p].from <= call[p].to
             /\ call[p].to = Latest /\ version = Latest
             /\ ~call[p].directory
        /\ outcome = "success" /\ At(p, "returned") => lockHolder # p \/ call[p].destroyed

(* A call that was aborted, or lost its session, before close() does not   *)
(* return a result, and close() never replaces the failure it was given.   *)
FirstFailureIsThrown ==
    [][\A p \in Preparers :
         /\ call[p].outcome = "none" /\ call'[p].outcome = "success" => ~Cancelled(p)
         /\ call[p].outcome \in Failures => call'[p].outcome = call[p].outcome]_vars

(* A call that was aborted or lost its session returns, even when it waits *)
(* for the lock of another call or for a child that ignores SIGTERM.       *)
CancelledCallReturns ==
    \A p \in Preparers : Cancelled(p) ~> At(p, "returned")
=============================================================================
