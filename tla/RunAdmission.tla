---------------------------- MODULE RunAdmission ----------------------------
(***************************************************************************)
(* createRun within the life of its manager (createRunInScope in           *)
(* manager/run-manager.ts): every public call creates the same run id.     *)
(* The workflow id is the run id and startWorkflow is idempotent under it, *)
(* so a call learns whether it has created the run from the admission      *)
(* token, new for every call, in the stored input of the workflow.         *)
(*                                                                         *)
(*   "idle"          the call has not begun                                *)
(*   "preparing"     admitRun                                              *)
(*   "starting"      DBOS.startWorkflow, not committed yet                 *)
(*   "confirming"    hasAdmissionToken, after a start that returned        *)
(*   "status"        getWorkflowStatus, after a start that threw           *)
(*   "token"         hasAdmissionToken after it found a workflow,          *)
(*   "tokenOnly"     ... or found none, or failed                          *)
(*   "created", "rejected", "run_id_conflict", "run_admission_failed"      *)
(*                   how createRun settles                                 *)
(***************************************************************************)
EXTENDS ManagerLifecycle

ASSUME StoredAssumption == Calls \cap {"none", "earlier"} = {}

VARIABLES
    admission,  \* admission[c], see above
    stored,     \* the call whose token the stored workflow has, "none", or
                \* "earlier" of a call of another process
    late,       \* the calls whose start threw and may still commit
    unread      \* the calls that could not read, or read too early, what is stored

admissionVars == <<admission, stored, late, unread>>
admissionAll == <<vars, admissionVars>>

Settled == {"created", "rejected", "run_id_conflict", "run_admission_failed"}

AdmissionTypeOK ==
    /\ TypeOK
    /\ admission \in [Calls -> Settled \cup {"idle", "preparing", "starting", "confirming",
                                             "status", "token", "tokenOnly"}]
    /\ stored \in Calls \cup {"none", "earlier"}
    /\ late \subseteq Calls
    /\ unread \subseteq Calls

AdmissionInit ==
    /\ Init
    /\ admission = [c \in Calls |-> "idle"]
    /\ stored \in {"none", "earlier"}
    /\ late = {}
    /\ unread = {}

Goes(c, to) == admission' = [admission EXCEPT ![c] = to]

CreateRun(c) ==
    /\ EnterPublicCall(c)
    /\ Goes(c, IF lifecycle = "running" THEN "preparing" ELSE "rejected")
    /\ UNCHANGED <<stored, late, unread>>

(* admitRun compiles, resolves the profile and prepares every binding.     *)
AdmitRun(c) ==
    /\ admission[c] = "preparing"
    /\ \E to \in {"starting", "rejected"} : Goes(c, to)
    /\ UNCHANGED <<vars, stored, late, unread>>

Commit(c) == stored' = IF stored = "none" THEN c ELSE stored

(* A mutant of AfterStart: a start that returned has created the run.      *)
CreatedByStart == "created"

AfterStart == "confirming"

StartWorkflow(c) ==
    /\ admission[c] = "starting"
    /\ Commit(c)
    /\ Goes(c, AfterStart)
    /\ UNCHANGED <<vars, late, unread>>

(* startWorkflow throws, before or after its commit, or while that is on   *)
(* its way.                                                                *)
StartThrows(c) ==
    /\ admission[c] = "starting"
    /\ Goes(c, "status")
    /\ \/ Commit(c) /\ UNCHANGED late
       \/ late' = late \cup {c} /\ UNCHANGED stored
       \/ UNCHANGED <<stored, late>>
    /\ UNCHANGED <<vars, unread>>

(* Whoever has read by then has not seen it.                               *)
CommitsLate(c) ==
    /\ c \in late
    /\ late' = late \ {c}
    /\ Commit(c)
    /\ unread' = unread \cup {c}
    /\ UNCHANGED <<vars, admission>>

(* getWorkflowStatus finds a workflow or none; a failure counts as none.   *)
ReadStatus(c) ==
    /\ admission[c] = "status"
    /\ \E to \in {"tokenOnly"} \cup (IF stored = "none" THEN {} ELSE {"token"}) : Goes(c, to)
    /\ UNCHANGED <<vars, stored, late, unread>>

(* hasAdmissionToken: whose token is stored; a failed read counts as       *)
(* somebody else's.                                                        *)
OwnAdmission(c) == stored = c

(* What the call makes of a token that is not its own.                     *)
Verdict(c) == IF admission[c] = "tokenOnly" THEN "run_admission_failed"
                                            ELSE "run_id_conflict"

ReadToken(c) ==
    /\ admission[c] \in {"confirming", "token", "tokenOnly"}
    /\ \E read \in BOOLEAN :
         /\ Goes(c, IF read /\ OwnAdmission(c) THEN "created" ELSE Verdict(c))
         /\ unread' = IF read THEN unread ELSE unread \cup {c}
    /\ UNCHANGED <<vars, stored, late>>

CreateRunSettles(c) ==
    /\ admission[c] \in Settled
    /\ LeavePublicCall(c)
    /\ UNCHANGED admissionVars

AdmissionStep(c) ==
    \/ AdmitRun(c) \/ StartWorkflow(c) \/ StartThrows(c)
    \/ ReadStatus(c) \/ ReadToken(c) \/ CreateRunSettles(c)

ManagerStep ==
    \/ Start
    \/ StartStep
    \/ \E t \in Stops : Stop(t) \/ StopStep(t)
    \/ \E w \in Children : ChildStep(w)

AdmissionNext ==
    \/ ManagerStep /\ UNCHANGED admissionVars
    \/ \E c \in Calls : CreateRun(c) \/ AdmissionStep(c) \/ CommitsLate(c)

(* Promises settle: those of a start, of a stop, and of a createRun, which *)
(* is a bounded number of awaits.  Nobody has to start, stop or create.    *)
AdmissionSpec ==
    /\ AdmissionInit /\ [][AdmissionNext]_admissionAll
    /\ WF_admissionAll(StartStep /\ UNCHANGED admissionVars)
    /\ \A c \in Calls : WF_admissionAll(AdmissionStep(c))
    /\ \A t \in Stops : WF_admissionAll(StopStep(t) /\ UNCHANGED admissionVars)

(***************************************************************************)
(* Properties                                                              *)
(***************************************************************************)
(* What createRun tells is true, whoever creates, fails or commits beside  *)
(* it.  It resolves only for the call that created the run, so for one of  *)
(* the calls with one run id at most, although startWorkflow returns for   *)
(* each of them (README.md: a second creation returns run_id_conflict).    *)
(* A call that is told that the id is taken, or that the admission failed, *)
(* has not created the run, unless what it stored could not be read back;  *)
(* and an id that is told to be taken is.                                  *)
AdmissionIsTruthful ==
    \A c \in Calls :
        /\ admission[c] = "created" => stored = c
        /\ admission[c] \in {"run_id_conflict", "run_admission_failed"} /\ stored = c
           => c \in unread
        /\ admission[c] = "run_id_conflict" => stored # "none"
=============================================================================
