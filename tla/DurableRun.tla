----------------------------- MODULE DurableRun -----------------------------
(***************************************************************************)
(* The durable state that the workflows of one run share: the inbox of the *)
(* root workflow (DBOS notifications on coordinatorTopic) and the record   *)
(* that arbitrates every script attempt between "dispatch it" and "cancel  *)
(* it before dispatch".  A child writes both from operation-workflow.ts,   *)
(* the root from kernel-run-workflow.ts.                                   *)
(***************************************************************************)
EXTENDS RunMessages, Sequences

VARIABLES
    started,  \* operations whose child workflow was started
    inbox,    \* coordinator messages not yet received, in insertion order
    posted,   \* every coordinator message ever inserted
    winner    \* winner[a]: the stored arbitration record of attempt a, or "none"

durableVars == <<started, inbox, posted, winner>>

Winners == {"none", "dispatch_won", "cancel_won"}

(* DBOS.send with an idempotency key: the second insertion is ignored.     *)
Post(m) ==
    IF \E p \in posted : ReceiptOf(p) = ReceiptOf(m)
    THEN UNCHANGED <<inbox, posted>>
    ELSE /\ inbox' = Append(inbox, m)
         /\ posted' = posted \cup {m}

(***************************************************************************)
(* arbitrateAttemptDispatch: startWorkflow under an identity derived from  *)
(* the attempt, so that the first candidate is stored and every caller,    *)
(* the child, the root and their replays, reads that one back.             *)
(***************************************************************************)
(* A mutant of Stored: the latest candidate replaces the stored one.       *)
StoredLatest(a, candidate) == candidate

Stored(a, candidate) == IF winner[a] = "none" THEN candidate ELSE winner[a]

Arbitrate(a, candidate) == winner' = [winner EXCEPT ![a] = Stored(a, candidate)]

DurableInit ==
    /\ started = {}
    /\ inbox = << >>
    /\ posted = {}
    /\ winner = [a \in Attempts |-> "none"]

DurableTypeOK ==
    /\ started \subseteq Ops
    /\ inbox \in Seq(Messages)
    /\ posted \subseteq Messages
    /\ winner \in [Attempts -> Winners]
=============================================================================
