------------------------ MODULE InteractionOperation ------------------------
(***************************************************************************)
(* The child workflow of a wait or a human gate (waitOperation and         *)
(* gateOperation in operation-workflow.ts) and its inbox, the topic        *)
(* operationInteractionTopic.  The child receives one interaction or       *)
(* outwaits its timer, and relays what it heard to the root.               *)
(*                                                                         *)
(* DBOS.recv consumes its message, or fixes its time out, in the same      *)
(* transaction that stores its result: a crash of the host loses nothing.  *)
(*                                                                         *)
(*   "unopened"  the root has not reached its command                      *)
(*   "opened"    published in the journal, the child not started yet       *)
(*   "waiting"   the child is in DBOS.recv                                 *)
(*   "relay"     the child sends its observation                           *)
(*   "done"      the workflow returned                                     *)
(*   "failed"    the workflow threw, ERROR in DBOS                         *)
(***************************************************************************)
EXTENDS DurableRun

CONSTANTS
    Timed,         \* interactions with a timer: duration waits, gates with a deadline
    Answerable,    \* those that take an answer: signal waits and gates
    WindowsExpire  \* FALSE if every wait without a timer is answered or
                   \* cancelled before its receive window ends

ASSUME InteractionsAssumption ==
    /\ Interactions = Timed \cup Answerable
    /\ WindowsExpire \in BOOLEAN

VARIABLES
    child,    \* child[i], see above
    box,      \* box[i]: interactions not yet received, in insertion order
    told,     \* told[i]: every interaction ever inserted
    heard,    \* heard[i]: what the child of i received, or "none"
    journal   \* journal[i]: "none", "pending", or what resolved i publicly

interactionVars == <<child, box, told, heard, journal>>

InteractionTypeOK ==
    /\ child \in [Interactions ->
                     {"unopened", "opened", "waiting", "relay", "done", "failed"}]
    /\ box \in [Interactions -> Seq(Heard)]
    /\ told \in [Interactions -> SUBSET Heard]
    /\ heard \in [Interactions -> Heard \cup {"none"}]
    /\ journal \in [Interactions -> Heard \cup {"none", "pending"}]

InteractionInit ==
    /\ child = [i \in Interactions |-> "unopened"]
    /\ box = [i \in Interactions |-> << >>]
    /\ told = [i \in Interactions |-> {}]
    /\ heard = [i \in Interactions |-> "none"]
    /\ journal = [i \in Interactions |-> "none"]

(* A mutant of KeyOf: every call has a key of its own.                     *)
KeyOfCall(what) == what

(* The idempotency key of an interaction: signal:<waitId>, gate:<gateId>   *)
(* or cancel:<operationId>, one key for all the answers to one wait.       *)
KeyOf(what) == IF what = "cancel" THEN "cancel" ELSE "answer"

Deliver(i, what) ==
    IF \E t \in told[i] : KeyOf(t) = KeyOf(what)
    THEN UNCHANGED <<box, told>>
    ELSE /\ box' = [box EXCEPT ![i] = Append(@, what)]
         /\ told' = [told EXCEPT ![i] = @ \cup {what}]

(* A mutant of Hears: the child returns and relays nothing.                *)
HearsAndReturns(i, what) ==
    /\ heard' = [heard EXCEPT ![i] = what]
    /\ child' = [child EXCEPT ![i] = "done"]
    /\ UNCHANGED <<durableVars, told, journal>>

(* The receive returns: the child goes on to relay what it heard.          *)
Hears(i, what) ==
    /\ heard' = [heard EXCEPT ![i] = what]
    /\ child' = [child EXCEPT ![i] = "relay"]
    /\ UNCHANGED <<durableVars, told, journal>>

ReceivesInteraction(i) ==
    /\ child[i] = "waiting"
    /\ box[i] # << >>
    /\ Hears(i, Head(box[i]))
    /\ box' = [box EXCEPT ![i] = Tail(@)]

(* A mutant of TimerExpires: a time out is taken for a cancellation.       *)
TimerCancels(i) ==
    /\ child[i] = "waiting"
    /\ i \in Timed
    /\ box[i] = << >>
    /\ Hears(i, "cancel")
    /\ UNCHANGED box

(* durationInteraction: the receive times out, which is the timer.         *)
TimerExpires(i) ==
    /\ child[i] = "waiting"
    /\ i \in Timed
    /\ box[i] = << >>
    /\ Hears(i, "timer")
    /\ UNCHANGED box

(* receiveInteraction: the receive times out, and the child throws.        *)
WindowExpires(i) ==
    /\ WindowsExpire
    /\ child[i] = "waiting"
    /\ i \notin Timed
    /\ box[i] = << >>
    /\ child' = [child EXCEPT ![i] = "failed"]
    /\ UNCHANGED <<durableVars, box, told, heard, journal>>

(* sendObservation; a crash may repeat it under the same receipt.          *)
RelaySettlement(i) ==
    /\ child[i] = "relay"
    /\ Post(Settlement(i, heard[i]))
    /\ child' = [child EXCEPT ![i] = "done"] \/ UNCHANGED child
    /\ UNCHANGED <<started, winner, box, told, heard, journal>>

InteractionStep(i) ==
    \/ ReceivesInteraction(i)
    \/ TimerExpires(i)
    \/ WindowExpires(i)
    \/ RelaySettlement(i)
=============================================================================
