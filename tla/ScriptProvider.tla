--------------------------- MODULE ScriptProvider ---------------------------
(***************************************************************************)
(* The physical side of a script attempt, behind the RunScripts port       *)
(* (composition/run-composition.ts).  The scripts runtime and its executor *)
(* are not part of this repository: what an attempt may do and what the    *)
(* port may answer is modelled from how operation-workflow.ts and          *)
(* kernel-run-workflow.ts call it and classify its answers.                *)
(***************************************************************************)
EXTENDS DurableRun

CONSTANT
    PortMay  \* what the port may do: "doubt" to answer that it does not know,
             \* "reject" to throw out of a dispatch, "emit" live events

ASSUME PortAssumption == PortMay \subseteq {"doubt", "reject", "emit"}

VARIABLES
    effect,   \* effect[a]: "absent", "running", or the sealed result of a
    accepted  \* accepted[a]: how often a physical execution of a was accepted

providerVars == <<effect, accepted>>

ProviderInit ==
    /\ effect = [a \in Attempts |-> "absent"]
    /\ accepted = [a \in Attempts |-> 0]

ProviderTypeOK ==
    /\ effect \in [Attempts -> {"absent", "running"} \cup Results]
    /\ accepted \in [Attempts -> Nat]

(* The runtime accepts a physical execution and starts the script.         *)
Accept(a) ==
    /\ accepted' = [accepted EXCEPT ![a] = @ + 1]
    /\ effect' = [effect EXCEPT ![a] = IF @ = "absent" THEN "running" ELSE @]

(* A running script ends and its result is sealed, whether or not the host *)
(* that started it is still there to hear of it.                           *)
Seal(a, r) ==
    /\ effect[a] = "running"
    /\ effect' = [effect EXCEPT ![a] = r]
    /\ UNCHANGED accepted

(* What reconcileAttempt may answer: a sealed result is terminal, notFound *)
(* is answered only of an attempt that was never accepted, and anything    *)
(* else ("uncertain", "unknown", an invalid answer, a throw) is treated    *)
(* alike by both callers.                                                  *)
ReconcileAnswers(a) ==
    (IF effect[a] \in Results THEN {effect[a]}
     ELSE IF effect[a] = "absent" THEN {"notFound"} ELSE {"unknown"})
    \cup (IF "doubt" \in PortMay THEN {"unknown"} ELSE {})

(* What cancelAttempt may answer.                                          *)
CancelAnswers(a) ==
    (CASE effect[a] \in Results -> {"alreadyTerminal"}
       [] effect[a] = "running" -> {"acknowledged"}
       [] OTHER -> {"notFound"})
    \cup (IF "doubt" \in PortMay THEN {"uncertain", "unknown"} ELSE {})
=============================================================================
