----------------------------- MODULE ScriptLane -----------------------------
(***************************************************************************)
(* The child workflows of a run's script operations on their own: the root *)
(* is reduced to what it may do to the durable state it shares with them.  *)
(***************************************************************************)
EXTENDS ScriptOperation

vars == <<durableVars, providerVars, laneVars>>

(***************************************************************************)
(* The world of the lane: the physical executions, and what the root       *)
(* workflow may do to the state it shares with the lane.                   *)
(***************************************************************************)
ScriptEnds(a) ==
    /\ \E r \in Endings : Seal(a, r)
    /\ UNCHANGED <<durableVars, laneVars>>

RootStartsChild(op) ==
    /\ started' = started \cup {op}
    /\ UNCHANGED <<inbox, posted, winner, providerVars, laneVars>>

(* The root knows attempt 1 of a started operation and every attempt whose *)
(* predecessor was observed with a retry to follow.                        *)
KnownToRoot(a) ==
    /\ a[1] \in started
    /\ a[2] = 1 \/ \E p \in posted : /\ p.type = "observation" /\ p.retrying
                                     /\ p.of = <<a[1], a[2] - 1>>

(* cancelScriptOperation claims the attempt ...                            *)
RootClaimsCancel(a) ==
    /\ KnownToRoot(a)
    /\ Arbitrate(a, "cancel_won")
    /\ UNCHANGED <<started, inbox, posted, providerVars, laneVars>>

(* ... and relays to itself that it won, or the sealed result it was told  *)
(* of when it lost.                                                        *)
RootReports(a) ==
    /\ KnownToRoot(a)
    /\ \/ winner[a] = "cancel_won" /\ Post(Observation(a, "preDispatch", FALSE))
       \/ /\ winner[a] = "dispatch_won" /\ effect[a] \in Results
          /\ Post(Observation(a, effect[a], FALSE))
    /\ UNCHANGED <<started, winner, providerVars, laneVars>>

(* The root takes a message off its inbox.                                 *)
RootReceives ==
    /\ inbox # << >>
    /\ inbox' = Tail(inbox)
    /\ UNCHANGED <<started, posted, winner, providerVars, laneVars>>

(* The run manager asks to cancel, and the children of the other           *)
(* operations of the run relay what they have to.                          *)
OthersPost ==
    /\ \E m \in Messages \ ScriptReports : Post(m)
    /\ UNCHANGED <<started, winner, providerVars, laneVars>>

Init == DurableInit /\ ProviderInit /\ LaneInit

Next ==
    \/ \E op \in Ops : LaneStep(op) \/ ScriptEmits(op) \/ RootStartsChild(op)
    \/ \E a \in Attempts : ScriptEnds(a) \/ RootClaimsCancel(a) \/ RootReports(a)
    \/ RootReceives
    \/ OthersPost
    \/ HostCrash

Spec == Init /\ [][Next]_vars

(* DBOS keeps executing a workflow that has not returned, and a script in  *)
(* execution ends: executeAttempt applies the timeout of its binding.      *)
Fairness ==
    /\ \A op \in Ops : WF_vars(LaneStep(op))
    /\ \A a \in Attempts : WF_vars(ScriptEnds(a))

FairSpec == Spec /\ Fairness

(***************************************************************************)
(* Properties of the closed system; those of a lane are in ScriptOperation *)
(***************************************************************************)
(* Every variable has a value of its type.                                 *)
TypeOK == DurableTypeOK /\ ProviderTypeOK /\ LaneTypeOK

(* The messages that report on attempts.                                   *)
Reports == posted \cap ScriptReports

(* The child workflows, with a root that cancels, implement the contract   *)
(* of a script attempt.                                                    *)
Contract == INSTANCE AttemptContract WITH posted <- Reports
ImplementsContract == Contract!Spec

(* The last word about an operation: a recovery, or an observation that no *)
(* retry follows.                                                          *)
Concluded(op) ==
    \E m \in posted : /\ m.type = "recovery" \/ (m.type = "observation" /\ ~ m.retrying)
                      /\ m.of[1] = op

(* Every started operation is eventually concluded towards the root,       *)
(* whatever the provider answers and however often the host recovers,      *)
(* unless its workflow threw.                                              *)
EveryLaneConcludes ==
    \A op \in Ops : op \in started ~> Concluded(op) \/ pc[op] = "failed"
=============================================================================
