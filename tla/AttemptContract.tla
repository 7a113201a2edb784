--------------------------- MODULE AttemptContract --------------------------
(***************************************************************************)
(* What the host promises of every script attempt, whatever crashes,       *)
(* replays, retries and cancellations happen around it.  It knows neither  *)
(* workflows nor steps: an attempt is decided once, physically accepted at *)
(* most once and only after its predecessor failed retryably, and reported *)
(* truthfully and at most once.                                            *)
(***************************************************************************)
EXTENDS RunMessages

VARIABLES
    winner,    \* winner[a]: how attempt a was decided, or "none"
    effect,    \* effect[a]: "absent", "running", or the sealed result
    accepted,  \* accepted[a]: how often a was physically accepted
    posted     \* the reports made

contractVars == <<winner, effect, accepted, posted>>

Init ==
    /\ winner = [a \in Attempts |-> "none"]
    /\ effect = [a \in Attempts |-> "absent"]
    /\ accepted = [a \in Attempts |-> 0]
    /\ posted = {}

Predecessor(a) == <<a[1], a[2] - 1>>

Decide(a) ==
    /\ winner[a] = "none"
    /\ \E w \in {"dispatch_won", "cancel_won"} : winner' = [winner EXCEPT ![a] = w]
    /\ UNCHANGED <<effect, accepted, posted>>

Start(a) ==
    /\ winner[a] = "dispatch_won"
    /\ effect[a] = "absent"
    /\ a[2] > 1 => effect[Predecessor(a)] = "retryable"
    /\ effect' = [effect EXCEPT ![a] = "running"]
    /\ accepted' = [accepted EXCEPT ![a] = 1]
    /\ UNCHANGED <<winner, posted>>

End(a) ==
    /\ effect[a] = "running"
    /\ \E r \in Results : effect' = [effect EXCEPT ![a] = r]
    /\ UNCHANGED <<winner, accepted, posted>>

(* An observation tells a sealed result, or that nothing was dispatched; a *)
(* retry is announced only after a retryable failure.                      *)
Truthful(m) ==
    CASE m.type = "observation" /\ m.result = "preDispatch" ->
            winner[m.of] = "cancel_won" /\ ~ m.retrying
      [] m.type = "observation" /\ m.result # "preDispatch" ->
            /\ winner[m.of] = "dispatch_won"
            /\ effect[m.of] = m.result
            /\ m.retrying => m.result = "retryable" /\ m.of[2] < MaxAttempts
      [] m.type = "retryStart" -> m.of[2] > 1 /\ effect[Predecessor(m.of)] = "retryable"
      [] m.type = "live" -> effect[m.of] = "running"
      [] m.type = "recovery" -> TRUE

Report(m) ==
    /\ Truthful(m)
    /\ \A p \in posted : p.type = m.type => p.of # m.of
    /\ m.of[2] > 1 => \E p \in posted : /\ p.type = "observation"
                                       /\ p.of = Predecessor(m.of)
    /\ posted' = posted \cup {m}
    /\ UNCHANGED <<winner, effect, accepted>>

Next ==
    \/ \E a \in Attempts : Decide(a) \/ Start(a) \/ End(a)
    \/ \E m \in ScriptReports : Report(m)

Spec == Init /\ [][Next]_contractVars
=============================================================================
