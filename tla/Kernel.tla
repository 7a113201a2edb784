------------------------------- MODULE Kernel -------------------------------
(***************************************************************************)
(* The pipeline kernel (advancePipeline of @revisium/revo-pipeline) as the *)
(* root workflow uses it: a pure transition from a state and an event to a *)
(* state and commands, which rejects events it does not expect.  It is not *)
(* part of this repository; the pipelines modelled run branches of script  *)
(* activities in parallel, fail as a whole when an activity does not       *)
(* succeed, and cancel what is still pending, once, before they end.       *)
(***************************************************************************)
EXTENDS Sequences, FiniteSets

CONSTANTS
    Activities,  \* the activities of the program
    Entry,       \* the activities dispatched at admission, in order
    After        \* After[x]: the activities dispatched when x has succeeded

Dispatch(x) == [kind |-> "dispatch", of |-> x]
CancelPending(xs) == [kind |-> "cancelPending", targets |-> xs]
End(kind) == [kind |-> kind]
TerminalKinds == {"complete", "fail", "cancel"}
Commands ==
    [kind : {"dispatch"}, of : Activities]
    \cup [kind : {"cancelPending"}, targets : SUBSET Activities]
    \cup [kind : TerminalKinds]

Settled(x, outcome) == [kind |-> "settled", of |-> x, outcome |-> outcome]
CancelRequested == [kind |-> "cancelRequested"]

Outcomes == {"succeeded", "failed", "cancelled"}
Settlements == [kind : {"settled"}, of : Activities, outcome : Outcomes]

SetOf(s) == {s[i] : i \in DOMAIN s}
DispatchAll(s) == [i \in DOMAIN s |-> Dispatch(s[i])]

InitialState == [mode |-> "running", pending |-> SetOf(Entry)]
InitialCommands == DispatchAll(Entry)

Accepts(k, event) ==
    /\ k.mode # "ended"
    /\ event.kind = "settled" => event.of \in k.pending

(* The end of a program that runs, fails or is being cancelled.            *)
Verdict(mode) == CASE mode = "running" -> "complete"
                   [] mode = "failing" -> "fail"
                   [] mode = "cancelling" -> "cancel"

Finish(mode) == [state |-> [mode |-> "ended", pending |-> {}],
                 commands |-> <<End(Verdict(mode))>>]

Continue(mode, pending, commands) ==
    [state |-> [mode |-> mode, pending |-> pending], commands |-> commands]

(* Ask for the cancellation of what is pending, or end at once.            *)
WindDown(mode, pending) ==
    IF pending = {} THEN Finish(mode)
    ELSE Continue(mode, pending, <<CancelPending(pending)>>)

AdvancePipeline(k, event) ==
    IF event.kind = "cancelRequested"
    THEN IF k.mode = "running" THEN WindDown("cancelling", k.pending)
                               ELSE Continue("cancelling", k.pending, << >>)
    ELSE LET rest == k.pending \ {event.of}
             next == After[event.of]
         IN CASE k.mode = "running" /\ event.outcome # "succeeded" ->
                   WindDown("failing", rest)
              [] k.mode = "running" /\ event.outcome = "succeeded" /\ next # << >> ->
                   Continue("running", rest \cup SetOf(next), DispatchAll(next))
              [] OTHER -> IF rest = {} THEN Finish(k.mode)
                          ELSE Continue(k.mode, rest, << >>)
=============================================================================
