----------------------------- MODULE MCRunHost ------------------------------
(***************************************************************************)
(* RunHost for TLC: pipelines of two parallel activities, scripts or a     *)
(* script and a gate, with a successor or not.                             *)
(***************************************************************************)
EXTENDS RunHost

CONSTANTS
    left, right, tail,  \* scripts
    gate, ask,          \* a gate with a deadline and a signal wait
    alice, bob,         \* calls of answerGate and sendSignal
    bot                 \* an agent

(* One script; two of them in parallel.                                    *)
OneOp == {left}
OneAfter == [op \in OneOp |-> << >>]
Single == <<left>>

TwoOps == {left, right}
TwoAfter == [op \in TwoOps |-> << >>]
Parallel == <<left, right>>

(* A script beside a gate that a signal wait follows.                      *)
TwoInteractions == {gate, ask}
Beside == <<left, gate>>
AskAfterGate == [op \in OneOp \cup TwoInteractions |-> IF op = gate THEN <<ask>> ELSE << >>]

(* Two scripts, one after the other, beside a gate.                        *)
ChainOps == {left, tail}
OneInteraction == {gate}
ChainAfter == [op \in ChainOps \cup OneInteraction |-> IF op = left THEN <<tail>> ELSE << >>]

(* Nothing but a signal wait.                                              *)
NoOps == {}
OnlyAsk == {ask}
Asked == <<ask>>
AskedAfter == [op \in OnlyAsk |-> << >>]

(* A script beside an agent.                                               *)
OneAgent == {bot}
BesideAgent == <<left, bot>>
AgentAfter == [op \in OneOp \cup OneAgent |-> << >>]
=============================================================================
