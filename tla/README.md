# Verification of revo-run

TLA+ models of the durable run host in `src/src`, the configurations that
model-check them, and theorems about them that TLAPS checks. Paths below are
relative to `src/`.

revo-run executes an admitted pipeline durably on DBOS. A *root workflow* per run
hosts the commands of a pure pipeline kernel, a *child workflow* per operation does
the work (scripts, agents, waits, gates), and a *run manager* in the application
process starts, cancels, answers and reads runs. A workflow is replayed after a
crash of the process; what makes it correct is which of its steps are stored, in
which order, under which keys.

## 1. Inventory

| Component (source) | State | Operations | Hard parts | What makes it correct |
| --- | --- | --- | --- | --- |
| Root workflow (`dbos/kernel-run-workflow.ts`) | kernel state, queued commands, `active`, `receipts`, `recoveryPending`, `recoveryOperations`, deferred kernel events, the public journal | drain commands, receive one message at a time, apply it, advance the kernel, cancel targets | messages of children, of itself and of the manager in any order; replay; unknown outcomes | nothing the kernel waits for is lost; the journal tells what happened; outcomes are final; the run ends |
| Script operation (`dbos/operation-workflow.ts`) | attempt ordinal, decision phase, recovery-count baseline, resolution | dispatch intent, arbitration, execute or reconcile, relay, retry after a durable sleep | crash inside the provider step, doubt, retries, cancellation from outside | an attempt is executed at most once, attempts are serial, reports are true and unique, the lane always has a last word |
| Attempt arbitration (`dbos/attempt-dispatch-arbitration.ts`) | one stored winner per attempt | claim and read back | child and root race, both replay | both read the same winner |
| Inbox, receipts (`dbos/coordinator-inbox.ts`, `operations/identities.ts`) | a FIFO topic, idempotency keys | send, receive | repeated sends, two senders under one key | one report per receipt |
| Waits and gates (`dbos/operation-workflow.ts`, `dbos/interaction-records.ts`) | pending or resolved, the inbox of the child | open, start, receive or time out, relay, resolve, cancel | answer, deadline and cancellation race; the receive window | resolved once, by what the child heard |
| Agent operations (`dbos/operation-workflow.ts`, `composition/agent-port.ts`) | dispatch intent, recovery-count baseline, the resolution; the agent itself is a process that outlives the host | dispatch intent, start or reconcile, poll, cancel, relay | crash between the launch and its stored step; a cancellation that meets the child anywhere; lookups in doubt | no second launch; a run that ends without doubt leaves no agent running; a cancellation stops it |
| Run manager: interactions (`manager/run-manager.ts`) | none of its own | `cancelRun`, `sendSignal`, `answerGate` | check of published state, then a send | an accepted call takes effect or was overtaken |
| Run manager: reads | none; reads published details, stream, mark | `getRun`, `getRunDetails`, `getRunEvents`, `subscribeRunEvents`, `waitForTerminal`, `listRuns` | stream and mark are two steps | no gap, no repeat, no false end |
| Run manager: lifecycle (`manager/run-manager.ts`, `composition/*`) | lifecycle, composition, fence, public call counter | `start`, `stop`, every public call, `createRun` | all interleave at their awaits; DBOS recovers while it launches, and not every recovered child waits at the fence; a start of a workflow that throws may have committed | calls are served by a started manager, what is recovered waits for one (agents beyond their dispatch excepted), `stop` returns, `createRun` tells the truth about who created the run |
| Admission (`admission/admit-run.ts`) | none; a fresh token per admission | validate, compile, prepare bindings, pin | none of its own: it stores nothing | the token tells apart two admissions of one run id |
| Database preparation (`database/*`) | session, advisory lock, child process, abort signal, a directory | connect, poll the lock, read the version, run the schema command, clean up | abort or lost session at any await, a child that ignores SIGTERM, failures while cleaning up | the child is gone before the lock is; the first failure is what is thrown; a cancelled call returns |
| Pipeline kernel, scripts runtime, DBOS (external) | | | | assumed, see 5 |

Interaction: children and manager reach the root only through its durable inbox;
the root reaches script children only through the arbitration record and the
scripts port, waits, gates and agents through the inbox of their child; the manager reads what the root
publishes. `PROJECT.json` lists every component with its status and every hazard
at its line.

## 2. Modules

| Module | Models | Correspondence |
| --- | --- | --- |
| `RunMessages` | the constants of a run (operations by kind, calls, attempts), the messages its root receives, of whatever sender, and their receipts | a message carries its attempt and its result; `ReceiptOf` is the observation, recovery, retry-start or event receipt of `identities.ts` |
| `DurableRun` | what DBOS stores for a run: inbox, every message ever inserted (`posted`, for idempotency), arbitration winners, started children | `Post` is `DBOS.send` under a key, `Arbitrate` is `arbitrateAttemptDispatch` |
| `ScriptProvider` | the scripts runtime behind the port (external) | `Accept`, `Seal`, and what `reconcileAttempt` and `cancelAttempt` may answer |
| `ScriptOperation` | the child workflow of a script | `pc` is the first step without a stored result; one action per step, plus `HostCrash` |
| `ScriptLane` | those children, closed by the most general root | `RootClaimsCancel`, `RootReports`, `RootReceives`; `OthersPost` is what the other senders put in the same inbox |
| `AttemptContract` | abstract: what the host promises of an attempt | no workflow, no step, no crash |
| `InteractionOperation` | the child workflow of a wait or gate and its inbox | `ReceivesInteraction`, `TimerExpires` (`durationInteraction`), `WindowExpires` (`receiveInteraction`), `RelaySettlement` |
| `AgentOperation` | the child workflow of an agent and the agent's process behind the port | `pc` as in `ScriptOperation`; `StartAgent` and `StartReturns` are the two halves of one step, between which a crash repeats it; `LookupAnswers` is `lookupAgentResult` |
| `Kernel` | the pipeline kernel (external) | parallel and sequential activities, failure and cancellation wind-down |
| `Coordinator` | the root workflow | one action per command and per message type, one per durable step of a cancellation; `rootPc` is the step |
| `RunHost` | a whole run: root, script, wait, gate and agent children, scripts, agents, the manager's three interaction calls, crashes | composes the modules above; also says that its script children live in the environment `ScriptLane` assumes (`HostsScriptLanes`: the variables of `ScriptLane` are those of the run, unchanged) |
| `MCScriptLane`, `MCRunHost` | small instances for TLC | |
| `RunEvents` | event stream, high-water mark, paging and subscribing readers | `WriteEvent` and `SetHighWater` are the two steps of `RunJournal.emit` |
| `ManagerLifecycle` | `start`, `stop`, public calls, composition, fence, recovered children | one action per stretch between two awaits; `PassFence` is a child that awaits the fence, `PollAgent` an agent beyond its dispatch that does not; has no specification of its own |
| `RunAdmission` | `ManagerLifecycle` with every public call a `createRun` of one run id | `admission[c]` is the await the call is in; `stored` is the token in the stored input of the workflow |
| `DatabasePreparation` | `prepareRunManagerDatabase` in several hosts | `call[p].pc` is the await; session, lock, child process and schema version are those of the server and the operating system |
| `ScriptLaneProofs`, `ScriptLaneRefinement`, `RunHostProofs`, `RunOutcomeProofs`, `RunSettlementProofs`, `RunEventsProofs`, `RunAdmissionProofs`, `DatabasePreparationProofs` | theorems, see 4 | |

How a crash is modelled. DBOS stores the result of every completed step, so a
replay brings a workflow back to its first step without one. The root and the
wait and gate children are deterministic between stored steps: a crash changes
nothing in their model. A script child loses only what it had in memory inside the
provider step, and DBOS counts its recovery; `HostCrash` does both. So does
`AgentsRecover` for the children of agents, whose processes go on meanwhile. A send whose
step was not yet stored is repeated under the same key: `RelayOutcome`,
`SendRetryStart` and `RelaySettlement` may repeat for that reason.

Definitions named in a comment as "a mutant of X" are never used by the
specifications. They are plausible wrong versions of X, against which each checked
property is shown to have teeth.

## 3. Runs

Passing runs:

| Run | Instance | Shows |
| --- | --- | --- |
| `script_lane` | one operation, 2 attempts, 2 crashes, all port answers (doubt, rejection, live events), endings success, retryable, cancelled | the safety of attempts, that the lane implements `AttemptContract`, and that it always has a last word |
| `run_siblings` | two scripts in parallel, one attempt each, one crash, a cancellation, ports in doubt | the root loses no operation and no kernel event, published outcomes are final, a run that ended is settled |
| `run_retries` | one script, 3 attempts, one crash, all endings, live events, doubt, a cancellation | retries against the root; live events are taken; the run returns; the run refines `ScriptLane!Spec` |
| `run_interactions` | a script beside a gate with a deadline that a signal wait follows, two calls, windows that may expire, a cancellation | one answer is delivered, what is published is what resolved, every active operation has a word to come |
| `run_agents` | an agent beside a script, one crash, an agents port in doubt, children that throw, a cancellation, agents that end by themselves only if they like, fairness | one launch, a truthful journal, no agent behind a settled run, cancellations stop agents |
| `run_wind_down` | a chain of two scripts beside a gate with a deadline, one call, a cancellation, fairness | cancellations end the run, accepted answers are resolved |
| `run_events` | one reader, 5 events, pages of 2 | no gap, no repeat, pages are backed by the stream and their cursors are taken, the last page is complete, subscriptions of a closed stream deliver everything |
| `run_admission` | 2 starts, 2 stops, 2 `createRun` calls of one run id, perhaps created earlier by another process, the child of 1 agent, dispatched before or not | calls are hosted, recovered workflows find a composition, and all but agents beyond their dispatch wait until the manager is ready, every stop returns, what `createRun` tells is true |
| `database_preparation` | 2 hosts, versions up to 1, starting at 0 or 1 | the schema command runs under the lock, outcomes are truthful, the first failure is thrown, a cancelled call returns |

Bounds. One operation is enough in `script_lane` because operations there share
only the crash counter and an inbox nobody reads. Two crashes are the fewest that
hit both the first intent and the fresh one that `notFound` earns; three attempts
the fewest with a retry between two others. Two siblings are the fewest in which
one may advance the kernel around another; `tail` and `ask` add a command that is
dispatched late. Two calls are the fewest that race. Five events make two pages
and a rest. Two starts allow a failure before or after a success, and a restart whose fence is not
that of the first start; the theorems of `RunAdmissionProofs` are about any number. Until it is
dispatched the child of an agent behaves as that of a script, wait or gate, so one child does. One agent is enough
in `run_agents` because agents share nothing with each other, only with the root; the
script beside it is the sibling whose failure winds the run down. Two hosts are the fewest
that contend for the lock, and one version step the fewest with something to
migrate. `PortMay` switches off
kinds of answers a run is not about (`run_interactions` and `run_wind_down` have
ports that know, and so has the script in `run_agents`: doubt about scripts is the
subject of the other runs).

Deadlock is not checked where the modelled system comes to rest (a finished run,
spent bounds).

Runs that show a disagreement between code and repository text (section 6):
`advance_around_unknown`, `retry_start_after_settlement`, `expired_window`.

Fairness. DBOS executes every workflow that has not returned, so each child and
the root is weakly fair; a receive with a timer ends by it; a script ends because
`executeAttempt` applies the timeout of its binding. An agent has no timeout here
(the start request sets no limits), so it ends for certain only once it was asked to;
that is what makes `CancellationStopsAgents` say something. Nobody has to cancel, answer,
crash or write an event. In `RunEvents` only a read in progress is fair. In
`RunAdmission` the awaits of `start`, `stop` and `createRun` settle; that every
other public call ends as well is an assumption about the consumers of
`subscribeRunEvents` and `waitForTerminal`, which hold their call open. In
`DatabasePreparation` a call goes on, an operation on a destroyed connection rejects, the
server notices a dead client, the client a dead session, timers fire and SIGKILL ends
a child; a child need not end otherwise, nor a caller abort.

## 4. Proofs

TLAPS checks the theorems below for every value of the constants that the named
assumptions allow: any set of operations, program, number of attempts, crashes,
calls and cancellations, any endings and any behaviour of the ports. Of most
modules the theorems have one shape: an inductive invariant that `Init` implies and
every action keeps (a step per action, lemmas where several actions share an
argument), and the properties of the runs as consequences of it.

What the assumptions on constants say, and why the code justifies them:

- `KindsAssumption`: an operation is of one kind, and a call is none of the other
  things a wait may hear. Ids of operations are derived from their kind and key.
- `OnceAssumption`, `ProgramAssumption`: the program names every operation at one
  place. An operation is identified by the key of its kernel command, so a second
  place would be another operation.
- `MaxAttemptsAssumption` and the bounds on crashes, starts and versions: they are
  natural numbers. The sets of port answers and endings are subsets of those the
  port can give. `CallsAssumption`: a process makes finitely many public calls.

### Script lanes (`ScriptLaneProofs`, `ScriptLaneRefinement`)

`LaneTypeCorrect`, `LaneAtMostOneExecution`, `LaneCancelledNeverExecutes`,
`LaneSerialAttempts`, `LaneObservationsAreTrue` and `LaneOneReportPerReceipt` follow
from `LaneInvariant`. None of these is inductive alone. At-most-one-execution
depends on what the child knows when it may execute: the intent's baseline equals
the recovery count only if no crash came after the intent, hence no execution was
accepted under it; and a fresh intent follows only proof that nothing was accepted.
The inductive invariant `Inv` is

- `TypeOK`;
- `AttemptInv`: per attempt, accepted at most once and only after dispatch won,
  absent exactly while never accepted, untouched while the lane has not reached it,
  and a sealed retryable failure once the lane has left it behind;
- `LaneInv`: per operation and location, what holds there: the baseline is not
  beyond the recovery count, nothing was accepted wherever the lane may still
  execute (the heart of the argument), dispatch won at the provider step, the
  resolution at the relay is true, and a retry follows a retryable failure only;
- `ObservationsAreTrue` and `OneReportPerReceipt`.

Steps of others leave a lane's invariant alone because winners and sealed results
never change (`LaneStands`); sends are covered by `InvPost`, the answers of the
provider by `InvResolve`.

`LanesImplementTheContract`: `ScriptLane!Spec` implements `AttemptContract`, that is,
the initial states map to initial states and every step of a child, the provider,
the most general root or a crash to a step of the contract or to a stutter. It
adds to `Inv` that a lane goes on to another attempt only after it relayed the
outcome of the one before (`RelayInv`); the root acts only on attempts it was told of
(`KnownToRoot`), so its claims and reports respect that order as well.

### A whole run (`RunHostProofs`, `RunOutcomeProofs`, `RunSettlementProofs`)

`HostInvariant` establishes `HostInv`, from which `TypeCorrect` and the rest follow:

- `LanesInv`, the invariant of the lanes, which holds in a run because each step of
  the run is a step of `ScriptLane!Next` or leaves the lanes alone;
- `IssueInv`: the kernel issues every operation once; what is queued was not
  dispatched, and nothing that follows an operation is issued before that operation
  settled. It is what makes a child start once, and needs `OnceAssumption`;
- `InboxInv`: the inbox holds a message once and only while its receipt is not
  taken, and the relay of a retried outcome precedes the start of the retry;
- `SubjectInv`: what is told of an operation is told after its child was started, and
  the last word about it, once received, leaves it inactive;
- `TargetInv`: the root claims only attempts it knows, and reports what became of them;
- `TellersInv`: the other children relay only what they have heard or found out.

`RunHostsScriptLanes`: the specification of the run implements `ScriptLane!Spec`
(`HostsScriptLanes`), so everything proved of lanes above holds of the script
children of a run, with the real root in the place of the most general one.

The second module adds to `HostInv`

- `AgentsInv`, the argument of the lanes for agents: nothing was launched before the
  dispatch intent, nor at the provider step while baseline and recovery count agree.
  `AgentsAreLaunchedOnce` and the truth of agent reports (`AgentsTold`) follow;
- `InteractionsInv`: a wait or gate has heard, relays and publishes only an answer
  that was accepted for it, its own timer, or the cancellation of a run that winds
  down (`WindDownInv`), and has no two answers under one key. `ResolutionsAreTrue` and
  `AnswersAreDeliveredOnce` follow;
- `JournalInv`: what is published of an attempt is what the executor, the
  arbitration or the agent says of it (`PublishedTruly`), and is published only with
  its receipt taken (`PublishedOnce`), which is why no second message changes it.
  `JournalIsTrue` and the action property `OutcomesAreFinal` follow.

The third module says what is still to come in a run. Its invariants
(`SettlementInvariant`) use those above and, the later ones, each other:

- `KernelInv`: the kernel waits for what is active and for what was settled but not
  told to it yet, each settled once, and for nothing when it ends the run. `CoverInv`
  adds that it waits for nothing else but what is queued for dispatch or publicly
  unknown: `NothingFallsOut`;
- `LastWordsInv`: a child that returned has sent the last word about its operation.
  With `SubjectInv` that word is in the inbox as long as the operation is active:
  `ActivesAreAnswered`;
- `ReportsInv`, `OrderInv`: a lane announces an attempt after the outcomes of all
  attempts before it, sends events and outcome of an attempt after its start, and
  tells nothing after a recovery; the inbox and the receipts keep that order. The
  root writes into the same inbox when it cancels, which is why the order is stated
  of messages and not of senders;
- `AttemptsInv`: an attempt that the journal lists as pending or running is of an
  active operation, an unknown one of an operation that the kernel waits for; it is
  the latest of its lane, not heard of yet, and running from its start on unless its
  cancellation is being recovered. `LiveEventsAreDrained` follows with `OrderInv`;
- `EndInv`: a wait or gate published as pending is active, but for the moment before
  its child is started. The kernel ends a run when it waits for nothing, so nothing is
  open then: `EndedRunsAreSettled`. An agent whose outcome is published has ended
  (`JournalInv`): `EndedRunsLeaveNoAgent`.

Every step of a run is covered, also those after an unknown outcome was cleared by a
sibling (`advance_around_unknown`): the five theorems hold in spite of that finding,
because an uncertain attempt keeps its operation among those the kernel waits for.

### The manager and the database

`RunEventsProofs`: `NothingIsSkippedOrRepeated`, `ReadsAreBacked`,
`LastPagesAreComplete` (an action property). The invariant relates the mark to the
stream (never beyond it) and a reader's snapshot and cursor to both.

`RunAdmissionProofs`: `PublicCallsAreHosted`, `AdmissionsAreHosted` (the same of a `createRun`, wherever it awaits),
`AdmissionsAreTrue`, `HostsAreReady` (an action property). The counter of active
calls is the cardinality of the set of active calls, hence zero only when there is
none; at most one `stop` shuts down; and each lifecycle state goes with
one state of DBOS, composition and fence. `HostsAreReady` excepts an agent beyond its
dispatch, of which it says only that it has the installed composition (see 6).

`DatabasePreparationProofs`: `SchemaCommandHoldsTheLock` and its corollary
`CommandsExclude` (two schema commands run at once only when one of the sessions was
lost),
`OutcomesAreTrue`, `FirstFailureStands` (an action property). The invariant says for
every await which of session, lock, child process and directory the call holds
there.

### Only model-checked

- All liveness properties (`EveryLaneConcludes`, `EveryRunReturns`, `CancellationEnds`,
  `AcceptedCallsResolve`, `CancellationStopsAgents`, `ClosedStreamsDeliver`,
  `StopReturns`, `CancelledCallReturns`): liveness under fairness and ENABLED are
  outside the reach of the prover.
- The runs that show a disagreement: a counterexample is what they show.

## 5. Assumptions about what is external

- DBOS: a send under a used key inserts nothing; a topic is received in insertion
  order; a receive consumes its message together with storing its result; recovery
  increments the count a workflow reads of itself; a launch that fails has not begun
  to recover workflows; children do not outlive a shutdown.
- Scripts runtime: `notFound` is answered only of an attempt never accepted; a
  sealed result is final.
- Agents port: a launched agent is known until its result is read; it is `cancelled` only
  after a request; a call may throw, answer unknown or not conform at any time
  ("doubt"). A start that answers unknown or throws has launched nothing or an agent that
  only a lookup can find.
- PostgreSQL: the advisory lock belongs to the session and ends with it, perhaps before
  the client learns of it. The schema command moves the version only up, and exits
  with 0 only at the latest one.
- Workflow start: idempotent under the workflow id; when it throws it may have
  committed, not committed, or commit later.
- Pipeline kernel: rejects the settlement of an activity it does not wait for;
  asks once for cancellation of what is pending before it ends.
- The application awaits one `start()` before it makes another; `stop()` may come at
  any time.

## 6. Findings

- `advance_around_unknown`: the sealed terminal of a sibling resets
  `recoveryPending` although another attempt is still unknown, and the kernel
  advances around it.
- `retry_start_after_settlement`: a cancellation settles an operation whose child
  then announces a retry; the root throws.
- `expired_window`: a signal wait or gate without deadline throws when its receive
  window ends, instead of waiting again; answers are accepted and resolve nothing.

Met while modelling, and kept out of what the passing runs assert:

- A cancellation handled after a recovery overwrites `recovery_required`
  (`kernel-run-workflow.ts:1095`); the root returns and the run is `cancelling` for
  ever, so `cancelRun` silently returns and `waitForTerminal` never ends.
- A provider step that throws ends the child without a word
  (`operation-workflow.ts:592`); the run stays `running`. `EveryLaneConcludes` and
  `ActiveIsAnswered` except children that threw.
- An unknown outcome, cleared by a sibling as in `advance_around_unknown`, followed by a
  cancellation: no operation is active, nothing returns the root, and it waits for ever.
  `CancellationStopsAgents` therefore excepts runs that list an uncertain attempt.
- A script child whose reconciliation left the outcome unknown relays a recovery; when
  a cancellation has meanwhile found the sealed result and settled the operation, the
  root throws over that relay (`kernel-run-workflow.ts:960`), as it does over the retry
  start of `retry_start_after_settlement`. `CancellationStopsAgents` excepts runs with
  such a relay.
- The child of an agent awaits the readiness fence in its first provider step only.
  Recovered beyond it, it cancels and polls through the port
  (`operation-workflow.ts:1036` and `1043`) while DBOS launches, although
  `docs/architecture.md:42-44` says that the fence is checked before every execute or
  reconciliation call. `PollAgent` models it; `HostIsReachedWhenReady` does not claim
  the sentence of the document: it excepts such agents from the readiness of the manager
  and says of them only that they reach the composition that is installed.
- `waitForTerminal` reads the attempts under recovery after the status
  (`run-manager.ts:829`), so the two need not belong together.
- `listRuns` pages by offset, newest first (`run-manager.ts:1169`): a run created between
  two pages shifts them, and one run is listed twice.
- When `writeFile` fails, the directory that `mkdtemp` made stays
  (`dbos-schema-command.ts:119`).

`run_siblings` asserts no return and `run_wind_down` has ports that know, because of
the unknown outcomes above.

## 7. Not modelled

- `recoverUnavailableAgent` (`kernel-run-workflow.ts:1186`): a host without an agents port
  that recovers a run with agents. What a replay does there depends on how DBOS treats a
  workflow that takes other steps than the stored ones, which is not visible in this
  repository. That every call of such a port throws is covered by a port in doubt.
- A kernel command of a kind that the host cannot run, which makes the root throw
  (`kernel-run-workflow.ts:1505`).
- Admission's validation, compilation and binding checks, and the public contracts
  and errors: data and wording. That an admission may fail before anything is stored is in
  `RunAdmission`.
- `waitForTerminal`'s polling and `listRuns`: reads of published state, with no state of
  their own (their hazards are above).
- Payloads, schemas and authorization of answers: a call that fails these checks
  changes nothing and depends on nothing that changes.
- The contents of events and the order of recovery entries (see the hazard at
  `kernel-run-workflow.ts:811`).
- Kernel features other than sequence and parallel: choice, map, repeat and call
  are resolved inside the kernel and reach the host as the same commands.

## 8. Plan

Every safety invariant and action property that a passing run checks is a theorem.
What is left of them is to state the promise of a whole run as an abstract
specification of its own (dispatch, publish once and truthfully, end when settled) and
to show that `RunHost!Spec` implements it, as `LanesImplementTheContract` does for the
lanes; `JournalInv` and `SettlementInv` are the invariants that this needs. The model can
grow by `waitForTerminal`'s polling, `listRuns` and the remaining hazards without a
property; section 7 says what they are and `PROJECT.json` where.
