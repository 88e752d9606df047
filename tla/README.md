# Agentic PRD Architect: verification project

TLA+ models of the run engine of this repository, TLC configurations that check
them on small instances, and TLAPS proofs of what matters most for every
instance.  Paths below are relative to the repository.

## 1. The system

A *run* turns a product idea into a requirements document.  The backend is one
Python process with one asyncio event loop; the browser client is a React hook
over a reducer.

| Component | Source | State it keeps | Operations |
|---|---|---|---|
| Run status machine | `backend/state_machine.py` | none (a table) | `can_transition`, `require_transition` |
| Agent workflow | `backend/workflow.py` | the LangGraph superstep, one task per node | six nodes: generator, three reviewers, aggregator, optimizer; `_stream_generation`, `_validated_structured`, `_await_provider` |
| Run control | `backend/run_manager.py` | the run's snapshot (status, iteration, versions, reviews, plan, timings), cancel and resume signals, clocks | `commit`, `set_stage`, `mark_node`, `request_pause`, `enter_paused`, `resume_run`, `cancel_run`, `fail_run`, `record_timing`, `record_usage` |
| Run registry | `backend/run_manager.py`, `backend/run_store.py` | all runs, their tasks, signals and bindings | `create_run`, `make_room`, `cleanup_once`, `shutdown`, rehydration |
| Snapshot persistence | `backend/run_store.py` | table `runs` | `_persist`, `_load_snapshots` |
| Event log | `backend/event_store.py`, SSE in `backend/main.py` | hot deque, sequence counters, conditions, table `run_events` | `append`, `replay`, `subscribe`, `wake`, `remove_run` |
| Client hook | `src/hooks/useAgentRun.ts` | session number, EventSource, pending control | `connect`, `hydrate`, `createRun`, `selectRun`, `runControl`, `retryConnection` |
| Client reducer | `src/lib/runReducer.ts` | view state of one run | `SNAPSHOT_LOADED`, `EVENT_RECEIVED`, `STATUS_UPDATED`, ... |
| Quality gate, document validation | `backend/schemas.py`, `backend/prd_document.py` | none | rounded mean, severity counts, finish-reason classes |
| Views | `src/lib/outcomeSummary.ts`, `failureNotice.ts`, `trace.ts`, `src/components/*.tsx` | none | what each panel shows of the view state, which buttons and tabs there are |
| Version diff | `src/lib/diff.ts`, `readingDiff.ts`, `src/components/VersionDiff.tsx` | which of two modes is shown | pure functions from two documents to rows, hunks, blocks and sections |
| Providers | `backend/providers/` | an HTTP client | one streamed and several structured calls |

How they interact.  An HTTP request calls a `RunManager` handler, which changes
the snapshot under the run's lock (`commit`), appends an event to the log and
saves the snapshot.  `create_run` starts the workflow as a task; its nodes read
copies of the snapshot, call the provider, and commit what it answers.  User
requests and nodes meet only in the snapshot's status and in two
`asyncio.Event`s: the cancel signal and the resume signal.  The client loads a
snapshot, subscribes to the events behind it and folds them into its view; when
the stream breaks it starts again from a fresh snapshot.

What is hard here:

- *Interleaving.* Three reviewers run in parallel; a cancel, pause or resume can
  be handled at every suspension of every node, also between the answer of a
  provider and its commit.
- *Stale reads.* Nodes decide on a snapshot copied before an `await`: the
  optimizer's override, the stored reviews, the best version, the pending plan.
- *Timeouts and retries.* A failed generation attempt has streamed half a
  document; the second attempt starts over it, with a deadline of its own and
  one for the run.
- *Pausing.* Only between aggregator and optimizer, and it may be requested,
  released and requested again around every step there.
- *Ending.* Four terminal statuses, reached from the gate, from an exception in
  any node, or from a request; exactly one of them must win, and a generator that
  holds a failed attempt goes on writing behind it.
- *Crashes.* The event row and the snapshot row are two transactions, and the
  process may end between them; delta events consume sequence numbers and move
  `updated_at`, and neither is stored.
- *Two computations of one view.* Everything a page shows is computed once from
  events as they arrive and once from a snapshot after a reload.
- *Late answers.* A page asks for snapshots, creates and controls runs with
  requests that are answered in any order, while its reader goes elsewhere.
- *Limits.* Finished runs make room for new ones and expire, while the task of a
  cancelled run may still be writing and any of the deletions may fail.

Properties that make each part correct:

- workflow and run control: one version per iteration, each scored once; the
  best version pointer; current reviews; text of one attempt only; the plan
  belongs to the iteration; a pause only at the safe point; a run ends with its
  task; nothing but telemetry behind the end; cancelled tasks stop;
- registry: never more active runs than allowed, no active run evicted, no
  resource of an evicted run left, no task without its resources;
- event log: sequence numbers ordered and unique, what a subscriber sees is a
  prefix without duplicates, the terminal event is delivered, restart loses
  nothing durable;
- client: the view equals the fold of the log, and of the snapshot; no event or
  answer of another run or an earlier session is shown; one live source at a
  time; a page is never left waiting for nothing; an ended run stays ended;
- views: what they count and announce is what the server counted;
- documents: a comparison is a patch from one to the other, and a smallest one.

## 2. Modules

| Module | Models |
|---|---|
| `RunStatus` | the status sets and the transition table; constants only |
| `RevisionLoop` | abstract specification: what a run promises, without nodes, attempts or signals |
| `AgentWorkflow` | the nodes of `workflow.py` over the per-run half of `run_manager.py`, with the users' requests and the run's clock |
| `AgentWorkflowInvariant` | its inductive invariant `WorkflowInv`, in named parts: `IInv` and `HandoverInv` |
| `AgentWorkflowProofs` | proof that `IInv` is an invariant, and what follows from it |
| `AgentWorkflowHandover` | proof that `HandoverInv` is one, on top of `IInv`, and what follows from it |
| `AgentWorkflowRefinement` | proof that `AgentWorkflow` implements `RevisionLoop` |
| `MCAgentWorkflow` | the instances TLC checks |
| `EventLog` | one run's event stream: commits, buffer, rows, snapshot row, subscriptions, the browser's `EventSource`, crash and restart |
| `EventLogInvariant`, `EventLogProofs` | its inductive invariant `LogInv`; the proofs |
| `MCEventLog` | the instances TLC checks |
| `RunTypes` | the wire contract of `types.ts` and the normalisation of `contracts.ts` |
| `ErrorMessages` | the table of `errorMessages.ts`: which codes have a sentence of their own |
| `RunReducer` | `runReducer.ts`: one operator per action and per kind of event; constant level |
| `RunViews` | the components and the view helpers of `src/lib` as functions of the view; constant level |
| `RunServer` | the data one run writes: its snapshot and the payloads of its events |
| `RunProjection`, `MCRunProjection` | `RunServer`, a stream, and a browser with `RunReducer` and `RunViews` |
| `RunProjectionInvariant`, `RunProjectionProofs` | its inductive invariant `ProjectionInv`; the proofs |
| `AgentClient`, `MCAgentClient` | `useAgentRun.ts` over `RunReducer`, with requests, sources and a reader who leaves |
| `AgentClientInvariant`, `AgentClientProofs` | its inductive invariant `ClientInv`; the proofs |
| `LineDiff`, `ReadingDiff` | `diff.ts` and `readingDiff.ts`; constant level |
| `VersionDiff`, `MCVersionDiff` | the 对比 tab over both, and what a comparison must satisfy |
| `RunRegistry`, `MCRunRegistry` | which runs there are, in memory and in the database: creation, eviction, expiry, shutdown, restart |
| `RunRegistryInvariant`, `RunRegistryProofs` | its inductive invariant `RegistryInv`; the proofs |
| `Selection`, `NaturalSets` | some elements of a sequence by their positions; lemmas about sets of naturals and about these, which four of the proofs share |

### AgentWorkflow and the code

*Granularity.* The locks of the manager are held only over code that never
suspends (SQLite calls are synchronous), so a request handler is one step, and
so is the stretch of a node between two points where its task really yields.
`pc[n]` says at which of those points node `n` stands:

| `pc` | in the code |
|---|---|
| `idle` | not part of the current superstep |
| `ready` | scheduled by LangGraph, first line not run yet |
| `call` | in `asyncio.wait` of `_await_provider`, on the provider or the cancel signal |
| `settled` | `asyncio.wait` is back, the task is in the `gather` of the `finally` clause; `answer[n]` is what it will return or raise |
| `parked`, `parkedAgain` | in `wait_until_resumed_or_cancelled`; the optimizer has two such waits |
| `done`, `raised` | the node has returned, or thrown `answer[n]` out of the graph |

`settled` matters: a cancel handled there comes after the answer and before the
commit, and the node notices it only if it checks again.

*Variables and fields.* `status`, `iteration`, `versions`, `best`, `reviews`,
`plan`, `override`, `nodeStatus`, `activeNode` are the snapshot's fields.  Texts
are abstracted to what they are about: `reviews[r]` is the version a stored
review judges, `plan` the version a pending plan was made from, `draft` the set
of `<<version, attempt>>` pairs whose text is in `current_prd`.  `override` is one of
`Overrides` or `None`: a second resume replaces what the first one said, by another
override or by none, and `overrideRead` is the one the optimizer's call was made with.  `timings` is
the set of `<<node, version, attempt>>` entries.  `tail` is the set of event
types logged behind the terminal event; what is logged before it is not needed
by any property here.  `expired` says that `remaining_run_seconds` is 0.

*Steps that pass through a status.* `cancel_run` sets `CANCEL_REQUESTED` and
`CANCELLED` without suspending in between, and the aggregator sets
`AGGREGATING` and its outcome likewise; both are one step, and
`StatusMovesAreLegal` checks the two halves against the table.

*Actions.*

| Action | Code |
|---|---|
| `StartRun`, `Superstep`, `Unwind` | `AgentWorkflow.run`, `_run_workflow`, the compiled graph |
| `BeginGenerator`, `ResumeChunk`, `ResumeFailedAttempt`, `ResumeRejectedStream`, `ResumeStreamTooLate`, `FinishGeneration` | `_generator_node`, `_stream_generation`, `_begin_stream`, `_commit_delta` |
| `BeginReview`, `FinishReview` | `_reviewer_node` |
| `RetryCall`, `RepairAnswer`, `Throw` | `_validated_structured` |
| `Aggregate`, `WakeAggregator` | `_aggregator_node` with `enter_paused` |
| `BeginOptimizer`, `WakeOptimizer`, `WakeOptimizerAgain`, `FinishPlan` | `_optimizer_node` |
| `Settle` | `asyncio.wait` in `_await_provider` returning |
| `Refuse`, `RefuseWoken` | `_check_cancel` at the start of a node and behind a wait |
| `RequestPause`, `ResumeRun`, `CancelRun` | the control endpoints |
| `SpendBudget` | `active_elapsed` reaching the run's limit |

*External.* LangGraph is modelled from its use: a superstep runs the nodes of
one wave, the next starts when all have returned, and an exception cancels the
siblings before it leaves `ainvoke`.  A sibling may still take a step before
that.  The provider is modelled by its answers; it is assumed to react to the
cancellation of its task, because the `gather` waits for it without a timeout.

### EventLog and the code

`AgentWorkflow` says which commits happen; `EventLog` says what becomes of them.
It keeps one run and tells events apart only as far as delivery does: a `delta`
is not persisted, the `end` event is the terminal one, every other event is
`durable`.  Events are their sequence numbers.

*Variables.* `hot` is the deque and `counter` the entry of `_sequences`; `rows`
is `run_events`; `run` is the snapshot in memory and `saved` its row in `runs`,
each a status (active, ended, interrupted) and `latest_event_sequence`.
`server`, `cursor`, `pending` are the program point and the locals of
`EventStore.subscribe`, one per client; `wire` is what the response has sent and
the browser has not handled.  `conn`, `errors`, `after`, `lastId` are the
`EventSource` and the closure of `connect` in `useAgentRun.ts`; `got` is
bookkeeping for the properties, as are `endAt` and the three counters.

*Granularity.* Neither the run's lock nor the stream's condition is held across a
suspension, and taking a free asyncio lock does not suspend (Python 3.13,
`README.md:64`).  For everybody in the process a commit, and the stretch of `subscribe` from the top of its loop
to `condition.wait()`, is therefore one step; the second replay under the
condition cannot find more than the first.  What does interleave is the
notification, the heartbeat timer and the task that resumes: `wait`, `woken` and
`late` are separate places for that reason.

| Action | Code |
|---|---|
| `Commit`, `CommitQuietly` | `RunManager.commit` and `transition` with `SQLiteEventStore.append` and `save_unlocked`; without an event |
| `InsertFails`, `SaveFails` | the same when the first or the second of the two SQLite writes raises |
| `CrashInCommit` | the end of the process between the two transactions of a commit: the row is there, the snapshot is not |
| `Shutdown`, `Crash`, `Restart` | `RunManager.shutdown`; the end of the process; `_load_snapshots`, `_adopt_retained_runs`, `_warm_cache` |
| `Arrive`, `Yield`, `Resume`, `Timeout`, `Heartbeat` | the steps of `EventStore.subscribe` |
| `Hydrate`, `Recover` | `hydrate`; the recovery in `source.onerror` |
| `Open`, `OpenFails`, `StreamOver`, `Drop`, `Receive` | the `/events` endpoint and the handlers of `connect`; what the browser does between them |

Only the database tells a commit from one that was cut in two, so the crash between
its transactions (`event_store.py:247-258`, `run_manager.py:391-405`) is an action and
no fault: `faults` counts writes that raise in a process that goes on.  A run whose
terminal event was stored and whose snapshot was not is found unfinished by the restart
and comes back as an interrupted one; a client that starts from there is still sent
the end, because the snapshot is older than it (`DatabaseIsCoherent`, third part).
The browser is modelled from its use: it reconnects when a response ends or a
connection fails, sends `Last-Event-ID`, and gives up on an error status.

### RunReducer, RunServer, RunProjection and the code

`AgentWorkflow` has the control of a run without its data; `RunServer` has the
data, with the control reduced to the order of the nodes' stretches.  A provider that
lets a node down is in it as far as it leaves something behind: a first attempt that
fails resets the text (`RetryGeneration`), a second one records what it has spent
before the run fails (`GiveUp`, phase `"failing"`).  A cancel does not stop a generator
that holds a failed attempt: in phase `"leaving"` it may still record usage and
reset the text, behind the terminal event (`workflow.py:250-258,275-297`; `commit` does
not ask for the status), which a page that has read the stream to its end never sees.
It writes
the `RunSnapshot` field by field and gives every event the payload the node gives
it, because the browser reads both.  `RunReducer` is the reducer, case by case;
`live` is the view of the browser.  `stream` holds the logged events that have
not arrived.  A text is the sequence of its chunks `<<version, attempt, number>>`
and the completion marker.  Who wrote a chunk is for the properties only: where the
code compares two texts, the model compares what they read as, `Reads(text)`, a
constant operator that may send texts of different versions and attempts to the same
string; a finding is its severity, or one of the forms an old
database holds (a bare string, an unknown severity, an empty one); a score is a
natural number and the overall score the sum (the mean and its rounding are not
modelled, so a threshold is in units of the sum).

| Action | Code |
|---|---|
| `BeginGenerator` ... `FinishOptimizer`, `PauseRun`, `ResumeRun`, `CancelRun`, `FailRun` | the nodes and the requests, all commits of a stretch in one step |
| `RetryGeneration`, `GiveUp` | `_generator_node` with a first and a second attempt that failed, also behind a cancel |
| `Deliver` | a listener of `connect` dispatching `EVENT_RECEIVED` |
| `Open`, `Recover` | `RUN_SELECTED` and `SNAPSHOT_LOADED`; `SNAPSHOT_LOADED` over the view there is |
| `Select` | `VERSION_SELECTED` |

`ReloadAgrees` compares the page that has been sent everything with one opened now:
first the facts of the view state, then, for every version the reader may pick,
what `AgentDashboard.tsx` hands to every panel.  It holds in every run, of any model
and any comparison of texts, and names the three states in which the code lets the
two differ (`Repeats`, `PlansAreNumbered`, `MissedReset`), each only in what it
touches: the text, the plans, the text again.

### AgentClient and the code

Each `await` of the hook is a *call*: it is in `calls` from the request to the
moment its continuation has run, with the session in which it was made and, once
the server answered, the answer.  An `EventSource` is an entry of `sources`; `ref`
is `sourceRef`, `session` is `sessionRef`.  `log` is per run the events it has sent;
snapshots and answers follow from it.  A closed source keeps what was on its way
(`Buffering`), because a browser may have queued messages behind the close.

| Action | Code |
|---|---|
| `selectRun`, `createRun`, `runControl`, `retryConnection`, `newRun` | the functions the hook returns, where the page offers them |
| `Reload` | leaving the page and mounting it again at the address it has |
| `onopen`, `Message`, `LateMessage`, `onerror` | the handlers of `connect`; `onerror(i, TRUE)` is a source the browser gives up on |
| `AnswerGetRun`, ..., `AnswerCancel`, `LoseCall` | the server handling a request; the request, or its answer, is lost |
| `SnapshotAnswered`, `hydrateFailed`, `recoverFailed`, `createRunAnswered`, `createRunFailed`, `runControlAnswered` | what stands behind the `await` |
| `Write`, `Park`, `Fail` | the run going on by itself |

### LineDiff, ReadingDiff, VersionDiff and the code

A line is a model value with a shape (`Shape`, `HeadingLevel`), because the code
asks no more of it than whether it equals another and which pattern it matches.
Both comparisons are made when the tab is given its documents (`useMemo`); `setMode`
chooses which of them is shown.
The two tables of lengths, the walk along them, the hunks, the gaps and the
folding of sections are the code's.  The reference definition of a longest common
subsequence (`Shared`) enumerates all subsequences of both documents.

### RunRegistry and the code

`runs` and `rows` are kept in the order of `updated_at`, with one bit per run:
over or not.  The two orders differ: a delta moves a run to the end of `runs` and is
written nowhere (`CommitDelta`), and eviction follows the one, a restart the other.
`streams`, `held` and `tasks` are the dictionaries of the event store
and the manager, `working` the coroutines that have not ended: a cancelled or
evicted run's goes on until its provider call returns.  `Removals` says how far a
deletion gets when a write fails; `cleaner` is whether `_cleanup_loop` still runs.

| Action | Code |
|---|---|
| `CreateRun`, `CreateRefused`, `CreateFailed`, `StoreRefuses` | `create_run` with `make_room` and `start_run`, and the three ways it ends without a run |
| `Cancel`, `Commit`, `CommitDelta`, `Finish`, `TaskEnds` | `cancel_run`; `commit` from the task; one of a `PRD_DELTA`, which skips both writes; the last one; `_run_workflow` ending |
| `Age`, `Cleanup` | time; `cleanup_once` |
| `Shutdown`, `Close`, `Crash`, `Restart` | `shutdown`; the end of the process; `_load_snapshots`, the trimming, `_adopt_retained_runs` |
| `CrashInCommit`, `CrashInRemoval` | the end of the process between the writes of a commit, or of an eviction or a cleanup |

*Definitions marked "faulty"* stand before the definition they are a wrong
version of.  They are used by nothing; each shows that a property would notice
the mistake.

## 3. What is checked

| Run | Instance | Shows |
|---|---|---|
| `workflow_safety` | 2 reviewers (symmetric), 2 iterations, scores 60 and 90 around the threshold 85, two overrides (symmetric), all three classes of provider failure | safety invariants, and `WorkflowInv`, the invariant the proofs use, which has the type invariant; 0.8 million states |
| `workflow_refines_loop` | 1 reviewer, 3 iterations, scores 60, 70, 90, retryable errors and crashes | implements `RevisionLoop`; legal status moves; no late result; best version |
| `workflow_live` | 1 reviewer, 2 iterations, `FairSpec` | a cancelled run's task ends; a run ends or waits for its user |
| `eventlog_delivery` | 2 clients (symmetric), 3 events over a buffer of 2, a wire of 2, one failing write, one lost connection, one restart, a crash anywhere | every durable event once and in order; nobody sleeps on news; the tables agree as far as two transactions can; `LogInv`; 2.1 million states |
| `eventlog_live` | 1 client, 3 events, buffer of 1, `FairSpec` | a durable terminal event reaches every client that follows |
| `projection` | 1 reviewer, 2 versions; a reader with a pin, a run that is paused, an old server, a run of two chunks; every text of a length reads the same; one reload or recovery | live page and reloaded page agree; drafts are of one attempt; failure notices are right; pins last; 0.9 million states |
| `projection_reviewers` | 3 reviewers, 1 version (passing, blocked, short of the target, old server) or 2; a model that repeats its texts (`Reads`) and numbers each plan by the version it leads to (`PlanOffsets` 1); one reload or recovery | the gate and every count are the server's; `ProjectionInv`, the invariant the proofs use, which has the types; 0.9 million states |
| `client` | 2 runs, 2 clicks, 2 faults, 2 pieces of text | the page is a prefix of its run, over one connection, never older, never stranded; `ClientInv`; 1.4 million states |
| `client_live` | 2 runs, 2 clicks, 1 fault, 1 piece of text, `LiveSpec` | the end of a run is shown, or a retry is offered |
| `client_terminal` | 1 pause request, no fault | disagreement 1 of section 5 |
| `documents` | 15108 pairs of documents, each in both modes | both comparisons are exact and smallest |
| `registry` | 3 runs, 2 at a time, limit 1 or 2 and changing at a restart, one failing write, two restarts, deltas, a crash anywhere, `LiveSpec` | bounds, nothing left behind, nothing unfinished lost, the expired go; `RegistryInv` |

*Why the bounds are enough, AgentWorkflow.* Two reviewers are the least that interleave and
overwrite each other's `activeNode`; they are interchangeable in the code (the
same factory makes all three), hence the symmetry set, which is used in safety
runs only (overrides are stored and passed on, never looked into).  Two iterations give one revision, which is where plan, reviews,
override and pause matter; the best version needs three scored versions to be
tied, beaten and kept, hence three iterations and three scores in that run.
Two overrides are the least of which one can replace the other.
`attempt` is bounded by the code (two attempts and one repair).  Repeated pauses
and resumes are not bounded at all: they return to earlier states.  No state
constraint is used.

*Why the bounds are enough, EventLog.* With three events over a buffer of two a
reader can be inside the buffer, at its edge, and behind it while it is yielding,
and the first event can be missing from the rows (the only way to
`EventExpiredError`).  Clients share nothing but `notify_all`; two of them are
there for that.  One failing write, one lost connection and one restart can
fall between any two other steps; three errors in a row, which start a recovery,
come about while the server is down, where they are not bounded by
`MaxDrops`.

*Why the bounds are enough, RunProjection.* Each setup is a whole run.  Two versions
give one plan, one comparison and one pin that can be moved off; one chunk and the
marker give a draft with text, without, and complete; two attempts are the code's;
one setup has two chunks (`chunks`), so that a page can be loaded when a text so far
reads like the last version and see it grow away from it.
One load (`Loads`) may come at every point, and a second one would start from what
the first left, which is compared with a fresh page in every state.  `Lag` 0 means
that the server goes on when the browser has everything, yet a stretch logs up to
five events, between which the browser may load; a later server step changes
nothing of what earlier events do.  In both runs `Reads` forgets the version and
the attempt of a chunk, so that texts of one length are equal, which is the model that
gives every comparison of texts its worst case.  In `projection` `PlanOffsets` is `{0}`;
`projection_reviewers` has nothing but a model that misnumbers its plans, and one run
in it has a second version, and so a plan to misnumber.  Its thresholds 27 and 19 lie
at and above the sums of three scores, so a gate that is off by one at the threshold is
noticed there (`AgentWorkflow`'s `LoopSpec` asks of a passed gate only that the score
suffices).
`TraceLimit` 0 leaves the list of events out
of the view.

*Why the bounds are enough, AgentClient.* Two runs are the least between which an
answer can be misplaced.  Two clicks give every pair of a move and a counter-move
(select and go back, create and leave, control and leave, retry and reload); two
faults give a lost answer with a broken source, and with `MAX_NATIVE_RETRIES` 2 the
errors in a row that start a recovery.  Of the closed sources only the last one
still delivers: older ones are told from the current one by the same two tests.

*Why the bounds are enough, documents.* All pairs of up to three and up to four
lines over a heading and two texts meet every overlap of common beginning and
common end; a document of seven lines with two edits has two hunks and a marker
between them (`CONTEXT_LINES` 1, `MIN_COLLAPSE_LINES` 2); documents of up to three
lines of every shape with one edit meet every kind of block.  `MAX_LCS_CELLS` 20
puts documents on both sides of the limit.

*Why the bounds are enough, RunRegistry.* Eviction needs one run more than are kept,
capacity two at a time, and a limit below the concurrency is a configuration the
settings allow.  With two restarts a run is interrupted by the first and trimmed
by the second.

*Deadlock* is checked for `AgentWorkflow`.  In `EventLog` the server may stay down
for good and the clients be closed, in `AgentClient`, `RunProjection` and
`RunRegistry` the bounds are spent and everything has ended, so the check is off
there.  A run of `AgentWorkflow` that is over may stutter (`Ended`), and nothing
else may stop: a paused run can always be resumed or cancelled.

*Fairness.* `workflow_live`:  `WF(GraphStep)` and `WF(NodeStep)`: the event
loop runs every callback that is ready, and a provider call is answered, times
out (`asyncio.wait` has a timeout) or is cancelled.  `WF(SpendBudget)`: the clock
runs while the run is not paused.  Users need not do anything, so nothing is
assumed of pause, resume and cancel.  The generator's stream may go on for ever
as far as the model knows; that it ends is due to the deadline, which the two
mutants of this run take away.  `eventlog_live`: weak
fairness of each subscription (a heartbeat timer is always set) and of each
client (the browser retries, the listener runs).  Nothing is assumed of commits,
faults, restarts and of the user who may press retry.  `client_live`: the browser's
event loop, that is, a request that was made settles, and a source that is open
or opening gets on.  Nothing is assumed of the run, of the reader, and of faults.
`registry`: `WF(Cleanup)`, the loop's `sleep`; nothing is assumed of tasks, so
`ExpiredGoes` holds even of a run whose task never ends.

## 4. What is proved

With TLAPS, for every value of the constants that the assumptions of the modules
allow: every set of reviewers, budget, scores and threshold; every buffer size,
number of clients, events and faults; every number of runs, limit, failing write and
restart; every number of clicks, pieces of text and lost requests; every number of
versions, chunks, pauses and reloads, and findings of any age.  Each of the
five components has an inductive invariant of its own, in a module between the
component and its proofs; TLC checks it on the component's run as well, in place of
the parts of it that are no properties of their own (the types, the numbering of
versions).

| Theorem | States |
|---|---|
| **`AgentWorkflowProofs`** | |
| `Invariance` | `Spec => []IInv` |
| `TypeCorrect` | `Spec => []TypeOK` |
| `ConsecutiveVersions` | `Spec => []VersionsAreConsecutive` |
| `BestVersion` | `Spec => []BestIsEarliestMaximum` |
| `CurrentReviews` | `Spec => []ReviewsAreCurrent` |
| `SafePause` | `Spec => []PausedOnlyAtSafePoint` |
| `NoZombies` | `Spec => []NoZombieRun` |
| `LateResults` | `Spec => NoLateResults` |
| **`AgentWorkflowHandover`** | |
| `HandoverInvariance`, `WorkflowInvariance` | `Spec => []HandoverInv`, `Spec => []WorkflowInv` |
| `OneText` | `Spec => []DraftIsOneText` |
| `PlanReachesGenerator` | `Spec => []PlanFitsIteration` |
| `OverrideIsUsed` | `Spec => []OverrideReachesPlan` |
| `BlamedNodeRuns` | `Spec => []ActiveNodeRuns` |
| `LegalMoves` | `Spec => StatusMovesAreLegal`, the transition table |
| **`AgentWorkflowRefinement`** | |
| `Refinement` | `Spec => LoopSpec`, the abstract revision loop |
| **`EventLogProofs`** | |
| `LogInvariance` | `Spec => []LogInv` |
| `LogTypeCorrect` | `Spec => []TypeOK` |
| `InOrder` | `Spec => []DeliveredInOrder` |
| `NoneSkipped` | `Spec => []NothingSkipped` |
| `Coherent` | `Spec => []DatabaseIsCoherent` |
| `NoLostWakeUp` | `Spec => []NobodySleepsOnNews` |
| **`RunRegistryProofs`** | |
| `RegistryInvariance` | `Spec => []RegistryInv` |
| `CapacityExact` | `Spec => []CapacityIsExact` |
| `NoneLeftBehind` | `Spec => []NothingIsLeftBehind` |
| `NoneLost` | `Spec => UnfinishedIsKept` |
| **`AgentClientProofs`** | |
| `ClientInvariance` | `Spec => []ClientInv` |
| `ConnectionTrue` | `Spec => []ConnectionIsTrue` |
| `PageIsPrefix` | `Spec => []PageIsAPrefix` |
| `NotStranded` | `Spec => []NeverStranded` |
| `NeverOlder` | `Spec => NoRewind` |
| **`RunProjectionProofs`** | |
| `ProjectionInvariant` | `Spec => []ProjectionInv` |
| `TypesCorrect` | `Spec => []TypeOK` |
| `ReloadChangesNothing` | `Spec => []ReloadAgrees` |
| `DraftsOfOneAttempt` | `Spec => []DraftIsOneAttempt` |
| `FailuresHonest` | `Spec => []FailureIsHonest` |
| `GateHonest` | `Spec => []GateIsHonest` |
| `FindingsAgree` | `Spec => []ViewsAgreeOnFindings` |
| `PinRespected` | `Spec => PinIsRespected` |

*Argument, AgentWorkflow.* None of the safety properties is inductive: what keeps
them true is where each task stands when a request comes in.  `IInv` therefore ties
every snapshot field to the superstep and the places of the tasks: only the nodes of
the current wave have a task (`TasksFitStage`); cancellation is thrown only once
the signal is up (`AnswersFitTasks`); versions, scores and reviews are complete
exactly when their stage is over (`VersionsFitStage`, `ScoresFitStage`,
`ReviewsFitStage`); the optimizer runs only with budget left
(`BudgetFitsStage`); the status is terminal only through a cancel, the last
evaluation, or the end of the task (`StatusFitsStage`); a paused run has a
parked node whose signal is down (`PauseFitsStage`).  `AgentWorkflowProofs` has one
lemma per action and in it one step per part of `IInv` the action touches.
`LateResults` needs `StatusFitsStage`: an ended run has either its cancel signal
up, so that every check raises, or no node left that could commit.

`HandoverInv` is what one node leaves for the next, and is inductive on top of
`IInv`: between two attempts the draft may still be the failed attempt's, but from the
first chunk of an attempt on it is that attempt's alone (`DraftFitsStage`); a plan is
there from the end of the optimizer to the end of the next generator, and was made
from the version before (`PlanFitsStage`); which statuses a run can have at each
place of its task (`StatusFitsPlace`).  `OverrideReachesPlan` is the part that
resists every order of requests: while the optimizer's call is under way the run is
not paused, so `resume_run` refuses and `override` stays the one that was read.  What an
earlier resume said is not in it: a second pause and a resume before the optimizer
starts replace it, by `None` too (section 5).  `StatusFitsPlace` makes `LegalMoves`: of the
status a handler finds, only those it may legally move from are left, with a pause
request or an end possible anywhere.

`AgentWorkflowRefinement` maps `FinishGeneration` to `Write`, `Aggregate` to
`Judge`, `FinishPlan` to `Revise`, parking to `Judge` or `Hold`, `ResumeRun` to
`Release`, `CancelRun` to `Cancel`, `Unwind` to `Fail`, and everything else to a
stutter.

*Argument, EventLog.* A client misses nothing because three stretches of the log
meet without a gap: what it has handled (`got`, up to `lastId`), what is on its wire,
and what its subscription is about to yield (`pending`, behind `cursor`).
`StreamHasNoGap` says so of every stored row, `WireIsOrdered` that each stretch goes
up, and `ServersFitConnections` that the cursor is where the wire ends, that a
subscription has something pending exactly while it yields, and that neither outlives
the connection or the process.  What a new subscription replays continues the last
one only because the buffer is always the newest end of the log
(`BufferIsTheNewest`, lemma `ReplayHasNoGap`), which survives a commit because
numbers only go up (`CounterIsAhead`).  A lost number (an insert that failed, a delta
that was never stored) is no gap: the parts speak of rows.  `CounterIsAhead` bounds
what clients hold only until a restart, since the counter then starts again from the
highest row while a client may remember a delta behind it.  `DatabaseIsCoherent` counts:
a commit adds a row and brings the snapshot up to it, a write that raises or a crash
between the two leaves one row more ahead of it, and the restart reads what is there.
What is stored as ended without its event can only come from a failed insert, since the
event is written first; `StoreFollows` adds that memory and table have one status as long
as no write fails.

*Argument, RunRegistry.* `RunsAreDistinct` and `NextIsNew` make a run's position
unique and a new run new everywhere; `NothingOutlivesProcess` empties memory with the
process; memory and table have the same runs in orders of their own, since a delta
moves a run in the first only (the invariant compares them as sets, run by run);
`UnfinishedHasRow` holds whatever writes fail, because a run is stored
before its task starts, and gives back at a restart what a crash took.  Eviction is
sound by arithmetic: the finished runs are all but the unfinished ones, so the
oldest finished ones make room for as many as exceed the limit, or there are not
enough of them and the request is refused (`MakeRoom`).  The restart is the long
case: the rows of interrupted runs are written anew in the opposite order, then
everything above the limit is trimmed (`LoadedIs`, `TrimmedIs`).

*Argument, AgentClient.* The page keeps itself together with two tests, the session
number behind each `await` and the identity of the source in each listener, and
`ClientInv` says what they buy.  `OneRequestIsWanted`: of all requests under way at
most one was made by this session, for the run on the screen, and none while a source
is current; a snapshot it was answered with is not older than the page.  `OneLiveSource`
and `ConnectionIsShown` are the same for sources.  `AnswersHold`: what an answer says
was so when it was given and only grows, whoever receives it however late.
`PageKeepsUp`: the source's cursor is the page's own count, so an event is neither
behind it nor ahead of it, and an end on the page is the last event of the log.
`NeverOlder` then follows step by step: a count changes by an event of the current
source, by the one wanted snapshot, or with the run.  `PageIsAPrefix` and `PageKeepsUp` hold
until a run is cancelled; see section 5 for what happens then.

*Argument, RunProjection.* A page that is behind its events agrees with nothing the
server has now, so an invariant about the page of this moment cannot be inductive.
`ProjectionInv` speaks of all the pages on the way: `Pages(live, stream)[n]` is the one
the browser has once the first n events of the stream have arrived, `Settled` the last.
Each is well formed (`PageOK`), and the last knows what the snapshot says (`Agrees`).
Then delivering an event moves on to the next page and leaves the last one as it is;
`Load` leaves a single page, which agrees by what `draftsFromSnapshot` and its
siblings compute of a well-formed snapshot; and a stretch of the server adds pages at
the end.  Most of the work is there: one lemma per kind of event says what
`applyEvent` makes of it (`DraftEvents`, `ReviewEvent`, `ScoresEvent`, `PlannedEvent`,
`EndEvent`), one per stretch what the snapshot becomes, and both are put together to
`Agrees` again.  `SnapshotOK` and `PhaseOK` say which snapshots there are: versions in
order, each judged before the next is begun (`VersionsAreInOrder`), reviews of the last
version (`ReviewsAreOfTheVersion`), a best one (`BestIsTheBest`), a text that is a mirror
or of one attempt (`TextIsOfOneAttempt`), and an end that follows from the gate
(`EndIsJust`).  `PinRespected` needs less: that the view is one (`IsView`), and what
each event and `KeptSelection` do with a pick.

*Where a reload differs.*  Nothing in the code keeps a model from beginning a version like the
last one, from numbering its plan as it likes, or a generator from resetting its text
behind a cancel (section 5).  The theorems have no hypothesis about any of it; the
properties say which part of the page each of the three may touch, and the invariant
carries the exception along: `HasRest` is what a page has of a text that was taken for a
mirror when it was loaded, namely everything behind the chunks it had then; `Agrees` asks
for the plans where `PlansAreNumbered`, for the text unless `MissedReset`, and for
everything else always.  A page that was not loaded at such a moment has the whole text,
also when texts read alike.

*Assumptions.* `NullAssumption` of `AgentClient` says that there is a run, and
that `null` is not a run, a status or a snapshot; it holds in TypeScript by the types, and
TLC evaluates it.  `NullIsNoValue` of `RunTypes` says the same of what a field of a
snapshot or of the view may hold instead of `null`.  The other assumptions give the types of the constants.  Nothing
else is assumed, and no bound of an instance is used.

*How the models were put so that they can be proved about.*  The text of a log
(`TextOf`) and the runs that stay (`Without`) pick elements by position
(`Selection`) where the library's `SelectSeq` recurses; `FromEntries` is a function
over its keys rather than a fold; the restart of the registry is a definition per
loop of the code.  `UrlIsTheRun` was strengthened: the address names the run on the
screen in every state, not only in those with a snapshot.

*Induction.* Where the provers cannot instantiate an induction theorem,
`NaturalSets` argues with a least counterexample (`LeastNatural`, `InductiveSet`): this is
enough for `Min`, `Max`, positions and counts, all of which are about sets, and not
for what a recursive function or a fold computes.

*Only model-checked.*

- Liveness, which is out of the prover's reach: `CancelStopsTask` and `RunSettles`
  (`workflow_live`), `EndIsDelivered` (`eventlog_live`), `EndIsShown` (`client_live`) and
  `ExpiredGoes` (`registry`).
- `ComparisonIsExact` and `NothingIsMarkedInVain` (`documents`): the tables of `diff.ts`
  are recursive and the reference definition quantifies over all subsequences, so both
  need an induction over the documents.

## 5. Where code and documents disagree

With a run that shows it:

1. *A finished run reopens.*  The answer of a control request overwrites the status
   (`runReducer.ts:898`), however late it comes: a pause that was accepted just
   before the run failed, and answered just behind `run_failed`, leaves the page
   pausing a run that is over, with its source closed.
   `memory-bank/design-document.md:1087`: the end event locks the final status.
   Run `client_terminal`.

The following are stated in the modules as properties that no run lists, because
they do not hold; each is refuted by TLC with the configuration named here once
the property is added to it (and, for liveness, `FairSpec` is its specification).

| Property | With | Disagreement |
|---|---|---|
| `NothingLoggedAfterTheEnd` | `MCAgentWorkflow.cfg` | A cancel handled while the generator holds a retryable failure (`workflow.py:229`) is not looked at before `record_timing`, `record_usage` (`workflow.py:280-297`) and the reset of the next attempt (`workflow.py:250-258`); `memory-bank/implementation-plan.md:319,323` rules that out. No version, score, review or plan is ever written late (`NoLateResults`, proved) |
| `OptimizerYieldsToPause` | `MCAgentWorkflow.cfg` | The optimizer checks for a pause when it starts and once more when it wakes (`workflow.py:757-767`); a pause requested between the second resume and its wake-up is honoured only after the next version. `memory-bank/design-document.md:502-514,1561` |
| `UnusableAttemptsAreTimed` | `MCAgentWorkflow.cfg` | An attempt that fails in a non-retryable way has no entry in `node_timings` (`workflow.py:275`); `README.md:54-55` promises one |
| `StreamEndsWithEnd` | `MCEventLog.cfg` | After a heartbeat timeout `subscribe` returns on a terminal status without replaying once more (`event_store.py:119-121`); `memory-bank/implementation-plan.md:223`. The browser's reconnect repairs it (`EndIsDelivered`) |
| `InterruptionIsNoticed` | `MCEventLogLive.cfg` | A restart fails an unfinished run without a `run_failed` event (`run_store.py:202-226`); a browser that was following reconnects, `onopen` resets the error count, and so on for ever. `memory-bank/implementation-plan.md:431` |
| `PlanLeadsToNextVersion` | `MCRunProjection.cfg`, `PlanOffsets = {0, 1}` | `runReducer.ts:87` says the backend stamps a plan with the reviewed iteration; `workflow.py:801` stores the number the model filled in (`schemas.py:266`). One that is off is shown for another version |
| `FailureIsNamed` | `MCRunProjection.cfg` | No event moves `snapshot.current_iteration`, and a version has no draft before its first text: a page that watched version 2 fail before that shows no notice (`failureNotice.ts:46`), and shows one after a reload. `memory-bank/design-document.md:1208` |
| `ProgressIsCurrent` | `MCRunProjection.cfg` | For the same reason the telemetry panel of a page that watches keeps the iteration it was opened with (`runReducer.ts:723`). `memory-bank/design-document.md:1654`, `memory-bank/architecture.md:198` |
| `FailedNodeIsShown` | `MCRunProjection.cfg` | `run_failed` carries no node and `applyEvent` leaves `node_statuses` alone (`runReducer.ts:786`): the diagram shows the node that died as running. `memory-bank/design-document.md:1108` |
| `StreamedTextSurvivesReload` | `MCRunProjection.cfg` | A text that so far equals the last version's is taken for its mirror (`runReducer.ts:838`): a page loaded then has no draft of it. `workflow.py:260` |

What else the models bring out, without a document that says otherwise:

- Control answers carry neither a session nor an order.  Besides disagreement 1, the
  answer of a request for one run is written into the view of the run selected
  since (`useAgentRun.ts:345-369`); and an answered cancel can overtake the last
  text, whose events are then dropped as late (`PageIsAPrefix` excepts cancelled
  runs for that reason).
- The generator of a cancelled run may reset `current_prd` and record usage behind
  `run_cancelled` (`workflow.py:250-258,275-297`).  The page that watched keeps the text it
  had and an older sequence number; one that is loaded now has no text of that version.
- A human who resumes with an override, pauses again before the optimizer begins and
  resumes without one has their override replaced by `None` (`run_manager.py:528`), unused.
- A crash between the two transactions of the last commit leaves the terminal event
  stored and the run interrupted: the event log says how it ended, the snapshot says it
  was interrupted.
- A write of an event that fails leaves the event in the buffer, where connected
  clients read it, and nowhere else: one that comes later, or after a restart, is told
  nothing of it.
- Eviction follows the order of `updated_at` in memory, a restart that of the table, and
  deltas move only the first: a run that streamed last may be trimmed first.
- The test for the current source (`useAgentRun.ts:176`) is redundant as long as
  sequence numbers are compared and runs are told apart: no property notices its
  absence.  The session test behind each `await` is not redundant.
- `RUN_INTERRUPTED`, the error of a run ended by a restart, has no sentence of its
  own in `errorMessages.ts`, against `memory-bank/design-document.md:1208-1210`.
- `_cleanup_loop` has no handler: one failed write ends it until the next restart.
- A failed delete in `make_room` leaves the row of the evicted run, which is back
  after a restart, and its stream, signals and binding, which are never released
  before that; no property but those about the restart covers it.
- Interrupted runs are re-stamped from the newest to the oldest
  (`run_store.py:204-221`), so their order turns round: the one updated last is
  evicted first.
- `max_retained_runs` below `max_concurrent_runs` is accepted by the settings; a
  request is then refused for want of room (`STORE_CAPACITY` in `RunRegistry`).
- `diffBlocks` does not trim common ends as `diffRows` does, so two equal documents
  above the limit of the table read as replaced block by block.

## 6. Not modelled

Left out for good: prompts, language detection, configuration, logging, rendering
and the HTTP client of the providers (text and I/O without state of their own).
LangGraph's and asyncio's internals are external.  Of the client: the list of
conversations in the sidebar (it decides nothing about a run), the idea form and
the provider picker, Markdown and Mermaid rendering, formatting and sums of
`nodeTimings.ts`.  The `mounted` flag of the hook matters only when a component is
unmounted while its page goes on, which the pages of this application never do;
`Reload` is unmounting and mounting.  The rounding of the mean score, the
classification of finish reasons (its outcomes are in `AgentWorkflow`), and a
startup that fails because the database cannot be written are not modelled either.

Two pairs of modules meet in prose only.  `AgentClient` has a log per run and a source
that sends it in order, `EventLog` the subscriptions that do so, with a browser reduced
to its `EventSource`; what the first takes for granted is what the second proves
(`DeliveredInOrder`, `NothingSkipped`), but no module composes them.  `RunServer` takes
the order of the nodes' stretches from `AgentWorkflow` and has no step between the
answer of a provider and its commit, but for the failed attempt of a generator that a
cancel overtakes.

`AgentClient` has no restart of its server.  Behind one the snapshot a page is answered
with may be older than the page, because deltas are stored nowhere, so `NoRewind` and
`PageIsAPrefix` say nothing of restarts; delivery across a restart is `EventLog`'s.
