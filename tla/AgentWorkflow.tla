----------------------------- MODULE AgentWorkflow -----------------------------
(***************************************************************************)
(* One run: the LangGraph workflow (backend/workflow.py) over the snapshot *)
(* RunManager commits to (backend/run_manager.py), under the pause, resume *)
(* and cancel requests of a user.                                          *)
(*                                                                         *)
(* Granularity.  Everything runs on one asyncio event loop, and every lock *)
(* of the manager is held only across code that never suspends.  A request *)
(* handler, and a stretch of a node between two points where its task      *)
(* really suspends, is therefore one step.  A node suspends when           *)
(*   - it is scheduled by the graph but has not started     ("ready"),     *)
(*   - it waits for the provider in asyncio.wait            ("call"),      *)
(*   - it knows the answer and sits in the gather of                       *)
(*     _await_provider's finally clause                     ("settled"),   *)
(*   - it waits in wait_until_resumed_or_cancelled                         *)
(*     ("parked"; "parkedAgain" is the optimizer's second wait).           *)
(* "done" and "raised" nodes have returned and thrown.                     *)
(***************************************************************************)
EXTENDS RunStatus, Integers, Sequences

CONSTANTS
  Roles,           \* the reviewer nodes; three in the code
  MaxIterations,   \* max_iterations of the request, 1..5
  Scores,          \* the overall scores an evaluation can produce
  Threshold,       \* quality_threshold of the request
  Overrides,       \* what a human may ask for when resuming: user_override
  ProviderFaults   \* the ways a provider call fails in this instance

ASSUME WorkflowAssumption ==
  /\ Roles \cap {"generator", "aggregator", "optimizer", "none"} = {}
  /\ MaxIterations \in Nat \ {0}
  /\ Scores \subseteq Nat
  /\ Threshold \in Nat
  /\ "none" \notin Overrides
  /\ ProviderFaults \subseteq {"retryable", "fatal", "crash"}

Nodes == Roles \cup {"generator", "aggregator", "optimizer"}

None == "none"
Unscored == -1
NoBest == [num |-> 0, score |-> Unscored]

\* _validated_structured tries a call twice and may then ask for one repair.
RepairCall == 3

Exceptions == {"cancelled", "timeout", "retryable", "fatal", "crash", "invalid"}

VARIABLES
  (* RunSnapshot *)
  status,          \* RunStatus
  iteration,       \* current_iteration
  versions,        \* the versions, with the overall score each was given
  best,            \* best_version and best_score
  reviews,         \* per role, the version its stored review is about, or 0
  plan,            \* the version pending_revision_plan was made from, or 0
  override,        \* pending_user_override, or None
  draft,           \* <<version, attempt>> of each text current_prd is made of
  nodeStatus,      \* node_statuses
  activeNode,      \* active_node
  timings,         \* the <<node, version, attempt>> entries of node_timings
  tail,            \* the event types logged behind the run's terminal event
  (* RunManager *)
  cancelSignal,    \* cancel_signals[run_id]
  resumeSignal,    \* resume_signals[run_id]
  expired,         \* remaining_run_seconds(run_id) has come down to 0
  (* the workflow's tasks *)
  stage,           \* the superstep the graph is in
  pc,              \* where each node's task stands
  attempt,         \* the number of the node's provider call in this step
  answer,          \* the answer a settled call has, or what a node raised
  overrideRead     \* the override the optimizer's call was built from

judgement == <<iteration, versions, best>>
inputs == <<reviews, plan, override>>
progress == <<nodeStatus, activeNode>>
signals == <<cancelSignal, resumeSignal>>
vars == <<status, judgement, inputs, draft, progress, timings, tail,
          signals, expired, stage, pc, attempt, answer, overrideRead>>

\* What no node changes before its call has been answered.
results == <<judgement, reviews, plan, timings>>

Init ==
  /\ status = "QUEUED"
  /\ iteration = 1
  /\ versions = <<>>
  /\ best = NoBest
  /\ reviews = [r \in Roles |-> 0]
  /\ plan = 0
  /\ override = None
  /\ draft = {}
  /\ nodeStatus = [n \in Nodes |-> "PENDING"]
  /\ activeNode = None
  /\ timings = {}
  /\ tail = {}
  /\ cancelSignal = FALSE
  /\ resumeSignal = FALSE
  /\ expired = FALSE
  /\ stage = "created"
  /\ pc = [n \in Nodes |-> "idle"]
  /\ attempt = [n \in Nodes |-> 0]
  /\ answer = [n \in Nodes |-> None]
  /\ overrideRead = None

--------------------------------------------------------------------------------
(* Helpers of the handlers. *)

(* Definitions marked "faulty" are deliberate mistakes: the properties are   *)
(* checked to reject each of them in place of the definition that follows.   *)

\* Faulty: the cancel signal is not looked at.
InterruptOnTimeout == IF expired THEN "timeout" ELSE None

\* _check_cancel: the exception a node's check raises now, if any.
Interrupt == IF cancelSignal THEN "cancelled"
             ELSE IF expired THEN "timeout" ELSE None

\* Faulty: a waiting pause is overwritten.
StagedAlways(target) == target

\* set_stage: the status after asking for a stage.
Staged(target) == IF status \in {"PAUSE_REQUESTED", "CANCEL_REQUESTED", target}
                  THEN status ELSE target

\* The events of a step land behind the terminal event once there is one.
Log(events) == tail' = IF status \in TerminalStatuses THEN tail \cup events ELSE tail

MarkRunning(n) ==
  /\ nodeStatus' = [nodeStatus EXCEPT ![n] = "RUNNING"]
  /\ activeNode' = n

\* Faulty: active_node is not cleared.
MarkSucceededOnly(n) ==
  /\ nodeStatus' = [nodeStatus EXCEPT ![n] = "SUCCEEDED"]
  /\ UNCHANGED activeNode

\* A reviewer clears active_node only if it still is the active node.
MarkSucceeded(n) ==
  /\ nodeStatus' = [nodeStatus EXCEPT ![n] = "SUCCEEDED"]
  /\ activeNode' = IF n \in Roles /\ activeNode # n THEN activeNode ELSE None

Goto(n, place) == pc' = [pc EXCEPT ![n] = place]

\* The node throws e out of the graph; nothing is committed.
Raise(n, e) ==
  /\ Goto(n, "raised")
  /\ answer' = [answer EXCEPT ![n] = e]

Issue(n, number) ==
  /\ Goto(n, "call")
  /\ attempt' = [attempt EXCEPT ![n] = number]
  /\ answer' = [answer EXCEPT ![n] = None]

Return(n) ==
  /\ Goto(n, "done")
  /\ answer' = [answer EXCEPT ![n] = None]

Settled(n, a) == pc[n] = "settled" /\ answer[n] = a

Entry(n) == <<n, iteration, attempt[n]>>

--------------------------------------------------------------------------------
(* The graph: workflow.run, and LangGraph's supersteps. *)

Wave(s) == CASE s = "reviewers" -> Roles
             [] s \in {"generator", "aggregator", "optimizer"} -> {s}
             [] OTHER -> {}

EnterWave(s) ==
  /\ stage' = s
  /\ pc' = [n \in Nodes |-> IF n \in Wave(s) THEN "ready" ELSE "idle"]

\* create_run has started the task; it records run_started and invokes the
\* graph.  No request can name the run before: its id is not yet returned.
StartRun ==
  /\ stage = "created"
  /\ EnterWave("generator")
  /\ UNCHANGED <<status, judgement, inputs, draft, progress, timings, tail,
                 signals, expired, attempt, answer, overrideRead>>

\* _route_after_aggregate.
RouteAfterAggregate == IF status \in TerminalStatuses THEN "over" ELSE "optimizer"

NextStage == CASE stage = "generator" -> "reviewers"
               [] stage = "reviewers" -> "aggregator"
               [] stage = "aggregator" -> RouteAfterAggregate
               [] OTHER -> "generator"

Superstep ==
  /\ stage \in {"generator", "reviewers", "aggregator", "optimizer"}
  /\ \A n \in Wave(stage) : pc[n] = "done"
  /\ EnterWave(NextStage)
  /\ UNCHANGED <<status, judgement, inputs, draft, progress, timings, tail,
                 signals, expired, attempt, answer, overrideRead>>

\* Faulty: a pause that is waiting keeps the run from failing.
FailedUnlessPausing ==
  IF status \in TerminalStatuses \cup {"PAUSE_REQUESTED"} THEN status ELSE "FAILED"

\* fail_run, which leaves a run that has ended alone.
FailedStatus == IF status \in TerminalStatuses THEN status ELSE "FAILED"

\* An exception leaves the graph: its siblings are cancelled first, then the
\* except clauses of run and _run_workflow end the run.  A cancelled run
\* stays cancelled whatever was raised (_fail_unless_cancelled).
Unwind(n) ==
  /\ pc[n] = "raised"
  /\ EnterWave("over")
  /\ IF answer[n] = "cancelled" \/ cancelSignal
     THEN UNCHANGED <<status, progress>>
     ELSE /\ status' = FailedStatus
          /\ nodeStatus' = [m \in Nodes |-> IF m = activeNode THEN "FAILED"
                                            ELSE nodeStatus[m]]
          /\ activeNode' = None
  /\ answer' = [m \in Nodes |-> None]
  /\ UNCHANGED <<judgement, inputs, draft, timings, tail, signals, expired,
                 attempt, overrideRead>>

--------------------------------------------------------------------------------
(* Provider calls: _await_provider. *)

Calling == {n \in Nodes : pc[n] = "call"}

\* What asyncio.wait can come back with: an event of the stream or its end, a
\* structured value that validates, one that does not, one of another role, a
\* provider error, no answer in time, or the cancel signal.
Answers(n) ==
  ProviderFaults \cup {"timeout"}
    \cup (IF n = "generator" THEN {"chunk", "end"} ELSE {"ok", "malformed"})
    \cup (IF n \in Roles THEN {"misrole"} ELSE {})
    \cup (IF cancelSignal THEN {"cancelled"} ELSE {})

\* asyncio.wait returns.  The node now holds its answer through the gather in
\* the finally clause, and a request handled meanwhile comes after it.
Settle(n) ==
  /\ n \in Calling
  /\ \E a \in Answers(n) : answer' = [answer EXCEPT ![n] = a]
  /\ Goto(n, "settled")
  /\ UNCHANGED <<status, judgement, inputs, draft, progress, timings, tail,
                 signals, expired, stage, attempt, overrideRead>>

\* The check every node begins with fails.
Refuse(n) ==
  /\ pc[n] = "ready"
  /\ Interrupt # None
  /\ Raise(n, Interrupt)
  /\ UNCHANGED <<status, judgement, inputs, draft, progress, timings, tail,
                 signals, expired, stage, attempt, overrideRead>>

--------------------------------------------------------------------------------
(* The generator: _generator_node and _stream_generation. *)

Tag == <<iteration, attempt["generator"]>>

\* Faulty: the attempt's deadline is not looked at between events.
StreamInterruptOnCancel(flushed) == IF cancelSignal THEN "cancelled" ELSE None

\* Faulty: nothing is looked at between events.
StreamInterruptNever(flushed) == None

\* What the stream loop raises before waiting for the next event.  Text that is
\* flushed passes _commit_delta's check first; otherwise the attempt's deadline
\* is looked at before the cancel signal.
StreamInterrupt(flushed) ==
  IF cancelSignal /\ (flushed \/ ~expired) THEN "cancelled"
  ELSE IF expired THEN "timeout" ELSE None

\* Faulty: the text of the failed attempt stays.
KeptDraft == draft

\* _begin_stream: the text another version or attempt left is dropped.
ClearedDraft == {}

Flushed(flush) == IF flush THEN draft \cup {Tag} ELSE draft

BeginGenerator ==
  /\ pc["generator"] = "ready"
  /\ Interrupt = None
  /\ status' = Staged("GENERATING")
  /\ MarkRunning("generator")
  /\ draft' = ClearedDraft
  /\ Issue("generator", 1)
  /\ UNCHANGED <<results, override, tail, signals, expired, stage, overrideRead>>

\* An attempt ended in RetryableProviderError or TimeoutError e: its time, and
\* its usage if the provider reported any, are recorded; the first such attempt
\* is followed by a second, whose deadline may already have passed.  Nothing
\* here looks at the cancel signal before the second attempt asks the provider.
FailAttempt(e) ==
  LET retried == attempt["generator"] = 1
      second == <<"generator", iteration, 2>>
  IN
  /\ \E billed \in BOOLEAN :
       Log((IF billed THEN {"telemetry_updated"} ELSE {})
             \cup (IF retried THEN {"prd_stream_reset"} ELSE {}))
  /\ \/ /\ ~retried
        /\ timings' = timings \cup {Entry("generator")}
        /\ Raise("generator", e)
        /\ UNCHANGED <<draft, attempt>>
     \/ /\ retried /\ StreamInterrupt(FALSE) = None
        /\ timings' = timings \cup {Entry("generator")}
        /\ draft' = ClearedDraft
        /\ Issue("generator", 2)
     \/ /\ retried /\ StreamInterrupt(FALSE) # None
        /\ timings' = timings \cup {Entry("generator")}
             \cup (IF expired THEN {second} ELSE {})
        /\ draft' = ClearedDraft
        /\ attempt' = [attempt EXCEPT !["generator"] = 2]
        /\ Raise("generator", StreamInterrupt(FALSE))

GeneratorFrame ==
  UNCHANGED <<status, judgement, inputs, progress, signals, expired, stage,
              overrideRead>>

\* An event of the stream arrived; enough text flushes the buffer.
ResumeChunk ==
  /\ Settled("generator", "chunk")
  /\ \E flush \in BOOLEAN :
       \/ /\ StreamInterrupt(flush) = None
          /\ draft' = Flushed(flush)
          /\ Issue("generator", attempt["generator"])
          /\ UNCHANGED <<timings, tail>>
       \/ /\ StreamInterrupt(flush) = "cancelled"
          /\ Raise("generator", "cancelled")
          /\ UNCHANGED <<draft, timings, tail, attempt>>
       \/ /\ StreamInterrupt(flush) = "timeout"
          /\ FailAttempt("timeout")
  /\ GeneratorFrame

\* The provider failed the attempt in a way the generator retries.
ResumeFailedAttempt ==
  /\ pc["generator"] = "settled"
  /\ answer["generator"] \in {"retryable", "timeout"}
  /\ FailAttempt(answer["generator"])
  /\ GeneratorFrame

\* The rest of the buffer is flushed, then validate_generated_prd looks at the
\* finish reason and the completion marker and the usage must be there.  An
\* unusable document is a failed attempt, or, if its content was filtered, a
\* failed run.
ResumeRejectedStream ==
  /\ Settled("generator", "end")
  /\ \E remainder \in BOOLEAN :
       \/ /\ remainder /\ Interrupt = "timeout"
          /\ FailAttempt("timeout")
       \/ /\ remainder => Interrupt = None
          /\ "retryable" \in ProviderFaults
          /\ FailAttempt("retryable")
       \/ /\ remainder => Interrupt = None
          /\ "fatal" \in ProviderFaults
          /\ Raise("generator", "fatal")
          /\ draft' = Flushed(remainder)
          /\ UNCHANGED <<timings, tail, attempt>>
  /\ GeneratorFrame

\* The stream ended well, but a check before finish_generation fails.
ResumeStreamTooLate ==
  /\ Settled("generator", "end")
  /\ Interrupt # None
  /\ Raise("generator", Interrupt)
  /\ UNCHANGED <<draft, timings, tail, attempt>>
  /\ GeneratorFrame

\* Faulty: the plan stays pending.
KeptPlan == plan

\* pending_revision_plan once its version is written.
ConsumedPlan == 0

NewVersion == [num |-> iteration, score |-> Unscored]

\* finish_generation, record_usage, record_timing and the next stage.
FinishGeneration ==
  /\ Settled("generator", "end")
  /\ Interrupt = None
  /\ versions' = Append(versions, NewVersion)
  /\ draft' = {Tag}
  /\ plan' = ConsumedPlan
  /\ MarkSucceeded("generator")
  /\ timings' = timings \cup {Entry("generator")}
  /\ Log({"prd_generated", "telemetry_updated", "status_changed"})
  /\ status' = Staged("REVIEWING")
  /\ Return("generator")
  /\ UNCHANGED <<iteration, best, reviews, override, signals, expired, stage,
                 attempt, overrideRead>>

--------------------------------------------------------------------------------
(* Structured calls: _validated_structured, for the reviewers and the optimizer. *)

Structured == Roles \cup {"optimizer"}

StructuredFrame ==
  UNCHANGED <<status, judgement, inputs, draft, progress, timings, tail,
              signals, expired, stage, overrideRead>>

\* Another call of the node, unless the check at its start raises.
Reissue(n, number) ==
  \/ Interrupt = None /\ Issue(n, number)
  \/ Interrupt # None /\ Raise(n, Interrupt) /\ UNCHANGED attempt

RetryCall(n) ==
  /\ pc[n] = "settled"
  /\ answer[n] \in {"retryable", "timeout"}
  /\ attempt[n] = 1
  /\ Reissue(n, 2)
  /\ StructuredFrame

RepairAnswer(n) ==
  /\ Settled(n, "malformed")
  /\ attempt[n] # RepairCall
  /\ Reissue(n, RepairCall)
  /\ StructuredFrame

\* What the node raises for an answer it neither commits nor asks again for.
Thrown(n) ==
  CASE answer[n] \in {"cancelled", "fatal", "crash"} -> answer[n]
    [] answer[n] \in {"retryable", "timeout"} /\ n \in Structured
                                              /\ attempt[n] # 1 -> answer[n]
    [] answer[n] = "malformed" /\ attempt[n] = RepairCall -> "invalid"
    [] answer[n] = "misrole" -> "invalid"
    [] answer[n] = "ok" -> Interrupt
    [] OTHER -> None

Throw(n) ==
  /\ pc[n] = "settled"
  /\ Thrown(n) # None
  /\ Raise(n, Thrown(n))
  /\ UNCHANGED attempt
  /\ StructuredFrame

--------------------------------------------------------------------------------
(* The reviewers: _reviewer_node. *)

BeginReview(r) ==
  /\ pc[r] = "ready"
  /\ Interrupt = None
  /\ MarkRunning(r)
  /\ Issue(r, 1)
  /\ UNCHANGED <<status, results, override, draft, tail, signals, expired,
                 stage, overrideRead>>

\* finish_review, record_usage and record_timing.
FinishReview(r) ==
  /\ Settled(r, "ok")
  /\ Interrupt = None
  /\ reviews' = [reviews EXCEPT ![r] = iteration]
  /\ MarkSucceeded(r)
  /\ timings' = timings \cup {<<r, iteration, 1>>}
  /\ Log({"review_completed", "telemetry_updated"})
  /\ Return(r)
  /\ UNCHANGED <<status, judgement, plan, override, draft, signals, expired,
                 stage, attempt, overrideRead>>

--------------------------------------------------------------------------------
(* The aggregator and its pause: _aggregator_node, enter_paused. *)

\* Faulty: a tie moves the pointer to the later version.
BestAfterTie(score) ==
  IF best = NoBest \/ score >= best.score
  THEN [num |-> iteration, score |-> score] ELSE best

\* The best version is replaced only by a strictly better one.
BestAfter(score) ==
  IF best = NoBest \/ score > best.score
  THEN [num |-> iteration, score |-> score] ELSE best

\* Faulty: the gate looks at the findings only.
GateOnFindings(score, mustFix) == ~mustFix

\* The quality gate: the score target and no blocking finding.
GatePassed(score, mustFix) == score >= Threshold /\ ~mustFix

\* enter_paused, then the wait for a signal.
Park(n, place) ==
  /\ status' = "PAUSED"
  /\ resumeSignal' = FALSE
  /\ Goto(n, place)

\* The newest version gets its score.
Evaluated(score) == [versions EXCEPT ![Len(versions)].score = score]

\* The run ends on the gate or on its budget, pauses if a pause is waiting, or
\* goes on to the optimizer.
Conclude(gatePassed) ==
  \/ /\ gatePassed
     /\ status' = "COMPLETED"
     /\ Goto("aggregator", "done")
     /\ UNCHANGED resumeSignal
  \/ /\ ~gatePassed
     /\ iteration >= MaxIterations
     /\ status' = "MAX_ITERATIONS_REACHED"
     /\ Goto("aggregator", "done")
     /\ UNCHANGED resumeSignal
  \/ /\ ~gatePassed
     /\ iteration < MaxIterations
     /\ Staged("AGGREGATING") = "PAUSE_REQUESTED"
     /\ Park("aggregator", "parked")
  \/ /\ ~gatePassed
     /\ iteration < MaxIterations
     /\ Staged("AGGREGATING") # "PAUSE_REQUESTED"
     /\ status' = "OPTIMIZING"
     /\ Goto("aggregator", "done")
     /\ UNCHANGED resumeSignal

\* The reviews are combined and committed with the outcome in one go.
Aggregate ==
  /\ pc["aggregator"] = "ready"
  /\ Interrupt = None
  /\ IF \E r \in Roles : reviews[r] = 0
     THEN /\ status' = Staged("AGGREGATING")
          /\ MarkRunning("aggregator")
          /\ Raise("aggregator", "crash")
          /\ UNCHANGED <<versions, best, resumeSignal>>
     ELSE \E score \in Scores, mustFix \in BOOLEAN :
            /\ versions' = Evaluated(score)
            /\ best' = BestAfter(score)
            /\ MarkSucceeded("aggregator")
            /\ Conclude(GatePassed(score, mustFix))
            /\ UNCHANGED answer
  /\ Log({"node_started", "scores_updated"})
  /\ UNCHANGED <<iteration, inputs, draft, timings, cancelSignal, expired,
                 stage, attempt, overrideRead>>

\* Faulty: the wait ends without a signal.
WokenSpuriously(n, place) == pc[n] = place

\* wait_until_resumed_or_cancelled returns: either signal is set.
Woken(n, place) == pc[n] = place /\ (resumeSignal \/ cancelSignal)

\* The check behind a wait fails.
RefuseWoken(n) ==
  /\ Woken(n, "parked") \/ Woken(n, "parkedAgain")
  /\ Interrupt # None
  /\ Raise(n, Interrupt)
  /\ UNCHANGED attempt
  /\ StructuredFrame

WakeAggregator ==
  /\ Woken("aggregator", "parked")
  /\ Interrupt = None
  /\ Return("aggregator")
  /\ UNCHANGED attempt
  /\ StructuredFrame

--------------------------------------------------------------------------------
(* The optimizer: _optimizer_node. *)

\* Mark the node, read the snapshot, and ask for the revision plan.
LaunchOptimizer ==
  /\ status' = Staged("OPTIMIZING")
  /\ MarkRunning("optimizer")
  /\ overrideRead' = override
  /\ Issue("optimizer", 1)
  /\ UNCHANGED <<results, override, draft, tail, signals, expired, stage>>

ParkOptimizer(place) ==
  /\ Park("optimizer", place)
  /\ UNCHANGED <<results, override, draft, progress, tail, cancelSignal,
                 expired, stage, attempt, answer, overrideRead>>

BeginOptimizer ==
  /\ pc["optimizer"] = "ready"
  /\ Interrupt = None
  /\ \/ status = "PAUSE_REQUESTED" /\ ParkOptimizer("parked")
     \/ status # "PAUSE_REQUESTED" /\ LaunchOptimizer

\* A pause requested again between the resume and this step is honoured once.
WakeOptimizer ==
  /\ Woken("optimizer", "parked")
  /\ Interrupt = None
  /\ \/ status = "PAUSE_REQUESTED" /\ ParkOptimizer("parkedAgain")
     \/ status # "PAUSE_REQUESTED" /\ LaunchOptimizer

WakeOptimizerAgain ==
  /\ Woken("optimizer", "parkedAgain")
  /\ Interrupt = None
  /\ LaunchOptimizer

\* Faulty: the iteration is not counted.
SameIteration == iteration

NextIteration == iteration + 1

\* Faulty: the reviews of the old version stay.
KeptReviews == reviews

\* finish_optimizer leaves no review of the old version behind.
ClearedReviews == [r \in Roles |-> 0]

\* finish_optimizer, record_usage, record_timing and the next stage.
FinishPlan ==
  /\ Settled("optimizer", "ok")
  /\ Interrupt = None
  /\ plan' = iteration
  /\ override' = None
  /\ iteration' = NextIteration
  /\ reviews' = ClearedReviews
  /\ MarkSucceeded("optimizer")
  /\ timings' = timings \cup {<<"optimizer", iteration, 1>>}
  /\ Log({"revision_planned", "telemetry_updated", "status_changed"})
  /\ status' = Staged("GENERATING")
  /\ Return("optimizer")
  /\ UNCHANGED <<versions, best, draft, signals, expired, stage, attempt,
                 overrideRead>>

--------------------------------------------------------------------------------
(* The requests of a user, and the clock. *)

ControlFrame ==
  UNCHANGED <<judgement, reviews, plan, draft, nodeStatus, timings, tail,
              expired, stage, pc, attempt, answer, overrideRead>>

\* request_pause; in any other status it is refused or changes nothing.
RequestPause ==
  /\ stage # "created"
  /\ status \in PausableStatuses
  /\ status' = "PAUSE_REQUESTED"
  /\ UNCHANGED <<override, activeNode, signals>>
  /\ ControlFrame

\* Faulty: a pause that has only been requested can be resumed.
ResumeRunEarly ==
  /\ status \in {"PAUSED", "PAUSE_REQUESTED"}
  /\ status' = "OPTIMIZING"
  /\ override' \in Overrides \cup {None}
  /\ resumeSignal' = TRUE
  /\ UNCHANGED <<activeNode, cancelSignal>>
  /\ ControlFrame

\* resume_run, with or without a requirement to add.  What it says replaces what an
\* earlier resume said, be it nothing, used or not.
ResumeRun ==
  /\ status = "PAUSED"
  /\ status' = "OPTIMIZING"
  /\ override' \in Overrides \cup {None}
  /\ resumeSignal' = TRUE
  /\ UNCHANGED <<activeNode, cancelSignal>>
  /\ ControlFrame

\* cancel_run: CANCEL_REQUESTED, both signals, and finalize_cancel, in one go.
CancelRun ==
  /\ stage # "created"
  /\ status \notin TerminalStatuses
  /\ status' = "CANCELLED"
  /\ activeNode' = None
  /\ cancelSignal' = TRUE
  /\ resumeSignal' = TRUE
  /\ UNCHANGED override
  /\ ControlFrame

\* The run's time is used up.  active_elapsed stands still while it is paused.
SpendBudget ==
  /\ stage \notin {"created", "over"}
  /\ status # "PAUSED"
  /\ ~expired
  /\ expired' = TRUE
  /\ UNCHANGED <<status, judgement, inputs, draft, progress, timings, tail,
                 signals, stage, pc, attempt, answer, overrideRead>>

--------------------------------------------------------------------------------

GeneratorStep ==
  \/ BeginGenerator
  \/ ResumeChunk
  \/ ResumeFailedAttempt
  \/ ResumeRejectedStream
  \/ ResumeStreamTooLate
  \/ FinishGeneration

ReviewerStep(r) == BeginReview(r) \/ FinishReview(r)

AggregatorStep == Aggregate \/ WakeAggregator

OptimizerStep ==
  BeginOptimizer \/ WakeOptimizer \/ WakeOptimizerAgain \/ FinishPlan

\* What is common to the nodes that make structured calls.
StructuredStep(n) == RetryCall(n) \/ RepairAnswer(n)

NodeStep ==
  \/ GeneratorStep
  \/ \E r \in Roles : ReviewerStep(r)
  \/ AggregatorStep
  \/ OptimizerStep
  \/ \E n \in Structured : StructuredStep(n)
  \/ \E n \in Nodes : Refuse(n) \/ RefuseWoken(n) \/ Settle(n) \/ Throw(n)

GraphStep == StartRun \/ Superstep \/ \E n \in Nodes : Unwind(n)

UserStep == RequestPause \/ ResumeRun \/ CancelRun

\* The task has ended; nothing is left to do but to stutter.
Ended == stage = "over" /\ UNCHANGED vars

Next == GraphStep \/ NodeStep \/ UserStep \/ SpendBudget \/ Ended

Spec == Init /\ [][Next]_vars

\* The event loop runs every callback that is ready; a provider call is
\* answered or timed out; the clock runs.  Users need not do anything.
Fairness ==
  /\ WF_vars(GraphStep)
  /\ WF_vars(SpendBudget)
  /\ WF_vars(NodeStep)

FairSpec == Spec /\ Fairness

--------------------------------------------------------------------------------
(* Properties. *)

Places == {"idle", "ready", "call", "settled", "parked", "parkedAgain", "done",
           "raised"}

AnyAnswer == Exceptions \cup {None, "chunk", "end", "ok", "malformed", "misrole"}

\* The event types a step can log behind the terminal event.
EventTypes == {"status_changed", "node_started", "prd_stream_reset",
               "prd_generated", "review_completed", "scores_updated",
               "revision_planned", "telemetry_updated"}

Version == [num : 1..MaxIterations, score : Scores \cup {Unscored}]

\* What the snapshot holds of the run's results.
ResultTypeOK ==
  /\ iteration \in 1..MaxIterations
  /\ versions \in Seq(Version)
  /\ best \in [num : 0..MaxIterations, score : Scores \cup {Unscored}]
  /\ reviews \in [Roles -> 0..MaxIterations]
  /\ plan \in 0..MaxIterations
  /\ draft \subseteq (1..MaxIterations) \X (1..2)
  /\ timings \subseteq Nodes \X (1..MaxIterations) \X (1..2)

\* What it shows of the run's progress.
ProgressTypeOK ==
  /\ nodeStatus \in [Nodes -> {"PENDING", "RUNNING", "SUCCEEDED", "FAILED"}]
  /\ activeNode \in Nodes \cup {None}
  /\ tail \subseteq EventTypes

\* The status, the signals and the tasks.
ControlTypeOK ==
  /\ status \in RunStatuses
  /\ override \in Overrides \cup {None}
  /\ overrideRead \in Overrides \cup {None}
  /\ cancelSignal \in BOOLEAN
  /\ resumeSignal \in BOOLEAN
  /\ expired \in BOOLEAN
  /\ stage \in {"created", "generator", "reviewers", "aggregator", "optimizer",
                "over"}
  /\ pc \in [Nodes -> Places]
  /\ attempt \in [Nodes -> 0..RepairCall]
  /\ answer \in [Nodes -> AnyAnswer]

\* The types of the variables: every value the code stores stays within the
\* bounds the schemas (backend/schemas.py) put on it, the iteration and the
\* version numbers within the budget of the request above all.
TypeOK == ResultTypeOK /\ ProgressTypeOK /\ ControlTypeOK

HasEnded == status \in TerminalStatuses

Asking(n) == pc[n] \in {"call", "settled"}

\* The versions an evaluation has reached.
Scored == {i \in 1..Len(versions) : versions[i].score # Unscored}

\* The versions are numbered 1, 2, ... without a gap or a repetition, and the
\* run is at the last of them or about to write the next: retries, pauses and
\* cancellations never make finish_generation run twice for an iteration, nor
\* finish_optimizer without a version in between.
VersionsAreConsecutive ==
  /\ Len(versions) \in {iteration - 1, iteration}
  /\ \A i \in 1..Len(versions) : versions[i].num = i

\* best_version is the earliest of the highest-scored versions, and every
\* version but a last one still under review has been scored: the pointer the
\* next generation takes its baseline from is never stale.
BestIsEarliestMaximum ==
  /\ 1..(Len(versions) - 1) \subseteq Scored
  /\ Scored = {} => best = NoBest
  /\ Scored # {} =>
       /\ best.num \in Scored
       /\ best.score = versions[best.num].score
       /\ \A i \in Scored : /\ versions[i].score <= best.score
                            /\ i < best.num => versions[i].score < best.score

\* The reviews the aggregator combines are all about the version it scores; a
\* review of an earlier version is never in the snapshot with a later one.
ReviewsAreCurrent ==
  /\ \A r \in Roles : reviews[r] \in {0, iteration}
  /\ stage = "aggregator" => \A r \in Roles : reviews[r] = iteration

\* current_prd never mixes the text of two attempts or two versions, and what
\* the reviewers are reading is the finished text of the current version.
DraftIsOneText ==
  /\ \A t, u \in draft : t = u
  /\ Asking("generator") => draft \subseteq {Tag}
  /\ (\E r \in Roles : Asking(r)) => draft = {Tag} /\ Len(versions) = iteration

\* A later version is generated from the plan made from the version before it,
\* on every attempt, and the plan is gone once that version is written.
PlanFitsIteration ==
  /\ stage = "generator" /\ pc["generator"] # "done" => plan = iteration - 1
  /\ stage \in {"reviewers", "aggregator"} => plan = 0

\* PAUSED is only ever seen between the aggregator and the optimizer: no
\* provider call is in flight, one node waits for the signal, the current
\* version is scored, and there is budget left to revise it.
PausedOnlyAtSafePoint ==
  status = "PAUSED" =>
    /\ \A n \in Nodes : ~Asking(n)
    /\ \E n \in {"aggregator", "optimizer"} : pc[n] \in {"parked", "parkedAgain"}
    /\ Len(versions) = iteration /\ versions[iteration].score # Unscored
    /\ iteration < MaxIterations

\* When the workflow's task has ended the run has ended too: no interleaving of
\* failures and requests leaves a run that is active in name only.
NoZombieRun == stage = "over" => HasEnded

\* The override finish_optimizer erases is the one its plan was made with: the one
\* of the latest resume, whatever was paused and resumed around the optimizer's
\* start, and no other text.
OverrideReachesPlan == Asking("optimizer") => overrideRead = override

\* active_node always names a running node, although three reviewers share it;
\* so the node fail_run blames was running.
ActiveNodeRuns == activeNode # None => nodeStatus[activeNode] = "RUNNING"

\* Behind the terminal event of a run only a stream reset and the usage of a
\* failed attempt are ever logged, never a result.
LateLogIsBounded == tail \subseteq {"prd_stream_reset", "telemetry_updated"}

\* A step takes the status along the transition table.  AGGREGATING and
\* CANCEL_REQUESTED are left again in the step that enters them.
StatusMovesAreLegal ==
  [][LET via(s) == s \in {"AGGREGATING", "CANCEL_REQUESTED"}
     IN \/ CanTransition(status, status')
        \/ \E s \in RunStatuses : /\ via(s)
                                  /\ CanTransition(status, s)
                                  /\ CanTransition(s, status')]_status

\* Once a run has ended, a late answer changes no version, score, review or
\* plan, and not the status either (finish_* re-check the cancel signal).
NoLateResults ==
  [][HasEnded => UNCHANGED <<status, judgement, inputs>>]_vars

\* A cancelled run's task comes to its end, wherever it was waiting.
CancelStopsTask == status = "CANCELLED" ~> stage = "over"

\* A run does not stay active for ever: it ends, or it waits for its user.
RunSettles == []<>(HasEnded \/ status = "PAUSED")

\* The run is a revision loop.
Loop == INSTANCE RevisionLoop
          WITH outcome <- IF status \in TerminalStatuses THEN status ELSE "OPEN",
               held <- status = "PAUSED"
LoopSpec == Loop!Spec

(* What the documents say and the code does not do. *)

\* After a cancel no telemetry and no event is written
\* (memory-bank/implementation-plan.md, P1-23).
NothingLoggedAfterTheEnd == tail = {}

\* The optimizer does not start while a pause is waiting to be honoured
\* (memory-bank/design-document.md, 6.6 and its test list).
OptimizerYieldsToPause ==
  [][pc["optimizer"] # "call" /\ pc'["optimizer"] = "call" /\ ~Asking("optimizer")
       => status # "PAUSE_REQUESTED"]_vars

\* Every generator attempt that produced an unusable document has its entry in
\* node_timings (README.md, Observability).
UnusableAttemptsAreTimed ==
  pc["generator"] = "raised" /\ answer["generator"] \in {"retryable", "fatal"}
    => Entry("generator") \in timings

================================================================================
