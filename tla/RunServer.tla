------------------------------- MODULE RunServer -------------------------------
(***************************************************************************)
(* What one run's workflow (backend/workflow.py) writes through RunManager *)
(* (backend/run_manager.py): the snapshot with its data, and the log of    *)
(* the events clients are sent.  AgentWorkflow has the control of the same *)
(* nodes in full; here a step is a stretch of a node in which its task     *)
(* does not suspend, and all commits of the stretch are made by it.        *)
(***************************************************************************)
EXTENDS RunTypes

CONSTANTS
  Setups,          \* the runs that are looked at: records with
                   \*   max_iterations, quality_threshold of the request (the
                   \*     threshold in the unit of an overall score),
                   \*   reviews, the [score, feedback] a reviewer may answer,
                   \*   legacy, for a server from before severities, best
                   \*     versions and gates,
                   \*   pauses and chunks, bounds: the pause requests of the run,
                   \*     and the chunks of text of one attempt,
                   \*   picks, the versions its reader may pick
  PlanOffsets,     \* plan.iteration - the reviewed iteration; the model fills it in
  MaxChunks        \* bound: the chunks of text of one attempt of any run

ASSUME ServerAssumption ==
  /\ \A s \in Setups :
       /\ s.max_iterations \in Nat \ {0} /\ s.quality_threshold \in Nat
       /\ s.pauses \in Nat /\ s.chunks \in 1 .. MaxChunks /\ s.legacy \in BOOLEAN /\ s.picks \subseteq Nat
       /\ \A r \in s.reviews :
            r.score \in Nat /\ r.feedback \in IF s.legacy THEN Feedback
                                           ELSE Seq(FEEDBACK_SEVERITIES)
  /\ MaxChunks \in Nat \ {0} /\ PlanOffsets \subseteq Int

VARIABLES
  setup,      \* the one of Setups this run is of
  snapshot,   \* RunSnapshot, as GET /api/runs/{id} answers it
  stream,     \* the logged events a connected browser has not been sent yet
  phase,      \* where the workflow is; "leaving": the generator, behind a cancel
  waiting,    \* the reviewers that have not begun this round
  pauses      \* the pause requests so far

server == <<setup, snapshot, stream, phase, waiting, pauses>>

Marker == <<0>>        \* the completion marker the document must carry
FailureCode == "PROVIDER_INSUFFICIENT_BALANCE"

NoRound == [role \in {} |-> Null]

Init ==
  /\ setup \in Setups
  /\ snapshot =
       [run_id |-> RunId, current_iteration |-> 1, max_iterations |-> setup.max_iterations,
        quality_threshold |-> setup.quality_threshold, status |-> "QUEUED", active_node |-> Null,
        versions |-> <<>>, current_prd |-> <<>>, current_prd_attempt |-> 1,
        latest_evaluation |-> Null, best_version |-> Null, best_score |-> Null,
        reviews |-> NoRound, pending_revision_plan |-> Null,
        node_statuses |-> [n \in Nodes |-> "PENDING"], total_tokens |-> 0,
        error |-> Null, latest_event_sequence |-> 0]
  /\ stream = <<>>
  /\ phase = "created"
  /\ waiting = {}
  /\ pauses = 0

--------------------------------------------------------------------------------
(* RunManager.commit, transition, set_stage, mark_node and record_usage, over *)
(* the snapshot and the events a stretch has come to: a pair <<snap, events>>. *)

Commit(at, snap, kind, payload) ==
  <<snap, Append(at[2], [run_id |-> RunId, event |-> kind,
                         sequence |-> snapshot.latest_event_sequence + Len(at[2]) + 1,
                         iteration |-> snap.current_iteration, payload |-> payload])>>

Started == <<snapshot, <<>> >>

Transition(at, target, kind, payload) ==
  Commit(at, [at[1] EXCEPT !.status = target,
                           !.active_node = IF target \in TerminalStatuses THEN Null ELSE @],
         kind, [k \in {"current"} \cup DOMAIN payload |->
                  IF k = "current" THEN target ELSE payload[k]])

SetStage(at, target) ==
  IF at[1].status \in {"PAUSE_REQUESTED", "CANCEL_REQUESTED", target} THEN at
  ELSE Transition(at, target, "status_changed", EmptyMap)

MarkRunning(at, node) ==
  Commit(at, [at[1] EXCEPT !.node_statuses[node] = "RUNNING", !.active_node = node],
         "node_started", [node |-> node])

RecordUsage(at) ==
  Commit(at, [at[1] EXCEPT !.total_tokens = @ + 1], "telemetry_updated",
         [tokens |-> at[1].total_tokens + 1])

\* The stretch is over: what it wrote is there to read.
Write(at) ==
  /\ snapshot' = [at[1] EXCEPT !.latest_event_sequence = @ + Len(at[2])]
  /\ stream' = stream \o at[2]

Succeed(snap, node) ==
  [snap EXCEPT !.node_statuses[node] = "SUCCEEDED",
               !.active_node = IF node \in Reviewers /\ @ # node THEN @ ELSE Null]

--------------------------------------------------------------------------------
(* The generator. *)

Attempt == snapshot.current_prd_attempt

BeginStream(snap, attempt) ==
  [snap EXCEPT !.current_prd = <<>>, !.current_prd_attempt = attempt]

\* run_started, then the generator up to its first provider call.
BeginGenerator ==
  LET at0 == IF phase = "created" THEN Commit(Started, snapshot, "run_started", EmptyMap)
             ELSE Started
      at == MarkRunning(SetStage(at0, "GENERATING"), "generator")
  IN  /\ phase \in {"created", "planned"}
      /\ Write(<<BeginStream(at[1], 1), at[2]>>)
      /\ phase' = "writing"
      /\ UNCHANGED <<setup, waiting, pauses>>

Chunk(k) == <<snapshot.current_iteration, Attempt, k>>

\* _commit_delta: a chunk of the text, or the completion marker behind it.
WriteChunk ==
  LET k == Len(snapshot.current_prd) + 1 IN
  /\ phase = "writing"
  /\ Marker \notin Range(snapshot.current_prd)
  /\ \E chunk \in {Chunk(k)} \cup {Marker} :
       /\ IF chunk = Marker THEN k > 1 ELSE k <= setup.chunks
       /\ Write(Commit(Started, [snapshot EXCEPT !.current_prd = Append(@, chunk)], "prd_delta",
            [version |-> snapshot.current_iteration, attempt |-> Attempt, delta |-> chunk]))
  /\ UNCHANGED <<setup, phase, waiting, pauses>>

\* The first attempt fails in a way that is retried; its usage may be known.  The
\* next look at a cancellation is that of the second attempt, behind the reset.
RetryGeneration ==
  /\ phase \in {"writing", "leaving"} /\ Attempt = 1
  /\ \E at \in {Started, RecordUsage(Started)} :
       Write(Commit(at, BeginStream(at[1], 2), "prd_stream_reset",
                    [version |-> snapshot.current_iteration, attempt |-> 2]))
  /\ phase' = IF phase = "leaving" THEN "over" ELSE phase
  /\ UNCHANGED <<setup, waiting, pauses>>

\* The second attempt fails too, and what it has spent is recorded first.
GiveUp ==
  /\ phase \in {"writing", "leaving"} /\ Attempt = 2
  /\ Write(RecordUsage(Started))
  /\ phase' = IF phase = "leaving" THEN "over" ELSE "failing"
  /\ UNCHANGED <<setup, waiting, pauses>>

\* validate_generated_prd, on a document it accepts.
Validated(text) == Selected(text, {k \in DOMAIN text : text[k] # Marker})

FinishGeneration ==
  LET content == Validated(snapshot.current_prd)
      version == [version |-> snapshot.current_iteration, content |-> content,
                  evaluation |-> Null, revision_plan |-> snapshot.pending_revision_plan]
      done == [Succeed(snapshot, "generator") EXCEPT
                 !.versions = Append(@, version), !.current_prd = content,
                 !.pending_revision_plan = Null]
      at == Commit(Started, done, "prd_generated",
              [version |-> version.version, attempt |-> Attempt, content |-> content])
  IN  /\ phase = "writing" /\ Marker \in Range(snapshot.current_prd)
      /\ Write(SetStage(RecordUsage(at), "REVIEWING"))
      /\ phase' = "reviewing"
      /\ waiting' = Roles
      /\ UNCHANGED <<setup, pauses>>

--------------------------------------------------------------------------------
(* The reviewers and the aggregator. *)

BeginReview(role) ==
  /\ phase = "reviewing" /\ role \in waiting
  /\ Write(MarkRunning(Started, ReviewerOf(role)))
  /\ waiting' = waiting \ {role}
  /\ UNCHANGED <<setup, phase, pauses>>

FinishReview(role) ==
  /\ phase = "reviewing" /\ role \notin waiting \cup DOMAIN snapshot.reviews
  /\ \E answer \in setup.reviews :
       LET review == [role |-> role, score |-> answer.score, feedback |-> answer.feedback]
           done == [Succeed(snapshot, ReviewerOf(role)) EXCEPT
                      !.reviews = Put(@, role, review)]
       IN  Write(RecordUsage(Commit(Started, done, "review_completed", review)))
  /\ UNCHANGED <<setup, phase, waiting, pauses>>

ScoreBy(role) == IF role \in Roles THEN snapshot.reviews[role].score ELSE 0

Evaluation ==
  [reviews |-> snapshot.reviews,
   overall_score |-> ScoreBy("tech") + ScoreBy("ux") + ScoreBy("biz"),
   combined_feedback |-> IF setup.legacy THEN <<>> ELSE FeedbackOf(snapshot.reviews)]

\* severity_counts, which is the server's own count.
SeverityCounts(evaluation) ==
  [s \in FEEDBACK_SEVERITIES |->
     Cardinality({i \in DOMAIN evaluation.combined_feedback :
                    evaluation.combined_feedback[i] = s})]

ThresholdMet == Evaluation.overall_score >= snapshot.quality_threshold
GatePassed == ThresholdMet /\ SeverityCounts(Evaluation)["must_fix"] = 0

Improved == snapshot.best_score = Null \/ Evaluation.overall_score > snapshot.best_score
Best == IF setup.legacy THEN [version |-> Null, score |-> Null]
        ELSE IF Improved THEN [version |-> snapshot.current_iteration,
                               score |-> Evaluation.overall_score]
        ELSE [version |-> snapshot.best_version, score |-> snapshot.best_score]

Scored(snap) ==
  [Succeed(snap, "aggregator") EXCEPT
     !.latest_evaluation = Evaluation,
     !.versions[Len(snap.versions)].evaluation = Evaluation,
     !.best_version = Best.version, !.best_score = Best.score]

\* What a server of before the severity contract does not send.
Since(payload) ==
  IF setup.legacy THEN [k \in DOMAIN payload \ {"severity_counts", "quality_gate_passed",
                                          "best_version", "best_score"} |-> payload[k]]
  ELSE payload

ScoresPayload ==
  Since([reviews |-> Evaluation.reviews, overall |-> Evaluation.overall_score,
         version |-> snapshot.current_iteration, best_version |-> Best.version,
         best_score |-> Best.score, severity_counts |-> SeverityCounts(Evaluation),
         quality_gate_passed |-> GatePassed])

Outcome ==
  Since([final_version |-> snapshot.current_iteration, best_version |-> Best.version,
         best_score |-> Best.score, quality_threshold |-> snapshot.quality_threshold,
         completed_iterations |-> snapshot.current_iteration,
         max_iterations |-> snapshot.max_iterations, threshold_met |-> ThresholdMet,
         quality_gate_passed |-> GatePassed,
         severity_counts |-> SeverityCounts(Evaluation)])

\* enter_paused.
Park(at) == Transition(at, "PAUSED", "run_paused", EmptyMap)

Aggregate ==
  LET begun == MarkRunning(SetStage(Started, "AGGREGATING"), "aggregator")
      at == Commit(begun, Scored(begun[1]), "scores_updated", ScoresPayload)
  IN  /\ phase = "reviewing" /\ DOMAIN snapshot.reviews = Roles
      /\ \/ /\ GatePassed
            /\ Write(Transition(at, "COMPLETED", "run_completed", Outcome))
            /\ phase' = "over"
         \/ /\ ~GatePassed /\ snapshot.current_iteration >= snapshot.max_iterations
            /\ Write(Transition(at, "MAX_ITERATIONS_REACHED", "max_iterations_reached", Outcome))
            /\ phase' = "over"
         \/ /\ ~GatePassed /\ snapshot.current_iteration < snapshot.max_iterations
            /\ IF snapshot.status = "PAUSE_REQUESTED"
               THEN Write(Park(at)) /\ phase' = "paused"
               ELSE Write(SetStage(at, "OPTIMIZING")) /\ phase' = "aggregated"
      /\ UNCHANGED <<setup, waiting, pauses>>

--------------------------------------------------------------------------------
(* The optimizer. *)

BeginOptimizer ==
  /\ phase = "aggregated"
  /\ IF snapshot.status = "PAUSE_REQUESTED"
     THEN Write(Park(Started)) /\ phase' = "paused"
     ELSE /\ Write(MarkRunning(SetStage(Started, "OPTIMIZING"), "optimizer"))
          /\ phase' = "planning"
  /\ UNCHANGED <<setup, waiting, pauses>>

FinishOptimizer ==
  /\ phase = "planning"
  /\ \E offset \in PlanOffsets :
       LET plan == [iteration |-> IF setup.legacy THEN Null
                                  ELSE snapshot.current_iteration + offset]
           done == [Succeed(snapshot, "optimizer") EXCEPT
                      !.pending_revision_plan = plan,
                      !.current_iteration = @ + 1, !.reviews = NoRound]
       IN  Write(SetStage(RecordUsage(Commit(Started, done, "revision_planned",
                                             [revision_plan |-> plan])), "GENERATING"))
  /\ phase' = "planned"
  /\ UNCHANGED <<setup, waiting, pauses>>

--------------------------------------------------------------------------------
(* Requests, and failure. *)

PauseRun ==
  /\ pauses < setup.pauses
  /\ snapshot.status \in PausableStatuses
  /\ Write(Transition(Started, "PAUSE_REQUESTED", "pause_requested", EmptyMap))
  /\ pauses' = pauses + 1
  /\ UNCHANGED <<setup, phase, waiting>>

ResumeRun ==
  /\ snapshot.status = "PAUSED"
  /\ Write(Commit(Started, [snapshot EXCEPT !.status = "OPTIMIZING"], "run_resumed", EmptyMap))
  /\ phase' = "aggregated"
  /\ UNCHANGED <<setup, waiting, pauses>>

\* The generator may hold a failed attempt by now, and go on with it for a while.
CancelRun ==
  /\ phase # "created" /\ snapshot.status \notin TerminalStatuses
  /\ Write(Transition(Transition(Started, "CANCEL_REQUESTED", "status_changed", EmptyMap),
                      "CANCELLED", "run_cancelled", EmptyMap))
  /\ phase' = IF phase = "writing" THEN "leaving" ELSE "over"
  /\ UNCHANGED <<setup, waiting, pauses>>

\* fail_run: the provider lets a node down for good.
FailRun ==
  /\ phase \in {"writing", "failing", "reviewing", "planning"}
  /\ Write(Commit(Started,
       [snapshot EXCEPT !.status = "FAILED", !.error = FailureCode, !.active_node = Null,
          !.node_statuses = [n \in Nodes |-> IF n = snapshot.active_node THEN "FAILED"
                                             ELSE @[n]]],
       "run_failed", [error_code |-> FailureCode]))
  /\ phase' = "over"
  /\ UNCHANGED <<setup, waiting, pauses>>

ServerNext ==
  \/ BeginGenerator \/ WriteChunk \/ RetryGeneration \/ GiveUp \/ FinishGeneration
  \/ \E role \in Roles : BeginReview(role) \/ FinishReview(role)
  \/ Aggregate \/ BeginOptimizer \/ FinishOptimizer
  \/ PauseRun \/ ResumeRun \/ CancelRun \/ FailRun

================================================================================
