------------------------------ MODULE RunReducer -------------------------------
(***************************************************************************)
(* src/lib/runReducer.ts: the browser's view of one run as a pure function *)
(* of the snapshot it loaded and the events it was sent since.  One        *)
(* operator per action of the reducer, and one per kind of event.          *)
(*                                                                         *)
(* drafts, reviewsByVersion, scoresByVersion and                           *)
(* revisionPlansBySourceVersion are functions whose domains grow.          *)
(***************************************************************************)
EXTENDS RunTypes

CONSTANT TraceLimit   \* bound: the events of the view that are kept, the newest ones

ASSUME TraceAssumption == TraceLimit \in Nat

EMPTY_SEVERITY_COUNTS == [s \in FEEDBACK_SEVERITIES |-> 0]

countSeverities(items) ==
  [s \in FEEDBACK_SEVERITIES |-> Cardinality({i \in DOMAIN items : items[i] = s})]

severitiesFromEvaluation(evaluation) ==
  countSeverities(normalizeFeedback(
    IF evaluation.combined_feedback # <<>>
    THEN evaluation.combined_feedback ELSE FeedbackOf(evaluation.reviews)))

initialRunViewState ==
  [runId |-> Null, snapshot |-> Null, status |-> Null, connection |-> "idle",
   latestSequence |-> 0, events |-> <<>>, drafts |-> EmptyMap,
   reviewsByVersion |-> EmptyMap, scoresByVersion |-> EmptyMap,
   revisionPlansBySourceVersion |-> EmptyMap, bestVersion |-> Null,
   bestScore |-> Null, outcome |-> Null, selectedVersion |-> Null,
   selectionPinned |-> FALSE, pendingRevisionPlan |-> Null, isCreating |-> FALSE,
   pendingControl |-> Null, error |-> Null]

--------------------------------------------------------------------------------
(* Payloads. *)

Sent(payload, key) == key \in DOMAIN payload /\ payload[key] # Null

numberPayload(payload, key, fallback) ==
  IF Sent(payload, key) THEN payload[key] ELSE fallback

optionalNumberPayload(payload, key) == numberPayload(payload, key, Null)

\* must_fix_count, should_fix_count and optional_count travel together.
SEVERITY_PAYLOAD_KEY == "severity_counts"

\* null when no review of the version has any finding, or none has arrived.
severitiesFromReviews(reviews) ==
  IF FeedbackOf(reviews) = <<>> THEN Null ELSE countSeverities(FeedbackOf(reviews))

\* Faulty: counts a payload does not report are zero.
ReportedOrZero(payload, fromReviews) ==
  numberPayload(payload, SEVERITY_PAYLOAD_KEY, EMPTY_SEVERITY_COUNTS)

severityFromPayload(payload, fromReviews) ==
  IF ~Sent(payload, SEVERITY_PAYLOAD_KEY) /\ fromReviews # Null THEN fromReviews
  ELSE numberPayload(payload, SEVERITY_PAYLOAD_KEY, EMPTY_SEVERITY_COUNTS)

\* The gate of an older payload is read off the event that carried it.
outcomeFromPayload(payload, iteration, passed, severity) ==
  LET met == Get(payload, "threshold_met", FALSE) IN
  [thresholdMet |-> met,
   qualityGatePassed |-> Get(payload, "quality_gate_passed", passed /\ met),
   qualityThreshold |-> numberPayload(payload, "quality_threshold", 0),
   completedIterations |-> numberPayload(payload, "completed_iterations", iteration),
   maxIterations |-> numberPayload(payload, "max_iterations", iteration),
   bestVersion |-> optionalNumberPayload(payload, "best_version"),
   bestScore |-> optionalNumberPayload(payload, "best_score"),
   severity |-> severityFromPayload(payload, severity)]

--------------------------------------------------------------------------------
(* What a snapshot says. *)

Last1(seq) == IF seq = <<>> THEN Null ELSE seq[Len(seq)]

VersionsOf(snapshot) == {snapshot.versions[i] : i \in DOMAIN snapshot.versions}

\* An object built from entries in the order of their positions, a later entry
\* winning over an earlier one.
FromEntries(entries) ==
  [key \in {entries[i][1] : i \in DOMAIN entries} |->
     entries[MaxOf({i \in DOMAIN entries : entries[i][1] = key})][2]]

versionsFromSnapshot(versions) ==
  FromEntries([i \in DOMAIN versions |->
    <<versions[i].version,
      [version |-> versions[i].version, attempt |-> 1,
       content |-> versions[i].content, complete |-> TRUE]>>])

\* The positions of the versions that have an evaluation.
Evaluated(versions) == {i \in DOMAIN versions : versions[i].evaluation # Null}

Normalized(reviews) == [role \in DOMAIN reviews |-> normalizeReview(reviews[role])]

reviewsFromSnapshot(snapshot) ==
  LET versions == snapshot.versions
      rounds == FromEntries([i \in Evaluated(versions) |->
        <<versions[i].version, Normalized(versions[i].evaluation.reviews)>>])
  IN  IF DOMAIN snapshot.reviews = {} THEN rounds
      ELSE Put(rounds, snapshot.current_iteration, Normalized(snapshot.reviews))

ScoreOf(version, reviews, overall, severity) ==
  [version |-> version, overall |-> overall, severity |-> severity,
   byRole |-> [role \in Roles |-> reviews[role].score]]

scoresFromSnapshot(versions) ==
  FromEntries([i \in Evaluated(versions) |->
    LET evaluation == versions[i].evaluation
    IN  <<versions[i].version,
          ScoreOf(versions[i].version, evaluation.reviews, evaluation.overall_score,
                  severitiesFromEvaluation(evaluation))>>])

\* Faulty: a plan is filed under the version it produced.
ProducedVersion(plan, targetVersion) == targetVersion

planSourceVersion(plan, targetVersion) ==
  IF plan.iteration # Null /\ plan.iteration >= 1 THEN plan.iteration
  ELSE targetVersion - 1

Placed(plan, source, target) ==
  [sourceVersion |-> source, targetVersion |-> target, plan |-> plan]

revisionPlansFromSnapshot(snapshot) ==
  LET versions == snapshot.versions
      planned == {i \in DOMAIN versions : versions[i].revision_plan # Null}
      placed == FromEntries([i \in planned |->
        LET source == planSourceVersion(versions[i].revision_plan, versions[i].version)
        IN  <<source, Placed(versions[i].revision_plan, source, versions[i].version)>>])
      pending == snapshot.pending_revision_plan
      from == planSourceVersion(pending, snapshot.current_iteration)
  IN  IF pending = Null THEN placed
      ELSE Put(placed, from, Placed(pending, from, from + 1))

\* The server's pointer, or the first of the versions that score highest.
bestFromSnapshot(snapshot) ==
  LET scored == {v \in VersionsOf(snapshot) : v.evaluation # Null}
      top == {v \in scored : \A w \in scored :
                w.evaluation.overall_score <= v.evaluation.overall_score}
  IN  IF snapshot.best_version # Null /\ snapshot.best_score # Null
      THEN [version |-> snapshot.best_version, score |-> snapshot.best_score]
      ELSE IF scored = {} THEN [version |-> Null, score |-> Null]
      ELSE LET best == CHOOSE v \in top : \A w \in top : v.version <= w.version
           IN  [version |-> best.version, score |-> best.evaluation.overall_score]

outcomeFromSnapshot(snapshot, best) ==
  LET passed == snapshot.status = "COMPLETED"
      last == Last1(snapshot.versions)
      final == IF snapshot.latest_evaluation # Null THEN snapshot.latest_evaluation
               ELSE IF last = Null THEN Null ELSE last.evaluation
  IN  IF snapshot.status \notin {"COMPLETED", "MAX_ITERATIONS_REACHED"} THEN Null
      ELSE [thresholdMet |-> passed \/ (final # Null
                                /\ final.overall_score >= snapshot.quality_threshold),
            qualityGatePassed |-> passed,
            qualityThreshold |-> snapshot.quality_threshold,
            completedIterations |-> snapshot.current_iteration,
            maxIterations |-> snapshot.max_iterations,
            bestVersion |-> best.version,
            bestScore |-> best.score,
            severity |-> IF final = Null THEN EMPTY_SEVERITY_COUNTS
                         ELSE severitiesFromEvaluation(final)]

withNodeStatus(snapshot, node, status) ==
  IF snapshot = Null THEN Null
  ELSE [snapshot EXCEPT
          !.active_node = IF status = "RUNNING" THEN node
                          ELSE IF @ = node THEN Null ELSE @,
          !.node_statuses[node] = status]

\* Tokens stand for the five telemetry fields of the payload.
withTelemetry(snapshot, payload) ==
  IF snapshot = Null THEN Null
  ELSE [snapshot EXCEPT !.total_tokens = numberPayload(payload, "tokens", @)]

finalRoundSeverity(state, payload, iteration) ==
  LET version == numberPayload(payload, "final_version", iteration)
      reviewed == severitiesFromReviews(Get(state.reviewsByVersion, version, EmptyMap))
  IN  IF reviewed # Null THEN reviewed
      ELSE IF version \in DOMAIN state.scoresByVersion
           THEN state.scoresByVersion[version].severity ELSE Null

--------------------------------------------------------------------------------
(* applyEvent: the view after an event, from the view "next" that has it logged. *)

Follow(state, version) ==
  IF state.selectionPinned THEN state.selectedVersion ELSE version

StatusChanged(next, payload) ==
  IF Sent(payload, "current") THEN [next EXCEPT !.status = payload.current] ELSE next

NodeStarted(next, payload) ==
  IF Sent(payload, "node")
  THEN [next EXCEPT !.snapshot = withNodeStatus(@, payload.node, "RUNNING")] ELSE next

\* Faulty: the text of the attempt that failed stays in the draft.
ResetKeepsText(next, version, payload) ==
  [next EXCEPT !.drafts = Put(@, version,
     [version |-> version, attempt |-> numberPayload(payload, "attempt", 1),
      content |-> IF version \in DOMAIN next.drafts THEN next.drafts[version].content ELSE <<>>,
      complete |-> FALSE])]

\* An attempt that is not newer than the draft's is old news.
PrdStreamReset(next, version, payload) ==
  LET attempt == numberPayload(payload, "attempt", 1) IN
  IF version \in DOMAIN next.drafts /\ attempt <= next.drafts[version].attempt THEN next
  ELSE [next EXCEPT !.drafts = Put(@, version,
          [version |-> version, attempt |-> attempt, content |-> <<>>, complete |-> FALSE])]

\* A delta counts if it belongs to the attempt the draft is at.
PrdDelta(next, version, payload) ==
  LET attempt == numberPayload(payload, "attempt", 1)
      known == version \in DOMAIN next.drafts
      fits == IF known THEN /\ ~next.drafts[version].complete
                            /\ next.drafts[version].attempt = attempt
              ELSE attempt = 1
      sofar == IF known THEN next.drafts[version].content ELSE <<>>
  IN  IF ~fits THEN next
      ELSE [next EXCEPT
              !.drafts = Put(@, version,
                 [version |-> version, attempt |-> attempt,
                  content |-> Append(sofar, payload.delta), complete |-> FALSE]),
              !.selectedVersion = Follow(next, version)]

PrdGenerated(next, version, payload) ==
  [next EXCEPT
     !.drafts = Put(@, version,
        [version |-> version, attempt |-> numberPayload(payload, "attempt", 1),
         content |-> payload.content, complete |-> TRUE]),
     !.selectedVersion = Follow(next, version),
     !.snapshot = withNodeStatus(@, "generator", "SUCCEEDED")]

ReviewCompleted(next, iteration, review) ==
  IF review.role \notin Roles THEN next
  ELSE [next EXCEPT
          !.reviewsByVersion = Put(@, iteration,
             Put(Get(@, iteration, EmptyMap), review.role, normalizeReview(review))),
          !.snapshot = withNodeStatus(@, ReviewerOf(review.role), "SUCCEEDED")]

ScoresUpdated(next, iteration, payload) ==
  LET overall == numberPayload(payload, "overall", 0)
      improved == next.bestScore = Null \/ overall > next.bestScore
      reviews == Get(next.reviewsByVersion, iteration, EmptyMap)
  IN  [next EXCEPT
         !.scoresByVersion = Put(@, iteration,
            ScoreOf(iteration, payload.reviews, overall,
                    severityFromPayload(payload, severitiesFromReviews(reviews)))),
         !.bestVersion = numberPayload(payload, "best_version",
                           IF improved THEN iteration ELSE @),
         !.bestScore = numberPayload(payload, "best_score",
                         IF improved THEN overall ELSE @),
         !.snapshot = withNodeStatus(@, "aggregator", "SUCCEEDED")]

RevisionPlanned(next, iteration, payload) ==
  LET plan == Get(payload, "revision_plan", Null)
      source == planSourceVersion(plan, iteration)
      done == [next EXCEPT !.pendingRevisionPlan = plan,
                           !.snapshot = withNodeStatus(@, "optimizer", "SUCCEEDED")]
  IN  IF plan = Null THEN done
      ELSE [done EXCEPT !.revisionPlansBySourceVersion =
              Put(@, source, Placed(plan, source, MaxOf({iteration, source + 1})))]

\* run_completed and max_iterations_reached.
RunEnded(next, iteration, payload, status) ==
  LET outcome == outcomeFromPayload(payload, iteration, status = "COMPLETED",
                                    finalRoundSeverity(next, payload, iteration))
  IN  [next EXCEPT
         !.status = status, !.connection = "closed", !.outcome = outcome,
         !.bestVersion = IF outcome.bestVersion # Null THEN outcome.bestVersion ELSE @,
         !.bestScore = IF outcome.bestScore # Null THEN outcome.bestScore ELSE @]

RunFailed(next, payload) ==
  [next EXCEPT !.status = "FAILED", !.connection = "closed",
               !.error = localizedErrorMessage(
                  Get(payload, "error_code", Get(payload, "code", Null)))]

Logged(events, event) ==
  LET all == Append(events, event)
  IN  IF Len(all) <= TraceLimit THEN all ELSE SubSeq(all, 2, Len(all))

applyEvent(state, event) ==
  LET payload == event.payload
      version == numberPayload(payload, "version", event.iteration)
      next == [state EXCEPT !.latestSequence = event.sequence,
                            !.events = Logged(@, event), !.error = Null]
      kind == event.event
  IN  CASE kind \in {"status_changed", "pause_requested"} -> StatusChanged(next, payload)
        [] kind = "run_paused" -> [next EXCEPT !.status = "PAUSED"]
        [] kind = "run_resumed" -> [next EXCEPT !.status = "OPTIMIZING"]
        [] kind = "node_started" -> NodeStarted(next, payload)
        [] kind = "prd_stream_reset" -> PrdStreamReset(next, version, payload)
        [] kind = "prd_delta" -> PrdDelta(next, version, payload)
        [] kind = "prd_generated" -> PrdGenerated(next, version, payload)
        [] kind = "review_completed" -> ReviewCompleted(next, event.iteration, payload)
        [] kind = "scores_updated" -> ScoresUpdated(next, event.iteration, payload)
        [] kind = "revision_planned" -> RevisionPlanned(next, event.iteration, payload)
        [] kind = "telemetry_updated" ->
             [next EXCEPT !.snapshot = withTelemetry(@, payload)]
        [] kind = "run_completed" ->
             RunEnded(next, event.iteration, payload, "COMPLETED")
        [] kind = "max_iterations_reached" ->
             RunEnded(next, event.iteration, payload, "MAX_ITERATIONS_REACHED")
        [] kind = "run_cancelled" ->
             [next EXCEPT !.status = "CANCELLED", !.connection = "closed"]
        [] kind = "run_failed" -> RunFailed(next, payload)
        [] OTHER -> next

--------------------------------------------------------------------------------
(* runReducer: one operator per action. *)

CreateStarted(state) == [initialRunViewState EXCEPT !.isCreating = TRUE]

RunSelected(state, runId) ==
  [initialRunViewState EXCEPT !.runId = runId, !.connection = "connecting"]

\* current_prd is a text still being written, and not the mirror of the last version.
IsUnfinishedDraft(snapshot, drafts) ==
  /\ snapshot.current_iteration \notin DOMAIN drafts
  /\ snapshot.current_prd # <<>> \/ snapshot.current_prd_attempt > 1
  /\ Last1(snapshot.versions) # Null =>
       Reads(snapshot.current_prd) # Reads(Last1(snapshot.versions).content)

draftsFromSnapshot(snapshot) ==
  LET drafts == versionsFromSnapshot(snapshot.versions) IN
  IF ~IsUnfinishedDraft(snapshot, drafts) THEN drafts
  ELSE Put(drafts, snapshot.current_iteration,
           [version |-> snapshot.current_iteration, attempt |-> snapshot.current_prd_attempt,
            content |-> snapshot.current_prd, complete |-> FALSE])

\* Faulty: a reload forgets the version the reader pinned.
NewestOf(state, drafts) == IF DOMAIN drafts = {} THEN Null ELSE MaxOf(DOMAIN drafts)

KeptSelection(state, drafts) ==
  IF state.selectionPinned /\ state.selectedVersion \in DOMAIN drafts
  THEN state.selectedVersion
  ELSE IF DOMAIN drafts = {} THEN Null ELSE MaxOf(DOMAIN drafts)

SnapshotLoaded(state, snapshot) ==
  LET drafts == draftsFromSnapshot(snapshot)
      best == bestFromSnapshot(snapshot)
      selected == KeptSelection(state, drafts)
  IN  [state EXCEPT
         !.runId = snapshot.run_id, !.snapshot = snapshot, !.status = snapshot.status,
         !.latestSequence = snapshot.latest_event_sequence, !.drafts = drafts,
         !.reviewsByVersion = reviewsFromSnapshot(snapshot),
         !.scoresByVersion = scoresFromSnapshot(snapshot.versions),
         !.revisionPlansBySourceVersion = revisionPlansFromSnapshot(snapshot),
         !.bestVersion = best.version, !.bestScore = best.score,
         !.outcome = outcomeFromSnapshot(snapshot, best),
         !.selectedVersion = selected,
         !.selectionPinned = @ /\ selected = state.selectedVersion,
         !.pendingRevisionPlan = snapshot.pending_revision_plan,
         !.isCreating = FALSE, !.pendingControl = Null,
         !.error = IF snapshot.error = Null THEN Null
                   ELSE localizedErrorMessage(snapshot.error)]

\* Events of another run, old ones and those of a run that has ended are dropped.
IsRelevant(state, event) ==
  /\ event.run_id = state.runId
  /\ event.sequence > state.latestSequence
  /\ state.status = Null \/ ~isTerminalRunStatus(state.status)

EventReceived(state, event) ==
  IF IsRelevant(state, event) THEN applyEvent(state, event) ELSE state

ConnectionChanged(state, connection) == [state EXCEPT !.connection = connection]

ControlStarted(state, control) ==
  [state EXCEPT !.pendingControl = control, !.error = Null]

ControlFinished(state) == [state EXCEPT !.pendingControl = Null]

StatusUpdated(state, status) ==
  [state EXCEPT !.status = status, !.pendingControl = Null]

VersionSelected(state, version) ==
  [state EXCEPT !.selectedVersion = version, !.selectionPinned = TRUE]

Errored(state, message) ==
  [state EXCEPT !.isCreating = FALSE, !.pendingControl = Null, !.error = message]

ClearError(state) == [state EXCEPT !.error = Null]

Reset(state) == initialRunViewState

================================================================================
