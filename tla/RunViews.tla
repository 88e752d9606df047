------------------------------- MODULE RunViews --------------------------------
(***************************************************************************)
(* What the page shows of a RunViewState: the components of                *)
(* src/components as functions of the reducer's view.  A component that    *)
(* is left out of the page is Null.  Wording, icons and layout are left    *)
(* out; which facts are shown, and which buttons there are, is not.        *)
(***************************************************************************)
EXTENDS RunReducer

Ascending(S) == SetToSortSeq(S, <)
Newest(seq, n) == SubSeq(seq, MaxOf({1, Len(seq) - n + 1}), Len(seq))
Total(counts) == counts["must_fix"] + counts["should_fix"] + counts["optional"]

--------------------------------------------------------------------------------
(* failureNotice.ts *)

\* Faulty: the versions the page was sent since it was opened are forgotten.
VersionsOfSnapshot(state) == {v.version : v \in VersionsOf(state.snapshot)}

CompletedVersions(state) ==
  {v.version : v \in IF state.snapshot = Null THEN {} ELSE VersionsOf(state.snapshot)}
    \cup {v \in DOMAIN state.drafts : state.drafts[v].complete}

ReviewedVersions(state) ==
  DOMAIN state.reviewsByVersion
    \cup {v.version : v \in {w \in VersionsOf(state.snapshot) : w.evaluation # Null}}

HasRevisionPlan(state) ==
  \/ state.pendingRevisionPlan # Null
  \/ DOMAIN state.revisionPlansBySourceVersion # {}
  \/ \E v \in VersionsOf(state.snapshot) : v.revision_plan # Null

\* The newest version the page knows the run to have worked on.
FailedVersion(state) ==
  MaxOf({state.snapshot.current_iteration} \cup DOMAIN state.drafts
          \cup CompletedVersions(state))

failureNotice(state) ==
  LET kept == {v \in CompletedVersions(state) : v < FailedVersion(state)} IN
  IF state.status # "FAILED" \/ state.snapshot = Null THEN Null
  ELSE IF FailedVersion(state) \in CompletedVersions(state) THEN Null
  ELSE [version |-> IF kept = {} THEN Null ELSE FailedVersion(state),
        kept |-> kept,
        reviews |-> kept \cap ReviewedVersions(state) # {},
        plan |-> kept # {} /\ HasRevisionPlan(state),
        best |-> IF state.bestVersion \in kept THEN state.bestVersion ELSE Null]

--------------------------------------------------------------------------------
(* outcomeSummary.ts and OutcomePanel.tsx *)

\* Faulty: a score that met the target is a success.
ToneOfScore(outcome) == IF outcome.thresholdMet THEN "passed" ELSE "unmet"

tone(outcome) ==
  CASE outcome.qualityGatePassed -> "passed"
    [] ~outcome.qualityGatePassed /\ outcome.thresholdMet -> "blocked"
    [] OTHER -> "unmet"

\* The remaining blockers, the exhausted budget, or advice that is left.
OutcomeNote(outcome) ==
  LET rest == outcome.severity["should_fix"] + outcome.severity["optional"] IN
  CASE tone(outcome) = "blocked" ->
         [budget |-> TRUE, blockers |-> outcome.severity["must_fix"], advice |-> FALSE]
    [] tone(outcome) = "unmet" -> [budget |-> TRUE, blockers |-> 0, advice |-> FALSE]
    [] OTHER -> [budget |-> FALSE, blockers |-> 0, advice |-> rest > 0]

summarizeOutcome(outcome) ==
  [tone |-> tone(outcome), target |-> outcome.qualityThreshold,
   best |-> IF outcome.bestVersion = Null \/ outcome.bestScore = Null THEN Null
            ELSE <<outcome.bestVersion, outcome.bestScore>>,
   completed |-> <<outcome.completedIterations, outcome.maxIterations>>,
   severity |-> outcome.severity, note |-> OutcomeNote(outcome)]

OutcomePanel(state) ==
  IF state.outcome = Null THEN Null ELSE summarizeOutcome(state.outcome)

--------------------------------------------------------------------------------
(* ReviewPanel.tsx *)

\* The findings of a reviewer, the tiers that block the most first.
FeedbackList(items) ==
  FlattenSeq([i \in 1 .. 3 |->
    SelectSeq(items, LAMBDA item : item = <<"must_fix", "should_fix", "optional">>[i])])

ReviewerCard(review, previous) ==
  [score |-> review.score,
   delta |-> IF previous = Null THEN Null ELSE review.score - previous.score,
   findings |-> FeedbackList(review.feedback)]

ReviewPanel(reviews, previousReviews, severity) ==
  IF DOMAIN reviews = {} THEN Null
  ELSE [totals |-> severity,
        cards |-> [role \in DOMAIN reviews |->
                     ReviewerCard(reviews[role], Get(previousReviews, role, Null))]]

--------------------------------------------------------------------------------
(* RevisionPlanPanel.tsx, RadarScoreChart.tsx and VersionRail.tsx *)

RevisionPlanPanel(entry) ==
  IF entry = Null THEN Null ELSE [source |-> entry.sourceVersion, target |-> entry.targetVersion]

\* The last three scored versions; the newest is the accented one.
RadarScoreChart(scores) == Newest(Ascending(DOMAIN scores), 3)

VersionRail(state) ==
  [v \in DOMAIN state.drafts |->
     [best |-> v = state.bestVersion,
      score |-> IF v \in DOMAIN state.scoresByVersion
                THEN state.scoresByVersion[v].overall ELSE Null]]

--------------------------------------------------------------------------------
(* PRDViewer.tsx *)

PRDViewer(draft, score) ==
  [version |-> IF draft = Null THEN Null ELSE draft.version,
   overall |-> IF score = Null THEN Null ELSE score.overall,
   content |-> IF draft = Null THEN <<>> ELSE draft.content,
   generating |-> draft # Null /\ ~draft.complete,
   diagrams |-> draft # Null /\ draft.complete,
   download |-> draft # Null /\ draft.content # <<>>]

--------------------------------------------------------------------------------
(* WorkflowDiagram.tsx and StatusBadge.tsx *)

CompleteStatus(runStatus) ==
  CASE runStatus \in {"FAILED", "CANCELLED"} -> "FAILED"
    [] runStatus \in TerminalStatuses \ {"FAILED", "CANCELLED"} -> "SUCCEEDED"
    [] OTHER -> "PENDING"

WorkflowDiagram(state) ==
  [node \in Nodes \cup {"complete"} |->
     IF node = "complete" THEN CompleteStatus(state.status)
     ELSE Get(state.snapshot.node_statuses, node, "PENDING")]

StatusTone(status) ==
  CASE status \in {"COMPLETED", "MAX_ITERATIONS_REACHED"} -> "ok"
    [] status \in {"FAILED", "CANCELLED"} -> "danger"
    [] status \in {"PAUSE_REQUESTED", "PAUSED", "CANCEL_REQUESTED"} -> "warn"
    [] OTHER -> "accent"

--------------------------------------------------------------------------------
(* TelemetryPanel.tsx *)

TelemetryPanel(snapshot) ==
  [iteration |-> snapshot.current_iteration, tokens |-> snapshot.total_tokens]

--------------------------------------------------------------------------------
(* trace.ts and AgentTrace.tsx *)

Blocking(feedback) == Len(SelectSeq(feedback, LAMBDA item : item = "must_fix"))

\* Status changes, text and telemetry leave no entry in the trace.
Traced(event) == event.event \notin {"status_changed", "prd_delta", "prd_stream_reset",
                                     "telemetry_updated"}

toTraceItem(event) ==
  [sequence |-> event.sequence, kind |-> event.event, iteration |-> event.iteration,
   findings |-> CASE event.event = "review_completed" ->
                       <<Len(event.payload.feedback), Blocking(event.payload.feedback)>>
                  [] event.event = "max_iterations_reached" ->
                       <<0, numberPayload(event.payload, SEVERITY_PAYLOAD_KEY,
                                          EMPTY_SEVERITY_COUNTS)["must_fix"]>>
                  [] OTHER -> <<0, 0>>]

AgentTrace(events) ==
  LET shown == SelectSeq(events, Traced)
  IN  [i \in DOMAIN shown |-> toTraceItem(shown[i])]

--------------------------------------------------------------------------------
(* RunControls.tsx *)

PAUSABLE == {"GENERATING", "REVIEWING", "AGGREGATING", "OPTIMIZING"}

\* The requests the reader can make; none while one is on its way.
OfferedControls(state) ==
  {c \in {"pause", "cancel", "resume"} :
     /\ state.pendingControl = Null
     /\ CASE c = "pause" -> state.status \in PAUSABLE
          [] c = "cancel" -> /\ ~isTerminalRunStatus(state.status)
                             /\ state.status # "CANCEL_REQUESTED"
          [] c = "resume" -> state.status = "PAUSED"}

--------------------------------------------------------------------------------
(* AgentDashboard.tsx *)

\* Which of the three screens there is.
Screen(state) ==
  IF state.runId = Null THEN "form"
  ELSE IF state.snapshot = Null \/ state.status = Null THEN "recovering" ELSE "workspace"

\* Whether the page offers to connect again.
OffersRetry(state) ==
  \/ state.error # Null /\ state.runId # Null /\ state.status = Null
  \/ Screen(state) = "workspace" /\ state.connection # "open"
       /\ ~isTerminalRunStatus(state.status)

\* The version before v among those there are.
previousVersionOf(state, v) ==
  LET earlier == {u \in DOMAIN state.drafts : u < v}
  IN  IF v = Null \/ earlier = {} THEN Null ELSE MaxOf(earlier)

comparableContent(draft) ==
  IF draft # Null /\ draft.complete /\ draft.content # <<>> THEN draft.content ELSE Null

DraftOf(state, v) == Get(state.drafts, v, Null)

\* The 对比 tab: the two documents it compares, if both are finished.
Comparison(state) ==
  LET selected == state.selectedVersion
      previous == previousVersionOf(state, selected)
      source == IF previous = Null THEN Null ELSE comparableContent(DraftOf(state, previous))
      target == comparableContent(DraftOf(state, selected))
  IN  IF previous = Null \/ selected = Null \/ source = Null \/ target = Null THEN Null
      ELSE [from |-> previous, to |-> selected, source |-> source, target |-> target]

\* The panels of the tabs, for the selected version; a disabled tab is Null.
Tabs(state) ==
  LET selected == state.selectedVersion
      previous == previousVersionOf(state, selected)
      score == Get(state.scoresByVersion, selected, Null)
  IN  [prd |-> PRDViewer(DraftOf(state, selected), score),
       review |-> ReviewPanel(Get(state.reviewsByVersion, selected, EmptyMap),
                              Get(state.reviewsByVersion, previous, EmptyMap),
                              IF score = Null THEN Null ELSE score.severity),
       findings |-> IF score = Null THEN 0 ELSE Total(score.severity),
       plan |-> RevisionPlanPanel(Get(state.revisionPlansBySourceVersion, selected, Null)),
       diff |-> Comparison(state),
       chart |-> RadarScoreChart(state.scoresByVersion)]

EnabledTabs(state) ==
  {"prd", "trace"}
    \cup {id \in {"review"} : state.selectedVersion \in DOMAIN state.reviewsByVersion}
    \cup {id \in {"plan"} : state.selectedVersion \in DOMAIN state.revisionPlansBySourceVersion}
    \cup {id \in {"diff"} : Comparison(state) # Null}

\* The tab that is shown when the reader asked for one.
activeTab(state, requested) == IF requested \in EnabledTabs(state) THEN requested ELSE "prd"

\* The header of the workspace.
Header(state) ==
  [status |-> state.status, tone |-> StatusTone(state.status),
   outcome |-> OutcomePanel(state), rail |-> VersionRail(state),
   controls |-> OfferedControls(state), error |-> state.error]

================================================================================
