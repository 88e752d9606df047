------------------------- MODULE RunProjectionInvariant -------------------------
(***************************************************************************)
(* The inductive invariant of RunProjection.  Every page on the way to     *)
(* being up to date, from the one the browser has now to the one it will   *)
(* have once all events have arrived, is well formed, and the last of them *)
(* knows what the server's snapshot says.  Delivering an event then        *)
(* changes nothing, loading a snapshot leaves one page, and a step of the  *)
(* server adds its pages at the end.  What the generator writes behind a   *)
(* cancellation changes no page, and may leave the text of one out of date *)
(* (MissedReset).                                                          *)
(***************************************************************************)
EXTENDS RunProjection

Ended == {"COMPLETED", "MAX_ITERATIONS_REACHED"}

--------------------------------------------------------------------------------
(* The snapshot. *)

\* A beginning of the text of one attempt at a version.
IsTextOf(text, version, attempt) ==
  /\ \A k \in DOMAIN text :
       text[k] = Marker \/ (text[k] = <<version, attempt, k>> /\ k <= MaxChunks)
  /\ text # <<>> => text[1] = <<version, attempt, 1>>

\* A reviewer's findings have severities, unless the server is an old one.
IsClean(reviews) ==
  ~setup.legacy =>
    \A role \in DOMAIN reviews : reviews[role].feedback \in Seq(FEEDBACK_SEVERITIES)

IsEvaluation(evaluation) ==
  /\ evaluation \in EvaluationResult
  /\ IsClean(evaluation.reviews)
  /\ evaluation.combined_feedback =
       IF setup.legacy THEN <<>> ELSE FeedbackOf(evaluation.reviews)

\* Every version but the first was written from a plan.
IsPlanFor(plan, version) == IF version = 1 THEN plan = Null ELSE plan \in RevisionPlan

\* The i-th version has a document of its own.
IsVersion(version, i) ==
  /\ version.version = i
  /\ version.content # <<>> /\ version.content[1][1] = i
  /\ version.evaluation # Null => IsEvaluation(version.evaluation)
  /\ IsPlanFor(version.revision_plan, i)

\* The version the run is at is the last one there is, or the one behind it.
VersionsAreInOrder(s) ==
  /\ s.current_iteration \in {Len(s.versions), Len(s.versions) + 1} \ {0}
  /\ \A i \in DOMAIN s.versions : IsVersion(s.versions[i], i)
  /\ \A i \in DOMAIN s.versions : i < s.current_iteration => s.versions[i].evaluation # Null
  /\ IF s.current_iteration = Len(s.versions) THEN s.pending_revision_plan = Null
     ELSE IsPlanFor(s.pending_revision_plan, s.current_iteration)

\* The reviews are those of the last version, and its evaluation is made of them.
ReviewsAreOfTheVersion(s) ==
  /\ IsClean(s.reviews)
  /\ s.current_iteration # Len(s.versions) => DOMAIN s.reviews = {}
  /\ s.current_iteration = Len(s.versions) /\ s.versions[Len(s.versions)].evaluation # Null =>
       /\ s.latest_evaluation = s.versions[Len(s.versions)].evaluation
       /\ s.latest_evaluation.reviews = s.reviews

\* The server's pointer is to a version that scored highest.
BestIsTheBest(s) ==
  LET score(i) == s.versions[i].evaluation.overall_score IN
  IF setup.legacy \/ Evaluated(s.versions) = {} THEN s.best_version = Null /\ s.best_score = Null
  ELSE /\ s.best_version \in Evaluated(s.versions) /\ s.best_score = score(s.best_version)
       /\ \A i \in Evaluated(s.versions) : score(i) <= s.best_score

\* current_prd is the mirror of the last version, or a new text.
TextIsOfOneAttempt(s) ==
  \/ s.current_iteration = Len(s.versions) /\ s.current_prd = s.versions[Len(s.versions)].content
  \/ /\ s.current_iteration # Len(s.versions)
     /\ \/ Len(s.versions) # 0 /\ s.current_prd = s.versions[Len(s.versions)].content
        \/ IsTextOf(s.current_prd, s.current_iteration, s.current_prd_attempt)

\* Of the runs that ended by themselves, those completed that passed the gate.
Passed(s) ==
  /\ s.latest_evaluation.overall_score >= s.quality_threshold
  /\ SeverityCounts(s.latest_evaluation)["must_fix"] = 0

EndIsJust(s) ==
  /\ s.error = IF s.status = "FAILED" THEN FailureCode ELSE Null
  /\ s.status \in Ended =>
       /\ s.current_iteration = Len(s.versions)
       /\ s.versions[Len(s.versions)].evaluation # Null
       /\ s.status = "COMPLETED" <=> Passed(s)

SnapshotOK(s) ==
  /\ IsRunSnapshot(s) /\ s.run_id = RunId /\ s.current_prd_attempt \in {1, 2}
  /\ VersionsAreInOrder(s)
  /\ ReviewsAreOfTheVersion(s)
  /\ BestIsTheBest(s)
  /\ TextIsOfOneAttempt(s)
  /\ EndIsJust(s)

\* Where the workflow is, and what the snapshot has of it.
PhaseOK ==
  LET written == snapshot.current_iteration = Len(snapshot.versions)
      last == snapshot.versions[Len(snapshot.versions)]
  IN
  /\ setup \in Setups /\ pauses \in Nat /\ waiting \subseteq Roles
  /\ phase \in {"over", "leaving"} <=> isTerminalRunStatus(snapshot.status)
  /\ snapshot.status = "PAUSED" => phase = "paused"
  /\ CASE phase = "created" ->
            /\ ~written /\ Len(snapshot.versions) = 0
            /\ snapshot.current_prd = <<>> /\ snapshot.current_prd_attempt = 1
       [] phase = "planned" ->
            ~written /\ Len(snapshot.versions) # 0 /\ snapshot.current_prd = last.content
       [] phase \in {"writing", "failing"} ->
            ~written /\ IsTextOf(snapshot.current_prd, snapshot.current_iteration, Attempt)
       [] phase = "leaving" -> ~written /\ snapshot.status = "CANCELLED"
       [] phase = "reviewing" -> written /\ last.evaluation = Null
       [] phase \in {"aggregated", "paused", "planning"} -> written /\ last.evaluation # Null
       [] OTHER -> phase = "over"

--------------------------------------------------------------------------------
(* The pages. *)

\* A draft is of one version; an unfinished one is of one attempt.
IsDraft(drafts, version) ==
  LET draft == drafts[version] IN
  /\ draft \in VersionDraft /\ draft.version = version
  /\ ~draft.complete => \E n \in 0 .. MaxChunks : IsRestOfAttempt(drafts, version, n)

PageOK(page) ==
  /\ DOMAIN page = DOMAIN initialRunViewState
  /\ page.runId = RunId /\ page.status \in RunStatuses /\ page.pendingControl = Null
  /\ page.selectionPinned \in BOOLEAN
  /\ page.selectedVersion \in Maybe(DOMAIN page.drafts)
  /\ page.snapshot = Null \/ IsRunSnapshot(page.snapshot)
  /\ \A v \in DOMAIN page.drafts : IsDraft(page.drafts, v)
  /\ \A v \in DOMAIN page.reviewsByVersion : \A role \in DOMAIN page.reviewsByVersion[v] :
       page.reviewsByVersion[v][role].feedback \in Seq(FEEDBACK_SEVERITIES)

\* A page that has been sent everything has the versions there are.  The attempt of a
\* finished draft is forgotten by the server.
HasVersions(drafts, s) ==
  LET written == 1 .. Len(s.versions) IN
  /\ written \subseteq DOMAIN drafts
  /\ DOMAIN drafts \subseteq written \cup {s.current_iteration}
  /\ \A v \in written : drafts[v].content = s.versions[v].content
  /\ \A v \in DOMAIN drafts : drafts[v].complete \in BOOLEAN
  /\ \A v \in written : drafts[v].complete
  /\ \A v \in DOMAIN drafts \ written : ~drafts[v].complete

\* Something has been written of the next version, or it is at its second attempt.
IsStarted(s) ==
  /\ s.current_iteration # Len(s.versions)
  /\ s.current_prd # <<>> \/ s.current_prd_attempt > 1
  /\ Len(s.versions) # 0 => s.current_prd # s.versions[Len(s.versions)].content

\* It has the text that is being written, but for a beginning that read the same as
\* the last version when the page was loaded, and none of it if there was a first
\* attempt before.
HasRest(drafts, s) ==
  LET cur == s.current_iteration IN
  IF ~IsStarted(s) THEN DOMAIN drafts = 1 .. Len(s.versions)
  ELSE \E n \in 0 .. Len(s.current_prd) :
         /\ n # 0 => RepeatsAt(s, n)
         /\ IF cur \in DOMAIN drafts
            THEN /\ drafts[cur].attempt = s.current_prd_attempt
                 /\ drafts[cur].content = Rest(s.current_prd, n)
                 /\ n # 0 => /\ s.current_prd_attempt = 1
                             /\ \A k \in 1 .. n : s.current_prd[k] # Marker
            ELSE /\ RepeatsAt(s, n)
                 /\ n = Len(s.current_prd) \/ s.current_prd_attempt # 1

\* It has the plans a new page would have, unless the model misnumbered one: its
\* event and a snapshot then file it differently.
PlansAgree(page, s) ==
  /\ DOMAIN page.revisionPlansBySourceVersion = {} <=> s.current_iteration = 1
  /\ PlansAreNumbered(s) => page.revisionPlansBySourceVersion = revisionPlansFromSnapshot(s)

\* The snapshot a page once loaded is not ahead of the server's.
IsEarlier(old, s) ==
  /\ old.current_iteration <= s.current_iteration
  /\ Len(old.versions) <= Len(s.versions)
  /\ \A i \in DOMAIN old.versions :
       old.versions[i].version = i /\ (i = 1 => old.versions[i].revision_plan = Null)

\* How the run ended.  An old server does not say which version was the best.
OutcomeAgrees(page, s) ==
  /\ ~setup.legacy => page.outcome = outcomeFromSnapshot(s, bestFromSnapshot(s))
  /\ page.outcome # Null =>
       /\ s.status \in Ended
       /\ page.outcome.severity = page.scoresByVersion[s.current_iteration].severity

Agrees(page, s) ==
  /\ page.status = s.status /\ page.error = s.error
  /\ HasVersions(page.drafts, s)
  /\ ~MissedReset(page, s) => HasRest(page.drafts, s)
  /\ page.reviewsByVersion = reviewsFromSnapshot(s)
  /\ page.scoresByVersion = scoresFromSnapshot(s.versions)
  /\ PlansAgree(page, s)
  /\ page.bestVersion = bestFromSnapshot(s).version
  /\ page.bestScore = bestFromSnapshot(s).score
  /\ OutcomeAgrees(page, s)
  /\ page.snapshot # Null => IsEarlier(page.snapshot, s)
  /\ page.pendingRevisionPlan # Null => s.current_iteration > 1

\* What the server wrote, each page on the way and the last of them fit together.
ProjectionInv ==
  /\ SnapshotOK(snapshot)
  /\ PhaseOK
  /\ stream \in Seq(Range(stream))
  /\ \A n \in 0 .. Len(stream) : PageOK(Pages(live, stream)[n])
  /\ Settled.latestSequence \in 0 .. snapshot.latest_event_sequence
  /\ snapshot.status # "CANCELLED" => Settled.latestSequence = snapshot.latest_event_sequence
  /\ Agrees(Settled, snapshot)

================================================================================
