----------------------------- MODULE RunProjection -----------------------------
(***************************************************************************)
(* One run and one browser that watches it: the server's snapshot and log  *)
(* (RunServer), and the view the reducer makes of what the browser was     *)
(* sent (RunReducer).  Events arrive in order, any time after they were    *)
(* logged; the browser may load the snapshot again at any point, in the    *)
(* page it has (a recovery) or in a new one.  What a reload shows and what *)
(* a patient client shows are two computations of the same facts.          *)
(***************************************************************************)
EXTENDS RunServer, RunViews

CONSTANTS
  Loads,        \* bound: how often the browser loads the snapshot
  Lag           \* bound: how many events the browser may be behind before the
                \* server goes on

ASSUME ProjectionAssumption == Loads \in Nat /\ Lag \in Nat

VARIABLES
  live,         \* RunViewState of the browser
  loads

vars == <<server, live, loads>>

ProjectionInit ==
  /\ Init
  /\ live = SnapshotLoaded(RunSelected(initialRunViewState, RunId), snapshot)
  /\ loads = 0

ServerStep ==
  /\ Len(stream) <= Lag
  /\ ServerNext
  /\ UNCHANGED <<live, loads>>

\* The next event of the stream arrives.
Deliver ==
  /\ stream # <<>>
  /\ live' = EventReceived(live, Head(stream))
  /\ stream' = Tail(stream)
  /\ UNCHANGED <<setup, snapshot, phase, waiting, pauses, loads>>

\* The snapshot is loaded over view; the new stream starts behind it.
Load(view) ==
  /\ loads < Loads
  /\ loads' = loads + 1
  /\ live' = SnapshotLoaded(view, snapshot)
  /\ stream' = <<>>
  /\ UNCHANGED <<setup, snapshot, phase, waiting, pauses>>

\* A page is opened on the run: RUN_SELECTED, then SNAPSHOT_LOADED.
Open == Load(RunSelected(live, RunId))

\* The stream broke down for good: SNAPSHOT_LOADED over the view there is.
Recover == Load(live)

\* The reader picks a version of the rail.
Select ==
  /\ \E version \in setup.picks \cap DOMAIN live.drafts : live' = VersionSelected(live, version)
  /\ UNCHANGED <<server, loads>>

Next == ServerStep \/ Deliver \/ Open \/ Recover \/ Select

Spec == ProjectionInit /\ [][Next]_vars

--------------------------------------------------------------------------------
(* Properties. *)

\* What becomes of a page as events arrive, and once all have.
Pages(view, events) ==
  LET page[n \in 0 .. Len(events)] ==
        IF n = 0 THEN view ELSE EventReceived(page[n - 1], events[n])
  IN  page

Arrived(view, events) == Pages(view, events)[Len(events)]

\* The page once it has been sent everything, and a page that is opened now.
Settled == Arrived(live, stream)
Fresh == SnapshotLoaded(RunSelected(live, RunId), snapshot)

\* What the browser holds has the types src/lib/types.ts and the reducer state; the
\* findings it counts and shows are of the three severities, whatever was stored.
TypeOK ==
  /\ IsRunSnapshot(snapshot)
  /\ live.snapshot = Null \/ IsRunSnapshot(live.snapshot)
  /\ live.selectedVersion \in Maybe(DOMAIN live.drafts)
  /\ live.status \in Maybe(RunStatuses)
  /\ \A v \in DOMAIN live.reviewsByVersion : \A role \in DOMAIN live.reviewsByVersion[v] :
       live.reviewsByVersion[v][role].feedback \in Seq(FEEDBACK_SEVERITIES)

\* Without the attempt, which a reload knows of the running version only.
Texts(view) ==
  [v \in DOMAIN view.drafts |-> <<view.drafts[v].content, view.drafts[v].complete>>]

FinishedTexts(view) ==
  [v \in {v \in DOMAIN view.drafts : view.drafts[v].complete} |-> view.drafts[v].content]

KnowTheSameVersions(page, fresh) ==
  /\ page.status = fresh.status
  /\ FinishedTexts(page) = FinishedTexts(fresh)
  /\ page.reviewsByVersion = fresh.reviewsByVersion
  /\ page.scoresByVersion = fresh.scoresByVersion
  /\ <<page.bestVersion, page.bestScore>> = <<fresh.bestVersion, fresh.bestScore>>
  /\ page.error = fresh.error
  /\ ~setup.legacy => page.outcome = fresh.outcome

\* The first n chunks of a text, and the others.
Beginning(text, n) == [k \in 1 .. n |-> text[k]]
Rest(text, n) == [k \in 1 .. Len(text) - n |-> text[n + k]]

\* The text that is being written read the same as the last version when it had n
\* chunks.  A page that is loaded then takes it for the mirror of that version.
RepeatsAt(s, n) ==
  s.versions # <<>> /\ Reads(Beginning(s.current_prd, n)) = Reads(Last1(s.versions).content)

Repeats(s) ==
  /\ s.current_iteration # Len(s.versions)
  /\ s.versions # <<>> => s.current_prd # Last1(s.versions).content
  /\ \E n \in 0 .. Len(s.current_prd) : RepeatsAt(s, n)

\* The model wrote into every plan the iteration it was asked about.
PlansAreNumbered(s) ==
  /\ \A v \in VersionsOf(s) : v.revision_plan # Null =>
       v.revision_plan.iteration \in Maybe({v.version - 1})
  /\ s.pending_revision_plan # Null =>
       s.pending_revision_plan.iteration \in Maybe({s.current_iteration - 1})

\* The generator failed, was cancelled, and reset the text behind the end of the
\* stream, which the page has read to its end.
MissedReset(page, s) ==
  /\ s.status = "CANCELLED" /\ page.latestSequence # s.latest_event_sequence
  /\ s.current_prd = <<>> /\ s.current_prd_attempt = 2

LookTheSame(page, fresh) ==
  \A v \in DOMAIN fresh.drafts :
    LET here == VersionSelected(page, v)
        there == VersionSelected(fresh, v)
    IN  /\ Tabs(here) = Tabs(there)
        /\ ~setup.legacy => Header(here) = Header(there)
        /\ \A tab \in {"review", "plan", "diff"} : activeTab(here, tab) = activeTab(there, tab)

\* A page that has watched the run knows the same documents, reviews, scores,
\* plans, best version, ending and error as one that is opened now: applyEvent and
\* SNAPSHOT_LOADED agree about every one of them.  And whatever version the reader
\* picks, every panel of AgentDashboard.tsx shows the same in both: the document,
\* the cards with their deltas, the counts, the plan, the comparison, the chart,
\* the rail, the outcome and the buttons.  (Only the ending an old server sends
\* lacks the best version.)
\*
\* Three things keep the two apart, and each from no more than is said here: a text
\* that reads like the version before it, as draftsFromSnapshot cannot tell; a plan
\* the model misnumbered, about the plans; and what the generator writes behind a
\* cancellation, which is behind the end of the stream.
ReloadAgrees ==
  LET page == Settled
      fresh == Fresh
      sameText == ~Repeats(snapshot) /\ ~MissedReset(page, snapshot)
      samePlans == PlansAreNumbered(snapshot)
  IN
  /\ KnowTheSameVersions(page, fresh)
  /\ snapshot.status # "CANCELLED" => page.latestSequence = fresh.latestSequence
  /\ sameText => Texts(page) = Texts(fresh)
  /\ samePlans => page.revisionPlansBySourceVersion = fresh.revisionPlansBySourceVersion
  /\ sameText /\ samePlans => LookTheSame(page, fresh)

\* A draft that has every chunk of its attempt but the first n, which is all there
\* was when the page was loaded, and read the same as the version before.
IsRestOfAttempt(drafts, version, n) ==
  LET draft == drafts[version] IN
  /\ \A k \in DOMAIN draft.content :
       draft.content[k] \in {<<version, draft.attempt, n + k>>, Marker}
  /\ n # 0 =>
       /\ draft.attempt = 1 /\ version - 1 \in DOMAIN drafts
       /\ Reads([k \in 1 .. n |-> <<version, 1, k>>]) = Reads(drafts[version - 1].content)

\* However late the browser is and wherever it reloaded, an unfinished draft is a
\* beginning of the text of the one attempt it is at: no chunk twice, none of an
\* earlier attempt, and none missing, unless the page was loaded when the text read
\* the same as the version before (prd_delta, prd_stream_reset, draftsFromSnapshot).
DraftIsOneAttempt ==
  \A v \in DOMAIN live.drafts :
    ~live.drafts[v].complete => \E n \in 0 .. MaxChunks : IsRestOfAttempt(live.drafts, v, n)

\* A reload in the middle of a generation shows the text streamed so far
\* (workflow.py, the comment at begin_stream).
StreamedTextSurvivesReload ==
  phase = "writing" /\ snapshot.current_prd # <<>> =>
    /\ snapshot.current_iteration \in DOMAIN Fresh.drafts
    /\ Fresh.drafts[snapshot.current_iteration].content = snapshot.current_prd

\* No event and no recovery moves a reader off the version they picked, as long
\* as there is such a version.
PinIsRespected ==
  [][(Deliver \/ Recover) /\ live.selectionPinned
       /\ live.selectedVersion \in DOMAIN live'.drafts
     => live'.selectedVersion = live.selectedVersion /\ live'.selectionPinned]_vars

\* A plan shown for a version is the one its successor was written from, and
\* every version but the first is the target of one (the plans of
\* runReducer.ts:84-90, "both ends are always recoverable").
PlanLeadsToNextVersion ==
  /\ \A v \in DOMAIN live.revisionPlansBySourceVersion :
       live.revisionPlansBySourceVersion[v].targetVersion = v + 1
  /\ \A v \in DOMAIN live.drafts :
       v > 1 => v - 1 \in DOMAIN live.revisionPlansBySourceVersion

--------------------------------------------------------------------------------
(* What the page makes of the view. *)

ServerVersions == {v.version : v \in VersionsOf(snapshot)}

\* A failure notice names the version the run died in, the versions that
\* survive, all of them, the best of those, and speaks of a first version only
\* when nothing survives (failureNotice.ts).
FailureIsHonest ==
  LET notice == failureNotice(Settled)
      scored == {v \in VersionsOf(snapshot) : v.evaluation # Null}
  IN
  notice # Null =>
    /\ notice.kept = ServerVersions
    /\ notice.version = IF ServerVersions = {} THEN Null ELSE snapshot.current_iteration
    /\ notice.best = Null <=> scored = {}
    /\ \A v, w \in scored : v.version = notice.best =>
         w.evaluation.overall_score <= v.evaluation.overall_score
    /\ notice.plan = (ServerVersions # {} /\
                        (\/ snapshot.pending_revision_plan # Null
                         \/ \E v \in VersionsOf(snapshot) : v.revision_plan # Null))

\* A version that failed is named in the page that watched it fail
\* (design-document.md 11.9).
FailureIsNamed ==
  snapshot.status = "FAILED" /\ snapshot.current_iteration \notin ServerVersions =>
    failureNotice(Settled) # Null

\* The outcome is announced as passed, blocked or short of the target exactly as
\* the findings and scores the server ended with say, and the blockers it counts
\* are the blockers on the reviewers' cards (outcomeSummary.ts, ReviewPanel.tsx).
GateIsHonest ==
  LET panel == OutcomePanel(Settled)
      final == snapshot.latest_evaluation
      findings == FeedbackOf(snapshot.reviews)
      blockers == Cardinality({i \in DOMAIN findings : findings[i] = "must_fix"})
      met == final.overall_score >= snapshot.quality_threshold
  IN  panel # Null /\ ~setup.legacy =>
        /\ panel.tone = CASE met /\ blockers = 0 -> "passed"
                          [] met /\ blockers > 0 -> "blocked"
                          [] ~met -> "unmet"
        /\ panel.tone = "blocked" => panel.note.blockers = blockers
        /\ panel.severity["must_fix"] = blockers

\* Wherever the page counts the findings of a version, it counts the ones it
\* shows: the score's counts are those of the cards, and an outcome's are those of
\* the last scored version.
ViewsAgreeOnFindings ==
  LET page == Settled IN
  /\ \A v \in DOMAIN page.scoresByVersion \cap DOMAIN page.reviewsByVersion :
       DOMAIN page.reviewsByVersion[v] = Roles =>
         page.scoresByVersion[v].severity = countSeverities(FeedbackOf(page.reviewsByVersion[v]))
  /\ page.outcome # Null =>
       page.outcome.severity = page.scoresByVersion[MaxOf(DOMAIN page.scoresByVersion)].severity

\* The iteration the page names is the one the run is at (design-document.md 22,
\* "the current agent and the current round").
ProgressIsCurrent ==
  TelemetryPanel(Settled.snapshot).iteration = snapshot.current_iteration

\* The node a run died in is shown as failed (design-document.md 11.5), in a
\* page that watched it die as in one that is opened afterwards.
FailedNodeIsShown ==
  Settled.status = "FAILED" =>
    \A n \in Nodes : snapshot.node_statuses[n] = "FAILED" =>
      Settled.snapshot.node_statuses[n] = "FAILED"

================================================================================
