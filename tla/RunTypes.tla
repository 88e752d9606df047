------------------------------- MODULE RunTypes --------------------------------
(***************************************************************************)
(* The data the server and the browser exchange about a run                *)
(* (src/lib/types.ts), and the normalisation of reviewer findings the      *)
(* browser applies to it (src/lib/contracts.ts).                           *)
(*                                                                         *)
(* A text is a sequence of chunks, each of which says which one it is;     *)
(* Reads is the string they make, which is all that code can compare.  A   *)
(* finding is its severity, and an overall score is the sum of the         *)
(* reviewers' scores: it orders versions, and meets a threshold in the     *)
(* same unit, as their rounded mean does.                                  *)
(* A field the server may leave out of a payload is not in its DOMAIN; a   *)
(* null is Null.                                                           *)
(***************************************************************************)
EXTENDS RunStatus, ErrorMessages, Selection, SequencesExt

CONSTANTS
  Null,        \* null
  Roles,       \* ReviewRole; three in the code
  Reads(_)     \* what a text reads as: the model may write the same in two versions

ASSUME RolesAssumption == Roles \subseteq {"tech", "ux", "biz"} /\ Roles # {}

ReviewerOf(role) ==
  CASE role = "tech" -> "tech_reviewer"
    [] role = "ux"   -> "ux_reviewer"
    [] role = "biz"  -> "biz_reviewer"

Reviewers == {ReviewerOf(role) : role \in Roles}
Nodes == Reviewers \cup {"generator", "aggregator", "optimizer"}
NodeStatus == {"PENDING", "RUNNING", "SUCCEEDED", "FAILED", "SKIPPED"}

FEEDBACK_SEVERITIES == {"must_fix", "should_fix", "optional"}

\* What a stored review may hold besides a structured finding: a bare string,
\* a finding of unknown severity, or one without any words.
LegacyFindings == {"text", "unknown", "blank"}

RunEventType ==
  {"run_started", "status_changed", "node_started", "prd_delta",
   "prd_stream_reset", "prd_generated", "review_completed", "scores_updated",
   "revision_planned", "pause_requested", "run_paused", "run_resumed",
   "telemetry_updated", "run_completed", "max_iterations_reached",
   "run_cancelled", "run_failed"}

RunId == "run"         \* the run that is looked at

isTerminalRunStatus(status) == status \in TerminalStatuses

--------------------------------------------------------------------------------
(* The records. *)

Text == Seq(Seq(Nat))
Maybe(S) == S \cup {Null}
Feedback == Seq(FEEDBACK_SEVERITIES \cup LegacyFindings)

RoleReview == [role : Roles, score : Nat, feedback : Feedback]

EvaluationResult ==
  [reviews : [Roles -> RoleReview], overall_score : Nat, combined_feedback : Feedback]

RevisionPlan == [iteration : Maybe(Int)]

PRDVersion ==
  [version : Nat, content : Text, evaluation : Maybe(EvaluationResult),
   revision_plan : Maybe(RevisionPlan)]

Severities == [FEEDBACK_SEVERITIES -> Nat]

VersionDraft == [version : Nat, attempt : Nat, content : Text, complete : BOOLEAN]

\* null is none of the values a field may have instead.
ASSUME NullIsNoValue ==
  /\ Null \notin Int /\ Null \notin RunStatuses \cup Nodes \cup ERROR_MESSAGES
  /\ Null \notin RevisionPlan /\ Null \notin EvaluationResult
  /\ Null \notin PRDVersion /\ Null \notin Severities /\ Null \notin VersionDraft

IsRunSnapshot(s) ==
  /\ DOMAIN s.reviews \subseteq Roles
  /\ s.reviews \in [DOMAIN s.reviews -> RoleReview]
  /\ [s EXCEPT !.reviews = Null] \in
       [run_id : {RunId}, current_iteration : Nat, max_iterations : Nat,
        quality_threshold : Nat, status : RunStatuses, active_node : Maybe(Nodes),
        versions : Seq(PRDVersion), current_prd : Text, current_prd_attempt : Nat,
        latest_evaluation : Maybe(EvaluationResult), best_version : Maybe(Nat),
        best_score : Maybe(Nat), reviews : {Null},
        pending_revision_plan : Maybe(RevisionPlan),
        node_statuses : [Nodes -> NodeStatus], total_tokens : Nat,
        error : Maybe(ERROR_MESSAGES), latest_event_sequence : Nat]

--------------------------------------------------------------------------------
(* contracts.ts: findings from whatever shape the wire carried. *)

FindingsOf(reviews, role) ==
  IF role \in DOMAIN reviews THEN reviews[role].feedback ELSE <<>>

\* The findings of several reviewers, in the order in which the code names the roles.
FeedbackOf(reviews) ==
  FindingsOf(reviews, "tech") \o FindingsOf(reviews, "ux") \o FindingsOf(reviews, "biz")

normalizeFeedbackItem(item) ==
  IF item \in FEEDBACK_SEVERITIES THEN item ELSE "should_fix"

normalizeFeedback(items) ==
  LET worded == Selected(items, {i \in DOMAIN items : items[i] # "blank"})
  IN  [i \in DOMAIN worded |-> normalizeFeedbackItem(worded[i])]

\* Faulty: a review is kept with the findings as they came.
ReviewAsStored(review) == review

normalizeReview(review) ==
  [review EXCEPT !.feedback = normalizeFeedback(review.feedback)]

--------------------------------------------------------------------------------
(* Functions that grow, as the code's objects and records do. *)

Get(f, key, default) == IF key \in DOMAIN f THEN f[key] ELSE default

Put(f, key, value) ==
  [x \in DOMAIN f \cup {key} |-> IF x = key THEN value ELSE f[x]]

EmptyMap == [x \in {} |-> Null]

MaxOf(S) == CHOOSE m \in S : \A x \in S : x <= m

================================================================================
