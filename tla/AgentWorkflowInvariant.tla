------------------------- MODULE AgentWorkflowInvariant -------------------------
(***************************************************************************)
(* The inductive invariant of AgentWorkflow.  The properties of that       *)
(* module follow from it; none of them is inductive alone, because what    *)
(* keeps them true is where each task stands when a request comes in.      *)
(***************************************************************************)
EXTENDS AgentWorkflow

\* Only the nodes of the current superstep have a task, and each node stands
\* only at places its own code has.
TasksFitStage ==
  /\ stage = "generator" <=> pc["generator"] # "idle"
  /\ \A r \in Roles : stage = "reviewers" <=> pc[r] # "idle"
  /\ stage = "aggregator" <=> pc["aggregator"] # "idle"
  /\ stage = "optimizer" <=> pc["optimizer"] # "idle"
  /\ pc["aggregator"] \notin {"call", "settled", "parkedAgain"}
  /\ \A n \in Roles \cup {"generator"} : pc[n] \notin {"parked", "parkedAgain"}

\* A settled call holds an answer its node can get, a thrown exception is one;
\* cancellation is only ever thrown once the signal is set.
AnswersFitTasks ==
  \A n \in Nodes :
    /\ pc[n] = "settled" =>
         answer[n] \in {"retryable", "fatal", "crash", "timeout", "cancelled"}
           \cup (IF n = "generator" THEN {"chunk", "end"} ELSE {"ok", "malformed"})
           \cup (IF n \in Roles THEN {"misrole"} ELSE {})
    /\ pc[n] = "raised" => answer[n] \in Exceptions
    /\ answer[n] = "cancelled" => cancelSignal

\* The generator's attempt counts 1, 2; the others may also stand at a repair.
AttemptsFitTasks ==
  /\ Asking("generator") => attempt["generator"] \in {1, 2}
  /\ attempt["generator"] # RepairCall
  /\ \A n \in Structured : Asking(n) => attempt[n] \in {1, 2, RepairCall}

\* The version of the current iteration has been written.
Written ==
  \/ stage = "generator" /\ pc["generator"] = "done"
  \/ stage \in {"reviewers", "aggregator"}
  \/ stage = "optimizer" /\ pc["optimizer"] # "done"

NotWritten ==
  \/ stage = "created"
  \/ stage = "generator" /\ pc["generator"] # "done"
  \/ stage = "optimizer" /\ pc["optimizer"] = "done"

VersionsFitStage ==
  /\ \A i \in 1..Len(versions) : versions[i].num = i
  /\ Len(versions) \in {iteration - 1, iteration}
  /\ Written => Len(versions) = iteration
  /\ NotWritten => Len(versions) = iteration - 1

\* The aggregator has committed its evaluation.
Aggregated == pc["aggregator"] \in {"parked", "done"}

\* The current version waits for its score; it has been given one.
AwaitsScore ==
  \/ stage = "generator" /\ pc["generator"] = "done"
  \/ stage = "reviewers"
  \/ stage = "aggregator" /\ pc["aggregator"] = "ready"

HasScore ==
  \/ stage = "aggregator" /\ Aggregated
  \/ stage = "optimizer" /\ pc["optimizer"] # "done"

ScoresFitStage ==
  /\ \A i \in 1..Len(versions) : i < iteration => versions[i].score \in Scores
  /\ AwaitsScore => versions[iteration].score = Unscored
  /\ HasScore => versions[iteration].score \in Scores

\* A review is there exactly when its reviewer is done with this version.
ReviewsFitStage ==
  /\ \A r \in Roles : reviews[r] \in {0, iteration}
  /\ stage = "reviewers" => \A r \in Roles : pc[r] = "done" => reviews[r] = iteration
  /\ stage = "aggregator" => \A r \in Roles : reviews[r] = iteration
  /\ NotWritten => \A r \in Roles : reviews[r] = 0

\* A run that goes on to the optimizer has an iteration left.
BudgetFitsStage ==
  /\ stage = "aggregator" /\ Aggregated => HasEnded \/ iteration < MaxIterations
  /\ stage = "optimizer" /\ pc["optimizer"] # "done" => iteration < MaxIterations

\* The run ends by a cancel, by its last evaluation, or when its task ends.
StatusFitsStage ==
  /\ cancelSignal <=> status = "CANCELLED"
  /\ stage = "over" => HasEnded
  /\ HasEnded /\ ~cancelSignal =>
       stage = "over" \/ (stage = "aggregator" /\ pc["aggregator"] = "done")
  /\ stage = "created" => status = "QUEUED"
  /\ status # "CANCEL_REQUESTED" /\ status # "AGGREGATING"

\* A paused run has its one task parked and its signal down.
Parked == \E n \in {"aggregator", "optimizer"} : pc[n] \in {"parked", "parkedAgain"}

PauseFitsStage ==
  /\ status = "PAUSED" => Parked /\ ~resumeSignal
  /\ Parked /\ ~resumeSignal => status = "PAUSED"

IInv ==
  /\ TypeOK
  /\ TasksFitStage
  /\ AnswersFitTasks
  /\ AttemptsFitTasks
  /\ VersionsFitStage
  /\ ScoresFitStage
  /\ BestIsEarliestMaximum
  /\ ReviewsFitStage
  /\ BudgetFitsStage
  /\ StatusFitsStage
  /\ PauseFitsStage

--------------------------------------------------------------------------------
(* What the nodes hand to one another.  These parts are inductive on top of    *)
(* IInv.                                                                       *)

\* Between two attempts the draft may be empty or another attempt's; from the first
\* call of an attempt on it holds this attempt's text only.
DraftFitsStage ==
  /\ \A t, u \in draft : t = u
  /\ Asking("generator") => draft \subseteq {Tag}
  /\ stage = "generator" /\ pc["generator"] = "done" => draft = {Tag}
  /\ stage = "reviewers" => draft = {Tag}

\* The optimizer leaves a plan for the generator, which consumes it.
PlanFitsStage ==
  /\ stage = "created" => plan = 0 /\ iteration = 1
  /\ stage = "generator" =>
       plan = IF pc["generator"] = "done" THEN 0 ELSE iteration - 1
  /\ stage \in {"reviewers", "aggregator"} => plan = 0
  /\ stage = "optimizer" /\ pc["optimizer"] = "done" => plan = iteration - 1

\* The statuses a run can be in while its task stands at a place: a pause request
\* or the end of a run may come in anywhere, the rest follows the nodes.
StatusFitsPlace ==
  LET anytime == {"PAUSE_REQUESTED"} \cup TerminalStatuses IN
  /\ stage = "generator" =>
       status \in anytime \cup (CASE pc["generator"] \in {"ready", "raised"} ->
                                      {"QUEUED", "GENERATING"}
                                 [] pc["generator"] = "done" -> {"REVIEWING"}
                                 [] OTHER -> {"GENERATING"})
  /\ stage = "reviewers" => status \in anytime \cup {"REVIEWING"}
  /\ stage = "aggregator" =>
       status \in anytime \cup (CASE pc["aggregator"] = "ready" -> {"REVIEWING"}
                                 [] pc["aggregator"] = "parked" -> {"PAUSED", "OPTIMIZING"}
                                 [] pc["aggregator"] = "raised" -> {"REVIEWING", "OPTIMIZING"}
                                 [] OTHER -> {"OPTIMIZING"})
  /\ stage = "optimizer" =>
       status \in anytime \cup (CASE pc["optimizer"] = "done" -> {"GENERATING"}
                                 [] pc["optimizer"] \in {"parked", "parkedAgain"} ->
                                      {"PAUSED", "OPTIMIZING"}
                                 [] OTHER -> {"OPTIMIZING"})

HandoverInv ==
  /\ DraftFitsStage
  /\ PlanFitsStage
  /\ OverrideReachesPlan
  /\ ActiveNodeRuns
  /\ StatusFitsPlace

WorkflowInv == IInv /\ HandoverInv

================================================================================
