------------------------- MODULE AgentWorkflowHandover --------------------------
(***************************************************************************)
(* What the nodes of AgentWorkflow hand to one another is what its reader  *)
(* expects: the text to the reviewers, the plan to the generator, the      *)
(* override to the optimizer, active_node to fail_run, and the status from *)
(* each node to the next.  On top of IInv, whose proof is                  *)
(* AgentWorkflowProofs.                                                    *)
(***************************************************************************)
EXTENDS AgentWorkflowProofs

\* A new run has handed over nothing yet.
LEMMA HandoverInit == Init => HandoverInv
BY NodeNames
DEF Init, HandoverInv, DraftFitsStage, PlanFitsStage, OverrideReachesPlan,
    ActiveNodeRuns, StatusFitsPlace, Asking, None

--------------------------------------------------------------------------------
(* The text. *)

\* A step of the generator leaves one text, and a finished one when it is done.
LEMMA GeneratorDraft ==
  ASSUME IInv, DraftFitsStage, GeneratorStep
  PROVE  DraftFitsStage'
<1> USE DEF IInv, DraftFitsStage, Tag
<1>1. stage = "generator" /\ UNCHANGED <<stage, iteration>> /\ stage' # "reviewers"
  BY NodeNames
  DEF GeneratorStep, BeginGenerator, ResumeChunk, ResumeFailedAttempt,
      ResumeRejectedStream, ResumeStreamTooLate, FinishGeneration, Settled,
      GeneratorFrame, results, judgement, TasksFitStage
<1>2. CASE BeginGenerator
  BY <1>1, <1>2 DEF BeginGenerator, ClearedDraft, Issue, Goto, TypeOK, ControlTypeOK
<1>3. ASSUME NEW e, FailAttempt(e), pc["generator"] = "settled" PROVE DraftFitsStage'
  BY <1>1, <1>3
  DEF FailAttempt, ClearedDraft, Issue, Raise, Goto, Asking, TypeOK, ControlTypeOK
<1>4. CASE ResumeChunk
  BY <1>1, <1>3, <1>4
  DEF ResumeChunk, Settled, Flushed, Issue, Raise, Goto, Asking, TypeOK, ControlTypeOK
<1>5. CASE ResumeFailedAttempt
  BY <1>3, <1>5 DEF ResumeFailedAttempt
<1>6. CASE ResumeRejectedStream
  BY <1>1, <1>3, <1>6
  DEF ResumeRejectedStream, Settled, Flushed, Raise, Goto, Asking, TypeOK, ControlTypeOK
<1>7. CASE ResumeStreamTooLate
  BY <1>1, <1>7
  DEF ResumeStreamTooLate, Settled, Raise, Goto, Asking, TypeOK, ControlTypeOK
<1>8. CASE FinishGeneration
  BY <1>1, <1>8 DEF FinishGeneration, Return, Goto, Asking, TypeOK, ControlTypeOK
<1> QED BY <1>2, <1>4, <1>5, <1>6, <1>7, <1>8 DEF GeneratorStep

\* No other step touches the text or the attempt it belongs to.
LEMMA DraftStep ==
  ASSUME IInv, DraftFitsStage, [Next]_vars
  PROVE  DraftFitsStage'
<1> USE DEF IInv, DraftFitsStage, Tag, Asking, Goto
<1>1. CASE StartRun \/ Superstep
  BY <1>1, NodeNames
  DEF StartRun, Superstep, EnterWave, Wave, NextStage, RouteAfterAggregate, judgement
<1>2. ASSUME NEW n \in Nodes, Unwind(n) PROVE DraftFitsStage'
  BY <1>2, NodeNames DEF Unwind, EnterWave, Wave
<1>3. CASE GeneratorStep
  BY <1>3, GeneratorDraft
<1>4. ASSUME NEW n \in Structured,
             UNCHANGED <<draft, stage, iteration>>,
             \A m \in Nodes \ {n} : pc'[m] = pc[m] /\ attempt'[m] = attempt[m]
      PROVE  DraftFitsStage'
  BY <1>4, NodeNames DEF Structured
<1>5. ASSUME NEW r \in Roles, ReviewerStep(r) PROVE DraftFitsStage'
  BY <1>4, <1>5, NodeNames
  DEF ReviewerStep, BeginReview, FinishReview, Issue, Return, results, judgement,
      Structured, TypeOK, ControlTypeOK
<1>6. CASE AggregatorStep
  BY <1>6, NodeNames
  DEF AggregatorStep, Aggregate, WakeAggregator, Raise, Return, Conclude, Park,
      StructuredFrame, judgement, TypeOK, ControlTypeOK, TasksFitStage
<1>7. CASE OptimizerStep
  BY <1>7, NodeNames
  DEF OptimizerStep, BeginOptimizer, WakeOptimizer, WakeOptimizerAgain, FinishPlan,
      LaunchOptimizer, ParkOptimizer, Park, Issue, Return, results, judgement, Woken,
      Settled, TypeOK, ControlTypeOK, TasksFitStage
<1>8. ASSUME NEW n \in Structured, StructuredStep(n) PROVE DraftFitsStage'
  BY <1>4, <1>8, NodeNames
  DEF StructuredStep, RetryCall, RepairAnswer, Reissue, Issue, Raise, StructuredFrame,
      judgement, TypeOK, ControlTypeOK
<1>9. ASSUME NEW n \in Nodes, Refuse(n) \/ RefuseWoken(n) \/ Settle(n) \/ Throw(n)
      PROVE  DraftFitsStage'
  BY <1>9, NodeNames
  DEF Refuse, RefuseWoken, Settle, Throw, Calling, Raise, StructuredFrame, Woken,
      judgement, TypeOK, ControlTypeOK, TasksFitStage
<1>10. CASE UserStep \/ SpendBudget \/ UNCHANGED vars
  BY <1>10
  DEF UserStep, RequestPause, ResumeRun, CancelRun, ControlFrame, SpendBudget, vars,
      judgement
<1> QED
  BY <1>1, <1>2, <1>3, <1>5, <1>6, <1>7, <1>8, <1>9, <1>10
  DEF Next, Ended, GraphStep, NodeStep

--------------------------------------------------------------------------------
(* The plan and the override. *)

\* finish_optimizer leaves a plan, finish_generation consumes it, and nothing else
\* writes one.
LEMMA PlanStep ==
  ASSUME IInv, PlanFitsStage, [Next]_vars
  PROVE  PlanFitsStage'
<1> USE DEF IInv, PlanFitsStage, Goto
<1>1. CASE GraphStep
  BY <1>1, NodeNames
  DEF GraphStep, StartRun, Superstep, Unwind, EnterWave, Wave, NextStage,
      RouteAfterAggregate, judgement, inputs
<1>2. CASE GeneratorStep
  BY <1>2, NodeNames
  DEF GeneratorStep, BeginGenerator, ResumeChunk, ResumeFailedAttempt,
      ResumeRejectedStream, ResumeStreamTooLate, FinishGeneration, FailAttempt,
      GeneratorFrame, Settled, Issue, Raise, Return, ConsumedPlan, results, judgement,
      inputs, TypeOK, ControlTypeOK, TasksFitStage
<1>3. ASSUME NEW n \in Nodes \ {"generator"},
             UNCHANGED <<plan, stage, iteration>>,
             \A m \in Nodes \ {n} : pc'[m] = pc[m],
             pc'["optimizer"] # "done" \/ pc["optimizer"] = "done"
      PROVE  PlanFitsStage'
  BY <1>3, NodeNames
<1>4. ASSUME NEW r \in Roles, ReviewerStep(r) PROVE PlanFitsStage'
  BY <1>3, <1>4, NodeNames
  DEF ReviewerStep, BeginReview, FinishReview, Issue, Return, results, judgement,
      TypeOK, ControlTypeOK
<1>5. CASE AggregatorStep
  BY <1>3, <1>5, NodeNames
  DEF AggregatorStep, Aggregate, WakeAggregator, Raise, Return, Conclude, Park,
      StructuredFrame, judgement, inputs, TypeOK, ControlTypeOK
<1>6. CASE OptimizerStep
  <2> USE DEF LaunchOptimizer, ParkOptimizer, Park, Issue, results, judgement, TypeOK,
              ControlTypeOK
  <2>1. CASE BeginOptimizer
    BY <1>3, <2>1, NodeNames DEF BeginOptimizer
  <2>2. CASE WakeOptimizer
    BY <1>3, <2>2, NodeNames DEF WakeOptimizer
  <2>3. CASE WakeOptimizerAgain
    BY <1>3, <2>3, NodeNames DEF WakeOptimizerAgain
  <2>4. CASE FinishPlan
    BY <2>4, NodeNames
    DEF FinishPlan, Return, NextIteration, Woken, Settled, ResultTypeOK,
        TasksFitStage
  <2> QED
    BY <1>6, <2>1, <2>2, <2>3, <2>4 DEF OptimizerStep
<1>7. ASSUME NEW n \in Structured, StructuredStep(n) PROVE PlanFitsStage'
  BY <1>3, <1>7, NodeNames
  DEF Structured, StructuredStep, RetryCall, RepairAnswer, Reissue, Issue, Raise,
      StructuredFrame, judgement, inputs, TypeOK, ControlTypeOK
<1>8. ASSUME NEW n \in Nodes, Refuse(n) \/ RefuseWoken(n) \/ Settle(n) \/ Throw(n)
      PROVE  PlanFitsStage'
  BY <1>8, NodeNames
  DEF Refuse, RefuseWoken, Settle, Throw, Calling, Raise, StructuredFrame, Woken,
      judgement, inputs, TypeOK, ControlTypeOK, TasksFitStage
<1>9. CASE UserStep \/ SpendBudget \/ UNCHANGED vars
  BY <1>9
  DEF UserStep, RequestPause, ResumeRun, CancelRun, ControlFrame, SpendBudget, vars,
      judgement, inputs
<1> QED
  BY <1>1, <1>2, <1>4, <1>5, <1>6, <1>7, <1>8, <1>9 DEF Next, Ended, NodeStep

\* While the optimizer asks, the run is not paused, so that nobody can resume it with
\* another override.
LEMMA OverrideStep ==
  ASSUME IInv, OverrideReachesPlan, [Next]_vars
  PROVE  OverrideReachesPlan'
<1> USE DEF IInv, OverrideReachesPlan, Asking, Goto
<1>1. CASE GraphStep
  BY <1>1, NodeNames
  DEF GraphStep, StartRun, Superstep, Unwind, EnterWave, Wave, judgement, inputs
<1>2. ASSUME NEW n \in Nodes \ {"optimizer"},
             UNCHANGED <<override, overrideRead>>,
             \A m \in Nodes \ {n} : pc'[m] = pc[m]
      PROVE  OverrideReachesPlan'
  BY <1>2, NodeNames
<1>3. CASE GeneratorStep
  BY ZenonT(30), <1>2, <1>3, NodeNames
  DEF GeneratorStep, BeginGenerator, ResumeChunk, ResumeFailedAttempt,
      ResumeRejectedStream, ResumeStreamTooLate, FinishGeneration, FailAttempt,
      GeneratorFrame, Settled, Issue, Raise, Return, inputs, TypeOK, ControlTypeOK
<1>4. ASSUME NEW r \in Roles, ReviewerStep(r) PROVE OverrideReachesPlan'
  BY <1>2, <1>4, NodeNames
  DEF ReviewerStep, BeginReview, FinishReview, Issue, Return, TypeOK, ControlTypeOK
<1>5. CASE AggregatorStep
  BY <1>2, <1>5, NodeNames
  DEF AggregatorStep, Aggregate, WakeAggregator, Raise, Return, Conclude, Park,
      StructuredFrame, inputs, TypeOK, ControlTypeOK
<1>6. CASE OptimizerStep
  BY <1>6, NodeNames
  DEF OptimizerStep, BeginOptimizer, WakeOptimizer, WakeOptimizerAgain, FinishPlan,
      LaunchOptimizer, ParkOptimizer, Park, Issue, Return, Settled, TypeOK, ControlTypeOK
<1>7. ASSUME NEW n \in Structured, StructuredStep(n) PROVE OverrideReachesPlan'
  BY <1>7, NodeNames
  DEF Structured, StructuredStep, RetryCall, RepairAnswer, Settled, Reissue, Issue, Raise,
      StructuredFrame, inputs, TypeOK, ControlTypeOK
<1>8. ASSUME NEW n \in Nodes, Refuse(n) \/ RefuseWoken(n) \/ Settle(n) \/ Throw(n)
      PROVE  OverrideReachesPlan'
  BY <1>8, NodeNames
  DEF Refuse, RefuseWoken, Settle, Throw, Calling, Raise, StructuredFrame, inputs,
      TypeOK, ControlTypeOK
<1>9. CASE ResumeRun
  BY <1>9, NodeNames
  DEF ResumeRun, ControlFrame, PauseFitsStage, Parked, TasksFitStage
<1>10. CASE RequestPause \/ CancelRun \/ SpendBudget \/ UNCHANGED vars
  BY <1>10 DEF RequestPause, CancelRun, ControlFrame, SpendBudget, vars, inputs
<1> QED
  BY <1>1, <1>3, <1>4, <1>5, <1>6, <1>7, <1>8, <1>9, <1>10
  DEF Next, Ended, NodeStep, UserStep

--------------------------------------------------------------------------------
(* The node that is shown, and blamed. *)

\* A node that has succeeded is never the active one: a reviewer that finishes leaves
\* active_node to the reviewer that has taken it over.
LEMMA ActiveNodeStep ==
  ASSUME IInv, ActiveNodeRuns, [Next]_vars
  PROVE  ActiveNodeRuns'
<1> USE DEF IInv, ActiveNodeRuns, TypeOK, ProgressTypeOK
<1>1. ASSUME UNCHANGED progress PROVE ActiveNodeRuns'
  BY <1>1 DEF progress
<1>2. ASSUME NEW n \in Nodes, MarkRunning(n) PROVE ActiveNodeRuns'
  BY <1>2 DEF MarkRunning
<1>3. ASSUME NEW n \in Nodes, MarkSucceeded(n) PROVE ActiveNodeRuns'
  BY <1>3 DEF MarkSucceeded
<1>4. CASE GraphStep
  BY <1>1, <1>4 DEF GraphStep, StartRun, Superstep, Unwind
<1>5. CASE GeneratorStep
  BY <1>1, <1>2, <1>3, <1>5, NodeNames
  DEF GeneratorStep, BeginGenerator, ResumeChunk, ResumeFailedAttempt,
      ResumeRejectedStream, ResumeStreamTooLate, FinishGeneration, GeneratorFrame
<1>6. ASSUME NEW r \in Roles, ReviewerStep(r) PROVE ActiveNodeRuns'
  BY <1>2, <1>3, <1>6, NodeNames DEF ReviewerStep, BeginReview, FinishReview
<1>7. CASE AggregatorStep
  BY <1>1, <1>2, <1>3, <1>7, NodeNames
  DEF AggregatorStep, Aggregate, WakeAggregator, StructuredFrame
<1>8. CASE OptimizerStep
  BY <1>1, <1>2, <1>3, <1>8, NodeNames
  DEF OptimizerStep, BeginOptimizer, WakeOptimizer, WakeOptimizerAgain, FinishPlan,
      LaunchOptimizer, ParkOptimizer
<1>9. CASE \/ \E n \in Structured : StructuredStep(n)
           \/ \E n \in Nodes : Refuse(n) \/ RefuseWoken(n) \/ Settle(n) \/ Throw(n)
  BY <1>1, <1>9
  DEF StructuredStep, RetryCall, RepairAnswer, Refuse, RefuseWoken, Settle, Throw,
      StructuredFrame
<1>10. CASE UserStep
  BY <1>10 DEF UserStep, RequestPause, ResumeRun, CancelRun, ControlFrame
<1>11. CASE SpendBudget \/ UNCHANGED vars
  BY <1>1, <1>11 DEF SpendBudget, vars
<1> QED
  BY <1>4, <1>5, <1>6, <1>7, <1>8, <1>9, <1>10, <1>11 DEF Next, Ended, NodeStep

--------------------------------------------------------------------------------
(* The status. *)

\* Every node finds the status the node before it has left, or a pause request, or
\* the end of the run.
LEMMA StatusStep ==
  ASSUME IInv, StatusFitsPlace, [Next]_vars
  PROVE  StatusFitsPlace'
<1> USE DEF IInv, StatusFitsPlace, Goto
<1>1. CASE StartRun \/ Superstep
  BY <1>1, NodeNames, ValueSets
  DEF StartRun, Superstep, EnterWave, Wave, NextStage, RouteAfterAggregate,
      StatusFitsStage
<1>2. ASSUME NEW n \in Nodes, Unwind(n) PROVE StatusFitsPlace'
  BY <1>2 DEF Unwind, EnterWave
<1>3. CASE GeneratorStep
  BY ZenonT(30), <1>3, NodeNames, ValueSets
  DEF GeneratorStep, BeginGenerator, ResumeChunk, ResumeFailedAttempt,
      ResumeRejectedStream, ResumeStreamTooLate, FinishGeneration, FailAttempt,
      GeneratorFrame, Settled, Issue, Raise, Return, Staged, results, TypeOK,
      ControlTypeOK, TasksFitStage
<1>4. ASSUME NEW n \in Structured,
             UNCHANGED <<status, stage>>,
             \A m \in Nodes \ {n} : pc'[m] = pc[m],
             n = "optimizer" =>
               /\ pc["optimizer"] \in {"ready", "call", "settled"}
               /\ pc'["optimizer"] \in {"ready", "call", "settled", "raised"}
      PROVE  StatusFitsPlace'
  BY <1>4, NodeNames DEF Structured
<1>5. ASSUME NEW r \in Roles, ReviewerStep(r) PROVE StatusFitsPlace'
  BY <1>4, <1>5, NodeNames
  DEF ReviewerStep, BeginReview, FinishReview, Issue, Return, Structured, TypeOK,
      ControlTypeOK
<1>6. CASE Aggregate
  <2>1. stage = "aggregator" /\ UNCHANGED stage
    BY <1>6 DEF Aggregate, TasksFitStage
  <2>2. CASE \E r \in Roles : reviews[r] = 0
    BY <1>6, <2>1, <2>2 DEF Aggregate, ReviewsFitStage, TypeOK, ResultTypeOK
  <2>3. CASE ~\E r \in Roles : reviews[r] = 0
    BY <1>6, <2>1, <2>3, NodeNames, ValueSets
    DEF Aggregate, Conclude, Park, TypeOK, ControlTypeOK
  <2> QED BY <2>2, <2>3
<1>7. CASE WakeAggregator
  BY <1>7, NodeNames, ValueSets
  DEF WakeAggregator, Woken, Return, StructuredFrame, TypeOK, ControlTypeOK,
      TasksFitStage, PauseFitsStage, StatusFitsStage
<1>8. CASE OptimizerStep
  BY <1>8, NodeNames, ValueSets
  DEF OptimizerStep, BeginOptimizer, WakeOptimizer, WakeOptimizerAgain, FinishPlan,
      LaunchOptimizer, ParkOptimizer, Park, Issue, Return, Staged, Woken, Settled,
      TypeOK, ControlTypeOK, TasksFitStage, PauseFitsStage, StatusFitsStage
<1>9. ASSUME NEW n \in Structured, StructuredStep(n) PROVE StatusFitsPlace'
  BY <1>4, <1>9, NodeNames
  DEF StructuredStep, RetryCall, RepairAnswer, Settled, Reissue, Issue, Raise,
      StructuredFrame, Structured, TypeOK, ControlTypeOK
<1>10. ASSUME NEW n \in Nodes, Refuse(n) \/ RefuseWoken(n) \/ Settle(n) \/ Throw(n)
       PROVE  StatusFitsPlace'
  <2>1. UNCHANGED <<status, stage>> /\ \A m \in Nodes \ {n} : pc'[m] = pc[m]
    BY <1>10
    DEF Refuse, RefuseWoken, Settle, Throw, Raise, StructuredFrame, TypeOK, ControlTypeOK
  <2>2. CASE Refuse(n) \/ Settle(n) \/ Throw(n)
    BY <1>10, <2>1, <2>2, NodeNames
    DEF Refuse, Settle, Throw, Calling, Raise, TypeOK, ControlTypeOK, TasksFitStage
  <2>3. CASE RefuseWoken(n)
    BY <2>1, <2>3, NodeNames, ValueSets
    DEF RefuseWoken, Woken, Raise, TypeOK, ControlTypeOK, TasksFitStage,
        PauseFitsStage, StatusFitsStage
  <2> QED BY <1>10, <2>2, <2>3
<1>11. CASE UserStep
  BY <1>11, NodeNames, ValueSets
  DEF UserStep, RequestPause, ResumeRun, CancelRun, ControlFrame, PauseFitsStage,
      Parked, TasksFitStage
<1>12. CASE SpendBudget \/ UNCHANGED vars
  BY <1>12 DEF SpendBudget, vars
<1> QED
  BY <1>1, <1>2, <1>3, <1>5, <1>6, <1>7, <1>8, <1>9, <1>10, <1>11, <1>12
  DEF Next, Ended, GraphStep, NodeStep, AggregatorStep

\* The table, for the statuses a step leaves.
LEMMA Transitions ==
  /\ \A s \in RunStatuses \ (TerminalStatuses \cup {"CANCEL_REQUESTED"}) :
       CanTransition(s, "CANCEL_REQUESTED")
  /\ \A s \in RunStatuses \ TerminalStatuses : CanTransition(s, "FAILED")
  /\ \A s \in PausableStatuses : CanTransition(s, "PAUSE_REQUESTED")
  /\ CanTransition("QUEUED", "GENERATING")
  /\ CanTransition("GENERATING", "REVIEWING")
  /\ CanTransition("REVIEWING", "AGGREGATING")
  /\ \A s \in {"COMPLETED", "MAX_ITERATIONS_REACHED", "OPTIMIZING"} :
       CanTransition("AGGREGATING", s)
  /\ CanTransition("OPTIMIZING", "GENERATING")
  /\ \A s \in {"PAUSED", "COMPLETED", "MAX_ITERATIONS_REACHED"} :
       CanTransition("PAUSE_REQUESTED", s)
  /\ CanTransition("PAUSED", "OPTIMIZING")
  /\ CanTransition("CANCEL_REQUESTED", "CANCELLED")
<1> USE ValueSets DEF AllowedTransitions
<1>1. {"GENERATING", "CANCEL_REQUESTED", "FAILED"} \subseteq AllowedTransitions["QUEUED"]
  OBVIOUS
<1>2. {"REVIEWING", "PAUSE_REQUESTED", "CANCEL_REQUESTED", "FAILED"}
        \subseteq AllowedTransitions["GENERATING"]
  OBVIOUS
<1>3. {"AGGREGATING", "PAUSE_REQUESTED", "CANCEL_REQUESTED", "FAILED"}
        \subseteq AllowedTransitions["REVIEWING"]
  OBVIOUS
<1>4. {"COMPLETED", "MAX_ITERATIONS_REACHED", "OPTIMIZING", "PAUSE_REQUESTED",
       "CANCEL_REQUESTED", "FAILED"} \subseteq AllowedTransitions["AGGREGATING"]
  OBVIOUS
<1>5. {"GENERATING", "PAUSE_REQUESTED", "CANCEL_REQUESTED", "FAILED"}
        \subseteq AllowedTransitions["OPTIMIZING"]
  OBVIOUS
<1>6. {"PAUSED", "COMPLETED", "MAX_ITERATIONS_REACHED", "CANCEL_REQUESTED", "FAILED"}
        \subseteq AllowedTransitions["PAUSE_REQUESTED"]
  OBVIOUS
<1>7. {"OPTIMIZING", "CANCEL_REQUESTED", "FAILED"} \subseteq AllowedTransitions["PAUSED"]
  OBVIOUS
<1>8. {"CANCELLED", "FAILED"} \subseteq AllowedTransitions["CANCEL_REQUESTED"]
  OBVIOUS
<1> QED
  BY <1>1, <1>2, <1>3, <1>4, <1>5, <1>6, <1>7, <1>8 DEF CanTransition

\* A step's move, with the status it passes through within the step if there is one.
Moves ==
  \/ CanTransition(status, status')
  \/ \E s \in {"AGGREGATING", "CANCEL_REQUESTED"} :
       CanTransition(status, s) /\ CanTransition(s, status')

\* A step that changes the status moves it along the table.
LEMMA MoveStep ==
  ASSUME IInv, StatusFitsPlace, [Next]_vars, status' # status
  PROVE  Moves
<1> USE DEF IInv, StatusFitsPlace, Moves
<1>1. status \in RunStatuses
  BY DEF TypeOK, ControlTypeOK
<1>2. CASE GraphStep
  BY <1>1, <1>2, Transitions
  DEF GraphStep, StartRun, Superstep, Unwind, FailedStatus
<1>3. CASE GeneratorStep
  <2>1. stage = "generator" /\ ~cancelSignal
          /\ (BeginGenerator \/ FinishGeneration)
    BY <1>3
    DEF GeneratorStep, BeginGenerator, ResumeChunk, ResumeFailedAttempt,
        ResumeRejectedStream, ResumeStreamTooLate, FinishGeneration, GeneratorFrame,
        Settled, Interrupt, None, TasksFitStage
  <2>2. status \notin TerminalStatuses
    BY <2>1 DEF StatusFitsStage, HasEnded
  <2>3. CASE BeginGenerator
    BY <2>1, <2>2, <2>3, Transitions DEF BeginGenerator, Staged
  <2>4. CASE FinishGeneration
    BY <2>1, <2>2, <2>4, Transitions DEF FinishGeneration, Settled, Staged
  <2> QED BY <2>1, <2>3, <2>4
<1>4. CASE AggregatorStep
  <2>1. stage = "aggregator" /\ ~cancelSignal /\ pc["aggregator"] = "ready" /\ Aggregate
    BY <1>4
    DEF AggregatorStep, Aggregate, WakeAggregator, StructuredFrame, Interrupt, None,
        TasksFitStage
  <2>2. status \in {"REVIEWING", "PAUSE_REQUESTED"}
    BY <2>1 DEF StatusFitsStage, HasEnded
  <2>3. ~\E r \in Roles : reviews[r] = 0
    BY <2>1 DEF ReviewsFitStage, TypeOK, ResultTypeOK
  <2>4. \/ status' \in {"COMPLETED", "MAX_ITERATIONS_REACHED"}
        \/ status = "PAUSE_REQUESTED" /\ status' = "PAUSED"
        \/ status = "REVIEWING" /\ status' = "OPTIMIZING"
    BY <2>1, <2>2, <2>3 DEF Aggregate, Conclude, Park, Staged
  <2> QED BY <2>2, <2>4, Transitions
<1>5. CASE OptimizerStep
  <2>1. stage = "optimizer" /\ ~cancelSignal /\ pc["optimizer"] # "done"
    BY <1>5
    DEF OptimizerStep, BeginOptimizer, WakeOptimizer, WakeOptimizerAgain, FinishPlan,
        Woken, Settled, Interrupt, None, TasksFitStage
  <2>2. status \in {"OPTIMIZING", "PAUSE_REQUESTED", "PAUSED"}
    BY <2>1 DEF StatusFitsStage, HasEnded
  <2>3. CASE FinishPlan
    <3>1. pc["optimizer"] = "settled" /\ status' = Staged("GENERATING")
      BY <2>3 DEF FinishPlan, Settled
    <3>2. status = "OPTIMIZING" /\ status' = "GENERATING"
      BY <2>1, <2>2, <3>1, ValueSets DEF Staged
    <3> QED BY <3>2, Transitions
  <2>4. CASE LaunchOptimizer
    <3>1. status = "PAUSED" /\ status' = "OPTIMIZING"
      BY <2>2, <2>4 DEF LaunchOptimizer, Staged
    <3> QED BY <3>1, Transitions
  <2>5. ASSUME NEW place, ParkOptimizer(place), status = "PAUSE_REQUESTED" PROVE Moves
    BY <2>5, Transitions DEF ParkOptimizer, Park
  <2> QED
    BY <1>5, <2>3, <2>4, <2>5
    DEF OptimizerStep, BeginOptimizer, WakeOptimizer, WakeOptimizerAgain
<1>6. CASE \/ \E r \in Roles : ReviewerStep(r)
           \/ \E n \in Structured : StructuredStep(n)
           \/ \E n \in Nodes : Refuse(n) \/ RefuseWoken(n) \/ Settle(n) \/ Throw(n)
  BY <1>6
  DEF ReviewerStep, BeginReview, FinishReview, StructuredStep, RetryCall, RepairAnswer,
      Refuse, RefuseWoken, Settle, Throw, StructuredFrame
<1>7. CASE UserStep
  BY <1>1, <1>7, Transitions DEF UserStep, RequestPause, ResumeRun, CancelRun
<1>8. CASE SpendBudget \/ UNCHANGED vars
  BY <1>8 DEF SpendBudget, vars
<1> QED
  BY <1>2, <1>3, <1>4, <1>5, <1>6, <1>7, <1>8 DEF Next, Ended, NodeStep

--------------------------------------------------------------------------------
(* What follows. *)

\* In every reachable state what has been handed over fits the place it has been
\* handed to.
THEOREM HandoverInvariance == Spec => []HandoverInv
<1>1. IInv /\ HandoverInv /\ [Next]_vars => HandoverInv'
  BY DraftStep, PlanStep, OverrideStep, ActiveNodeStep, StatusStep DEF HandoverInv
<1> QED BY <1>1, HandoverInit, Invariance, PTL DEF Spec

\* The snapshot, the tasks of the nodes and what they hand over fit together in every
\* reachable state, whatever the users request and the providers answer.
THEOREM WorkflowInvariance == Spec => []WorkflowInv
<1>1. IInv /\ HandoverInv => WorkflowInv
  BY DEF WorkflowInv
<1> QED BY <1>1, Invariance, HandoverInvariance, PTL

\* current_prd never mixes two attempts or two versions, and the reviewers read the
\* finished text of the current version, whatever _begin_stream, retries and
\* finish_generation have done to it.
THEOREM OneText == Spec => []DraftIsOneText
<1>1. ASSUME IInv, HandoverInv PROVE DraftIsOneText
  <2>1. ASSUME NEW r \in Roles, Asking(r)
        PROVE  draft = {Tag} /\ Len(versions) = iteration
    BY <1>1, <2>1
    DEF IInv, HandoverInv, DraftFitsStage, TasksFitStage, VersionsFitStage, Written, Asking
  <2> QED BY <1>1, <2>1 DEF HandoverInv, DraftFitsStage, DraftIsOneText
<1> QED BY <1>1, Invariance, HandoverInvariance, PTL

\* Every attempt at a later version has the plan made from the version before it, and
\* finish_generation leaves none behind for the reviewers and the aggregator.
THEOREM PlanReachesGenerator == Spec => []PlanFitsIteration
<1>1. HandoverInv => PlanFitsIteration
  BY DEF HandoverInv, PlanFitsStage, PlanFitsIteration
<1> QED BY <1>1, HandoverInvariance, PTL

\* The override finish_optimizer erases is, word for word, the one its plan was asked
\* for with: while the optimizer asks, resume_run refuses to take another.  (What an
\* earlier resume said, and a later one replaced before the optimizer began, is gone by
\* then.)
THEOREM OverrideIsUsed == Spec => []OverrideReachesPlan
<1>1. HandoverInv => OverrideReachesPlan
  BY DEF HandoverInv
<1> QED BY <1>1, HandoverInvariance, PTL

\* active_node always names a running node, so fail_run blames one, for any number
\* of reviewers sharing it.
THEOREM BlamedNodeRuns == Spec => []ActiveNodeRuns
<1>1. HandoverInv => ActiveNodeRuns
  BY DEF HandoverInv
<1> QED BY <1>1, HandoverInvariance, PTL

\* Every status change of a run is in state_machine.py's table, or two of them are,
\* one after the other.
THEOREM LegalMoves == Spec => StatusMovesAreLegal
<1>1. ASSUME IInv, HandoverInv, [Next]_vars
      PROVE  [LET via(s) == s \in {"AGGREGATING", "CANCEL_REQUESTED"}
              IN \/ CanTransition(status, status')
                 \/ \E s \in RunStatuses : /\ via(s)
                                           /\ CanTransition(status, s)
                                           /\ CanTransition(s, status')]_status
  BY <1>1, MoveStep, ValueSets DEF HandoverInv, Moves
<1> QED BY <1>1, Invariance, HandoverInvariance, PTL DEF Spec, StatusMovesAreLegal

================================================================================
