------------------------ MODULE AgentWorkflowRefinement ------------------------
(***************************************************************************)
(* AgentWorkflow implements RevisionLoop: initial states are initial       *)
(* states, and every step is a step of the loop or a stutter.              *)
(***************************************************************************)
EXTENDS AgentWorkflowProofs

\* A new run is a new loop.
LEMMA LoopInit == Init => Loop!Init
BY ValueSets DEF Init, Loop!Init, NoBest, Loop!NoBest, Unscored, Loop!Unscored

\* A step that changes neither a result nor whether the run has ended or is
\* paused is a stutter of the loop.
LEMMA LoopStutter ==
  ASSUME UNCHANGED judgement,
         \/ UNCHANGED status
         \/ /\ status \notin TerminalStatuses \cup {"PAUSED"}
            /\ status' \notin TerminalStatuses \cup {"PAUSED"}
  PROVE  UNCHANGED Loop!vars
BY DEF judgement, Loop!vars

\* A node that is ready or asking, or has thrown, is in a run that is not paused.
LEMMA BusyIsNotPaused ==
  ASSUME IInv, status = "PAUSED"
  PROVE  \/ stage = "aggregator" /\ pc["aggregator"] = "parked"
         \/ stage = "optimizer" /\ pc["optimizer"] \in {"parked", "parkedAgain"}
BY DEF IInv, PauseFitsStage, Parked, TasksFitStage

\* finish_generation writes the version the loop writes.
LEMMA WriteStep ==
  ASSUME IInv, FinishGeneration
  PROVE  Loop!Write
<1> USE DEF IInv, FinishGeneration, Interrupt, Settled
<1>1. stage = "generator" /\ ~cancelSignal
  BY DEF TasksFitStage, None
<1>2. status \notin TerminalStatuses \cup {"PAUSED"}
  BY <1>1, BusyIsNotPaused DEF StatusFitsStage, HasEnded
<1>3. status' \notin TerminalStatuses \cup {"PAUSED"}
  BY <1>2, ValueSets DEF Staged
<1>4. Len(versions) = iteration - 1
  BY <1>1 DEF VersionsFitStage, NotWritten
<1> QED
  BY <1>2, <1>3, <1>4
  DEF Loop!Write, Loop!Running, NewVersion, Unscored, Loop!Unscored

\* finish_optimizer begins the next iteration of the loop.
LEMMA ReviseStep ==
  ASSUME IInv, FinishPlan
  PROVE  Loop!Revise
<1> USE DEF IInv, FinishPlan, Interrupt, Settled
<1>1. stage = "optimizer" /\ ~cancelSignal /\ pc["optimizer"] = "settled"
  BY DEF TasksFitStage, None
<1>2. status \notin TerminalStatuses \cup {"PAUSED"}
  BY <1>1, BusyIsNotPaused DEF StatusFitsStage, HasEnded
<1>3. status' \notin TerminalStatuses \cup {"PAUSED"}
  BY <1>2, ValueSets DEF Staged
<1>4. Len(versions) = iteration /\ versions[iteration].score \in Scores
  BY <1>1 DEF VersionsFitStage, Written, ScoresFitStage, HasScore
<1>5. iteration < MaxIterations
  BY <1>1 DEF BudgetFitsStage
<1> QED
  BY <1>2, <1>3, <1>4, <1>5, WorkflowAssumption
  DEF Loop!Revise, Loop!Running, Loop!Judged, Loop!Unscored, NextIteration

\* _aggregator_node judges the version as the loop does, on the gate and the
\* budget.
LEMMA JudgeStep ==
  ASSUME IInv, Aggregate
  PROVE  Loop!Judge
<1> USE DEF IInv, Aggregate, Interrupt
<1>1. /\ stage = "aggregator"
      /\ ~cancelSignal
      /\ ~\E r \in Roles : reviews[r] = 0
  BY DEF TasksFitStage, ReviewsFitStage, TypeOK, ResultTypeOK, None
<1>2. status \notin TerminalStatuses \cup {"PAUSED"}
  BY <1>1, BusyIsNotPaused DEF StatusFitsStage, HasEnded
<1>3. Len(versions) = iteration /\ versions[iteration].score = Unscored
  BY <1>1 DEF VersionsFitStage, Written, ScoresFitStage, AwaitsScore
<1>4. PICK score \in Scores, mustFix \in BOOLEAN :
        /\ versions' = Evaluated(score)
        /\ best' = BestAfter(score)
        /\ Conclude(GatePassed(score, mustFix))
  BY <1>1
<1>5. score \in Nat /\ best.score \in Nat \cup {-1} /\ iteration \in 1..MaxIterations
  BY WorkflowAssumption DEF TypeOK, ResultTypeOK, Unscored
<1>6. best = NoBest => score > best.score
  BY <1>5 DEF NoBest, Unscored
<1>7. best' = IF score > best.score THEN [num |-> iteration, score |-> score] ELSE best
  BY <1>4, <1>6 DEF BestAfter
<1>8. GatePassed(score, mustFix) \in BOOLEAN
        /\ (GatePassed(score, mustFix) => score >= Threshold)
  BY DEF GatePassed
<1>9. \/ GatePassed(score, mustFix) /\ status' = "COMPLETED"
      \/ /\ ~GatePassed(score, mustFix) /\ iteration = MaxIterations
         /\ status' = "MAX_ITERATIONS_REACHED"
      \/ /\ ~GatePassed(score, mustFix) /\ iteration < MaxIterations
         /\ status' \in {"PAUSED", "OPTIMIZING"}
  BY <1>4, <1>5, WorkflowAssumption DEF Conclude, Park
<1>10. versions' = [versions EXCEPT ![iteration].score = score]
  BY <1>3, <1>4 DEF Evaluated
<1>11. UNCHANGED iteration
  OBVIOUS
<1> QED
  BY <1>2, <1>3, <1>7, <1>8, <1>9, <1>10, <1>11, ValueSets
  DEF Loop!Judge, Loop!Running, Unscored, Loop!Unscored

\* _optimizer_node holds the loop if a pause is waiting, and is invisible to it
\* otherwise.
LEMMA OptimizerBeginsAStep ==
  ASSUME IInv, BeginOptimizer \/ WakeOptimizer \/ WakeOptimizerAgain
  PROVE  Loop!Hold \/ UNCHANGED Loop!vars
<1> USE DEF IInv
<1>1. /\ stage = "optimizer" /\ pc["optimizer"] # "done"
      /\ ~cancelSignal
      /\ pc["optimizer"] = "ready" \/ resumeSignal
  BY DEF BeginOptimizer, WakeOptimizer, WakeOptimizerAgain, Woken, Interrupt,
         None, TasksFitStage
<1>2. status \notin TerminalStatuses \cup {"PAUSED"}
  BY <1>1, BusyIsNotPaused DEF StatusFitsStage, HasEnded, PauseFitsStage
<1>3. ASSUME NEW place, ParkOptimizer(place)
      PROVE  Loop!Hold
  <2>1. Len(versions) = iteration /\ versions[iteration].score \in Scores
    BY <1>1 DEF VersionsFitStage, Written, ScoresFitStage, HasScore
  <2>2. iteration < MaxIterations
    BY <1>1 DEF BudgetFitsStage
  <2>3. status' = "PAUSED" /\ UNCHANGED judgement
    BY <1>3 DEF ParkOptimizer, Park, results
  <2> QED
    BY <1>2, <2>1, <2>2, <2>3, WorkflowAssumption, ValueSets
    DEF Loop!Hold, Loop!Running, Loop!Judged, Loop!Unscored, judgement
<1>4. CASE LaunchOptimizer
  <2>1. UNCHANGED judgement /\ status' \in {status, "OPTIMIZING"}
    BY <1>4 DEF LaunchOptimizer, Staged, results
  <2> QED BY <1>2, <2>1, LoopStutter, ValueSets
<1> QED BY <1>3, <1>4 DEF BeginOptimizer, WakeOptimizer, WakeOptimizerAgain

\* fail_run fails the loop, unless the run has ended already.
LEMMA FailStep ==
  ASSUME IInv, NEW n \in Nodes, Unwind(n)
  PROVE  Loop!Fail \/ UNCHANGED Loop!vars
<1> USE DEF IInv, Unwind
<1>1. CASE UNCHANGED status
  BY <1>1, LoopStutter
<1>2. CASE ~UNCHANGED status
  <2>1. status' = "FAILED" /\ status \notin TerminalStatuses
    BY <1>2 DEF FailedStatus
  <2>2. status # "PAUSED"
    BY BusyIsNotPaused, NodeNames DEF TasksFitStage
  <2> QED
    BY <2>1, <2>2, ValueSets DEF Loop!Fail, Loop!Running, judgement
<1> QED BY <1>1, <1>2

\* Resuming releases the loop, cancelling ends it, and asking for a pause is
\* invisible to it.
LEMMA UserLoopStep ==
  ASSUME IInv, UserStep
  PROVE  Loop!Release \/ Loop!Cancel \/ UNCHANGED Loop!vars
<1>1. CASE RequestPause
  <2>1. /\ UNCHANGED judgement
        /\ status \in PausableStatuses
        /\ status' = "PAUSE_REQUESTED"
    BY <1>1 DEF RequestPause, ControlFrame
  <2> QED BY <2>1, LoopStutter, ValueSets
<1>2. CASE ResumeRun
  BY <1>2, ValueSets DEF ResumeRun, ControlFrame, Loop!Release, judgement
<1>3. CASE CancelRun
  BY <1>3, ValueSets DEF CancelRun, ControlFrame, Loop!Cancel, judgement
<1> QED BY <1>1, <1>2, <1>3 DEF UserStep

\* Every step of a run is a step of the loop or none.
LEMMA LoopNext == IInv /\ [Next]_vars => [Loop!Next]_(Loop!vars)
<1> SUFFICES ASSUME IInv, [Next]_vars PROVE [Loop!Next]_(Loop!vars)
  OBVIOUS
<1> USE DEF Loop!Next
<1>1. CASE StartRun \/ Superstep
  BY <1>1, LoopStutter DEF StartRun, Superstep
<1>2. CASE \E n \in Nodes : Unwind(n)
  BY <1>2, FailStep
<1>3. CASE BeginGenerator
  <2>1. status \notin TerminalStatuses \cup {"PAUSED"} /\ UNCHANGED judgement
    BY <1>3, BusyIsNotPaused
    DEF BeginGenerator, Interrupt, None, results, IInv, TasksFitStage,
        StatusFitsStage, HasEnded
  <2>2. status' \in {status, "GENERATING"}
    BY <1>3 DEF BeginGenerator, Staged
  <2> QED BY <2>1, <2>2, LoopStutter, ValueSets
<1>4. CASE ResumeChunk \/ ResumeFailedAttempt \/ ResumeRejectedStream \/ ResumeStreamTooLate
  BY <1>4, LoopStutter
  DEF ResumeChunk, ResumeFailedAttempt, ResumeRejectedStream, ResumeStreamTooLate,
      GeneratorFrame
<1>5. CASE FinishGeneration
  BY <1>5, WriteStep
<1>6. CASE \E r \in Roles : ReviewerStep(r)
  BY <1>6, LoopStutter DEF ReviewerStep, BeginReview, FinishReview, results
<1>7. CASE AggregatorStep
  BY <1>7, JudgeStep, LoopStutter DEF AggregatorStep, WakeAggregator, StructuredFrame
<1>8. CASE OptimizerStep
  BY <1>8, OptimizerBeginsAStep, ReviseStep DEF OptimizerStep
<1>9. CASE \/ \E n \in Structured : StructuredStep(n)
           \/ \E n \in Nodes : Refuse(n) \/ RefuseWoken(n) \/ Settle(n) \/ Throw(n)
  BY <1>9, LoopStutter
  DEF StructuredStep, RetryCall, RepairAnswer, Refuse, RefuseWoken, Settle, Throw,
      StructuredFrame
<1>10. CASE UserStep
  BY <1>10, UserLoopStep
<1>11. CASE SpendBudget
  BY <1>11, LoopStutter DEF SpendBudget
<1>12. CASE UNCHANGED vars
  BY <1>12, LoopStutter DEF vars
<1> QED
  BY <1>1, <1>2, <1>3, <1>4, <1>5, <1>6, <1>7, <1>8, <1>9, <1>10, <1>11, <1>12
  DEF Next, Ended, GraphStep, NodeStep, GeneratorStep

\* A run implements the revision loop: seen through its status, iteration,
\* versions and best version, workflow.py under run_manager.py writes a
\* version, judges it, and revises, pauses, fails or ends, in that order and no
\* other.
THEOREM Refinement == Spec => LoopSpec
BY LoopInit, LoopNext, Invariance, PTL DEF Spec, LoopSpec, Loop!Spec

================================================================================
