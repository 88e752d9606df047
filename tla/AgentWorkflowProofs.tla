-------------------------- MODULE AgentWorkflowProofs --------------------------
(***************************************************************************)
(* IInv is an invariant of AgentWorkflow, for every set of reviewers,      *)
(* every budget, every set of scores and every threshold, and what follows *)
(* from that.                                                              *)
(***************************************************************************)
EXTENDS AgentWorkflowInvariant, SequenceTheorems, TLAPS

\* The three fixed nodes are told apart from the reviewers and from None.
LEMMA NodeNames ==
  /\ Nodes = Roles \cup {"generator", "aggregator", "optimizer"}
  /\ "generator" \notin Roles
  /\ "aggregator" \notin Roles
  /\ "optimizer" \notin Roles
  /\ None \notin Nodes
BY WorkflowAssumption DEF Nodes, None

\* The sets of statuses and answers, spelled out.
LEMMA ValueSets ==
  /\ RunStatuses = {"QUEUED", "GENERATING", "REVIEWING", "AGGREGATING",
                    "OPTIMIZING", "PAUSE_REQUESTED", "PAUSED",
                    "CANCEL_REQUESTED", "CANCELLED", "COMPLETED",
                    "MAX_ITERATIONS_REACHED", "FAILED"}
  /\ PausableStatuses = {"GENERATING", "REVIEWING", "AGGREGATING", "OPTIMIZING"}
  /\ TerminalStatuses = {"COMPLETED", "MAX_ITERATIONS_REACHED", "CANCELLED",
                         "FAILED"}
  /\ AnyAnswer = {"none", "cancelled", "timeout", "retryable", "fatal", "crash",
                  "invalid", "chunk", "end", "ok", "malformed", "misrole"}
  /\ None = "none"
  /\ ProviderFaults \subseteq {"retryable", "fatal", "crash"}
BY WorkflowAssumption
   DEF RunStatuses, LiveStatuses, PausableStatuses, TerminalStatuses, AnyAnswer,
       Exceptions, None

\* A run as create_run leaves it satisfies the invariant.
LEMMA InitInvariant == Init => IInv
<1> SUFFICES ASSUME Init PROVE IInv OBVIOUS
<1> USE DEF Init
<1>1. TypeOK
  <2>1. ResultTypeOK
    BY WorkflowAssumption DEF ResultTypeOK, Version, NoBest, Unscored
  <2>2. ProgressTypeOK
    BY DEF ProgressTypeOK
  <2>3. ControlTypeOK
    <3>1. answer \in [Nodes -> AnyAnswer]
      BY ValueSets
    <3>2. pc \in [Nodes -> Places] /\ attempt \in [Nodes -> 0..RepairCall]
      BY DEF Places, RepairCall
    <3> QED BY <3>1, <3>2, ValueSets DEF ControlTypeOK
  <2> QED BY <2>1, <2>2, <2>3 DEF TypeOK
<1>2. TasksFitStage /\ AnswersFitTasks /\ AttemptsFitTasks
  BY NodeNames
  DEF TasksFitStage, AnswersFitTasks, None, AttemptsFitTasks, Asking,
      RepairCall, Structured
<1>3. VersionsFitStage /\ ScoresFitStage /\ BestIsEarliestMaximum
  BY WorkflowAssumption
  DEF VersionsFitStage, Written, NotWritten, ScoresFitStage, AwaitsScore,
      HasScore, Aggregated, BestIsEarliestMaximum, Scored
<1>4. ReviewsFitStage /\ BudgetFitsStage /\ StatusFitsStage /\ PauseFitsStage
  BY NodeNames
  DEF ReviewsFitStage, NotWritten, BudgetFitsStage, StatusFitsStage, HasEnded,
      TerminalStatuses, PauseFitsStage, Parked
<1> QED BY <1>1, <1>2, <1>3, <1>4 DEF IInv

--------------------------------------------------------------------------------
(* One lemma per action.  Its first step is about the parts of IInv the action *)
(* does not touch, each of the others about one it could disturb.              *)

\* StartRun (run) keeps the invariant.
LEMMA StartRunStep ==
  ASSUME IInv, StartRun
  PROVE  IInv'
<1> USE DEF IInv, TypeOK, StartRun, EnterWave, Wave, judgement, inputs,
  progress, signals
<1>1. ResultTypeOK' /\ ProgressTypeOK' /\ BestIsEarliestMaximum'
  BY DEF ResultTypeOK, ProgressTypeOK, BestIsEarliestMaximum, Scored
<1>2. ControlTypeOK'
  BY DEF ControlTypeOK, Places
<1>3. TasksFitStage'
  BY NodeNames DEF TasksFitStage
<1>4. AnswersFitTasks'
  BY DEF AnswersFitTasks
<1>5. AttemptsFitTasks'
  BY NodeNames DEF AttemptsFitTasks, Asking, Structured
<1>6. VersionsFitStage'
  BY NodeNames DEF VersionsFitStage, Written, NotWritten
<1>7. ScoresFitStage'
  BY NodeNames DEF ScoresFitStage, AwaitsScore, HasScore
<1>8. ReviewsFitStage'
  BY DEF ReviewsFitStage, NotWritten
<1>9. BudgetFitsStage'
  BY DEF BudgetFitsStage
<1>10. StatusFitsStage'
  BY DEF StatusFitsStage, HasEnded
<1>11. PauseFitsStage'
  BY NodeNames DEF PauseFitsStage, Parked, StatusFitsStage
<1> QED BY <1>1, <1>2, <1>3, <1>4, <1>5, <1>6, <1>7, <1>8, <1>9, <1>10, <1>11

\* Superstep (the compiled graph) keeps the invariant.
LEMMA SuperstepStep ==
  ASSUME IInv, Superstep
  PROVE  IInv'
<1> USE DEF IInv, TypeOK, Superstep, EnterWave, NextStage,
  RouteAfterAggregate, Wave, judgement, inputs, progress, signals
<1>1. ResultTypeOK' /\ ProgressTypeOK' /\ BestIsEarliestMaximum'
  BY DEF ResultTypeOK, ProgressTypeOK, BestIsEarliestMaximum, Scored
<1>2. ControlTypeOK'
  BY DEF ControlTypeOK, Places
<1>3. TasksFitStage'
  BY NodeNames DEF TasksFitStage
<1>4. AnswersFitTasks'
  BY DEF AnswersFitTasks
<1>5. AttemptsFitTasks'
  BY NodeNames DEF AttemptsFitTasks, Asking, Structured
<1>6. VersionsFitStage'
  BY NodeNames DEF VersionsFitStage, Written, NotWritten
<1>7. ScoresFitStage'
  BY NodeNames DEF ScoresFitStage, AwaitsScore, HasScore, Aggregated
<1>8. ReviewsFitStage'
  BY NodeNames DEF ReviewsFitStage, NotWritten
<1>9. BudgetFitsStage'
  BY NodeNames DEF BudgetFitsStage, Aggregated, HasEnded
<1>10. StatusFitsStage'
  BY DEF StatusFitsStage, HasEnded
<1>11. PauseFitsStage'
  BY NodeNames DEF PauseFitsStage, Parked, TasksFitStage
<1> QED BY <1>1, <1>2, <1>3, <1>4, <1>5, <1>6, <1>7, <1>8, <1>9, <1>10, <1>11

\* Unwind (run) keeps the invariant.
LEMMA UnwindStep ==
  ASSUME IInv, NEW n \in Nodes, Unwind(n)
  PROVE  IInv'
<1> USE DEF IInv, TypeOK, Unwind, EnterWave, Wave, FailedStatus, judgement,
  inputs, progress, signals
<1>1. ResultTypeOK' /\ BestIsEarliestMaximum'
  BY DEF ResultTypeOK, BestIsEarliestMaximum, Scored
<1>2. ProgressTypeOK'
  BY DEF ProgressTypeOK
<1>3. ControlTypeOK'
  BY ValueSets DEF ControlTypeOK, Places
<1>4. TasksFitStage'
  BY NodeNames DEF TasksFitStage
<1>5. AnswersFitTasks'
  BY DEF AnswersFitTasks, None
<1>6. AttemptsFitTasks'
  BY NodeNames DEF AttemptsFitTasks, Asking, Structured
<1>7. VersionsFitStage'
  BY DEF VersionsFitStage, Written, NotWritten
<1>8. ScoresFitStage'
  BY DEF ScoresFitStage, AwaitsScore, HasScore
<1>9. ReviewsFitStage'
  BY DEF ReviewsFitStage, NotWritten
<1>10. BudgetFitsStage'
  BY DEF BudgetFitsStage
<1>11. StatusFitsStage'
  BY DEF StatusFitsStage, HasEnded, TerminalStatuses, AnswersFitTasks
<1>12. PauseFitsStage'
  BY NodeNames DEF PauseFitsStage, Parked, TasksFitStage
<1> QED BY <1>1, <1>2, <1>3, <1>4, <1>5, <1>6, <1>7, <1>8, <1>9, <1>10,
  <1>11, <1>12

\* BeginGenerator (_generator_node) keeps the invariant.
LEMMA BeginGeneratorStep ==
  ASSUME IInv, BeginGenerator
  PROVE  IInv'
<1> USE DEF IInv, TypeOK, BeginGenerator, Interrupt, results, Staged,
  MarkRunning, Issue, Goto, ClearedDraft, judgement, signals
<1>1. BestIsEarliestMaximum'
  BY DEF BestIsEarliestMaximum, Scored
<1>2. ResultTypeOK'
  BY DEF ResultTypeOK
<1>3. ProgressTypeOK'
  BY NodeNames DEF ProgressTypeOK
<1>4. ControlTypeOK'
  BY NodeNames, ValueSets DEF ControlTypeOK, Places, RepairCall
<1>5. TasksFitStage'
  BY DEF TasksFitStage
<1>6. AnswersFitTasks'
  BY DEF AnswersFitTasks, None
<1>7. AttemptsFitTasks'
  BY DEF AttemptsFitTasks, Asking, RepairCall, ControlTypeOK
<1>8. VersionsFitStage'
  BY DEF VersionsFitStage, Written, NotWritten
<1>9. ScoresFitStage'
  BY DEF ScoresFitStage, AwaitsScore, HasScore, Aggregated
<1>10. ReviewsFitStage'
  BY DEF ReviewsFitStage, NotWritten
<1>11. BudgetFitsStage'
  BY DEF BudgetFitsStage, TasksFitStage
<1>12. StatusFitsStage'
  BY DEF StatusFitsStage, HasEnded, TerminalStatuses, None, TasksFitStage
<1>13. PauseFitsStage'
  BY DEF PauseFitsStage, Parked, TasksFitStage
<1> QED BY <1>1, <1>2, <1>3, <1>4, <1>5, <1>6, <1>7, <1>8, <1>9, <1>10,
  <1>11, <1>12, <1>13

\* ResumeChunk (_stream_generation) keeps the invariant.
LEMMA ResumeChunkStep ==
  ASSUME IInv, ResumeChunk
  PROVE  IInv'
<1> USE DEF IInv, TypeOK, ResumeChunk, GeneratorFrame, FailAttempt,
  StreamInterrupt, Flushed, ClearedDraft, Log, Issue, Raise, Goto, Settled,
  Entry, Tag, judgement, inputs, progress, signals
<1>1. BestIsEarliestMaximum'
  BY DEF BestIsEarliestMaximum, Scored
<1>2. ResultTypeOK'
  BY NodeNames DEF ResultTypeOK, AttemptsFitTasks, Asking
<1>3. ProgressTypeOK'
  BY DEF ProgressTypeOK, EventTypes
<1>4. ControlTypeOK'
  BY ValueSets DEF ControlTypeOK, Places, RepairCall
<1>5. TasksFitStage'
  BY NodeNames DEF TasksFitStage, ControlTypeOK
<1>6. AnswersFitTasks'
  BY DEF AnswersFitTasks, ControlTypeOK, None, Exceptions
<1>7. AttemptsFitTasks'
  BY NodeNames DEF AttemptsFitTasks, Asking, RepairCall, Structured,
    ControlTypeOK
<1>8. VersionsFitStage'
  BY NodeNames DEF VersionsFitStage, Written, NotWritten, ControlTypeOK
<1>9. ScoresFitStage'
  BY NodeNames DEF ScoresFitStage, AwaitsScore, HasScore, Aggregated,
    ControlTypeOK
<1>10. ReviewsFitStage'
  BY NodeNames DEF ReviewsFitStage, NotWritten, ControlTypeOK
<1>11. BudgetFitsStage'
  BY NodeNames DEF BudgetFitsStage, Aggregated, HasEnded, ControlTypeOK
<1>12. StatusFitsStage'
  BY NodeNames DEF StatusFitsStage, HasEnded, ControlTypeOK
<1>13. PauseFitsStage'
  BY NodeNames DEF PauseFitsStage, Parked, ControlTypeOK
<1> QED BY <1>1, <1>2, <1>3, <1>4, <1>5, <1>6, <1>7, <1>8, <1>9, <1>10,
  <1>11, <1>12, <1>13

\* ResumeFailedAttempt (_generator_node) keeps the invariant.
LEMMA ResumeFailedAttemptStep ==
  ASSUME IInv, ResumeFailedAttempt
  PROVE  IInv'
<1> USE DEF IInv, TypeOK, ResumeFailedAttempt, GeneratorFrame, FailAttempt,
  StreamInterrupt, ClearedDraft, Log, Issue, Raise, Goto, Entry, judgement,
  inputs, progress, signals
<1>1. BestIsEarliestMaximum'
  BY DEF BestIsEarliestMaximum, Scored
<1>2. ResultTypeOK'
  BY NodeNames DEF ResultTypeOK, AttemptsFitTasks, Asking
<1>3. ProgressTypeOK'
  BY DEF ProgressTypeOK, EventTypes
<1>4. ControlTypeOK'
  BY ValueSets DEF ControlTypeOK, Places, RepairCall
<1>5. TasksFitStage'
  BY NodeNames DEF TasksFitStage, ControlTypeOK
<1>6. AnswersFitTasks'
  BY DEF AnswersFitTasks, ControlTypeOK, None, Exceptions
<1>7. AttemptsFitTasks'
  BY NodeNames DEF AttemptsFitTasks, Asking, RepairCall, Structured,
    ControlTypeOK
<1>8. VersionsFitStage'
  BY NodeNames DEF VersionsFitStage, Written, NotWritten, ControlTypeOK
<1>9. ScoresFitStage'
  BY NodeNames DEF ScoresFitStage, AwaitsScore, HasScore, Aggregated,
    ControlTypeOK
<1>10. ReviewsFitStage'
  BY NodeNames DEF ReviewsFitStage, NotWritten, ControlTypeOK
<1>11. BudgetFitsStage'
  BY NodeNames DEF BudgetFitsStage, Aggregated, HasEnded, ControlTypeOK
<1>12. StatusFitsStage'
  BY NodeNames DEF StatusFitsStage, HasEnded, ControlTypeOK
<1>13. PauseFitsStage'
  BY NodeNames DEF PauseFitsStage, Parked, ControlTypeOK
<1> QED BY <1>1, <1>2, <1>3, <1>4, <1>5, <1>6, <1>7, <1>8, <1>9, <1>10,
  <1>11, <1>12, <1>13

\* ResumeRejectedStream (_stream_generation) keeps the invariant.
LEMMA ResumeRejectedStreamStep ==
  ASSUME IInv, ResumeRejectedStream
  PROVE  IInv'
<1> USE DEF IInv, TypeOK, ResumeRejectedStream, GeneratorFrame, FailAttempt,
  StreamInterrupt, Flushed, ClearedDraft, Issue, Raise, Goto, Settled, Entry,
  Tag, judgement, inputs, signals
<1>1. BestIsEarliestMaximum'
  BY DEF BestIsEarliestMaximum, Scored
<1>2. ResultTypeOK'
  BY NodeNames DEF ResultTypeOK, AttemptsFitTasks, Asking
<1>3. ProgressTypeOK'
  BY NodeNames DEF ProgressTypeOK, EventTypes, None, progress, Log
<1>4. ControlTypeOK'
  BY ValueSets DEF ControlTypeOK, Places, RepairCall
<1>5. TasksFitStage'
  BY NodeNames DEF TasksFitStage, ControlTypeOK
<1>6. AnswersFitTasks'
  BY DEF AnswersFitTasks, ControlTypeOK, None, Exceptions
<1>7. AttemptsFitTasks'
  BY NodeNames DEF AttemptsFitTasks, Asking, RepairCall, Structured,
    ControlTypeOK
<1>8. VersionsFitStage'
  BY NodeNames DEF VersionsFitStage, Written, NotWritten, ControlTypeOK
<1>9. ScoresFitStage'
  BY NodeNames DEF ScoresFitStage, AwaitsScore, HasScore, Aggregated,
    ControlTypeOK
<1>10. ReviewsFitStage'
  BY NodeNames DEF ReviewsFitStage, NotWritten, ControlTypeOK
<1>11. BudgetFitsStage'
  BY NodeNames DEF BudgetFitsStage, Aggregated, HasEnded, ControlTypeOK
<1>12. StatusFitsStage'
  BY NodeNames DEF StatusFitsStage, HasEnded, ControlTypeOK
<1>13. PauseFitsStage'
  BY NodeNames DEF PauseFitsStage, Parked, ControlTypeOK
<1> QED BY <1>1, <1>2, <1>3, <1>4, <1>5, <1>6, <1>7, <1>8, <1>9, <1>10,
  <1>11, <1>12, <1>13

\* ResumeStreamTooLate (_generator_node) keeps the invariant.
LEMMA ResumeStreamTooLateStep ==
  ASSUME IInv, ResumeStreamTooLate
  PROVE  IInv'
<1> USE DEF IInv, TypeOK, ResumeStreamTooLate, GeneratorFrame, Interrupt,
  Raise, Goto, Settled, judgement, inputs, progress, signals
<1>1. ResultTypeOK' /\ ProgressTypeOK' /\ BestIsEarliestMaximum'
  BY DEF ResultTypeOK, ProgressTypeOK, BestIsEarliestMaximum, Scored
<1>2. ControlTypeOK'
  BY NodeNames, ValueSets DEF ControlTypeOK, Places
<1>3. TasksFitStage'
  BY DEF TasksFitStage
<1>4. AnswersFitTasks'
  BY DEF AnswersFitTasks, ControlTypeOK, Exceptions
<1>5. AttemptsFitTasks'
  BY DEF AttemptsFitTasks, Asking
<1>6. VersionsFitStage'
  BY DEF VersionsFitStage, Written, NotWritten
<1>7. ScoresFitStage'
  BY DEF ScoresFitStage, AwaitsScore, HasScore, Aggregated
<1>8. ReviewsFitStage'
  BY DEF ReviewsFitStage, NotWritten
<1>9. BudgetFitsStage'
  BY DEF BudgetFitsStage, Aggregated, HasEnded
<1>10. StatusFitsStage'
  BY DEF StatusFitsStage, HasEnded
<1>11. PauseFitsStage'
  BY DEF PauseFitsStage, Parked
<1> QED BY <1>1, <1>2, <1>3, <1>4, <1>5, <1>6, <1>7, <1>8, <1>9, <1>10, <1>11

\* FinishGeneration (_generator_node) keeps the invariant.
LEMMA FinishGenerationStep ==
  ASSUME IInv, FinishGeneration
  PROVE  IInv'
<1> USE DEF IInv, TypeOK, FinishGeneration, Settled, Interrupt, NewVersion,
  ConsumedPlan, MarkSucceeded, Log, Staged, Return, Goto, Entry, Tag, signals
<1>1. ResultTypeOK'
  BY WorkflowAssumption, NodeNames DEF ResultTypeOK, Version,
    AttemptsFitTasks, Asking
<1>2. ProgressTypeOK'
  BY NodeNames DEF ProgressTypeOK, EventTypes
<1>3. ControlTypeOK'
  BY NodeNames, ValueSets DEF ControlTypeOK, Places
<1>4. TasksFitStage'
  BY DEF TasksFitStage
<1>5. AnswersFitTasks'
  BY DEF AnswersFitTasks, ControlTypeOK, None
<1>6. AttemptsFitTasks'
  BY DEF AttemptsFitTasks, Asking
<1>7. VersionsFitStage'
  BY NodeNames DEF VersionsFitStage, NotWritten, ResultTypeOK, ControlTypeOK,
    TasksFitStage
<1>8. ScoresFitStage'
  BY DEF ScoresFitStage, HasScore, ResultTypeOK, TasksFitStage,
    VersionsFitStage, NotWritten
<1>9. BestIsEarliestMaximum'
  <2>1. /\ Len(versions') = Len(versions) + 1
        /\ versions'[Len(versions')] = NewVersion
        /\ \A i \in 1..Len(versions) : versions'[i] = versions[i]
    BY DEF ResultTypeOK
  <2>2. Scored' = Scored /\ Len(versions) \in Nat
    BY <2>1 DEF Scored, ResultTypeOK
  <2>3. 1..Len(versions) \subseteq Scored
    BY NodeNames, WorkflowAssumption
    DEF VersionsFitStage, NotWritten, ScoresFitStage, Scored, TasksFitStage,
        ResultTypeOK, Unscored
  <2> QED BY <2>1, <2>2, <2>3 DEF BestIsEarliestMaximum, Scored
<1>10. ReviewsFitStage'
  BY NodeNames DEF ReviewsFitStage, NotWritten
<1>11. BudgetFitsStage'
  BY DEF BudgetFitsStage, TasksFitStage
<1>12. StatusFitsStage'
  BY DEF StatusFitsStage, HasEnded, TerminalStatuses, None, TasksFitStage
<1>13. PauseFitsStage'
  BY DEF PauseFitsStage, Parked, TasksFitStage
<1> QED BY <1>1, <1>2, <1>3, <1>4, <1>5, <1>6, <1>7, <1>8, <1>9, <1>10,
  <1>11, <1>12, <1>13

\* RetryCall (_validated_structured) keeps the invariant.
LEMMA RetryCallStep ==
  ASSUME IInv, NEW n \in Structured, RetryCall(n)
  PROVE  IInv'
<1> USE DEF IInv, TypeOK, RetryCall, Reissue, Interrupt, Issue, Raise, Goto,
  StructuredFrame, judgement, inputs, progress, signals
<1>1. ResultTypeOK' /\ ProgressTypeOK' /\ BestIsEarliestMaximum'
  BY DEF ResultTypeOK, ProgressTypeOK, BestIsEarliestMaximum, Scored
<1>2. ControlTypeOK'
  BY ValueSets DEF ControlTypeOK, Places, RepairCall
<1>3. TasksFitStage'
  BY NodeNames DEF TasksFitStage, ControlTypeOK
<1>4. AnswersFitTasks'
  BY DEF AnswersFitTasks, ControlTypeOK, None, Exceptions
<1>5. AttemptsFitTasks'
  BY NodeNames DEF AttemptsFitTasks, Asking, Structured, ControlTypeOK
<1>6. VersionsFitStage'
  BY NodeNames DEF VersionsFitStage, Written, NotWritten, ControlTypeOK
<1>7. ScoresFitStage'
  BY NodeNames DEF ScoresFitStage, AwaitsScore, HasScore, Aggregated,
    ControlTypeOK, TasksFitStage
<1>8. ReviewsFitStage'
  BY NodeNames DEF ReviewsFitStage, NotWritten, ControlTypeOK
<1>9. BudgetFitsStage'
  BY NodeNames DEF BudgetFitsStage, Aggregated, HasEnded, ControlTypeOK
<1>10. StatusFitsStage'
  BY NodeNames DEF StatusFitsStage, HasEnded, ControlTypeOK
<1>11. PauseFitsStage'
  BY NodeNames DEF PauseFitsStage, Parked, ControlTypeOK
<1> QED BY <1>1, <1>2, <1>3, <1>4, <1>5, <1>6, <1>7, <1>8, <1>9, <1>10, <1>11

\* RepairAnswer (_validated_structured) keeps the invariant.
LEMMA RepairAnswerStep ==
  ASSUME IInv, NEW n \in Structured, RepairAnswer(n)
  PROVE  IInv'
<1> USE DEF IInv, TypeOK, RepairAnswer, Settled, Reissue, Interrupt, Issue,
  Raise, Goto, StructuredFrame, judgement, inputs, progress, signals
<1>1. ResultTypeOK' /\ ProgressTypeOK' /\ BestIsEarliestMaximum'
  BY DEF ResultTypeOK, ProgressTypeOK, BestIsEarliestMaximum, Scored
<1>2. ControlTypeOK'
  BY ValueSets DEF ControlTypeOK, Places, RepairCall
<1>3. TasksFitStage'
  BY NodeNames DEF TasksFitStage, ControlTypeOK
<1>4. AnswersFitTasks'
  BY DEF AnswersFitTasks, ControlTypeOK, None, Exceptions
<1>5. AttemptsFitTasks'
  BY NodeNames DEF AttemptsFitTasks, Asking, Structured, ControlTypeOK
<1>6. VersionsFitStage'
  BY NodeNames DEF VersionsFitStage, Written, NotWritten, ControlTypeOK
<1>7. ScoresFitStage'
  BY NodeNames DEF ScoresFitStage, AwaitsScore, HasScore, Aggregated,
    ControlTypeOK, TasksFitStage
<1>8. ReviewsFitStage'
  BY NodeNames DEF ReviewsFitStage, NotWritten, ControlTypeOK
<1>9. BudgetFitsStage'
  BY NodeNames DEF BudgetFitsStage, Aggregated, HasEnded, ControlTypeOK
<1>10. StatusFitsStage'
  BY NodeNames DEF StatusFitsStage, HasEnded, ControlTypeOK
<1>11. PauseFitsStage'
  BY NodeNames DEF PauseFitsStage, Parked, ControlTypeOK
<1> QED BY <1>1, <1>2, <1>3, <1>4, <1>5, <1>6, <1>7, <1>8, <1>9, <1>10, <1>11

\* BeginReview (_reviewer_node) keeps the invariant.
LEMMA BeginReviewStep ==
  ASSUME IInv, NEW r \in Roles, BeginReview(r)
  PROVE  IInv'
<1> USE DEF IInv, TypeOK, BeginReview, Interrupt, results, MarkRunning,
  Issue, Goto, judgement, signals
<1>1. ResultTypeOK' /\ BestIsEarliestMaximum'
  BY DEF ResultTypeOK, BestIsEarliestMaximum, Scored
<1>2. ProgressTypeOK'
  BY NodeNames DEF ProgressTypeOK
<1>3. ControlTypeOK'
  BY NodeNames, ValueSets DEF ControlTypeOK, Places, RepairCall
<1>4. TasksFitStage'
  BY DEF TasksFitStage
<1>5. AnswersFitTasks'
  BY DEF AnswersFitTasks, None
<1>6. AttemptsFitTasks'
  BY NodeNames DEF AttemptsFitTasks, Asking, ControlTypeOK
<1>7. VersionsFitStage'
  BY NodeNames DEF VersionsFitStage, Written, NotWritten, ControlTypeOK
<1>8. ScoresFitStage'
  BY DEF ScoresFitStage, AwaitsScore, HasScore, Aggregated
<1>9. ReviewsFitStage'
  BY DEF ReviewsFitStage, NotWritten
<1>10. BudgetFitsStage'
  BY DEF BudgetFitsStage, Aggregated, HasEnded
<1>11. StatusFitsStage'
  BY DEF StatusFitsStage, HasEnded
<1>12. PauseFitsStage'
  BY DEF PauseFitsStage, Parked
<1> QED BY <1>1, <1>2, <1>3, <1>4, <1>5, <1>6, <1>7, <1>8, <1>9, <1>10,
  <1>11, <1>12

\* FinishReview (_reviewer_node) keeps the invariant.
LEMMA FinishReviewStep ==
  ASSUME IInv, NEW r \in Roles, FinishReview(r)
  PROVE  IInv'
<1> USE DEF IInv, TypeOK, FinishReview, Settled, MarkSucceeded, Log, Return,
  Goto, judgement, signals
<1>1. BestIsEarliestMaximum'
  BY DEF BestIsEarliestMaximum, Scored
<1>2. ResultTypeOK'
  BY NodeNames DEF ResultTypeOK
<1>3. ProgressTypeOK'
  BY NodeNames DEF ProgressTypeOK, EventTypes
<1>4. ControlTypeOK'
  BY NodeNames, ValueSets DEF ControlTypeOK, Places
<1>5. TasksFitStage'
  BY DEF TasksFitStage
<1>6. AnswersFitTasks'
  BY DEF AnswersFitTasks, ControlTypeOK, None
<1>7. AttemptsFitTasks'
  BY DEF AttemptsFitTasks, Asking
<1>8. VersionsFitStage'
  BY NodeNames DEF VersionsFitStage, Written, NotWritten
<1>9. ScoresFitStage'
  BY NodeNames DEF ScoresFitStage, AwaitsScore, HasScore, Aggregated
<1>10. ReviewsFitStage'
  BY DEF ReviewsFitStage, NotWritten, ResultTypeOK, TasksFitStage
<1>11. BudgetFitsStage'
  BY NodeNames DEF BudgetFitsStage, Aggregated, HasEnded
<1>12. StatusFitsStage'
  BY DEF StatusFitsStage, HasEnded
<1>13. PauseFitsStage'
  BY DEF PauseFitsStage, Parked
<1> QED BY <1>1, <1>2, <1>3, <1>4, <1>5, <1>6, <1>7, <1>8, <1>9, <1>10,
  <1>11, <1>12, <1>13

\* Aggregate (_aggregator_node) keeps the invariant.
LEMMA AggregateStep ==
  ASSUME IInv, Aggregate
  PROVE  IInv'
<1> USE DEF IInv, TypeOK, Aggregate, Interrupt, Goto, Log, judgement, inputs,
        progress, signals
<1>1. /\ stage = "aggregator"
      /\ iteration \in 1..MaxIterations
      /\ Len(versions) = iteration
      /\ versions[iteration].score = Unscored
      /\ ~\E r \in Roles : reviews[r] = 0
      /\ status \notin TerminalStatuses
      /\ ~cancelSignal
  BY NodeNames, ValueSets
  DEF TasksFitStage, VersionsFitStage, Written, ScoresFitStage, AwaitsScore,
      ReviewsFitStage, StatusFitsStage, HasEnded, ResultTypeOK
<1>2. PICK score \in Scores, mustFix \in BOOLEAN :
        /\ versions' = Evaluated(score)
        /\ best' = BestAfter(score)
        /\ MarkSucceeded("aggregator")
        /\ Conclude(GatePassed(score, mustFix))
        /\ UNCHANGED answer
  BY <1>1
<1>3. score \in Nat /\ score # Unscored
  BY WorkflowAssumption DEF Unscored
<1>4. \/ /\ pc' = [pc EXCEPT !["aggregator"] = "done"]
         /\ UNCHANGED resumeSignal
         /\ \/ status' \in TerminalStatuses \ {"CANCELLED", "FAILED"}
            \/ status' = "OPTIMIZING" /\ iteration < MaxIterations
      \/ /\ pc' = [pc EXCEPT !["aggregator"] = "parked"]
         /\ resumeSignal' = FALSE
         /\ status' = "PAUSED"
         /\ iteration < MaxIterations
  BY <1>2, ValueSets DEF Conclude, Park
<1>5. /\ versions' \in Seq(Version)
      /\ Len(versions') = iteration
      /\ \A i \in 1..iteration :
           /\ versions'[i].num = versions[i].num
           /\ versions'[i].score = IF i = iteration THEN score ELSE versions[i].score
  <2> DEFINE new == [versions[iteration] EXCEPT !.score = score]
  <2>1. /\ new \in Version
        /\ new.num = versions[iteration].num
        /\ new.score = score
    <3>1. versions[iteration] \in Version
      BY <1>1 DEF ResultTypeOK
    <3> QED BY <3>1 DEF Version
  <2>2. versions' = [versions EXCEPT ![iteration] = new]
    BY <1>1, <1>2 DEF Evaluated
  <2> HIDE DEF new
  <2> QED BY <1>1, <2>1, <2>2, ExceptSeq DEF ResultTypeOK
<1>6. Scored' = Scored \cup {iteration} /\ Scored = 1..(iteration - 1)
  <2>1. \A i \in 1..iteration : i < iteration => versions[i].score # Unscored
    BY <1>1, WorkflowAssumption DEF ScoresFitStage, Unscored
  <2>2. Scored = 1..(iteration - 1)
    BY <1>1, <2>1 DEF Scored
  <2>3. Scored' = 1..iteration
    BY <1>1, <1>3, <1>5, <2>1 DEF Scored
  <2> QED BY <1>1, <2>2, <2>3
<1>7. ResultTypeOK'
  <2>1. best' \in [num : 0..MaxIterations, score : Scores \cup {Unscored}]
    BY <1>1, <1>2 DEF BestAfter, ResultTypeOK
  <2> QED BY <1>1, <1>5, <2>1 DEF ResultTypeOK
<1>8. ProgressTypeOK'
  BY <1>1, <1>2, NodeNames DEF ProgressTypeOK, MarkSucceeded, None
<1>9. ControlTypeOK'
  BY <1>2, <1>4, ValueSets DEF ControlTypeOK, Places
<1>10. TasksFitStage'
  BY <1>1, <1>4, NodeNames DEF TasksFitStage, ControlTypeOK
<1>11. AnswersFitTasks' /\ AttemptsFitTasks'
  BY <1>2, <1>4, NodeNames
  DEF AnswersFitTasks, AttemptsFitTasks, Asking, Structured, ControlTypeOK
<1>12. VersionsFitStage'
  BY <1>1, <1>5 DEF VersionsFitStage, Written, NotWritten, ResultTypeOK
<1>13. ScoresFitStage'
  <2>1. ~AwaitsScore'
    BY <1>1, <1>4, NodeNames DEF AwaitsScore, ControlTypeOK
  <2>2. \A i \in 1..iteration : i < iteration => versions'[i].score \in Scores
    BY <1>1, <1>5 DEF ScoresFitStage
  <2>3. versions'[iteration].score \in Scores
    BY <1>1, <1>5
  <2> QED BY <1>1, <1>5, <2>1, <2>2, <2>3 DEF ScoresFitStage
<1>14. BestIsEarliestMaximum'
  <2>1. CASE iteration = 1
    <3>1. Scored = {} /\ best = NoBest
      BY <1>6, <2>1 DEF BestIsEarliestMaximum
    <3>2. best' = [num |-> 1, score |-> score]
      BY <1>2, <2>1, <3>1 DEF BestAfter
    <3>3. Scored' = {1}
      BY <1>6, <2>1, <3>1
    <3> QED
      BY <1>1, <1>3, <1>5, <2>1, <3>2, <3>3 DEF BestIsEarliestMaximum
  <2>2. CASE iteration > 1
    <3>1. /\ best.num \in 1..(iteration - 1)
          /\ best # NoBest
          /\ best.score \in Nat
      <4>1. 1 \in Scored
        BY <1>1, <1>6, <2>2
      <4>2. /\ best.num \in 1..(iteration - 1)
            /\ best.score = versions[best.num].score
        BY <1>6, <4>1 DEF BestIsEarliestMaximum
      <4>3. versions[best.num].score \in Scores
        BY <1>1, <4>2 DEF ScoresFitStage
      <4>4. best.num # NoBest.num
        BY <4>2 DEF NoBest
      <4>5. Scores \subseteq Nat
        BY WorkflowAssumption
      <4> QED BY <4>2, <4>3, <4>4, <4>5
    <3>2. \A i \in 1..(iteration - 1) :
            /\ versions[i].score \in Nat
            /\ versions[i].score <= best.score
            /\ i < best.num => versions[i].score < best.score
            /\ best.score = versions[best.num].score
      <4>1. \A i \in 1..(iteration - 1) : versions[i].score \in Scores
        BY <1>1 DEF ScoresFitStage
      <4>2. 1 \in Scored
        BY <1>1, <1>6, <2>2
      <4> QED
        BY <1>6, <4>1, <4>2, WorkflowAssumption DEF BestIsEarliestMaximum
    <3>3. 1..(Len(versions') - 1) \subseteq Scored' /\ Scored' # {}
      BY <1>1, <1>5, <1>6
    <3>4. CASE score > best.score
      <4>1. best' = [num |-> iteration, score |-> score]
        BY <1>2, <3>4 DEF BestAfter
      <4>2. \A i \in Scored' : /\ versions'[i].score <= score
                               /\ i < iteration => versions'[i].score < score
        BY SMTT(30), <1>1, <1>3, <1>5, <1>6, <3>1, <3>2, <3>4
      <4>3. iteration \in Scored' /\ versions'[iteration].score = score
        BY <1>1, <1>5, <1>6
      <4> QED
        BY <3>3, <4>1, <4>2, <4>3 DEF BestIsEarliestMaximum
    <3>5. CASE ~(score > best.score)
      <4>1. best' = best
        BY <1>2, <3>1, <3>5 DEF BestAfter
      <4>2. \A i \in Scored' :
              /\ versions'[i].score <= best.score
              /\ i < best.num => versions'[i].score < best.score
        BY <1>1, <1>3, <1>5, <1>6, <3>1, <3>2, <3>5
      <4>3. best.num \in Scored' /\ best.score = versions'[best.num].score
        BY <1>1, <1>5, <1>6, <3>1, <3>2
      <4> QED
        BY <3>3, <4>1, <4>2, <4>3 DEF BestIsEarliestMaximum
    <3> QED BY <3>4, <3>5
  <2> QED BY <1>1, <2>1, <2>2
<1>15. ReviewsFitStage'
  BY <1>1, <1>4 DEF ReviewsFitStage, NotWritten
<1>16. BudgetFitsStage'
  BY <1>1, <1>4 DEF BudgetFitsStage, HasEnded
<1>17. StatusFitsStage'
  <2>1. pc'["aggregator"] \in {"done", "parked"}
    BY <1>4, NodeNames DEF ControlTypeOK
  <2>2. HasEnded' => pc'["aggregator"] = "done"
    BY <1>4, NodeNames, ValueSets DEF HasEnded, ControlTypeOK
  <2> QED BY <1>1, <1>4, <2>1, <2>2, ValueSets DEF StatusFitsStage
<1>18. PauseFitsStage'
  BY <1>1, <1>4, ValueSets, NodeNames
  DEF PauseFitsStage, Parked, TasksFitStage, ControlTypeOK
<1> QED
  BY <1>7, <1>8, <1>9, <1>10, <1>11, <1>12, <1>13, <1>14, <1>15, <1>16, <1>17,
     <1>18

\* WakeAggregator (_aggregator_node) keeps the invariant.
LEMMA WakeAggregatorStep ==
  ASSUME IInv, WakeAggregator
  PROVE  IInv'
<1> USE DEF IInv, TypeOK, WakeAggregator, Woken, Return, Goto,
  StructuredFrame, judgement, inputs, progress, signals
<1>1. ResultTypeOK' /\ ProgressTypeOK' /\ BestIsEarliestMaximum'
  BY DEF ResultTypeOK, ProgressTypeOK, BestIsEarliestMaximum, Scored
<1>2. ControlTypeOK'
  BY NodeNames, ValueSets DEF ControlTypeOK, Places
<1>3. TasksFitStage'
  BY DEF TasksFitStage
<1>4. AnswersFitTasks'
  BY DEF AnswersFitTasks, None
<1>5. AttemptsFitTasks'
  BY DEF AttemptsFitTasks, Asking
<1>6. VersionsFitStage'
  BY DEF VersionsFitStage, Written, NotWritten
<1>7. ScoresFitStage'
  BY DEF ScoresFitStage, AwaitsScore, HasScore, Aggregated
<1>8. ReviewsFitStage'
  BY NodeNames DEF ReviewsFitStage, NotWritten
<1>9. BudgetFitsStage'
  BY DEF BudgetFitsStage, Aggregated, HasEnded
<1>10. StatusFitsStage'
  BY DEF StatusFitsStage, HasEnded
<1>11. PauseFitsStage'
  BY DEF PauseFitsStage, Parked, StatusFitsStage
<1> QED BY <1>1, <1>2, <1>3, <1>4, <1>5, <1>6, <1>7, <1>8, <1>9, <1>10, <1>11

\* BeginOptimizer (_optimizer_node) keeps the invariant.
LEMMA BeginOptimizerStep ==
  ASSUME IInv, BeginOptimizer
  PROVE  IInv'
<1> USE DEF IInv, TypeOK, BeginOptimizer, Interrupt, ParkOptimizer, Park,
  LaunchOptimizer, results, Staged, MarkRunning, Issue, Goto, judgement,
  progress, signals
<1>1. ResultTypeOK' /\ BestIsEarliestMaximum'
  BY DEF ResultTypeOK, BestIsEarliestMaximum, Scored
<1>2. ProgressTypeOK'
  BY NodeNames DEF ProgressTypeOK
<1>3. ControlTypeOK'
  <2>1. CASE status = "PAUSE_REQUESTED"
    BY <2>1, NodeNames, ValueSets DEF ControlTypeOK, Places
  <2>2. CASE status # "PAUSE_REQUESTED"
    BY <2>2, NodeNames, ValueSets DEF ControlTypeOK, Places, RepairCall
  <2> QED BY <2>1, <2>2
<1>4. TasksFitStage'
  BY NodeNames DEF TasksFitStage, ControlTypeOK
<1>5. AnswersFitTasks'
  BY DEF AnswersFitTasks, ControlTypeOK, None
<1>6. AttemptsFitTasks'
  BY NodeNames DEF AttemptsFitTasks, Asking, Structured, ControlTypeOK
<1>7. VersionsFitStage'
  BY NodeNames DEF VersionsFitStage, Written, NotWritten, ControlTypeOK
<1>8. ScoresFitStage'
  BY NodeNames DEF ScoresFitStage, AwaitsScore, HasScore, Aggregated,
    ControlTypeOK
<1>9. ReviewsFitStage'
  BY NodeNames DEF ReviewsFitStage, NotWritten, ControlTypeOK
<1>10. BudgetFitsStage'
  BY DEF BudgetFitsStage, TasksFitStage
<1>11. StatusFitsStage'
  BY DEF StatusFitsStage, HasEnded, TerminalStatuses, None, TasksFitStage
<1>12. PauseFitsStage'
  BY NodeNames DEF PauseFitsStage, Parked, ControlTypeOK, TasksFitStage
<1> QED BY <1>1, <1>2, <1>3, <1>4, <1>5, <1>6, <1>7, <1>8, <1>9, <1>10,
  <1>11, <1>12

\* WakeOptimizer (_optimizer_node) keeps the invariant.
LEMMA WakeOptimizerStep ==
  ASSUME IInv, WakeOptimizer
  PROVE  IInv'
<1> USE DEF IInv, TypeOK, WakeOptimizer, Woken, Interrupt, ParkOptimizer,
  Park, LaunchOptimizer, results, Staged, MarkRunning, Issue, Goto,
  judgement, progress, signals
<1>1. ResultTypeOK' /\ BestIsEarliestMaximum'
  BY DEF ResultTypeOK, BestIsEarliestMaximum, Scored
<1>2. ProgressTypeOK'
  BY NodeNames DEF ProgressTypeOK
<1>3. ControlTypeOK'
  <2>1. CASE status = "PAUSE_REQUESTED"
    BY <2>1, NodeNames, ValueSets DEF ControlTypeOK, Places
  <2>2. CASE status # "PAUSE_REQUESTED"
    BY <2>2, NodeNames, ValueSets DEF ControlTypeOK, Places, RepairCall
  <2> QED BY <2>1, <2>2
<1>4. TasksFitStage'
  BY NodeNames DEF TasksFitStage, ControlTypeOK
<1>5. AnswersFitTasks'
  BY DEF AnswersFitTasks, ControlTypeOK, None
<1>6. AttemptsFitTasks'
  BY NodeNames DEF AttemptsFitTasks, Asking, Structured, ControlTypeOK
<1>7. VersionsFitStage'
  BY NodeNames DEF VersionsFitStage, Written, NotWritten, ControlTypeOK
<1>8. ScoresFitStage'
  BY NodeNames DEF ScoresFitStage, AwaitsScore, HasScore, Aggregated,
    ControlTypeOK
<1>9. ReviewsFitStage'
  BY NodeNames DEF ReviewsFitStage, NotWritten, ControlTypeOK
<1>10. BudgetFitsStage'
  BY DEF BudgetFitsStage, TasksFitStage
<1>11. StatusFitsStage'
  BY DEF StatusFitsStage, HasEnded, TerminalStatuses, None, TasksFitStage
<1>12. PauseFitsStage'
  BY DEF PauseFitsStage, Parked, StatusFitsStage, ControlTypeOK
<1> QED BY <1>1, <1>2, <1>3, <1>4, <1>5, <1>6, <1>7, <1>8, <1>9, <1>10,
  <1>11, <1>12

\* WakeOptimizerAgain (_optimizer_node) keeps the invariant.
LEMMA WakeOptimizerAgainStep ==
  ASSUME IInv, WakeOptimizerAgain
  PROVE  IInv'
<1> USE DEF IInv, TypeOK, WakeOptimizerAgain, Woken, Interrupt,
  LaunchOptimizer, results, Staged, MarkRunning, Issue, Goto, judgement,
  signals
<1>1. ResultTypeOK' /\ BestIsEarliestMaximum'
  BY DEF ResultTypeOK, BestIsEarliestMaximum, Scored
<1>2. ProgressTypeOK'
  BY NodeNames DEF ProgressTypeOK
<1>3. ControlTypeOK'
  BY NodeNames, ValueSets DEF ControlTypeOK, Places, RepairCall
<1>4. TasksFitStage'
  BY DEF TasksFitStage
<1>5. AnswersFitTasks'
  BY DEF AnswersFitTasks, None
<1>6. AttemptsFitTasks'
  BY DEF AttemptsFitTasks, Asking, ControlTypeOK
<1>7. VersionsFitStage'
  BY DEF VersionsFitStage, Written, NotWritten
<1>8. ScoresFitStage'
  BY DEF ScoresFitStage, AwaitsScore, HasScore, Aggregated
<1>9. ReviewsFitStage'
  BY DEF ReviewsFitStage, NotWritten
<1>10. BudgetFitsStage'
  BY DEF BudgetFitsStage, TasksFitStage
<1>11. StatusFitsStage'
  BY DEF StatusFitsStage, HasEnded, TerminalStatuses, None, TasksFitStage
<1>12. PauseFitsStage'
  BY DEF PauseFitsStage, Parked, StatusFitsStage
<1> QED BY <1>1, <1>2, <1>3, <1>4, <1>5, <1>6, <1>7, <1>8, <1>9, <1>10,
  <1>11, <1>12

\* FinishPlan (_optimizer_node) keeps the invariant.
LEMMA FinishPlanStep ==
  ASSUME IInv, FinishPlan
  PROVE  IInv'
<1> USE DEF IInv, TypeOK, FinishPlan, Settled, Interrupt, NextIteration,
  ClearedReviews, MarkSucceeded, Log, Staged, Return, Goto, signals
<1>1. BestIsEarliestMaximum'
  BY DEF BestIsEarliestMaximum, Scored
<1>2. ResultTypeOK'
  BY WorkflowAssumption, NodeNames DEF ResultTypeOK, BudgetFitsStage,
    TasksFitStage
<1>3. ProgressTypeOK'
  BY NodeNames DEF ProgressTypeOK, EventTypes
<1>4. ControlTypeOK'
  BY NodeNames, ValueSets DEF ControlTypeOK, Places
<1>5. TasksFitStage'
  BY DEF TasksFitStage
<1>6. AnswersFitTasks'
  BY DEF AnswersFitTasks, ControlTypeOK, None
<1>7. AttemptsFitTasks'
  BY DEF AttemptsFitTasks, Asking
<1>8. VersionsFitStage'
  BY NodeNames DEF VersionsFitStage, Written, ControlTypeOK, TasksFitStage
<1>9. ScoresFitStage'
  BY NodeNames DEF ScoresFitStage, AwaitsScore, HasScore, ResultTypeOK,
    ControlTypeOK, TasksFitStage
<1>10. ReviewsFitStage'
  BY DEF ReviewsFitStage, TasksFitStage
<1>11. BudgetFitsStage'
  BY NodeNames DEF BudgetFitsStage, ControlTypeOK, TasksFitStage
<1>12. StatusFitsStage'
  BY DEF StatusFitsStage, HasEnded, TerminalStatuses, None, TasksFitStage
<1>13. PauseFitsStage'
  BY DEF PauseFitsStage, Parked, TasksFitStage
<1> QED BY <1>1, <1>2, <1>3, <1>4, <1>5, <1>6, <1>7, <1>8, <1>9, <1>10,
  <1>11, <1>12, <1>13

\* Refuse (_generator_node) keeps the invariant.
LEMMA RefuseStep ==
  ASSUME IInv, NEW n \in Nodes, Refuse(n)
  PROVE  IInv'
<1> USE DEF IInv, TypeOK, Refuse, Interrupt, Raise, Goto, judgement, inputs,
  progress, signals
<1>1. ResultTypeOK' /\ ProgressTypeOK' /\ BestIsEarliestMaximum'
  BY DEF ResultTypeOK, ProgressTypeOK, BestIsEarliestMaximum, Scored
<1>2. ControlTypeOK'
  BY ValueSets DEF ControlTypeOK, Places
<1>3. TasksFitStage'
  BY DEF TasksFitStage
<1>4. AnswersFitTasks'
  BY DEF AnswersFitTasks, ControlTypeOK, Exceptions
<1>5. AttemptsFitTasks'
  BY DEF AttemptsFitTasks, Asking
<1>6. VersionsFitStage'
  BY DEF VersionsFitStage, Written, NotWritten
<1>7. ScoresFitStage'
  BY DEF ScoresFitStage, AwaitsScore, HasScore, Aggregated
<1>8. ReviewsFitStage'
  BY DEF ReviewsFitStage, NotWritten
<1>9. BudgetFitsStage'
  BY DEF BudgetFitsStage, Aggregated, HasEnded
<1>10. StatusFitsStage'
  BY DEF StatusFitsStage, HasEnded
<1>11. PauseFitsStage'
  BY DEF PauseFitsStage, Parked
<1> QED BY <1>1, <1>2, <1>3, <1>4, <1>5, <1>6, <1>7, <1>8, <1>9, <1>10, <1>11

\* RefuseWoken (_aggregator_node) keeps the invariant.
LEMMA RefuseWokenStep ==
  ASSUME IInv, NEW n \in Nodes, RefuseWoken(n)
  PROVE  IInv'
<1> USE DEF IInv, TypeOK, RefuseWoken, Woken, Interrupt, Raise, Goto,
  StructuredFrame, judgement, inputs, progress, signals
<1>1. ResultTypeOK' /\ ProgressTypeOK' /\ BestIsEarliestMaximum'
  BY DEF ResultTypeOK, ProgressTypeOK, BestIsEarliestMaximum, Scored
<1>2. ControlTypeOK'
  BY ValueSets DEF ControlTypeOK, Places
<1>3. TasksFitStage'
  BY DEF TasksFitStage
<1>4. AnswersFitTasks'
  BY DEF AnswersFitTasks, ControlTypeOK, Exceptions
<1>5. AttemptsFitTasks'
  BY DEF AttemptsFitTasks, Asking
<1>6. VersionsFitStage'
  BY DEF VersionsFitStage, Written, NotWritten
<1>7. ScoresFitStage'
  BY DEF ScoresFitStage, AwaitsScore, HasScore, Aggregated
<1>8. ReviewsFitStage'
  BY DEF ReviewsFitStage, NotWritten
<1>9. BudgetFitsStage'
  BY DEF BudgetFitsStage, Aggregated, HasEnded
<1>10. StatusFitsStage'
  BY DEF StatusFitsStage, HasEnded
<1>11. PauseFitsStage'
  BY DEF PauseFitsStage, Parked, StatusFitsStage
<1> QED BY <1>1, <1>2, <1>3, <1>4, <1>5, <1>6, <1>7, <1>8, <1>9, <1>10, <1>11

\* Settle (_await_provider) keeps the invariant.
LEMMA SettleStep ==
  ASSUME IInv, NEW n \in Nodes, Settle(n)
  PROVE  IInv'
<1> USE DEF IInv, TypeOK, Settle, Calling, Answers, Goto, judgement, inputs,
  progress, signals
<1>1. ResultTypeOK' /\ ProgressTypeOK' /\ BestIsEarliestMaximum'
  BY DEF ResultTypeOK, ProgressTypeOK, BestIsEarliestMaximum, Scored
<1>2. ControlTypeOK'
  BY ValueSets DEF ControlTypeOK, Places
<1>3. TasksFitStage'
  BY DEF TasksFitStage
<1>4. AnswersFitTasks'
  <2>1. answer' = [answer EXCEPT ![n] = answer'[n]] /\ answer'[n] \in Answers(n)
    BY DEF ControlTypeOK
  <2>2. pc' = [pc EXCEPT ![n] = "settled"] /\ n \in Nodes
    OBVIOUS
  <2> QED
    BY <2>1, <2>2, NodeNames, ValueSets DEF AnswersFitTasks, ControlTypeOK, Exceptions
<1>5. AttemptsFitTasks'
  BY DEF AttemptsFitTasks, Asking
<1>6. VersionsFitStage'
  BY DEF VersionsFitStage, Written, NotWritten
<1>7. ScoresFitStage'
  BY DEF ScoresFitStage, AwaitsScore, HasScore, Aggregated
<1>8. ReviewsFitStage'
  BY DEF ReviewsFitStage, NotWritten
<1>9. BudgetFitsStage'
  BY DEF BudgetFitsStage, Aggregated, HasEnded
<1>10. StatusFitsStage'
  BY DEF StatusFitsStage, HasEnded
<1>11. PauseFitsStage'
  BY DEF PauseFitsStage, Parked
<1> QED BY <1>1, <1>2, <1>3, <1>4, <1>5, <1>6, <1>7, <1>8, <1>9, <1>10, <1>11

\* Throw (_validated_structured) keeps the invariant.
LEMMA ThrowStep ==
  ASSUME IInv, NEW n \in Nodes, Throw(n)
  PROVE  IInv'
<1> USE DEF IInv, TypeOK, Throw, Thrown, Interrupt, Raise, Goto,
  StructuredFrame, judgement, inputs, progress, signals
<1>1. ResultTypeOK' /\ ProgressTypeOK' /\ BestIsEarliestMaximum'
  BY DEF ResultTypeOK, ProgressTypeOK, BestIsEarliestMaximum, Scored
<1>2. ControlTypeOK'
  BY ValueSets DEF ControlTypeOK, Places
<1>3. TasksFitStage'
  BY DEF TasksFitStage
<1>4. AnswersFitTasks'
  BY DEF AnswersFitTasks, ControlTypeOK, Exceptions
<1>5. AttemptsFitTasks'
  BY DEF AttemptsFitTasks, Asking
<1>6. VersionsFitStage'
  BY DEF VersionsFitStage, Written, NotWritten
<1>7. ScoresFitStage'
  BY DEF ScoresFitStage, AwaitsScore, HasScore, Aggregated
<1>8. ReviewsFitStage'
  BY DEF ReviewsFitStage, NotWritten
<1>9. BudgetFitsStage'
  BY DEF BudgetFitsStage, Aggregated, HasEnded
<1>10. StatusFitsStage'
  BY DEF StatusFitsStage, HasEnded
<1>11. PauseFitsStage'
  BY DEF PauseFitsStage, Parked
<1> QED BY <1>1, <1>2, <1>3, <1>4, <1>5, <1>6, <1>7, <1>8, <1>9, <1>10, <1>11

\* RequestPause (request_pause) keeps the invariant.
LEMMA RequestPauseStep ==
  ASSUME IInv, RequestPause
  PROVE  IInv'
<1> USE DEF IInv, TypeOK, RequestPause, ControlFrame, judgement, signals
<1>1. ResultTypeOK' /\ ProgressTypeOK' /\ TasksFitStage' /\ AnswersFitTasks'
  /\ AttemptsFitTasks' /\ VersionsFitStage' /\ ScoresFitStage' /\
  BestIsEarliestMaximum' /\ ReviewsFitStage'
  BY DEF ResultTypeOK, ProgressTypeOK, TasksFitStage, AnswersFitTasks,
    AttemptsFitTasks, Asking, VersionsFitStage, Written, NotWritten,
    ScoresFitStage, AwaitsScore, HasScore, Aggregated, BestIsEarliestMaximum,
    Scored, ReviewsFitStage
<1>2. ControlTypeOK'
  BY ValueSets DEF ControlTypeOK
<1>3. BudgetFitsStage'
  BY ValueSets DEF BudgetFitsStage, Aggregated, HasEnded
<1>4. StatusFitsStage'
  BY ValueSets DEF StatusFitsStage, HasEnded
<1>5. PauseFitsStage'
  BY ValueSets DEF PauseFitsStage, Parked
<1> QED BY <1>1, <1>2, <1>3, <1>4, <1>5

\* ResumeRun (resume_run) keeps the invariant.
LEMMA ResumeRunStep ==
  ASSUME IInv, ResumeRun
  PROVE  IInv'
<1> USE DEF IInv, TypeOK, ResumeRun, ControlFrame, judgement
<1>1. ResultTypeOK' /\ ProgressTypeOK' /\ TasksFitStage' /\ AnswersFitTasks'
  /\ AttemptsFitTasks' /\ VersionsFitStage' /\ ScoresFitStage' /\
  BestIsEarliestMaximum' /\ ReviewsFitStage'
  BY DEF ResultTypeOK, ProgressTypeOK, TasksFitStage, AnswersFitTasks,
    AttemptsFitTasks, Asking, VersionsFitStage, Written, NotWritten,
    ScoresFitStage, AwaitsScore, HasScore, Aggregated, BestIsEarliestMaximum,
    Scored, ReviewsFitStage
<1>2. ControlTypeOK'
  BY ValueSets DEF ControlTypeOK
<1>3. BudgetFitsStage'
  BY DEF BudgetFitsStage, Aggregated, HasEnded, TerminalStatuses
<1>4. StatusFitsStage'
  BY DEF StatusFitsStage, HasEnded, TerminalStatuses
<1>5. PauseFitsStage'
  BY DEF PauseFitsStage
<1> QED BY <1>1, <1>2, <1>3, <1>4, <1>5

\* CancelRun (cancel_run) keeps the invariant.
LEMMA CancelRunStep ==
  ASSUME IInv, CancelRun
  PROVE  IInv'
<1> USE DEF IInv, TypeOK, CancelRun, ControlFrame, judgement
<1>1. ResultTypeOK' /\ TasksFitStage' /\ AttemptsFitTasks' /\
  VersionsFitStage' /\ ScoresFitStage' /\ BestIsEarliestMaximum' /\
  ReviewsFitStage'
  BY DEF ResultTypeOK, TasksFitStage, AttemptsFitTasks, Asking,
    VersionsFitStage, Written, NotWritten, ScoresFitStage, AwaitsScore,
    HasScore, Aggregated, BestIsEarliestMaximum, Scored, ReviewsFitStage
<1>2. ProgressTypeOK'
  BY DEF ProgressTypeOK
<1>3. ControlTypeOK'
  BY ValueSets DEF ControlTypeOK
<1>4. AnswersFitTasks'
  BY DEF AnswersFitTasks
<1>5. BudgetFitsStage'
  BY DEF BudgetFitsStage, Aggregated, HasEnded
<1>6. StatusFitsStage'
  BY DEF StatusFitsStage, HasEnded
<1>7. PauseFitsStage'
  BY DEF PauseFitsStage
<1> QED BY <1>1, <1>2, <1>3, <1>4, <1>5, <1>6, <1>7

\* SpendBudget (active_elapsed) keeps the invariant.
LEMMA SpendBudgetStep ==
  ASSUME IInv, SpendBudget
  PROVE  IInv'
<1> USE DEF IInv, TypeOK, SpendBudget, judgement, inputs, progress, signals
<1>1. ResultTypeOK' /\ ProgressTypeOK' /\ TasksFitStage' /\ AnswersFitTasks'
  /\ AttemptsFitTasks' /\ VersionsFitStage' /\ ScoresFitStage' /\
  BestIsEarliestMaximum' /\ ReviewsFitStage' /\ BudgetFitsStage' /\
  StatusFitsStage' /\ PauseFitsStage'
  BY DEF ResultTypeOK, ProgressTypeOK, TasksFitStage, AnswersFitTasks,
    AttemptsFitTasks, Asking, VersionsFitStage, Written, NotWritten,
    ScoresFitStage, AwaitsScore, HasScore, Aggregated, BestIsEarliestMaximum,
    Scored, ReviewsFitStage, BudgetFitsStage, HasEnded, StatusFitsStage,
    PauseFitsStage, Parked
<1>2. ControlTypeOK'
  BY DEF ControlTypeOK
<1> QED BY <1>1, <1>2

\* A step that changes nothing keeps it.
LEMMA StutterStep ==
  ASSUME IInv, UNCHANGED vars
  PROVE  IInv'
BY DEF vars, judgement, inputs, progress, signals, IInv, TypeOK, ResultTypeOK,
       ProgressTypeOK, ControlTypeOK, TasksFitStage, AnswersFitTasks,
       AttemptsFitTasks, Asking, VersionsFitStage, Written, NotWritten,
       ScoresFitStage, AwaitsScore, HasScore, Aggregated,
       BestIsEarliestMaximum, Scored, ReviewsFitStage, BudgetFitsStage,
       HasEnded, StatusFitsStage, PauseFitsStage, Parked

\* Every step keeps it: each action by its lemma.
LEMMA NextInvariant == IInv /\ [Next]_vars => IInv'
<1> SUFFICES ASSUME IInv, [Next]_vars PROVE IInv'
  OBVIOUS
<1>1. CASE GraphStep
  BY <1>1, StartRunStep, SuperstepStep, UnwindStep DEF GraphStep
<1>2. CASE NodeStep
  <2>1. CASE GeneratorStep
    BY <2>1, BeginGeneratorStep, ResumeChunkStep, ResumeFailedAttemptStep,
       ResumeRejectedStreamStep, ResumeStreamTooLateStep, FinishGenerationStep
    DEF GeneratorStep
  <2>2. ASSUME NEW r \in Roles, ReviewerStep(r) PROVE IInv'
    BY <2>2, BeginReviewStep, FinishReviewStep DEF ReviewerStep
  <2>3. CASE AggregatorStep
    BY <2>3, AggregateStep, WakeAggregatorStep DEF AggregatorStep
  <2>4. CASE OptimizerStep
    BY <2>4, BeginOptimizerStep, WakeOptimizerStep, WakeOptimizerAgainStep,
       FinishPlanStep
    DEF OptimizerStep
  <2>5. ASSUME NEW n \in Structured, StructuredStep(n) PROVE IInv'
    BY <2>5, RetryCallStep, RepairAnswerStep DEF StructuredStep
  <2>6. ASSUME NEW n \in Nodes, Refuse(n) \/ RefuseWoken(n) \/ Settle(n) \/ Throw(n)
        PROVE  IInv'
    BY <2>6, RefuseStep, RefuseWokenStep, SettleStep, ThrowStep
  <2> QED BY <1>2, <2>1, <2>2, <2>3, <2>4, <2>5, <2>6 DEF NodeStep
<1>3. CASE UserStep
  BY <1>3, RequestPauseStep, ResumeRunStep, CancelRunStep DEF UserStep
<1>4. CASE SpendBudget
  BY <1>4, SpendBudgetStep
<1>5. CASE UNCHANGED vars
  BY <1>5, StutterStep
<1> QED BY <1>1, <1>2, <1>3, <1>4, <1>5 DEF Next, Ended

--------------------------------------------------------------------------------
(* What follows from it. *)

\* Every reachable state of a run ties the snapshot to the places of its tasks,
\* as IInv says: what _check_cancel, the commits and the control requests
\* together achieve.
THEOREM Invariance == Spec => []IInv
BY InitInvariant, NextInvariant, PTL DEF Spec

\* The snapshot has its type; in particular current_iteration and every version
\* number stay within max_iterations, which _route_after_aggregate guarantees.
THEOREM TypeCorrect == Spec => []TypeOK
<1>1. IInv => TypeOK
  BY DEF IInv
<1> QED BY <1>1, Invariance, PTL

\* Versions are numbered 1, 2, ... without gap or repetition, whatever retries,
\* pauses and cancellations happen between finish_generation and
\* finish_optimizer.
THEOREM ConsecutiveVersions == Spec => []VersionsAreConsecutive
<1>1. IInv => VersionsAreConsecutive
  BY DEF IInv, VersionsFitStage, VersionsAreConsecutive
<1> QED BY <1>1, Invariance, PTL

\* best_version and best_score, as _aggregator_node updates them, are those of
\* the earliest of the highest-scored versions.
THEOREM BestVersion == Spec => []BestIsEarliestMaximum
<1>1. IInv => BestIsEarliestMaximum
  BY DEF IInv
<1> QED BY <1>1, Invariance, PTL

\* A stored review is about the newest version: finish_optimizer clears the old
\* ones before any is counted again.
THEOREM CurrentReviews == Spec => []ReviewsAreCurrent
<1>1. IInv => ReviewsAreCurrent
  BY DEF IInv, ReviewsFitStage, ReviewsAreCurrent
<1> QED BY <1>1, Invariance, PTL

\* A run is PAUSED only where enter_paused is called: behind an evaluation,
\* with budget left and no provider call under way.
THEOREM SafePause == Spec => []PausedOnlyAtSafePoint
<1>1. ASSUME IInv PROVE PausedOnlyAtSafePoint
  <2> SUFFICES ASSUME status = "PAUSED" PROVE PausedOnlyAtSafePoint
    BY DEF PausedOnlyAtSafePoint
  <2>1. PICK n \in {"aggregator", "optimizer"} : pc[n] \in {"parked", "parkedAgain"}
    BY <1>1 DEF IInv, PauseFitsStage, Parked
  <2>2. \/ stage = "aggregator" /\ pc["aggregator"] = "parked"
        \/ stage = "optimizer" /\ pc["optimizer"] \in {"parked", "parkedAgain"}
    BY <1>1, <2>1 DEF IInv, TasksFitStage
  <2>3. \A m \in Nodes : ~Asking(m)
    BY <1>1, <2>2, NodeNames DEF IInv, TasksFitStage, Asking
  <2>4. Len(versions) = iteration
    BY <1>1, <2>2 DEF IInv, VersionsFitStage, Written
  <2>5. versions[iteration].score \in Scores
    BY <1>1, <2>2 DEF IInv, ScoresFitStage, HasScore, Aggregated
  <2>6. iteration < MaxIterations
    BY <1>1, <2>2, ValueSets DEF IInv, BudgetFitsStage, Aggregated, HasEnded
  <2>7. versions[iteration].score # Unscored
    BY <2>5, WorkflowAssumption DEF Unscored
  <2> QED BY <2>1, <2>3, <2>4, <2>6, <2>7 DEF PausedOnlyAtSafePoint
<1> QED BY <1>1, Invariance, PTL

\* No run is active without a task that will end it: run() and _run_workflow
\* leave no way out that does not end the run.
THEOREM NoZombies == Spec => []NoZombieRun
<1>1. IInv => NoZombieRun
  BY DEF IInv, StatusFitsStage, NoZombieRun
<1> QED BY <1>1, Invariance, PTL

\* A run that has ended has its cancel signal up, so that every check raises,
\* or no node left that commits.
LEMMA LateResultsStep ==
  ASSUME IInv, [Next]_vars, HasEnded
  PROVE  UNCHANGED <<status, judgement, inputs>>
<1>1. cancelSignal \/ stage = "over" \/ (stage = "aggregator" /\ pc["aggregator"] = "done")
  BY DEF IInv, StatusFitsStage
<1>2. pc["generator"] \in {"ready", "call", "settled"} \/ pc["optimizer"] # "idle"
        \/ (\E r \in Roles : pc[r] # "idle") \/ pc["aggregator"] = "ready"
        => cancelSignal
  BY <1>1, NodeNames DEF IInv, TasksFitStage
<1>3. cancelSignal => Interrupt # None
  BY DEF Interrupt, None
<1>4. CASE GraphStep
  BY <1>4, ValueSets
  DEF GraphStep, StartRun, Superstep, Unwind, FailedStatus, HasEnded, judgement,
      inputs
<1>5. CASE NodeStep
  <2>1. CASE GeneratorStep
    BY <2>1, <1>2, <1>3
    DEF GeneratorStep, BeginGenerator, ResumeChunk, ResumeFailedAttempt,
        ResumeRejectedStream, ResumeStreamTooLate, FinishGeneration, Settled,
        GeneratorFrame
  <2>2. ASSUME NEW r \in Roles, ReviewerStep(r)
        PROVE  UNCHANGED <<status, judgement, inputs>>
    BY <2>2, <1>2, <1>3, NodeNames
    DEF ReviewerStep, BeginReview, FinishReview, Settled
  <2>3. CASE AggregatorStep
    BY <2>3, <1>2, <1>3 DEF AggregatorStep, Aggregate, WakeAggregator, StructuredFrame
  <2>4. CASE OptimizerStep
    BY <2>4, <1>2, <1>3
    DEF OptimizerStep, BeginOptimizer, WakeOptimizer, WakeOptimizerAgain, Woken,
        FinishPlan, Settled
  <2>5. ASSUME NEW n \in Structured, StructuredStep(n)
        PROVE  UNCHANGED <<status, judgement, inputs>>
    BY <2>5 DEF StructuredStep, RetryCall, RepairAnswer, StructuredFrame
  <2>6. ASSUME NEW n \in Nodes, Refuse(n) \/ RefuseWoken(n) \/ Settle(n) \/ Throw(n)
        PROVE  UNCHANGED <<status, judgement, inputs>>
    BY <2>6 DEF Refuse, RefuseWoken, Settle, Throw, StructuredFrame
  <2> QED BY <1>5, <2>1, <2>2, <2>3, <2>4, <2>5, <2>6 DEF NodeStep
<1>6. CASE UserStep
  BY <1>6, ValueSets DEF UserStep, RequestPause, ResumeRun, CancelRun, HasEnded
<1>7. CASE SpendBudget
  BY <1>7 DEF SpendBudget
<1>8. CASE UNCHANGED vars
  BY <1>8 DEF vars
<1> QED BY <1>4, <1>5, <1>6, <1>7, <1>8 DEF Next, Ended

\* Once a run has ended, by _check_cancel before each commit, its status,
\* versions, scores, reviews and plan do not change any more.
THEOREM LateResults == Spec => NoLateResults
<1>1. IInv /\ [Next]_vars => [HasEnded => UNCHANGED <<status, judgement, inputs>>]_vars
  BY LateResultsStep
<1> QED BY <1>1, Invariance, PTL DEF Spec, NoLateResults

================================================================================
