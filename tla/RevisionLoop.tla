------------------------------ MODULE RevisionLoop ------------------------------
(***************************************************************************)
(* What a run promises, without nodes, retries, streams or signals.        *)
(*                                                                         *)
(* A run writes one version per iteration, has it scored once, and either  *)
(* ends on that score or revises.  It keeps a pointer to the best version  *)
(* scored so far.  A user may hold it between a score and the revision     *)
(* that follows, release it, or cancel it; a failure may end it at any     *)
(* time it is not held.  Once it has ended nothing about it changes.       *)
(*                                                                         *)
(* AgentWorkflow (backend/workflow.py with backend/run_manager.py)         *)
(* implements this specification.                                          *)
(***************************************************************************)
EXTENDS Integers, Sequences

CONSTANTS
  MaxIterations,   \* the attempt budget, max_iterations of the request
  Scores,          \* the overall scores an evaluation can produce
  Threshold        \* quality_threshold of the request

Unscored == -1    \* a version no evaluation has reached yet

\* best_version and best_score before anything was scored.
NoBest == [num |-> 0, score |-> Unscored]

VARIABLES
  outcome,    \* "OPEN", or the terminal status the run ended with
  held,       \* the run is paused
  iteration,  \* current_iteration
  versions,   \* the versions written, each with its number and score
  best        \* the number and score of the best version so far

vars == <<outcome, held, iteration, versions, best>>

Outcomes == {"OPEN", "COMPLETED", "MAX_ITERATIONS_REACHED", "CANCELLED", "FAILED"}

Version == [num : 1..MaxIterations, score : Scores \cup {Unscored}]

TypeOK ==
  /\ outcome \in Outcomes
  /\ held \in BOOLEAN
  /\ iteration \in 1..MaxIterations
  /\ versions \in Seq(Version)
  /\ best \in [num : 0..MaxIterations, score : Scores \cup {Unscored}]

Running == outcome = "OPEN" /\ ~held

\* The current iteration's version has been written and scored.
Judged == /\ Len(versions) = iteration
          /\ versions[iteration].score # Unscored

Init ==
  /\ outcome = "OPEN"
  /\ held = FALSE
  /\ iteration = 1
  /\ versions = <<>>
  /\ best = NoBest

Write ==
  /\ Running
  /\ Len(versions) = iteration - 1
  /\ versions' = Append(versions, [num |-> iteration, score |-> Unscored])
  /\ UNCHANGED <<outcome, held, iteration, best>>

\* The version is scored; the gate, then the budget, decide whether that ends
\* the run.  An unfinished run may go straight into a pause that was waiting.
Judge ==
  /\ Running
  /\ Len(versions) = iteration
  /\ versions[iteration].score = Unscored
  /\ \E score \in Scores, gatePassed \in BOOLEAN :
       /\ gatePassed => score >= Threshold
       /\ versions' = [versions EXCEPT ![iteration].score = score]
       /\ best' = IF score > best.score
                  THEN [num |-> iteration, score |-> score] ELSE best
       /\ \/ gatePassed /\ outcome' = "COMPLETED" /\ held' = FALSE
          \/ /\ ~gatePassed /\ iteration = MaxIterations
             /\ outcome' = "MAX_ITERATIONS_REACHED" /\ held' = FALSE
          \/ /\ ~gatePassed /\ iteration < MaxIterations
             /\ outcome' = "OPEN" /\ held' \in BOOLEAN
  /\ UNCHANGED iteration

Revise ==
  /\ Running
  /\ Judged
  /\ iteration < MaxIterations
  /\ iteration' = iteration + 1
  /\ UNCHANGED <<outcome, held, versions, best>>

Hold ==
  /\ Running
  /\ Judged
  /\ held' = TRUE
  /\ UNCHANGED <<outcome, iteration, versions, best>>

Release ==
  /\ held
  /\ held' = FALSE
  /\ UNCHANGED <<outcome, iteration, versions, best>>

Cancel ==
  /\ outcome = "OPEN"
  /\ outcome' = "CANCELLED"
  /\ held' = FALSE
  /\ UNCHANGED <<iteration, versions, best>>

Fail ==
  /\ Running
  /\ outcome' = "FAILED"
  /\ UNCHANGED <<held, iteration, versions, best>>

Next == Write \/ Judge \/ Revise \/ Hold \/ Release \/ Cancel \/ Fail

Spec == Init /\ [][Next]_vars

================================================================================
