------------------------------- MODULE RunStatus -------------------------------
(***************************************************************************)
(* The status machine of a run (backend/state_machine.py): the statuses,   *)
(* which of them are terminal, and the transition table require_transition *)
(* consults.  Constant-level; every other module reads the table from here.*)
(***************************************************************************)

TerminalStatuses == {"COMPLETED", "MAX_ITERATIONS_REACHED", "CANCELLED", "FAILED"}

\* The statuses in which a pause request is accepted (request_pause).
PausableStatuses == {"GENERATING", "REVIEWING", "AGGREGATING", "OPTIMIZING"}

LiveStatuses == PausableStatuses \cup
                {"QUEUED", "PAUSE_REQUESTED", "PAUSED", "CANCEL_REQUESTED"}

RunStatuses == LiveStatuses \cup TerminalStatuses

AllowedTransitions ==
  [s \in RunStatuses |->
     CASE s = "QUEUED" -> {"GENERATING", "CANCEL_REQUESTED", "FAILED"}
       [] s = "GENERATING" ->
            {"REVIEWING", "PAUSE_REQUESTED", "CANCEL_REQUESTED", "FAILED"}
       [] s = "REVIEWING" ->
            {"AGGREGATING", "PAUSE_REQUESTED", "CANCEL_REQUESTED", "FAILED"}
       [] s = "AGGREGATING" ->
            {"COMPLETED", "MAX_ITERATIONS_REACHED", "OPTIMIZING",
             "PAUSE_REQUESTED", "PAUSED", "CANCEL_REQUESTED", "FAILED"}
       [] s = "OPTIMIZING" ->
            {"GENERATING", "PAUSE_REQUESTED", "CANCEL_REQUESTED", "FAILED"}
       [] s = "PAUSE_REQUESTED" ->
            {"PAUSED", "COMPLETED", "MAX_ITERATIONS_REACHED",
             "CANCEL_REQUESTED", "FAILED"}
       [] s = "PAUSED" -> {"OPTIMIZING", "CANCEL_REQUESTED", "FAILED"}
       [] s = "CANCEL_REQUESTED" -> {"CANCELLED", "FAILED"}
       [] OTHER -> {}]

CanTransition(current, target) == target \in AllowedTransitions[current]

================================================================================
