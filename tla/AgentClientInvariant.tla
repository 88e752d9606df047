-------------------------- MODULE AgentClientInvariant --------------------------
(***************************************************************************)
(* The inductive invariant of AgentClient: what ConnectionIsTrue,          *)
(* NeverStranded, PageIsAPrefix and NoRewind rest on.                      *)
(***************************************************************************)
EXTENDS AgentClient

--------------------------------------------------------------------------------
(* The server. *)

\* The events a run may send: text, its failure, and changes of its status.
EventsWith(run, kinds, payloads) ==
  [event : kinds, run_id : {run}, sequence : Nat, iteration : {1},
   status : RunStatuses, payload : payloads]

StatusEvents ==
  {"status_changed", "pause_requested", "run_paused", "run_resumed", "run_cancelled"}

EventsOf(run) ==
  EventsWith(run, {"prd_delta"}, [delta : Seq(Nat)])
    \cup EventsWith(run, {"run_failed"}, [error_code : {"RUN_TIMEOUT"}])
    \cup EventsWith(run, StatusEvents, [current : RunStatuses])

\* What an event says of the status agrees with the status the run has after it.
SaysItsStatus(event) ==
  /\ event.event \in StatusEvents => event.payload.current = event.status
  /\ event.event = "run_paused" => event.status = "PAUSED"
  /\ event.event = "run_resumed" => event.status = "OPTIMIZING"
  /\ event.event = "run_cancelled" => event.status = "CANCELLED"
  /\ event.event = "run_failed" => event.status = "FAILED"
  /\ event.event = "prd_delta" => ~isTerminalRunStatus(event.status)

\* Events are numbered, and none is behind one that ends the run.
LogIsOrdered ==
  /\ DOMAIN log \subseteq Runs
  /\ \A run \in DOMAIN log :
       /\ log[run] \in Seq(EventsOf(run))
       /\ \A n \in 1 .. Len(log[run]) :
            /\ log[run][n].sequence = n
            /\ SaysItsStatus(log[run][n])
            /\ isTerminalRunStatus(log[run][n].status) => n = Len(log[run])

--------------------------------------------------------------------------------
(* Requests and sources. *)

RunCalls == {"hydrate", "recover", "pause", "resume", "cancel"}

Answers ==
  {Null} \cup [at : Nat] \cup [created : Runs] \cup [status : RunStatuses]
    \cup [code : {"NETWORK_ERROR", "RUN_CAPACITY_REACHED", "RUN_TERMINAL",
                  "RUN_NOT_PAUSABLE", "RUN_NOT_PAUSED"}]

Requests ==
  [kind : RunCalls \cup {"create"}, run : Maybe(Runs), session : Nat, answer : Answers]

\* What is under way was asked by this page or an earlier session of it, and what it
\* was told is still so: events are only added, and a cancelled run stays cancelled.
AnswersHold ==
  \A call \in calls :
    /\ call \in Requests /\ call.session <= session
    /\ call.kind \in RunCalls => call.run \in DOMAIN log
    /\ HasAnswer(call, "at") =>
         call.run \in DOMAIN log /\ call.answer.at <= Len(log[call.run])
    /\ HasAnswer(call, "created") => call.answer.created \in DOMAIN log
    /\ HasAnswer(call, "status") /\ isTerminalRunStatus(call.answer.status) =>
         call.run \in DOMAIN log /\ StatusOf(call.run) = "CANCELLED"

EventSources ==
  [run : Runs, session : Nat, state : {"connecting", "open", "closed"}, cursor : Nat,
   sent : Nat, errors : Nat]

SourcesTypeOK ==
  /\ session \in Nat /\ ref \in Nat
  /\ IsFiniteSet(DOMAIN sources) /\ DOMAIN sources \subseteq Nat \ {0}
  /\ \A i \in DOMAIN sources :
       sources[i] \in EventSources /\ sources[i].run \in DOMAIN log

--------------------------------------------------------------------------------
(* The page. *)

ViewTypeOK ==
  /\ DOMAIN view = DOMAIN initialRunViewState
  /\ view.runId \in {Null} \cup DOMAIN log
  /\ view.latestSequence \in Nat
  /\ view.runId # Null => view.latestSequence <= Len(log[view.runId])
  /\ view.connection \in {"idle", "connecting", "open", "recovering", "closed"}
  /\ view.isCreating \in BOOLEAN
  /\ view.snapshot # Null => view.runId # Null /\ view.status \in RunStatuses

\* The page waits for one answer at most, and for none while a source is current: the
\* snapshot of the run it shows, newer than what it shows, or a new run.
OneRequestIsWanted ==
  /\ \A call, other \in WantedCalls : call = other
  /\ \A call \in WantedCalls :
       /\ ref = 0
       /\ call.kind \in {"hydrate", "recover"} =>
            /\ call.run = view.runId
            /\ HasAnswer(call, "at") => view.latestSequence <= call.answer.at
       /\ call.kind = "create" => view.runId = Null /\ view.connection = "idle"
  /\ view.runId # Null /\ view.snapshot = Null =>
       \E call \in WantedCalls : call.kind = "hydrate"

NobodyCancelled == \A run \in DOMAIN log : StatusOf(run) # "CANCELLED"

\* As long as no run was cancelled, the source is where the page is, and the page
\* shows an end only behind the run's last event.
PageKeepsUp ==
  view.snapshot # Null /\ NobodyCancelled =>
    /\ ref # 0 => sources[ref].cursor = view.latestSequence
    /\ isTerminalRunStatus(view.status) =>
         /\ view.latestSequence = Len(log[view.runId])
         /\ isTerminalRunStatus(StatusOf(view.runId))
    /\ DOMAIN view.drafts \subseteq {1}
    /\ 1 \in DOMAIN view.drafts =>
         view.drafts[1].attempt = 1 /\ view.drafts[1].complete = FALSE

ClientInv ==
  /\ LogIsOrdered
  /\ AnswersHold
  /\ SourcesTypeOK
  /\ ViewTypeOK
  /\ OneRequestIsWanted
  /\ ConnectionIsTrue
  /\ NeverStranded
  /\ PageKeepsUp
  /\ PageIsAPrefix

================================================================================
