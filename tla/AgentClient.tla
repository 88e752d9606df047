------------------------------ MODULE AgentClient ------------------------------
(***************************************************************************)
(* src/hooks/useAgentRun.ts: how a page keeps one run on the screen.  It   *)
(* loads a snapshot, follows the run's events from there, recovers when    *)
(* the connection breaks, and sends the reader's requests, while the       *)
(* reader may leave for another run at any moment.  Every await and every  *)
(* callback is a step of its own; a session number, and the identity of    *)
(* the current EventSource, tell what is still wanted from what is not.    *)
(* The view is the reducer's (RunReducer).                                 *)
(*                                                                         *)
(* The server is here what a page can see of it: per run the events so     *)
(* far, from which every snapshot follows (RunServer and EventLog model    *)
(* how they come about).  A run streams one version until it fails or is   *)
(* cancelled, and the events before its first text are left out.           *)
(***************************************************************************)
EXTENDS RunViews, Selection

CONSTANTS
  Runs,               \* the runs there may be
  Controls,           \* the requests a reader makes, of "pause", "resume", "cancel"
  MAX_NATIVE_RETRIES, \* errors in a row before the page gives up on a source; three in the code
  MaxText,            \* bound: pieces of text per run
  Clicks,             \* bound: what the reader does
  Faults              \* bound: requests that fail, sources that break, late messages

ASSUME ClientAssumption ==
  /\ Controls \subseteq {"pause", "resume", "cancel"}
  /\ MAX_NATIVE_RETRIES \in Nat \ {0}
  /\ MaxText \in Nat /\ Clicks \in Nat /\ Faults \in Nat

\* The snapshots a page may be sent here.
Snapshots ==
  [run_id : Runs, current_iteration : {1}, max_iterations : {1}, quality_threshold : {0},
   status : RunStatuses, active_node : {Null}, versions : {<<>>},
   current_prd : Text, current_prd_attempt : {1}, latest_evaluation : {Null},
   best_version : {Null}, best_score : {Null}, reviews : {EmptyMap},
   pending_revision_plan : {Null}, node_statuses : [Nodes -> {"PENDING"}],
   total_tokens : {0}, error : {Null, "RUN_TIMEOUT"}, latest_event_sequence : Nat]

\* null is none of the values a field may have instead.
ASSUME NullAssumption ==
  Runs # {} /\ Null \notin Runs /\ Null \notin RunStatuses /\ Null \notin Snapshots

VARIABLES
  log,       \* per run that was created: the events it has sent
  url,       \* ?run_id= of the address bar, or Null
  view,      \* RunViewState
  session,   \* sessionRef
  ref,       \* sourceRef: the id of the current EventSource, or 0
  sources,   \* per id: the EventSources there are, and the last one closed
  calls,     \* requests whose promise has not settled
  spare      \* what is left of the bounds

client == <<url, view, session, ref, sources>>
vars == <<log, url, view, session, ref, sources, calls, spare>>

--------------------------------------------------------------------------------
(* What the server knows of a run, after some of its events. *)

StatusAfter(events) ==
  IF events = <<>> THEN "GENERATING"
  ELSE events[Len(events)].status

\* The pieces of text among the events, joined.
Deltas(events) == {n \in DOMAIN events : events[n].event = "prd_delta"}

TextOf(events) ==
  LET pieces == Selected(events, Deltas(events))
  IN  [k \in DOMAIN pieces |-> pieces[k].payload.delta]

Prefix(run, n) == SubSeq(log[run], 1, n)
StatusOf(run) == StatusAfter(log[run])

\* GET /api/runs/{run_id}, answered after n events.
SnapshotAt(run, n) ==
  LET status == StatusAfter(Prefix(run, n)) IN
  [run_id |-> run, current_iteration |-> 1, max_iterations |-> 1, quality_threshold |-> 0,
   status |-> status, active_node |-> Null, versions |-> <<>>,
   current_prd |-> TextOf(Prefix(run, n)), current_prd_attempt |-> 1,
   latest_evaluation |-> Null, best_version |-> Null, best_score |-> Null,
   reviews |-> EmptyMap, pending_revision_plan |-> Null,
   node_statuses |-> [node \in Nodes |-> "PENDING"], total_tokens |-> 0,
   error |-> IF status = "FAILED" THEN "RUN_TIMEOUT" ELSE Null,
   latest_event_sequence |-> n]

\* The run sends one more event; status is the run's after it, and not sent.
Send(run, kind, status, payload) ==
  log' = [log EXCEPT ![run] = Append(@,
    [event |-> kind, run_id |-> run, sequence |-> Len(@) + 1, iteration |-> 1,
     status |-> status, payload |-> payload])]

Write(run) ==
  /\ StatusOf(run) \in {"GENERATING", "PAUSE_REQUESTED"}
  /\ Len(TextOf(log[run])) < MaxText
  /\ Send(run, "prd_delta", StatusOf(run), [delta |-> <<Len(log[run]) + 1>>])
  /\ UNCHANGED <<client, calls, spare>>

Park(run) ==
  /\ StatusOf(run) = "PAUSE_REQUESTED"
  /\ Send(run, "run_paused", "PAUSED", [current |-> "PAUSED"])
  /\ UNCHANGED <<client, calls, spare>>

Fail(run) ==
  /\ ~isTerminalRunStatus(StatusOf(run))
  /\ Send(run, "run_failed", "FAILED", [error_code |-> "RUN_TIMEOUT"])
  /\ UNCHANGED <<client, calls, spare>>

--------------------------------------------------------------------------------
(* Requests (AgentApi).  An answer is [at: events seen], [created: run],   *)
(* [status: RunStatus], or [code: error code].                             *)

Call(kind, run) == [kind |-> kind, run |-> run, session |-> session', answer |-> Null]

Answer(call, answer) == calls' = (calls \ {call}) \cup {[call EXCEPT !.answer = answer]}

HasAnswer(call, field) == call.answer # Null /\ field \in DOMAIN call.answer

Asked(call, kinds) == call.kind \in kinds /\ call.answer = Null

AnswerGetRun(call) ==
  /\ Asked(call, {"hydrate", "recover"})
  /\ Answer(call, [at |-> Len(log[call.run])])
  /\ UNCHANGED <<log, client, spare>>

AnswerCreateRun(call) ==
  /\ Asked(call, {"create"})
  /\ IF DOMAIN log = Runs
     THEN Answer(call, [code |-> "RUN_CAPACITY_REACHED"]) /\ UNCHANGED log
     ELSE LET run == CHOOSE run \in Runs : run \notin DOMAIN log
          IN  log' = Put(log, run, <<>>) /\ Answer(call, [created |-> run])
  /\ UNCHANGED <<client, spare>>

\* request_pause
AnswerPause(call) ==
  LET status == StatusOf(call.run) IN
  /\ Asked(call, {"pause"})
  /\ CASE isTerminalRunStatus(status) ->
            Answer(call, [code |-> "RUN_TERMINAL"]) /\ UNCHANGED log
       [] status \in {"PAUSE_REQUESTED", "PAUSED"} ->
            Answer(call, [status |-> status]) /\ UNCHANGED log
       [] status \in PausableStatuses ->
            /\ Send(call.run, "pause_requested", "PAUSE_REQUESTED",
                    [current |-> "PAUSE_REQUESTED"])
            /\ Answer(call, [status |-> "PAUSE_REQUESTED"])
       [] OTHER -> Answer(call, [code |-> "RUN_NOT_PAUSABLE"]) /\ UNCHANGED log
  /\ UNCHANGED <<client, spare>>

\* resume_run; what the run does after its optimizer is left out.
AnswerResume(call) ==
  /\ Asked(call, {"resume"})
  /\ IF StatusOf(call.run) # "PAUSED"
     THEN Answer(call, [code |-> "RUN_NOT_PAUSED"]) /\ UNCHANGED log
     ELSE /\ Send(call.run, "run_resumed", "OPTIMIZING", [current |-> "OPTIMIZING"])
          /\ Answer(call, [status |-> "OPTIMIZING"])
  /\ UNCHANGED <<client, spare>>

\* cancel_run: the request is entered, then finalize_cancel ends the run.
AnswerCancel(call) ==
  LET status == StatusOf(call.run) IN
  /\ Asked(call, {"cancel"})
  /\ CASE status = "CANCELLED" -> Answer(call, [status |-> status]) /\ UNCHANGED log
       [] status \in {"COMPLETED", "MAX_ITERATIONS_REACHED", "FAILED"} ->
            Answer(call, [code |-> "RUN_TERMINAL"]) /\ UNCHANGED log
       [] status = "CANCEL_REQUESTED" ->
            /\ Send(call.run, "run_cancelled", "CANCELLED", [current |-> "CANCELLED"])
            /\ Answer(call, [status |-> "CANCELLED"])
       [] OTHER ->
            /\ Send(call.run, "status_changed", "CANCEL_REQUESTED",
                    [current |-> "CANCEL_REQUESTED"])
            /\ UNCHANGED calls
  /\ UNCHANGED <<client, spare>>

\* fetch throws: the request is lost, or the answer of one that changed something.
LoseCall(call) ==
  /\ spare.faults > 0
  /\ ~HasAnswer(call, "code")
  /\ call.kind \in {"hydrate", "recover"} => call.answer = Null
  /\ Answer(call, [code |-> "NETWORK_ERROR"])
  /\ spare' = [spare EXCEPT !.faults = @ - 1]
  /\ UNCHANGED <<log, client>>

--------------------------------------------------------------------------------
(* EventSources. *)

\* A closed source that still has something to deliver, until event number sent.
Buffering(source) == source.cursor < source.sent

\* source.close(): what was on its way may still arrive.  Bound: only what was on its
\* way to the source closed last.
Closing(all, id) ==
  LET rest == {j \in DOMAIN all \ {id} : all[j].state # "closed"}
      closed == [all[id] EXCEPT !.state = "closed", !.errors = 0,
                                !.sent = Len(log[all[id].run])]
  IN  IF id = 0 THEN all
      ELSE [i \in IF Buffering(closed) THEN rest \cup {id} ELSE rest |->
              IF i = id THEN closed ELSE all[i]]

closeSource ==
  /\ sources' = Closing(sources, ref)
  /\ ref' = 0

FreshId(all) == CHOOSE i \in 1 .. Cardinality(DOMAIN all) + 1 : i \notin DOMAIN all

\* Faulty: the new connection starts one event too late.
ConnectAfterNext(run, afterSequence) ==
  LET closed == Closing(sources, ref) IN
  /\ ref' = FreshId(closed)
  /\ sources' = Put(closed, FreshId(closed),
       [run |-> run, session |-> session, state |-> "connecting", cursor |-> afterSequence + 1,
        sent |-> 0, errors |-> 0])

connect(run, afterSequence) ==
  LET closed == Closing(sources, ref) IN
  /\ ref' = FreshId(closed)
  /\ sources' = Put(closed, FreshId(closed),
       [run |-> run, session |-> session, state |-> "connecting", cursor |-> afterSequence,
        sent |-> 0, errors |-> 0])

IsCurrentSource(i) == sources[i].session = session /\ ref = i

onopen(i) ==
  /\ sources[i].state = "connecting"
  /\ IF sources[i].session # session
     THEN sources' = Closing(sources, i) /\ UNCHANGED view
     ELSE /\ sources' = [sources EXCEPT ![i].state = "open", ![i].errors = 0]
          /\ view' = ConnectionChanged(view, "open")
  /\ UNCHANGED <<log, url, session, ref, calls, spare>>

ENDINGS == {"run_completed", "max_iterations_reached", "run_cancelled", "run_failed"}

\* A listener: the next event of the source's run arrives.
Receive(i) ==
  LET source == sources[i]
      event == log[source.run][source.cursor + 1]
      read == [sources EXCEPT ![i].cursor = @ + 1]
      seen == EventReceived(view, event)
  IN  /\ source.cursor < Len(log[source.run])
      /\ CASE ~IsCurrentSource(i) ->
                /\ sources' = Restrict(read, {j \in DOMAIN read :
                             read[j].state # "closed" \/ Buffering(read[j])})
                /\ UNCHANGED <<view, ref>>
           [] IsCurrentSource(i) /\ event.event \in ENDINGS ->
                /\ view' = ConnectionChanged(seen, "closed")
                /\ sources' = Closing(read, i)
                /\ ref' = IF ref = i THEN 0 ELSE ref
           [] OTHER ->
                view' = seen /\ sources' = read /\ UNCHANGED ref
      /\ UNCHANGED <<log, url, session, calls>>

Message(i) == sources[i].state = "open" /\ Receive(i) /\ UNCHANGED spare

LateMessage(i) ==
  /\ sources[i].state = "closed"
  /\ spare.faults > 0
  /\ Receive(i)
  /\ spare' = [spare EXCEPT !.faults = @ - 1]

\* Faulty: the page waits for the browser to connect again, whatever happened.
OnlyAfterErrors(errors, fatal) == errors >= MAX_NATIVE_RETRIES

\* The browser will not connect again by itself, or has tried often enough.
GivesUp(errors, fatal) == fatal \/ errors >= MAX_NATIVE_RETRIES

\* The connection breaks; fatally when the browser will not retry by itself.
onerror(i, fatal) ==
  LET errors == sources[i].errors + 1
      broken == IF fatal THEN Closing(sources, i)
                ELSE [sources EXCEPT ![i].errors = errors, ![i].state = "connecting"]
  IN  /\ sources[i].state # "closed" /\ spare.faults > 0
      /\ spare' = [spare EXCEPT !.faults = @ - 1]
      /\ CASE ~IsCurrentSource(i) ->
                /\ sources' = broken
                /\ UNCHANGED <<view, ref, calls>>
           [] IsCurrentSource(i) /\ ~GivesUp(errors, fatal) ->
                /\ sources' = broken
                /\ view' = ConnectionChanged(view, "connecting")
                /\ UNCHANGED <<ref, calls>>
           [] OTHER ->
                /\ sources' = Closing(sources, i)
                /\ ref' = 0
                /\ view' = ConnectionChanged(view, "recovering")
                /\ calls' = calls \cup
                     {[kind |-> "recover", run |-> sources[i].run,
                       session |-> session, answer |-> Null]}
      /\ UNCHANGED <<log, url, session>>

--------------------------------------------------------------------------------
(* The answers of hydrate, of a recovery, of createRun and of runControl. *)

\* Faulty: an answer counts whoever asked.
AnyAnswer(call) == call.answer # Null

IsWanted(call) == call.session = session

Settle(call, more) == calls' = (calls \ {call}) \cup more

\* SNAPSHOT_LOADED, then the run's events from there on, unless it has ended.
ShowSnapshot(call) ==
  LET snapshot == SnapshotAt(call.run, call.answer.at)
      loaded == SnapshotLoaded(view, snapshot)
  IN  IF isTerminalRunStatus(snapshot.status)
      THEN view' = ConnectionChanged(loaded, "closed") /\ UNCHANGED <<ref, sources>>
      ELSE /\ view' = ConnectionChanged(loaded, "connecting")
           /\ connect(call.run, snapshot.latest_event_sequence)

SnapshotAnswered(call) ==
  /\ call.kind \in {"hydrate", "recover"} /\ HasAnswer(call, "at")
  /\ Settle(call, {})
  /\ IF IsWanted(call) THEN ShowSnapshot(call) ELSE UNCHANGED <<view, ref, sources>>
  /\ UNCHANGED <<log, url, session, spare>>

hydrateFailed(call) ==
  /\ call.kind = "hydrate" /\ HasAnswer(call, "code")
  /\ Settle(call, {})
  /\ IF IsWanted(call)
     THEN /\ closeSource
          /\ url' = Null
          /\ view' = Errored(Reset(view), localizedErrorMessage(call.answer.code))
     ELSE UNCHANGED <<url, view, ref, sources>>
  /\ UNCHANGED <<log, session, spare>>

recoverFailed(call) ==
  /\ call.kind = "recover" /\ HasAnswer(call, "code")
  /\ Settle(call, {})
  /\ view' = IF IsWanted(call)
             THEN ConnectionChanged(
                    Errored(view, localizedErrorMessage(call.answer.code)), "closed")
             ELSE view
  /\ UNCHANGED <<log, url, session, ref, sources, spare>>

createRunAnswered(call) ==
  /\ call.kind = "create" /\ HasAnswer(call, "created")
  /\ UNCHANGED session
  /\ IF IsWanted(call)
     THEN /\ url' = call.answer.created
          /\ view' = RunSelected(view, call.answer.created)
          /\ Settle(call, {Call("hydrate", call.answer.created)})
     ELSE Settle(call, {}) /\ UNCHANGED <<url, view>>
  /\ UNCHANGED <<log, ref, sources, spare>>

createRunFailed(call) ==
  /\ call.kind = "create" /\ HasAnswer(call, "code")
  /\ Settle(call, {})
  /\ IF IsWanted(call)
     THEN /\ url' = Null
          /\ view' = Errored(view, localizedErrorMessage(call.answer.code))
     ELSE UNCHANGED <<url, view>>
  /\ UNCHANGED <<log, session, ref, sources, spare>>

\* runControl asks no question about the session.
runControlAnswered(call) ==
  /\ call.kind \in {"pause", "resume", "cancel"} /\ call.answer # Null
  /\ Settle(call, {})
  /\ view' = ControlFinished(
       IF HasAnswer(call, "status") THEN StatusUpdated(view, call.answer.status)
       ELSE Errored(view, localizedErrorMessage(call.answer.code)))
  /\ UNCHANGED <<log, url, session, ref, sources, spare>>

--------------------------------------------------------------------------------
(* The reader. *)

Clicked == spare.clicks > 0 /\ spare' = [spare EXCEPT !.clicks = @ - 1]

selectRun(run) ==
  /\ Clicked
  /\ run # view.runId
  /\ session' = session + 1
  /\ closeSource
  /\ url' = run
  /\ view' = RunSelected(view, run)
  /\ calls' = calls \cup {Call("hydrate", run)}
  /\ UNCHANGED log

\* The form is there while no run is, and disabled while it submits.
createRun ==
  /\ Clicked
  /\ Screen(view) = "form" /\ ~view.isCreating
  /\ session' = session + 1
  /\ closeSource
  /\ view' = CreateStarted(view)
  /\ calls' = calls \cup {Call("create", Null)}
  /\ UNCHANGED <<log, url>>

runControl(control) ==
  /\ Clicked
  /\ Screen(view) = "workspace" /\ control \in OfferedControls(view)
  /\ view.pendingControl = Null
  /\ view' = ControlStarted(view, control)
  /\ UNCHANGED <<log, url, session, ref, sources>>
  /\ calls' = calls \cup {Call(control, view.runId)}

retryConnection ==
  /\ Clicked
  /\ OffersRetry(view)
  /\ session' = session + 1
  /\ closeSource
  /\ view' = ConnectionChanged(ClearError(view), "recovering")
  /\ calls' = calls \cup {Call("hydrate", view.runId)}
  /\ UNCHANGED <<log, url>>

newRun ==
  /\ Clicked
  /\ session' = session + 1
  /\ closeSource
  /\ url' = Null
  /\ view' = Reset(view)
  /\ UNCHANGED <<log, calls>>

\* The effect of a page that has just been loaded: the run of its address.
MountWith(run, others) ==
  /\ session' = IF run = Null THEN 0 ELSE 1
  /\ view' = IF run = Null THEN initialRunViewState ELSE RunSelected(initialRunViewState, run)
  /\ calls' = others \cup (IF run = Null THEN {} ELSE {Call("hydrate", run)})

\* The page is loaded again: all it knew is gone, and nothing of it listens any more.
Reload ==
  /\ Clicked
  /\ MountWith(url, {})
  /\ ref' = 0 /\ sources' = EmptyMap
  /\ UNCHANGED <<log, url>>

--------------------------------------------------------------------------------

Init ==
  /\ log = [run \in {CHOOSE run \in Runs : TRUE} |-> <<>>]
  /\ url \in {Null} \cup DOMAIN log
  /\ session = IF url = Null THEN 0 ELSE 1
  /\ view = IF url = Null THEN initialRunViewState ELSE RunSelected(initialRunViewState, url)
  /\ calls = IF url = Null THEN {}
             ELSE {[kind |-> "hydrate", run |-> url, session |-> 1, answer |-> Null]}
  /\ ref = 0 /\ sources = EmptyMap
  /\ spare = [clicks |-> Clicks, faults |-> Faults]

ServerStep == \E run \in DOMAIN log : Write(run) \/ Park(run) \/ Fail(run)

AnswerStep(call) ==
  \/ AnswerGetRun(call) \/ AnswerCreateRun(call)
  \/ AnswerPause(call) \/ AnswerResume(call) \/ AnswerCancel(call)

SettleStep(call) ==
  \/ SnapshotAnswered(call) \/ hydrateFailed(call) \/ recoverFailed(call)
  \/ createRunAnswered(call) \/ createRunFailed(call) \/ runControlAnswered(call)

ReaderStep ==
  \/ \E run \in DOMAIN log : selectRun(run)
  \/ createRun \/ retryConnection \/ newRun \/ Reload
  \/ \E control \in Controls : runControl(control)

Next ==
  \/ ServerStep
  \/ \E call \in calls : AnswerStep(call) \/ SettleStep(call) \/ LoseCall(call)
  \/ \E i \in DOMAIN sources :
       \/ onopen(i) \/ Message(i) \/ LateMessage(i)
       \/ \E fatal \in BOOLEAN : onerror(i, fatal)
  \/ ReaderStep

Spec == Init /\ [][Next]_vars

\* Requests settle; EventSources open and deliver.
Fairness ==
  /\ WF_vars(\E call \in calls : AnswerStep(call) \/ SettleStep(call))
  /\ WF_vars(\E i \in DOMAIN sources : onopen(i) \/ Message(i))

LiveSpec == Spec /\ Fairness

--------------------------------------------------------------------------------
(* Properties. *)

LiveSources == {i \in DOMAIN sources : sources[i].state # "closed"}

WantedCalls == {call \in calls : IsWanted(call)
                   /\ call.kind \in {"hydrate", "recover", "create"}}

\* The text of the page.
ShownText == IF 1 \in DOMAIN view.drafts THEN view.drafts[1].content ELSE <<>>

OneLiveSource ==
  /\ LiveSources \subseteq {ref}
  /\ ref # 0 => /\ ref \in LiveSources
                /\ sources[ref].run = view.runId
                /\ sources[ref].session = session

ConnectionIsShown ==
  /\ view.connection = "open" => ref # 0 /\ sources[ref].state = "open"
  /\ view.connection \in {"recovering", "closed"} => LiveSources = {}

UrlIsTheRun == url = view.runId

\* At most one EventSource is alive: the page's current one, of the run the page
\* shows and of this session.  connect, closeSource and the session counter keep
\* two recoveries, or a recovery and a retry, from both connecting.  And what the
\* page says of it is so: open only while the current source is, recovering or
\* closed only when there is none; and its address names the run on the screen.
ConnectionIsTrue == OneLiveSource /\ ConnectionIsShown /\ UrlIsTheRun

\* The text on the page is the run's text up to the last event the page counts:
\* nothing is applied twice, left out, or comes from another run, whatever broke,
\* was reloaded or was left in between.  Not so once a run was cancelled: the answer
\* can show the end before the last text, which is then dropped (see TerminalIsLocked).
PageIsAPrefix ==
  view.snapshot # Null /\ (\A run \in DOMAIN log : StatusOf(run) # "CANCELLED") =>
    /\ view.latestSequence <= Len(log[view.runId])
    /\ ShownText = TextOf(Prefix(view.runId, view.latestSequence))

\* While a run stays on the screen its events are never taken back: an answer of
\* an earlier request, or a closed source's late event, cannot make the page older.
NoRewind ==
  [][view.snapshot # Null /\ view'.snapshot # Null /\ view'.runId = view.runId
       => view'.latestSequence >= view.latestSequence]_vars

\* The page never waits for nothing.  Without a source, and without a request whose
\* answer it would take, it shows a run that ended or offers to connect again, and
\* does not say it is connecting; it is busy creating, or with a control, only
\* while that request is under way.
NeverStranded ==
  /\ view.connection \in {"connecting", "recovering"} =>
       LiveSources # {} \/ WantedCalls # {}
  /\ view.runId # Null /\ LiveSources = {} /\ WantedCalls = {}
       => isTerminalRunStatus(view.status) \/ OffersRetry(view)
  /\ view.isCreating => \E call \in WantedCalls : call.kind = "create"
  /\ view.pendingControl # Null => \E call \in calls : call.kind \in Controls

\* A page that stays with a run learns that it ended, or offers to connect again.
EndIsShown ==
  \A run \in Runs :
    (run \in DOMAIN log /\ view.runId = run /\ isTerminalRunStatus(StatusOf(run)))
      ~> (view.runId # run \/ isTerminalRunStatus(view.status) \/ OffersRetry(view))

\* "结束事件锁定最终状态": once the page shows how a run ended, it shows it for good.
TerminalIsLocked ==
  [][view.runId # Null /\ view'.runId = view.runId /\ view'.status # Null
       /\ isTerminalRunStatus(view.status) => view'.status = view.status]_vars

================================================================================
