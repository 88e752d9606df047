------------------------------- MODULE EventLog -------------------------------
(***************************************************************************)
(* The event stream of one run: RunManager.commit and transition writing   *)
(* it (backend/run_manager.py), SQLiteEventStore keeping it as a hot       *)
(* buffer over durable rows (backend/event_store.py), SQLiteRunStore       *)
(* keeping the snapshot (backend/run_store.py), one subscription per       *)
(* client (backend/main.py), and the EventSource of useAgentRun.ts         *)
(* reading it, through lost connections, failed writes, a shutdown, a      *)
(* crash and a restart.                                                    *)
(*                                                                         *)
(* Granularity.  The run's lock and the condition of the stream are held   *)
(* only over code that never suspends, so neither is ever contended, and   *)
(* acquiring them does not suspend either.  A commit is one step, unless   *)
(* the process dies between the two transactions it makes, one for the     *)
(* event and one for the snapshot, or one of them fails.  A subscription   *)
(* suspends in two places only: at its yields and in condition.wait().     *)
(***************************************************************************)
EXTENDS Integers, Sequences, FiniteSetsExt

CONSTANTS
  Clients,
  BufferSize,      \* event_buffer_size, the length of the hot buffer
  MaxSequence,     \* bound: events the run logs
  WireSize,        \* bound: messages between the server and a client
  MaxFaults,       \* bound: failing writes
  MaxDrops,        \* bound: lost connections
  MaxRestarts      \* bound: restarts of the server

ASSUME EventLogAssumption ==
  /\ BufferSize \in Nat \ {0}
  /\ {MaxSequence, WireSize, MaxFaults, MaxDrops, MaxRestarts} \subseteq Nat

\* MAX_NATIVE_RETRIES
MaxNativeRetries == 3

VARIABLES
  (* the process *)
  life,            \* "up", "closing" (RunManager.shutdown) or "down"
  hot,             \* sequence numbers of the events in the deque
  counter,         \* _sequences of the run
  run,             \* the snapshot in memory
  (* the database *)
  rows,            \* sequence numbers of the rows in run_events
  saved,           \* the snapshot in runs
  (* the subscription of each client, in EventStore.subscribe *)
  server,          \* where it is
  cursor,          \* its cursor
  pending,         \* the rest of the events it is yielding
  wire,            \* what it has sent and the client has not handled
  (* each client *)
  conn,            \* the EventSource and the hook around it
  errors,          \* consecutiveErrors
  after,           \* after_sequence in the URL of the EventSource
  lastId,          \* the last event id the EventSource has seen
  got,             \* events it handled since the snapshot it started from
  (* what happened *)
  endAt,           \* sequence number of the run's terminal event, or 0
  faults, drops, restarts

process == <<life, hot, counter, run>>
database == <<rows, saved>>
streams == <<server, cursor, pending, wire>>
readers == <<conn, errors, after, lastId, got>>
history == <<endAt, faults, drops, restarts>>
vars == <<process, database, streams, readers, history>>

Active == "ACTIVE"              \* any status that is not terminal
Ended == "ENDED"                \* terminal, by the run's own terminal event
Interrupted == "INTERRUPTED"    \* FAILED with RUN_INTERRUPTED, by a restart

Snapshots == [status : {Active, Ended, Interrupted}, seq : 0..MaxSequence]

\* "arrive": at the top of the loop of subscribe; "yield": inside its for;
\* "wait": in condition.wait(); "woken": notified, not resumed yet; "late": the
\* heartbeat timeout has cancelled the wait, not resumed yet; "over": returned.
Places == {"none", "arrive", "yield", "wait", "woken", "late", "over"}

\* "off": no EventSource, the user has to retry; "connecting" and "open" are its
\* ready states; "recovering": closed, getRun in flight; "closed": closed for good.
Connections == {"off", "connecting", "open", "recovering", "closed"}

TypeOK ==
  /\ life \in {"up", "closing", "down"}
  /\ counter \in 0..MaxSequence /\ endAt \in 0..MaxSequence
  /\ hot \subseteq 1..MaxSequence /\ rows \subseteq 1..MaxSequence
  /\ run \in Snapshots /\ saved \in Snapshots
  /\ server \in [Clients -> Places]
  /\ cursor \in [Clients -> 0..MaxSequence]
  /\ pending \in [Clients -> SUBSET (1..MaxSequence)]
  /\ wire \in [Clients -> Seq(1..MaxSequence)]
  /\ conn \in [Clients -> Connections]
  /\ errors \in [Clients -> 0..MaxNativeRetries]
  /\ after \in [Clients -> 0..MaxSequence]
  /\ lastId \in [Clients -> 0..MaxSequence]
  /\ got \in [Clients -> SUBSET (1..MaxSequence)]
  /\ faults \in 0..MaxFaults /\ drops \in 0..MaxDrops /\ restarts \in 0..MaxRestarts

\* The run has just been created: its snapshot is stored, nothing is logged.
Init ==
  /\ life = "up" /\ hot = {} /\ counter = 0
  /\ run = [status |-> Active, seq |-> 0]
  /\ rows = {} /\ saved = run
  /\ server = [c \in Clients |-> "none"]
  /\ cursor = [c \in Clients |-> 0]
  /\ pending = [c \in Clients |-> {}]
  /\ wire = [c \in Clients |-> <<>>]
  /\ conn = [c \in Clients |-> "off"]
  /\ errors = [c \in Clients |-> 0]
  /\ after = [c \in Clients |-> 0]
  /\ lastId = [c \in Clients |-> 0]
  /\ got = [c \in Clients |-> {}]
  /\ endAt = 0 /\ faults = 0 /\ drops = 0 /\ restarts = 0

--------------------------------------------------------------------------------
(* Writing. *)

Terminal == run.status # Active

\* A deque with maxlen BufferSize drops its oldest event.
Fitting(S) == IF Cardinality(S) > BufferSize THEN S \ {Min(S)} ELSE S

\* Faulty: only one subscriber is woken.
NotifyOne ==
  LET waiting == {c \in Clients : server[c] = "wait"}
  IN IF waiting = {} THEN server
     ELSE [server EXCEPT ![CHOOSE c \in waiting : TRUE] = "woken"]

\* notify_all, in append and in wake
NotifyAll == [c \in Clients |-> IF server[c] = "wait" THEN "woken" ELSE server[c]]

\* EventStore.append: the event is in the buffer before it is in the database.
LogInMemory ==
  /\ life # "down"
  /\ counter < MaxSequence
  /\ counter' = counter + 1
  /\ hot' = Fitting(hot \cup {counter'})
  /\ server' = NotifyAll

\* What may be logged now.  A run starts with a status change, so its first event
\* is durable.  Only telemetry is logged behind the terminal event, and it is
\* durable too (see AgentWorkflow).  No task of the run survives a restart.
Loggable(kind) ==
  /\ restarts = 0
  /\ run.status = Active \/ kind = "durable"
  /\ counter = 0 => kind = "durable"

StatusAfter(kind) == IF kind = "end" THEN Ended ELSE run.status

EndAfter(kind) == IF kind = "end" THEN counter + 1 ELSE endAt

InsertRow == rows' = rows \cup {counter'}

\* Faulty: the snapshot is saved before the event has been counted in.
SaveSnapshotEarly == saved' = run

\* save_unlocked
SaveSnapshot == saved' = run'

\* RunManager.commit with an event, or RunManager.transition.  A delta is neither
\* a row nor a reason to save the snapshot.
Commit(kind) ==
  /\ Loggable(kind)
  /\ LogInMemory
  /\ run' = [status |-> StatusAfter(kind), seq |-> counter']
  /\ endAt' = EndAfter(kind)
  /\ IF kind = "delta" THEN UNCHANGED database
                       ELSE InsertRow /\ SaveSnapshot
  /\ UNCHANGED <<life, cursor, pending, wire, readers, faults, drops, restarts>>

\* The INSERT raises.  The event stays in the buffer and the mutation in the
\* snapshot, whose latest_event_sequence is not reached.
InsertFails(kind) ==
  /\ Loggable(kind) /\ kind # "delta"
  /\ faults < MaxFaults
  /\ LogInMemory
  /\ run' = [run EXCEPT !.status = StatusAfter(kind)]
  /\ endAt' = EndAfter(kind)
  /\ faults' = faults + 1
  /\ UNCHANGED <<life, database, cursor, pending, wire, readers, drops, restarts>>

\* The INSERT is committed, and saving the snapshot raises.
SaveFails(kind) ==
  /\ Loggable(kind) /\ kind # "delta"
  /\ faults < MaxFaults
  /\ LogInMemory
  /\ run' = [status |-> StatusAfter(kind), seq |-> counter']
  /\ endAt' = EndAfter(kind)
  /\ InsertRow
  /\ faults' = faults + 1
  /\ UNCHANGED <<life, saved, cursor, pending, wire, readers, drops, restarts>>

\* RunManager.commit without an event saves the snapshot as it is.
CommitQuietly ==
  /\ life # "down"
  /\ restarts = 0
  /\ saved # run
  /\ UNCHANGED <<process, rows, streams, readers, history>>
  /\ SaveSnapshot

EventKinds == {"delta", "durable", "end"}

WriterStep ==
  \/ \E kind \in EventKinds : Commit(kind) \/ InsertFails(kind) \/ SaveFails(kind)
  \/ CommitQuietly

--------------------------------------------------------------------------------
(* The process. *)

\* RunManager.shutdown: from here on is_terminal answers yes, and everybody who
\* waits is woken.  The tasks may still commit until their cancellation arrives.
Shutdown ==
  /\ life = "up"
  /\ life' = "closing"
  /\ server' = NotifyAll
  /\ UNCHANGED <<hot, counter, run, database, cursor, pending, wire, readers, history>>

\* The process ends, and only the database is left of it.  What is on the wire may
\* still arrive.
Die ==
  /\ life # "down"
  /\ life' = "down"
  /\ hot' = {} /\ counter' = 0 /\ run' = saved
  /\ server' = [c \in Clients |-> "none"]
  /\ cursor' = [c \in Clients |-> 0]
  /\ pending' = [c \in Clients |-> {}]
  /\ UNCHANGED <<saved, wire, readers, faults, drops, restarts>>

\* At the end of a shutdown or in the middle of anything but a commit.
Crash == Die /\ UNCHANGED <<rows, endAt>>

\* In the middle of a commit: append has committed the row of the event, and
\* save_unlocked has not begun.
CrashInCommit(kind) ==
  /\ Loggable(kind) /\ kind # "delta"
  /\ counter < MaxSequence
  /\ rows' = rows \cup {counter + 1}
  /\ endAt' = EndAfter(kind)
  /\ Die

\* _warm_cache: the newest BufferSize rows
Newest(S) == {s \in S : Cardinality({t \in S : t > s}) < BufferSize}

\* _load_snapshots declares an unfinished run interrupted, without an event, and
\* saves that; _adopt_retained_runs continues the numbering where the snapshot or
\* the rows, whichever is further, left it.
Restart ==
  /\ life = "down"
  /\ restarts < MaxRestarts
  /\ restarts' = restarts + 1
  /\ life' = "up"
  /\ run' = [saved EXCEPT !.status = IF @ = Active THEN Interrupted ELSE @]
  /\ saved' = run'
  /\ hot' = Newest(rows)
  /\ counter' = Max({saved.seq} \cup hot')
  /\ UNCHANGED <<rows, streams, readers, endAt, faults, drops>>

--------------------------------------------------------------------------------
(* A subscription. *)

InBuffer(seq) == hot # {} /\ seq >= Min(hot) - 1

\* Faulty: whatever has left the buffer is forgotten.
ReplayBuffer(seq) == {s \in hot : s > seq}

\* SQLiteEventStore.replay answers from the buffer if that covers the range.
Replay(seq) == {s \in IF InBuffer(seq) THEN hot ELSE rows : s > seq}

\* EventExpiredError
Expired(seq) == ~InBuffer(seq) /\ rows # {} /\ seq < Min(rows) - 1

\* is_terminal of stream_events
StreamMayEnd == life = "closing" \/ Terminal

StreamFrame ==
  /\ life # "down"
  /\ UNCHANGED <<process, database, readers, history>>

\* The top of the loop: replay, and if there is nothing either return or wait.
\* The second replay, under the condition, finds what the first one found.
Arrive(c) ==
  /\ server[c] = "arrive"
  /\ pending' = [pending EXCEPT ![c] = IF Expired(cursor[c]) THEN {} ELSE Replay(cursor[c])]
  /\ server' = [server EXCEPT ![c] =
       IF pending'[c] # {} THEN "yield"
       ELSE IF Expired(cursor[c]) \/ StreamMayEnd THEN "over" ELSE "wait"]
  /\ UNCHANGED <<cursor, wire>>
  /\ StreamFrame

\* One event is handed to the response, which takes it when the wire has room.
Yield(c) ==
  /\ server[c] = "yield"
  /\ Len(wire[c]) < WireSize
  /\ cursor' = [cursor EXCEPT ![c] = Min(pending[c])]
  /\ wire' = [wire EXCEPT ![c] = Append(@, cursor'[c])]
  /\ pending' = [pending EXCEPT ![c] = @ \ {cursor'[c]}]
  /\ server' = [server EXCEPT ![c] = IF pending'[c] = {} THEN "arrive" ELSE "yield"]
  /\ StreamFrame

\* condition.wait() returns.
Resume(c) ==
  /\ server[c] = "woken"
  /\ server' = [server EXCEPT ![c] = "arrive"]
  /\ UNCHANGED <<cursor, pending, wire>>
  /\ StreamFrame

\* The timer of wait_for cancels the wait, and may do so in the same round of the
\* event loop in which the subscription was notified.
Timeout(c) ==
  /\ server[c] \in {"wait", "woken"}
  /\ server' = [server EXCEPT ![c] = "late"]
  /\ UNCHANGED <<cursor, pending, wire>>
  /\ StreamFrame

\* Faulty: the subscription waits again without looking.
HeartbeatThenWait(c) ==
  /\ server[c] = "late"
  /\ server' = [server EXCEPT ![c] = "wait"]
  /\ UNCHANGED <<cursor, pending, wire>>
  /\ StreamFrame

\* Behind a TimeoutError: return, or send a heartbeat, which has no id, and loop.
Heartbeat(c) ==
  /\ server[c] = "late"
  /\ server' = [server EXCEPT ![c] = IF StreamMayEnd THEN "over" ELSE "arrive"]
  /\ UNCHANGED <<cursor, pending, wire>>
  /\ StreamFrame

--------------------------------------------------------------------------------
(* A client. *)

ClientFrame == UNCHANGED <<process, database, endAt, faults, restarts>>

\* The server side of a connection the client has left is cancelled.
Hangup(c) ==
  /\ server' = [server EXCEPT ![c] = "none"]
  /\ cursor' = [cursor EXCEPT ![c] = 0]
  /\ pending' = [pending EXCEPT ![c] = {}]
  /\ wire' = [wire EXCEPT ![c] = <<>>]

\* hydrate, and the end of recovery: start over from the snapshot, with a new
\* EventSource unless the run is over.
StartFromSnapshot(c) ==
  /\ life = "up"
  /\ conn' = [conn EXCEPT ![c] = IF Terminal THEN "closed" ELSE "connecting"]
  /\ errors' = [errors EXCEPT ![c] = 0]
  /\ after' = [after EXCEPT ![c] = run.seq]
  /\ lastId' = [lastId EXCEPT ![c] = run.seq]
  /\ got' = [got EXCEPT ![c] = {}]

\* The user opens the run, or retries the connection.
Hydrate(c) ==
  /\ conn[c] = "off"
  /\ StartFromSnapshot(c)
  /\ UNCHANGED <<streams, drops>>
  /\ ClientFrame

\* getRun answers, or fails and leaves the retry to the user.
Recover(c) ==
  /\ conn[c] = "recovering"
  /\ \/ StartFromSnapshot(c)
     \/ /\ life # "up"
        /\ conn' = [conn EXCEPT ![c] = "off"]
        /\ UNCHANGED <<errors, after, lastId, got>>
  /\ UNCHANGED <<streams, drops>>
  /\ ClientFrame

\* Faulty: Last-Event-ID is ignored.
StartOfUrl(c) == after[c]

\* stream_events starts at the larger of after_sequence and Last-Event-ID.
StartOf(c) == Max({after[c], lastId[c]})

\* onopen
Open(c) ==
  /\ conn[c] = "connecting"
  /\ life = "up"
  /\ ~Expired(StartOf(c))
  /\ conn' = [conn EXCEPT ![c] = "open"]
  /\ errors' = [errors EXCEPT ![c] = 0]
  /\ server' = [server EXCEPT ![c] = "arrive"]
  /\ cursor' = [cursor EXCEPT ![c] = StartOf(c)]
  /\ UNCHANGED <<pending, wire, after, lastId, got, drops>>
  /\ ClientFrame

\* onerror with readyState CONNECTING: the browser reconnects by itself, the third
\* time in a row the hook takes over.
Retry(c) ==
  /\ errors' = [errors EXCEPT ![c] = @ + 1]
  /\ conn' = [conn EXCEPT ![c] =
       IF errors'[c] < MaxNativeRetries THEN "connecting" ELSE "recovering"]
  /\ UNCHANGED <<after, lastId, got>>

\* No answer, or a 410, which closes the EventSource.
OpenFails(c) ==
  /\ conn[c] = "connecting"
  /\ \/ life # "up" /\ Retry(c)
     \/ /\ life = "up" /\ Expired(StartOf(c))
        /\ conn' = [conn EXCEPT ![c] = "recovering"]
        /\ errors' = [errors EXCEPT ![c] = @ + 1]
        /\ UNCHANGED <<after, lastId, got>>
  /\ UNCHANGED <<streams, drops>>
  /\ ClientFrame

\* The response has ended, with the subscription or with the process.
StreamOver(c) ==
  /\ conn[c] = "open"
  /\ server[c] \in {"over", "none"}
  /\ wire[c] = <<>>
  /\ Retry(c)
  /\ Hangup(c)
  /\ UNCHANGED drops
  /\ ClientFrame

\* The connection is lost, and what was on the wire with it.
Drop(c) ==
  /\ conn[c] = "open"
  /\ drops < MaxDrops
  /\ drops' = drops + 1
  /\ Retry(c)
  /\ Hangup(c)
  /\ ClientFrame

\* The listener: a terminal event closes the source for good.
Receive(c) ==
  /\ conn[c] = "open"
  /\ wire[c] # <<>>
  /\ LET s == Head(wire[c])
     IN /\ lastId' = [lastId EXCEPT ![c] = s]
        /\ got' = [got EXCEPT ![c] = @ \cup {s}]
        /\ IF s = endAt
           THEN conn' = [conn EXCEPT ![c] = "closed"] /\ Hangup(c)
           ELSE /\ wire' = [wire EXCEPT ![c] = Tail(@)]
                /\ UNCHANGED <<conn, server, cursor, pending>>
  /\ UNCHANGED <<errors, after, drops>>
  /\ ClientFrame

SubscriptionStep(c) == Arrive(c) \/ Yield(c) \/ Resume(c) \/ Timeout(c) \/ Heartbeat(c)

ClientStep(c) == Recover(c) \/ Open(c) \/ OpenFails(c) \/ StreamOver(c) \/ Receive(c)

Next ==
  \/ WriterStep \/ Shutdown \/ Crash \/ Restart
  \/ \E kind \in EventKinds : CrashInCommit(kind)
  \/ \E c \in Clients :
       SubscriptionStep(c) \/ ClientStep(c) \/ Hydrate(c) \/ Drop(c)

Spec == Init /\ [][Next]_vars

(* The event loop runs what is ready, a heartbeat timer is always set, and the *)
(* browser and the hook answer what they are given.  Nobody has to write, to   *)
(* crash, to restart, to lose a connection or to press a button.               *)
FairSpec ==
  /\ Spec
  /\ \A c \in Clients : WF_vars(SubscriptionStep(c)) /\ WF_vars(ClientStep(c))

--------------------------------------------------------------------------------
(* Properties. *)

\* A client is handed sequence numbers in increasing order and none twice, across
\* reconnects, replays from buffer or database, and a restart: what is on the wire
\* increases, lies behind the last id the EventSource saw, and ends at the cursor.
DeliveredInOrder ==
  \A c \in Clients : conn[c] = "open" =>
    /\ \A i \in 1..Len(wire[c]) : wire[c][i] > (IF i = 1 THEN lastId[c] ELSE wire[c][i - 1])
    /\ \A s \in pending[c] : s > lastId[c] /\ \A i \in 1..Len(wire[c]) : s > wire[c][i]

\* No durable event is skipped: of the rows between the snapshot a client started
\* from and the last event it saw, it has handled every one, however slow it is and
\* wherever its replays were answered from.
NothingSkipped ==
  \A c \in Clients : {s \in rows : after[c] < s /\ s <= lastId[c]} \subseteq got[c]

\* No wake-up is lost: a subscription that waits has been told everything there is,
\* and its run is not over.
NobodySleepsOnNews ==
  \A c \in Clients : server[c] = "wait" => Replay(cursor[c]) = {} /\ ~StreamMayEnd

\* Durable events the stored snapshot does not know of.
Ahead == {s \in rows : s > saved.seq}

\* The two tables agree as far as two transactions can.  Every row ahead of the
\* stored snapshot is owed to a write that has failed or to the one commit a crash
\* has cut in two.  A snapshot is never stored as ended before the terminal event
\* is, unless writes fail; and one that is not stored as ended although the
\* terminal event is lies before that event, so whoever starts from it is still
\* sent the end.
DatabaseIsCoherent ==
  /\ Cardinality(Ahead) <= faults + (IF life = "down" \/ restarts > 0 THEN 1 ELSE 0)
  /\ faults = 0 /\ saved.status = Ended => endAt \in rows
  /\ endAt \in rows /\ saved.status # Ended => saved.seq < endAt

Follows(c) == conn[c] \in {"connecting", "open", "recovering"}

\* Once the terminal event of the run is durable, every client that follows the
\* stream ends up closed, or without a server, in which case its user is told.
EndIsDelivered ==
  \A c \in Clients : endAt \in rows /\ Follows(c) ~> conn[c] \in {"closed", "off"}

\* "After the task has ended the remaining business events may still be read
\* before the subscription ends" (memory-bank/implementation-plan.md:223): a
\* subscription to a run that has ended does not return before it has yielded the
\* terminal event.
StreamEndsWithEnd ==
  \A c \in Clients :
    server[c] = "over" /\ life = "up" /\ run.status = Ended => cursor[c] >= endAt

\* "After a terminal state the connection is closed and not retried"
\* (memory-bank/implementation-plan.md:431): a client that follows a run the
\* restart has declared interrupted ends up closed.
InterruptionIsNoticed ==
  \A c \in Clients :
    life = "up" /\ run.status = Interrupted /\ Follows(c)
      ~> conn[c] \in {"closed", "off"} \/ life # "up"

================================================================================
