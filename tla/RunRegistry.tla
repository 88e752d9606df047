------------------------------ MODULE RunRegistry ------------------------------
(***************************************************************************)
(* Which runs there are: RunManager creating, finishing, cancelling and    *)
(* releasing them (backend/run_manager.py), the run store that keeps a     *)
(* bounded number of them in memory and in SQLite and lets the finished    *)
(* ones expire (backend/run_store.py), the rows and the streams the event  *)
(* store keeps for them (backend/event_store.py), through failing writes,  *)
(* shutdowns, crashes and restarts.                                        *)
(*                                                                         *)
(* Granularity.  No lock taken here is ever held over a suspension, so a   *)
(* request and a commit are one step each; the task of a run suspends in   *)
(* its provider calls, and goes on after its run was cancelled or evicted. *)
(* Each write is a transaction of its own, and the process may end between *)
(* two of them.                                                            *)
(* A run is unfinished or over (RunStatus and AgentWorkflow have the rest).*)
(***************************************************************************)
EXTENDS Integers, Sequences, SequencesExt, FiniteSets, Selection

CONSTANTS
  MaxConcurrent,   \* max_concurrent_runs
  Limits,          \* what max_retained_runs may be set to when the server starts
  MaxRuns,         \* bound: runs ever created
  MaxFaults,       \* bound: failing writes
  MaxRestarts      \* bound: restarts of the server

ASSUME RegistryAssumption ==
  /\ MaxConcurrent \in Nat \ {0} /\ Limits \subseteq Nat \ {0}
  /\ {MaxRuns, MaxFaults, MaxRestarts} \subseteq Nat

VARIABLES
  (* the process *)
  life,       \* "up", "closing" (RunManager.shutdown) or "down"
  limit,      \* max_retained_runs
  runs,       \* _runs: what is kept, by updated_at
  streams,    \* runs the event store has a buffer, a counter and a condition for
  held,       \* runs the manager has a binding for, and signals and clocks if it created them
  tasks,      \* self.tasks
  working,    \* runs whose coroutine has not ended
  aged,       \* runs that were not updated for run_ttl_seconds
  cleaner,    \* whether _cleanup_loop is running
  (* the database *)
  rows,       \* the table runs, by updated_at
  events,     \* runs with rows in run_events
  (* what happened *)
  created,    \* how many runs were ever stored
  answer,     \* to the last POST /api/runs
  failed,     \* whether a write failed since the process started
  faults, restarts

process == <<life, limit, runs, streams, held, tasks, working, aged, cleaner>>
database == <<rows, events>>
history == <<created, answer, failed, faults, restarts>>
vars == <<process, database, history>>

Ids(stored) == {stored[n].id : n \in DOMAIN stored}
Active(stored) == {run.id : run \in {run \in Range(stored) : ~run.over}}

Without(stored, ids) == Selected(stored, {n \in DOMAIN stored : stored[n].id \notin ids})

\* Written now: updated_at is the latest there is.
Touched(stored, id, over) == Append(Without(stored, {id}), [id |-> id, over |-> over])

IsOver(id) == id \in Ids(runs) \ Active(runs)

Init ==
  /\ life = "up" /\ limit \in Limits /\ runs = <<>>
  /\ streams = {} /\ held = {} /\ tasks = {} /\ working = {} /\ aged = {}
  /\ cleaner = TRUE
  /\ rows = <<>> /\ events = {}
  /\ created = 0 /\ answer = "none" /\ failed = FALSE /\ faults = 0 /\ restarts = 0

WriteFails ==
  /\ faults < MaxFaults
  /\ faults' = faults + 1
  /\ failed' = TRUE

WritesSucceed == UNCHANGED <<faults, failed>>

--------------------------------------------------------------------------------
(* Removing runs from the store. *)

\* How far the removal of some runs gets once they are out of _runs: their rows are
\* deleted together, then their resources are released one run after another, each
\* with its event rows.  A failing write stops it there.
Removals(gone) ==
  [deleted : {TRUE}, released : {gone}, halfway : {{}}]
    \cup (IF gone = {} THEN {}
          ELSE [deleted : {FALSE}, released : {{}}, halfway : {{}}]
                 \cup UNION {[deleted : {TRUE}, released : SUBSET (gone \ {id}),
                              halfway : {{id}}] : id \in gone})

IsComplete(removal) == removal.deleted /\ removal.halfway = {}

\* _release_run_resources, of every run it reaches.
Release(removal) ==
  /\ streams' = streams \ (removal.released \cup removal.halfway)
  /\ held' = held \ removal.released
  /\ tasks' = tasks \ removal.released
  /\ events' = events \ removal.released

RowsAfter(removal, gone) == IF removal.deleted THEN Without(rows, gone) ELSE rows

\* Faulty: the oldest runs, finished or not.
OldestRuns(stored, needed) == Ids(SubSeq(stored, 1, needed))

Finished(stored) == {n \in DOMAIN stored : stored[n].over}

\* _evictable_run_ids: the oldest of the finished runs.
Evictable(stored, needed) ==
  {stored[n].id :
     n \in {n \in Finished(stored) : Cardinality(Finished(stored) \cap 1 .. n) <= needed}}

\* Faulty: room is made when there is too much, not before.
NoRoomFor(incoming) == Evictable(runs, Len(runs) - limit)

\* make_room
Evicted(incoming) == Evictable(runs, Len(runs) + incoming - limit)

--------------------------------------------------------------------------------
(* Requests. *)

AtCapacity == Cardinality(Active(runs)) >= MaxConcurrent

\* POST /api/runs while max_concurrent_runs runs are unfinished.
CreateRefused ==
  /\ life = "up" /\ AtCapacity
  /\ answer' = "RUN_CAPACITY"
  /\ UNCHANGED <<process, database, created, failed, faults, restarts>>

\* Making room fails halfway: no run is created, and what was removed from memory
\* stays removed.
CreateFailed ==
  /\ life = "up" /\ ~AtCapacity
  /\ LET gone == Evicted(1) IN
     \E removal \in Removals(gone) :
       /\ ~IsComplete(removal)
       /\ WriteFails
       /\ runs' = Without(runs, gone)
       /\ rows' = RowsAfter(removal, gone)
       /\ Release(removal)
  /\ answer' = "error"
  /\ UNCHANGED <<life, limit, working, aged, cleaner, created, restarts>>

\* No finished run can make room: the store is full of unfinished ones.
StoreRefuses ==
  /\ life = "up" /\ ~AtCapacity
  /\ Len(Without(runs, Evicted(1))) >= limit
  /\ Evicted(1) = {}
  /\ answer' = "STORE_CAPACITY"
  /\ UNCHANGED <<process, database, created, failed, faults, restarts>>

\* create_run: room is made, the run is stored, gets its stream and its signals, and
\* start_run starts its task.  If its row cannot be written it is not stored.
CreateRun ==
  /\ life = "up" /\ ~AtCapacity /\ created < MaxRuns
  /\ LET gone == Evicted(1)
         id == created + 1
         kept == Without(runs, gone)
         run == [id |-> id, over |-> FALSE]
     IN /\ Len(kept) < limit
        /\ created' = id
        /\ \/ /\ runs' = Append(kept, run)
              /\ rows' = Append(Without(rows, gone), run)
              /\ streams' = (streams \ gone) \cup {id}
              /\ held' = (held \ gone) \cup {id}
              /\ tasks' = (tasks \ gone) \cup {id}
              /\ working' = working \cup {id}
              /\ events' = events \ gone
              /\ answer' = "created"
              /\ WritesSucceed
           \/ /\ runs' = kept
              /\ rows' = Without(rows, gone)
              /\ Release([deleted |-> TRUE, released |-> gone, halfway |-> {}])
              /\ answer' = "error"
              /\ WriteFails
              /\ UNCHANGED working
        /\ aged' = aged \ gone
  /\ UNCHANGED <<life, limit, cleaner, restarts>>

\* A commit of the run, in memory: the store has it, and it is the last one updated.
Update(id, over) ==
  /\ id \in Ids(runs)
  /\ runs' = Touched(runs, id, over)
  /\ aged' = aged \ {id}
  /\ UNCHANGED <<life, limit, streams, held, cleaner, created, answer, restarts>>

\* Its event and then its snapshot are written.  Either write may fail; what is in
\* memory is changed already.
Write(id, over) ==
  /\ Update(id, over)
  /\ \/ /\ rows' = Touched(rows, id, over)
        /\ events' = events \cup {id}
        /\ WritesSucceed
     \/ /\ WriteFails
        /\ events' \in {events, events \cup {id}}
        /\ UNCHANGED rows

\* cancel_run: the run is over at once, its task not yet.
Cancel(id) ==
  /\ life = "up"
  /\ id \in Active(runs)
  /\ Write(id, TRUE)
  /\ UNCHANGED <<tasks, working>>

--------------------------------------------------------------------------------
(* The task of a run. *)

\* Faulty: the snapshot is written whether the run is still stored or not.
CommitBlindly(id) ==
  /\ life = "up" /\ id \in working
  /\ rows' = Touched(rows, id, IsOver(id))
  /\ runs' = IF id \in Ids(runs) THEN Touched(runs, id, IsOver(id)) ELSE runs
  /\ aged' = aged \ {id}
  /\ events' = events \cup {id}
  /\ UNCHANGED <<life, limit, streams, held, tasks, working, cleaner, history>>

\* It commits something that does not end the run: progress, or late telemetry.
Commit(id) ==
  /\ life = "up" /\ id \in working
  /\ Write(id, IsOver(id))
  /\ UNCHANGED <<tasks, working>>

\* It commits a delta, which only a run that is not over gets: nothing is written.
CommitDelta(id) ==
  /\ life = "up" /\ id \in working \cap Active(runs)
  /\ Update(id, FALSE)
  /\ UNCHANGED <<tasks, working, database, failed, faults>>

\* It ends its run, and then itself.
Finish(id) ==
  /\ life = "up" /\ id \in working \cap Active(runs)
  /\ Write(id, TRUE)
  /\ working' = working \ {id}
  /\ tasks' = tasks \ {id}

\* _run_workflow ends when its run was ended by a request, or it is cancelled by the
\* shutdown.  Without its run it fails before it takes itself off the list.
TaskEnds(id) ==
  /\ id \in working
  /\ id \notin Active(runs) \/ life = "closing"
  /\ working' = working \ {id}
  /\ tasks' = IF id \in Ids(runs) THEN tasks \ {id} ELSE tasks
  /\ UNCHANGED <<life, limit, runs, streams, held, aged, cleaner, database, history>>

--------------------------------------------------------------------------------
(* Time and the process. *)

\* Time passes: the runs not updated for longest are the first to age.
Age ==
  /\ life = "up"
  /\ \E n \in DOMAIN runs :
       /\ runs[n].id \notin aged
       /\ aged' = aged \cup Ids(SubSeq(runs, 1, n))
  /\ UNCHANGED <<life, limit, runs, streams, held, tasks, working, cleaner, database, history>>

\* Faulty: one that another run has outlived.
ExpiredButNewest == IF runs = <<>> THEN {} ELSE (aged \ Active(runs)) \ {Last(runs).id}

Expired == aged \ Active(runs)

\* cleanup_once.  An exception ends _cleanup_loop, and nothing starts it again.
Cleanup ==
  /\ life = "up" /\ cleaner
  /\ Expired # {}
  /\ \E removal \in Removals(Expired) :
       /\ IF IsComplete(removal) THEN WritesSucceed ELSE WriteFails
       /\ runs' = Without(runs, Expired)
       /\ rows' = RowsAfter(removal, Expired)
       /\ Release(removal)
       /\ cleaner' = IsComplete(removal)
  /\ aged' = aged \ Expired
  /\ UNCHANGED <<life, limit, working, created, answer, restarts>>

\* shutdown: no more runs, no more cleaning, and every task on the list is cancelled.
Shutdown ==
  /\ life = "up"
  /\ life' = "closing"
  /\ cleaner' = FALSE
  /\ UNCHANGED <<limit, runs, streams, held, tasks, working, aged, database, history>>

\* The process is gone, and what was in memory with it.
Gone ==
  /\ life' = "down"
  /\ runs' = <<>> /\ streams' = {} /\ held' = {} /\ tasks' = {} /\ working' = {}
  /\ aged' = {} /\ cleaner' = FALSE
  /\ UNCHANGED <<limit, history>>

\* The end of shutdown, once the tasks it cancelled have ended.
Close == life = "closing" /\ tasks \cap working = {} /\ Gone /\ UNCHANGED database

Crash == life # "down" /\ Gone /\ UNCHANGED database

\* It ends in the middle of a commit: the event is written, the snapshot is not.
CrashInCommit ==
  /\ life = "up" /\ Gone
  /\ \E id \in Ids(runs) : events' = events \cup {id}
  /\ UNCHANGED rows

\* It ends in the middle of a removal, by a cleanup or to make room.
CrashInRemoval ==
  /\ life = "up" /\ Gone
  /\ \E gone \in {Evicted(1), Expired} : \E removal \in Removals(gone) :
       /\ rows' = RowsAfter(removal, gone)
       /\ events' = events \ removal.released

\* _load_snapshots: an unfinished run was interrupted, and is updated now.  Rows are
\* read from the latest to the oldest.
Loaded(stored) ==
  LET unfinished == Selected(stored, DOMAIN stored \ Finished(stored))
  IN  Selected(stored, Finished(stored)) \o
      Reverse([n \in DOMAIN unfinished |-> [id |-> unfinished[n].id, over |-> TRUE]])

\* _adopt_retained_runs drops the events of runs that are not stored any more.
Adopted(ids) == events \cap ids

\* The server starts, and trims what it loads to the limit it is started with.
Restart ==
  /\ life = "down" /\ restarts < MaxRestarts
  /\ life' = "up"
  /\ limit' \in Limits
  /\ LET loaded == Loaded(rows)
         trimmed == Without(loaded, Evictable(loaded, Len(loaded) - limit'))
     IN  /\ runs' = trimmed /\ rows' = trimmed
         /\ streams' = Ids(trimmed)
         /\ events' = Adopted(Ids(trimmed))
  /\ held' = Ids(runs')
  /\ cleaner' = TRUE
  /\ restarts' = restarts + 1
  /\ failed' = FALSE /\ answer' = "none"
  /\ UNCHANGED <<tasks, working, aged, created, faults>>

TaskStep == \E id \in 1 .. MaxRuns : Commit(id) \/ CommitDelta(id) \/ Finish(id) \/ TaskEnds(id)

Next ==
  \/ CreateRefused \/ CreateFailed \/ StoreRefuses \/ CreateRun
  \/ \E id \in 1 .. MaxRuns : Cancel(id)
  \/ TaskStep
  \/ Age \/ Cleanup \/ Shutdown \/ Restart
  \/ Close \/ Crash \/ CrashInCommit \/ CrashInRemoval

Spec == Init /\ [][Next]_vars

\* _cleanup_loop wakes up every cleanup_interval_seconds.
LiveSpec == Spec /\ WF_vars(Cleanup)

--------------------------------------------------------------------------------
(* Properties. *)

\* The store never exceeds its limits, and a request for a run is turned away by the
\* store only where more runs may be active than may be kept: finished runs never
\* stand in the way of a new one.
CapacityIsExact ==
  /\ Cardinality(Active(runs)) <= MaxConcurrent
  /\ Len(runs) <= limit
  /\ answer = "STORE_CAPACITY" => limit < MaxConcurrent

\* As long as no write has failed since the server started, memory and database hold
\* the same runs and agree on which of them are over, though not on which was updated
\* last, a delta being written to neither table; and there are events, streams,
\* signals and listed tasks for these runs only: whatever removed a run, at whatever
\* moment of its task, and whatever had gone wrong before the restart.
NothingIsLeftBehind ==
  life # "down" /\ ~failed =>
    /\ Ids(rows) = Ids(runs) /\ Active(rows) = Active(runs)
    /\ streams = Ids(runs) /\ held = Ids(runs)
    /\ events \subseteq Ids(runs)
    /\ tasks = working \cap Ids(runs)

Stored == IF life = "down" THEN rows ELSE runs

\* An unfinished run that was accepted is never lost, neither to eviction or expiry
\* nor to a crash; and after a restart it is there, as an interrupted one, unless
\* the interrupted runs alone are more than may be kept.
UnfinishedIsKept ==
  [][\A id \in Active(Stored) :
       \/ id \in Ids(Stored')
       \/ life = "down" /\ Cardinality(Active(rows)) > limit']_vars

\* A finished run that is past its time is removed sooner or later, unless its task
\* writes to it once more, the server stops, or a write has failed.
ExpiredGoes ==
  \A id \in 1 .. MaxRuns :
    LET isDue == id \in aged /\ IsOver(id)
    IN  isDue ~> ~isDue \/ life # "up" \/ failed

================================================================================
