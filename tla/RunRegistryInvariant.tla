-------------------------- MODULE RunRegistryInvariant --------------------------
(***************************************************************************)
(* The inductive invariant of RunRegistry: what CapacityIsExact and        *)
(* NothingIsLeftBehind rest on.                                            *)
(***************************************************************************)
EXTENDS RunRegistry

StoredRuns == [id : 1 .. MaxRuns, over : BOOLEAN]

TypeOK ==
  /\ life \in {"up", "closing", "down"} /\ limit \in Limits
  /\ runs \in Seq(StoredRuns) /\ rows \in Seq(StoredRuns)
  /\ cleaner \in BOOLEAN /\ failed \in BOOLEAN
  /\ created \in 0 .. MaxRuns
  /\ answer \in {"none", "created", "error", "RUN_CAPACITY", "STORE_CAPACITY"}
  /\ faults \in 0 .. MaxFaults /\ restarts \in 0 .. MaxRestarts

\* No run is stored twice.
HasNoRepeats(stored) == \A m, n \in DOMAIN stored : stored[m].id = stored[n].id => m = n

RunsAreDistinct == HasNoRepeats(runs) /\ HasNoRepeats(rows)

\* The next run is unknown everywhere.
NextIsNew ==
  Ids(runs) \cup Ids(rows) \cup streams \cup held \cup tasks \cup working \cup aged \cup events
    \subseteq 1 .. created

\* Nothing in memory outlives the process.
NothingOutlivesProcess ==
  life = "down" => runs = <<>> /\ streams = {} /\ held = {} /\ tasks = {} /\ working = {}

\* Whatever writes have failed: an unfinished run has its row.
UnfinishedHasRow == Active(runs) \subseteq Ids(rows)

RegistryInv ==
  /\ TypeOK
  /\ RunsAreDistinct
  /\ NextIsNew
  /\ NothingOutlivesProcess
  /\ UnfinishedHasRow
  /\ CapacityIsExact
  /\ NothingIsLeftBehind

================================================================================
