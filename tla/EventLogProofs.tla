---------------------------- MODULE EventLogProofs ------------------------------
(***************************************************************************)
(* LogInv is an invariant of EventLog, for every number of clients, every  *)
(* buffer size and every number of faults, lost connections and restarts,  *)
(* and with it everything EventLog says about delivery.                    *)
(***************************************************************************)
EXTENDS EventLogInvariant, NaturalSets

\* No subscription waits after notify_all, and nothing else about it changes.
LEMMA NotifyAllWakes ==
  ASSUME TypeOK
  PROVE  /\ NotifyAll \in [Clients -> Places]
         /\ \A c \in Clients :
              /\ NotifyAll[c] # "wait"
              /\ NotifyAll[c] = "none" <=> server[c] = "none"
              /\ NotifyAll[c] = "yield" <=> server[c] = "yield"
BY DEF TypeOK, Places, NotifyAll

\* The bounds are natural numbers.
LEMMA Bounds ==
  /\ BufferSize \in Nat \ {0}
  /\ MaxSequence \in Nat /\ WireSize \in Nat /\ MaxFaults \in Nat
  /\ MaxDrops \in Nat /\ MaxRestarts \in Nat
BY EventLogAssumption DEF EventLogAssumption

\* EventStore.append: the new event is the greatest, it is in the buffer, and the
\* buffer still is the newest end of the log.
LEMMA BufferAfterLog ==
  ASSUME LogInv, LogInMemory, NEW S, S \in {rows, rows \cup {counter'}}
  PROVE  /\ counter' = counter + 1 /\ counter' \in 1..MaxSequence
         /\ S \cup hot' \subseteq 1..counter'
         /\ \A h \in hot', s \in S : s >= h => s \in hot'
<1> USE DEF LogInv
<1> DEFINE H == hot \cup {counter'}
<1>1. /\ counter \in Nat /\ counter' = counter + 1 /\ counter' \in 1..MaxSequence
      /\ hot' = Fitting(H)
  BY Bounds DEF LogInMemory, TypeOK
<1>2. rows \cup hot \subseteq 1..counter
  BY DEF LogInMemory, CounterIsAhead
<1>3. H \in SUBSET Nat /\ H # {} /\ H \subseteq 1..counter'
  BY <1>1, <1>2
<1>4. Min(H) \in H /\ \A y \in H : Min(H) <= y
  BY <1>3, MinIsLeast
<1>5. counter' \in hot'
  <2>1. CASE hot = {}
    <3>1. Cardinality(H) = 1
      BY <2>1, FS_Singleton
    <3>2. hot' = H
      BY <1>1, <3>1, Bounds DEF Fitting
    <3> QED BY <3>2
  <2>2. CASE hot # {}
    <3>1. PICK h \in hot : h \in H /\ h < counter'
      BY <1>1, <1>2, <2>2
    <3>2. Min(H) # counter'
      BY <1>2, <1>3, <1>4, <3>1
    <3> QED BY <1>1, <3>2 DEF Fitting
  <2> QED BY <2>1, <2>2
<1>6. hot' \in {H, H \ {Min(H)}}
  BY <1>1 DEF Fitting
<1>7. ASSUME NEW h \in hot', NEW s \in S, s >= h
      PROVE  s \in hot'
  <2>1. h \in H /\ h \in Nat /\ s \in Nat
    BY <1>1, <1>2, <1>3, <1>6
  <2>2. CASE s = counter'
    BY <1>5, <2>2
  <2>3. CASE s # counter'
    <3>1. s \in rows /\ s < counter' /\ h # counter'
      BY <1>1, <1>2, <1>7, <2>1, <2>3
    <3>2. s \in H
      BY <1>7, <2>1, <3>1 DEF BufferIsTheNewest
    <3> QED BY <1>3, <1>4, <1>6, <1>7, <2>1, <3>2
  <2> QED BY <2>2, <2>3
<1>8. S \cup hot' \subseteq 1..counter'
  BY <1>1, <1>2, <1>3, <1>6
<1> QED BY <1>1, <1>7, <1>8

\* replay: everything it answers lies behind the cursor, and no row is missing up to
\* the last event it answers, whether it comes from the buffer or from the table.
LEMMA ReplayHasNoGap ==
  ASSUME LogInv, life # "down", NEW seq \in Nat
  PROVE  /\ Replay(seq) \subseteq 1..counter
         /\ \A p \in Replay(seq) : seq < p
         /\ \A p \in Replay(seq), s \in rows : seq < s /\ s <= p => s \in Replay(seq)
<1> USE DEF LogInv
<1>1. rows \cup hot \subseteq 1..counter /\ counter \in Nat
  BY DEF CounterIsAhead, TypeOK
<1>2. Replay(seq) \subseteq 1..counter /\ \A p \in Replay(seq) : seq < p
  BY <1>1 DEF Replay
<1>3. ASSUME InBuffer(seq), NEW s \in rows, seq < s PROVE s \in hot
  <2>1. hot \in SUBSET Nat /\ hot # {} /\ s \in Nat
    BY <1>1, <1>3 DEF InBuffer
  <2>2. Min(hot) \in hot /\ Min(hot) \in Nat
    BY <2>1, MinIsLeast
  <2>3. s >= Min(hot)
    BY <1>3, <2>1, <2>2 DEF InBuffer
  <2> QED BY <2>2, <2>3 DEF BufferIsTheNewest
<1>4. \A p \in Replay(seq), s \in rows : seq < s /\ s <= p => s \in Replay(seq)
  BY <1>3 DEF Replay
<1> QED BY <1>2, <1>4

\* _warm_cache: the rows it takes are the newest, and the last one is among them.
LEMMA NewestIsTheEnd ==
  ASSUME TypeOK
  PROVE  /\ Newest(rows) \subseteq rows
         /\ \A h \in Newest(rows), s \in rows : s >= h => s \in Newest(rows)
         /\ rows # {} => Max(rows) \in Newest(rows)
<1>1. rows \subseteq 1..MaxSequence /\ rows \in SUBSET (0..MaxSequence) /\ MaxSequence \in Nat
  BY Bounds DEF TypeOK
<1>2. IsFiniteSet(rows)
  <2>1. IsFiniteSet(1..MaxSequence)
    BY <1>1, FS_Interval
  <2>2. rows \in SUBSET (1..MaxSequence)
    BY <1>1
  <2> QED BY <2>1, <2>2, FS_Subset
<1> rows \subseteq Int
  BY <1>1
<1> DEFINE After(s) == {t \in rows : t > s}
<1>3. \A s \in rows : IsFiniteSet(After(s)) /\ Cardinality(After(s)) \in Nat
  BY <1>2, FS_Subset, FS_CardinalityType
<1>4. ASSUME NEW h \in Newest(rows), NEW s \in rows, s >= h PROVE s \in Newest(rows)
  <2>1. h \in rows /\ Cardinality(After(h)) < BufferSize
    BY DEF Newest
  <2>2. After(s) \in SUBSET After(h)
    <3>1. \A t \in rows : t > s => t > h
      BY <1>4, <2>1
    <3> QED BY <3>1
  <2>3. Cardinality(After(s)) <= Cardinality(After(h))
    BY <1>3, <2>1, <2>2, FS_Subset
  <2>4. Cardinality(After(s)) < BufferSize
    BY <1>3, <2>1, <2>3, Bounds
  <2> QED BY <2>4 DEF Newest
<1>5. ASSUME rows # {} PROVE Max(rows) \in Newest(rows)
  <2>1. Max(rows) \in rows /\ \A y \in rows : y <= Max(rows)
    BY <1>1, <1>5, MaxIsGreatest
  <2>2. After(Max(rows)) = {}
    <3>1. ASSUME NEW t \in rows PROVE ~(t > Max(rows))
      <4>1. t \in Int /\ Max(rows) \in Int /\ t <= Max(rows)
        BY <2>1
      <4> QED BY <4>1
    <3> QED BY <3>1
  <2>3. Cardinality(After(Max(rows))) = 0
    BY <2>2, FS_EmptySet
  <2> QED BY <2>1, <2>3, Bounds DEF Newest
<1> QED BY <1>4, <1>5 DEF Newest

\* The rows ahead of the snapshot are finitely many, and one more row or a later
\* snapshot changes their number accordingly.
LEMMA AheadCounts ==
  ASSUME TypeOK, NEW T \in SUBSET Int, NEW n \in Int
  PROVE  /\ Cardinality(Ahead) \in Nat
         /\ T \subseteq Ahead => Cardinality(T) \in 0..Cardinality(Ahead)
         /\ T \subseteq Ahead \cup {n} => Cardinality(T) \in 0..(Cardinality(Ahead) + 1)
<1>1. IsFiniteSet(1..MaxSequence) /\ Ahead \in SUBSET (1..MaxSequence)
  <2>1. Ahead \in SUBSET (1..MaxSequence)
    BY DEF TypeOK, Ahead
  <2> QED BY <2>1, Bounds, FS_Interval
<1>2. IsFiniteSet(Ahead) /\ Cardinality(Ahead) \in Nat
  BY <1>1, FS_Subset, FS_CardinalityType
<1>3. ASSUME T \subseteq Ahead PROVE Cardinality(T) \in 0..Cardinality(Ahead)
  <2>1. Cardinality(T) \in Nat /\ Cardinality(T) <= Cardinality(Ahead)
    BY <1>2, <1>3, FS_Subset, FS_CardinalityType
  <2> QED BY <1>2, <2>1
<1>4. ASSUME T \subseteq Ahead \cup {n} PROVE Cardinality(T) \in 0..(Cardinality(Ahead) + 1)
  <2> DEFINE More == Ahead \cup {n}
  <2>1. /\ IsFiniteSet(More)
        /\ Cardinality(More) = IF n \in Ahead THEN Cardinality(Ahead) ELSE Cardinality(Ahead) + 1
    BY <1>2, FS_AddElement
  <2>2. T \in SUBSET More
    BY <1>4
  <2>3. Cardinality(T) \in Nat /\ Cardinality(T) <= Cardinality(More)
    BY <2>1, <2>2, FS_Subset, FS_CardinalityType
  <2> QED BY <1>2, <2>1, <2>3
<1> QED BY <1>2, <1>3, <1>4

--------------------------------------------------------------------------------
(* The start, and the writer. *)

\* A run that has just been created.
LEMMA LogInit == Init => LogInv
<1> SUFFICES ASSUME Init PROVE LogInv
  OBVIOUS
<1> USE Bounds DEF Init
<1>1. TypeOK
  BY DEF TypeOK, Snapshots, Places, Connections, MaxNativeRetries, Active
<1>2. ServersFitConnections /\ CounterIsAhead /\ BufferIsTheNewest
  BY DEF ServersFitConnections, CounterIsAhead, BufferIsTheNewest
<1>3. WireIsOrdered /\ StreamHasNoGap /\ StoreFollows
  BY DEF WireIsOrdered, StreamHasNoGap, StoreFollows, Active, Ended
<1>4. DatabaseIsCoherent /\ NobodySleepsOnNews
  <2>1. Ahead = {}
    BY DEF Ahead
  <2> QED BY <2>1, FS_EmptySet DEF DatabaseIsCoherent, NobodySleepsOnNews, Active, Ended
<1> QED BY <1>1, <1>2, <1>3, <1>4 DEF LogInv

\* An entry of a sequence over a set is one of its elements.
LEMMA Entries ==
  ASSUME NEW S, NEW q \in Seq(S), NEW n \in 1..Len(q)
  PROVE  q[n] \in S
OBVIOUS

\* Until a restart nobody knows of an event the counter has not reached.
LEMMA KnownEvents ==
  ASSUME LogInv, life # "down", restarts = 0
  PROVE  /\ run.seq \in 0..counter /\ endAt \in 0..counter
         /\ \A c \in Clients : /\ lastId[c] \in 0..counter
                               /\ \A n \in 1..Len(wire[c]) : wire[c][n] \in 0..counter
                               /\ pending[c] \subseteq 1..counter
<1> USE DEF LogInv
<1>1. counter \in Nat /\ run.seq \in Nat /\ endAt \in Nat
  BY DEF TypeOK, Snapshots
<1>2. run.seq \in 0..counter /\ endAt \in 0..counter
  BY <1>1 DEF CounterIsAhead
<1>3. ASSUME NEW c \in Clients
      PROVE  /\ lastId[c] \in 0..counter
             /\ \A n \in 1..Len(wire[c]) : wire[c][n] \in 0..counter
             /\ pending[c] \subseteq 1..counter
  <2>1. lastId[c] \in Nat /\ wire[c] \in Seq(1..MaxSequence)
    BY DEF TypeOK
  <2>2. lastId[c] <= counter /\ pending[c] \subseteq 1..counter
    BY DEF CounterIsAhead
  <2>3. ASSUME NEW n \in 1..Len(wire[c]) PROVE wire[c][n] \in 0..counter
    <3>1. wire[c][n] \in 1..MaxSequence
      BY <2>1, Entries
    <3>2. wire[c][n] <= counter
      BY DEF CounterIsAhead
    <3> QED BY <1>1, <3>1, <3>2
  <2> QED BY <1>1, <2>1, <2>2, <2>3
<1> QED BY <1>2, <1>3

\* What the writers have in common: a new event in memory, its row written or not.
LEMMA LogStreams ==
  ASSUME LogInv, LogInMemory, restarts = 0,
         rows' \in {rows, rows \cup {counter'}},
         run'.seq \in {run.seq, counter'}, endAt' \in {endAt, counter'},
         UNCHANGED <<life, cursor, pending, wire, readers, restarts>>
  PROVE  /\ ServersFitConnections' /\ CounterIsAhead' /\ BufferIsTheNewest'
         /\ WireIsOrdered' /\ StreamHasNoGap' /\ NobodySleepsOnNews'
<1> USE DEF LogInv, readers
<1>1. /\ counter' = counter + 1 /\ counter' \in 1..MaxSequence
      /\ rows' \cup hot' \subseteq 1..counter'
      /\ \A h \in hot', s \in rows' : s >= h => s \in hot'
  BY BufferAfterLog
<1>2. /\ life # "down" /\ counter \in Nat
      /\ \A c \in Clients : server'[c] # "wait"
                              /\ (server'[c] = "none" <=> server[c] = "none")
                              /\ (server'[c] = "yield" <=> server[c] = "yield")
  BY SMTT(30), NotifyAllWakes DEF LogInMemory, TypeOK
<1>3. ServersFitConnections'
  <2>1. ServersFitConnections /\ UNCHANGED <<life, cursor, pending, wire, after, lastId, conn, errors>>
    OBVIOUS
  <2>2. \A c \in Clients : WireEnd(c)' = WireEnd(c)
    BY ONLY <2>1 DEF WireEnd
  <2> QED BY ONLY <1>2, <2>1, <2>2 DEF ServersFitConnections
<1>4. CounterIsAhead'
  <2>1. /\ run.seq \in 0..counter /\ endAt \in 0..counter
        /\ \A c \in Clients : /\ lastId[c] \in 0..counter
                              /\ \A n \in 1..Len(wire[c]) : wire[c][n] \in 0..counter
                              /\ pending[c] \subseteq 1..counter
    BY <1>2, KnownEvents
  <2>2. 0..counter \subseteq 0..counter' /\ 1..counter \subseteq 1..counter'
    BY <1>1, <1>2
  <2>3. run'.seq \in 0..counter' /\ endAt' \in 0..counter'
    BY <1>1, <2>1, <2>2
  <2> QED BY <1>1, <2>1, <2>2, <2>3 DEF CounterIsAhead
<1>5. BufferIsTheNewest'
  BY <1>1 DEF BufferIsTheNewest
<1>6. WireIsOrdered'
  BY DEF WireIsOrdered
<1>7. StreamHasNoGap'
  <2>1. ASSUME NEW c \in Clients, NEW s \in rows', s \notin rows
        PROVE  /\ ~(s <= lastId[c])
               /\ \A n \in 1..Len(wire[c]) : ~(s <= wire[c][n])
               /\ \A p \in pending[c] : ~(s <= p)
    <3>1. s = counter + 1
      BY <1>1, <2>1
    <3>2. /\ lastId[c] \in 0..counter
          /\ \A n \in 1..Len(wire[c]) : wire[c][n] \in 0..counter
          /\ pending[c] \subseteq 1..counter
      BY <1>2, KnownEvents
    <3> QED BY <1>2, <3>1, <3>2
  <2> QED BY <2>1 DEF StreamHasNoGap
<1>8. NobodySleepsOnNews'
  BY <1>2 DEF NobodySleepsOnNews
<1> QED BY <1>3, <1>4, <1>5, <1>6, <1>7, <1>8

\* What Commit and the two ways it can fail do.
LEMMA WriteEffect ==
  ASSUME TypeOK, NEW kind \in EventKinds,
         Commit(kind) \/ InsertFails(kind) \/ SaveFails(kind)
  PROVE  /\ LogInMemory /\ Loggable(kind) /\ restarts = 0 /\ life # "down"
         /\ UNCHANGED <<life, cursor, pending, wire, readers, drops, restarts>>
         /\ kind = "delta" => Commit(kind) /\ UNCHANGED database
         /\ run' \in {[run EXCEPT !.status = StatusAfter(kind)],
                      [status |-> StatusAfter(kind), seq |-> counter']}
         /\ endAt' = EndAfter(kind)
         /\ rows' \in {rows, rows \cup {counter'}}
         /\ saved' \in {saved, run'}
         /\ faults' \in {faults, faults + 1}
         /\ faults' = faults + 1 => faults < MaxFaults
         /\ Commit(kind) => /\ faults' = faults
                            /\ run' = [status |-> StatusAfter(kind), seq |-> counter']
                            /\ kind # "delta" => rows' = rows \cup {counter'} /\ saved' = run'
         /\ ~Commit(kind) => faults' = faults + 1 /\ saved' = saved
<1> USE DEF Loggable, InsertRow, SaveSnapshot, database
<1>1. faults \in Nat
  BY Bounds DEF TypeOK
<1>2. LogInMemory => life # "down"
  BY DEF LogInMemory
<1>3. CASE Commit(kind)
  BY <1>1, <1>2, <1>3 DEF Commit
<1>4. CASE InsertFails(kind)
  BY <1>1, <1>2, <1>4 DEF Commit, InsertFails
<1>5. CASE SaveFails(kind)
  BY <1>1, <1>2, <1>5 DEF Commit, SaveFails
<1> QED BY <1>3, <1>4, <1>5

\* Commit and the two ways it can fail.
LEMMA WriteStep ==
  ASSUME LogInv, NEW kind \in EventKinds,
         Commit(kind) \/ InsertFails(kind) \/ SaveFails(kind)
  PROVE  LogInv'
<1> USE DEF LogInv
<1>1. /\ LogInMemory /\ Loggable(kind) /\ restarts = 0 /\ life # "down"
      /\ UNCHANGED <<life, cursor, pending, wire, readers, drops, restarts>>
      /\ kind = "delta" => Commit(kind) /\ UNCHANGED database
      /\ run' \in {[run EXCEPT !.status = StatusAfter(kind)],
                   [status |-> StatusAfter(kind), seq |-> counter']}
      /\ endAt' = EndAfter(kind)
      /\ rows' \in {rows, rows \cup {counter'}}
      /\ saved' \in {saved, run'}
      /\ faults' \in {faults, faults + 1}
      /\ faults' = faults + 1 => faults < MaxFaults
      /\ Commit(kind) => /\ faults' = faults
                         /\ run' = [status |-> StatusAfter(kind), seq |-> counter']
                         /\ kind # "delta" => rows' = rows \cup {counter'} /\ saved' = run'
      /\ ~Commit(kind) => faults' = faults + 1 /\ saved' = saved
  BY WriteEffect
<1>2. /\ counter' = counter + 1 /\ counter' \in 1..MaxSequence
      /\ rows' \cup hot' \subseteq 1..counter'
  BY <1>1, BufferAfterLog
<1>3. /\ counter \in Nat /\ MaxSequence \in Nat /\ faults \in Nat /\ run \in Snapshots
      /\ endAt \in 0..counter /\ endAt # counter'
  BY <1>1, <1>2, Bounds DEF TypeOK, CounterIsAhead
<1>4. run'.seq \in {run.seq, counter'} /\ endAt' \in {endAt, counter'}
  BY <1>1, <1>2, <1>3 DEF EndAfter, Snapshots
<1>5. ServersFitConnections' /\ CounterIsAhead' /\ BufferIsTheNewest' /\ WireIsOrdered'
        /\ StreamHasNoGap' /\ NobodySleepsOnNews'
  BY <1>1, <1>4, LogStreams
<1>6. TypeOK'
  <2>1. run' \in Snapshots /\ saved' \in Snapshots
    BY <1>1, <1>2, <1>3 DEF Snapshots, StatusAfter, Active, Ended, Interrupted, TypeOK
  <2>2. hot' \subseteq 1..MaxSequence /\ rows' \subseteq 1..MaxSequence
          /\ counter' \in 0..MaxSequence /\ endAt' \in 0..MaxSequence
    BY <1>2, <1>3, <1>4 DEF TypeOK
  <2>3. server' \in [Clients -> Places]
    BY <1>1, NotifyAllWakes DEF LogInMemory
  <2>4. faults' \in 0..MaxFaults
    BY <1>1, Bounds DEF TypeOK
  <2> QED BY <1>1, <2>1, <2>2, <2>3, <2>4 DEF TypeOK, readers
<1>7. faults' = 0 => faults = 0 /\ Commit(kind)
  BY <1>1, <1>3
<1>8. saved.seq \in 0..counter /\ saved \in Snapshots
  BY <1>1, <1>3 DEF StoreFollows, CounterIsAhead, TypeOK, Snapshots
<1>9. run'.status = Ended <=> endAt' # 0
  <2>1. run.status = Ended <=> endAt # 0
    BY <1>1 DEF StoreFollows
  <2> QED BY <1>1, <1>2, <1>3, <2>1 DEF StatusAfter, EndAfter, Snapshots
<1>10. StoreFollows'
  <2>1. saved'.seq <= run'.seq
    BY <1>1, <1>2, <1>3, <1>8 DEF StoreFollows, Snapshots
  <2> QED BY <1>1, <1>3, <1>7, <1>9, <2>1 DEF StoreFollows, StatusAfter
<1>11. DatabaseIsCoherent'
  <2>1. Cardinality(Ahead)' \in 0..faults'
    <3>1. Cardinality(Ahead) <= faults
      BY <1>1, <1>3 DEF DatabaseIsCoherent
    <3>2. Ahead' \in SUBSET Int /\ Cardinality(Ahead) \in Nat
      BY <1>2, AheadCounts DEF Ahead
    <3>3. CASE kind = "delta"
      <4>1. Ahead' = Ahead /\ faults' = faults
        BY <1>1, <3>3 DEF Ahead, database
      <4> QED BY <1>3, <3>1, <3>2, <4>1
    <3>4. CASE Commit(kind) /\ kind # "delta"
      <4>1. Ahead' = {}
        BY <1>1, <1>2, <3>4 DEF Ahead
      <4> QED BY <1>1, <1>3, <4>1, FS_EmptySet
    <3>5. CASE ~Commit(kind)
      <4>1. Ahead' \subseteq Ahead \cup {counter'} /\ counter' \in Int
        BY <1>1, <1>2, <3>5 DEF Ahead
      <4>2. Cardinality(Ahead') \in 0..(Cardinality(Ahead) + 1)
        BY <3>2, <4>1, AheadCounts
      <4> QED BY <1>1, <1>3, <3>1, <3>2, <3>5, <4>2
    <3> QED BY <1>1, <3>3, <3>4, <3>5
  <2>2. faults' = 0 /\ saved'.status = Ended => endAt' \in rows'
    <3> SUFFICES ASSUME faults' = 0, saved'.status = Ended PROVE endAt' \in rows'
      OBVIOUS
    <3>1. faults = 0 /\ Commit(kind) /\ saved.status = run.status
      BY <1>7 DEF StoreFollows
    <3>2. CASE kind = "delta"
      BY <1>1, <3>1, <3>2 DEF database, EndAfter, DatabaseIsCoherent
    <3>3. CASE kind # "delta"
      BY <1>1, <1>2, <3>1, <3>3 DEF EndAfter, StatusAfter, DatabaseIsCoherent, LogInMemory
    <3> QED BY <3>2, <3>3
  <2>3. endAt' \in rows' /\ saved'.status # Ended => saved'.seq < endAt'
    <3>1. CASE saved' = run'
      <4>1. endAt' \in rows' => endAt' # 0
        BY <1>2
      <4> QED BY <1>9, <3>1, <4>1
    <3>2. CASE saved' = saved /\ kind = "end"
      BY <1>1, <1>2, <1>3, <1>8, <3>2 DEF EndAfter, LogInMemory
    <3>3. CASE saved' = saved /\ kind # "end"
      BY <1>1, <1>3, <3>3 DEF EndAfter, DatabaseIsCoherent
    <3> QED BY <1>1, <3>1, <3>2, <3>3
  <2>4. restarts' = restarts /\ life' = life /\ faults' \in Nat
    BY <1>1, <1>3
  <2> QED BY <1>1, <2>1, <2>2, <2>3, <2>4 DEF DatabaseIsCoherent
<1> QED BY <1>5, <1>6, <1>10, <1>11

\* Saving the snapshot as it is.
LEMMA QuietStep ==
  ASSUME LogInv, CommitQuietly
  PROVE  LogInv'
<1> USE DEF LogInv, CommitQuietly, SaveSnapshot, process, streams, readers, history
<1>1. TypeOK'
  BY DEF TypeOK
<1>2. /\ ServersFitConnections' /\ CounterIsAhead' /\ BufferIsTheNewest'
      /\ WireIsOrdered' /\ StreamHasNoGap'
  BY DEF ServersFitConnections, WireEnd, CounterIsAhead, BufferIsTheNewest,
         WireIsOrdered, StreamHasNoGap
<1>3. StoreFollows'
  BY DEF StoreFollows, TypeOK, Snapshots
<1>4. DatabaseIsCoherent'
  <2>1. /\ rows \subseteq 1..MaxSequence /\ saved.seq <= run.seq /\ saved' = run /\ rows' = rows
        /\ saved.seq \in Int /\ run.seq \in Int
    BY DEF StoreFollows, TypeOK, Snapshots
  <2>2. Cardinality(Ahead)' \in 0..faults /\ faults \in Nat
    <3>1. Ahead' \subseteq Ahead /\ Ahead' \in SUBSET Int
      <4>1. \A s \in rows : s \in Int /\ (s > run.seq => s > saved.seq)
        BY <2>1, Bounds
      <4> QED BY <2>1, <4>1 DEF Ahead
    <3>2. Cardinality(Ahead) \in Nat /\ Cardinality(Ahead') \in 0..Cardinality(Ahead)
      BY <3>1, AheadCounts
    <3>3. life # "down" /\ restarts = 0 /\ faults \in Nat
      BY DEF TypeOK
    <3> QED BY <3>2, <3>3 DEF DatabaseIsCoherent
  <2>3. endAt \in rows => run.status = Ended
    BY DEF StoreFollows, TypeOK
  <2>4. faults = 0 /\ run.status = Ended => endAt \in rows
    BY DEF StoreFollows, DatabaseIsCoherent
  <2> QED BY <2>2, <2>3, <2>4 DEF DatabaseIsCoherent
<1>5. NobodySleepsOnNews'
  BY DEF NobodySleepsOnNews, Replay, InBuffer, StreamMayEnd, Terminal
<1> QED BY <1>1, <1>2, <1>3, <1>4, <1>5

--------------------------------------------------------------------------------
(* The process. *)

\* An orderly stop of the server keeps the invariant.
LEMMA ShutdownStep ==
  ASSUME LogInv, Shutdown
  PROVE  LogInv'
<1> USE DEF LogInv, Shutdown, readers, database, history
<1>1. /\ NotifyAll \in [Clients -> Places] /\ server' = NotifyAll
      /\ \A c \in Clients : /\ server'[c] # "wait"
                            /\ server'[c] = "none" <=> server[c] = "none"
                            /\ server'[c] = "yield" <=> server[c] = "yield"
  BY NotifyAllWakes
<1>2. TypeOK'
  BY <1>1 DEF TypeOK
<1>3. ServersFitConnections'
  BY <1>1 DEF ServersFitConnections, WireEnd
<1>4. CounterIsAhead' /\ BufferIsTheNewest' /\ WireIsOrdered' /\ StreamHasNoGap'
  BY DEF CounterIsAhead, BufferIsTheNewest, WireIsOrdered, StreamHasNoGap
<1>5. StoreFollows' /\ DatabaseIsCoherent'
  BY DEF StoreFollows, DatabaseIsCoherent, Ahead
<1>6. NobodySleepsOnNews'
  BY <1>1 DEF NobodySleepsOnNews
<1> QED BY <1>2, <1>3, <1>4, <1>5, <1>6

\* What a crash leaves: the database, which may have one row more than before, and
\* the messages that were sent.
LEMMA DieStep ==
  ASSUME LogInv, Die, rows' \subseteq 1..MaxSequence, endAt' \in 0..MaxSequence,
         \A s \in rows' : s \in rows \/ (restarts = 0 /\ s = counter + 1),
         rows \subseteq rows',
         (endAt' = endAt /\ (endAt' \in rows' => endAt' \in rows)) \/ saved.seq < endAt',
         faults = 0 /\ saved.status = Ended => endAt' = endAt
  PROVE  LogInv'
<1> USE DEF LogInv, readers
<1>1. /\ life # "down" /\ life' = "down" /\ hot' = {} /\ counter' = 0 /\ run' = saved
      /\ server' = [c \in Clients |-> "none"] /\ cursor' = [c \in Clients |-> 0]
      /\ pending' = [c \in Clients |-> {}]
      /\ UNCHANGED <<saved, wire, readers, faults, drops, restarts>>
  BY DEF Die
<1>2. TypeOK'
  BY <1>1, Bounds DEF TypeOK, Places
<1>3. ServersFitConnections'
  BY <1>1 DEF ServersFitConnections
<1>4. CounterIsAhead' /\ BufferIsTheNewest' /\ WireIsOrdered'
  BY <1>1 DEF CounterIsAhead, BufferIsTheNewest, WireIsOrdered
<1>5. StreamHasNoGap'
  <2>1. ASSUME NEW c \in Clients, NEW s \in rows', s \notin rows
        PROVE  ~(s <= lastId[c]) /\ \A n \in 1..Len(wire[c]) : ~(s <= wire[c][n])
    <3>1. restarts = 0 /\ s = counter + 1 /\ counter \in Nat
      BY <2>1 DEF TypeOK
    <3>2. lastId[c] \in 0..counter /\ \A n \in 1..Len(wire[c]) : wire[c][n] \in 0..counter
      BY <1>1, <3>1, KnownEvents
    <3> QED BY <3>1, <3>2
  <2> QED BY <1>1, <2>1 DEF StreamHasNoGap
<1>6. StoreFollows'
  BY <1>1 DEF StoreFollows, TypeOK, Snapshots
<1>7. DatabaseIsCoherent'
  <2>1. Cardinality(Ahead)' \in 0..(faults + 1) /\ faults \in Nat
    <3>1. Ahead' \in SUBSET Int /\ Cardinality(Ahead) \in Nat /\ faults \in Nat
      <4>1. Ahead' \in SUBSET Int
        <5>1. \A s \in rows' : s \in Int
          BY Bounds
        <5> QED BY <5>1 DEF Ahead
      <4>2. faults \in Nat
        BY DEF TypeOK
      <4>3. Cardinality(Ahead) \in Nat
        BY <4>1, AheadCounts
      <4> QED BY <4>1, <4>2, <4>3
    <3>2. CASE restarts = 0
      <4>1. Ahead' \subseteq Ahead \cup {counter + 1} /\ counter + 1 \in Int
        <5>1. counter \in Int
          BY DEF TypeOK
        <5>2. saved' = saved /\ \A s \in rows' : s \in rows \/ s = counter + 1
          BY <1>1
        <5>3. Ahead' \subseteq Ahead \cup {counter + 1}
          BY ONLY <5>2 DEF Ahead
        <5> QED BY <5>1, <5>3
      <4>2. Cardinality(Ahead') \in 0..(Cardinality(Ahead) + 1)
        BY <3>1, <4>1, AheadCounts
      <4>3. Cardinality(Ahead) <= faults
        BY <1>1, <3>1, <3>2 DEF DatabaseIsCoherent
      <4> QED BY <3>1, <4>2, <4>3
    <3>3. CASE restarts # 0
      <4>1. Ahead' = Ahead
        BY <1>1, <3>3 DEF Ahead
      <4>2. restarts > 0
        BY <3>3 DEF TypeOK
      <4>3. Cardinality(Ahead) <= faults + 1
        BY <4>2 DEF DatabaseIsCoherent
      <4> QED BY <3>1, <4>1, <4>3
    <3> QED BY <3>1, <3>2, <3>3
  <2>2. faults = 0 /\ saved.status = Ended => endAt' \in rows'
    BY DEF DatabaseIsCoherent
  <2>3. endAt' \in rows' /\ saved.status # Ended => saved.seq < endAt'
    BY DEF DatabaseIsCoherent
  <2> QED BY <1>1, <2>1, <2>2, <2>3 DEF DatabaseIsCoherent
<1>8. NobodySleepsOnNews'
  BY <1>1 DEF NobodySleepsOnNews
<1> QED BY <1>2, <1>3, <1>4, <1>5, <1>6, <1>7, <1>8

\* A crash of the server, in the middle of a commit or elsewhere, keeps the invariant.
LEMMA CrashStep ==
  ASSUME LogInv, Crash \/ \E kind \in EventKinds : CrashInCommit(kind)
  PROVE  LogInv'
<1>1. CASE Crash
  BY <1>1, DieStep DEF Crash, LogInv, TypeOK
<1>2. ASSUME NEW kind \in EventKinds, CrashInCommit(kind) PROVE LogInv'
  <2> USE DEF LogInv
  <2>1. /\ Die /\ life # "down" /\ restarts = 0 /\ counter \in 0..MaxSequence
        /\ counter < MaxSequence /\ MaxSequence \in Nat
        /\ rows' = rows \cup {counter + 1} /\ endAt' = EndAfter(kind) /\ kind # "delta"
    BY <1>2, Bounds DEF CrashInCommit, Loggable, Die, TypeOK
  <2>2. endAt \in 0..counter /\ run.seq \in 0..counter
    BY <2>1, KnownEvents
  <2>3. saved.seq \in 0..counter /\ rows \subseteq 1..MaxSequence
    BY <2>2 DEF StoreFollows, TypeOK, Snapshots
  <2>4. (endAt' = endAt /\ (endAt' \in rows' => endAt' \in rows)) \/ saved.seq < endAt'
    BY <2>1, <2>2, <2>3 DEF EndAfter
  <2>5. faults = 0 /\ saved.status = Ended => endAt' = endAt
    BY <1>2, <2>1 DEF CrashInCommit, Loggable, EndAfter, StoreFollows, Active, Ended
  <2>6. \A s \in rows' : s \in rows \/ (restarts = 0 /\ s = counter + 1)
    BY <2>1
  <2>7. rows' \subseteq 1..MaxSequence /\ rows \subseteq rows' /\ endAt' \in 0..MaxSequence
    BY <2>1, <2>2, <2>3 DEF EndAfter
  <2> QED BY <2>1, <2>4, <2>5, <2>6, <2>7, DieStep
<1> QED BY <1>1, <1>2

\* The numbering continues behind the last row: the last row is among the newest.
LEMMA RestartStep ==
  ASSUME LogInv, Restart
  PROVE  LogInv'
<1> USE DEF LogInv, Restart, readers, streams
<1>1. /\ Newest(rows) \subseteq rows
      /\ \A h \in Newest(rows), s \in rows : s >= h => s \in Newest(rows)
      /\ rows # {} => Max(rows) \in Newest(rows)
  BY NewestIsTheEnd
<1>2. /\ rows \subseteq 1..MaxSequence /\ saved.seq \in 0..MaxSequence
      /\ saved.status \in {Active, Ended, Interrupted} /\ MaxSequence \in Nat
      /\ rows' = rows /\ hot' = Newest(rows)
  BY Bounds DEF TypeOK, Snapshots
<1> DEFINE Known == {saved.seq} \cup Newest(rows)
<1>3. counter' \in Known /\ \A n \in Known : n <= counter'
  <2>1. Known \in SUBSET (0..MaxSequence) /\ Known # {} /\ counter' = Max(Known)
    BY <1>1, <1>2
  <2> HIDE DEF Known
  <2> QED BY <1>2, <2>1, MaxIsGreatest
<1>4. rows \subseteq 1..counter'
  <2>1. ASSUME NEW s \in rows PROVE s \in 1..counter'
    <3>1. rows \in SUBSET (0..MaxSequence) /\ rows # {}
      BY <1>2, <2>1
    <3>2. Max(rows) \in rows /\ s <= Max(rows)
      BY <1>2, <3>1, MaxIsGreatest
    <3>3. Max(rows) <= counter'
      BY <1>1, <1>3, <3>1
    <3>4. s \in Nat /\ s >= 1 /\ Max(rows) \in Nat /\ counter' \in Nat
      BY <1>1, <1>2, <1>3, <3>2
    <3> QED BY <3>2, <3>3, <3>4
  <2> QED BY <2>1
<1>5. run' \in Snapshots /\ run'.seq = saved.seq /\ saved' = run'
        /\ (run'.status = Ended <=> saved.status = Ended)
  BY <1>2 DEF TypeOK, Snapshots, Active, Ended, Interrupted
<1>6. TypeOK'
  <2>1. hot' \subseteq 1..MaxSequence /\ counter' \in 0..MaxSequence
    BY <1>1, <1>2, <1>3
  <2>2. restarts' \in 0..MaxRestarts
    BY Bounds DEF TypeOK
  <2> QED BY <1>5, <2>1, <2>2 DEF TypeOK
<1>7. ServersFitConnections'
  BY DEF ServersFitConnections
<1>8. CounterIsAhead'
  <2>1. restarts' # 0
    BY DEF TypeOK
  <2> QED BY <1>1, <1>2, <1>4, <2>1 DEF CounterIsAhead
<1>9. BufferIsTheNewest' /\ WireIsOrdered' /\ StreamHasNoGap'
  BY <1>1, <1>2 DEF BufferIsTheNewest, WireIsOrdered, StreamHasNoGap
<1>10. StoreFollows' /\ DatabaseIsCoherent'
  <2>1. Ahead' = Ahead
    BY <1>2, <1>5 DEF Ahead
  <2>2. Cardinality(Ahead) <= faults + 1 /\ restarts' > 0
    BY DEF DatabaseIsCoherent, TypeOK
  <2> QED BY <1>5, <2>1, <2>2 DEF StoreFollows, DatabaseIsCoherent, TypeOK, Snapshots
<1>11. NobodySleepsOnNews'
  BY DEF NobodySleepsOnNews, ServersFitConnections
<1> QED BY <1>6, <1>7, <1>8, <1>9, <1>10, <1>11

--------------------------------------------------------------------------------
(* The subscriptions. *)

\* Nobody is served by a process that is down.
LEMMA ServedByProcess ==
  ASSUME LogInv, NEW c \in Clients, server[c] # "none"
  PROVE  /\ life # "down" /\ conn[c] = "open" /\ cursor[c] = WireEnd(c)
         /\ cursor[c] \in Nat /\ wire[c] \in Seq(1..MaxSequence)
         /\ pending[c] \subseteq 1..MaxSequence /\ counter \in 0..MaxSequence
<1> USE DEF LogInv
<1>1. life # "down" /\ conn[c] = "open" /\ cursor[c] = WireEnd(c)
  BY DEF ServersFitConnections
<1>2. cursor[c] \in 0..MaxSequence /\ wire[c] \in Seq(1..MaxSequence)
        /\ counter \in 0..MaxSequence /\ pending[c] \subseteq 1..MaxSequence
  BY DEF TypeOK
<1> QED BY <1>1, <1>2

\* What a subscription replays continues where its wire ends.
LEMMA ArriveStep ==
  ASSUME LogInv, NEW c \in Clients, Arrive(c)
  PROVE  LogInv'
<1> USE DEF LogInv, Arrive, StreamFrame, process, database, readers, history
<1> DEFINE P == pending'[c]
<1>1. /\ life # "down" /\ conn[c] = "open" /\ cursor[c] \in Nat
      /\ counter \in 0..MaxSequence /\ cursor[c] = WireEnd(c)
  BY ServedByProcess
<1>2. /\ Replay(cursor[c]) \subseteq 1..counter
      /\ \A p \in Replay(cursor[c]) : cursor[c] < p
      /\ \A p \in Replay(cursor[c]), s \in rows :
           cursor[c] < s /\ s <= p => s \in Replay(cursor[c])
  BY <1>1, ReplayHasNoGap
<1>3. P = IF Expired(cursor[c]) THEN {} ELSE Replay(cursor[c])
  BY DEF TypeOK
<1>4. /\ P \subseteq 1..counter
      /\ \A p \in P : cursor[c] < p
      /\ \A p \in P, s \in rows : cursor[c] < s /\ s <= p => s \in P
  BY <1>2, <1>3
<1>5. server'[c] = IF P # {} THEN "yield"
                   ELSE IF Expired(cursor[c]) \/ StreamMayEnd THEN "over" ELSE "wait"
  BY DEF TypeOK
<1>6. /\ \A d \in Clients : d # c => server'[d] = server[d] /\ pending'[d] = pending[d]
      /\ \A d \in Clients : cursor'[d] = cursor[d] /\ wire'[d] = wire[d] /\ lastId'[d] = lastId[d]
      /\ rows' = rows /\ hot' = hot /\ life' = life /\ counter' = counter /\ restarts' = restarts
  BY DEF TypeOK
<1>7. TypeOK'
  <2>1. P \subseteq 1..MaxSequence
    BY <1>1, <1>4, Bounds
  <2>2. pending' \in [Clients -> SUBSET (1..MaxSequence)]
    BY <2>1 DEF TypeOK
  <2>3. server' \in [Clients -> Places]
    BY DEF TypeOK, Places
  <2> QED BY <2>2, <2>3 DEF TypeOK
<1> HIDE DEF P
<1>8. ServersFitConnections'
  BY <1>1, <1>5, <1>6 DEF ServersFitConnections, WireEnd, P
<1>9. CounterIsAhead' /\ BufferIsTheNewest'
  BY <1>4, <1>6 DEF CounterIsAhead, BufferIsTheNewest, P
<1>10. WireIsOrdered'
  BY <1>4, <1>6 DEF WireIsOrdered, P
<1>11. StreamHasNoGap'
  BY <1>4, <1>6 DEF StreamHasNoGap, P
<1>12. StoreFollows' /\ DatabaseIsCoherent'
  BY DEF StoreFollows, DatabaseIsCoherent, Ahead
<1>13. NobodySleepsOnNews'
  <2>1. server'[c] = "wait" => Replay(cursor[c]) = {} /\ ~StreamMayEnd
    BY <1>3, <1>5
  <2>2. \A d \in Clients : server'[d] = "wait" => Replay(cursor[d]) = {} /\ ~StreamMayEnd
    BY <1>6, <2>1 DEF NobodySleepsOnNews
  <2> QED BY <2>2 DEF NobodySleepsOnNews, Replay, InBuffer, StreamMayEnd, Terminal
<1> QED BY <1>7, <1>8, <1>9, <1>10, <1>11, <1>12, <1>13

\* The least event that is pending goes on the wire, behind everything that is there.
LEMMA YieldStep ==
  ASSUME LogInv, NEW c \in Clients, Yield(c)
  PROVE  LogInv'
<1> USE DEF LogInv, Yield, StreamFrame, process, database, readers, history
<1> DEFINE s == Min(pending[c])
           w == wire[c]
<1>1. /\ life # "down" /\ conn[c] = "open" /\ cursor[c] = WireEnd(c)
      /\ cursor[c] \in Nat /\ w \in Seq(1..MaxSequence)
      /\ pending[c] \subseteq 1..MaxSequence /\ pending[c] # {}
  BY ServedByProcess DEF ServersFitConnections
<1>2. s \in pending[c] /\ s \in 1..MaxSequence /\ \A p \in pending[c] : s <= p
  <2>1. pending[c] \in SUBSET Nat /\ pending[c] # {} /\ pending[c] \subseteq 1..MaxSequence
    BY <1>1
  <2>2. Min(pending[c]) \in pending[c] /\ \A p \in pending[c] : Min(pending[c]) <= p
    BY ONLY <2>1, MinIsLeast
  <2> QED BY ONLY <2>1, <2>2
<1>3. cursor[c] < s
  BY <1>2 DEF WireIsOrdered
<1>4. /\ cursor'[c] = s /\ wire'[c] = Append(w, s) /\ pending'[c] = pending[c] \ {s}
      /\ server'[c] = IF pending'[c] = {} THEN "arrive" ELSE "yield"
      /\ \A d \in Clients : lastId'[d] = lastId[d]
      /\ \A d \in Clients : d # c => /\ server'[d] = server[d] /\ pending'[d] = pending[d]
                                     /\ cursor'[d] = cursor[d] /\ wire'[d] = wire[d]
      /\ rows' = rows /\ hot' = hot /\ life' = life /\ counter' = counter /\ restarts' = restarts
  BY DEF TypeOK
<1> HIDE DEF s, w
<1>5. /\ Len(wire'[c]) = Len(w) + 1 /\ Len(w) \in Nat /\ wire'[c][Len(w) + 1] = s
      /\ \A n \in 1..Len(w) : wire'[c][n] = w[n]
      /\ \A n \in 1..Len(wire'[c]) : n \in 1..Len(w) \/ n = Len(w) + 1
  <2>1. w \in Seq(1..MaxSequence) /\ s \in 1..MaxSequence /\ wire'[c] = Append(w, s)
    BY <1>1, <1>2, <1>4
  <2> QED BY ONLY <2>1, AppendOne
<1>6. TypeOK'
  <2>1. s \in 1..MaxSequence
    BY <1>2
  <2>2. Append(w, s) \in Seq(1..MaxSequence)
    BY <1>1, <2>1, AppendOne
  <2>3. wire' = [wire EXCEPT ![c] = Append(w, s)] /\ cursor' = [cursor EXCEPT ![c] = s]
    BY <1>4 DEF w, TypeOK
  <2>4. wire' \in [Clients -> Seq(1..MaxSequence)] /\ cursor' \in [Clients -> 0..MaxSequence]
    BY <2>1, <2>2, <2>3 DEF TypeOK
  <2>5. pending' \in [Clients -> SUBSET (1..MaxSequence)] /\ server' \in [Clients -> Places]
    BY DEF TypeOK, Places
  <2> QED BY <2>4, <2>5 DEF TypeOK
<1>7. ServersFitConnections'
  <2>1. WireEnd(c)' = s
    BY <1>4, <1>5 DEF WireEnd
  <2>2. \A d \in Clients : d # c => WireEnd(d)' = WireEnd(d)
    BY <1>4 DEF WireEnd
  <2> QED BY <1>1, <1>4, <2>1, <2>2 DEF ServersFitConnections
<1>8. CounterIsAhead' /\ BufferIsTheNewest'
  <2>1. ASSUME NEW n \in 1..Len(wire'[c])
        PROVE  wire'[c][n] = s \/ (\E m \in 1..Len(w) : wire'[c][n] = w[m])
    BY <1>5
  <2>2. restarts = 0 => s <= counter
    BY <1>1, <1>2 DEF CounterIsAhead
  <2> QED BY <1>4, <2>1, <2>2 DEF CounterIsAhead, BufferIsTheNewest, w
<1>9. WireIsOrdered'
  <2>1. lastId[c] \in Nat /\ \A n \in 1..Len(w) : w[n] \in Nat
    <3>1. \A n \in 1..Len(w) : w[n] \in 1..MaxSequence
      BY <1>1, Entries
    <3>2. lastId[c] \in Nat
      BY DEF TypeOK
    <3> QED BY ONLY <3>1, <3>2
  <2>2. lastId[c] <= cursor[c]
    BY <1>1, <2>1 DEF WireIsOrdered, WireEnd, w
  <2>3. \A n \in 1..Len(w) : w[n] <= cursor[c]
    BY SMTT(30), <1>1, <2>1 DEF WireIsOrdered, WireEnd, w
  <2>4. \A n \in 1..Len(wire'[c]) : lastId[c] < wire'[c][n]
    <3>1. \A n \in 1..Len(w) : lastId[c] < w[n]
      BY DEF WireIsOrdered, w
    <3>2. lastId[c] < s
      BY <1>1, <1>2, <1>3, <2>1, <2>2
    <3> QED BY <1>5, <3>1, <3>2
  <2>5. \A m, n \in 1..Len(wire'[c]) : m < n => wire'[c][m] < wire'[c][n]
    BY <1>1, <1>2, <1>3, <1>5, <2>1, <2>3 DEF WireIsOrdered, w
  <2>6. \A p \in pending'[c] : cursor'[c] < p
    BY <1>1, <1>2, <1>4
  <2> QED BY <1>4, <2>4, <2>5, <2>6 DEF WireIsOrdered
<1>10. StreamHasNoGap'
  <2>1. ASSUME NEW r \in rows, lastId[c] < r, r <= s
        PROVE  \E j \in 1..Len(wire'[c]) : wire'[c][j] = r
    <3>1. r \in Nat /\ s \in Nat
      BY <1>2, <2>1 DEF TypeOK
    <3>2. CASE r <= cursor[c]
      <4>1. w # <<>> /\ cursor[c] = w[Len(w)] /\ Len(w) \in 1..Len(w)
        BY <1>1, <2>1, <3>1, <3>2 DEF WireEnd, w, TypeOK
      <4>2. \E j \in 1..Len(w) : w[j] = r
        BY <2>1, <3>2, <4>1 DEF StreamHasNoGap, w
      <4>3. 1..Len(w) \subseteq 1..Len(wire'[c])
        BY <1>5
      <4>4. PICK j \in 1..Len(w) : w[j] = r
        BY <4>2
      <4> QED BY <1>5, <4>3, <4>4
    <3>3. CASE cursor[c] < r
      <4>1. r \in pending[c]
        BY <1>2, <2>1, <3>3 DEF StreamHasNoGap
      <4>2. r = s
        BY <1>2, <2>1, <3>1, <4>1
      <4>3. Len(w) + 1 \in 1..Len(wire'[c])
        BY <1>5
      <4> QED BY <1>5, <4>2, <4>3
    <3>4. cursor[c] \in Nat
      BY <1>1
    <3>5. r <= cursor[c] \/ cursor[c] < r
      BY <3>1, <3>4
    <3> QED BY <3>2, <3>3, <3>5
  <2>2. ASSUME NEW r \in rows, NEW n \in 1..Len(wire'[c]), lastId[c] < r, r <= wire'[c][n]
        PROVE  \E j \in 1..n : wire'[c][j] = r
    <3>1. CASE n \in 1..Len(w)
      <4>1. \E j \in 1..n : w[j] = r
        BY <1>5, <2>2, <3>1 DEF StreamHasNoGap, w
      <4> QED BY <1>5, <3>1, <4>1
    <3>2. CASE n = Len(w) + 1
      BY <1>5, <2>1, <2>2, <3>2
    <3> QED BY <1>5, <3>1, <3>2
  <2>3. ASSUME NEW r \in rows, NEW p \in pending'[c], s < r, r <= p
        PROVE  r \in pending'[c]
    <3>1. r \in Nat /\ s \in Nat
      BY <1>2, <2>3 DEF TypeOK
    <3>2. r \in pending[c]
      BY <1>1, <1>3, <1>4, <2>3, <3>1 DEF StreamHasNoGap
    <3> QED BY <1>4, <2>3, <3>1, <3>2
  <2> QED BY <1>4, <2>2, <2>3 DEF StreamHasNoGap
<1>11. StoreFollows' /\ DatabaseIsCoherent'
  BY DEF StoreFollows, DatabaseIsCoherent, Ahead
<1>12. NobodySleepsOnNews'
  <2>1. \A d \in Clients : server'[d] = "wait" => Replay(cursor'[d]) = {} /\ ~StreamMayEnd
    BY <1>4 DEF NobodySleepsOnNews
  <2> QED BY <2>1 DEF NobodySleepsOnNews, Replay, InBuffer, StreamMayEnd, Terminal
<1> QED BY <1>6, <1>7, <1>8, <1>9, <1>10, <1>11, <1>12

\* A subscription that waits is told, or times out, and then looks again or returns.
LEMMA WakeStep ==
  ASSUME LogInv, NEW c \in Clients, Resume(c) \/ Timeout(c) \/ Heartbeat(c)
  PROVE  LogInv'
<1> USE DEF LogInv, StreamFrame, process, database, readers, history
<1>1. /\ server[c] \in {"wait", "woken", "late"}
      /\ server'[c] \in {"arrive", "late", "over"}
      /\ server' \in [Clients -> Places]
      /\ \A d \in Clients : d # c => server'[d] = server[d]
      /\ UNCHANGED <<cursor, pending, wire>> /\ StreamFrame
  BY DEF Resume, Timeout, Heartbeat, TypeOK, Places
<1>2. TypeOK'
  BY <1>1 DEF TypeOK
<1>3. ServersFitConnections'
  <2>1. \A d \in Clients : /\ server'[d] = "none" <=> server[d] = "none"
                           /\ server'[d] = "yield" <=> server[d] = "yield"
    BY <1>1
  <2> QED BY <1>1, <2>1 DEF ServersFitConnections, WireEnd
<1>4. CounterIsAhead' /\ BufferIsTheNewest' /\ WireIsOrdered' /\ StreamHasNoGap'
  BY <1>1 DEF CounterIsAhead, BufferIsTheNewest, WireIsOrdered, StreamHasNoGap
<1>5. StoreFollows' /\ DatabaseIsCoherent'
  BY <1>1 DEF StoreFollows, DatabaseIsCoherent, Ahead
<1>6. NobodySleepsOnNews'
  <2>1. \A d \in Clients : server'[d] = "wait" => Replay(cursor'[d]) = {} /\ ~StreamMayEnd
    BY <1>1 DEF NobodySleepsOnNews
  <2> QED BY <1>1, <2>1 DEF NobodySleepsOnNews, Replay, InBuffer, StreamMayEnd, Terminal
<1> QED BY <1>2, <1>3, <1>4, <1>5, <1>6

--------------------------------------------------------------------------------
(* The clients. *)

\* A client without a connection has no server, nothing on its wire and nothing
\* pending.
LEMMA NotConnected ==
  ASSUME LogInv, NEW c \in Clients, conn[c] # "open"
  PROVE  server[c] = "none" /\ wire[c] = <<>> /\ pending[c] = {}
BY DEF LogInv, ServersFitConnections

\* Clients leave the process and the database alone.
LEMMA ClientsOnlyRead ==
  ASSUME LogInv, ClientFrame
  PROVE  BufferIsTheNewest' /\ StoreFollows' /\ DatabaseIsCoherent'
BY DEF LogInv, ClientFrame, process, database, BufferIsTheNewest, StoreFollows,
       DatabaseIsCoherent, Ahead

\* A client that starts over has nothing to have missed.
LEMMA StartStep ==
  ASSUME LogInv, NEW c \in Clients, conn[c] # "open", StartFromSnapshot(c),
         UNCHANGED <<streams, drops>>, ClientFrame
  PROVE  LogInv'
<1> USE DEF LogInv, StartFromSnapshot, ClientFrame, process, database, streams
<1>1. server[c] = "none" /\ wire[c] = <<>> /\ pending[c] = {}
  BY NotConnected
<1>2. /\ run.seq \in 0..MaxSequence /\ MaxSequence \in Nat
      /\ conn'[c] \in {"connecting", "closed"} /\ errors'[c] = 0
      /\ after'[c] = run.seq /\ lastId'[c] = run.seq /\ got'[c] = {}
      /\ \A d \in Clients : d # c => /\ conn'[d] = conn[d] /\ errors'[d] = errors[d]
                                     /\ after'[d] = after[d] /\ lastId'[d] = lastId[d]
                                     /\ got'[d] = got[d]
  BY Bounds DEF TypeOK, Snapshots
<1>3. TypeOK'
  BY <1>2 DEF TypeOK, Connections, MaxNativeRetries
<1>4. ServersFitConnections'
  BY <1>1, <1>2 DEF ServersFitConnections, WireEnd, MaxNativeRetries
<1>5. CounterIsAhead'
  BY <1>1, <1>2 DEF CounterIsAhead
<1>6. WireIsOrdered'
  BY <1>1, <1>2 DEF WireIsOrdered
<1>7. StreamHasNoGap'
  <2>1. \A s \in rows : ~(run.seq < s /\ s <= run.seq)
    BY <1>2 DEF TypeOK
  <2> QED BY <1>1, <1>2, <2>1 DEF StreamHasNoGap
<1>8. NobodySleepsOnNews'
  BY DEF NobodySleepsOnNews, Replay, InBuffer, StreamMayEnd, Terminal
<1> QED BY <1>3, <1>4, <1>5, <1>6, <1>7, <1>8, ClientsOnlyRead

\* getRun fails.
LEMMA GiveUpStep ==
  ASSUME LogInv, NEW c \in Clients, conn[c] # "open", conn' = [conn EXCEPT ![c] = "off"],
         UNCHANGED <<errors, after, lastId, got, streams, drops>>, ClientFrame
  PROVE  LogInv'
<1> USE DEF LogInv, ClientFrame, process, database, streams
<1>1. TypeOK'
  BY DEF TypeOK, Connections
<1>2. ServersFitConnections'
  BY DEF ServersFitConnections, WireEnd, TypeOK
<1>3. CounterIsAhead' /\ WireIsOrdered' /\ StreamHasNoGap'
  BY DEF CounterIsAhead, WireIsOrdered, StreamHasNoGap
<1>4. NobodySleepsOnNews'
  BY DEF NobodySleepsOnNews, Replay, InBuffer, StreamMayEnd, Terminal
<1> QED BY <1>1, <1>2, <1>3, <1>4, ClientsOnlyRead

\* The subscription starts behind the last event the client has seen.
LEMMA StartIsLastId ==
  ASSUME LogInv, NEW c \in Clients
  PROVE  StartOf(c) = lastId[c] /\ lastId[c] \in 0..MaxSequence
<1>1. after[c] \in 0..MaxSequence /\ lastId[c] \in 0..MaxSequence /\ after[c] <= lastId[c]
  BY DEF LogInv, TypeOK, ServersFitConnections
<1> DEFINE S == {after[c], lastId[c]}
<1>2. S \in SUBSET (0..MaxSequence) /\ S # {}
  BY <1>1
<1>3. Max(S) \in S /\ \A y \in S : y <= Max(S)
  BY <1>2, Bounds, MaxIsGreatest
<1>4. lastId[c] <= Max(S) /\ Max(S) \in {after[c], lastId[c]}
  BY <1>3
<1> HIDE DEF S
<1>5. Max(S) = lastId[c]
  BY <1>1, <1>4
<1> QED BY <1>1, <1>5 DEF StartOf, S

\* onopen
LEMMA OpenStep ==
  ASSUME LogInv, NEW c \in Clients, Open(c)
  PROVE  LogInv'
<1> USE DEF LogInv, Open, ClientFrame, process, database
<1>1. server[c] = "none" /\ wire[c] = <<>> /\ pending[c] = {} /\ life # "down"
  BY NotConnected
<1>2. StartOf(c) = lastId[c] /\ lastId[c] \in 0..MaxSequence
  BY StartIsLastId
<1>3. /\ conn'[c] = "open" /\ errors'[c] = 0 /\ server'[c] = "arrive"
      /\ cursor'[c] = lastId[c]
      /\ \A d \in Clients : d # c => /\ conn'[d] = conn[d] /\ errors'[d] = errors[d]
                                     /\ server'[d] = server[d] /\ cursor'[d] = cursor[d]
  BY <1>2 DEF TypeOK
<1>4. TypeOK'
  BY <1>2 DEF TypeOK, Connections, Places, MaxNativeRetries
<1>5. ServersFitConnections'
  BY <1>1, <1>3 DEF ServersFitConnections, WireEnd, MaxNativeRetries
<1>6. CounterIsAhead'
  BY DEF CounterIsAhead
<1>7. WireIsOrdered' /\ StreamHasNoGap'
  BY <1>1, <1>3 DEF WireIsOrdered, StreamHasNoGap
<1>8. NobodySleepsOnNews'
  <2>1. \A d \in Clients : server'[d] = "wait" => Replay(cursor'[d]) = {} /\ ~StreamMayEnd
    BY <1>3 DEF NobodySleepsOnNews
  <2> QED BY <2>1 DEF NobodySleepsOnNews, Replay, InBuffer, StreamMayEnd, Terminal
<1> QED BY <1>4, <1>5, <1>6, <1>7, <1>8, ClientsOnlyRead

\* onerror counts, and never past the retries it allows.
LEMMA RetryCounts ==
  ASSUME LogInv, NEW c \in Clients, conn[c] \in {"connecting", "open"}, Retry(c)
  PROVE  /\ conn' \in [Clients -> Connections] /\ errors' \in [Clients -> 0..MaxNativeRetries]
         /\ conn'[c] \in {"connecting", "recovering"}
         /\ conn'[c] = "connecting" => errors'[c] < MaxNativeRetries
         /\ \A d \in Clients : d # c => conn'[d] = conn[d] /\ errors'[d] = errors[d]
         /\ UNCHANGED <<after, lastId, got>>
<1>1. errors[c] \in 0..MaxNativeRetries /\ errors[c] < MaxNativeRetries
  BY DEF LogInv, TypeOK, ServersFitConnections
<1>2. /\ conn \in [Clients -> Connections] /\ errors \in [Clients -> 0..MaxNativeRetries]
      /\ errors'[c] = errors[c] + 1
      /\ errors' = [errors EXCEPT ![c] = errors[c] + 1]
      /\ conn' = [conn EXCEPT ![c] = IF errors'[c] < MaxNativeRetries THEN "connecting"
                                                                     ELSE "recovering"]
      /\ UNCHANGED <<after, lastId, got>>
  BY DEF LogInv, TypeOK, Retry
<1> QED BY <1>1, <1>2 DEF Connections, MaxNativeRetries

\* No answer, or 410.
LEMMA OpenFailsStep ==
  ASSUME LogInv, NEW c \in Clients, OpenFails(c)
  PROVE  LogInv'
<1> USE DEF LogInv, ClientFrame, process, database, streams
<1>1. /\ conn[c] = "connecting" /\ ClientFrame /\ UNCHANGED <<streams, drops>>
      /\ UNCHANGED <<after, lastId, got>>
  BY DEF OpenFails, Retry
<1>2. /\ conn' \in [Clients -> Connections] /\ errors' \in [Clients -> 0..MaxNativeRetries]
      /\ conn'[c] \in {"connecting", "recovering"}
      /\ conn'[c] = "connecting" => errors'[c] < MaxNativeRetries
      /\ \A d \in Clients : d # c => conn'[d] = conn[d] /\ errors'[d] = errors[d]
  <2>1. CASE Retry(c)
    BY <1>1, <2>1, RetryCounts
  <2>2. CASE /\ conn' = [conn EXCEPT ![c] = "recovering"]
             /\ errors' = [errors EXCEPT ![c] = @ + 1]
    <3>1. errors[c] \in 0..MaxNativeRetries /\ errors[c] < MaxNativeRetries
      BY <1>1 DEF TypeOK, ServersFitConnections
    <3> QED BY <2>2, <3>1 DEF TypeOK, Connections, MaxNativeRetries
  <2> QED BY <2>1, <2>2 DEF OpenFails
<1>3. server[c] = "none" /\ wire[c] = <<>> /\ pending[c] = {}
  BY <1>1, NotConnected
<1>4. TypeOK'
  BY <1>1, <1>2 DEF TypeOK
<1>5. ServersFitConnections'
  BY <1>1, <1>2, <1>3 DEF ServersFitConnections, WireEnd
<1>6. CounterIsAhead' /\ WireIsOrdered' /\ StreamHasNoGap'
  BY <1>1 DEF CounterIsAhead, WireIsOrdered, StreamHasNoGap
<1>7. NobodySleepsOnNews'
  BY <1>1 DEF NobodySleepsOnNews, Replay, InBuffer, StreamMayEnd, Terminal
<1> QED BY <1>1, <1>4, <1>5, <1>6, <1>7, ClientsOnlyRead

\* What is left of a connection: nothing.
LEMMA HangupClears ==
  ASSUME LogInv, NEW c \in Clients, Hangup(c)
  PROVE  /\ server'[c] = "none" /\ pending'[c] = {} /\ wire'[c] = <<>>
         /\ server' \in [Clients -> Places] /\ cursor' \in [Clients -> 0..MaxSequence]
         /\ pending' \in [Clients -> SUBSET (1..MaxSequence)]
         /\ wire' \in [Clients -> Seq(1..MaxSequence)]
         /\ \A d \in Clients : d # c => /\ server'[d] = server[d] /\ pending'[d] = pending[d]
                                        /\ cursor'[d] = cursor[d] /\ wire'[d] = wire[d]
<1>1. 0 \in 0..MaxSequence /\ <<>> \in Seq(1..MaxSequence) /\ "none" \in Places
  BY Bounds DEF Places
<1> QED BY <1>1 DEF LogInv, TypeOK, Hangup

\* The response ends or is lost.
LEMMA LostStep ==
  ASSUME LogInv, NEW c \in Clients, StreamOver(c) \/ Drop(c)
  PROVE  LogInv'
<1> USE DEF LogInv, ClientFrame, process, database
<1>1. /\ conn[c] = "open" /\ Retry(c) /\ Hangup(c) /\ ClientFrame
      /\ drops' \in 0..MaxDrops
  BY Bounds DEF StreamOver, Drop, TypeOK
<1>2. /\ conn' \in [Clients -> Connections] /\ errors' \in [Clients -> 0..MaxNativeRetries]
      /\ conn'[c] \in {"connecting", "recovering"}
      /\ conn'[c] = "connecting" => errors'[c] < MaxNativeRetries
      /\ \A d \in Clients : d # c => conn'[d] = conn[d] /\ errors'[d] = errors[d]
      /\ UNCHANGED <<after, lastId, got>>
  BY <1>1, RetryCounts
<1>3. /\ server'[c] = "none" /\ pending'[c] = {} /\ wire'[c] = <<>>
      /\ \A d \in Clients : d # c => /\ server'[d] = server[d] /\ pending'[d] = pending[d]
                                     /\ cursor'[d] = cursor[d] /\ wire'[d] = wire[d]
  BY <1>1, HangupClears
<1>4. TypeOK'
  BY <1>1, <1>2, HangupClears DEF TypeOK
<1>5. ServersFitConnections'
  BY <1>1, <1>2, <1>3 DEF ServersFitConnections, WireEnd
<1>6. CounterIsAhead'
  BY <1>1, <1>2, <1>3 DEF CounterIsAhead
<1>7. WireIsOrdered'
  BY <1>1, <1>2, <1>3 DEF WireIsOrdered
<1>8. StreamHasNoGap'
  <2>1. rows' = rows /\ lastId' = lastId /\ got' = got /\ after' = after
    BY <1>1, <1>2
  <2> QED BY <1>3, <2>1 DEF StreamHasNoGap
<1>9. NobodySleepsOnNews'
  <2>1. \A d \in Clients : server'[d] = "wait" => Replay(cursor'[d]) = {} /\ ~StreamMayEnd
    BY <1>3 DEF NobodySleepsOnNews
  <2> QED BY <1>1, <2>1 DEF NobodySleepsOnNews, Replay, InBuffer, StreamMayEnd, Terminal
<1> QED BY <1>1, <1>4, <1>5, <1>6, <1>7, <1>8, <1>9, ClientsOnlyRead

\* The entries behind the first.
LEMMA TailOfWire ==
  ASSUME NEW S, NEW q \in Seq(S), q # <<>>
  PROVE  /\ Head(q) = q[1] /\ Head(q) \in S /\ Tail(q) \in Seq(S)
         /\ Len(q) \in Nat /\ Len(q) >= 1 /\ Len(Tail(q)) = Len(q) - 1
         /\ \A n \in 1..Len(Tail(q)) : n + 1 \in 1..Len(q) /\ Tail(q)[n] = q[n + 1]
OBVIOUS

\* The listener moves the first event of the wire to what has been handled.
LEMMA ReceiveStep ==
  ASSUME LogInv, NEW c \in Clients, Receive(c)
  PROVE  LogInv'
<1> USE DEF LogInv, ClientFrame, process, database
<1> DEFINE s == Head(wire[c])
           w == wire[c]
<1>1. /\ conn[c] = "open" /\ w # <<>> /\ ClientFrame /\ UNCHANGED <<errors, after, drops>>
      /\ w \in Seq(1..MaxSequence)
      /\ lastId' = [lastId EXCEPT ![c] = s] /\ got' = [got EXCEPT ![c] = @ \cup {s}]
  BY DEF Receive, TypeOK
<1>2. /\ s = w[1] /\ s \in 1..MaxSequence /\ Tail(w) \in Seq(1..MaxSequence)
      /\ Len(w) \in Nat /\ Len(w) >= 1 /\ Len(Tail(w)) = Len(w) - 1
      /\ \A n \in 1..Len(Tail(w)) : n + 1 \in 1..Len(w) /\ Tail(w)[n] = w[n + 1]
  BY <1>1, TailOfWire
<1>3. /\ lastId[c] \in 0..MaxSequence /\ lastId[c] < s /\ after[c] <= lastId[c]
      /\ after[c] \in 0..MaxSequence
      /\ cursor[c] \in 0..MaxSequence /\ pending[c] \subseteq 1..MaxSequence
      /\ \A n \in 1..Len(w) : w[n] \in 1..MaxSequence
  <2>1. 1 \in 1..Len(w)
    BY <1>2
  <2>2. lastId[c] < s /\ after[c] <= lastId[c]
    BY <1>2, <2>1 DEF WireIsOrdered, ServersFitConnections
  <2>3. \A n \in 1..Len(w) : w[n] \in 1..MaxSequence
    BY <1>1, Entries
  <2> QED BY <2>2, <2>3 DEF TypeOK
<1>4. /\ lastId'[c] = s /\ got'[c] = got[c] \cup {s}
      /\ \A d \in Clients : d # c => lastId'[d] = lastId[d] /\ got'[d] = got[d]
  BY <1>1 DEF TypeOK
<1>5. \/ conn' = [conn EXCEPT ![c] = "closed"] /\ Hangup(c)
      \/ wire' = [wire EXCEPT ![c] = Tail(w)] /\ UNCHANGED <<conn, server, cursor, pending>>
  BY DEF Receive
<1> HIDE DEF s, w
<1>6. \A d \in Clients : d # c =>
        /\ conn'[d] = conn[d] /\ server'[d] = server[d] /\ pending'[d] = pending[d]
        /\ cursor'[d] = cursor[d] /\ wire'[d] = wire[d]
  <2>1. CASE conn' = [conn EXCEPT ![c] = "closed"] /\ Hangup(c)
    BY <2>1, HangupClears DEF TypeOK
  <2>2. CASE wire' = [wire EXCEPT ![c] = Tail(w)] /\ UNCHANGED <<conn, server, cursor, pending>>
    BY <2>2 DEF TypeOK
  <2> QED BY <1>5, <2>1, <2>2
<1>7. \/ /\ conn'[c] = "closed" /\ server'[c] = "none" /\ pending'[c] = {} /\ wire'[c] = <<>>
      \/ /\ conn'[c] = conn[c] /\ server'[c] = server[c] /\ pending'[c] = pending[c]
         /\ cursor'[c] = cursor[c] /\ wire'[c] = Tail(w)
  BY <1>5, HangupClears DEF TypeOK
<1>8. TypeOK'
  <2>1. lastId' \in [Clients -> 0..MaxSequence] /\ got' \in [Clients -> SUBSET (1..MaxSequence)]
    BY <1>1, <1>2 DEF TypeOK
  <2>2. conn' \in [Clients -> Connections]
    BY <1>5 DEF TypeOK, Connections
  <2>3. /\ server' \in [Clients -> Places] /\ cursor' \in [Clients -> 0..MaxSequence]
        /\ pending' \in [Clients -> SUBSET (1..MaxSequence)]
        /\ wire' \in [Clients -> Seq(1..MaxSequence)]
    BY <1>2, <1>5, HangupClears DEF TypeOK
  <2> QED BY <1>1, <2>1, <2>2, <2>3 DEF TypeOK
<1>9. ServersFitConnections'
  <2>1. after'[c] <= lastId'[c]
    BY <1>1, <1>2, <1>3, <1>4
  <2>2. wire'[c] = Tail(w) => WireEnd(c)' = WireEnd(c)
    <3>1. CASE Tail(w) = <<>>
      <4>1. Len(Tail(w)) = 0
        <5>1. Len(<<>>) = 0
          OBVIOUS
        <5> QED BY <3>1, <5>1
      <4>2. Len(w) = 1
        <5>1. Len(w) - 1 = 0 /\ Len(w) \in Nat
          BY <1>2, <4>1
        <5> QED BY <5>1
      <4> QED BY <1>1, <1>2, <1>4, <3>1, <4>2 DEF WireEnd, w
    <3>2. CASE Tail(w) # <<>>
      <4>1. Len(Tail(w)) \in 1..Len(Tail(w))
        BY <1>2, <3>2
      <4>2. Tail(w)[Len(Tail(w))] = w[Len(w)]
        BY <1>2, <4>1
      <4> QED BY <1>1, <3>2, <4>2 DEF WireEnd, w
    <3> QED BY <3>1, <3>2
  <2>3. \A d \in Clients : d # c => WireEnd(d)' = WireEnd(d)
    BY <1>4, <1>6 DEF WireEnd
  <2> QED BY <1>1, <1>4, <1>6, <1>7, <2>1, <2>2, <2>3 DEF ServersFitConnections
<1>10. CounterIsAhead'
  <2>1. life # "down" /\ restarts = 0 =>
          s <= counter /\ \A n \in 1..Len(Tail(w)) : Tail(w)[n] <= counter
    BY <1>2 DEF CounterIsAhead, w
  <2>2. life # "down" /\ restarts = 0 =>
          /\ lastId'[c] <= counter
          /\ \A n \in 1..Len(wire'[c]) : wire'[c][n] <= counter
          /\ pending'[c] \subseteq 1..counter
    <3>1. CASE wire'[c] = <<>> /\ pending'[c] = {}
      BY <1>4, <2>1, <3>1
    <3>2. CASE wire'[c] = Tail(w) /\ pending'[c] = pending[c]
      BY <1>4, <2>1, <3>2 DEF CounterIsAhead
    <3> QED BY <1>7, <3>1, <3>2
  <2> QED BY <1>1, <1>4, <1>6, <2>2 DEF CounterIsAhead
<1>11. WireIsOrdered'
  <2>1. \A n \in 1..Len(Tail(w)) : s < Tail(w)[n]
    BY <1>2 DEF WireIsOrdered, w
  <2>2. ASSUME NEW m \in 1..Len(Tail(w)), NEW n \in 1..Len(Tail(w)), m < n
        PROVE  Tail(w)[m] < Tail(w)[n]
    <3>1. m + 1 \in 1..Len(w) /\ n + 1 \in 1..Len(w) /\ m + 1 < n + 1
      BY <1>2, <2>2
    <3>2. w[m + 1] < w[n + 1]
      BY <3>1 DEF WireIsOrdered, w
    <3> QED BY <1>2, <3>2
  <2>3. /\ \A n \in 1..Len(wire'[c]) : lastId'[c] < wire'[c][n]
        /\ \A m, n \in 1..Len(wire'[c]) : m < n => wire'[c][m] < wire'[c][n]
    <3>1. CASE wire'[c] = <<>>
      BY <3>1
    <3>2. CASE wire'[c] = Tail(w)
      BY <1>4, <2>1, <2>2, <3>2
    <3> QED BY <1>7, <3>1, <3>2
  <2>4. \A p \in pending'[c] : cursor'[c] < p
    BY <1>7 DEF WireIsOrdered
  <2> QED BY <1>4, <1>6, <2>3, <2>4 DEF WireIsOrdered
<1>12. StreamHasNoGap'
  <2>1. ASSUME NEW r \in rows, after[c] < r, r <= s
        PROVE  r \in got'[c]
    <3>1. CASE r <= lastId[c]
      BY <1>4, <2>1, <3>1 DEF StreamHasNoGap
    <3>2. CASE lastId[c] < r
      <4>1. 1 \in 1..Len(w)
        BY <1>2
      <4>2. PICK j \in 1..1 : w[j] = r
        BY <1>2, <2>1, <3>2, <4>1 DEF StreamHasNoGap, w
      <4> QED BY <1>2, <1>4, <4>2
    <3>3. r \in Nat
      BY DEF TypeOK
    <3> QED BY <1>3, <3>1, <3>2, <3>3
  <2>2. ASSUME NEW r \in rows, NEW n \in 1..Len(Tail(w)), s < r, r <= Tail(w)[n]
        PROVE  \E j \in 1..n : Tail(w)[j] = r
    <3>1. r \in Nat /\ lastId[c] < r
      BY <1>2, <1>3, <2>2 DEF TypeOK
    <3>2. n + 1 \in 1..Len(w) /\ r <= w[n + 1]
      BY <1>2, <2>2
    <3>3. PICK j \in 1..(n + 1) : w[j] = r
      BY <3>1, <3>2 DEF StreamHasNoGap, w
    <3>4. j # 1
      BY <1>2, <2>2, <3>1, <3>3
    <3>5. j - 1 \in 1..n /\ j - 1 \in 1..Len(Tail(w)) /\ (j - 1) + 1 = j
      BY <1>2, <3>2, <3>3, <3>4
    <3>6. Tail(w)[j - 1] = r
      BY <1>2, <3>3, <3>5
    <3> QED BY <3>5, <3>6
  <2>3. \A r \in rows, n \in 1..Len(wire'[c]) :
          s < r /\ r <= wire'[c][n] => \E j \in 1..n : wire'[c][j] = r
    <3>1. CASE wire'[c] = <<>>
      BY <3>1
    <3>2. CASE wire'[c] = Tail(w)
      BY <2>2, <3>2
    <3> QED BY <1>7, <3>1, <3>2
  <2>4. \A r \in rows, p \in pending'[c] : cursor'[c] < r /\ r <= p => r \in pending'[c]
    BY <1>7 DEF StreamHasNoGap
  <2>5. rows' = rows /\ after' = after
    BY <1>1
  <2> QED BY <1>4, <1>6, <2>1, <2>3, <2>4, <2>5 DEF StreamHasNoGap
<1>13. NobodySleepsOnNews'
  <2>1. \A d \in Clients : server'[d] = "wait" => Replay(cursor'[d]) = {} /\ ~StreamMayEnd
    BY <1>6, <1>7 DEF NobodySleepsOnNews
  <2> QED BY <1>1, <2>1 DEF NobodySleepsOnNews, Replay, InBuffer, StreamMayEnd, Terminal
<1> QED BY <1>1, <1>8, <1>9, <1>10, <1>11, <1>12, <1>13, ClientsOnlyRead

--------------------------------------------------------------------------------
(* The theorems. *)

\* A step that changes nothing keeps the invariant.
LEMMA StutterStep ==
  ASSUME LogInv, UNCHANGED vars
  PROVE  LogInv'
<1> USE DEF LogInv, vars, process, database, streams, readers, history
<1>1. TypeOK'
  BY DEF TypeOK
<1>2. ServersFitConnections' /\ CounterIsAhead' /\ BufferIsTheNewest'
        /\ WireIsOrdered' /\ StreamHasNoGap'
  BY DEF ServersFitConnections, WireEnd, CounterIsAhead, BufferIsTheNewest,
         WireIsOrdered, StreamHasNoGap
<1>3. StoreFollows' /\ DatabaseIsCoherent'
  BY DEF StoreFollows, DatabaseIsCoherent, Ahead
<1>4. NobodySleepsOnNews'
  BY DEF NobodySleepsOnNews, Replay, InBuffer, StreamMayEnd, Terminal
<1> QED BY <1>1, <1>2, <1>3, <1>4

\* Every step keeps the invariant.
LEMMA LogNext == LogInv /\ [Next]_vars => LogInv'
<1> SUFFICES ASSUME LogInv, [Next]_vars PROVE LogInv'
  OBVIOUS
<1>1. CASE WriterStep
  BY <1>1, WriteStep, QuietStep DEF WriterStep
<1>2. CASE Shutdown \/ Crash \/ (\E kind \in EventKinds : CrashInCommit(kind)) \/ Restart
  BY <1>2, ShutdownStep, CrashStep, RestartStep
<1>3. ASSUME NEW c \in Clients, SubscriptionStep(c) PROVE LogInv'
  BY <1>3, ArriveStep, YieldStep, WakeStep DEF SubscriptionStep
<1>4. ASSUME NEW c \in Clients, Hydrate(c) PROVE LogInv'
  BY <1>4, StartStep DEF Hydrate
<1>5. ASSUME NEW c \in Clients, Recover(c) PROVE LogInv'
  BY <1>5, StartStep, GiveUpStep DEF Recover, streams
<1>6. ASSUME NEW c \in Clients, ClientStep(c) PROVE LogInv'
  BY <1>5, <1>6, OpenStep, OpenFailsStep, LostStep, ReceiveStep DEF ClientStep
<1>7. ASSUME NEW c \in Clients, Drop(c) PROVE LogInv'
  BY <1>7, LostStep
<1>8. CASE UNCHANGED vars
  BY <1>8, StutterStep
<1> QED BY <1>1, <1>2, <1>3, <1>4, <1>6, <1>7, <1>8 DEF Next

\* LogInv is inductive: it holds of a run that has just been created, and whatever a
\* writer, the process, a subscription or a client does keeps it.
THEOREM LogInvariance == Spec => []LogInv
<1>1. Init => LogInv
  BY LogInit
<1>2. LogInv /\ [Next]_vars => LogInv'
  BY LogNext
<1> QED BY <1>1, <1>2, PTL DEF Spec

\* What the variables of the event log range over.
THEOREM LogTypeCorrect == Spec => []TypeOK
<1>1. LogInv => TypeOK
  BY DEF LogInv
<1> QED BY <1>1, LogInvariance, PTL

\* Across reconnects, replays, crashes and a restart a client is handed sequence
\* numbers in increasing order and none of them twice.
THEOREM InOrder == Spec => []DeliveredInOrder
<1>1. LogInv => DeliveredInOrder
  <2> SUFFICES ASSUME LogInv, NEW c \in Clients, conn[c] = "open"
               PROVE  /\ \A i \in 1..Len(wire[c]) :
                           wire[c][i] > (IF i = 1 THEN lastId[c] ELSE wire[c][i - 1])
                      /\ \A s \in pending[c] :
                           s > lastId[c] /\ \A i \in 1..Len(wire[c]) : s > wire[c][i]
    BY DEF DeliveredInOrder
  <2> DEFINE w == wire[c]
  <2>1. /\ w \in Seq(1..MaxSequence) /\ lastId[c] \in 0..MaxSequence
        /\ pending[c] \subseteq 1..MaxSequence /\ cursor[c] \in 0..MaxSequence
    BY DEF LogInv, TypeOK
  <2>2. /\ Len(w) \in Nat /\ \A i \in 1..Len(w) : w[i] \in 1..MaxSequence
        /\ w # <<>> => Len(w) \in 1..Len(w)
    <3>1. \A i \in 1..Len(w) : w[i] \in 1..MaxSequence
      BY <2>1, Entries
    <3>2. Len(w) \in Nat
      BY <2>1, AppendOne
    <3>3. w # <<>> => Len(w) >= 1
      BY <2>1, TailOfWire
    <3> HIDE DEF w
    <3> QED BY <3>1, <3>2, <3>3
  <2>3. /\ \A i \in 1..Len(w) : lastId[c] < w[i]
        /\ \A i, j \in 1..Len(w) : i < j => w[i] < w[j]
        /\ \A s \in pending[c] : cursor[c] < s
    BY DEF LogInv, WireIsOrdered
  <2> HIDE DEF w
  <2>4. ASSUME NEW i \in 1..Len(w) PROVE w[i] > (IF i = 1 THEN lastId[c] ELSE w[i - 1])
    <3>1. CASE i = 1
      BY <2>1, <2>2, <2>3, <3>1
    <3>2. CASE i # 1
      <4>1. i - 1 \in 1..Len(w) /\ i - 1 < i
        BY <2>2, <3>2
      <4> QED BY <2>2, <2>3, <3>2, <4>1
    <3> QED BY <3>1, <3>2
  <2>5. ASSUME NEW s \in pending[c] PROVE s > lastId[c] /\ \A i \in 1..Len(w) : s > w[i]
    <3>1. cursor[c] = IF w = <<>> THEN lastId[c] ELSE w[Len(w)]
      BY DEF LogInv, ServersFitConnections, WireEnd, w
    <3>2. lastId[c] <= cursor[c]
      BY <2>1, <2>2, <2>3, <3>1
    <3>3. \A i \in 1..Len(w) : w[i] <= cursor[c]
      BY <2>1, <2>2, <2>3, <3>1
    <3>4. s \in Int /\ cursor[c] < s
      BY <2>1, <2>3
    <3> QED BY <2>1, <2>2, <3>2, <3>3, <3>4
  <2> QED BY <2>4, <2>5 DEF w
<1> QED BY <1>1, LogInvariance, PTL

\* No durable event is skipped, however the buffer, the table and the connection have
\* been taking turns in serving a client.
THEOREM NoneSkipped == Spec => []NothingSkipped
<1>1. LogInv => NothingSkipped
  BY DEF LogInv, StreamHasNoGap, NothingSkipped
<1> QED BY <1>1, LogInvariance, PTL

\* However many writes fail and wherever a crash cuts the two transactions of a commit
\* in two, the rows ahead of the stored snapshot are counted, no snapshot is stored as
\* ended before its terminal event unless writes fail, and one that misses a stored end
\* lies before it.
THEOREM Coherent == Spec => []DatabaseIsCoherent
<1>1. LogInv => DatabaseIsCoherent
  BY DEF LogInv
<1> QED BY <1>1, LogInvariance, PTL

\* No wake-up is lost.
THEOREM NoLostWakeUp == Spec => []NobodySleepsOnNews
<1>1. LogInv => NobodySleepsOnNews
  BY DEF LogInv
<1> QED BY <1>1, LogInvariance, PTL

================================================================================
