--------------------------- MODULE RunRegistryProofs ----------------------------
(***************************************************************************)
(* RegistryInv is an invariant of RunRegistry, and no step loses a run     *)
(* that is not over, for every limit, every number of runs and every       *)
(* number of failing writes and restarts.                                  *)
(***************************************************************************)
EXTENDS RunRegistryInvariant, NaturalSets

--------------------------------------------------------------------------------
(* What is stored, as a sequence. *)

\* Stored runs, taken one by one.
LEMMA StoredIs ==
  ASSUME NEW s \in Seq(StoredRuns)
  PROVE  /\ Len(s) \in Nat /\ DOMAIN s = 1 .. Len(s)
         /\ \A n \in DOMAIN s : s[n] \in StoredRuns /\ s[n].id \in 1 .. MaxRuns
                                  /\ s[n].over \in BOOLEAN
         /\ Ids(s) = {s[n].id : n \in DOMAIN s}
         /\ \A id : id \in Active(s) <=> \E n \in DOMAIN s : s[n].id = id /\ ~s[n].over
         /\ Active(s) \subseteq Ids(s) /\ Ids(s) \subseteq 1 .. MaxRuns
<1>1. Len(s) \in Nat /\ DOMAIN s = 1 .. Len(s)
  OBVIOUS
<1>2. \A n \in DOMAIN s : s[n] \in StoredRuns
  OBVIOUS
<1>3. \A n \in DOMAIN s : s[n].id \in 1 .. MaxRuns /\ s[n].over \in BOOLEAN
  BY <1>2 DEF StoredRuns
<1>4. \A id : id \in Active(s) <=> \E n \in DOMAIN s : s[n].id = id /\ ~s[n].over
  BY DEF Active, Range
<1>5. Active(s) \subseteq Ids(s)
  BY <1>4 DEF Ids
<1> QED BY <1>1, <1>2, <1>3, <1>4, <1>5 DEF Ids

\* Without takes out what it is told to, and leaves the rest as it is.
LEMMA WithoutIs ==
  ASSUME NEW s \in Seq(StoredRuns), NEW ids
  PROVE  /\ Without(s, ids) \in Seq(StoredRuns)
         /\ Ids(Without(s, ids)) = Ids(s) \ ids
         /\ Active(Without(s, ids)) = Active(s) \ ids
         /\ HasNoRepeats(s) => HasNoRepeats(Without(s, ids))
         /\ Len(Without(s, ids)) \in 0 .. Len(s)
         /\ (\E id \in ids : id \in Ids(s)) => Len(Without(s, ids)) < Len(s)
<1> DEFINE K == {n \in DOMAIN s : s[n].id \notin ids}
           w == Selected(s, K)
<1>1. K \in SUBSET DOMAIN s /\ Without(s, ids) = w
  BY DEF Without
<1>2. \A n \in K : n \in DOMAIN s /\ s[n].id \notin ids
  OBVIOUS
<1>3. \A n \in DOMAIN s : s[n].id \notin ids => n \in K
  OBVIOUS
<1> HIDE DEF K, w
<1>4. /\ w \in Seq(StoredRuns) /\ Len(w) = Cardinality(K) /\ Cardinality(K) \in 0 .. Len(s)
      /\ \A k \in 1 .. Cardinality(K) : Nth(K, k) \in K /\ w[k] = s[Nth(K, k)]
      /\ \A n \in K : \E k \in 1 .. Cardinality(K) : Nth(K, k) = n
      /\ \A j, k \in 1 .. Cardinality(K) : Nth(K, j) = Nth(K, k) => j = k
  BY <1>1, SelectedIs DEF w
<1>5. DOMAIN w = 1 .. Cardinality(K)
  BY <1>4
<1>6. Ids(w) = Ids(s) \ ids
  <2>1. ASSUME NEW k \in DOMAIN w PROVE w[k].id \in Ids(s) \ ids
    BY <1>2, <1>4, <1>5 DEF Ids
  <2>2. ASSUME NEW n \in DOMAIN s, s[n].id \notin ids PROVE \E k \in DOMAIN w : w[k].id = s[n].id
    BY <1>3, <1>4, <1>5, <2>2
  <2> QED BY <2>1, <2>2 DEF Ids
<1>7. Active(w) = Active(s) \ ids
  <2>1. ASSUME NEW id \in Active(w) PROVE id \in Active(s) \ ids
    <3>1. PICK k \in DOMAIN w : w[k].id = id /\ ~w[k].over
      BY <1>4, StoredIs
    <3> QED BY <1>2, <1>4, <1>5, <3>1, StoredIs
  <2>2. ASSUME NEW id \in Active(s), id \notin ids PROVE id \in Active(w)
    <3>1. PICK n \in DOMAIN s : s[n].id = id /\ ~s[n].over
      BY StoredIs
    <3>2. PICK k \in 1 .. Cardinality(K) : Nth(K, k) = n
      BY <1>3, <1>4, <2>2, <3>1
    <3>3. k \in DOMAIN w /\ w[k].id = id /\ ~w[k].over
      BY <1>4, <1>5, <3>1, <3>2
    <3> QED BY <1>4, <3>3, StoredIs
  <2> QED BY <2>1, <2>2
<1>8. ASSUME HasNoRepeats(s) PROVE HasNoRepeats(w)
  BY <1>2, <1>4, <1>5, <1>8 DEF HasNoRepeats
<1>9. ASSUME NEW id \in ids, id \in Ids(s) PROVE Cardinality(K) < Len(s)
  <2>1. K # 1 .. Len(s) /\ K \in SUBSET (1 .. Len(s))
    BY <1>1, <1>2, <1>9, StoredIs
  <2>2. IsFiniteSet(1 .. Len(s)) /\ Cardinality(1 .. Len(s)) = Len(s)
    <3>1. Len(s) \in Nat
      OBVIOUS
    <3> QED BY SMTT(30), <3>1, FS_Interval
  <2>3. Cardinality(K) # Len(s)
    BY <2>1, <2>2, FS_Subset
  <2> QED BY <1>4, <2>3
<1> QED BY <1>1, <1>4, <1>6, <1>7, <1>8, <1>9

\* Touched moves a run to the end, or puts it there.
LEMMA TouchedIs ==
  ASSUME NEW s \in Seq(StoredRuns), NEW id \in 1 .. MaxRuns, NEW over \in BOOLEAN
  PROVE  /\ Touched(s, id, over) \in Seq(StoredRuns)
         /\ Ids(Touched(s, id, over)) = Ids(s) \cup {id}
         /\ Active(Touched(s, id, over)) = IF over THEN Active(s) \ {id} ELSE Active(s) \cup {id}
         /\ HasNoRepeats(s) => HasNoRepeats(Touched(s, id, over))
         /\ id \in Ids(s) => Len(Touched(s, id, over)) <= Len(s)
<1> DEFINE w == Without(s, {id})
           run == [id |-> id, over |-> over]
           t == Touched(s, id, over)
<1>1. /\ w \in Seq(StoredRuns) /\ Ids(w) = Ids(s) \ {id} /\ Active(w) = Active(s) \ {id}
      /\ HasNoRepeats(s) => HasNoRepeats(w)
      /\ Len(w) \in Nat
      /\ id \in Ids(s) => Len(w) < Len(s)
  BY WithoutIs, StoredIs
<1>2. run \in StoredRuns /\ run.id = id /\ run.over = over
  BY DEF StoredRuns
<1>3. t = Append(w, run)
  BY DEF Touched
<1> HIDE DEF w, run, t
<1>4. /\ t \in Seq(StoredRuns) /\ Len(t) = Len(w) + 1 /\ t[Len(w) + 1] = run
      /\ \A n \in 1 .. Len(w) : t[n] = w[n]
      /\ DOMAIN w = 1 .. Len(w) /\ DOMAIN t = 1 .. (Len(w) + 1)
  BY <1>1, <1>2, <1>3
<1>5. \A n \in DOMAIN t : n \in DOMAIN w \/ n = Len(w) + 1
  BY <1>1, <1>4
<1>6. \A n \in DOMAIN w : n \in DOMAIN t /\ t[n] = w[n] /\ n # Len(w) + 1
  BY <1>1, <1>4
<1>7. Len(w) + 1 \in DOMAIN t
  BY <1>1, <1>4
<1>8. Ids(t) = Ids(s) \cup {id}
  <2>1. Ids(t) = Ids(w) \cup {id}
    BY <1>2, <1>4, <1>5, <1>6, <1>7 DEF Ids
  <2> QED BY <1>1, <2>1
<1>9. Active(t) = IF over THEN Active(s) \ {id} ELSE Active(s) \cup {id}
  <2>1. ASSUME NEW a PROVE a \in Active(t) <=> a \in Active(w) \/ (a = id /\ ~over)
    <3>1. a \in Active(t) <=> \E n \in DOMAIN t : t[n].id = a /\ ~t[n].over
      BY <1>4, StoredIs
    <3>2. a \in Active(w) <=> \E n \in DOMAIN w : w[n].id = a /\ ~w[n].over
      BY <1>1, StoredIs
    <3> QED BY <1>2, <1>4, <1>5, <1>6, <1>7, <3>1, <3>2
  <2> QED BY <1>1, <2>1
<1>10. ASSUME HasNoRepeats(s) PROVE HasNoRepeats(t)
  <2>1. \A n \in DOMAIN w : w[n].id # id
    BY <1>1, StoredIs
  <2> QED BY <1>1, <1>2, <1>4, <1>5, <1>6, <1>10, <2>1 DEF HasNoRepeats
<1>11. id \in Ids(s) => Len(t) <= Len(s)
  BY <1>1, <1>4, StoredIs
<1> QED BY <1>4, <1>8, <1>9, <1>10, <1>11 DEF t

\* Eviction takes finished runs only, of those there are, and some if it has to.
LEMMA EvictableIs ==
  ASSUME NEW s \in Seq(StoredRuns), HasNoRepeats(s), NEW needed \in Int
  PROVE  /\ Evictable(s, needed) \subseteq Ids(s)
         /\ Evictable(s, needed) \cap Active(s) = {}
         /\ needed > 0 /\ Evictable(s, needed) = {} => Finished(s) = {}
<1> DEFINE E == {n \in Finished(s) : Cardinality(Finished(s) \cap 1 .. n) <= needed}
<1>1. Evictable(s, needed) = {s[n].id : n \in E}
  BY DEF Evictable
<1>2. E \subseteq Finished(s) /\ Finished(s) \subseteq DOMAIN s
  BY DEF Finished
<1>3. Evictable(s, needed) \subseteq Ids(s)
  BY <1>1, <1>2 DEF Ids
<1>4. ASSUME NEW id \in Evictable(s, needed), id \in Active(s) PROVE FALSE
  <2>1. PICK n \in DOMAIN s : s[n].id = id /\ s[n].over
    BY <1>1, <1>2 DEF Finished
  <2>2. PICK m \in DOMAIN s : s[m].id = id /\ ~s[m].over
    BY <1>4, StoredIs
  <2> QED BY <2>1, <2>2 DEF HasNoRepeats
<1>5. ASSUME needed > 0, Finished(s) # {} PROVE Evictable(s, needed) # {}
  <2> DEFINE F == Finished(s)
  <2>1. F \in SUBSET Nat /\ F # {}
    BY <1>2, <1>5, StoredIs
  <2> HIDE DEF F
  <2>2. PICK n \in F : \A m \in F : n <= m
    BY <2>1, LeastNatural
  <2>3. F \cap 1 .. n = {n}
    BY <1>2, <2>1, <2>2, StoredIs DEF F
  <2>4. Cardinality(F \cap 1 .. n) = 1
    BY <2>3, FS_Singleton
  <2>5. n \in E
    BY <1>5, <2>4 DEF F
  <2> QED BY <1>1, <2>5
<1> QED BY <1>3, <1>4, <1>5

--------------------------------------------------------------------------------
(* Creating runs and making room for them. *)

\* The bounds are natural numbers.
LEMMA Bounds ==
  /\ MaxConcurrent \in Nat /\ MaxConcurrent > 0 /\ Limits \subseteq Nat \ {0}
  /\ MaxRuns \in Nat /\ MaxFaults \in Nat /\ MaxRestarts \in Nat
BY RegistryAssumption DEF RegistryAssumption

\* How many runs are active.
LEMMA ActiveIsFinite ==
  ASSUME NEW s \in Seq(StoredRuns)
  PROVE  IsFiniteSet(Active(s)) /\ Cardinality(Active(s)) \in Nat
<1>1. IsFiniteSet(1 .. MaxRuns)
  BY Bounds, FS_Interval
<1>2. Active(s) \in SUBSET (1 .. MaxRuns)
  BY StoredIs
<1> QED BY <1>1, <1>2, FS_Subset, FS_CardinalityType

\* A store without finished runs holds as many runs as are active.
LEMMA AllActive ==
  ASSUME NEW s \in Seq(StoredRuns), HasNoRepeats(s), Finished(s) = {}
  PROVE  Cardinality(Active(s)) = Len(s)
<1> DEFINE f == [n \in 1 .. Len(s) |-> s[n].id]
<1>1. Len(s) \in Nat /\ DOMAIN s = 1 .. Len(s)
  BY StoredIs
<1>2. \A n \in 1 .. Len(s) : ~s[n].over
  BY <1>1 DEF Finished
<1>3. f \in Surjection(1 .. Len(s), Active(s))
  BY <1>1, <1>2, StoredIs DEF Surjection
<1>4. f \in Injection(1 .. Len(s), Active(s))
  BY <1>1, <1>3 DEF Surjection, Injection, IsInjective, HasNoRepeats
<1>5. IsFiniteSet(1 .. Len(s)) /\ Cardinality(1 .. Len(s)) = Len(s)
  BY <1>1, FS_Interval
<1> QED BY <1>3, <1>4, <1>5, FS_Surjection

\* make_room: no unfinished run goes, and if none does although one must, all that is
\* stored is unfinished.
LEMMA MakeRoom ==
  ASSUME RegistryInv
  PROVE  /\ Evicted(1) \subseteq Ids(runs)
         /\ Evicted(1) \cap Active(runs) = {}
         /\ Len(runs) >= limit /\ Evicted(1) = {} => Cardinality(Active(runs)) = Len(runs)
<1>1. /\ runs \in Seq(StoredRuns) /\ HasNoRepeats(runs) /\ limit \in Nat /\ Len(runs) \in Nat
  BY Bounds, StoredIs DEF RegistryInv, TypeOK, RunsAreDistinct
<1>2. Len(runs) + 1 - limit \in Int /\ (Len(runs) >= limit => Len(runs) + 1 - limit > 0)
  BY <1>1
<1> QED BY <1>1, <1>2, EvictableIs, AllActive DEF Evicted

\* A refused request changes nothing but its answer.
LEMMA RefusedStep ==
  ASSUME RegistryInv, CreateRefused \/ StoreRefuses
  PROVE  RegistryInv'
<1> USE DEF RegistryInv, process, database
<1>1. UNCHANGED <<process, database, created, failed, faults, restarts>>
        /\ answer' \in {"RUN_CAPACITY", "STORE_CAPACITY"}
  BY DEF CreateRefused, StoreRefuses
<1>2. TypeOK'
  BY <1>1 DEF TypeOK
<1>3. RunsAreDistinct' /\ NextIsNew' /\ NothingOutlivesProcess' /\ UnfinishedHasRow'
  BY <1>1 DEF RunsAreDistinct, NextIsNew, NothingOutlivesProcess, UnfinishedHasRow
<1>4. NothingIsLeftBehind'
  BY <1>1 DEF NothingIsLeftBehind
<1>5. CapacityIsExact'
  <2>1. ASSUME StoreRefuses PROVE limit < MaxConcurrent
    <3>1. /\ runs \in Seq(StoredRuns) /\ limit \in Nat /\ MaxConcurrent \in Nat
      BY Bounds DEF TypeOK
    <3>2. Len(runs) \in Nat /\ Len(Without(runs, Evicted(1))) \in 0 .. Len(runs)
      BY <3>1, WithoutIs, StoredIs
    <3>3. Len(runs) >= limit
      BY <2>1, <3>1, <3>2 DEF StoreRefuses
    <3>4. Cardinality(Active(runs)) = Len(runs)
      BY <2>1, <3>3, MakeRoom DEF StoreRefuses
    <3> QED BY <2>1, <3>1, <3>2, <3>3, <3>4 DEF StoreRefuses, AtCapacity
  <2>2. CreateRefused => answer' # "STORE_CAPACITY"
    BY DEF CreateRefused
  <2> QED BY <1>1, <2>1, <2>2 DEF CapacityIsExact
<1> QED BY <1>2, <1>3, <1>4, <1>5

\* Finished runs leave a store.
LEMMA Shrinks ==
  ASSUME RegistryInv, NEW gone, gone \cap Active(runs) = {}
  PROVE  /\ Without(runs, gone) \in Seq(StoredRuns) /\ Without(rows, gone) \in Seq(StoredRuns)
         /\ HasNoRepeats(Without(runs, gone)) /\ HasNoRepeats(Without(rows, gone))
         /\ Ids(Without(runs, gone)) = Ids(runs) \ gone
         /\ Ids(Without(rows, gone)) = Ids(rows) \ gone
         /\ Active(Without(runs, gone)) = Active(runs)
         /\ Active(Without(rows, gone)) = Active(rows) \ gone
         /\ Len(Without(runs, gone)) \in Nat /\ Len(Without(runs, gone)) <= limit
<1>1. /\ runs \in Seq(StoredRuns) /\ rows \in Seq(StoredRuns) /\ limit \in Nat
      /\ HasNoRepeats(runs) /\ HasNoRepeats(rows) /\ Len(runs) <= limit
  BY Bounds DEF RegistryInv, TypeOK, RunsAreDistinct, CapacityIsExact
<1>2. Len(runs) \in Nat
  BY <1>1
<1>3. Len(Without(runs, gone)) \in 0 .. Len(runs)
  BY <1>1, WithoutIs
<1>4. Len(Without(runs, gone)) \in Nat /\ Len(Without(runs, gone)) <= limit
  BY <1>1, <1>2, <1>3
<1>5. Active(Without(runs, gone)) = Active(runs)
  <2>1. Active(runs) \ gone = Active(runs)
    OBVIOUS
  <2> QED BY <1>1, <2>1, WithoutIs
<1> QED BY <1>1, <1>4, <1>5, WithoutIs

\* What removing finished runs does, as far as it gets.
LEMMA RemovalKeeps ==
  ASSUME RegistryInv, NEW gone, gone \cap Active(runs) = {}, NEW removal,
         runs' = Without(runs, gone), rows' = RowsAfter(removal, gone), Release(removal),
         UNCHANGED <<life, limit, working, created, restarts>>,
         aged' \subseteq aged, cleaner' \in BOOLEAN, faults' \in 0 .. MaxFaults,
         failed' \in BOOLEAN, life # "down",
         \/ answer' = "error"
         \/ answer' = answer
  PROVE  /\ TypeOK' /\ RunsAreDistinct' /\ NextIsNew' /\ NothingOutlivesProcess'
         /\ UnfinishedHasRow' /\ CapacityIsExact'
<1> USE DEF RegistryInv
<1>1. /\ runs' \in Seq(StoredRuns) /\ rows' \in Seq(StoredRuns)
      /\ HasNoRepeats(runs') /\ HasNoRepeats(rows')
      /\ Ids(runs') = Ids(runs) \ gone /\ Ids(rows') \in {Ids(rows), Ids(rows) \ gone}
      /\ Active(runs') = Active(runs)
      /\ Len(runs') <= limit
  BY Shrinks DEF RowsAfter, RunsAreDistinct, TypeOK
<1>2. TypeOK'
  BY <1>1 DEF TypeOK
<1>3. RunsAreDistinct'
  BY <1>1 DEF RunsAreDistinct
<1>4. NextIsNew'
  BY <1>1 DEF NextIsNew, Release
<1>5. NothingOutlivesProcess'
  BY DEF NothingOutlivesProcess
<1>6. UnfinishedHasRow'
  BY <1>1 DEF UnfinishedHasRow
<1>7. CapacityIsExact'
  BY <1>1 DEF CapacityIsExact
<1> QED BY <1>2, <1>3, <1>4, <1>5, <1>6, <1>7

\* A request that fails while room is made for it.
LEMMA CreateFailedStep ==
  ASSUME RegistryInv, CreateFailed
  PROVE  RegistryInv'
<1>1. PICK removal \in Removals(Evicted(1)) :
        /\ WriteFails
        /\ runs' = Without(runs, Evicted(1))
        /\ rows' = RowsAfter(removal, Evicted(1))
        /\ Release(removal)
  BY DEF CreateFailed
<1>2. /\ UNCHANGED <<life, limit, working, aged, cleaner, created, restarts>>
      /\ answer' = "error" /\ life = "up"
  BY DEF CreateFailed
<1>3. Evicted(1) \cap Active(runs) = {}
  BY MakeRoom
<1>4. faults' \in 0 .. MaxFaults /\ failed' = TRUE /\ cleaner' \in BOOLEAN
  BY <1>1, <1>2, Bounds DEF WriteFails, RegistryInv, TypeOK
<1>5. /\ TypeOK' /\ RunsAreDistinct' /\ NextIsNew' /\ NothingOutlivesProcess'
      /\ UnfinishedHasRow' /\ CapacityIsExact'
  BY <1>1, <1>2, <1>3, <1>4, RemovalKeeps
<1>6. NothingIsLeftBehind'
  BY <1>4 DEF NothingIsLeftBehind
<1> QED BY <1>5, <1>6 DEF RegistryInv

\* The new run is unknown to everything there is, so it is stored behind the others.
LEMMA NewRun ==
  ASSUME RegistryInv, created < MaxRuns, NEW s \in Seq(StoredRuns), HasNoRepeats(s),
         Ids(s) \subseteq 1 .. created
  PROVE  LET run == [id |-> created + 1, over |-> FALSE]
         IN  /\ Append(s, run) \in Seq(StoredRuns) /\ HasNoRepeats(Append(s, run))
             /\ Ids(Append(s, run)) = Ids(s) \cup {created + 1}
             /\ Active(Append(s, run)) = Active(s) \cup {created + 1}
             /\ Len(Append(s, run)) = Len(s) + 1
<1> DEFINE id == created + 1
           t == Append(s, [id |-> id, over |-> FALSE])
           run == [id |-> id, over |-> FALSE]
<1>1. created \in Nat /\ id \in 1 .. MaxRuns /\ id \notin 1 .. created
  BY Bounds DEF RegistryInv, TypeOK
<1>2. run \in StoredRuns /\ run.id = id /\ run.over = FALSE
  BY <1>1 DEF StoredRuns
<1>3. \A n \in DOMAIN s : s[n].id # id
  BY <1>1 DEF Ids
<1>4. t = Append(s, run)
  OBVIOUS
<1> HIDE DEF run, t, id
<1>5. /\ t \in Seq(StoredRuns) /\ Len(t) = Len(s) + 1 /\ t[Len(s) + 1] = run /\ Len(s) \in Nat
      /\ \A n \in 1 .. Len(s) : t[n] = s[n]
      /\ DOMAIN s = 1 .. Len(s) /\ DOMAIN t = 1 .. (Len(s) + 1)
  BY <1>2, <1>4
<1>6. /\ \A n \in DOMAIN t : n \in DOMAIN s \/ n = Len(s) + 1
      /\ \A n \in DOMAIN s : n \in DOMAIN t /\ t[n] = s[n]
      /\ Len(s) + 1 \in DOMAIN t
  BY <1>5
<1>7. Ids(t) = Ids(s) \cup {id}
  BY <1>2, <1>5, <1>6 DEF Ids
<1>8. Active(t) = Active(s) \cup {id}
  <2>1. ASSUME NEW a PROVE a \in Active(t) <=> a \in Active(s) \/ a = id
    <3>1. a \in Active(t) <=> \E n \in DOMAIN t : t[n].id = a /\ ~t[n].over
      BY <1>5, StoredIs
    <3>2. a \in Active(s) <=> \E n \in DOMAIN s : s[n].id = a /\ ~s[n].over
      BY StoredIs
    <3> QED BY <1>2, <1>5, <1>6, <3>1, <3>2
  <2> QED BY <2>1
<1>9. HasNoRepeats(t)
  BY <1>2, <1>3, <1>5, <1>6 DEF HasNoRepeats
<1> QED BY <1>5, <1>7, <1>8, <1>9 DEF t, id

\* create_run
LEMMA CreateStep ==
  ASSUME RegistryInv, CreateRun
  PROVE  RegistryInv'
<1> USE DEF RegistryInv
<1> DEFINE gone == Evicted(1)
           kept == Without(runs, gone)
           left == Without(rows, gone)
           id == created + 1
           run == [id |-> id, over |-> FALSE]
<1>1. /\ life = "up" /\ ~AtCapacity /\ created < MaxRuns /\ Len(kept) < limit
      /\ created' = id /\ aged' = aged \ gone
      /\ UNCHANGED <<life, limit, cleaner, restarts>>
  BY DEF CreateRun
<1>2. gone \cap Active(runs) = {}
  BY MakeRoom
<1>3. created \in Nat /\ id \in 1 .. MaxRuns /\ id \notin 1 .. created
        /\ 1 .. created \subseteq 1 .. id /\ limit \in Nat
  BY <1>1, Bounds DEF TypeOK
<1>4. /\ kept \in Seq(StoredRuns) /\ left \in Seq(StoredRuns)
      /\ HasNoRepeats(kept) /\ HasNoRepeats(left)
      /\ Ids(kept) = Ids(runs) \ gone /\ Ids(left) = Ids(rows) \ gone
      /\ Active(kept) = Active(runs) /\ Active(left) = Active(rows) \ gone
      /\ Len(kept) \in Nat /\ Len(kept) <= limit
  BY <1>2, Shrinks
<1>5. /\ Ids(runs) \subseteq 1 .. created /\ Ids(rows) \subseteq 1 .. created
      /\ streams \subseteq 1 .. created /\ held \subseteq 1 .. created
      /\ tasks \subseteq 1 .. created /\ working \subseteq 1 .. created
      /\ aged \subseteq 1 .. created /\ events \subseteq 1 .. created
  BY DEF NextIsNew
<1> HIDE DEF gone, kept, left, id, run
<1>6. CASE /\ runs' = Append(kept, run)
           /\ rows' = Append(left, run)
           /\ streams' = (streams \ gone) \cup {id}
           /\ held' = (held \ gone) \cup {id}
           /\ tasks' = (tasks \ gone) \cup {id}
           /\ working' = working \cup {id}
           /\ events' = events \ gone
           /\ answer' = "created"
           /\ WritesSucceed
  <2> USE <1>6
  <2>1. /\ runs' \in Seq(StoredRuns) /\ HasNoRepeats(runs')
        /\ Ids(runs') = Ids(kept) \cup {id} /\ Active(runs') = Active(kept) \cup {id}
        /\ Len(runs') = Len(kept) + 1
    BY <1>1, <1>4, <1>5, NewRun DEF id, run
  <2>2. /\ rows' \in Seq(StoredRuns) /\ HasNoRepeats(rows')
        /\ Ids(rows') = Ids(left) \cup {id} /\ Active(rows') = Active(left) \cup {id}
    BY <1>1, <1>4, <1>5, NewRun DEF id, run
  <2>3. TypeOK'
    BY <1>1, <1>3, <2>1, <2>2 DEF TypeOK, WritesSucceed
  <2>4. RunsAreDistinct'
    BY <2>1, <2>2 DEF RunsAreDistinct
  <2>5. NextIsNew'
    <3>1. id \in 1 .. id
      BY <1>3 DEF id
    <3>2. Ids(runs') \subseteq 1 .. id /\ Ids(rows') \subseteq 1 .. id
      BY <1>3, <1>4, <1>5, <2>1, <2>2, <3>1
    <3>3. /\ streams' \subseteq 1 .. id /\ held' \subseteq 1 .. id /\ tasks' \subseteq 1 .. id
          /\ working' \subseteq 1 .. id /\ aged' \subseteq 1 .. id /\ events' \subseteq 1 .. id
      BY <1>1, <1>3, <1>5, <3>1
    <3> QED BY <1>1, <3>2, <3>3 DEF NextIsNew
  <2>6. NothingOutlivesProcess'
    BY <1>1 DEF NothingOutlivesProcess
  <2>7. UnfinishedHasRow'
    BY <1>2, <1>4, <2>1, <2>2 DEF UnfinishedHasRow
  <2>8. CapacityIsExact'
    <3>1. id \notin Active(kept)
      BY <1>3, <1>4, <1>5, StoredIs DEF TypeOK
    <3>2. Cardinality(Active(runs')) = Cardinality(Active(runs)) + 1
      <4>1. IsFiniteSet(Active(runs))
        BY ActiveIsFinite DEF TypeOK
      <4>2. Active(runs') = Active(runs) \cup {id} /\ id \notin Active(runs)
        BY <1>4, <2>1, <3>1
      <4> QED BY <4>1, <4>2, FS_AddElement
    <3>3. Cardinality(Active(runs)) \in Nat /\ Cardinality(Active(runs)) < MaxConcurrent
      BY <1>1, Bounds, ActiveIsFinite DEF AtCapacity, TypeOK
    <3> QED BY <1>1, <1>3, <1>4, <2>1, <3>2, <3>3, Bounds DEF CapacityIsExact
  <2>9. NothingIsLeftBehind'
    <3> SUFFICES ASSUME ~failed
                 PROVE  /\ Ids(rows') = Ids(runs') /\ Active(rows') = Active(runs')
                        /\ streams' = Ids(runs') /\ held' = Ids(runs')
                        /\ events' \subseteq Ids(runs')
                        /\ tasks' = working' \cap Ids(runs')
      BY DEF NothingIsLeftBehind, WritesSucceed
    <3>1. /\ Ids(rows) = Ids(runs) /\ Active(rows) = Active(runs)
          /\ streams = Ids(runs) /\ held = Ids(runs)
          /\ events \subseteq Ids(runs) /\ tasks = working \cap Ids(runs)
      BY <1>1 DEF NothingIsLeftBehind
    <3>2. Ids(rows') = Ids(runs') /\ Active(rows') = Active(runs')
      BY <1>2, <1>4, <2>1, <2>2, <3>1
    <3>3. Ids(runs') = (Ids(runs) \ gone) \cup {id}
      BY <1>4, <2>1
    <3> QED BY <3>1, <3>2, <3>3
  <2> QED BY <2>3, <2>4, <2>5, <2>6, <2>7, <2>8, <2>9
<1>7. CASE /\ runs' = kept
           /\ rows' = left
           /\ Release([deleted |-> TRUE, released |-> gone, halfway |-> {}])
           /\ answer' = "error"
           /\ WriteFails
           /\ UNCHANGED working
  <2> USE <1>7
  <2>1. TypeOK'
    BY <1>1, <1>3, <1>4, Bounds DEF TypeOK, WriteFails
  <2>2. RunsAreDistinct'
    BY <1>4 DEF RunsAreDistinct
  <2>3. NextIsNew'
    BY <1>1, <1>3, <1>4, <1>5 DEF NextIsNew, Release
  <2>4. NothingOutlivesProcess'
    BY <1>1 DEF NothingOutlivesProcess
  <2>5. UnfinishedHasRow'
    BY <1>2, <1>4 DEF UnfinishedHasRow
  <2>6. CapacityIsExact'
    BY <1>1, <1>4 DEF CapacityIsExact
  <2>7. NothingIsLeftBehind'
    BY DEF NothingIsLeftBehind, WriteFails
  <2> QED BY <2>1, <2>2, <2>3, <2>4, <2>5, <2>6, <2>7
<1> QED BY <1>6, <1>7 DEF CreateRun, gone, kept, left, id, run

--------------------------------------------------------------------------------
(* What happens to a run. *)

\* A commit moves its run to the end of both stores, or of the one in memory only.
LEMMA WriteKeeps ==
  ASSUME RegistryInv, NEW id \in 1 .. MaxRuns, NEW over \in BOOLEAN,
         \/ Write(id, over)
         \/ ~over /\ Update(id, over) /\ UNCHANGED <<database, failed, faults>>,
         life = "up", over \/ id \in Active(runs),
         working' \subseteq working, tasks' \subseteq tasks,
         ~failed => tasks' = working' \cap Ids(runs)
  PROVE  RegistryInv'
<1> USE DEF RegistryInv
<1>1. /\ id \in Ids(runs) /\ runs' = Touched(runs, id, over) /\ aged' = aged \ {id}
      /\ UNCHANGED <<life, limit, streams, held, cleaner, created, answer, restarts>>
      /\ \/ /\ rows' = Touched(rows, id, over)
            /\ events' = events \cup {id}
            /\ WritesSucceed
         \/ /\ WriteFails
            /\ events' \in {events, events \cup {id}}
            /\ UNCHANGED rows
         \/ ~over /\ UNCHANGED database /\ WritesSucceed
  BY DEF Write, Update, WritesSucceed
<1>2. /\ runs \in Seq(StoredRuns) /\ rows \in Seq(StoredRuns) /\ limit \in Nat
      /\ HasNoRepeats(runs) /\ HasNoRepeats(rows) /\ Len(runs) <= limit
  BY Bounds DEF TypeOK, RunsAreDistinct, CapacityIsExact
<1>3. /\ runs' \in Seq(StoredRuns) /\ HasNoRepeats(runs') /\ Ids(runs') = Ids(runs)
      /\ Active(runs') = IF over THEN Active(runs) \ {id} ELSE Active(runs)
      /\ Len(runs') <= Len(runs)
  <2>1. Ids(runs) \cup {id} = Ids(runs)
    BY <1>1
  <2>2. ~over => Active(runs) \cup {id} = Active(runs)
    OBVIOUS
  <2> QED BY ZenonT(30), <1>1, <1>2, <2>1, <2>2, TouchedIs
<1>4. /\ rows' \in Seq(StoredRuns) /\ HasNoRepeats(rows')
      /\ Ids(rows') \in {Ids(rows), Ids(rows) \cup {id}}
  BY <1>1, <1>2, TouchedIs DEF database
<1>5. TypeOK'
  <2>1. faults' \in 0 .. MaxFaults /\ failed' \in BOOLEAN
    <3>1. WritesSucceed \/ WriteFails
      BY <1>1
    <3>2. CASE WritesSucceed
      BY <3>2 DEF TypeOK, WritesSucceed
    <3>3. CASE WriteFails
      BY <3>3, Bounds DEF TypeOK, WriteFails
    <3> QED BY <3>1, <3>2, <3>3
  <2> QED BY <1>1, <1>3, <1>4, <2>1 DEF TypeOK
<1>6. RunsAreDistinct'
  BY <1>3, <1>4 DEF RunsAreDistinct
<1>7. NextIsNew'
  <2>1. id \in 1 .. created
    BY <1>1 DEF NextIsNew
  <2> QED BY <1>1, <1>3, <1>4, <2>1 DEF NextIsNew, database
<1>8. NothingOutlivesProcess'
  BY <1>1 DEF NothingOutlivesProcess
<1>9. UnfinishedHasRow'
  BY <1>3, <1>4 DEF UnfinishedHasRow
<1>10. CapacityIsExact'
  <2>1. Len(runs') <= limit
    <3>1. Len(runs') \in Nat /\ Len(runs) \in Nat
      BY <1>2, <1>3, StoredIs
    <3> QED BY <1>2, <1>3, <3>1
  <2>2. Cardinality(Active(runs')) <= Cardinality(Active(runs))
    BY <1>2, <1>3, ActiveIsFinite, FS_Subset
  <2>3. /\ Cardinality(Active(runs)) \in Nat /\ Cardinality(Active(runs')) \in Nat
        /\ MaxConcurrent \in Nat
    BY <1>2, <1>3, ActiveIsFinite, Bounds
  <2> QED BY <1>1, <2>1, <2>2, <2>3 DEF CapacityIsExact
<1>11. NothingIsLeftBehind'
  <2> SUFFICES ASSUME ~failed'
               PROVE  /\ Ids(rows') = Ids(runs') /\ Active(rows') = Active(runs')
                      /\ streams' = Ids(runs') /\ held' = Ids(runs')
                      /\ events' \subseteq Ids(runs')
                      /\ tasks' = working' \cap Ids(runs')
    BY DEF NothingIsLeftBehind
  <2>1. /\ ~failed
        /\ \/ rows' = Touched(rows, id, over) /\ events' = events \cup {id}
           \/ ~over /\ rows' = rows /\ events' = events
    BY <1>1 DEF WriteFails, WritesSucceed, database
  <2>2. /\ Ids(rows) = Ids(runs) /\ Active(rows) = Active(runs)
        /\ streams = Ids(runs) /\ held = Ids(runs) /\ events \subseteq Ids(runs)
    BY <2>1 DEF NothingIsLeftBehind
  <2>3. Ids(rows') = Ids(runs') /\ Active(rows') = Active(runs')
    <3>1. CASE rows' = rows /\ ~over
      BY <1>3, <2>2, <3>1
    <3>2. CASE rows' = Touched(rows, id, over)
      <4>1. /\ Ids(rows') = Ids(rows) \cup {id}
            /\ Active(rows') = IF over THEN Active(rows) \ {id} ELSE Active(rows) \cup {id}
        BY <1>2, <3>2, TouchedIs
      <4>2. Ids(rows) \cup {id} = Ids(runs) /\ (~over => Active(rows) \cup {id} = Active(runs))
        BY <1>1, <2>2
      <4> QED BY <1>3, <2>2, <4>1, <4>2
    <3> QED BY <2>1, <3>1, <3>2
  <2> QED BY <1>1, <1>3, <2>1, <2>2, <2>3
<1> QED BY <1>5, <1>6, <1>7, <1>8, <1>9, <1>10, <1>11

\* Cancel, Commit, CommitDelta and Finish.
LEMMA CommitStep ==
  ASSUME RegistryInv, NEW id \in 1 .. MaxRuns,
         Cancel(id) \/ Commit(id) \/ CommitDelta(id) \/ Finish(id)
  PROVE  RegistryInv'
<1>1. runs \in Seq(StoredRuns) /\ (~failed /\ life = "up" => tasks = working \cap Ids(runs))
  BY DEF RegistryInv, TypeOK, NothingIsLeftBehind
<1>2. CASE Cancel(id)
  BY <1>1, <1>2, WriteKeeps DEF Cancel
<1>3. CASE Commit(id)
  <2>1. IsOver(id) \in BOOLEAN /\ (id \in Ids(runs) => IsOver(id) \/ id \in Active(runs))
    BY DEF IsOver
  <2>2. id \in Ids(runs)
    BY <1>3 DEF Commit, Write, Update
  <2> HIDE DEF IsOver
  <2> QED BY <1>1, <1>3, <2>1, <2>2, WriteKeeps DEF Commit
<1>4. CASE Finish(id)
  <2>1. ~failed => tasks' = working' \cap Ids(runs)
    BY <1>1, <1>4 DEF Finish
  <2> QED BY <1>4, <2>1, WriteKeeps DEF Finish
<1>5. CASE CommitDelta(id)
  BY <1>1, <1>5, WriteKeeps DEF CommitDelta
<1> QED BY <1>2, <1>3, <1>4, <1>5

\* The steps that leave both stores alone.
LEMMA StoresAlone ==
  ASSUME RegistryInv,
         (\E id \in 1 .. MaxRuns : TaskEnds(id)) \/ Age \/ Shutdown \/ UNCHANGED vars
  PROVE  RegistryInv'
<1> USE DEF RegistryInv, vars, process, database, history
<1>1. /\ UNCHANGED <<limit, runs, streams, held, database, history>>
      /\ life' \in {"up", "closing", "down"} /\ (life' = "down" <=> life = "down")
      /\ cleaner' \in BOOLEAN /\ working' \subseteq working /\ tasks' \subseteq tasks
      /\ aged' \subseteq aged \cup Ids(runs)
  <2>1. CASE \E id \in 1 .. MaxRuns : TaskEnds(id)
    BY <2>1 DEF TaskEnds, TypeOK
  <2>2. CASE Age
    <3>1. PICK n \in DOMAIN runs : aged' = aged \cup Ids(SubSeq(runs, 1, n))
      BY <2>2 DEF Age
    <3>2. Ids(SubSeq(runs, 1, n)) \subseteq Ids(runs)
      BY DEF Ids, TypeOK
    <3> QED BY <2>2, <3>1, <3>2 DEF Age, TypeOK
  <2>3. CASE Shutdown
    BY <2>3 DEF Shutdown, TypeOK
  <2>4. CASE UNCHANGED vars
    BY <2>4 DEF TypeOK
  <2> QED BY <2>1, <2>2, <2>3, <2>4
<1>2. ~failed /\ life # "down" => tasks' = working' \cap Ids(runs)
  BY DEF TaskEnds, Age, Shutdown, NothingIsLeftBehind
<1>3. TypeOK'
  BY <1>1 DEF TypeOK
<1>4. RunsAreDistinct' /\ UnfinishedHasRow' /\ CapacityIsExact'
  BY <1>1 DEF RunsAreDistinct, UnfinishedHasRow, CapacityIsExact
<1>5. NextIsNew'
  BY <1>1 DEF NextIsNew
<1>6. NothingOutlivesProcess'
  BY <1>1 DEF NothingOutlivesProcess
<1>7. NothingIsLeftBehind'
  BY <1>1, <1>2 DEF NothingIsLeftBehind
<1> QED BY <1>3, <1>4, <1>5, <1>6, <1>7

--------------------------------------------------------------------------------
(* Time and the process. *)

\* A removal that does not fail has released every run.
LEMMA CompleteRemoval ==
  ASSUME NEW gone, NEW removal \in Removals(gone), IsComplete(removal)
  PROVE  removal.released = gone
<1>1. removal.deleted /\ removal.halfway = {}
  BY DEF IsComplete
<1>2. CASE removal \in [deleted : {TRUE}, released : {gone}, halfway : {{}}]
  BY <1>2
<1>3. CASE removal \in [deleted : {FALSE}, released : {{}}, halfway : {{}}]
  BY <1>1, <1>3
<1>4. CASE \E id \in gone :
             removal \in [deleted : {TRUE}, released : SUBSET (gone \ {id}), halfway : {{id}}]
  BY <1>1, <1>4
<1> QED BY <1>2, <1>3, <1>4 DEF Removals

\* cleanup_once
LEMMA CleanupStep ==
  ASSUME RegistryInv, Cleanup
  PROVE  RegistryInv'
<1> USE DEF RegistryInv
<1>1. PICK removal \in Removals(Expired) :
        /\ IF IsComplete(removal) THEN WritesSucceed ELSE WriteFails
        /\ runs' = Without(runs, Expired)
        /\ rows' = RowsAfter(removal, Expired)
        /\ Release(removal)
        /\ cleaner' = IsComplete(removal)
  BY DEF Cleanup
<1>2. /\ aged' = aged \ Expired /\ life = "up"
      /\ UNCHANGED <<life, limit, working, created, answer, restarts>>
  BY DEF Cleanup
<1>3. Expired \cap Active(runs) = {}
  BY DEF Expired
<1>4. faults' \in 0 .. MaxFaults /\ failed' \in BOOLEAN /\ cleaner' \in BOOLEAN
        /\ (~failed' => ~failed /\ IsComplete(removal))
  <2>1. CASE IsComplete(removal)
    BY <1>1, <2>1 DEF WritesSucceed, TypeOK
  <2>2. CASE ~IsComplete(removal)
    <3>1. cleaner' \in BOOLEAN
      BY <1>1, <2>2 DEF IsComplete
    <3> QED BY <1>1, <2>2, <3>1, Bounds DEF WriteFails, TypeOK
  <2> QED BY <2>1, <2>2
<1>5. /\ TypeOK' /\ RunsAreDistinct' /\ NextIsNew' /\ NothingOutlivesProcess'
      /\ UnfinishedHasRow' /\ CapacityIsExact'
  BY <1>1, <1>2, <1>3, <1>4, RemovalKeeps
<1>6. NothingIsLeftBehind'
  <2> SUFFICES ASSUME ~failed'
               PROVE  /\ Ids(rows') = Ids(runs') /\ Active(rows') = Active(runs')
                      /\ streams' = Ids(runs') /\ held' = Ids(runs')
                      /\ events' \subseteq Ids(runs')
                      /\ tasks' = working' \cap Ids(runs')
    BY DEF NothingIsLeftBehind
  <2>1. /\ Ids(rows) = Ids(runs) /\ Active(rows) = Active(runs)
        /\ streams = Ids(runs) /\ held = Ids(runs)
        /\ events \subseteq Ids(runs) /\ tasks = working \cap Ids(runs)
    BY <1>2, <1>4 DEF NothingIsLeftBehind
  <2>2. removal.deleted /\ removal.halfway = {}
    BY <1>4 DEF IsComplete
  <2>3. removal.released = Expired
    BY <1>4, CompleteRemoval
  <2>4. rows' = Without(rows, Expired)
    BY <1>1, <2>2 DEF RowsAfter
  <2>5. /\ Ids(runs') = Ids(runs) \ Expired /\ Ids(rows') = Ids(rows) \ Expired
        /\ Active(runs') = Active(runs) /\ Active(rows') = Active(rows) \ Expired
    BY <1>1, <1>3, <2>4, Shrinks
  <2>6. Ids(rows') = Ids(runs') /\ Active(rows') = Active(runs')
    BY <1>3, <2>1, <2>5
  <2>7. /\ streams' = streams \ Expired /\ held' = held \ Expired /\ tasks' = tasks \ Expired
        /\ events' = events \ Expired /\ working' = working
    BY <1>1, <1>2, <2>2, <2>3 DEF Release
  <2> HIDE DEF RegistryInv
  <2> QED BY <2>1, <2>5, <2>6, <2>7
<1> QED BY <1>5, <1>6

\* The process ends.
LEMMA GoneStep ==
  ASSUME RegistryInv, Gone, rows' \in Seq(StoredRuns), HasNoRepeats(rows'),
         Ids(rows') \subseteq Ids(rows), events' \subseteq 1 .. created
  PROVE  RegistryInv'
<1> USE DEF RegistryInv, Gone, history
<1>1. /\ Ids(runs') = {} /\ Active(runs') = {} /\ runs' \in Seq(StoredRuns) /\ Len(runs') = 0
  BY DEF Ids, Active, Range
<1>2. TypeOK'
  BY <1>1 DEF TypeOK
<1>3. RunsAreDistinct'
  BY DEF RunsAreDistinct, HasNoRepeats
<1>4. NextIsNew' /\ NothingOutlivesProcess' /\ UnfinishedHasRow'
  BY <1>1 DEF NextIsNew, NothingOutlivesProcess, UnfinishedHasRow
<1>5. CapacityIsExact'
  <2>1. Cardinality({}) = 0
    BY FS_EmptySet
  <2>2. limit \in Nat /\ limit' = limit /\ answer' = answer
    BY Bounds DEF TypeOK
  <2>3. Cardinality(Active(runs')) = 0
    BY <1>1, <2>1
  <2> HIDE DEF Gone
  <2> QED BY <1>1, <2>2, <2>3, Bounds DEF CapacityIsExact
<1>6. NothingIsLeftBehind'
  BY DEF NothingIsLeftBehind
<1> QED BY <1>2, <1>3, <1>4, <1>5, <1>6

\* The ways it ends, and what each leaves in the database.
LEMMA EndStep ==
  ASSUME RegistryInv, Close \/ Crash \/ CrashInCommit \/ CrashInRemoval
  PROVE  RegistryInv'
<1>1. /\ rows \in Seq(StoredRuns) /\ HasNoRepeats(rows) /\ events \subseteq 1 .. created
      /\ Ids(runs) \subseteq 1 .. created
  BY DEF RegistryInv, TypeOK, RunsAreDistinct, NextIsNew
<1>2. CASE Close \/ Crash
  BY <1>1, <1>2, GoneStep DEF Close, Crash, database
<1>3. CASE CrashInCommit
  BY <1>1, <1>3, GoneStep DEF CrashInCommit
<1>4. CASE CrashInRemoval
  <2>1. PICK gone \in {Evicted(1), Expired} : \E removal \in Removals(gone) :
          rows' = RowsAfter(removal, gone) /\ events' = events \ removal.released
    BY <1>4 DEF CrashInRemoval
  <2>2. gone \cap Active(runs) = {}
    BY <2>1, MakeRoom DEF Expired
  <2>3. rows' \in {rows, Without(rows, gone)} /\ events' \subseteq events
    BY <2>1 DEF RowsAfter
  <2>4. /\ Without(rows, gone) \in Seq(StoredRuns) /\ HasNoRepeats(Without(rows, gone))
        /\ Ids(Without(rows, gone)) = Ids(rows) \ gone
    BY <2>2, Shrinks
  <2> QED BY <1>1, <1>4, <2>3, <2>4, GoneStep DEF CrashInRemoval
<1> QED BY <1>2, <1>3, <1>4

\* What stands behind the first of two sequences is the second.
LEMMA BehindTheFirst ==
  ASSUME NEW S, NEW p \in Seq(S), NEW q \in Seq(S), NEW k \in 1 .. Len(q)
  PROVE  (p \o q)[Len(p) + k] = q[k]
OBVIOUS

\* What is loaded: the same runs, all of them over, and behind those that were over
\* already the ones that were not.
LEMMA LoadedIs ==
  ASSUME NEW s \in Seq(StoredRuns), HasNoRepeats(s)
  PROVE  /\ Loaded(s) \in Seq(StoredRuns) /\ HasNoRepeats(Loaded(s))
         /\ Ids(Loaded(s)) = Ids(s) /\ Len(Loaded(s)) = Len(s)
         /\ \A n \in DOMAIN Loaded(s) : Loaded(s)[n].over
         /\ \A n \in DOMAIN Loaded(s) :
              Loaded(s)[n].id \in Active(s) => Len(s) - Cardinality(Active(s)) < n
<1> DEFINE F == Finished(s)
           U == DOMAIN s \ F
           a == Selected(s, F)
           u == Selected(s, U)
           v == Reverse([n \in DOMAIN u |-> [id |-> u[n].id, over |-> TRUE]])
           l == Loaded(s)
<1>1. /\ Len(s) \in Nat /\ DOMAIN s = 1 .. Len(s)
      /\ \A n \in DOMAIN s : s[n].id \in 1 .. MaxRuns /\ s[n].over \in BOOLEAN
  BY StoredIs
<1>2. F \in SUBSET DOMAIN s /\ U \in SUBSET DOMAIN s /\ F \cap U = {} /\ F \cup U = DOMAIN s
        /\ (\A n \in F : s[n].over) /\ (\A n \in U : ~s[n].over)
  BY DEF Finished
<1>3. l = a \o v
  BY DEF Loaded
<1> HIDE DEF F, U, l
<1>4. /\ a \in Seq(StoredRuns) /\ Len(a) = Cardinality(F) /\ Cardinality(F) \in Nat
      /\ IsFiniteSet(F)
      /\ \A k \in 1 .. Cardinality(F) : Nth(F, k) \in F /\ a[k] = s[Nth(F, k)]
      /\ \A n \in F : \E k \in 1 .. Cardinality(F) : Nth(F, k) = n
      /\ \A j, k \in 1 .. Cardinality(F) : Nth(F, j) = Nth(F, k) => j = k
  BY <1>1, <1>2, SelectedIs
<1>5. /\ u \in Seq(StoredRuns) /\ Len(u) = Cardinality(U) /\ Cardinality(U) \in Nat
      /\ IsFiniteSet(U)
      /\ \A k \in 1 .. Cardinality(U) : Nth(U, k) \in U /\ u[k] = s[Nth(U, k)]
      /\ \A n \in U : \E k \in 1 .. Cardinality(U) : Nth(U, k) = n
      /\ \A j, k \in 1 .. Cardinality(U) : Nth(U, j) = Nth(U, k) => j = k
  BY <1>1, <1>2, SelectedIs
<1> HIDE DEF a, u
<1> DEFINE f == Cardinality(F)
           c == Cardinality(U)
           Back(k) == c - k + 1
<1>6. DOMAIN u = 1 .. c /\ Len(u) = c /\ c \in Nat
  BY <1>5
<1>7. /\ v = [k \in 1 .. c |-> [id |-> u[Back(k)].id, over |-> TRUE]]
      /\ \A k \in 1 .. c : Back(k) \in 1 .. c /\ Back(Back(k)) = k
  <2> DEFINE w == [n \in DOMAIN u |-> [id |-> u[n].id, over |-> TRUE]]
  <2>1. w = [n \in 1 .. c |-> [id |-> u[n].id, over |-> TRUE]]
    BY <1>6
  <2>2. Len(w) = c /\ \A n \in 1 .. c : w[n] = [id |-> u[n].id, over |-> TRUE]
    BY <1>6, <2>1
  <2> HIDE DEF w, c
  <2>3. \A k \in 1 .. c : Back(k) \in 1 .. c /\ Back(Back(k)) = k
    BY <1>6
  <2>4. v = [k \in 1 .. c |-> w[Back(k)]]
    BY <1>6, <2>2 DEF Reverse, w
  <2> QED BY <2>2, <2>3, <2>4
<1>8. v \in Seq(StoredRuns) /\ Len(v) = c
      /\ \A k \in 1 .. c : v[k].over /\ v[k].id = s[Nth(U, Back(k))].id
  <2>1. \A k \in 1 .. c : v[k] = [id |-> u[Back(k)].id, over |-> TRUE]
    BY <1>7
  <2>2. \A k \in 1 .. c : u[Back(k)].id = s[Nth(U, Back(k))].id
                            /\ u[Back(k)].id \in 1 .. MaxRuns
    BY SMTT(30), <1>1, <1>2, <1>5, <1>7
  <2>3. \A k \in 1 .. c : [id |-> u[Back(k)].id, over |-> TRUE] \in StoredRuns
    BY <2>2 DEF StoredRuns
  <2> HIDE DEF c, Back, v
  <2>4. v \in Seq(StoredRuns) /\ Len(v) = c
    BY <1>6, <1>7, <2>3
  <2>5. \A k \in 1 .. c : v[k].over /\ v[k].id = u[Back(k)].id
    <3> SUFFICES ASSUME NEW k \in 1 .. c
                 PROVE  v[k].over /\ v[k].id = u[Back(k)].id
      OBVIOUS
    <3> DEFINE i == u[Back(k)].id
    <3>1. v[k] = [id |-> i, over |-> TRUE]
      BY <2>1
    <3> HIDE DEF i
    <3>2. v[k].id = i /\ v[k].over = TRUE
      BY <3>1
    <3> QED BY <3>2 DEF i
  <2> QED BY <2>2, <2>4, <2>5
<1> HIDE DEF v
\* The position in s of what is at position k of the result.
<1> DEFINE P(k) == IF k <= f THEN Nth(F, k) ELSE Nth(U, Back(k - f))
<1>9. f + c = Len(s)
  <2>1. Cardinality(F \cup U) = Cardinality(F) + Cardinality(U)
    <3>1. Cardinality(F \cap U) = 0
      BY <1>2, FS_EmptySet
    <3>2. Cardinality(F \cup U) = Cardinality(F) + Cardinality(U) - Cardinality(F \cap U)
      BY <1>4, <1>5, FS_Union
    <3> QED BY <1>4, <1>5, <3>1, <3>2
  <2>2. Cardinality(1 .. Len(s)) = Len(s)
    BY SMTT(30), <1>1, FS_Interval
  <2> QED BY <1>1, <1>2, <2>1, <2>2
<1>10. l \in Seq(StoredRuns) /\ Len(l) = f + c /\ DOMAIN l = 1 .. (f + c)
  <2>1. l \in Seq(StoredRuns) /\ Len(l) = Len(a) + Len(v)
    BY <1>3, <1>4, <1>8
  <2> QED BY <1>4, <1>8, <2>1
<1>11. ASSUME NEW k \in 1 .. (f + c)
       PROVE  /\ P(k) \in DOMAIN s /\ l[k].over /\ l[k].id = s[P(k)].id
              /\ P(k) \in F <=> k <= f
  <2>1. CASE k <= f
    <3>1. k \in 1 .. f /\ l[k] = a[k]
      BY <1>3, <1>4, <1>8, <2>1
    <3>2. P(k) \in F /\ l[k] = s[P(k)]
      BY <1>4, <2>1, <3>1
    <3> QED BY <1>2, <2>1, <3>2
  <2>2. CASE ~(k <= f)
    <3>1. k - f \in 1 .. c /\ l[k] = v[k - f]
      <4>1. k - f \in 1 .. c
        BY <1>4, <1>6, <2>2
      <4>2. a \in Seq(StoredRuns) /\ v \in Seq(StoredRuns) /\ Len(a) = f /\ Len(v) = c
        BY <1>4, <1>8
      <4>3. Len(a) + (k - f) = k /\ k - f \in 1 .. Len(v)
        BY <1>4, <1>6, <4>1, <4>2
      <4>4. (a \o v)[k] = v[k - f]
        BY <4>2, <4>3, BehindTheFirst
      <4> QED BY <1>3, <4>1, <4>2, <4>4
    <3>2. P(k) \in U /\ l[k].over /\ l[k].id = s[P(k)].id
      BY <1>5, <1>7, <1>8, <2>2, <3>1
    <3> QED BY <1>2, <2>2, <3>2
  <2> QED BY <2>1, <2>2
<1>12. ASSUME NEW j \in 1 .. (f + c), NEW k \in 1 .. (f + c), P(j) = P(k)
       PROVE  j = k
  <2>1. j <= f <=> k <= f
    BY <1>11, <1>12
  <2>2. CASE j <= f
    <3>1. j \in 1 .. f /\ k \in 1 .. f /\ Nth(F, j) = Nth(F, k)
      BY <1>4, <1>12, <2>1, <2>2
    <3> QED BY <1>4, <3>1
  <2>3. CASE ~(j <= f)
    <3>1. j - f \in 1 .. c /\ k - f \in 1 .. c
      BY <1>4, <1>6, <2>1, <2>3
    <3>2. Nth(U, Back(j - f)) = Nth(U, Back(k - f))
      BY <1>12, <2>1, <2>3
    <3>3. Back(j - f) = Back(k - f)
      BY <1>5, <1>7, <3>1, <3>2
    <3>4. j - f = k - f
      BY <1>7, <3>1, <3>3
    <3> QED BY <1>4, <3>4
  <2> QED BY <2>2, <2>3
<1>13. ASSUME NEW n \in DOMAIN s PROVE \E k \in 1 .. (f + c) : P(k) = n
  <2>1. CASE n \in F
    <3>1. PICK k \in 1 .. f : Nth(F, k) = n
      BY <1>4, <2>1
    <3>2. k \in 1 .. (f + c) /\ k <= f
      BY <1>4, <1>6
    <3> QED BY <3>1, <3>2
  <2>2. CASE n \in U
    <3>1. PICK k \in 1 .. c : Nth(U, k) = n
      BY <1>5, <2>2
    <3>2. Back(k) \in 1 .. c /\ Back(Back(k)) = k
      BY <1>7
    <3>3. Back(k) + f \in 1 .. (f + c) /\ ~(Back(k) + f <= f) /\ (Back(k) + f) - f = Back(k)
      BY <1>4, <1>6, <3>2
    <3>4. P(Back(k) + f) = n
      BY <3>1, <3>2, <3>3
    <3> QED BY <3>3, <3>4
  <2> QED BY <1>2, <2>1, <2>2
<1> HIDE DEF P
<1>14. HasNoRepeats(l)
  BY <1>10, <1>11, <1>12 DEF HasNoRepeats
<1>15. Ids(l) = Ids(s)
  <2>1. ASSUME NEW k \in DOMAIN l PROVE \E n \in DOMAIN s : s[n].id = l[k].id
    BY <1>10, <1>11
  <2>2. ASSUME NEW n \in DOMAIN s PROVE \E k \in DOMAIN l : l[k].id = s[n].id
    <3>1. PICK k \in 1 .. (f + c) : P(k) = n
      BY <1>13
    <3> QED BY <1>10, <1>11, <3>1
  <2> QED BY <2>1, <2>2 DEF Ids
<1>16. c <= Cardinality(Active(s))
  <2> DEFINE g == [n \in U |-> s[n].id]
  <2>1. g \in Injection(U, Active(s))
    BY <1>1, <1>2, StoredIs DEF Injection, IsInjective, HasNoRepeats
  <2> QED BY <2>1, ActiveIsFinite, FS_Injection
<1>17. ASSUME NEW n \in DOMAIN l, l[n].id \in Active(s) PROVE Len(s) - Cardinality(Active(s)) < n
  <2>1. n \in 1 .. (f + c) /\ P(n) \in DOMAIN s /\ l[n].id = s[P(n)].id
    BY <1>10, <1>11
  <2>2. PICK m \in DOMAIN s : s[m].id = l[n].id /\ ~s[m].over
    BY <1>17, StoredIs
  <2>3. P(n) \notin F
    BY <1>2, <2>1, <2>2 DEF HasNoRepeats
  <2>4. ~(n <= f)
    BY <1>11, <2>1, <2>3
  <2>5. Cardinality(Active(s)) \in Nat
    BY ActiveIsFinite
  <2> QED BY <1>1, <1>4, <1>6, <1>9, <1>16, <2>1, <2>4, <2>5
<1> QED BY <1>9, <1>10, <1>11, <1>14, <1>15, <1>17 DEF l

\* A store of finished runs, trimmed to a limit, keeps the last of them.
LEMMA TrimmedIs ==
  ASSUME NEW s \in Seq(StoredRuns), HasNoRepeats(s), \A n \in DOMAIN s : s[n].over,
         NEW max \in Nat
  PROVE  LET t == Without(s, Evictable(s, Len(s) - max))
         IN  /\ Len(t) <= max
             /\ \A n \in DOMAIN s : Len(s) - max < n => s[n].id \in Ids(t)
<1> DEFINE needed == Len(s) - max
           E == Evictable(s, needed)
           t == Without(s, E)
           K == {n \in DOMAIN s : s[n].id \notin E}
<1>1. /\ Len(s) \in Nat /\ DOMAIN s = 1 .. Len(s) /\ needed \in Int
  BY StoredIs
<1>2. Finished(s) = DOMAIN s
  BY DEF Finished
<1>3. ASSUME NEW n \in DOMAIN s PROVE Cardinality(Finished(s) \cap 1 .. n) = n
  <2>1. n \in Nat /\ Finished(s) \cap 1 .. n = 1 .. n
    BY <1>1, <1>2
  <2>2. Cardinality(1 .. n) = n
    BY <2>1, FS_Interval
  <2> QED BY <2>1, <2>2
<1>4. \A n \in DOMAIN s : s[n].id \in E <=> n <= needed
  <2>1. ASSUME NEW n \in DOMAIN s, n <= needed PROVE s[n].id \in E
    BY <1>2, <1>3, <2>1 DEF Evictable
  <2>2. ASSUME NEW n \in DOMAIN s, s[n].id \in E PROVE n <= needed
    <3>1. PICK m \in DOMAIN s : s[m].id = s[n].id /\ Cardinality(Finished(s) \cap 1 .. m) <= needed
      BY <1>2, <2>2 DEF Evictable
    <3>2. m = n
      BY <3>1 DEF HasNoRepeats
    <3> QED BY <1>3, <3>1, <3>2
  <2> QED BY <2>1, <2>2
<1>5. K \in SUBSET DOMAIN s /\ t = Selected(s, K)
  BY DEF Without
<1>6. \A n \in K : n \in DOMAIN s /\ ~(n <= needed)
  BY <1>4
<1> HIDE DEF needed, E, t, K
<1>7. Len(t) = Cardinality(K) /\ Cardinality(K) \in 0 .. Len(s)
  BY <1>5, SelectedIs
<1>8. Cardinality(K) <= max
  <2>1. CASE needed <= 0
    BY <1>1, <1>7, <2>1 DEF needed
  <2>2. CASE ~(needed <= 0)
    <3>1. K \in SUBSET ((needed + 1) .. Len(s))
      BY <1>1, <1>6
    <3>2. /\ IsFiniteSet((needed + 1) .. Len(s))
          /\ Cardinality((needed + 1) .. Len(s)) = max
      BY <1>1, <2>2, FS_Interval DEF needed
    <3> QED BY <3>1, <3>2, FS_Subset
  <2> QED BY <2>1, <2>2
<1>9. ASSUME NEW n \in DOMAIN s, needed < n PROVE s[n].id \in Ids(t)
  <2>1. s[n].id \in Ids(s) /\ s[n].id \notin E
    BY <1>1, <1>4, <1>9 DEF Ids
  <2> QED BY <2>1, WithoutIs DEF t
<1> QED BY <1>7, <1>8, <1>9 DEF needed, E, t

\* The server starts.
LEMMA RestartStep ==
  ASSUME RegistryInv, Restart
  PROVE  /\ RegistryInv'
         /\ \A id \in Active(rows) : id \in Ids(runs') \/ Cardinality(Active(rows)) > limit'
<1> USE DEF RegistryInv
<1> DEFINE loaded == Loaded(rows)
           evicted == Evictable(loaded, Len(loaded) - limit')
           trimmed == Without(loaded, evicted)
<1>1. /\ life = "down" /\ life' = "up" /\ limit' \in Limits /\ restarts' = restarts + 1
      /\ restarts < MaxRestarts /\ cleaner' = TRUE /\ failed' = FALSE /\ answer' = "none"
      /\ runs' = trimmed /\ rows' = trimmed /\ streams' = Ids(trimmed)
      /\ held' = Ids(trimmed) /\ events' = events \cap Ids(trimmed)
      /\ UNCHANGED <<tasks, working, aged, created, faults>>
  BY DEF Restart, Adopted
<1>2. limit' \in Nat /\ rows \in Seq(StoredRuns) /\ HasNoRepeats(rows)
  BY <1>1, Bounds DEF TypeOK, RunsAreDistinct
<1>3. /\ loaded \in Seq(StoredRuns) /\ HasNoRepeats(loaded)
      /\ Ids(loaded) = Ids(rows) /\ Len(loaded) = Len(rows)
      /\ \A n \in DOMAIN loaded : loaded[n].over
      /\ \A n \in DOMAIN loaded :
           loaded[n].id \in Active(rows) => Len(rows) - Cardinality(Active(rows)) < n
  BY <1>2, LoadedIs
<1> HIDE DEF loaded
<1>4. /\ Len(trimmed) <= limit'
      /\ \A n \in DOMAIN loaded : Len(loaded) - limit' < n => loaded[n].id \in Ids(trimmed)
  BY <1>2, <1>3, TrimmedIs
<1>5. /\ trimmed \in Seq(StoredRuns) /\ HasNoRepeats(trimmed)
      /\ Ids(trimmed) \subseteq Ids(rows) /\ Active(trimmed) = {}
  <2>1. Active(loaded) = {}
    BY <1>3, StoredIs
  <2> QED BY <1>3, <2>1, WithoutIs
<1> HIDE DEF trimmed
<1>6. TypeOK'
  <2>1. restarts' \in 0 .. MaxRestarts
    BY <1>1, Bounds DEF TypeOK
  <2> QED BY <1>1, <1>5, <2>1 DEF TypeOK
<1>7. RunsAreDistinct'
  BY <1>1, <1>5 DEF RunsAreDistinct
<1>8. NextIsNew'
  BY <1>1, <1>5 DEF NextIsNew
<1>9. NothingOutlivesProcess'
  BY <1>1 DEF NothingOutlivesProcess
<1>10. UnfinishedHasRow'
  BY <1>1, <1>5 DEF UnfinishedHasRow
<1>11. CapacityIsExact'
  <2>1. Cardinality(Active(runs')) = 0
    BY <1>1, <1>5, FS_EmptySet
  <2> QED BY <1>1, <1>4, <2>1, Bounds DEF CapacityIsExact
<1>12. NothingIsLeftBehind'
  BY <1>1 DEF NothingIsLeftBehind, NothingOutlivesProcess
<1>13. ASSUME NEW id \in Active(rows), Cardinality(Active(rows)) <= limit'
       PROVE  id \in Ids(runs')
  <2>1. id \in Ids(loaded)
    BY <1>2, <1>3, StoredIs
  <2>2. PICK n \in DOMAIN loaded : loaded[n].id = id
    BY <2>1 DEF Ids
  <2>3. n \in Nat /\ Len(rows) \in Nat /\ Cardinality(Active(rows)) \in Nat
    BY <1>2, <1>3, StoredIs, ActiveIsFinite
  <2>4. Len(loaded) - limit' < n
    BY <1>2, <1>3, <1>13, <2>2, <2>3
  <2> QED BY <1>1, <1>4, <2>2, <2>4
<1>14. limit' \in Int /\ Cardinality(Active(rows)) \in Int
  BY <1>2, ActiveIsFinite
<1> QED
  BY <1>6, <1>7, <1>8, <1>9, <1>10, <1>11, <1>12, <1>13, <1>14

--------------------------------------------------------------------------------
(* The theorems. *)

\* The server starts with the invariant.
LEMMA RegistryInit == Init => RegistryInv
<1> SUFFICES ASSUME Init PROVE RegistryInv
  OBVIOUS
<1> USE DEF Init
<1>1. Ids(runs) = {} /\ Ids(rows) = {} /\ Active(runs) = {} /\ Len(runs) = 0
  BY DEF Ids, Active, Range
<1>2. TypeOK
  <2>1. runs \in Seq(StoredRuns) /\ rows \in Seq(StoredRuns)
    OBVIOUS
  <2>2. created \in 0 .. MaxRuns /\ faults \in 0 .. MaxFaults /\ restarts \in 0 .. MaxRestarts
    BY Bounds
  <2>3. cleaner \in BOOLEAN /\ failed \in BOOLEAN
    OBVIOUS
  <2> QED BY <2>1, <2>2, <2>3 DEF TypeOK
<1>3. RunsAreDistinct
  BY DEF RunsAreDistinct, HasNoRepeats
<1>4. NextIsNew /\ NothingOutlivesProcess /\ UnfinishedHasRow
  BY <1>1 DEF NextIsNew, NothingOutlivesProcess, UnfinishedHasRow
<1>5. CapacityIsExact
  <2>1. Cardinality(Active(runs)) = 0
    BY <1>1, FS_EmptySet
  <2> QED BY <1>1, <2>1, Bounds DEF CapacityIsExact
<1>6. NothingIsLeftBehind
  BY <1>1 DEF NothingIsLeftBehind
<1> QED BY <1>2, <1>3, <1>4, <1>5, <1>6 DEF RegistryInv

\* Every step keeps the invariant.
LEMMA RegistryNext == RegistryInv /\ [Next]_vars => RegistryInv'
<1> SUFFICES ASSUME RegistryInv, [Next]_vars PROVE RegistryInv'
  OBVIOUS
<1>1. CASE CreateRefused \/ StoreRefuses
  BY <1>1, RefusedStep
<1>2. CASE CreateFailed
  BY <1>2, CreateFailedStep
<1>3. CASE CreateRun
  BY <1>3, CreateStep
<1>4. ASSUME NEW id \in 1 .. MaxRuns,
             Cancel(id) \/ Commit(id) \/ CommitDelta(id) \/ Finish(id)
      PROVE  RegistryInv'
  BY <1>4, CommitStep
<1>5. CASE (\E id \in 1 .. MaxRuns : TaskEnds(id)) \/ Age \/ Shutdown \/ UNCHANGED vars
  BY <1>5, StoresAlone
<1>6. CASE Cleanup
  BY <1>6, CleanupStep
<1>7. CASE Close \/ Crash \/ CrashInCommit \/ CrashInRemoval
  BY <1>7, EndStep
<1>8. CASE Restart
  BY <1>8, RestartStep
<1> QED BY <1>1, <1>2, <1>3, <1>4, <1>5, <1>6, <1>7, <1>8 DEF Next, TaskStep

\* RegistryInv is inductive.
THEOREM RegistryInvariance == Spec => []RegistryInv
<1>1. Init => RegistryInv
  BY RegistryInit
<1>2. RegistryInv /\ [Next]_vars => RegistryInv'
  BY RegistryNext
<1> QED BY <1>1, <1>2, PTL DEF Spec

\* No more runs are active or kept than may be, and finished runs never stand in the
\* way of a new one.
THEOREM CapacityExact == Spec => []CapacityIsExact
<1>1. RegistryInv => CapacityIsExact
  BY DEF RegistryInv
<1> QED BY <1>1, RegistryInvariance, PTL

\* Without a failed write, memory and database hold the same runs, and nothing else is
\* held for any other run.
THEOREM NoneLeftBehind == Spec => []NothingIsLeftBehind
<1>1. RegistryInv => NothingIsLeftBehind
  BY DEF RegistryInv
<1> QED BY <1>1, RegistryInvariance, PTL

\* A run that is not over, and that the process has, is there after every step, as long
\* as there is a process.
LEMMA StepKeepsActive ==
  ASSUME RegistryInv, Next, life # "down", life' # "down", NEW id \in Active(runs)
  PROVE  id \in Ids(runs')
<1>1. /\ runs \in Seq(StoredRuns) /\ id \in Ids(runs) /\ id \in 1 .. MaxRuns
      /\ id \notin Evicted(1) /\ id \notin Expired
  <2>1. runs \in Seq(StoredRuns)
    BY DEF RegistryInv, TypeOK
  <2> QED BY <2>1, MakeRoom, StoredIs DEF Expired
<1>2. \A gone : id \notin gone => id \in Ids(Without(runs, gone))
  BY <1>1, WithoutIs
<1>3. CASE CreateRefused \/ StoreRefuses
  BY <1>1, <1>3 DEF CreateRefused, StoreRefuses, process
<1>4. CASE CreateFailed
  BY <1>1, <1>2, <1>4 DEF CreateFailed
<1>5. CASE CreateRun
  <2> DEFINE kept == Without(runs, Evicted(1))
             run == [id |-> created + 1, over |-> FALSE]
  <2>1. runs' = kept \/ runs' = Append(kept, run)
    BY <1>5 DEF CreateRun
  <2>2. id \in Ids(kept) /\ kept \in Seq(StoredRuns)
    BY <1>1, <1>2, WithoutIs
  <2> HIDE DEF kept, run
  <2>3. id \in Ids(Append(kept, run))
    BY <2>2 DEF Ids
  <2> QED BY <2>1, <2>2, <2>3
<1>6. ASSUME NEW other \in 1 .. MaxRuns,
             Cancel(other) \/ Commit(other) \/ CommitDelta(other) \/ Finish(other)
      PROVE  id \in Ids(runs')
  <2>1. PICK over \in BOOLEAN : runs' = Touched(runs, other, over)
    <3>1. \/ runs' = Touched(runs, other, TRUE)
          \/ runs' = Touched(runs, other, FALSE)
          \/ runs' = Touched(runs, other, IsOver(other))
      BY <1>6 DEF Cancel, Commit, CommitDelta, Finish, Write, Update
    <3>2. IsOver(other) \in BOOLEAN
      BY DEF IsOver
    <3> QED BY <3>1, <3>2
  <2> QED BY <1>1, <2>1, TouchedIs
<1>7. ASSUME NEW other \in 1 .. MaxRuns, TaskEnds(other) PROVE id \in Ids(runs')
  BY <1>1, <1>7 DEF TaskEnds
<1>8. CASE Age \/ Shutdown
  BY <1>1, <1>8 DEF Age, Shutdown
<1>9. CASE Cleanup
  BY <1>1, <1>2, <1>9 DEF Cleanup
<1>10. ~Close /\ ~Crash /\ ~CrashInCommit /\ ~CrashInRemoval /\ ~Restart
  BY DEF Close, Crash, CrashInCommit, CrashInRemoval, Restart, Gone
<1> QED BY <1>3, <1>4, <1>5, <1>6, <1>7, <1>8, <1>9, <1>10 DEF Next, TaskStep

\* An unfinished run that was accepted is never lost: not to eviction, expiry or a failing
\* write, not to a crash, and to a restart only where there is no room for the
\* interrupted runs alone.
THEOREM NoneLost == Spec => UnfinishedIsKept
<1> DEFINE Kept == \A id \in Active(Stored) :
                     \/ id \in Ids(Stored')
                     \/ life = "down" /\ Cardinality(Active(rows)) > limit'
<1>1. ASSUME RegistryInv, [Next]_vars PROVE [Kept]_vars
  <2>1. /\ runs \in Seq(StoredRuns) /\ rows \in Seq(StoredRuns)
        /\ Active(runs) \subseteq Ids(rows) /\ life \in {"up", "closing", "down"}
        /\ (life = "down" => working = {})
    BY <1>1 DEF RegistryInv, TypeOK, UnfinishedHasRow, NothingOutlivesProcess
  <2>2. CASE UNCHANGED vars
    BY <2>2
  <2>3. CASE Next /\ life = "down"
    <3>1. Restart
      BY <2>1, <2>3 DEF Next, TaskStep, CreateRefused, CreateFailed, StoreRefuses, CreateRun,
                        Cancel, Commit, CommitDelta, Finish, TaskEnds, Age, Cleanup, Shutdown,
                        Close, Crash, CrashInCommit, CrashInRemoval
    <3>2. Stored = rows /\ Stored' = runs'
      BY <2>3, <3>1 DEF Stored, Restart
    <3> QED BY <1>1, <2>3, <3>1, <3>2, RestartStep
  <2>4. CASE Next /\ life # "down" /\ life' = "down"
    <3>1. Close \/ Crash \/ CrashInCommit \/ CrashInRemoval
      BY <2>4 DEF Next, TaskStep, CreateRefused, CreateFailed, StoreRefuses, CreateRun, Write,
                  Update, Cancel, Commit, CommitDelta, Finish, TaskEnds, Age, Cleanup, Shutdown,
                  Restart, process
    <3>2. Active(runs) \subseteq Ids(rows')
      <4>1. CASE ~CrashInRemoval
        BY <2>1, <3>1, <4>1 DEF Close, Crash, CrashInCommit, database
      <4>2. CASE CrashInRemoval
        <5>1. PICK gone \in {Evicted(1), Expired} : \E removal \in Removals(gone) :
                rows' = RowsAfter(removal, gone)
          BY <4>2 DEF CrashInRemoval
        <5>2. gone \cap Active(runs) = {} /\ rows' \in {rows, Without(rows, gone)}
          BY <1>1, <5>1, MakeRoom DEF Expired, RowsAfter
        <5>3. Ids(Without(rows, gone)) = Ids(rows) \ gone
          BY <1>1, <5>2, Shrinks
        <5> QED BY <2>1, <5>2, <5>3
      <4> QED BY <4>1, <4>2
    <3>3. Stored = runs /\ Stored' = rows'
      BY <2>4 DEF Stored
    <3> QED BY <3>2, <3>3
  <2>5. CASE Next /\ life # "down" /\ life' # "down"
    <3>1. Stored = runs /\ Stored' = runs'
      BY <2>5 DEF Stored
    <3> QED BY <1>1, <2>5, <3>1, StepKeepsActive
  <2> QED BY <1>1, <2>2, <2>3, <2>4, <2>5
<1>2. RegistryInv /\ [Next]_vars => [Kept]_vars
  BY <1>1
<1>3. Spec => [][Kept]_vars
  BY <1>2, RegistryInvariance, PTL DEF Spec
<1> QED BY <1>3 DEF UnfinishedIsKept

================================================================================
