-------------------------- MODULE RunProjectionProofs --------------------------
(***************************************************************************)
(* ProjectionInv is an invariant of RunProjection, and what follows from   *)
(* it.  The pages on the way are a function of the page there is and the   *)
(* events still to come; a stretch of the server appends events to them,   *)
(* so it is enough that each commit of the stretch leaves a snapshot that  *)
(* is well formed (SnapshotOK) and a last page that knows what it says     *)
(* (Knows): Good is that invariant of a stretch, and there is one lemma    *)
(* for each kind of commit.  What the snapshot says, and what a page       *)
(* knows, are first brought into a form without maps built from entries    *)
(* (ReviewsOf, ScoresOf, PlansOf, IsBest).                                 *)
(***************************************************************************)
EXTENDS RunProjectionInvariant, NaturalSets

--------------------------------------------------------------------------------
(* The pages on the way. *)

\* The function Pages chooses exists: it is built up event by event.
LEMMA PagesAre ==
  ASSUME NEW view, NEW events, Len(events) \in Nat
  PROVE  /\ DOMAIN Pages(view, events) = 0 .. Len(events)
         /\ Pages(view, events)[0] = view
         /\ \A n \in 1 .. Len(events) :
              Pages(view, events)[n] = EventReceived(Pages(view, events)[n - 1], events[n])
<1> DEFINE Is(f, m) == f = [n \in 0 .. m |-> IF n = 0 THEN view
                                             ELSE EventReceived(f[n - 1], events[n])]
           E == {m \in Nat : \E f : Is(f, m)}
<1>1. 0 \in E
  <2>1. Is([n \in 0 .. 0 |-> view], 0)
    OBVIOUS
  <2> QED BY <2>1
<1>2. ASSUME NEW m \in Nat, m \in E PROVE m + 1 \in E
  <2>1. PICK f : Is(f, m)
    BY <1>2
  <2> DEFINE g == [n \in 0 .. m + 1 |-> IF n = m + 1 THEN EventReceived(f[m], events[m + 1])
                                        ELSE f[n]]
  <2>2. ASSUME NEW n \in 0 .. m + 1
        PROVE  g[n] = IF n = 0 THEN view ELSE EventReceived(g[n - 1], events[n])
    <3>1. CASE n = m + 1
      <4>1. m \in 0 .. m + 1 /\ m # m + 1 /\ n - 1 = m
        BY <3>1
      <4> QED BY <3>1, <4>1
    <3>2. CASE n \in 0 .. m
      <4>1. g[n] = f[n]
        BY <3>2
      <4>2. f[n] = IF n = 0 THEN view ELSE EventReceived(f[n - 1], events[n])
        BY <2>1, <3>2
      <4>3. n # 0 => n - 1 \in 0 .. m + 1 /\ n - 1 # m + 1
        BY <3>2
      <4> QED BY <4>1, <4>2, <4>3
    <3> QED BY <3>1, <3>2
  <2>3. Is(g, m + 1)
    <3>1. g = [n \in 0 .. m + 1 |-> g[n]]
      OBVIOUS
    <3> HIDE DEF g
    <3> QED BY <2>2, <3>1
  <2>4. \E h : Is(h, m + 1)
    <3> HIDE DEF Is, g
    <3> QED BY <2>3
  <2> HIDE DEF Is
  <2> QED BY <2>4
<1>3. Nat \subseteq E
  <2> HIDE DEF E
  <2> QED BY <1>1, <1>2, InductiveSet
<1>4. \E f : Is(f, Len(events))
  BY <1>3
<1>5. Is(Pages(view, events), Len(events))
  BY <1>4 DEF Pages
<1> DEFINE P == Pages(view, events)
<1>6. P = [n \in 0 .. Len(events) |-> IF n = 0 THEN view ELSE EventReceived(P[n - 1], events[n])]
  BY <1>5
<1> HIDE DEF P
<1>7. /\ DOMAIN P = 0 .. Len(events) /\ P[0] = view
      /\ \A n \in 1 .. Len(events) : P[n] = EventReceived(P[n - 1], events[n])
  BY <1>6
<1> QED BY <1>7 DEF P

\* Two logs that begin alike have the same pages as long as they do.
LEMMA PagesOfTheSame ==
  ASSUME NEW view, NEW events, NEW others, Len(events) \in Nat, Len(others) \in Nat,
         NEW m \in Nat, m <= Len(events), m <= Len(others),
         \A k \in 1 .. m : events[k] = others[k]
  PROVE  \A n \in 0 .. m : Pages(view, events)[n] = Pages(view, others)[n]
<1> DEFINE P == Pages(view, events)
           Q == Pages(view, others)
           E == {n \in Nat : n <= m => P[n] = Q[n]}
<1>1. P[0] = Q[0]
  BY PagesAre
<1>2. ASSUME NEW n \in Nat, n \in E, n + 1 <= m PROVE P[n + 1] = Q[n + 1]
  <2>1. /\ P[n + 1] = EventReceived(P[n], events[n + 1])
        /\ Q[n + 1] = EventReceived(Q[n], others[n + 1])
    <3>1. n + 1 \in 1 .. Len(events) /\ n + 1 \in 1 .. Len(others) /\ (n + 1) - 1 = n
      BY <1>2
    <3> QED BY <3>1, PagesAre
  <2>2. P[n] = Q[n] /\ events[n + 1] = others[n + 1]
    BY <1>2
  <2> QED BY <2>1, <2>2
<1>3. 0 \in E /\ \A n \in Nat : n \in E => n + 1 \in E
  <2> HIDE DEF P, Q
  <2> QED BY <1>1, <1>2
<1> HIDE DEF P, Q
<1>4. Nat \subseteq E
  <2> HIDE DEF E
  <2> QED BY <1>3, InductiveSet
<1> QED BY <1>4 DEF P, Q

\* The pages from some event on are those of the rest of the log.
LEMMA PagesOfTheRest ==
  ASSUME NEW view, NEW events, NEW rest, Len(events) \in Nat, Len(rest) \in Nat,
         NEW at \in Nat, at + Len(rest) = Len(events),
         \A k \in 1 .. Len(rest) : rest[k] = events[at + k],
         NEW page, page = Pages(view, events)[at]
  PROVE  \A n \in 0 .. Len(rest) : Pages(page, rest)[n] = Pages(view, events)[at + n]
<1> DEFINE P == Pages(view, events)
           Q == Pages(page, rest)
           E == {n \in Nat : n <= Len(rest) => Q[n] = P[at + n]}
<1>1. Q[0] = P[at + 0]
  BY PagesAre
<1>2. ASSUME NEW n \in Nat, n \in E, n + 1 <= Len(rest) PROVE Q[n + 1] = P[at + (n + 1)]
  <2>1. /\ Q[n + 1] = EventReceived(Q[n], rest[n + 1])
        /\ P[at + (n + 1)] = EventReceived(P[at + n], events[at + (n + 1)])
    <3>1. /\ n + 1 \in 1 .. Len(rest) /\ at + (n + 1) \in 1 .. Len(events)
          /\ (n + 1) - 1 = n /\ (at + (n + 1)) - 1 = at + n
      BY <1>2
    <3>2. Q[n + 1] = EventReceived(Q[(n + 1) - 1], rest[n + 1])
      BY <3>1, PagesAre
    <3>3. P[at + (n + 1)] = EventReceived(P[(at + (n + 1)) - 1], events[at + (n + 1)])
      BY <3>1, PagesAre
    <3> QED BY <3>1, <3>2, <3>3
  <2>2. Q[n] = P[at + n] /\ rest[n + 1] = events[at + (n + 1)]
    BY <1>2
  <2> QED BY <2>1, <2>2
<1>3. 0 \in E /\ \A n \in Nat : n \in E => n + 1 \in E
  <2> HIDE DEF P, Q
  <2> QED BY <1>1, <1>2
<1> HIDE DEF P, Q
<1>4. Nat \subseteq E
  <2> HIDE DEF E
  <2> QED BY <1>3, InductiveSet
<1> QED BY <1>4 DEF P, Q

\* Sequences of events, whatever the events are.
IsLog(s) == s \in Seq(Range(s))

\* A sequence is one of its own entries.
LEMMA LogOf ==
  ASSUME NEW S, NEW s \in Seq(S)
  PROVE  IsLog(s)
<1>1. /\ Len(s) \in Nat /\ s \in [1 .. Len(s) -> S] /\ DOMAIN s = 1 .. Len(s)
  BY LenProperties
<1>2. s \in [1 .. Len(s) -> Range(s)]
  BY <1>1 DEF Range
<1> QED BY <1>1, <1>2, SeqDef DEF IsLog

\* What Append, Head and Tail do to a log.
LEMMA LogsGrow ==
  ASSUME NEW s, IsLog(s)
  PROVE  /\ Len(s) \in Nat /\ s = <<>> <=> Len(s) = 0
         /\ \A e : /\ IsLog(Append(s, e)) /\ Len(Append(s, e)) = Len(s) + 1
                   /\ Append(s, e)[Len(s) + 1] = e
                   /\ \A k \in 1 .. Len(s) : Append(s, e)[k] = s[k]
         /\ s # <<>> => /\ IsLog(Tail(s)) /\ Len(Tail(s)) = Len(s) - 1 /\ Head(s) = s[1]
                        /\ \A k \in 1 .. Len(Tail(s)) : Tail(s)[k] = s[k + 1]
<1>1. Len(s) \in Nat /\ (s = <<>> <=> Len(s) = 0) /\ s \in Seq(Range(s))
  BY EmptySeq, LenProperties DEF IsLog
<1>2. ASSUME NEW e
      PROVE  /\ IsLog(Append(s, e)) /\ Len(Append(s, e)) = Len(s) + 1
             /\ Append(s, e)[Len(s) + 1] = e
             /\ \A k \in 1 .. Len(s) : Append(s, e)[k] = s[k]
  <2> DEFINE T == Range(s) \cup {e}
  <2>1. s \in Seq(T) /\ e \in T
    BY <1>1, SeqMonotonic
  <2> HIDE DEF T
  <2>2. /\ Append(s, e) \in Seq(T) /\ Len(Append(s, e)) = Len(s) + 1
        /\ Append(s, e)[Len(s) + 1] = e
        /\ \A k \in 1 .. Len(s) : Append(s, e)[k] = s[k]
    BY <2>1, AppendOne
  <2>3. IsLog(Append(s, e))
    BY <2>2, LogOf
  <2> QED BY <2>2, <2>3
<1>3. ASSUME s # <<>>
      PROVE  /\ IsLog(Tail(s)) /\ Len(Tail(s)) = Len(s) - 1 /\ Head(s) = s[1]
             /\ \A k \in 1 .. Len(Tail(s)) : Tail(s)[k] = s[k + 1]
  <2>1. /\ Tail(s) \in Seq(Range(s)) /\ Len(Tail(s)) = Len(s) - 1
        /\ \A k \in 1 .. Len(Tail(s)) : Tail(s)[k] = s[k + 1]
    BY <1>1, <1>3, HeadTailProperties
  <2>2. Head(s) = s[1]
    BY <1>1, <1>3
  <2> QED BY <2>1, <2>2, LogOf
<1> QED BY <1>1, <1>2, <1>3

\* What stands where when a log is put behind another.
LEMMA LogsJoin ==
  ASSUME NEW s, NEW t, IsLog(s), IsLog(t)
  PROVE  /\ IsLog(s \o t) /\ Len(s \o t) = Len(s) + Len(t)
         /\ \A k \in 1 .. Len(s) : (s \o t)[k] = s[k]
         /\ \A k \in 1 .. Len(t) : (s \o t)[Len(s) + k] = t[k]
<1> DEFINE T == Range(s) \cup Range(t)
<1>1. s \in Seq(T) /\ t \in Seq(T) /\ Len(s) \in Nat /\ Len(t) \in Nat
  BY SeqMonotonic, LogsGrow DEF IsLog
<1> HIDE DEF T
<1>2. /\ s \o t \in Seq(T) /\ Len(s \o t) = Len(s) + Len(t)
      /\ \A i \in 1 .. Len(s) + Len(t) :
           (s \o t)[i] = IF i <= Len(s) THEN s[i] ELSE t[i - Len(s)]
  BY <1>1, ConcatProperties
<1>3. \A k \in 1 .. Len(s) : (s \o t)[k] = s[k]
  BY <1>1, <1>2
<1>4. ASSUME NEW k \in 1 .. Len(t) PROVE (s \o t)[Len(s) + k] = t[k]
  <2>1. /\ Len(s) + k \in 1 .. Len(s) + Len(t) /\ ~(Len(s) + k <= Len(s))
        /\ (Len(s) + k) - Len(s) = k
    BY <1>1
  <2> QED BY <1>2, <2>1
<1> QED BY <1>2, <1>3, <1>4, LogOf

\* One more event, at the end.
LEMMA PagesAppend ==
  ASSUME NEW view, NEW s, IsLog(s), NEW e
  PROVE  /\ IsLog(Append(s, e)) /\ Len(Append(s, e)) = Len(s) + 1 /\ Len(s) \in Nat
         /\ \A n \in 0 .. Len(s) : Pages(view, Append(s, e))[n] = Pages(view, s)[n]
         /\ Arrived(view, Append(s, e)) = EventReceived(Arrived(view, s), e)
         /\ Pages(view, Append(s, e))[Len(s) + 1] = EventReceived(Arrived(view, s), e)
<1> DEFINE t == Append(s, e)
<1>1. /\ IsLog(t) /\ Len(t) = Len(s) + 1 /\ Len(s) \in Nat /\ t[Len(s) + 1] = e
      /\ \A k \in 1 .. Len(s) : t[k] = s[k]
  BY LogsGrow
<1> HIDE DEF t
<1>2. \A n \in 0 .. Len(s) : Pages(view, t)[n] = Pages(view, s)[n]
  BY <1>1, PagesOfTheSame
<1>3. Pages(view, t)[Len(s) + 1] = EventReceived(Pages(view, t)[Len(s)], e)
  <2>1. Len(t) \in Nat /\ Len(s) + 1 \in 1 .. Len(t) /\ (Len(s) + 1) - 1 = Len(s)
    BY <1>1
  <2> QED BY <1>1, <2>1, PagesAre
<1>4. Pages(view, t)[Len(s)] = Arrived(view, s)
  BY <1>1, <1>2 DEF Arrived
<1> QED BY <1>1, <1>2, <1>3, <1>4 DEF t, Arrived

\* No event, or one less at the beginning.
LEMMA PagesShrink ==
  ASSUME NEW view, NEW s, IsLog(s)
  PROVE  /\ Arrived(view, <<>>) = view /\ Pages(view, <<>>)[0] = view
         /\ Pages(view, s)[0] = view
         /\ s # <<>> =>
              /\ IsLog(Tail(s)) /\ Len(Tail(s)) + 1 = Len(s) /\ Len(Tail(s)) \in Nat
              /\ \A n \in 0 .. Len(Tail(s)) :
                   Pages(EventReceived(view, Head(s)), Tail(s))[n] = Pages(view, s)[n + 1]
              /\ Arrived(EventReceived(view, Head(s)), Tail(s)) = Arrived(view, s)
              /\ Pages(view, s)[1] = EventReceived(view, Head(s))
<1>1. Len(<<>>) = 0 /\ Len(s) \in Nat
  BY LogsGrow, EmptySeq
<1>2. Pages(view, <<>>)[0] = view /\ Pages(view, s)[0] = view
  BY <1>1, PagesAre
<1>3. ASSUME s # <<>>
      PROVE  /\ IsLog(Tail(s)) /\ Len(Tail(s)) + 1 = Len(s) /\ Len(Tail(s)) \in Nat
             /\ \A n \in 0 .. Len(Tail(s)) :
                  Pages(EventReceived(view, Head(s)), Tail(s))[n] = Pages(view, s)[n + 1]
             /\ Arrived(EventReceived(view, Head(s)), Tail(s)) = Arrived(view, s)
             /\ Pages(view, s)[1] = EventReceived(view, Head(s))
  <2> DEFINE t == Tail(s)
  <2>1. /\ IsLog(t) /\ Len(t) = Len(s) - 1 /\ Head(s) = s[1] /\ Len(s) # 0
        /\ \A k \in 1 .. Len(t) : t[k] = s[k + 1]
    BY <1>3, LogsGrow
  <2> HIDE DEF t
  <2>2. Len(t) \in Nat /\ 1 + Len(t) = Len(s) /\ \A k \in 1 .. Len(t) : t[k] = s[1 + k]
    BY <1>1, <2>1
  <2>3. Pages(view, s)[1] = EventReceived(view, Head(s))
    <3>1. 1 \in 1 .. Len(s) /\ 1 - 1 = 0
      BY <1>1, <2>1
    <3>2. Pages(view, s)[1] = EventReceived(Pages(view, s)[1 - 1], s[1])
      BY <1>1, <3>1, PagesAre
    <3> QED BY <1>2, <2>1, <3>1, <3>2
  <2>4. \A n \in 0 .. Len(t) : Pages(Pages(view, s)[1], t)[n] = Pages(view, s)[1 + n]
    <3> DEFINE page == Pages(view, s)[1]
    <3>1. 1 \in Nat /\ Len(s) \in Nat /\ page = Pages(view, s)[1]
      BY <1>1
    <3> HIDE DEF page
    <3>2. \A n \in 0 .. Len(t) : Pages(page, t)[n] = Pages(view, s)[1 + n]
      BY ONLY <2>2, <3>1, PagesOfTheRest
    <3> QED BY <3>2 DEF page
  <2>5. \A n \in 0 .. Len(t) : Pages(EventReceived(view, Head(s)), t)[n] = Pages(view, s)[n + 1]
    <3>1. \A n \in 0 .. Len(t) : 1 + n = n + 1
      OBVIOUS
    <3> QED BY <2>3, <2>4, <3>1
  <2>6. Len(t) \in 0 .. Len(t) /\ Len(t) + 1 = Len(s)
    BY <2>2
  <2> QED BY <2>1, <2>2, <2>3, <2>5, <2>6 DEF t, Arrived
<1> QED BY <1>1, <1>2, <1>3 DEF Arrived

\* One log behind the other.
LEMMA PagesJoin ==
  ASSUME NEW view, NEW s, NEW t, IsLog(s), IsLog(t)
  PROVE  /\ IsLog(s \o t) /\ Len(s \o t) = Len(s) + Len(t)
         /\ Len(s) \in Nat /\ Len(t) \in Nat
         /\ \A n \in 0 .. Len(s) : Pages(view, s \o t)[n] = Pages(view, s)[n]
         /\ \A n \in 0 .. Len(t) :
              Pages(view, s \o t)[Len(s) + n] = Pages(Arrived(view, s), t)[n]
         /\ Arrived(view, s \o t) = Arrived(Arrived(view, s), t)
<1> DEFINE u == s \o t
<1>1. /\ IsLog(u) /\ Len(u) = Len(s) + Len(t)
      /\ \A k \in 1 .. Len(s) : u[k] = s[k]
      /\ \A k \in 1 .. Len(t) : u[Len(s) + k] = t[k]
  BY LogsJoin
<1>2. Len(s) \in Nat /\ Len(t) \in Nat
  BY LogsGrow
<1> HIDE DEF u
<1>3. Len(u) \in Nat /\ Len(s) <= Len(u)
  BY <1>1, <1>2
<1>4. \A n \in 0 .. Len(s) : Pages(view, u)[n] = Pages(view, s)[n]
  <2>1. Len(s) <= Len(s) /\ \A k \in 1 .. Len(s) : u[k] = s[k]
    BY <1>1, <1>2
  <2> QED BY ONLY <1>2, <1>3, <2>1, PagesOfTheSame
<1>5. Pages(view, u)[Len(s)] = Arrived(view, s)
  BY <1>2, <1>4 DEF Arrived
<1>6. \A n \in 0 .. Len(t) :
        Pages(Pages(view, u)[Len(s)], t)[n] = Pages(view, u)[Len(s) + n]
  <2>1. Len(s) + Len(t) = Len(u) /\ \A k \in 1 .. Len(t) : t[k] = u[Len(s) + k]
    BY <1>1
  <2> DEFINE page == Pages(view, u)[Len(s)]
  <2>2. page = Pages(view, u)[Len(s)]
    OBVIOUS
  <2> HIDE DEF page
  <2> DEFINE at == Len(s)
  <2>3. at \in Nat /\ at + Len(t) = Len(u) /\ page = Pages(view, u)[at]
        /\ \A k \in 1 .. Len(t) : t[k] = u[at + k]
    BY <1>2, <2>1, <2>2
  <2> HIDE DEF at
  <2>4. \A n \in 0 .. Len(t) : Pages(page, t)[n] = Pages(view, u)[at + n]
    BY ONLY <1>2, <1>3, <2>3, PagesOfTheRest
  <2> QED BY <2>4 DEF page, at
<1> QED BY <1>1, <1>2, <1>4, <1>5, <1>6 DEF u, Arrived

--------------------------------------------------------------------------------
(* What an event does to a view, whatever it carries. *)

IsView(v) == DOMAIN v = DOMAIN initialRunViewState

\* A view that has logged the event.
Logging(v, e) == [v EXCEPT !.latestSequence = e.sequence, !.events = Logged(@, e),
                           !.error = Null]

\* The fields of a view, which every update of the reducer keeps.
LEMMA ViewFields ==
  ASSUME NEW v, IsView(v)
  PROVE  DOMAIN v = {"runId", "snapshot", "status", "connection", "latestSequence", "events",
                     "drafts", "reviewsByVersion", "scoresByVersion",
                     "revisionPlansBySourceVersion", "bestVersion", "bestScore", "outcome",
                     "selectedVersion", "selectionPinned", "pendingRevisionPlan",
                     "isCreating", "pendingControl", "error"}
BY DEF IsView, initialRunViewState

\* Which operator an event of each kind is for: w is what becomes of n, which has it logged.
Applies(n, w, e, version) ==
  /\ e.event \in {"status_changed", "pause_requested"} => w = StatusChanged(n, e.payload)
  /\ e.event = "run_paused" => w = [n EXCEPT !.status = "PAUSED"]
  /\ e.event = "run_resumed" => w = [n EXCEPT !.status = "OPTIMIZING"]
  /\ e.event = "node_started" => w = NodeStarted(n, e.payload)
  /\ e.event = "prd_stream_reset" => w = PrdStreamReset(n, version, e.payload)
  /\ e.event = "prd_delta" => w = PrdDelta(n, version, e.payload)
  /\ e.event = "prd_generated" => w = PrdGenerated(n, version, e.payload)
  /\ e.event = "review_completed" => w = ReviewCompleted(n, e.iteration, e.payload)
  /\ e.event = "scores_updated" => w = ScoresUpdated(n, e.iteration, e.payload)
  /\ e.event = "revision_planned" => w = RevisionPlanned(n, e.iteration, e.payload)
  /\ e.event = "telemetry_updated" =>
       w = [n EXCEPT !.snapshot = withTelemetry(@, e.payload)]
  /\ e.event = "run_completed" => w = RunEnded(n, e.iteration, e.payload, "COMPLETED")
  /\ e.event = "max_iterations_reached" =>
       w = RunEnded(n, e.iteration, e.payload, "MAX_ITERATIONS_REACHED")
  /\ e.event = "run_cancelled" =>
       w = [n EXCEPT !.status = "CANCELLED", !.connection = "closed"]
  /\ e.event = "run_failed" => w = RunFailed(n, e.payload)
  /\ \/ e.event \in RunEventType \ {"run_started"}
     \/ w = n

\* applyEvent logs the event, then does what the branch of its kind does.
LEMMA AppliedIs ==
  ASSUME NEW v, NEW e
  PROVE  Applies(Logging(v, e), applyEvent(v, e), e, numberPayload(e.payload, "version", e.iteration))
BY DEF Applies, applyEvent, Logging, RunEventType

\* Logging an event touches the number, the list of events and the error.
LEMMA LoggingIs ==
  ASSUME NEW v, IsView(v), NEW e
  PROVE  /\ IsView(Logging(v, e)) /\ Logging(v, e).latestSequence = e.sequence
         /\ Logging(v, e).error = Null
         /\ \A field \in DOMAIN v \ {"latestSequence", "events", "error"} :
              Logging(v, e)[field] = v[field]
<1>1. DOMAIN Logging(v, e) = DOMAIN v
  BY DEF Logging
<1> QED BY <1>1, ViewFields DEF Logging, IsView

\* The reader's choice and what the events say do not mix: an event leaves a pinned
\* version alone, and what else it does does not depend on it.  No draft goes away.
LEMMA SelectionAside ==
  ASSUME NEW v, IsView(v), NEW e, NEW picked
  PROVE  EventReceived(VersionSelected(v, picked), e) = VersionSelected(EventReceived(v, e), picked)
<1> DEFINE n == Logging(v, e)
           m == VersionSelected(n, picked)
           x == VersionSelected(v, picked)
           w == applyEvent(v, e)
           y == applyEvent(x, e)
           version == numberPayload(e.payload, "version", e.iteration)
<1>1. IsView(x) /\ x.runId = v.runId /\ x.status = v.status /\ x.latestSequence = v.latestSequence
  BY ViewFields DEF VersionSelected, IsView
<1>2. IsRelevant(x, e) <=> IsRelevant(v, e)
  BY <1>1 DEF IsRelevant
<1>3. SUFFICES y = VersionSelected(w, picked)
  BY <1>2 DEF EventReceived
<1>4. Logging(x, e) = m
  BY ViewFields DEF Logging, VersionSelected, IsView
<1>5. IsView(n)
  BY LoggingIs
<1>6. /\ n = Logging(v, e) /\ m = Logging(x, e) /\ w = applyEvent(v, e) /\ y = applyEvent(x, e)
      /\ version = numberPayload(e.payload, "version", e.iteration)
  BY <1>4
<1>7. Applies(n, w, e, version) /\ Applies(m, y, e, version)
  BY <1>6, AppliedIs
<1>8. m = VersionSelected(n, picked)
  OBVIOUS
<1> HIDE DEF n, m, x, w, y, version
<1>9. /\ IsView(m) /\ m.selectedVersion = picked /\ m.selectionPinned \in BOOLEAN
      /\ m.selectionPinned
      /\ \A field \in DOMAIN n \ {"selectedVersion", "selectionPinned"} : m[field] = n[field]
  BY <1>5, <1>8, ViewFields DEF VersionSelected, IsView
<1>10. CASE e.event \in {"status_changed", "pause_requested"}
  <2>1. w = StatusChanged(n, e.payload) /\ y = StatusChanged(m, e.payload)
    BY <1>7, <1>10 DEF Applies
  <2> QED BY <1>5, <1>8, <2>1, ViewFields DEF StatusChanged, VersionSelected, IsView
<1>11. CASE e.event \in {"run_paused", "run_resumed", "run_cancelled"}
  <2>1. \/ w = [n EXCEPT !.status = "PAUSED"] /\ y = [m EXCEPT !.status = "PAUSED"]
        \/ w = [n EXCEPT !.status = "OPTIMIZING"] /\ y = [m EXCEPT !.status = "OPTIMIZING"]
        \/ /\ w = [n EXCEPT !.status = "CANCELLED", !.connection = "closed"]
           /\ y = [m EXCEPT !.status = "CANCELLED", !.connection = "closed"]
    BY <1>7, <1>11 DEF Applies
  <2> QED BY <1>5, <1>8, <2>1, ViewFields DEF VersionSelected, IsView
<1>12. CASE e.event = "node_started"
  <2>1. w = NodeStarted(n, e.payload) /\ y = NodeStarted(m, e.payload)
    BY <1>7, <1>12 DEF Applies
  <2> QED BY <1>5, <1>8, <2>1, ViewFields DEF NodeStarted, VersionSelected, IsView
<1>13. CASE e.event = "prd_stream_reset"
  <2>1. w = PrdStreamReset(n, version, e.payload) /\ y = PrdStreamReset(m, version, e.payload)
    BY <1>7, <1>13 DEF Applies
  <2> QED BY <1>5, <1>8, <2>1, ViewFields DEF PrdStreamReset, VersionSelected, IsView
<1>14. CASE e.event = "prd_delta"
  <2>1. w = PrdDelta(n, version, e.payload) /\ y = PrdDelta(m, version, e.payload)
    BY <1>7, <1>14 DEF Applies
  <2>2. Follow(m, version) = picked
    BY <1>9 DEF Follow
  <2> QED BY <1>5, <1>8, <2>1, <2>2, ViewFields DEF PrdDelta, VersionSelected, IsView
<1>15. CASE e.event = "prd_generated"
  <2>1. w = PrdGenerated(n, version, e.payload) /\ y = PrdGenerated(m, version, e.payload)
    BY <1>7, <1>15 DEF Applies
  <2>2. Follow(m, version) = picked
    BY <1>9 DEF Follow
  <2> QED BY <1>5, <1>8, <2>1, <2>2, ViewFields DEF PrdGenerated, VersionSelected, IsView
<1>16. CASE e.event = "review_completed"
  <2>1. /\ w = ReviewCompleted(n, e.iteration, e.payload)
        /\ y = ReviewCompleted(m, e.iteration, e.payload)
    BY <1>7, <1>16 DEF Applies
  <2> QED BY <1>5, <1>8, <2>1, ViewFields DEF ReviewCompleted, VersionSelected, IsView
<1>17. CASE e.event = "scores_updated"
  <2>1. /\ w = ScoresUpdated(n, e.iteration, e.payload)
        /\ y = ScoresUpdated(m, e.iteration, e.payload)
    BY <1>7, <1>17 DEF Applies
  <2> QED BY <1>5, <1>8, <2>1, ViewFields DEF ScoresUpdated, VersionSelected, IsView
<1>18. CASE e.event = "revision_planned"
  <2>1. /\ w = RevisionPlanned(n, e.iteration, e.payload)
        /\ y = RevisionPlanned(m, e.iteration, e.payload)
    BY <1>7, <1>18 DEF Applies
  <2> QED BY <1>5, <1>8, <2>1, ViewFields DEF RevisionPlanned, VersionSelected, IsView
<1>19. CASE e.event = "telemetry_updated"
  <2>1. /\ w = [n EXCEPT !.snapshot = withTelemetry(@, e.payload)]
        /\ y = [m EXCEPT !.snapshot = withTelemetry(@, e.payload)]
    BY <1>7, <1>19 DEF Applies
  <2> QED BY <1>5, <1>8, <2>1, ViewFields DEF VersionSelected, IsView
<1>20. ASSUME NEW status, w = RunEnded(n, e.iteration, e.payload, status),
              y = RunEnded(m, e.iteration, e.payload, status)
       PROVE  y = VersionSelected(w, picked)
  <2>1. /\ m.reviewsByVersion = n.reviewsByVersion /\ m.scoresByVersion = n.scoresByVersion
        /\ m.bestVersion = n.bestVersion /\ m.bestScore = n.bestScore
    BY <1>5, <1>9, ViewFields
  <2>2. finalRoundSeverity(m, e.payload, e.iteration) = finalRoundSeverity(n, e.payload, e.iteration)
    BY <2>1 DEF finalRoundSeverity
  <2> DEFINE outcome == outcomeFromPayload(e.payload, e.iteration, status = "COMPLETED",
                                           finalRoundSeverity(n, e.payload, e.iteration))
             best == IF outcome.bestVersion # Null THEN outcome.bestVersion ELSE n.bestVersion
             score == IF outcome.bestScore # Null THEN outcome.bestScore ELSE n.bestScore
  <2>3. /\ w = [n EXCEPT !.status = status, !.connection = "closed", !.outcome = outcome,
                         !.bestVersion = best, !.bestScore = score]
        /\ y = [m EXCEPT !.status = status, !.connection = "closed", !.outcome = outcome,
                         !.bestVersion = best, !.bestScore = score]
    BY <1>20, <2>1, <2>2 DEF RunEnded
  <2> HIDE DEF outcome, best, score
  <2> QED BY <1>5, <1>8, <2>3, ViewFields DEF VersionSelected, IsView
<1>21. CASE e.event \in {"run_completed", "max_iterations_reached"}
  BY <1>7, <1>20, <1>21 DEF Applies
<1>22. CASE e.event = "run_failed"
  <2>1. w = RunFailed(n, e.payload) /\ y = RunFailed(m, e.payload)
    BY <1>7, <1>22 DEF Applies
  <2> QED BY <1>5, <1>8, <2>1, ViewFields DEF RunFailed, VersionSelected, IsView
<1>23. CASE e.event \notin RunEventType \ {"run_started"}
  <2>1. w = n /\ y = m
    BY <1>7, <1>23 DEF Applies
  <2> QED BY <1>8, <2>1
<1> QED BY <1>3, <1>10, <1>11, <1>12, <1>13, <1>14, <1>15, <1>16, <1>17, <1>18, <1>19,
           <1>21, <1>22, <1>23 DEF RunEventType, w, y

\* What no event does: take the page to another run, take a draft away, answer a
\* request of the reader, or move a reader off the version they picked.
KeepsPage(v, w) ==
  /\ IsView(w) /\ w.runId = v.runId /\ w.pendingControl = v.pendingControl
  /\ w.selectionPinned = v.selectionPinned /\ DOMAIN v.drafts \subseteq DOMAIN w.drafts
  /\ v.selectionPinned => w.selectedVersion = v.selectedVersion

\* A map with a key put into it.
LEMMA PutIs ==
  ASSUME NEW f, NEW key, NEW value
  PROVE  /\ DOMAIN Put(f, key, value) = DOMAIN f \cup {key} /\ Put(f, key, value)[key] = value
         /\ \A x \in DOMAIN f \ {key} : Put(f, key, value)[x] = f[x]
BY DEF Put

\* What the two events that end a run change of a view.
LEMMA RunEndedIs ==
  ASSUME NEW n, IsView(n), NEW iteration, NEW payload, NEW status, NEW outcome,
         outcome = outcomeFromPayload(payload, iteration, status = "COMPLETED",
                                      finalRoundSeverity(n, payload, iteration)),
         NEW w, w = RunEnded(n, iteration, payload, status)
  PROVE  /\ IsView(w) /\ w.status = status /\ w.outcome = outcome
         /\ w.bestVersion = IF outcome.bestVersion # Null THEN outcome.bestVersion ELSE n.bestVersion
         /\ w.bestScore = IF outcome.bestScore # Null THEN outcome.bestScore ELSE n.bestScore
         /\ \A field \in DOMAIN n \ {"status", "connection", "outcome", "bestVersion", "bestScore"} :
              w[field] = n[field]
<1> DEFINE best == IF outcome.bestVersion # Null THEN outcome.bestVersion ELSE n.bestVersion
           score == IF outcome.bestScore # Null THEN outcome.bestScore ELSE n.bestScore
<1>1. w = [n EXCEPT !.status = status, !.connection = "closed", !.outcome = outcome,
                    !.bestVersion = best, !.bestScore = score]
  BY DEF RunEnded
<1> HIDE DEF best, score
<1>2. /\ DOMAIN w = DOMAIN n /\ w.status = status /\ w.outcome = outcome
      /\ w.bestVersion = best /\ w.bestScore = score
  BY <1>1, ViewFields
<1>3. \A field \in DOMAIN n \ {"status", "connection", "outcome", "bestVersion", "bestScore"} :
        w[field] = n[field]
  BY <1>1, ViewFields
<1> QED BY <1>2, <1>3 DEF IsView, best, score

\* No event changes the run, a pending control or a pick, or takes a draft away.
LEMMA EventKeepsPage ==
  ASSUME NEW v, IsView(v), NEW e
  PROVE  KeepsPage(v, EventReceived(v, e))
<1> DEFINE n == Logging(v, e)
           w == applyEvent(v, e)
           version == numberPayload(e.payload, "version", e.iteration)
<1>1. IsView(n) /\ KeepsPage(v, n)
  <2>1. IsView(n) /\ \A field \in DOMAIN v \ {"latestSequence", "events", "error"} :
                       n[field] = v[field]
    BY LoggingIs
  <2>2. {"runId", "pendingControl", "selectionPinned", "drafts", "selectedVersion"}
          \subseteq DOMAIN v \ {"latestSequence", "events", "error"}
    BY ViewFields
  <2> HIDE DEF n
  <2> QED BY <2>1, <2>2 DEF KeepsPage
<1>2. Applies(n, w, e, version)
  BY AppliedIs
<1>3. SUFFICES KeepsPage(v, w)
  BY DEF EventReceived, KeepsPage
<1> HIDE DEF n, w, version
<1>4. SUFFICES KeepsPage(n, w)
  BY <1>1 DEF KeepsPage
<1>5. CASE e.event \in {"status_changed", "pause_requested"}
  <2>1. w = StatusChanged(n, e.payload)
    BY <1>2, <1>5 DEF Applies
  <2> QED BY <1>1, <2>1, ViewFields DEF KeepsPage, IsView, StatusChanged
<1>6. CASE e.event \in {"run_paused", "run_resumed", "run_cancelled"}
  <2>1. \/ w = [n EXCEPT !.status = "PAUSED"] \/ w = [n EXCEPT !.status = "OPTIMIZING"]
        \/ w = [n EXCEPT !.status = "CANCELLED", !.connection = "closed"]
    BY <1>2, <1>6 DEF Applies
  <2> QED BY <1>1, <2>1, ViewFields DEF KeepsPage, IsView
<1>7. CASE e.event = "node_started"
  <2>1. w = NodeStarted(n, e.payload)
    BY <1>2, <1>7 DEF Applies
  <2> QED BY <1>1, <2>1, ViewFields DEF KeepsPage, IsView, NodeStarted
<1>8. CASE e.event = "prd_stream_reset"
  <2>1. w = PrdStreamReset(n, version, e.payload)
    BY <1>2, <1>8 DEF Applies
  <2> QED BY <1>1, <2>1, ViewFields DEF KeepsPage, IsView, PrdStreamReset, Put
<1>9. CASE e.event = "prd_delta"
  <2>1. \/ w = n
        \/ \E draft, snap :
             w = [n EXCEPT !.drafts = Put(@, version, draft),
                           !.selectedVersion = Follow(n, version)]
    BY <1>2, <1>9 DEF Applies, PrdDelta
  <2>2. n.selectionPinned => Follow(n, version) = n.selectedVersion
    BY DEF Follow
  <2>3. \A draft : DOMAIN n.drafts \subseteq DOMAIN Put(n.drafts, version, draft)
    BY DEF Put
  <2> QED BY <1>1, <2>1, <2>2, <2>3, ViewFields DEF KeepsPage, IsView
<1>10. CASE e.event = "prd_generated"
  <2>1. \/ w = n
        \/ \E draft, snap :
             w = [n EXCEPT !.drafts = Put(@, version, draft),
                           !.selectedVersion = Follow(n, version),
                           !.snapshot = snap]
    BY <1>2, <1>10 DEF Applies, PrdGenerated
  <2>2. n.selectionPinned => Follow(n, version) = n.selectedVersion
    BY DEF Follow
  <2>3. \A draft : DOMAIN n.drafts \subseteq DOMAIN Put(n.drafts, version, draft)
    BY DEF Put
  <2> QED BY <1>1, <2>1, <2>2, <2>3, ViewFields DEF KeepsPage, IsView
<1>11. CASE e.event = "review_completed"
  <2>1. w = ReviewCompleted(n, e.iteration, e.payload)
    BY <1>2, <1>11 DEF Applies
  <2> QED BY <1>1, <2>1, ViewFields DEF KeepsPage, IsView, ReviewCompleted
<1>12. CASE e.event = "scores_updated"
  <2> DEFINE scored == ScoresUpdated(n, e.iteration, e.payload)
  <2>1. w = scored /\ scored = [n EXCEPT
          !.scoresByVersion = scored.scoresByVersion, !.bestVersion = scored.bestVersion,
          !.bestScore = scored.bestScore, !.snapshot = scored.snapshot]
    <3>1. w = scored
      BY <1>2, <1>12 DEF Applies
    <3> QED BY <1>1, <3>1, ViewFields DEF ScoresUpdated
  <2> QED BY <1>1, <2>1, ViewFields DEF KeepsPage, IsView
<1>13. CASE e.event = "revision_planned"
  <2>1. w = RevisionPlanned(n, e.iteration, e.payload)
    BY <1>2, <1>13 DEF Applies
  <2> QED BY <1>1, <2>1, ViewFields DEF KeepsPage, IsView, RevisionPlanned
<1>14. CASE e.event = "telemetry_updated"
  BY <1>1, <1>2, <1>14, ViewFields DEF Applies, KeepsPage, IsView
<1>15. CASE e.event \in {"run_completed", "max_iterations_reached"}
  <2>1. PICK status : w = RunEnded(n, e.iteration, e.payload, status)
    BY <1>2, <1>15 DEF Applies
  <2>2. IsView(w) /\ \A field \in DOMAIN n \ {"status", "connection", "outcome", "bestVersion", "bestScore"} :
                       w[field] = n[field]
    BY <1>1, <2>1, RunEndedIs
  <2>3. {"runId", "pendingControl", "selectionPinned", "drafts", "selectedVersion"}
          \subseteq DOMAIN n \ {"status", "connection", "outcome", "bestVersion", "bestScore"}
    BY <1>1, ViewFields
  <2> QED BY <2>2, <2>3 DEF KeepsPage
<1>16. CASE e.event = "run_failed"
  <2>1. w = RunFailed(n, e.payload)
    BY <1>2, <1>16 DEF Applies
  <2> QED BY <1>1, <2>1, ViewFields DEF KeepsPage, IsView, RunFailed
<1>17. CASE e.event \notin RunEventType \ {"run_started"}
  BY <1>1, <1>2, <1>17 DEF Applies, KeepsPage
<1> QED BY <1>5, <1>6, <1>7, <1>8, <1>9, <1>10, <1>11, <1>12, <1>13, <1>14, <1>15, <1>16, <1>17 DEF RunEventType

\* Picking a version picks it on every page on the way.
LEMMA PickedOnTheWay ==
  ASSUME NEW v, IsView(v), NEW events, Len(events) \in Nat, NEW picked, picked \in DOMAIN v.drafts
  PROVE  \A n \in 0 .. Len(events) :
           /\ Pages(VersionSelected(v, picked), events)[n] = VersionSelected(Pages(v, events)[n], picked)
           /\ IsView(Pages(v, events)[n]) /\ picked \in DOMAIN Pages(v, events)[n].drafts
<1> DEFINE P == Pages(v, events)
           Q == Pages(VersionSelected(v, picked), events)
           E == {n \in Nat : n <= Len(events) =>
                  /\ Q[n] = VersionSelected(P[n], picked)
                  /\ IsView(P[n]) /\ picked \in DOMAIN P[n].drafts}
<1>1. 0 \in E
  <2>1. P[0] = v /\ Q[0] = VersionSelected(v, picked)
    BY PagesAre
  <2> HIDE DEF P, Q
  <2> QED BY <2>1
<1>2. ASSUME NEW n \in Nat, n \in E, n + 1 <= Len(events)
      PROVE  /\ Q[n + 1] = VersionSelected(P[n + 1], picked)
             /\ IsView(P[n + 1]) /\ picked \in DOMAIN P[n + 1].drafts
  <2>1. /\ P[n + 1] = EventReceived(P[n], events[n + 1])
        /\ Q[n + 1] = EventReceived(Q[n], events[n + 1])
    <3>1. n + 1 \in 1 .. Len(events) /\ (n + 1) - 1 = n
      BY <1>2
    <3> QED BY <3>1, PagesAre
  <2>2. Q[n] = VersionSelected(P[n], picked) /\ IsView(P[n]) /\ picked \in DOMAIN P[n].drafts
    BY <1>2
  <2> HIDE DEF P, Q
  <2>3. KeepsPage(P[n], EventReceived(P[n], events[n + 1]))
    BY <2>2, EventKeepsPage
  <2> QED BY <2>1, <2>2, <2>3, SelectionAside DEF KeepsPage
<1>3. \A n \in Nat : n \in E => n + 1 \in E
  <2> HIDE DEF P, Q
  <2> QED BY <1>2
<1> HIDE DEF P, Q
<1>4. Nat \subseteq E
  <2> HIDE DEF E
  <2> QED BY <1>1, <1>3, InductiveSet
<1> QED BY <1>4 DEF P, Q

--------------------------------------------------------------------------------
(* Loading a snapshot, and the pinned version. *)

\* What a page w is that has loaded s over v.
HasLoaded(v, s, w) ==
  /\ IsView(w) /\ w.runId = s.run_id /\ w.snapshot = s /\ w.status = s.status
  /\ w.latestSequence = s.latest_event_sequence /\ w.drafts = draftsFromSnapshot(s)
  /\ w.reviewsByVersion = reviewsFromSnapshot(s)
  /\ w.scoresByVersion = scoresFromSnapshot(s.versions)
  /\ w.revisionPlansBySourceVersion = revisionPlansFromSnapshot(s)
  /\ w.bestVersion = bestFromSnapshot(s).version /\ w.bestScore = bestFromSnapshot(s).score
  /\ w.outcome = outcomeFromSnapshot(s, bestFromSnapshot(s))
  /\ w.selectedVersion = KeptSelection(v, w.drafts)
  /\ w.selectionPinned = (v.selectionPinned /\ w.selectedVersion = v.selectedVersion)
  /\ w.pendingRevisionPlan = s.pending_revision_plan /\ w.pendingControl = Null
  /\ w.error = IF s.error = Null THEN Null ELSE localizedErrorMessage(s.error)

\* What SNAPSHOT_LOADED leaves of a view, field by field.
LEMMA SnapshotLoadedIs ==
  ASSUME NEW v, IsView(v), NEW s
  PROVE  HasLoaded(v, s, SnapshotLoaded(v, s))
<1> DEFINE w == SnapshotLoaded(v, s)
           drafts == draftsFromSnapshot(s)
           bestVersion == bestFromSnapshot(s).version
           bestScore == bestFromSnapshot(s).score
           reviews == reviewsFromSnapshot(s)
           scores == scoresFromSnapshot(s.versions)
           plans == revisionPlansFromSnapshot(s)
           outcome == outcomeFromSnapshot(s, bestFromSnapshot(s))
           selected == KeptSelection(v, drafts)
           pinned == v.selectionPinned /\ selected = v.selectedVersion
           error == IF s.error = Null THEN Null ELSE localizedErrorMessage(s.error)
<1>1. w = [v EXCEPT
             !.runId = s.run_id, !.snapshot = s, !.status = s.status,
             !.latestSequence = s.latest_event_sequence, !.drafts = drafts,
             !.reviewsByVersion = reviews, !.scoresByVersion = scores,
             !.revisionPlansBySourceVersion = plans,
             !.bestVersion = bestVersion, !.bestScore = bestScore, !.outcome = outcome,
             !.selectedVersion = selected, !.selectionPinned = pinned,
             !.pendingRevisionPlan = s.pending_revision_plan,
             !.isCreating = FALSE, !.pendingControl = Null, !.error = error]
  BY DEF SnapshotLoaded
<1> HIDE DEF w, drafts, bestVersion, bestScore, reviews, scores, plans, outcome, selected, pinned,
             error
<1>2. /\ DOMAIN w = DOMAIN v /\ w.runId = s.run_id /\ w.snapshot = s /\ w.status = s.status
      /\ w.latestSequence = s.latest_event_sequence /\ w.drafts = drafts
      /\ w.reviewsByVersion = reviews /\ w.scoresByVersion = scores
  BY ZenonT(60), <1>1, ViewFields
<1>3. /\ w.revisionPlansBySourceVersion = plans
      /\ w.bestVersion = bestVersion /\ w.bestScore = bestScore
      /\ w.outcome = outcome /\ w.selectedVersion = selected
  BY ZenonT(60), <1>1, ViewFields
<1>4. /\ w.pendingRevisionPlan = s.pending_revision_plan /\ w.pendingControl = Null
      /\ w.error = error /\ w.selectionPinned = pinned
  BY ZenonT(60), <1>1, ViewFields
<1> QED BY Zenon, <1>2, <1>3, <1>4 DEF IsView, HasLoaded, w, drafts, bestVersion, bestScore,
                                reviews, scores, plans, outcome, selected, pinned, error

\* RUN_SELECTED makes a view on which nothing is picked.
LEMMA InitialView ==
  ASSUME NEW v
  PROVE  /\ IsView(RunSelected(v, RunId)) /\ RunSelected(v, RunId).selectionPinned \in BOOLEAN
         /\ ~RunSelected(v, RunId).selectionPinned
BY DEF IsView, RunSelected, initialRunViewState

\* The reader's page is one at any time.
PageIsView == IsView(live) /\ live.selectionPinned \in BOOLEAN

\* The browser has a view after every step,
LEMMA PageStaysView == PageIsView /\ [Next]_vars => PageIsView'
<1> SUFFICES ASSUME PageIsView, [Next]_vars PROVE PageIsView'
  OBVIOUS
<1> USE DEF PageIsView
<1>1. CASE ServerStep \/ UNCHANGED vars
  BY <1>1 DEF ServerStep, vars
<1>2. CASE Deliver
  <2>1. live' = EventReceived(live, Head(stream))
    BY <1>2 DEF Deliver
  <2> QED BY <2>1, EventKeepsPage DEF KeepsPage
<1>3. ASSUME NEW v, IsView(v), live' = SnapshotLoaded(v, snapshot), v.selectionPinned \in BOOLEAN
      PROVE  PageIsView'
  <2>1. IsView(live') /\ live'.selectionPinned = (v.selectionPinned /\ live'.selectedVersion = v.selectedVersion)
    <3>1. HasLoaded(v, snapshot, live')
      BY <1>3, SnapshotLoadedIs
    <3> QED BY Zenon, <3>1 DEF HasLoaded
  <2>2. live'.selectionPinned \in BOOLEAN
    BY Zenon, <2>1
  <2> QED BY <2>1, <2>2
<1>4. CASE Open \/ Recover
  <2>1. live' = SnapshotLoaded(RunSelected(live, RunId), snapshot) \/ live' = SnapshotLoaded(live, snapshot)
    BY <1>4 DEF Open, Recover, Load
  <2> QED BY <1>3, <2>1, InitialView
<1>5. CASE Select
  <2>1. PICK version : live' = VersionSelected(live, version)
    BY <1>5 DEF Select
  <2> QED BY <2>1, ViewFields DEF VersionSelected, IsView
<1> QED BY <1>1, <1>2, <1>4, <1>5 DEF Next

\* and has one from the beginning.
LEMMA PageStartsView == ProjectionInit => PageIsView
<1> SUFFICES ASSUME ProjectionInit PROVE PageIsView
  OBVIOUS
<1> DEFINE v == RunSelected(initialRunViewState, RunId)
<1>1. live = SnapshotLoaded(v, snapshot) /\ IsView(v) /\ v.selectionPinned \in BOOLEAN
  BY InitialView DEF ProjectionInit
<1> HIDE DEF v
<1>2. /\ IsView(live)
      /\ live.selectionPinned = (v.selectionPinned /\ live.selectedVersion = v.selectedVersion)
  <2>1. HasLoaded(v, snapshot, live)
    BY <1>1, SnapshotLoadedIs
  <2> QED BY Zenon, <2>1 DEF HasLoaded
<1>3. live.selectionPinned \in BOOLEAN
  BY Zenon, <1>2
<1> QED BY <1>2, <1>3 DEF PageIsView

PinKept ==
  (Deliver \/ Recover) /\ live.selectionPinned /\ live.selectedVersion \in DOMAIN live'.drafts
    => live'.selectedVersion = live.selectedVersion /\ live'.selectionPinned

\* Every step leaves a picked version picked.
LEMMA StepKeepsPin == PageIsView /\ [Next]_vars => [PinKept]_vars
<1> SUFFICES ASSUME PageIsView, Deliver \/ Recover, live.selectionPinned,
                    live.selectedVersion \in DOMAIN live'.drafts
             PROVE  live'.selectedVersion = live.selectedVersion /\ live'.selectionPinned
  BY DEF PinKept
<1>1. CASE Deliver
  <2>1. live' = EventReceived(live, Head(stream))
    BY <1>1 DEF Deliver
  <2> QED BY <2>1, EventKeepsPage DEF KeepsPage, PageIsView
<1>2. CASE Recover
  <2> DEFINE drafts == draftsFromSnapshot(snapshot)
  <2>1. live' = SnapshotLoaded(live, snapshot) /\ IsView(live)
    BY <1>2 DEF Recover, Load, PageIsView
  <2>2. /\ live'.drafts = drafts /\ live'.selectedVersion = KeptSelection(live, drafts)
        /\ live'.selectionPinned = (live.selectionPinned /\ live'.selectedVersion = live.selectedVersion)
    <3>1. HasLoaded(live, snapshot, live')
      BY <2>1, SnapshotLoadedIs
    <3> QED BY Zenon, <3>1 DEF HasLoaded, drafts
  <2> HIDE DEF drafts
  <2>3. live'.selectedVersion = live.selectedVersion
    BY <2>2 DEF KeptSelection
  <2>4. live'.selectionPinned
    BY Zenon, <2>2, <2>3
  <2> QED BY <2>3, <2>4
<1> QED BY <1>1, <1>2

\* No event and no recovery moves a reader off the version they picked, as long as there
\* is such a version: applyEvent and SNAPSHOT_LOADED both keep a pinned selection.
THEOREM PinRespected == Spec => PinIsRespected
<1>1. ProjectionInit => PageIsView
  BY PageStartsView
<1>2. PageIsView /\ [Next]_vars => PageIsView'
  BY PageStaysView
<1>3. PageIsView /\ [Next]_vars => [PinKept]_vars
  BY StepKeepsPin
<1> QED BY <1>1, <1>2, <1>3, PTL DEF Spec, PinIsRespected, PinKept

--------------------------------------------------------------------------------
(* Findings. *)

\* A sequence that is not empty is one that had its last element appended.
LEMMA LastAppended ==
  ASSUME NEW R, NEW t \in Seq(R), NEW n \in Nat, Len(t) = n + 1
  PROVE  /\ Beginning(t, n) \in Seq(R) /\ t[n + 1] \in R
         /\ Len(Beginning(t, n)) = n /\ t = Append(Beginning(t, n), t[n + 1])
<1> DEFINE f == Beginning(t, n)
<1>1. \A k \in 1 .. n + 1 : t[k] \in R
  OBVIOUS
<1>2. f \in Seq(R) /\ Len(f) = n /\ \A k \in 1 .. n : f[k] = t[k]
  <2>1. \A k \in 1 .. n : t[k] \in R
    BY <1>1
  <2> QED BY <2>1 DEF Beginning
<1> HIDE DEF f
<1>3. /\ t[n + 1] \in R /\ Append(f, t[n + 1]) \in Seq(R) /\ Len(Append(f, t[n + 1])) = n + 1
      /\ Append(f, t[n + 1])[n + 1] = t[n + 1]
      /\ \A k \in 1 .. n : Append(f, t[n + 1])[k] = f[k]
  BY <1>1, <1>2, AppendOne
<1>4. \A k \in 1 .. n + 1 : Append(f, t[n + 1])[k] = t[k]
  <2>1. \A k \in 1 .. n + 1 : k \in 1 .. n \/ k = n + 1
    OBVIOUS
  <2> QED BY <1>2, <1>3, <2>1
<1>5. t = Append(f, t[n + 1])
  BY <1>3, <1>4, SeqEqual
<1> QED BY <1>2, <1>3, <1>5 DEF f

\* The findings the browser makes of those it was sent, one by one.
LEMMA NormalizedGrows ==
  ASSUME NEW R, NEW s \in Seq(R), NEW e \in R
  PROVE  /\ normalizeFeedback(s) \in Seq(FEEDBACK_SEVERITIES)
         /\ normalizeFeedback(Append(s, e)) =
              IF e = "blank" THEN normalizeFeedback(s)
              ELSE Append(normalizeFeedback(s), normalizeFeedbackItem(e))
<1> DEFINE t == Append(s, e)
           K == {i \in DOMAIN s : s[i] # "blank"}
           worded == Selected(s, K)
<1>1. /\ t \in Seq(R) /\ Len(s) \in Nat /\ Len(t) = Len(s) + 1 /\ t[Len(s) + 1] = e
      /\ \A k \in 1 .. Len(s) : t[k] = s[k]
      /\ DOMAIN s = 1 .. Len(s) /\ DOMAIN t = 1 .. (Len(s) + 1)
  BY AppendOne
<1>2. K \in SUBSET DOMAIN s
  OBVIOUS
<1>3. {i \in DOMAIN t : t[i] # "blank"} = IF e = "blank" THEN K ELSE K \cup {Len(s) + 1}
  <2>1. \A i \in 1 .. (Len(s) + 1) : i \in 1 .. Len(s) \/ i = Len(s) + 1
    BY <1>1
  <2>2. \A i \in 1 .. Len(s) : i \in 1 .. (Len(s) + 1) /\ i # Len(s) + 1
    BY <1>1
  <2>3. Len(s) + 1 \in 1 .. (Len(s) + 1)
    BY <1>1
  <2> HIDE DEF t
  <2> QED BY <1>1, <2>1, <2>2, <2>3
<1>4. worded \in Seq(R)
  <2> HIDE DEF K
  <2> QED BY <1>2, SelectedIs
<1>5. /\ Selected(t, K) = worded
      /\ Selected(t, K \cup {Len(s) + 1}) = Append(worded, e)
  <2> HIDE DEF K
  <2> QED BY <1>2, SelectedGrows
<1>6. normalizeFeedback(s) = [i \in DOMAIN worded |-> normalizeFeedbackItem(worded[i])]
  BY DEF normalizeFeedback
<1> HIDE DEF worded, K
<1>7. /\ normalizeFeedback(s) \in Seq(FEEDBACK_SEVERITIES)
      /\ Len(normalizeFeedback(s)) = Len(worded) /\ Len(worded) \in Nat
      /\ \A i \in 1 .. Len(worded) : normalizeFeedback(s)[i] = normalizeFeedbackItem(worded[i])
  <2>1. \A x : normalizeFeedbackItem(x) \in FEEDBACK_SEVERITIES
    BY DEF normalizeFeedbackItem, FEEDBACK_SEVERITIES
  <2>2. DOMAIN worded = 1 .. Len(worded) /\ Len(worded) \in Nat
    BY <1>4
  <2> QED BY <1>6, <2>1, <2>2
<1>8. CASE e = "blank"
  <2>1. normalizeFeedback(t) = [i \in DOMAIN worded |-> normalizeFeedbackItem(worded[i])]
    BY <1>3, <1>5, <1>8 DEF normalizeFeedback
  <2> QED BY <1>6, <1>7, <1>8, <2>1 DEF t
<1>9. CASE e # "blank"
  <2> DEFINE more == Append(worded, e)
             item == normalizeFeedbackItem(e)
             a == Append(normalizeFeedback(s), item)
  <2>1. normalizeFeedback(t) = [i \in DOMAIN more |-> normalizeFeedbackItem(more[i])]
    BY <1>3, <1>5, <1>9 DEF normalizeFeedback
  <2>2. /\ more \in Seq(R) /\ Len(more) = Len(worded) + 1 /\ more[Len(worded) + 1] = e
        /\ \A i \in 1 .. Len(worded) : more[i] = worded[i]
        /\ DOMAIN more = 1 .. (Len(worded) + 1)
    <3>1. \A q : q \in Seq(R) => DOMAIN q = 1 .. Len(q)
      OBVIOUS
    <3> QED BY <1>4, <3>1, AppendOne
  <2>3. item \in FEEDBACK_SEVERITIES
    BY DEF normalizeFeedbackItem, FEEDBACK_SEVERITIES
  <2> HIDE DEF item
  <2>4. /\ a \in Seq(FEEDBACK_SEVERITIES) /\ Len(a) = Len(worded) + 1 /\ a[Len(worded) + 1] = item
        /\ \A i \in 1 .. Len(worded) : a[i] = normalizeFeedback(s)[i]
    BY <1>7, <2>3, AppendOne
  <2> HIDE DEF a, more
  <2>5. \A x : normalizeFeedbackItem(x) \in FEEDBACK_SEVERITIES
    BY DEF normalizeFeedbackItem, FEEDBACK_SEVERITIES
  <2>6. /\ normalizeFeedback(t) \in Seq(FEEDBACK_SEVERITIES)
        /\ Len(normalizeFeedback(t)) = Len(worded) + 1
        /\ \A i \in 1 .. (Len(worded) + 1) :
             normalizeFeedback(t)[i] = normalizeFeedbackItem(more[i])
    <3>1. Len(worded) + 1 \in Nat
      BY <1>7
    <3> QED BY <2>1, <2>2, <2>5, <3>1
  <2>7. \A i \in 1 .. (Len(worded) + 1) : normalizeFeedback(t)[i] = a[i]
    <3>1. \A i \in 1 .. (Len(worded) + 1) : i \in 1 .. Len(worded) \/ i = Len(worded) + 1
      BY <1>7
    <3> QED BY <1>7, <2>2, <2>4, <2>6, <3>1 DEF item
  <2>8. normalizeFeedback(t) = a
    BY <2>4, <2>6, <2>7, SeqEqual
  <2> QED BY <1>7, <1>9, <2>8 DEF t, a, item
<1> QED BY <1>8, <1>9

\* No finding, and findings that have a severity.
LEMMA NormalizedAlready ==
  /\ normalizeFeedback(<<>>) = <<>>
  /\ \A s \in Seq(FEEDBACK_SEVERITIES) : normalizeFeedback(s) = s
<1>1. normalizeFeedback(<<>>) = <<>>
  <2>1. {i \in DOMAIN <<>> : <<>>[i] # "blank"} = {} /\ Cardinality({}) = 0
    BY FS_EmptySet
  <2>2. Selected(<<>>, {}) = <<>>
    BY <2>1 DEF Selected
  <2> QED BY <2>1, <2>2 DEF normalizeFeedback
<1> DEFINE E == {n \in Nat : \A s \in Seq(FEEDBACK_SEVERITIES) :
                               Len(s) = n => normalizeFeedback(s) = s}
<1>2. 0 \in E
  BY <1>1, EmptySeq
<1>3. ASSUME NEW n \in Nat, n \in E, NEW t \in Seq(FEEDBACK_SEVERITIES), Len(t) = n + 1
      PROVE  normalizeFeedback(t) = t
  <2>1. PICK f \in Seq(FEEDBACK_SEVERITIES), e \in FEEDBACK_SEVERITIES :
               Len(f) = n /\ t = Append(f, e)
    <3>1. /\ Beginning(t, n) \in Seq(FEEDBACK_SEVERITIES) /\ t[n + 1] \in FEEDBACK_SEVERITIES
          /\ Len(Beginning(t, n)) = n /\ t = Append(Beginning(t, n), t[n + 1])
      BY <1>3, LastAppended
    <3> QED BY <3>1
  <2>2. normalizeFeedback(f) = f
    BY <1>3, <2>1
  <2>3. e # "blank" /\ normalizeFeedbackItem(e) = e
    BY DEF normalizeFeedbackItem, FEEDBACK_SEVERITIES
  <2>4. normalizeFeedback(Append(f, e)) = Append(normalizeFeedback(f), e)
    BY <2>3, NormalizedGrows
  <2> QED BY <2>1, <2>2, <2>4
<1>4. Nat \subseteq E
  <2>1. \A n \in Nat : n \in E => n + 1 \in E
    BY <1>3
  <2> HIDE DEF E
  <2> QED BY <1>2, <2>1, InductiveSet
<1>5. ASSUME NEW s \in Seq(FEEDBACK_SEVERITIES) PROVE normalizeFeedback(s) = s
  <2>1. Len(s) \in Nat
    OBVIOUS
  <2> QED BY <1>4, <2>1
<1> QED BY <1>1, <1>5

\* The findings of two reviewers.
LEMMA NormalizedJoin ==
  ASSUME NEW R, NEW s \in Seq(R), NEW t \in Seq(R)
  PROVE  normalizeFeedback(s \o t) = normalizeFeedback(s) \o normalizeFeedback(t)
<1> DEFINE Joins(r) == normalizeFeedback(s \o r) = normalizeFeedback(s) \o normalizeFeedback(r)
           E == {n \in Nat : \A r \in Seq(R) : Len(r) = n => Joins(r)}
<1>1. 0 \in E
  <2>1. ASSUME NEW r \in Seq(R), Len(r) = 0
        PROVE  normalizeFeedback(s \o r) = normalizeFeedback(s) \o normalizeFeedback(r)
    <3>1. r = <<>> /\ normalizeFeedback(r) = <<>>
      BY <2>1, EmptySeq, NormalizedAlready
    <3>2. \A S : \A q \in Seq(S) : q \o <<>> = q
      OBVIOUS
    <3>3. normalizeFeedback(s) \in Seq(FEEDBACK_SEVERITIES)
      <4>1. CASE R = {}
        <5>1. s = <<>>
          BY <4>1, EmptySeq
        <5> QED BY <5>1, NormalizedAlready, EmptySeq
      <4>2. CASE R # {}
        BY <4>2, NormalizedGrows
      <4> QED BY <4>1, <4>2
    <3> QED BY <3>1, <3>2, <3>3
  <2> QED BY <2>1
<1>2. ASSUME NEW n \in Nat, n \in E, NEW r \in Seq(R), Len(r) = n + 1
      PROVE  normalizeFeedback(s \o r) = normalizeFeedback(s) \o normalizeFeedback(r)
  <2>1. PICK f \in Seq(R), e \in R : Len(f) = n /\ r = Append(f, e)
    <3>1. r \in Seq(R) /\ n \in Nat /\ Len(r) = n + 1
      BY <1>2
    <3>2. /\ Beginning(r, n) \in Seq(R) /\ r[n + 1] \in R
          /\ Len(Beginning(r, n)) = n /\ r = Append(Beginning(r, n), r[n + 1])
      BY <3>1, LastAppended
    <3> QED BY <3>2
  <2>2. normalizeFeedback(s \o f) = normalizeFeedback(s) \o normalizeFeedback(f)
    BY <1>2, <2>1
  <2>3. \A S : \A p, q \in Seq(S) : \A x \in S : p \o Append(q, x) = Append(p \o q, x)
    OBVIOUS
  <2>4. s \o r = Append(s \o f, e) /\ s \o f \in Seq(R)
    BY <2>1, <2>3
  <2>5. /\ normalizeFeedback(s) \in Seq(FEEDBACK_SEVERITIES)
        /\ normalizeFeedback(f) \in Seq(FEEDBACK_SEVERITIES)
    BY NormalizedGrows
  <2>6. CASE e = "blank"
    BY <2>1, <2>2, <2>4, <2>6, NormalizedGrows
  <2>7. CASE e # "blank"
    <3> DEFINE item == normalizeFeedbackItem(e)
    <3>1. item \in FEEDBACK_SEVERITIES
      BY DEF normalizeFeedbackItem, FEEDBACK_SEVERITIES
    <3>2. /\ normalizeFeedback(s \o r) = Append(normalizeFeedback(s \o f), item)
          /\ normalizeFeedback(r) = Append(normalizeFeedback(f), item)
      BY <2>1, <2>4, <2>7, NormalizedGrows
    <3> HIDE DEF item
    <3>3. normalizeFeedback(s) \o Append(normalizeFeedback(f), item)
            = Append(normalizeFeedback(s) \o normalizeFeedback(f), item)
      BY <2>3, <2>5, <3>1
    <3> QED BY <2>2, <3>2, <3>3
  <2> QED BY <2>6, <2>7
<1>3. Nat \subseteq E
  <2>1. \A n \in Nat : n \in E => n + 1 \in E
    <3>1. \A n \in Nat : n \in E => \A r \in Seq(R) : Len(r) = n + 1 => Joins(r)
      BY <1>2
    <3> HIDE DEF Joins
    <3> QED BY <3>1
  <2> HIDE DEF E
  <2> QED BY <1>1, <2>1, InductiveSet
<1>4. Len(t) \in Nat
  OBVIOUS
<1> QED BY <1>3, <1>4

\* The counts by severity are numbers, and those of no findings are zeros.
LEMMA CountsAre ==
  /\ \A R : \A s \in Seq(R) : countSeverities(s) \in Severities
  /\ countSeverities(<<>>) = EMPTY_SEVERITY_COUNTS
  /\ \A counts \in Severities : counts # Null
<1>1. ASSUME NEW R, NEW s \in Seq(R) PROVE countSeverities(s) \in Severities
  <2>1. ASSUME NEW x PROVE Cardinality({i \in DOMAIN s : s[i] = x}) \in Nat
    <3>1. {i \in DOMAIN s : s[i] = x} \in SUBSET (1 .. Len(s)) /\ Len(s) \in Nat
      OBVIOUS
    <3> HIDE DEF Cardinality
    <3>2. IsFiniteSet({i \in DOMAIN s : s[i] = x})
      BY <3>1, RankNumbers
    <3> QED BY <3>2, FS_CardinalityType
  <2> QED BY <2>1 DEF countSeverities, Severities
<1>2. countSeverities(<<>>) = EMPTY_SEVERITY_COUNTS
  <2>1. \A x : {i \in DOMAIN <<>> : <<>>[i] = x} = {}
    OBVIOUS
  <2> QED BY <2>1, FS_EmptySet DEF countSeverities, EMPTY_SEVERITY_COUNTS
<1> QED BY <1>1, <1>2, NullIsNoValue

\* What reviewers have said.
AreReviews(r) == DOMAIN r \subseteq Roles /\ r \in [DOMAIN r -> RoleReview]

\* normalizeReview leaves only findings of the three severities.
LEMMA NormalizedReview ==
  ASSUME NEW review \in RoleReview
  PROVE  /\ review.feedback \in Feedback
         /\ normalizeReview(review).feedback = normalizeFeedback(review.feedback)
         /\ normalizeReview(review).feedback \in Seq(FEEDBACK_SEVERITIES)
<1>1. review.feedback \in Feedback
  BY DEF RoleReview
<1>2. normalizeReview(review).feedback = normalizeFeedback(review.feedback)
  BY DEF normalizeReview, RoleReview
<1>3. normalizeFeedback(review.feedback) \in Seq(FEEDBACK_SEVERITIES)
  <2>1. "text" \in FEEDBACK_SEVERITIES \cup LegacyFindings
    BY DEF LegacyFindings
  <2> QED BY <1>1, <2>1, NormalizedGrows DEF Feedback
<1> QED BY <1>1, <1>2, <1>3

\* Reading every review through normalizeReview reads their findings through it.
LEMMA FeedbackIs ==
  ASSUME NEW r, AreReviews(r)
  PROVE  /\ DOMAIN Normalized(r) = DOMAIN r
         /\ \A role \in DOMAIN r : /\ Normalized(r)[role] = normalizeReview(r[role])
                                   /\ Normalized(r)[role].feedback \in Seq(FEEDBACK_SEVERITIES)
         /\ FeedbackOf(Normalized(r)) = normalizeFeedback(FeedbackOf(r))
         /\ FeedbackOf(Normalized(r)) \in Seq(FEEDBACK_SEVERITIES)
         /\ (\A role \in DOMAIN r : r[role].feedback \in Seq(FEEDBACK_SEVERITIES)) =>
              FeedbackOf(Normalized(r)) = FeedbackOf(r)
<1> DEFINE m == Normalized(r)
           F(x, role) == FindingsOf(x, role)
<1>1. /\ DOMAIN m = DOMAIN r
      /\ \A role \in DOMAIN r : m[role] = normalizeReview(r[role])
  BY DEF Normalized
<1> HIDE DEF m
<1>2. \A role \in DOMAIN r : m[role].feedback = normalizeFeedback(r[role].feedback)
                             /\ m[role].feedback \in Seq(FEEDBACK_SEVERITIES)
                             /\ r[role].feedback \in Feedback
  BY <1>1, NormalizedReview DEF AreReviews
<1>3. ASSUME NEW role
      PROVE  /\ F(r, role) \in Feedback /\ F(m, role) = normalizeFeedback(F(r, role))
             /\ F(m, role) \in Seq(FEEDBACK_SEVERITIES)
  <2>1. <<>> \in Feedback /\ <<>> \in Seq(FEEDBACK_SEVERITIES)
    BY DEF Feedback
  <2>2. CASE role \in DOMAIN r
    BY <1>1, <1>2, <2>2 DEF FindingsOf
  <2>3. CASE role \notin DOMAIN r
    BY <1>1, <2>1, <2>3, NormalizedAlready DEF FindingsOf
  <2> QED BY <2>2, <2>3
<1>4. ASSUME NEW x, NEW y, NEW z, x \in Feedback, y \in Feedback, z \in Feedback
      PROVE  /\ normalizeFeedback(x \o y \o z) =
                  normalizeFeedback(x) \o normalizeFeedback(y) \o normalizeFeedback(z)
             /\ x \o y \in Feedback
  <2>1. x \o y \in Feedback
    BY <1>4 DEF Feedback
  <2>2. normalizeFeedback(x \o y) = normalizeFeedback(x) \o normalizeFeedback(y)
    BY <1>4, NormalizedJoin DEF Feedback
  <2>3. normalizeFeedback((x \o y) \o z) = normalizeFeedback(x \o y) \o normalizeFeedback(z)
    BY <1>4, <2>1, NormalizedJoin DEF Feedback
  <2> QED BY <2>1, <2>2, <2>3
<1>5. FeedbackOf(m) = normalizeFeedback(FeedbackOf(r))
  <2> DEFINE x == FindingsOf(r, "tech")
             y == FindingsOf(r, "ux")
             z == FindingsOf(r, "biz")
  <2>1. FeedbackOf(m) = normalizeFeedback(x) \o normalizeFeedback(y) \o normalizeFeedback(z)
    BY <1>3 DEF FeedbackOf
  <2>2. FeedbackOf(r) = x \o y \o z
    BY DEF FeedbackOf
  <2>3. x \in Feedback /\ y \in Feedback /\ z \in Feedback
    BY <1>3
  <2> HIDE DEF x, y, z
  <2>4. normalizeFeedback(x \o y \o z) =
          normalizeFeedback(x) \o normalizeFeedback(y) \o normalizeFeedback(z)
    BY <1>4, <2>3
  <2> QED BY <2>1, <2>2, <2>4
<1>6. \A x, y, z \in Seq(FEEDBACK_SEVERITIES) : x \o y \o z \in Seq(FEEDBACK_SEVERITIES)
  OBVIOUS
<1>7. FeedbackOf(m) \in Seq(FEEDBACK_SEVERITIES)
  BY <1>3, <1>6 DEF FeedbackOf
<1>8. ASSUME \A role \in DOMAIN r : r[role].feedback \in Seq(FEEDBACK_SEVERITIES)
      PROVE  FeedbackOf(m) = FeedbackOf(r)
  <2>1. ASSUME NEW role PROVE F(r, role) \in Seq(FEEDBACK_SEVERITIES)
    BY <1>8 DEF FindingsOf
  <2>2. FeedbackOf(r) \in Seq(FEEDBACK_SEVERITIES)
    BY <1>6, <2>1 DEF FeedbackOf
  <2> QED BY <1>5, <2>2, NormalizedAlready
<1> QED BY <1>1, <1>2, <1>5, <1>7, <1>8 DEF m

\* An evaluation counts the findings of its reviews, whoever counts them.
LEMMA EvaluationCounts ==
  ASSUME NEW e, IsEvaluation(e)
  PROVE  /\ AreReviews(e.reviews) /\ DOMAIN e.reviews = Roles /\ e # Null
         /\ e.overall_score \in Nat
         /\ severitiesFromEvaluation(e) = countSeverities(FeedbackOf(Normalized(e.reviews)))
         /\ severitiesFromEvaluation(e) \in Severities
         /\ ~setup.legacy => SeverityCounts(e) = severitiesFromEvaluation(e)
<1>1. /\ AreReviews(e.reviews) /\ DOMAIN e.reviews = Roles /\ e # Null /\ e.overall_score \in Nat
      /\ e \in EvaluationResult
  BY NullIsNoValue DEF IsEvaluation, EvaluationResult, AreReviews
<1> DEFINE f == FeedbackOf(e.reviews)
           m == FeedbackOf(Normalized(e.reviews))
<1>2. m = normalizeFeedback(f) /\ m \in Seq(FEEDBACK_SEVERITIES)
  BY <1>1, FeedbackIs
<1>3. e.combined_feedback = IF setup.legacy THEN <<>> ELSE f
  BY DEF IsEvaluation
<1> HIDE DEF f, m
<1>4. severitiesFromEvaluation(e) = countSeverities(m)
  BY <1>2, <1>3 DEF severitiesFromEvaluation, f
<1>5. countSeverities(m) \in Severities
  BY <1>2, CountsAre
<1>6. ASSUME ~setup.legacy PROVE SeverityCounts(e) = countSeverities(m)
  <2>1. \A role \in DOMAIN e.reviews : e.reviews[role].feedback \in Seq(FEEDBACK_SEVERITIES)
    BY <1>6 DEF IsEvaluation, IsClean
  <2>2. m = f
    BY <1>1, <2>1, FeedbackIs DEF m, f
  <2> QED BY <1>3, <1>6, <2>2 DEF SeverityCounts, countSeverities
<1> QED BY <1>1, <1>4, <1>5, <1>6 DEF m

--------------------------------------------------------------------------------
(* What a snapshot says, in a form without the code's maps and searches. *)

SnapshotFields ==
  {"run_id", "current_iteration", "max_iterations", "quality_threshold", "status",
   "active_node", "versions", "current_prd", "current_prd_attempt", "latest_evaluation",
   "best_version", "best_score", "reviews", "pending_revision_plan", "node_statuses",
   "total_tokens", "error", "latest_event_sequence"}

HasTypes(s) ==
  /\ DOMAIN s = SnapshotFields
  /\ AreReviews(s.reviews)
  /\ s.run_id \in {RunId} /\ s.current_iteration \in Nat /\ s.max_iterations \in Nat
  /\ s.quality_threshold \in Nat /\ s.status \in RunStatuses /\ s.active_node \in Maybe(Nodes)
  /\ s.versions \in Seq(PRDVersion) /\ s.current_prd \in Text /\ s.current_prd_attempt \in Nat
  /\ s.latest_evaluation \in Maybe(EvaluationResult)
  /\ s.best_version \in Maybe(Nat) /\ s.best_score \in Maybe(Nat)
  /\ s.pending_revision_plan \in Maybe(RevisionPlan)
  /\ s.node_statuses \in [Nodes -> NodeStatus] /\ s.total_tokens \in Nat
  /\ s.error \in Maybe(ERROR_MESSAGES) /\ s.latest_event_sequence \in Nat

\* The record type of a snapshot, one field at a time.
LEMMA SnapshotTypes ==
  ASSUME NEW s
  PROVE  IsRunSnapshot(s) <=> HasTypes(s)
<1> DEFINE r == [s EXCEPT !.reviews = Null]
           Records ==
             [run_id : {RunId}, current_iteration : Nat, max_iterations : Nat,
              quality_threshold : Nat, status : RunStatuses, active_node : Maybe(Nodes),
              versions : Seq(PRDVersion), current_prd : Text, current_prd_attempt : Nat,
              latest_evaluation : Maybe(EvaluationResult), best_version : Maybe(Nat),
              best_score : Maybe(Nat), reviews : {Null},
              pending_revision_plan : Maybe(RevisionPlan),
              node_statuses : [Nodes -> NodeStatus], total_tokens : Nat,
              error : Maybe(ERROR_MESSAGES), latest_event_sequence : Nat]
           Typed(t) ==
             /\ t.run_id \in {RunId} /\ t.current_iteration \in Nat /\ t.max_iterations \in Nat
             /\ t.quality_threshold \in Nat /\ t.status \in RunStatuses
             /\ t.active_node \in Maybe(Nodes)
             /\ t.versions \in Seq(PRDVersion) /\ t.current_prd \in Text
             /\ t.current_prd_attempt \in Nat
             /\ t.latest_evaluation \in Maybe(EvaluationResult)
             /\ t.best_version \in Maybe(Nat) /\ t.best_score \in Maybe(Nat)
             /\ t.pending_revision_plan \in Maybe(RevisionPlan)
             /\ t.node_statuses \in [Nodes -> NodeStatus] /\ t.total_tokens \in Nat
             /\ t.error \in Maybe(ERROR_MESSAGES) /\ t.latest_event_sequence \in Nat
<1>1. IsRunSnapshot(s) <=> AreReviews(s.reviews) /\ r \in Records
  BY DEF IsRunSnapshot, AreReviews
<1>2. HasTypes(s) <=> DOMAIN s = SnapshotFields /\ AreReviews(s.reviews) /\ Typed(s)
  BY DEF HasTypes
<1>3. DOMAIN r = DOMAIN s
  OBVIOUS
<1>4. r \in Records => DOMAIN r = SnapshotFields /\ Typed(r)
  BY DEF SnapshotFields
<1>5. ASSUME DOMAIN s = SnapshotFields
      PROVE  /\ r.reviews = Null
             /\ \A field \in SnapshotFields \ {"reviews"} : r[field] = s[field]
  BY <1>5 DEF SnapshotFields
<1>6. ASSUME DOMAIN s = SnapshotFields PROVE Typed(r) <=> Typed(s)
  BY <1>5, <1>6 DEF SnapshotFields
<1>7. ASSUME DOMAIN s = SnapshotFields, Typed(r) PROVE r \in Records
  <2>1. r = [field \in SnapshotFields |-> r[field]]
    BY <1>3, <1>7
  <2>2. r.reviews = Null
    BY <1>5, <1>7
  <2> HIDE DEF r
  <2> QED BY <1>7, <2>1, <2>2 DEF SnapshotFields
<1> HIDE DEF r, Records, Typed
<1> QED BY <1>1, <1>2, <1>3, <1>4, <1>6, <1>7

\* An object whose keys are all different.
LEMMA FromEntriesIs ==
  ASSUME NEW entries, DOMAIN entries \subseteq Nat,
         \A i, j \in DOMAIN entries : entries[i][1] = entries[j][1] => i = j
  PROVE  /\ DOMAIN FromEntries(entries) = {entries[i][1] : i \in DOMAIN entries}
         /\ \A i \in DOMAIN entries : FromEntries(entries)[entries[i][1]] = entries[i][2]
<1>1. ASSUME NEW i \in DOMAIN entries
      PROVE  FromEntries(entries)[entries[i][1]] = entries[i][2]
  <2>1. {j \in DOMAIN entries : entries[j][1] = entries[i][1]} = {i}
    OBVIOUS
  <2>2. MaxOf({i}) = i
    <3>1. i \in Nat
      OBVIOUS
    <3> QED BY <3>1 DEF MaxOf
  <2>3. FromEntries(entries)[entries[i][1]] =
          entries[MaxOf({j \in DOMAIN entries : entries[j][1] = entries[i][1]})][2]
    BY DEF FromEntries
  <2> QED BY <2>1, <2>2, <2>3
<1> QED BY <1>1 DEF FromEntries

\* An object with an entry for some positions, each its own key.
LEMMA FromPositionsIs ==
  ASSUME NEW entries, DOMAIN entries \subseteq Nat, NEW f, DOMAIN f = DOMAIN entries,
         f = [i \in DOMAIN f |-> f[i]],
         \A i \in DOMAIN entries : entries[i] = <<i, f[i]>>
  PROVE  FromEntries(entries) = f
<1>1. \A i \in DOMAIN entries : entries[i][1] = i /\ entries[i][2] = f[i]
  OBVIOUS
<1>2. /\ DOMAIN FromEntries(entries) = {entries[i][1] : i \in DOMAIN entries}
      /\ \A i \in DOMAIN entries : FromEntries(entries)[entries[i][1]] = entries[i][2]
  <2>1. /\ DOMAIN entries \subseteq Nat
        /\ \A i, j \in DOMAIN entries : entries[i][1] = entries[j][1] => i = j
    BY <1>1
  <2> QED BY ONLY <2>1, FromEntriesIs
<1>3. DOMAIN FromEntries(entries) = DOMAIN f
  BY <1>1, <1>2
<1>4. \A i \in DOMAIN f : FromEntries(entries)[i] = f[i]
  BY <1>1, <1>2
<1>5. FromEntries(entries) = [key \in DOMAIN FromEntries(entries) |-> FromEntries(entries)[key]]
  BY DEF FromEntries
<1> HIDE DEF FromEntries
<1> QED BY <1>3, <1>4, <1>5

\* The versions of a snapshot.
LEMMA VersionsAre ==
  ASSUME NEW s, SnapshotOK(s)
  PROVE  /\ HasTypes(s) /\ Len(s.versions) \in Nat /\ DOMAIN s.versions = 1 .. Len(s.versions)
         /\ s.current_iteration \in Nat \ {0}
         /\ s.current_iteration \in {Len(s.versions), Len(s.versions) + 1}
         /\ \A i \in DOMAIN s.versions :
              s.versions[i] \in PRDVersion /\ IsVersion(s.versions[i], i)
         /\ Evaluated(s.versions) \subseteq 1 .. s.current_iteration
         /\ 1 .. (s.current_iteration - 1) \subseteq Evaluated(s.versions)
         /\ \A i \in Evaluated(s.versions) : IsEvaluation(s.versions[i].evaluation)
<1>1. HasTypes(s)
  BY SnapshotTypes DEF SnapshotOK
<1>2. s.versions \in Seq(PRDVersion)
  BY <1>1 DEF HasTypes
<1>3. Len(s.versions) \in Nat /\ DOMAIN s.versions = 1 .. Len(s.versions)
  BY <1>2
<1>4. \A i \in DOMAIN s.versions : s.versions[i] \in PRDVersion
  BY <1>2, ElementOfSeq
<1>5. /\ s.current_iteration \in {Len(s.versions), Len(s.versions) + 1} \ {0}
      /\ \A i \in DOMAIN s.versions : IsVersion(s.versions[i], i)
      /\ \A i \in DOMAIN s.versions : i < s.current_iteration => s.versions[i].evaluation # Null
  BY DEF SnapshotOK, VersionsAreInOrder
<1>6. \A i \in 1 .. (s.current_iteration - 1) : i \in DOMAIN s.versions /\ i < s.current_iteration
  BY <1>3, <1>5
<1>7. DOMAIN s.versions \subseteq 1 .. s.current_iteration
  BY <1>3, <1>5
<1>8. \A i \in Evaluated(s.versions) :
        i \in DOMAIN s.versions /\ IsEvaluation(s.versions[i].evaluation)
  BY <1>5 DEF Evaluated, IsVersion
<1>9. 1 .. (s.current_iteration - 1) \subseteq Evaluated(s.versions)
  BY <1>5, <1>6 DEF Evaluated
<1> QED BY <1>1, <1>3, <1>4, <1>5, <1>7, <1>8, <1>9

\* The last of the versions, if there is one.
LEMMA Last1Is ==
  ASSUME NEW S, NEW seq \in Seq(S)
  PROVE  /\ Len(seq) = 0 => Last1(seq) = Null
         /\ Len(seq) # 0 => Last1(seq) = seq[Len(seq)]
BY EmptySeq DEF Last1

\* The beginnings and the ends of a text, and what they are when it grows.
LEMMA TextParts ==
  ASSUME NEW R, NEW t \in Seq(R)
  PROVE  /\ Beginning(t, Len(t)) = t /\ Rest(t, 0) = t
         /\ \A n \in 0 .. Len(t) :
              /\ Rest(t, n) \in Seq(R) /\ Len(Rest(t, n)) = Len(t) - n
              /\ \A k \in 1 .. Len(t) - n : Rest(t, n)[k] = t[n + k]
<1>1. /\ Len(t) \in Nat /\ DOMAIN t = 1 .. Len(t) /\ t = [k \in 1 .. Len(t) |-> t[k]]
      /\ \A k \in 1 .. Len(t) : t[k] \in R
  OBVIOUS
<1>2. Beginning(t, Len(t)) = t
  BY <1>1 DEF Beginning
<1>3. Rest(t, 0) = t
  <2>1. /\ Len(t) - 0 = Len(t)
        /\ \A k \in 1 .. Len(t) : 0 + k = k
    BY <1>1
  <2> QED BY <1>1, <2>1 DEF Rest
<1>4. ASSUME NEW n \in 0 .. Len(t)
      PROVE  /\ Rest(t, n) \in Seq(R) /\ Len(Rest(t, n)) = Len(t) - n
             /\ \A k \in 1 .. Len(t) - n : Rest(t, n)[k] = t[n + k]
  <2>1. Len(t) - n \in Nat /\ \A k \in 1 .. Len(t) - n : n + k \in 1 .. Len(t)
    BY <1>1
  <2>2. \A k \in 1 .. Len(t) - n : t[n + k] \in R
    BY <1>1, <2>1
  <2> QED BY <2>1, <2>2 DEF Rest
<1> QED BY <1>2, <1>3, <1>4

\* A page has the versions of a snapshot and, but for a beginning, its text.
HasDrafts(drafts, s) == HasVersions(drafts, s) /\ HasRest(drafts, s)

\* A new page can tell the text that is being written from the last version.
ReadsOtherwise(s) ==
  /\ IsStarted(s)
  /\ Len(s.versions) # 0 => Reads(s.current_prd) # Reads(s.versions[Len(s.versions)].content)

\* The drafts a new page takes from a snapshot are its versions and its text.
LEMMA DraftsAre ==
  ASSUME NEW s, SnapshotOK(s)
  PROVE  /\ HasDrafts(draftsFromSnapshot(s), s)
         /\ DOMAIN draftsFromSnapshot(s) =
              (1 .. Len(s.versions)) \cup {v \in {s.current_iteration} : ReadsOtherwise(s)}
         /\ ReadsOtherwise(s) =>
              LET draft == draftsFromSnapshot(s)[s.current_iteration] IN
              draft.content = s.current_prd /\ draft.attempt = s.current_prd_attempt
         /\ \A v \in DOMAIN draftsFromSnapshot(s) : IsDraft(draftsFromSnapshot(s), v)
<1> DEFINE drafts == versionsFromSnapshot(s.versions)
           draft(i) == [version |-> s.versions[i].version, attempt |-> 1,
                        content |-> s.versions[i].content, complete |-> TRUE]
           entries == [i \in DOMAIN s.versions |-> <<s.versions[i].version, draft(i)>>]
           f == [i \in DOMAIN s.versions |-> draft(i)]
           cur == s.current_iteration
           new == [version |-> cur, attempt |-> s.current_prd_attempt,
                   content |-> s.current_prd, complete |-> FALSE]
<1>1. /\ HasTypes(s) /\ Len(s.versions) \in Nat /\ DOMAIN s.versions = 1 .. Len(s.versions)
      /\ cur \in Nat \ {0} /\ cur \in {Len(s.versions), Len(s.versions) + 1}
      /\ \A i \in DOMAIN s.versions : s.versions[i].version = i /\ s.versions[i] \in PRDVersion
  BY VersionsAre DEF IsVersion
<1>2. drafts = f
  <2>1. /\ DOMAIN entries \subseteq Nat /\ DOMAIN f = DOMAIN entries
        /\ f = [i \in DOMAIN f |-> f[i]]
        /\ \A i \in DOMAIN entries : entries[i] = <<i, f[i]>>
    <3> HIDE DEF draft
    <3>1. DOMAIN entries = DOMAIN s.versions /\ DOMAIN f = DOMAIN s.versions
      OBVIOUS
    <3>2. ASSUME NEW i \in DOMAIN s.versions PROVE entries[i] = <<i, f[i]>>
      BY <1>1
    <3>3. DOMAIN s.versions \subseteq Nat
      BY <1>1
    <3> QED BY <3>1, <3>2, <3>3
  <2>2. drafts = FromEntries(entries)
    BY DEF versionsFromSnapshot
  <2> HIDE DEF entries, f, drafts
  <2> QED BY <2>1, <2>2, FromPositionsIs
<1>3. /\ DOMAIN drafts = 1 .. Len(s.versions)
      /\ \A v \in 1 .. Len(s.versions) :
           /\ drafts[v].version = v /\ drafts[v].attempt = 1 /\ drafts[v] \in VersionDraft
           /\ drafts[v].content = s.versions[v].content
           /\ drafts[v].complete \in BOOLEAN /\ drafts[v].complete
  <2>1. DOMAIN drafts = 1 .. Len(s.versions)
        /\ \A v \in 1 .. Len(s.versions) : drafts[v] = draft(v)
    <3> HIDE DEF draft, drafts
    <3> QED BY <1>1, <1>2
  <2>2. ASSUME NEW v \in 1 .. Len(s.versions)
        PROVE  /\ draft(v).version = v /\ draft(v).attempt = 1
               /\ draft(v).content = s.versions[v].content
               /\ draft(v).complete \in BOOLEAN /\ draft(v).complete
    BY <1>1
  <2>3. ASSUME NEW v \in 1 .. Len(s.versions)
        PROVE  draft(v) \in VersionDraft
    <3>1. s.versions[v].version \in Nat /\ s.versions[v].content \in Text
      BY <1>1, VersionsAre DEF PRDVersion
    <3> QED BY <3>1 DEF VersionDraft
  <2> HIDE DEF draft, drafts
  <2> QED BY <2>1, <2>2, <2>3
<1> HIDE DEF drafts, f, entries
<1>4. /\ cur \notin DOMAIN drafts <=> cur # Len(s.versions)
      /\ s.versions \in Seq(PRDVersion) /\ s.current_prd \in Text /\ Len(s.current_prd) \in Nat
  BY <1>1, <1>3 DEF HasTypes, Text
<1>5. IsUnfinishedDraft(s, drafts) <=> ReadsOtherwise(s)
  <2>1. Len(s.versions) = 0 <=> Last1(s.versions) = Null
    <3>1. CASE Len(s.versions) # 0
      <4>1. Len(s.versions) \in DOMAIN s.versions
        BY <1>1, <3>1
      <4> QED BY <1>1, <1>4, <3>1, <4>1, Last1Is, NullIsNoValue
    <3> QED BY <1>4, <3>1, Last1Is
  <2>2. Len(s.versions) # 0 => Last1(s.versions) = s.versions[Len(s.versions)]
    BY <1>4, Last1Is
  <2> QED BY <1>4, <2>1, <2>2 DEF IsUnfinishedDraft, ReadsOtherwise, IsStarted
<1>6. CASE ~ReadsOtherwise(s)
  <2>1. draftsFromSnapshot(s) = drafts
    BY <1>5, <1>6 DEF draftsFromSnapshot, drafts
  <2>2. HasVersions(drafts, s)
    BY <1>3 DEF HasVersions
  <2>3. HasRest(drafts, s)
    <3>1. CASE ~IsStarted(s)
      BY <1>3, <3>1 DEF HasRest
    <3>2. CASE IsStarted(s)
      <4>1. /\ Len(s.versions) # 0 /\ cur # Len(s.versions)
            /\ Reads(s.current_prd) = Reads(s.versions[Len(s.versions)].content)
        BY <1>6, <3>2 DEF ReadsOtherwise, IsStarted
      <4>2. Beginning(s.current_prd, Len(s.current_prd)) = s.current_prd
        BY <1>4, TextParts DEF Text
      <4>3. RepeatsAt(s, Len(s.current_prd))
        <5>1. s.versions # <<>> /\ Last1(s.versions) = s.versions[Len(s.versions)]
          BY <1>4, <4>1, Last1Is
        <5> QED BY <4>1, <4>2, <5>1 DEF RepeatsAt
      <4>4. cur \notin DOMAIN drafts /\ Len(s.current_prd) \in 0 .. Len(s.current_prd)
        BY <1>4, <4>1
      <4> QED BY <3>2, <4>3, <4>4 DEF HasRest
    <3> QED BY <3>1, <3>2
  <2> QED BY <1>3, <1>6, <2>1, <2>2, <2>3 DEF HasDrafts, IsDraft
<1>7. CASE ReadsOtherwise(s)
  <2>1. draftsFromSnapshot(s) = Put(drafts, cur, new)
    BY <1>5, <1>7 DEF draftsFromSnapshot, drafts
  <2>2. /\ new.version = cur /\ new.attempt = s.current_prd_attempt /\ new.content = s.current_prd
        /\ new.complete \in BOOLEAN /\ ~new.complete
    OBVIOUS
  <2>3. new \in VersionDraft
    <3>1. cur \in Nat /\ s.current_prd_attempt \in Nat /\ s.current_prd \in Text
      BY <1>1 DEF HasTypes
    <3> HIDE DEF cur
    <3> QED BY <3>1 DEF VersionDraft
  <2>4. IsStarted(s) /\ cur \notin 1 .. Len(s.versions)
    BY <1>1, <1>7 DEF ReadsOtherwise, IsStarted
  <2> HIDE DEF new, cur
  <2> DEFINE all == Put(drafts, cur, new)
  <2>5. /\ DOMAIN all = (1 .. Len(s.versions)) \cup {cur} /\ all[cur] = new
        /\ \A v \in 1 .. Len(s.versions) : all[v] = drafts[v]
    BY <1>3, <2>4 DEF Put
  <2> HIDE DEF all
  <2>6. HasVersions(all, s)
    BY <1>3, <2>2, <2>4, <2>5 DEF HasVersions, cur
  <2>7. HasRest(all, s)
    <3>1. Rest(s.current_prd, 0) = s.current_prd /\ 0 \in 0 .. Len(s.current_prd)
      BY <1>4, TextParts DEF Text
    <3> QED BY <2>2, <2>4, <2>5, <3>1 DEF HasRest, cur
  <2>8. IsDraft(all, cur)
    <3>1. IsTextOf(s.current_prd, s.current_iteration, s.current_prd_attempt)
      BY <2>4 DEF SnapshotOK, TextIsOfOneAttempt, IsStarted
    <3>2. \A k \in DOMAIN new.content : new.content[k] \in {<<cur, new.attempt, 0 + k>>, Marker}
      <4>1. \A k \in DOMAIN s.current_prd : k \in 1 .. Len(s.current_prd) /\ 0 + k = k
        BY <1>4 DEF Text
      <4> QED BY <2>2, <3>1, <4>1 DEF IsTextOf, cur
    <3>3. 0 \in 0 .. MaxChunks
      BY ServerAssumption
    <3>4. IsRestOfAttempt(all, cur, 0)
      BY <2>5, <3>2 DEF IsRestOfAttempt
    <3> QED BY <2>2, <2>3, <2>5, <3>3, <3>4 DEF IsDraft
  <2>9. ASSUME NEW v \in 1 .. Len(s.versions) PROVE IsDraft(all, v)
    BY <1>3, <2>5 DEF IsDraft
  <2> QED BY <1>7, <2>1, <2>2, <2>5, <2>6, <2>7, <2>8, <2>9 DEF HasDrafts, all, cur
<1> QED BY <1>6, <1>7

ReviewsOf(s) ==
  [v \in Evaluated(s.versions) \cup {c \in {s.current_iteration} : DOMAIN s.reviews # {}} |->
     Normalized(IF v = s.current_iteration THEN s.reviews ELSE s.versions[v].evaluation.reviews)]

\* The reviews a new page takes from a snapshot, round by round.
LEMMA ReviewsAre ==
  ASSUME NEW s, SnapshotOK(s)
  PROVE  reviewsFromSnapshot(s) = ReviewsOf(s)
<1> DEFINE E == Evaluated(s.versions)
           cur == s.current_iteration
           round(i) == Normalized(s.versions[i].evaluation.reviews)
           entries == [i \in E |-> <<s.versions[i].version, round(i)>>]
           f == [i \in E |-> round(i)]
           rounds == FromEntries(entries)
<1>1. /\ E \subseteq 1 .. cur /\ cur \in Nat
      /\ \A i \in E : s.versions[i].version = i /\ i \in DOMAIN s.versions
      /\ \A i \in E : IsEvaluation(s.versions[i].evaluation)
      /\ cur \in {Len(s.versions), Len(s.versions) + 1} /\ DOMAIN s.versions = 1 .. Len(s.versions)
      /\ Len(s.versions) \in Nat
  <2>1. \A i \in E : i \in DOMAIN s.versions
    BY DEF Evaluated
  <2> HIDE DEF E
  <2> QED BY <2>1, VersionsAre DEF IsVersion, E
<1>2. rounds = f
  <2> HIDE DEF E, round
  <2>1. /\ DOMAIN entries \subseteq Nat /\ DOMAIN f = DOMAIN entries
        /\ f = [i \in DOMAIN f |-> f[i]]
        /\ \A i \in DOMAIN entries : entries[i] = <<i, f[i]>>
    <3>1. DOMAIN entries = E /\ DOMAIN f = E /\ E \subseteq Nat
      BY <1>1
    <3>2. ASSUME NEW i \in E PROVE entries[i] = <<i, f[i]>>
      BY <1>1
    <3> QED BY <3>1, <3>2
  <2> HIDE DEF entries, f
  <2> QED BY <2>1, FromPositionsIs
<1>3. reviewsFromSnapshot(s) = IF DOMAIN s.reviews = {} THEN rounds
                               ELSE Put(rounds, cur, Normalized(s.reviews))
  BY DEF reviewsFromSnapshot
\* The reviews of the last version are the ones its evaluation is made of.
<1>4. ASSUME cur \in E
      PROVE  DOMAIN s.reviews # {} /\ s.versions[cur].evaluation.reviews = s.reviews
  <2>1. cur = Len(s.versions) /\ s.versions[Len(s.versions)].evaluation # Null
    BY <1>1, <1>4 DEF Evaluated
  <2>2. s.versions[cur].evaluation.reviews = s.reviews
    BY <2>1 DEF SnapshotOK, ReviewsAreOfTheVersion
  <2>3. DOMAIN s.versions[cur].evaluation.reviews = Roles
    BY <1>1, <1>4, EvaluationCounts
  <2> QED BY <2>2, <2>3, RolesAssumption
<1> HIDE DEF E, rounds, entries, cur
<1>5. CASE DOMAIN s.reviews = {}
  <2>1. cur \notin E /\ {c \in {cur} : DOMAIN s.reviews # {}} = {}
    BY <1>4, <1>5
  <2>2. ReviewsOf(s) = [v \in E |-> Normalized(IF v = cur THEN s.reviews
                                                ELSE s.versions[v].evaluation.reviews)]
    BY <2>1 DEF ReviewsOf, E, cur
  <2>3. \A v \in E : v # cur
    BY <2>1
  <2>4. ReviewsOf(s) = f
    BY <2>2, <2>3
  <2> HIDE DEF f
  <2> QED BY <1>2, <1>3, <1>5, <2>4
<1>6. CASE DOMAIN s.reviews # {}
  <2>1. ReviewsOf(s) = [v \in E \cup {cur} |->
          Normalized(IF v = cur THEN s.reviews ELSE s.versions[v].evaluation.reviews)]
    BY <1>6 DEF ReviewsOf, E, cur
  <2>2. Put(rounds, cur, Normalized(s.reviews)) =
          [x \in E \cup {cur} |-> IF x = cur THEN Normalized(s.reviews) ELSE rounds[x]]
    BY <1>2 DEF Put
  <2>3. \A v \in E : rounds[v] = Normalized(s.versions[v].evaluation.reviews)
    BY <1>2
  <2> HIDE DEF f, round
  <2> QED BY <1>3, <1>6, <2>1, <2>2, <2>3
<1> QED BY <1>5, <1>6

ScoresOf(versions) ==
  [v \in Evaluated(versions) |->
     ScoreOf(v, versions[v].evaluation.reviews, versions[v].evaluation.overall_score,
             severitiesFromEvaluation(versions[v].evaluation))]

\* The scores a new page takes from a snapshot, version by version.
LEMMA ScoresAre ==
  ASSUME NEW s, SnapshotOK(s)
  PROVE  scoresFromSnapshot(s.versions) = ScoresOf(s.versions)
<1> DEFINE E == Evaluated(s.versions)
           score(i, e) == ScoreOf(i, e.reviews, e.overall_score, severitiesFromEvaluation(e))
           entries == [i \in E |-> <<s.versions[i].version,
                                     score(s.versions[i].version, s.versions[i].evaluation)>>]
           f == [i \in E |-> score(i, s.versions[i].evaluation)]
<1>1. E \subseteq Nat /\ \A i \in E : s.versions[i].version = i
  <2>1. \A i \in E : i \in DOMAIN s.versions
    BY DEF Evaluated
  <2> HIDE DEF E
  <2> QED BY <2>1, VersionsAre DEF IsVersion, E
<1>2. scoresFromSnapshot(s.versions) = FromEntries(entries) /\ ScoresOf(s.versions) = f
  BY DEF scoresFromSnapshot, ScoresOf
<1> HIDE DEF E, score
<1>3. /\ DOMAIN entries \subseteq Nat /\ DOMAIN f = DOMAIN entries
      /\ f = [i \in DOMAIN f |-> f[i]]
      /\ \A i \in DOMAIN entries : entries[i] = <<i, f[i]>>
  <2>1. DOMAIN entries = E /\ DOMAIN f = E
    BY <1>1
  <2>2. ASSUME NEW i \in E PROVE entries[i] = <<i, f[i]>>
    BY <1>1
  <2> QED BY <1>1, <2>1, <2>2
<1> HIDE DEF entries, f
<1> QED BY <1>2, <1>3, FromPositionsIs

\* The plan a version is followed by.
PlanAfter(s, v) ==
  IF v + 1 \in DOMAIN s.versions THEN s.versions[v + 1].revision_plan ELSE s.pending_revision_plan

PlansOf(s) == [v \in 1 .. (s.current_iteration - 1) |-> Placed(PlanAfter(s, v), v, v + 1)]

HasPlans(plans, s) ==
  /\ DOMAIN plans = {} <=> s.current_iteration = 1
  /\ PlansAreNumbered(s) => plans = PlansOf(s)

\* A plan that says it is of the version before the one it is for, or does not say.
IsNumbered(plan, version) == plan # Null => plan.iteration \in Maybe({version - 1})

\* PlansAreNumbered, plan by plan.
LEMMA NumberedPlans ==
  ASSUME NEW s, SnapshotOK(s)
  PROVE  PlansAreNumbered(s) <=>
           /\ \A i \in DOMAIN s.versions : IsNumbered(s.versions[i].revision_plan, i)
           /\ IsNumbered(s.pending_revision_plan, s.current_iteration)
<1>1. \A i \in DOMAIN s.versions : s.versions[i].version = i
  BY VersionsAre DEF IsVersion
<1>2. \A v : v \in VersionsOf(s) <=> \E i \in DOMAIN s.versions : v = s.versions[i]
  BY DEF VersionsOf, Range
<1> QED BY <1>1, <1>2 DEF PlansAreNumbered, IsNumbered

\* The plans a new page takes, when the model numbers them well.
LEMMA PlansAre ==
  ASSUME NEW s, SnapshotOK(s), PlansAreNumbered(s)
  PROVE  revisionPlansFromSnapshot(s) = PlansOf(s)
<1> DEFINE cur == s.current_iteration
           planned == {i \in DOMAIN s.versions : s.versions[i].revision_plan # Null}
           source(i) == planSourceVersion(s.versions[i].revision_plan, s.versions[i].version)
           entry(i) == <<source(i), Placed(s.versions[i].revision_plan, source(i),
                                           s.versions[i].version)>>
           entries == [i \in planned |-> entry(i)]
           placed == FromEntries(entries)
           pending == s.pending_revision_plan
           from == planSourceVersion(pending, cur)
<1>1. /\ cur \in Nat \ {0} /\ cur \in {Len(s.versions), Len(s.versions) + 1}
      /\ Len(s.versions) \in Nat /\ DOMAIN s.versions = 1 .. Len(s.versions)
      /\ \A i \in DOMAIN s.versions :
           /\ s.versions[i].version = i /\ IsPlanFor(s.versions[i].revision_plan, i)
           /\ IsNumbered(s.versions[i].revision_plan, i)
      /\ IF cur = Len(s.versions) THEN pending = Null ELSE IsPlanFor(pending, cur)
      /\ IsNumbered(pending, cur)
  BY VersionsAre, NumberedPlans DEF IsVersion, SnapshotOK, VersionsAreInOrder
<1>2. ASSUME NEW plan, NEW version \in Nat \ {0}, IsPlanFor(plan, version),
             IsNumbered(plan, version)
      PROVE  /\ plan # Null <=> version # 1
             /\ version # 1 => planSourceVersion(plan, version) = version - 1
  <2>1. Null \notin RevisionPlan
    BY NullIsNoValue
  <2> QED BY <1>2, <2>1 DEF IsPlanFor, IsNumbered, planSourceVersion, Maybe
<1>3. planned = 2 .. Len(s.versions)
  BY <1>1, <1>2
<1>4. \A i \in planned : /\ source(i) = i - 1
                         /\ entry(i)[1] = i - 1
                         /\ entry(i)[2] = Placed(s.versions[i].revision_plan, i - 1, i)
  <2>1. ASSUME NEW i \in planned PROVE source(i) = i - 1 /\ s.versions[i].version = i
    BY <1>1, <1>2, <1>3
  <2> QED BY <2>1
<1> HIDE DEF planned, source, entry
<1>5. /\ DOMAIN placed = 1 .. (Len(s.versions) - 1)
      /\ \A v \in 1 .. (Len(s.versions) - 1) :
           placed[v] = Placed(s.versions[v + 1].revision_plan, v, v + 1)
  <2>1. /\ DOMAIN entries = 2 .. Len(s.versions)
        /\ \A i \in DOMAIN entries :
             /\ entries[i][1] = i - 1
             /\ entries[i][2] = Placed(s.versions[i].revision_plan, i - 1, i)
    BY <1>3, <1>4
  <2> HIDE DEF entries
  <2>2. /\ DOMAIN entries \subseteq Nat
        /\ \A i, j \in DOMAIN entries : entries[i][1] = entries[j][1] => i = j
    BY <1>1, <2>1
  <2>3. /\ DOMAIN placed = {entries[i][1] : i \in DOMAIN entries}
        /\ \A i \in DOMAIN entries : placed[entries[i][1]] = entries[i][2]
    BY ONLY <2>2, FromEntriesIs
  <2> HIDE DEF placed
  <2>4. ASSUME NEW v \in 1 .. (Len(s.versions) - 1)
        PROVE  /\ v \in DOMAIN placed
               /\ placed[v] = Placed(s.versions[v + 1].revision_plan, v, v + 1)
    <3>1. v + 1 \in DOMAIN entries /\ (v + 1) - 1 = v
      BY <1>1, <2>1
    <3> QED BY <2>1, <2>3, <3>1
  <2>5. ASSUME NEW v \in DOMAIN placed PROVE v \in 1 .. (Len(s.versions) - 1)
    <3>1. PICK i \in DOMAIN entries : v = i - 1
      BY <2>1, <2>3
    <3> QED BY <1>1, <2>1, <3>1
  <2> QED BY <2>4, <2>5
<1>6. placed = [v \in DOMAIN placed |-> placed[v]]
  BY DEF FromEntries
<1>7. revisionPlansFromSnapshot(s) =
        IF pending = Null THEN placed ELSE Put(placed, from, Placed(pending, from, from + 1))
  BY DEF revisionPlansFromSnapshot, planned, source, entry
<1> HIDE DEF entries, placed, pending, from
<1>8. CASE pending = Null
  <2>1. cur - 1 = Len(s.versions) - 1 \/ (cur = 1 /\ Len(s.versions) = 0)
    BY <1>1, <1>2, <1>8
  <2>2. 1 .. (cur - 1) = 1 .. (Len(s.versions) - 1)
    BY <1>1, <2>1
  <2>3. \A v \in 1 .. (Len(s.versions) - 1) :
          v + 1 \in DOMAIN s.versions /\ PlanAfter(s, v) = s.versions[v + 1].revision_plan
    BY <1>1 DEF PlanAfter
  <2> QED BY <1>5, <1>6, <1>7, <1>8, <2>2, <2>3 DEF PlansOf
<1>9. CASE pending # Null
  <2>1. cur = Len(s.versions) + 1 /\ cur # 1 /\ IsPlanFor(pending, cur)
    BY <1>1, <1>2, <1>9
  <2>2. from = cur - 1
    BY <1>1, <1>2, <2>1 DEF from
  <2>3. revisionPlansFromSnapshot(s) =
          [x \in (1 .. (Len(s.versions) - 1)) \cup {cur - 1} |->
             IF x = cur - 1 THEN Placed(pending, cur - 1, (cur - 1) + 1) ELSE placed[x]]
    BY <1>5, <1>7, <1>9, <2>2 DEF Put
  <2>4. (1 .. (Len(s.versions) - 1)) \cup {cur - 1} = 1 .. (cur - 1)
    BY <1>1, <2>1
  <2>5. ASSUME NEW v \in 1 .. (cur - 1)
        PROVE  Placed(PlanAfter(s, v), v, v + 1) =
                 IF v = cur - 1 THEN Placed(pending, cur - 1, (cur - 1) + 1) ELSE placed[v]
    <3>1. CASE v = cur - 1
      <4>1. v + 1 \notin DOMAIN s.versions
        BY <1>1, <2>1, <3>1
      <4> QED BY <3>1, <4>1 DEF PlanAfter, pending
    <3>2. CASE v # cur - 1
      <4>1. v \in 1 .. (Len(s.versions) - 1) /\ v + 1 \in DOMAIN s.versions
        BY <1>1, <2>1, <3>2
      <4> QED BY <1>5, <3>2, <4>1 DEF PlanAfter
    <3> QED BY <3>1, <3>2
  <2> HIDE DEF cur
  <2> QED BY <2>3, <2>4, <2>5 DEF PlansOf, cur
<1> QED BY <1>8, <1>9

\* The plans fit a snapshot as they fit any that has the same versions.
LEMMA SamePlans ==
  ASSUME NEW s, NEW t, t.versions = s.versions, t.current_iteration = s.current_iteration,
         t.pending_revision_plan = s.pending_revision_plan, NEW plans
  PROVE  HasPlans(plans, t) <=> HasPlans(plans, s)
<1>1. PlansAreNumbered(t) <=> PlansAreNumbered(s)
  BY DEF PlansAreNumbered, VersionsOf
<1>2. PlansOf(t) = PlansOf(s)
  BY DEF PlansOf, PlanAfter
<1> QED BY <1>1, <1>2 DEF HasPlans

\* A new page has a plan once there is a second round.
LEMMA PlansAreThere ==
  ASSUME NEW s, SnapshotOK(s)
  PROVE  DOMAIN revisionPlansFromSnapshot(s) = {} <=> s.current_iteration = 1
<1> DEFINE cur == s.current_iteration
           n == Len(s.versions)
           planned == {i \in DOMAIN s.versions : s.versions[i].revision_plan # Null}
           source(i) == planSourceVersion(s.versions[i].revision_plan, s.versions[i].version)
           entry(i) == <<source(i), Placed(s.versions[i].revision_plan, source(i),
                                           s.versions[i].version)>>
           entries == [i \in planned |-> entry(i)]
           placed == FromEntries(entries)
           pending == s.pending_revision_plan
           from == planSourceVersion(pending, cur)
<1>1. /\ cur \in Nat \ {0} /\ cur \in {n, n + 1} /\ n \in Nat /\ DOMAIN s.versions = 1 .. n
      /\ \A i \in DOMAIN s.versions : IsPlanFor(s.versions[i].revision_plan, i)
      /\ IF cur = n THEN pending = Null ELSE IsPlanFor(pending, cur)
  BY VersionsAre DEF IsVersion, SnapshotOK, VersionsAreInOrder
<1>2. ASSUME NEW plan, NEW version \in Nat \ {0}, IsPlanFor(plan, version)
      PROVE  plan # Null <=> version # 1
  BY <1>2, NullIsNoValue DEF IsPlanFor
<1>3. planned = {} <=> n \in {0, 1}
  <2>1. planned = {i \in 1 .. n : i # 1}
    BY <1>1, <1>2
  <2> HIDE DEF n, planned
  <2>2. n \notin {0, 1} => 2 \in 1 .. n
    BY <1>1
  <2> QED BY <1>1, <2>1, <2>2
<1>4. pending # Null <=> cur # n /\ cur # 1
  BY <1>1, <1>2
<1>5. DOMAIN placed = {} <=> planned = {}
  BY DEF FromEntries
<1>6. revisionPlansFromSnapshot(s) =
        IF pending = Null THEN placed ELSE Put(placed, from, Placed(pending, from, from + 1))
  BY DEF revisionPlansFromSnapshot
<1> HIDE DEF planned, placed, pending, from, n, cur
<1>7. pending # Null => DOMAIN revisionPlansFromSnapshot(s) # {}
  BY <1>6 DEF Put
<1>8. pending = Null => (DOMAIN revisionPlansFromSnapshot(s) = {} <=> n \in {0, 1})
  BY <1>3, <1>5, <1>6
<1> QED BY <1>1, <1>4, <1>7, <1>8 DEF cur

\* Of finitely many numbers there is a greatest, and a first of the greatest.
LEMMA GreatestValue ==
  ASSUME NEW f, NEW b \in Nat, NEW K \in SUBSET (1 .. b), K # {}, \A k \in K : f[k] \in Nat
  PROVE  \E i \in K : \A j \in K : f[j] <= f[i] /\ (f[j] = f[i] => i <= j)
<1> DEFINE First1(S) == \E i \in S : \A j \in S : f[j] <= f[i] /\ (f[j] = f[i] => i <= j)
           E == {n \in Nat : K \cap (1 .. n) # {} => First1(K \cap (1 .. n))}
<1>1. 0 \in E
  OBVIOUS
<1>2. ASSUME NEW n \in Nat, n \in E, K \cap (1 .. (n + 1)) # {}
      PROVE  First1(K \cap (1 .. (n + 1)))
  <2>1. CASE n + 1 \notin K
    <3>1. K \cap (1 .. (n + 1)) = K \cap (1 .. n)
      BY <2>1
    <3> QED BY <1>2, <3>1
  <2>2. CASE n + 1 \in K /\ K \cap (1 .. n) = {}
    <3>1. K \cap (1 .. (n + 1)) = {n + 1}
      BY <2>2
    <3> QED BY <2>2, <3>1
  <2>3. CASE n + 1 \in K /\ K \cap (1 .. n) # {}
    <3>1. PICK i \in K \cap (1 .. n) :
            \A j \in K \cap (1 .. n) : f[j] <= f[i] /\ (f[j] = f[i] => i <= j)
      BY <1>2, <2>3
    <3>2. \A j \in K \cap (1 .. (n + 1)) : j \in K \cap (1 .. n) \/ j = n + 1
      OBVIOUS
    <3>3. i \in K \cap (1 .. (n + 1)) /\ n + 1 \in K \cap (1 .. (n + 1)) /\ i <= n + 1
      BY <2>3
    <3>4. f[i] \in Nat /\ f[n + 1] \in Nat /\ \A j \in K \cap (1 .. n) : f[j] \in Nat
      BY <2>3
    <3>5. CASE f[n + 1] > f[i]
      <4>1. \A j \in K \cap (1 .. n) : f[j] < f[n + 1]
        BY <3>1, <3>4, <3>5
      <4>2. \A j \in K \cap (1 .. (n + 1)) :
              f[j] <= f[n + 1] /\ (f[j] = f[n + 1] => n + 1 <= j)
        BY <3>2, <3>4, <4>1
      <4> QED BY <3>3, <4>2
    <3>6. CASE ~(f[n + 1] > f[i])
      <4>1. \A j \in K \cap (1 .. (n + 1)) : f[j] <= f[i] /\ (f[j] = f[i] => i <= j)
        BY <3>1, <3>2, <3>3, <3>4, <3>6
      <4> QED BY <3>3, <4>1
    <3> QED BY <3>5, <3>6
  <2> QED BY <2>1, <2>2, <2>3
<1>3. \A n \in Nat : n \in E => n + 1 \in E
  <2>1. \A n \in Nat : n \in E => (K \cap (1 .. (n + 1)) # {} => First1(K \cap (1 .. (n + 1))))
    BY <1>2
  <2> HIDE DEF First1
  <2> QED BY <2>1
<1>4. b \in E
  <2> HIDE DEF E
  <2> QED BY <1>1, <1>3, InductiveSet
<1>5. K \cap (1 .. b) = K
  OBVIOUS
<1> QED BY <1>4, <1>5

ScoreAt(s, i) == s.versions[i].evaluation.overall_score

\* The version that scored highest; an old server does not say which, and the browser
\* takes the first of those that did.
IsBest(b, s) ==
  IF Evaluated(s.versions) = {} THEN b.version = Null /\ b.score = Null
  ELSE /\ b.version \in Evaluated(s.versions) /\ b.score = ScoreAt(s, b.version)
       /\ \A i \in Evaluated(s.versions) : ScoreAt(s, i) <= b.score
       /\ setup.legacy => \A i \in Evaluated(s.versions) :
                            ScoreAt(s, i) = b.score => b.version <= i

\* A new page takes a version that scored highest for the best.
LEMMA BestIs ==
  ASSUME NEW s, SnapshotOK(s)
  PROVE  /\ IsBest(bestFromSnapshot(s), s)
         /\ ~setup.legacy => /\ bestFromSnapshot(s).version = s.best_version
                             /\ bestFromSnapshot(s).score = s.best_score
         /\ Evaluated(s.versions) # {} => bestFromSnapshot(s).score \in Nat
<1> DEFINE E == Evaluated(s.versions)
           scored == {v \in VersionsOf(s) : v.evaluation # Null}
           top == {v \in scored : \A w \in scored :
                     w.evaluation.overall_score <= v.evaluation.overall_score}
           b == bestFromSnapshot(s)
           score(i) == ScoreAt(s, i)
<1>1. /\ E \subseteq 1 .. s.current_iteration /\ s.current_iteration \in Nat
      /\ \A i \in E : score(i) \in Nat
      /\ \A i \in E : s.versions[i].version = i /\ i \in DOMAIN s.versions
      /\ \A i \in DOMAIN s.versions : s.versions[i].version = i
  <2>1. \A i \in E : i \in DOMAIN s.versions
    BY DEF Evaluated
  <2>2. \A i \in E : score(i) \in Nat
    BY VersionsAre, EvaluationCounts DEF ScoreAt
  <2> HIDE DEF E, score
  <2> QED BY <2>1, <2>2, VersionsAre DEF IsVersion, E
<1>2. Null \notin Nat
  BY NullIsNoValue
<1>3. scored = {s.versions[i] : i \in E}
  BY DEF VersionsOf, Evaluated
<1>4. IF setup.legacy \/ E = {} THEN s.best_version = Null /\ s.best_score = Null
      ELSE /\ s.best_version \in E /\ s.best_score = score(s.best_version)
           /\ \A i \in E : score(i) <= s.best_score
  BY DEF SnapshotOK, BestIsTheBest, ScoreAt
<1>5. CASE E = {}
  <2>1. scored = {} /\ s.best_version = Null
    BY <1>3, <1>4, <1>5
  <2>2. b.version = Null /\ b.score = Null
    BY <2>1 DEF bestFromSnapshot
  <2> QED BY <1>4, <1>5, <2>2 DEF IsBest
<1>6. CASE E # {} /\ ~setup.legacy
  <2>1. s.best_version # Null /\ s.best_score # Null
    BY <1>1, <1>2, <1>4, <1>6
  <2>2. b.version = s.best_version /\ b.score = s.best_score
    BY <2>1 DEF bestFromSnapshot
  <2>3. s.best_score \in Nat
    BY <1>1, <1>4, <1>6
  <2> HIDE DEF b
  <2> QED BY <1>4, <1>6, <2>2, <2>3 DEF IsBest, b
<1>7. CASE E # {} /\ setup.legacy
  <2>1. PICK m \in E : \A j \in E : score(j) <= score(m) /\ (score(j) = score(m) => m <= j)
    <3> DEFINE f == [i \in E |-> score(i)]
    <3>1. \A i \in E : f[i] = score(i) /\ f[i] \in Nat
      BY <1>1
    <3> DEFINE cur == s.current_iteration
    <3>2. /\ cur \in Nat /\ E \in SUBSET (1 .. cur) /\ E # {}
          /\ \A i \in E : f[i] \in Nat
      BY <1>1, <1>7, <3>1
    <3> HIDE DEF f, score, E, cur
    <3>3. \E i \in E : \A j \in E : f[j] <= f[i] /\ (f[j] = f[i] => i <= j)
      BY ONLY <3>2, GreatestValue
    <3> QED BY <3>1, <3>3
  <2> DEFINE v == s.versions[m]
  <2>2. v \in top
    <3>1. v \in scored
      BY <1>3
    <3>2. ASSUME NEW w \in scored
          PROVE  w.evaluation.overall_score <= v.evaluation.overall_score
      <4>1. PICK j \in E : w = s.versions[j]
        BY <1>3
      <4> QED BY <2>1, <4>1 DEF ScoreAt
    <3> QED BY <3>1, <3>2
  <2>3. ASSUME NEW w \in top PROVE v.version <= w.version /\ (w.version = v.version => w = v)
    <3>1. PICK j \in E : w = s.versions[j]
      BY <1>3
    <3>2. v \in scored /\ score(m) <= score(j)
      BY <2>2, <3>1 DEF ScoreAt
    <3>3. score(j) <= score(m) /\ score(j) \in Nat /\ score(m) \in Nat
      BY <1>1, <2>1
    <3>4. score(j) = score(m)
      BY <3>2, <3>3
    <3>5. m <= j /\ w.version = j /\ v.version = m
      BY <1>1, <2>1, <3>1, <3>4
    <3> QED BY <3>1, <3>5
  <2> DEFINE best == CHOOSE x \in top : \A w \in top : x.version <= w.version
  <2>4. v \in top /\ \A w \in top : v.version <= w.version
    BY <2>2, <2>3
  <2>5. best \in top /\ \A w \in top : best.version <= w.version
    BY <2>4
  <2> HIDE DEF best
  <2>6. best.version <= v.version /\ v.version <= best.version
    BY <2>2, <2>3, <2>5
  <2>7. v.version = m /\ m \in Nat
    BY <1>1
  <2>8. best.version \in Nat
    <3>1. PICK j \in E : best = s.versions[j]
      BY <1>3, <2>5
    <3> QED BY <1>1, <3>1
  <2>9. best = v
    BY <2>3, <2>5, <2>6, <2>7, <2>8
  <2>10. scored # {}
    BY <2>2
  <2>11. b = [version |-> best.version, score |-> best.evaluation.overall_score]
    BY <1>4, <1>7, <2>10 DEF bestFromSnapshot, best
  <2>12. b.version = m /\ b.score = score(m)
    BY <2>7, <2>9, <2>11 DEF ScoreAt
  <2> HIDE DEF b, E, top, scored, v
  <2> QED BY <1>1, <1>7, <2>1, <2>12 DEF IsBest, E, b
<1> QED BY <1>5, <1>6, <1>7

\* Of an old server's versions only one is the first of the highest.
LEMMA FirstBestIsOne ==
  ASSUME NEW s, SnapshotOK(s), setup.legacy, NEW b, IsBest(b, s), NEW c, IsBest(c, s)
  PROVE  b.version = c.version /\ b.score = c.score
<1> DEFINE E == Evaluated(s.versions)
           score(i) == ScoreAt(s, i)
<1>1. \A i \in E : score(i) \in Nat /\ i \in Nat
  <2>1. E \subseteq 1 .. s.current_iteration /\ s.current_iteration \in Nat
    BY VersionsAre
  <2>2. \A i \in E : score(i) \in Nat
    BY VersionsAre, EvaluationCounts DEF ScoreAt
  <2> HIDE DEF E, score
  <2> QED BY <2>1, <2>2
<1>2. CASE E = {}
  BY <1>2 DEF IsBest
<1>3. CASE E # {}
  <2> HIDE DEF E, score
  <2>1. /\ b.version \in E /\ b.score = score(b.version)
        /\ \A i \in E : score(i) <= b.score
        /\ \A i \in E : score(i) = b.score => b.version <= i
        /\ c.version \in E /\ c.score = score(c.version)
        /\ \A i \in E : score(i) <= c.score
        /\ \A i \in E : score(i) = c.score => c.version <= i
    BY <1>3 DEF IsBest, E, score
  <2>2. b.score = c.score
    BY <1>1, <2>1
  <2>3. b.version <= c.version /\ c.version <= b.version
    BY <2>1, <2>2
  <2> QED BY <1>1, <2>1, <2>2, <2>3
<1> QED BY <1>2, <1>3

--------------------------------------------------------------------------------
(* What a page that is up to date knows, in the same form. *)

HasBest(page, s) ==
  IF setup.legacy THEN IsBest([version |-> page.bestVersion, score |-> page.bestScore], s)
  ELSE page.bestVersion = s.best_version /\ page.bestScore = s.best_score

Knows(page, s) ==
  /\ page.status = s.status /\ page.error = s.error
  /\ HasDrafts(page.drafts, s)
  /\ page.reviewsByVersion = ReviewsOf(s)
  /\ page.scoresByVersion = ScoresOf(s.versions)
  /\ HasPlans(page.revisionPlansBySourceVersion, s)
  /\ HasBest(page, s)
  /\ OutcomeAgrees(page, s)
  /\ page.snapshot # Null => IsEarlier(page.snapshot, s)
  /\ page.pendingRevisionPlan # Null => s.current_iteration > 1

\* The best version is the one a new page would take, said without a new page.
LEMMA SameBest ==
  ASSUME NEW s, SnapshotOK(s), NEW page
  PROVE  (/\ page.bestVersion = bestFromSnapshot(s).version
          /\ page.bestScore = bestFromSnapshot(s).score) <=> HasBest(page, s)
<1> DEFINE b == bestFromSnapshot(s)
           c == [version |-> page.bestVersion, score |-> page.bestScore]
<1>1. IsBest(b, s) /\ c.version = page.bestVersion /\ c.score = page.bestScore
  BY BestIs
<1>2. CASE ~setup.legacy
  <2>1. b.version = s.best_version /\ b.score = s.best_score
    BY <1>2, BestIs
  <2> QED BY <1>2, <2>1 DEF HasBest
<1>3. CASE setup.legacy
  <2>1. HasBest(page, s) <=> IsBest(c, s)
    BY <1>3 DEF HasBest
  <2> HIDE DEF b, c
  <2>2. IsBest(c, s) => c.version = b.version /\ c.score = b.score
    BY <1>1, <1>3, FirstBestIsOne
  <2>3. c.version = b.version /\ c.score = b.score => IsBest(c, s)
    BY <1>1 DEF IsBest
  <2> QED BY <1>1, <2>1, <2>2, <2>3 DEF b
<1> QED BY <1>2, <1>3

\* Of the text such a page may know nothing new.
KnowsVersions(page, s) ==
  /\ page.status = s.status /\ page.error = s.error
  /\ HasVersions(page.drafts, s)
  /\ page.reviewsByVersion = ReviewsOf(s)
  /\ page.scoresByVersion = ScoresOf(s.versions)
  /\ HasPlans(page.revisionPlansBySourceVersion, s)
  /\ HasBest(page, s)
  /\ OutcomeAgrees(page, s)
  /\ page.snapshot # Null => IsEarlier(page.snapshot, s)
  /\ page.pendingRevisionPlan # Null => s.current_iteration > 1

\* Agrees, said without a new page: the form the steps are proved in.
LEMMA AgreesIs ==
  ASSUME NEW s, SnapshotOK(s), NEW page
  PROVE  /\ Agrees(page, s) <=>
              KnowsVersions(page, s) /\ (~MissedReset(page, s) => HasRest(page.drafts, s))
         /\ Knows(page, s) <=> KnowsVersions(page, s) /\ HasRest(page.drafts, s)
<1>1. (/\ page.bestVersion = bestFromSnapshot(s).version
       /\ page.bestScore = bestFromSnapshot(s).score) <=> HasBest(page, s)
  BY SameBest
<1>2. /\ reviewsFromSnapshot(s) = ReviewsOf(s) /\ scoresFromSnapshot(s.versions) = ScoresOf(s.versions)
  BY ReviewsAre, ScoresAre
<1>3. PlansAgree(page, s) <=> HasPlans(page.revisionPlansBySourceVersion, s)
  BY PlansAre DEF PlansAgree, HasPlans
<1>4. Agrees(page, s) <=>
        KnowsVersions(page, s) /\ (~MissedReset(page, s) => HasRest(page.drafts, s))
  BY <1>1, <1>2, <1>3 DEF Agrees, KnowsVersions
<1>5. Knows(page, s) <=> KnowsVersions(page, s) /\ HasRest(page.drafts, s)
  BY DEF Knows, KnowsVersions, HasDrafts
<1> QED BY <1>4, <1>5

\* A run that has not ended by itself has no outcome.
LEMMA OutcomeOpen ==
  ASSUME NEW page, NEW s, s.status \notin Ended
  PROVE  OutcomeAgrees(page, s) <=> page.outcome = Null
<1>1. outcomeFromSnapshot(s, bestFromSnapshot(s)) = Null
  BY DEF outcomeFromSnapshot, Ended
<1> QED BY <1>1 DEF OutcomeAgrees

--------------------------------------------------------------------------------
(* Steps that say nothing new about the document. *)

\* The run's data, as against where it is.
SameDocument(s, t) ==
  /\ t.run_id = s.run_id /\ t.current_iteration = s.current_iteration
  /\ t.max_iterations = s.max_iterations
  /\ t.quality_threshold = s.quality_threshold /\ t.versions = s.versions
  /\ t.current_prd = s.current_prd /\ t.current_prd_attempt = s.current_prd_attempt
  /\ t.latest_evaluation = s.latest_evaluation
  /\ t.best_version = s.best_version /\ t.best_score = s.best_score
  /\ t.reviews = s.reviews /\ t.pending_revision_plan = s.pending_revision_plan

SameData(s, t) == SameDocument(s, t) /\ t.latest_event_sequence = s.latest_event_sequence

\* A snapshot stays well formed as long as the document of the run does not change.
LEMMA SameSnapshotOK ==
  ASSUME NEW s, SnapshotOK(s), NEW t, SameDocument(s, t), HasTypes(t), EndIsJust(t)
  PROVE  SnapshotOK(t)
<1>1. IsRunSnapshot(t)
  BY SnapshotTypes
<1>2. t.run_id = RunId /\ t.current_prd_attempt \in {1, 2}
  BY DEF SnapshotOK, SameDocument
<1>3. VersionsAreInOrder(t)
  BY DEF SnapshotOK, SameDocument, VersionsAreInOrder
<1>4. ReviewsAreOfTheVersion(t)
  BY DEF SnapshotOK, SameDocument, ReviewsAreOfTheVersion
<1>5. BestIsTheBest(t)
  <2>1. BestIsTheBest(s) /\ t.versions = s.versions /\ t.best_version = s.best_version
        /\ t.best_score = s.best_score
    BY DEF SnapshotOK, SameDocument
  <2> QED BY Zenon, <2>1 DEF BestIsTheBest
<1>6. TextIsOfOneAttempt(t)
  BY DEF SnapshotOK, SameDocument, TextIsOfOneAttempt
<1> QED BY <1>1, <1>2, <1>3, <1>4, <1>5, <1>6 DEF SnapshotOK

\* The snapshot a page has is of the run at the same point.
StillShows(old, new) ==
  IF old = Null THEN new = Null
  ELSE /\ IsRunSnapshot(new) /\ new.current_iteration = old.current_iteration
       /\ new.versions = old.versions

\* A page that has only logged an event, and may show where the run is now.
Plain(v, w) ==
  /\ IsView(w) /\ w.runId = v.runId /\ w.pendingControl = v.pendingControl
  /\ w.selectionPinned = v.selectionPinned /\ w.selectedVersion = v.selectedVersion
  /\ w.drafts = v.drafts /\ w.reviewsByVersion = v.reviewsByVersion
  /\ w.scoresByVersion = v.scoresByVersion
  /\ w.revisionPlansBySourceVersion = v.revisionPlansBySourceVersion
  /\ w.bestVersion = v.bestVersion /\ w.bestScore = v.bestScore /\ w.outcome = v.outcome
  /\ w.pendingRevisionPlan = v.pendingRevisionPlan
  /\ StillShows(v.snapshot, w.snapshot)

\* The drafts a page has fit a snapshot as they fit any that has the same document.
LEMMA SameDocumentSameDrafts ==
  ASSUME NEW s, NEW t, SameDocument(s, t), NEW drafts
  PROVE  /\ IsStarted(t) <=> IsStarted(s)
         /\ \A n : RepeatsAt(t, n) <=> RepeatsAt(s, n)
         /\ HasVersions(drafts, t) <=> HasVersions(drafts, s)
         /\ HasRest(drafts, t) <=> HasRest(drafts, s)
<1>1. /\ t.versions = s.versions /\ t.current_iteration = s.current_iteration
      /\ t.current_prd = s.current_prd /\ t.current_prd_attempt = s.current_prd_attempt
  BY DEF SameDocument
<1>2. IsStarted(t) <=> IsStarted(s)
  BY <1>1 DEF IsStarted
<1>3. \A n : RepeatsAt(t, n) <=> RepeatsAt(s, n)
  BY <1>1 DEF RepeatsAt
<1>4. HasVersions(drafts, t) <=> HasVersions(drafts, s)
  BY <1>1 DEF HasVersions
<1>5. HasRest(drafts, t) <=> HasRest(drafts, s)
  BY <1>1, <1>2, <1>3 DEF HasRest
<1> QED BY <1>2, <1>3, <1>4, <1>5

\* A page stays well formed when only its status, error and nodes change,
LEMMA PlainPageOK ==
  ASSUME NEW v, PageOK(v), NEW w, Plain(v, w), w.status \in RunStatuses
  PROVE  PageOK(w)
<1>1. w.snapshot = Null \/ IsRunSnapshot(w.snapshot)
  BY DEF Plain, StillShows
<1>2. /\ DOMAIN w = DOMAIN initialRunViewState /\ w.runId = RunId /\ w.pendingControl = Null
      /\ w.selectionPinned \in BOOLEAN /\ w.selectedVersion \in Maybe(DOMAIN w.drafts)
  BY Zenon DEF Plain, PageOK, IsView
<1>3. /\ \A x \in DOMAIN w.drafts : IsDraft(w.drafts, x)
      /\ \A x \in DOMAIN w.reviewsByVersion : \A role \in DOMAIN w.reviewsByVersion[x] :
           w.reviewsByVersion[x][role].feedback \in Seq(FEEDBACK_SEVERITIES)
  BY DEF Plain, PageOK
<1> QED BY <1>1, <1>2, <1>3 DEF PageOK

\* and keeps knowing a run of which only the status and the nodes changed.
LEMMA PlainKnows ==
  ASSUME NEW s, NEW v, Knows(v, s), s.status \notin Ended, NEW w, Plain(v, w),
         NEW t, SameDocument(s, t), w.status = t.status, w.error = t.error, t.status \notin Ended
  PROVE  Knows(w, t)
<1>1. HasDrafts(w.drafts, t)
  <2>1. HasDrafts(v.drafts, s) /\ w.drafts = v.drafts
    BY DEF Knows, Plain
  <2>2. /\ HasVersions(v.drafts, t) <=> HasVersions(v.drafts, s)
        /\ HasRest(v.drafts, t) <=> HasRest(v.drafts, s)
    BY SameDocumentSameDrafts
  <2> QED BY <2>1, <2>2 DEF HasDrafts
<1>2. w.reviewsByVersion = ReviewsOf(t)
  <2>1. w.reviewsByVersion = ReviewsOf(s)
    BY DEF Knows, Plain
  <2>2. /\ t.versions = s.versions /\ t.current_iteration = s.current_iteration
        /\ t.reviews = s.reviews
    BY DEF SameDocument
  <2> QED BY <2>1, <2>2 DEF ReviewsOf
<1>3. w.scoresByVersion = ScoresOf(t.versions)
  BY DEF Knows, Plain, SameDocument
<1>4. HasPlans(w.revisionPlansBySourceVersion, t)
  <2>1. HasPlans(w.revisionPlansBySourceVersion, s)
    BY DEF Knows, Plain
  <2>2. /\ t.versions = s.versions /\ t.current_iteration = s.current_iteration
        /\ t.pending_revision_plan = s.pending_revision_plan
    BY DEF SameDocument
  <2> QED BY <2>1, <2>2, SamePlans
<1>5. HasBest(w, t)
  <2>1. HasBest(v, s) /\ w.bestVersion = v.bestVersion /\ w.bestScore = v.bestScore
    BY DEF Knows, Plain
  <2>2. /\ t.versions = s.versions /\ t.best_version = s.best_version
        /\ t.best_score = s.best_score
    BY DEF SameDocument
  <2> QED BY <2>1, <2>2 DEF HasBest, IsBest, ScoreAt
<1>6. OutcomeAgrees(w, t)
  <2>1. w.outcome = Null
    BY OutcomeOpen DEF Knows, Plain
  <2> QED BY <2>1, OutcomeOpen
<1>7. w.snapshot # Null => IsEarlier(w.snapshot, t)
  <2>1. ASSUME w.snapshot # Null
        PROVE  /\ IsEarlier(v.snapshot, s) /\ w.snapshot.versions = v.snapshot.versions
               /\ w.snapshot.current_iteration = v.snapshot.current_iteration
    BY <2>1 DEF Knows, Plain, StillShows
  <2>2. t.versions = s.versions /\ t.current_iteration = s.current_iteration
    BY DEF SameDocument
  <2> QED BY <2>1, <2>2 DEF IsEarlier
<1>8. w.pendingRevisionPlan # Null => t.current_iteration > 1
  BY DEF Knows, Plain, SameDocument
<1> QED BY <1>1, <1>2, <1>3, <1>4, <1>5, <1>6, <1>7, <1>8 DEF Knows

\* What the page shows of the run while it is at work.
LEMMA NodeShown ==
  ASSUME NEW old, old = Null \/ IsRunSnapshot(old)
  PROVE  /\ StillShows(old, old)
         /\ \A node \in Nodes, status \in NodeStatus :
              StillShows(old, withNodeStatus(old, node, status))
         /\ \A payload : (DOMAIN payload = {"tokens"} /\ payload.tokens \in Nat) =>
              StillShows(old, withTelemetry(old, payload))
<1>1. CASE old = Null
  BY <1>1 DEF StillShows, withNodeStatus, withTelemetry
<1>2. CASE old # Null
  <2>1. IsRunSnapshot(old) /\ HasTypes(old)
    BY <1>2, SnapshotTypes
  <2>2. ASSUME NEW node \in Nodes, NEW status \in NodeStatus
        PROVE  StillShows(old, withNodeStatus(old, node, status))
    <3> DEFINE active == IF status = "RUNNING" THEN node
                         ELSE IF old.active_node = node THEN Null ELSE old.active_node
               statuses == [old.node_statuses EXCEPT ![node] = status]
               new == withNodeStatus(old, node, status)
    <3>1. new = [old EXCEPT !.active_node = active, !.node_statuses = statuses]
      BY <1>2 DEF withNodeStatus
    <3>2. active \in Maybe(Nodes) /\ statuses \in [Nodes -> NodeStatus]
      BY <2>1 DEF HasTypes, Maybe
    <3> HIDE DEF active, statuses, new
    <3>3. HasTypes(new) /\ new.current_iteration = old.current_iteration
          /\ new.versions = old.versions
      BY <2>1, <3>1, <3>2 DEF HasTypes, SnapshotFields
    <3> QED BY <1>2, <3>3, SnapshotTypes DEF StillShows, new
  <2>3. ASSUME NEW payload, DOMAIN payload = {"tokens"}, payload.tokens \in Nat
        PROVE  StillShows(old, withTelemetry(old, payload))
    <3> DEFINE tokens == numberPayload(payload, "tokens", old.total_tokens)
               new == withTelemetry(old, payload)
    <3>1. new = [old EXCEPT !.total_tokens = tokens]
      BY <1>2 DEF withTelemetry
    <3>2. tokens \in Nat
      BY <2>1, <2>3 DEF HasTypes, numberPayload
    <3> HIDE DEF tokens, new
    <3>3. HasTypes(new) /\ new.current_iteration = old.current_iteration
          /\ new.versions = old.versions
      BY <2>1, <3>1, <3>2 DEF HasTypes, SnapshotFields
    <3> QED BY <1>2, <3>3, SnapshotTypes DEF StillShows, new
  <2> QED BY <1>2, <2>1, <2>2, <2>3 DEF StillShows
<1> QED BY <1>1, <1>2

\* A view that has logged an event is otherwise the one it was.
LEMMA LoggingIsPlain ==
  ASSUME NEW v, IsView(v), v.snapshot = Null \/ IsRunSnapshot(v.snapshot), NEW e
  PROVE  /\ Plain(v, Logging(v, e)) /\ Logging(v, e).status = v.status
         /\ Logging(v, e).error = Null /\ Logging(v, e).latestSequence = e.sequence
<1> DEFINE n == Logging(v, e)
<1>1. /\ IsView(n) /\ n.latestSequence = e.sequence /\ n.error = Null
      /\ \A field \in DOMAIN v \ {"latestSequence", "events", "error"} : n[field] = v[field]
  BY LoggingIs
<1>2. {"runId", "pendingControl", "selectionPinned", "selectedVersion", "drafts",
       "reviewsByVersion", "scoresByVersion", "revisionPlansBySourceVersion", "bestVersion",
       "bestScore", "outcome", "pendingRevisionPlan", "snapshot", "status"}
        \subseteq DOMAIN v \ {"latestSequence", "events", "error"}
  BY ViewFields
<1>3. StillShows(v.snapshot, v.snapshot)
  BY NodeShown
<1> HIDE DEF n
<1>4. /\ n.runId = v.runId /\ n.pendingControl = v.pendingControl
      /\ n.selectionPinned = v.selectionPinned /\ n.selectedVersion = v.selectedVersion
      /\ n.drafts = v.drafts /\ n.reviewsByVersion = v.reviewsByVersion
      /\ n.scoresByVersion = v.scoresByVersion
      /\ n.revisionPlansBySourceVersion = v.revisionPlansBySourceVersion
      /\ n.bestVersion = v.bestVersion /\ n.bestScore = v.bestScore /\ n.outcome = v.outcome
      /\ n.pendingRevisionPlan = v.pendingRevisionPlan
      /\ n.snapshot = v.snapshot /\ n.status = v.status
  BY <1>1, <1>2
<1> QED BY <1>1, <1>3, <1>4 DEF Plain, n

\* null is neither a status nor a node, and every reviewer has a node.
LEMMA StatusesAndNodes ==
  /\ Null \notin RunStatuses /\ Null \notin Nodes
  /\ \A role \in Roles : ReviewerOf(role) \in Nodes
BY NullIsNoValue DEF Nodes, Reviewers

\* What the browser makes of the events that do not carry data of the document.
LEMMA PlainEvents ==
  ASSUME NEW v, IsView(v), v.snapshot = Null \/ IsRunSnapshot(v.snapshot), NEW e,
         NEW w, w = applyEvent(v, e), NEW p, p = e.payload
  PROVE  /\ e.event = "run_started" => Plain(v, w) /\ w.status = v.status /\ w.error = Null
         /\ (e.event \in {"status_changed", "pause_requested"} /\ "current" \in DOMAIN p
               /\ p["current"] \in RunStatuses) =>
              Plain(v, w) /\ w.status = p["current"] /\ w.error = Null
         /\ e.event = "run_paused" => Plain(v, w) /\ w.status = "PAUSED" /\ w.error = Null
         /\ e.event = "run_resumed" => Plain(v, w) /\ w.status = "OPTIMIZING" /\ w.error = Null
         /\ (e.event = "node_started" /\ "node" \in DOMAIN p /\ p["node"] \in Nodes) =>
              Plain(v, w) /\ w.status = v.status /\ w.error = Null
         /\ (e.event = "telemetry_updated" /\ DOMAIN p = {"tokens"} /\ p["tokens"] \in Nat) =>
              Plain(v, w) /\ w.status = v.status /\ w.error = Null
         /\ e.event = "run_cancelled" => Plain(v, w) /\ w.status = "CANCELLED" /\ w.error = Null
         /\ (e.event = "run_failed" /\ "error_code" \in DOMAIN p /\ p["error_code"] = FailureCode) =>
              Plain(v, w) /\ w.status = "FAILED" /\ w.error = FailureCode
<1> DEFINE n == Logging(v, e)
           version == numberPayload(e.payload, "version", e.iteration)
<1>1. Plain(v, n) /\ n.status = v.status /\ n.error = Null
  BY LoggingIsPlain
<1>2. Applies(n, w, e, version)
  BY AppliedIs
<1> HIDE DEF n, version
<1>3. IsView(n) /\ (n.snapshot = Null \/ IsRunSnapshot(n.snapshot))
  BY <1>1 DEF Plain, StillShows
<1>4. ASSUME NEW x, Plain(n, x) PROVE Plain(v, x)
  <2>1. StillShows(v.snapshot, n.snapshot) /\ StillShows(n.snapshot, x.snapshot)
    BY <1>1, <1>4 DEF Plain
  <2>2. StillShows(v.snapshot, x.snapshot)
    <3>1. CASE v.snapshot = Null
      BY <2>1, <3>1 DEF StillShows
    <3>2. CASE v.snapshot # Null /\ n.snapshot # Null
      BY <2>1, <3>2 DEF StillShows
    <3>3. CASE v.snapshot # Null /\ n.snapshot = Null
      BY <2>1, <3>3 DEF StillShows
    <3> QED BY <3>1, <3>2, <3>3
  <2> QED BY Zenon, <1>1, <1>4, <2>2 DEF Plain
<1>5. StillShows(n.snapshot, n.snapshot)
  BY <1>3, NodeShown
<1>6. ASSUME NEW status PROVE LET x == [n EXCEPT !.status = status] IN
                              Plain(n, x) /\ x.status = status /\ x.error = Null
  BY <1>1, <1>3, <1>5, ViewFields DEF Plain, IsView
<1>7. ASSUME NEW snap, StillShows(n.snapshot, snap)
      PROVE  LET x == [n EXCEPT !.snapshot = snap] IN
             Plain(n, x) /\ x.status = n.status /\ x.error = Null
  BY <1>1, <1>3, <1>7, ViewFields DEF Plain, IsView
<1>8. ASSUME e.event = "run_started" PROVE Plain(v, w) /\ w.status = v.status /\ w.error = Null
  BY <1>1, <1>2, <1>8 DEF Applies, RunEventType
<1>9. ASSUME e.event \in {"status_changed", "pause_requested"}, "current" \in DOMAIN p,
             p["current"] \in RunStatuses
      PROVE  Plain(v, w) /\ w.status = p["current"] /\ w.error = Null
  <2>1. p["current"] # Null
    BY <1>9, StatusesAndNodes
  <2>2. w = [n EXCEPT !.status = p["current"]]
    BY <1>2, <1>9, <2>1 DEF Applies, StatusChanged, Sent
  <2> QED BY <1>4, <1>6, <2>2
<1>10. ASSUME e.event \in {"run_paused", "run_resumed"}
       PROVE  /\ Plain(v, w) /\ w.error = Null
              /\ w.status = IF e.event = "run_paused" THEN "PAUSED" ELSE "OPTIMIZING"
  <2>1. w = [n EXCEPT !.status = IF e.event = "run_paused" THEN "PAUSED" ELSE "OPTIMIZING"]
    BY <1>2, <1>10 DEF Applies
  <2> QED BY <1>4, <1>6, <2>1
<1>11. ASSUME e.event = "node_started", "node" \in DOMAIN p, p["node"] \in Nodes
       PROVE  Plain(v, w) /\ w.status = v.status /\ w.error = Null
  <2>1. p["node"] # Null
    BY <1>11, StatusesAndNodes
  <2>2. w = [n EXCEPT !.snapshot = withNodeStatus(n.snapshot, p["node"], "RUNNING")]
    BY <1>2, <1>11, <2>1 DEF Applies, NodeStarted, Sent
  <2>3. StillShows(n.snapshot, withNodeStatus(n.snapshot, p["node"], "RUNNING"))
    BY <1>3, <1>11, NodeShown DEF NodeStatus
  <2> QED BY <1>1, <1>4, <1>7, <2>2, <2>3
<1>12. ASSUME e.event = "telemetry_updated", DOMAIN p = {"tokens"}, p["tokens"] \in Nat
       PROVE  Plain(v, w) /\ w.status = v.status /\ w.error = Null
  <2>1. w = [n EXCEPT !.snapshot = withTelemetry(n.snapshot, p)]
    BY <1>2, <1>12 DEF Applies
  <2>2. StillShows(n.snapshot, withTelemetry(n.snapshot, p))
    BY <1>3, <1>12, NodeShown
  <2> QED BY <1>1, <1>4, <1>7, <2>1, <2>2
<1>13. ASSUME e.event = "run_cancelled"
       PROVE  Plain(v, w) /\ w.status = "CANCELLED" /\ w.error = Null
  <2>1. w = [n EXCEPT !.status = "CANCELLED", !.connection = "closed"]
    BY <1>2, <1>13 DEF Applies
  <2>2. Plain(n, w) /\ w.status = "CANCELLED" /\ w.error = Null
    BY <1>1, <1>3, <1>5, <2>1, ViewFields DEF Plain, IsView
  <2> QED BY <1>4, <2>2
<1>14. ASSUME e.event = "run_failed", "error_code" \in DOMAIN p, p["error_code"] = FailureCode
       PROVE  Plain(v, w) /\ w.status = "FAILED" /\ w.error = FailureCode
  <2>1. localizedErrorMessage(p["error_code"]) = FailureCode
    BY <1>14 DEF FailureCode, localizedErrorMessage, ERROR_MESSAGES, ProviderCodes
  <2>2. w = [n EXCEPT !.status = "FAILED", !.connection = "closed", !.error = FailureCode]
    BY <1>2, <1>14, <2>1 DEF Applies, RunFailed, Get
  <2>3. Plain(n, w) /\ w.status = "FAILED" /\ w.error = FailureCode
    BY <1>1, <1>3, <1>5, <2>2, ViewFields DEF Plain, IsView
  <2> QED BY <1>4, <2>3
<1> QED BY <1>8, <1>9, <1>10, <1>11, <1>12, <1>13, <1>14

\* Whatever an event does, the page has come to its number.
LEMMA AppliedSequence ==
  ASSUME NEW v, IsView(v), NEW e
  PROVE  applyEvent(v, e).latestSequence = e.sequence
<1> DEFINE n == Logging(v, e)
           w == applyEvent(v, e)
           version == numberPayload(e.payload, "version", e.iteration)
<1>1. IsView(n) /\ n.latestSequence = e.sequence
  BY LoggingIs
<1>2. Applies(n, w, e, version)
  BY AppliedIs
<1> HIDE DEF n, w, version
<1>3. SUFFICES w.latestSequence = n.latestSequence
  BY <1>1 DEF w
<1>4. CASE e.event \in {"status_changed", "pause_requested", "run_paused", "run_resumed",
                        "run_cancelled", "node_started", "run_failed", "telemetry_updated"}
  BY <1>1, <1>2, <1>4, ViewFields DEF Applies, StatusChanged, NodeStarted, RunFailed
<1>5. CASE e.event \in {"prd_stream_reset", "prd_delta", "prd_generated"}
  BY <1>1, <1>2, <1>5, ViewFields DEF Applies, PrdStreamReset, PrdDelta, PrdGenerated
<1>6. CASE e.event \in {"review_completed", "revision_planned"}
  BY <1>1, <1>2, <1>6, ViewFields DEF Applies, ReviewCompleted, RevisionPlanned
<1>7. CASE e.event = "scores_updated"
  BY <1>1, <1>2, <1>7, ViewFields DEF Applies, ScoresUpdated
<1>8. CASE e.event \in {"run_completed", "max_iterations_reached"}
  <2>1. PICK status : w = RunEnded(n, e.iteration, e.payload, status)
    BY <1>2, <1>8 DEF Applies
  <2>2. "latestSequence" \in DOMAIN n \ {"status", "connection", "outcome", "bestVersion", "bestScore"}
    BY <1>1, ViewFields
  <2> QED BY <1>1, <2>1, <2>2, RunEndedIs
<1>9. CASE e.event \notin RunEventType \ {"run_started"}
  BY <1>2, <1>9 DEF Applies
<1> QED BY <1>4, <1>5, <1>6, <1>7, <1>8, <1>9 DEF RunEventType

--------------------------------------------------------------------------------
(* A stretch of the workflow: what it has written, and the page it is sent to. *)

\* The page, up to date with the events of the stretch so far.
PageAt(at) == Arrived(Settled, at[2])

EventOf(at, snap, kind, payload) ==
  [run_id |-> RunId, event |-> kind,
   sequence |-> snapshot.latest_event_sequence + Len(at[2]) + 1,
   iteration |-> snap.current_iteration, payload |-> payload]

Good(at) ==
  /\ SnapshotOK(at[1]) /\ IsLog(at[2])
  /\ at[1].latest_event_sequence = snapshot.latest_event_sequence
  /\ \A n \in 0 .. Len(at[2]) : PageOK(Pages(Settled, at[2])[n])
  /\ PageAt(at).latestSequence = snapshot.latest_event_sequence + Len(at[2])
  /\ Knows(PageAt(at), at[1])

\* A commit sets the snapshot and logs one event.
LEMMA CommitIs ==
  ASSUME NEW at, NEW snap, NEW kind, NEW payload
  PROVE  /\ Commit(at, snap, kind, payload)[1] = snap
         /\ Commit(at, snap, kind, payload)[2] = Append(at[2], EventOf(at, snap, kind, payload))
BY DEF Commit, EventOf

\* An event of a run that has not ended is applied by the page.
LEMMA CommitKeeps ==
  ASSUME NEW at, Good(at), at[1].status \notin TerminalStatuses,
         NEW t, SnapshotOK(t), t.latest_event_sequence = at[1].latest_event_sequence,
         NEW kind, NEW payload, NEW w, w = applyEvent(PageAt(at), EventOf(at, t, kind, payload)),
         PageOK(w), Knows(w, t)
  PROVE  Good(Commit(at, t, kind, payload)) /\ PageAt(Commit(at, t, kind, payload)) = w
<1> DEFINE e == EventOf(at, t, kind, payload)
           v == PageAt(at)
           new == Commit(at, t, kind, payload)
           page == Settled
           log == at[2]
<1>1. new[1] = t /\ new[2] = Append(log, e)
  BY CommitIs
<1>2. /\ IsLog(log) /\ Len(log) \in Nat /\ v.latestSequence = snapshot.latest_event_sequence + Len(log)
      /\ snapshot.latest_event_sequence \in Nat
      /\ \A n \in 0 .. Len(log) : PageOK(Pages(page, log)[n])
      /\ v = Arrived(page, log) /\ v = Pages(page, log)[Len(log)]
      /\ Knows(v, at[1])
  <2>1. IsLog(log) /\ Len(log) \in Nat
    BY LogsGrow DEF Good
  <2>2. snapshot.latest_event_sequence \in Nat
    <3>1. SnapshotOK(at[1]) /\ at[1].latest_event_sequence = snapshot.latest_event_sequence
      BY DEF Good
    <3>2. HasTypes(at[1])
      BY <3>1, VersionsAre
    <3> QED BY <3>1, <3>2 DEF HasTypes
  <2> QED BY <2>1, <2>2 DEF Good, PageAt, Arrived
<1>3. PageOK(v)
  BY <1>2
<1>4. v.runId = RunId /\ v.status = at[1].status /\ IsView(v)
  BY <1>2, <1>3 DEF PageOK, Knows, IsView
<1>5. e.run_id = RunId /\ e.sequence = snapshot.latest_event_sequence + Len(log) + 1
  BY DEF EventOf
<1>6. IsRelevant(v, e)
  <2> HIDE DEF v, e, log
  <2>1. e.sequence > v.latestSequence
    BY <1>2, <1>5
  <2> QED BY <1>4, <1>5, <2>1 DEF IsRelevant, isTerminalRunStatus
<1>7. EventReceived(v, e) = w
  BY <1>6 DEF EventReceived
<1>8. w.latestSequence = e.sequence
  <2> HIDE DEF v, e
  <2> QED BY <1>4, AppliedSequence DEF v, e
<1> HIDE DEF e, v, new, page, log
<1>9. /\ IsLog(Append(log, e)) /\ Len(Append(log, e)) = Len(log) + 1
      /\ \A n \in 0 .. Len(log) : Pages(page, Append(log, e))[n] = Pages(page, log)[n]
      /\ Arrived(page, Append(log, e)) = w /\ Pages(page, Append(log, e))[Len(log) + 1] = w
  <2>1. IsLog(log)
    BY <1>2
  <2>2. /\ IsLog(Append(log, e)) /\ Len(Append(log, e)) = Len(log) + 1
        /\ \A n \in 0 .. Len(log) : Pages(page, Append(log, e))[n] = Pages(page, log)[n]
        /\ Arrived(page, Append(log, e)) = EventReceived(Arrived(page, log), e)
        /\ Pages(page, Append(log, e))[Len(log) + 1] = EventReceived(Arrived(page, log), e)
    BY ONLY <2>1, PagesAppend
  <2>3. EventReceived(Arrived(page, log), e) = w
    BY <1>2, <1>7
  <2> QED BY <2>2, <2>3
<1>10. ASSUME NEW n \in 0 .. Len(Append(log, e)) PROVE PageOK(Pages(page, Append(log, e))[n])
  <2>1. n \in 0 .. Len(log) \/ n = Len(log) + 1
    BY <1>2, <1>9
  <2> QED BY <1>2, <1>9, <2>1
<1>11. w.latestSequence = snapshot.latest_event_sequence + Len(new[2])
  BY <1>1, <1>2, <1>5, <1>8, <1>9
<1>12. PageAt(new) = w
  BY <1>1, <1>9 DEF PageAt, page
<1>13. t.latest_event_sequence = snapshot.latest_event_sequence
  BY DEF Good
<1> QED BY <1>1, <1>9, <1>10, <1>11, <1>12, <1>13 DEF Good, page, new

\* The page of a stretch is one that can be shown.
LEMMA PageAtIs ==
  ASSUME NEW at, Good(at)
  PROVE  /\ PageOK(PageAt(at)) /\ IsView(PageAt(at)) /\ Knows(PageAt(at), at[1])
         /\ (PageAt(at).snapshot = Null \/ IsRunSnapshot(PageAt(at).snapshot))
         /\ HasTypes(at[1]) /\ SnapshotOK(at[1])
<1>1. Len(at[2]) \in Nat
  BY LogsGrow DEF Good
<1>2. PageOK(PageAt(at))
  BY <1>1 DEF Good, PageAt, Arrived
<1> QED BY <1>2, VersionsAre DEF Good, PageOK, IsView

\* A commit that says nothing new about the document.
LEMMA PlainCommit ==
  ASSUME NEW at, Good(at), at[1].status \notin TerminalStatuses,
         NEW t, SameData(at[1], t), HasTypes(t), EndIsJust(t), t.status \notin Ended,
         NEW kind, NEW payload, NEW w, w = applyEvent(PageAt(at), EventOf(at, t, kind, payload)),
         Plain(PageAt(at), w), w.status = t.status, w.error = t.error
  PROVE  Good(Commit(at, t, kind, payload))
<1> DEFINE v == PageAt(at)
           s == at[1]
<1>1. PageOK(v) /\ Knows(v, s) /\ SnapshotOK(s)
  BY PageAtIs
<1>2. SnapshotOK(t)
  BY <1>1, SameSnapshotOK DEF SameData
<1>3. s.status \notin Ended
  BY DEF Ended, TerminalStatuses
<1>4. t.latest_event_sequence = s.latest_event_sequence
  BY DEF SameData
<1>5. w.status \in RunStatuses
  BY DEF HasTypes
<1> HIDE DEF v, s
<1>6. PageOK(w)
  BY <1>1, <1>5, PlainPageOK DEF v
<1>7. Knows(w, t)
  BY <1>1, <1>3, PlainKnows DEF v, s, SameData
<1> QED BY <1>2, <1>4, <1>6, <1>7, CommitKeeps DEF s

\* What RunManager does to a snapshot besides its data.
LEMMA PlainUpdates ==
  ASSUME NEW s, HasTypes(s), NEW t,
         \/ \E status \in RunStatuses, active \in Maybe(Nodes) :
              t = [s EXCEPT !.status = status, !.active_node = active]
         \/ \E status \in RunStatuses : t = [s EXCEPT !.status = status]
         \/ \E statuses \in [Nodes -> NodeStatus], active \in Maybe(Nodes) :
              t = [s EXCEPT !.node_statuses = statuses, !.active_node = active]
         \/ \E tokens \in Nat : t = [s EXCEPT !.total_tokens = tokens]
  PROVE  HasTypes(t) /\ SameData(s, t) /\ t.error = s.error
<1>1. ASSUME NEW status \in RunStatuses, NEW active \in Maybe(Nodes),
             t = [s EXCEPT !.status = status, !.active_node = active]
      PROVE  HasTypes(t) /\ SameData(s, t) /\ t.error = s.error
  BY <1>1 DEF HasTypes, SameData, SameDocument, SnapshotFields
<1>2. ASSUME NEW status \in RunStatuses, t = [s EXCEPT !.status = status]
      PROVE  HasTypes(t) /\ SameData(s, t) /\ t.error = s.error
  BY <1>2 DEF HasTypes, SameData, SameDocument, SnapshotFields
<1>3. ASSUME NEW statuses \in [Nodes -> NodeStatus], NEW active \in Maybe(Nodes),
             t = [s EXCEPT !.node_statuses = statuses, !.active_node = active]
      PROVE  HasTypes(t) /\ SameData(s, t) /\ t.error = s.error
  BY <1>3 DEF HasTypes, SameData, SameDocument, SnapshotFields
<1>4. ASSUME NEW tokens \in Nat, t = [s EXCEPT !.total_tokens = tokens]
      PROVE  HasTypes(t) /\ SameData(s, t) /\ t.error = s.error
  BY <1>4 DEF HasTypes, SameData, SameDocument, SnapshotFields
<1> QED BY <1>1, <1>2, <1>3, <1>4

\* A snapshot of a run that has not ended has no error, and may go on so.
LEMMA NotEndedIsJust ==
  ASSUME NEW s, EndIsJust(s), s.status \notin TerminalStatuses, NEW t, t.error = s.error,
         t.status \notin Ended, t.status # "FAILED"
  PROVE  EndIsJust(t) /\ t.error = Null
BY DEF EndIsJust, TerminalStatuses

\* _transition to a status that ends no run by itself keeps server and pages together,
LEMMA TransitionKeeps ==
  ASSUME NEW at, Good(at), at[1].status \notin TerminalStatuses,
         NEW target \in RunStatuses, target \notin Ended, target # "FAILED",
         NEW kind, \/ kind \in {"status_changed", "pause_requested"}
                   \/ kind = "run_paused" /\ target = "PAUSED"
                   \/ kind = "run_cancelled" /\ target = "CANCELLED",
         NEW new, new = Transition(at, target, kind, EmptyMap)
  PROVE  Good(new) /\ SameData(at[1], new[1]) /\ new[1].status = target
<1> DEFINE s == at[1]
           t == [s EXCEPT !.status = target,
                          !.active_node = IF target \in TerminalStatuses THEN Null ELSE @]
           payload == [k \in {"current"} \cup DOMAIN EmptyMap |->
                         IF k = "current" THEN target ELSE EmptyMap[k]]
           e == EventOf(at, t, kind, payload)
           v == PageAt(at)
           w == applyEvent(v, e)
<1>1. new = Commit(at, t, kind, payload)
  BY DEF Transition
<1>2. HasTypes(s) /\ EndIsJust(s) /\ IsView(v) /\ (v.snapshot = Null \/ IsRunSnapshot(v.snapshot))
  BY PageAtIs DEF SnapshotOK
<1>3. HasTypes(t) /\ SameData(s, t) /\ t.error = s.error /\ t.status = target
  <2> DEFINE active == IF target \in TerminalStatuses THEN Null ELSE s.active_node
  <2>1. t = [s EXCEPT !.status = target, !.active_node = active] /\ active \in Maybe(Nodes)
    BY <1>2 DEF HasTypes, Maybe
  <2>2. t.status = target
    BY <1>2, <2>1 DEF HasTypes, SnapshotFields
  <2> HIDE DEF t, active, s
  <2> QED BY <1>2, <2>1, <2>2, PlainUpdates
<1>4. e.event = kind /\ e.payload = payload /\ "current" \in DOMAIN payload
      /\ payload["current"] = target
  BY DEF EventOf
<1> HIDE DEF t, payload, e, v, w, s
<1>5. EndIsJust(t) /\ t.error = Null
  BY <1>2, <1>3, NotEndedIsJust DEF s
<1>6. Plain(v, w) /\ w.status = target /\ w.error = Null
  <2>1. w = applyEvent(v, e) /\ payload = e.payload
    BY <1>4 DEF w
  <2> QED BY <1>2, <1>4, <2>1, PlainEvents
<1>7. Good(new)
  BY <1>1, <1>3, <1>5, <1>6, PlainCommit DEF s, v, e, w
<1> QED BY <1>1, <1>3, <1>7, CommitIs DEF s

\* so does set_stage,
LEMMA SetStageKeeps ==
  ASSUME NEW at, Good(at), at[1].status \notin TerminalStatuses,
         NEW target \in PausableStatuses, NEW new, new = SetStage(at, target)
  PROVE  /\ Good(new) /\ SameData(at[1], new[1]) /\ new[1].status \notin TerminalStatuses
         /\ new[1].status \in {at[1].status, target}
<1>1. /\ target \in RunStatuses /\ target \notin Ended /\ target # "FAILED"
      /\ target \notin TerminalStatuses
  BY DEF PausableStatuses, LiveStatuses, RunStatuses, TerminalStatuses, Ended
<1>2. CASE at[1].status \in {"PAUSE_REQUESTED", "CANCEL_REQUESTED", target}
  <2>1. new = at
    BY <1>2 DEF SetStage
  <2> QED BY <2>1 DEF SameData, SameDocument
<1>3. CASE at[1].status \notin {"PAUSE_REQUESTED", "CANCEL_REQUESTED", target}
  <2>1. new = Transition(at, target, "status_changed", EmptyMap)
    BY <1>3 DEF SetStage
  <2> QED BY <1>1, <2>1, TransitionKeeps
<1> QED BY <1>2, <1>3

\* so does the start of a node,
LEMMA MarkRunningKeeps ==
  ASSUME NEW at, Good(at), at[1].status \notin TerminalStatuses,
         NEW node \in Nodes, NEW new, new = MarkRunning(at, node)
  PROVE  Good(new) /\ SameData(at[1], new[1]) /\ new[1].status = at[1].status
<1> DEFINE s == at[1]
           t == [s EXCEPT !.node_statuses[node] = "RUNNING", !.active_node = node]
           payload == [node |-> node]
           e == EventOf(at, t, "node_started", payload)
           v == PageAt(at)
           w == applyEvent(v, e)
<1>1. new = Commit(at, t, "node_started", payload)
  BY DEF MarkRunning
<1>2. /\ HasTypes(s) /\ EndIsJust(s) /\ IsView(v) /\ (v.snapshot = Null \/ IsRunSnapshot(v.snapshot))
      /\ v.status = s.status
  BY PageAtIs DEF SnapshotOK, Knows
<1>3. HasTypes(t) /\ SameData(s, t) /\ t.error = s.error /\ t.status = s.status
  <2> DEFINE statuses == [s.node_statuses EXCEPT ![node] = "RUNNING"]
  <2>1. t = [s EXCEPT !.node_statuses = statuses, !.active_node = node]
    OBVIOUS
  <2>2. statuses \in [Nodes -> NodeStatus] /\ node \in Maybe(Nodes)
    BY <1>2 DEF HasTypes, Maybe, NodeStatus
  <2> HIDE DEF t, statuses, s
  <2>3. t.status = s.status
    BY <1>2, <2>1 DEF HasTypes, SnapshotFields
  <2> QED BY <1>2, <2>1, <2>2, <2>3, PlainUpdates
<1>4. /\ e.event = "node_started" /\ e.payload = payload /\ "node" \in DOMAIN payload
      /\ payload["node"] = node
  BY DEF EventOf
<1> HIDE DEF t, payload, e, v, w, s
<1>5. s.status \notin Ended /\ s.status # "FAILED"
  BY DEF s, Ended, TerminalStatuses
<1>6. EndIsJust(t) /\ t.error = Null
  BY <1>2, <1>3, <1>5, NotEndedIsJust DEF s
<1>7. Plain(v, w) /\ w.status = v.status /\ w.error = Null
  <2>1. w = applyEvent(v, e) /\ payload = e.payload
    BY <1>4 DEF w
  <2> QED BY <1>2, <1>4, <2>1, PlainEvents
<1>8. Good(new)
  BY <1>1, <1>2, <1>3, <1>5, <1>6, <1>7, PlainCommit DEF s, v, e, w
<1> QED BY <1>1, <1>3, <1>8, CommitIs DEF s

\* and so does the accounting of a model call.
LEMMA RecordUsageKeeps ==
  ASSUME NEW at, Good(at), at[1].status \notin TerminalStatuses, NEW new, new = RecordUsage(at)
  PROVE  Good(new) /\ SameData(at[1], new[1]) /\ new[1].status = at[1].status
<1> DEFINE s == at[1]
           tokens == s.total_tokens + 1
           t == [s EXCEPT !.total_tokens = tokens]
           payload == [tokens |-> tokens]
           e == EventOf(at, t, "telemetry_updated", payload)
           v == PageAt(at)
           w == applyEvent(v, e)
<1>1. new = Commit(at, t, "telemetry_updated", payload)
  BY DEF RecordUsage
<1>2. /\ HasTypes(s) /\ EndIsJust(s) /\ IsView(v) /\ (v.snapshot = Null \/ IsRunSnapshot(v.snapshot))
      /\ v.status = s.status
  BY PageAtIs DEF SnapshotOK, Knows
<1>3. HasTypes(t) /\ SameData(s, t) /\ t.error = s.error /\ t.status = s.status /\ tokens \in Nat
  <2>1. tokens \in Nat
    BY <1>2 DEF HasTypes
  <2> HIDE DEF tokens, s
  <2>2. t.status = s.status
    BY <1>2 DEF HasTypes, SnapshotFields
  <2>3. \E x \in Nat : t = [s EXCEPT !.total_tokens = x]
    BY <2>1
  <2> HIDE DEF t
  <2> QED BY <1>2, <2>1, <2>2, <2>3, PlainUpdates
<1>4. /\ e.event = "telemetry_updated" /\ e.payload = payload /\ DOMAIN payload = {"tokens"}
      /\ payload["tokens"] = tokens
  BY DEF EventOf
<1> HIDE DEF t, payload, e, v, w, s, tokens
<1>5. s.status \notin Ended /\ s.status # "FAILED"
  BY DEF s, Ended, TerminalStatuses
<1>6. EndIsJust(t) /\ t.error = Null
  BY <1>2, <1>3, <1>5, NotEndedIsJust DEF s
<1>7. Plain(v, w) /\ w.status = v.status /\ w.error = Null
  <2>1. w = applyEvent(v, e) /\ payload = e.payload
    BY <1>4 DEF w
  <2> QED BY <1>2, <1>3, <1>4, <2>1, PlainEvents
<1>8. Good(new)
  BY <1>1, <1>2, <1>3, <1>5, <1>6, <1>7, PlainCommit DEF s, v, e, w
<1> QED BY <1>1, <1>3, <1>8, CommitIs DEF s

\* The run's data, without the text that is being written.
SameVersions(s, t) ==
  /\ t.current_iteration = s.current_iteration /\ t.max_iterations = s.max_iterations
  /\ t.quality_threshold = s.quality_threshold /\ t.versions = s.versions
  /\ t.latest_evaluation = s.latest_evaluation
  /\ t.best_version = s.best_version /\ t.best_score = s.best_score
  /\ t.reviews = s.reviews /\ t.pending_revision_plan = s.pending_revision_plan

\* Whether a page knows the versions does not depend on text, telemetry and numbers.
LEMMA SameDocumentSameKnowledge ==
  ASSUME NEW s, SnapshotOK(s), NEW t, SnapshotOK(t), SameVersions(s, t),
         t.status = s.status, t.error = s.error, NEW page, KnowsVersions(page, s)
  PROVE  KnowsVersions(page, t)
<1>1. /\ t.versions = s.versions /\ t.current_iteration = s.current_iteration
      /\ t.max_iterations = s.max_iterations /\ t.quality_threshold = s.quality_threshold
      /\ t.reviews = s.reviews /\ t.pending_revision_plan = s.pending_revision_plan
      /\ t.best_version = s.best_version /\ t.best_score = s.best_score
      /\ t.latest_evaluation = s.latest_evaluation
  BY DEF SameVersions
<1>2. HasVersions(page.drafts, t)
  BY <1>1 DEF KnowsVersions, HasVersions
<1>3. page.reviewsByVersion = ReviewsOf(t) /\ page.scoresByVersion = ScoresOf(t.versions)
  BY <1>1 DEF KnowsVersions, ReviewsOf
<1>4. HasPlans(page.revisionPlansBySourceVersion, t)
  <2>1. HasPlans(page.revisionPlansBySourceVersion, s)
    BY DEF KnowsVersions
  <2> QED BY <1>1, <2>1, SamePlans
<1>5. HasBest(page, t)
  BY <1>1 DEF KnowsVersions, HasBest, IsBest, ScoreAt
<1>6. OutcomeAgrees(page, t)
  <2>1. bestFromSnapshot(t) = bestFromSnapshot(s)
    <3>1. VersionsOf(t) = VersionsOf(s)
      BY <1>1 DEF VersionsOf
    <3> QED BY <1>1, <3>1 DEF bestFromSnapshot
  <2>2. outcomeFromSnapshot(t, bestFromSnapshot(t)) = outcomeFromSnapshot(s, bestFromSnapshot(s))
    BY <1>1, <2>1 DEF outcomeFromSnapshot
  <2> QED BY <1>1, <2>2 DEF KnowsVersions, OutcomeAgrees
<1>7. page.snapshot # Null => IsEarlier(page.snapshot, t)
  BY <1>1 DEF KnowsVersions, IsEarlier
<1> QED BY <1>1, <1>2, <1>3, <1>4, <1>5, <1>6, <1>7 DEF KnowsVersions

\* What the workflow has made of it so far is written.
LEMMA NumberAside ==
  ASSUME NEW s, SnapshotOK(s), NEW n \in Nat, NEW t, t = [s EXCEPT !.latest_event_sequence = n]
  PROVE  /\ SnapshotOK(t) /\ t.latest_event_sequence = n
         /\ \A page : Knows(page, s) => Agrees(page, t)
<1>1. HasTypes(s) /\ EndIsJust(s)
  BY VersionsAre DEF SnapshotOK
<1>2. /\ HasTypes(t) /\ SameDocument(s, t) /\ t.latest_event_sequence = n
      /\ t.error = s.error /\ t.status = s.status /\ t.max_iterations = s.max_iterations
      /\ t.quality_threshold = s.quality_threshold
  BY <1>1 DEF HasTypes, SameDocument, SnapshotFields
<1>3. EndIsJust(t)
  <2>1. /\ t.versions = s.versions /\ t.current_iteration = s.current_iteration
        /\ t.latest_evaluation = s.latest_evaluation
    BY <1>2 DEF SameDocument
  <2> QED BY <1>1, <1>2, <2>1 DEF EndIsJust, Passed
<1>4. SnapshotOK(t)
  BY <1>2, <1>3, SameSnapshotOK
<1>5. ASSUME NEW page, Knows(page, s) PROVE Agrees(page, t)
  <2>1. KnowsVersions(page, s) /\ HasRest(page.drafts, s)
    BY <1>5, AgreesIs
  <2>2. HasRest(page.drafts, t)
    BY <1>2, <2>1, SameDocumentSameDrafts
  <2>3. KnowsVersions(page, t)
    <3>1. SnapshotOK(s) /\ SnapshotOK(t) /\ KnowsVersions(page, s) /\ SameVersions(s, t)
      BY <1>2, <1>4, <2>1 DEF SameVersions, SameDocument
    <3> QED BY <1>2, <3>1, SameDocumentSameKnowledge
  <2> QED BY <1>4, <2>2, <2>3, AgreesIs
<1> QED BY <1>2, <1>4, <1>5

\* What a state is depends on the run only in what kind of run it is.
LEMMA SetupOnly ==
  ASSUME setup' = setup, NEW s, NEW page
  PROVE  /\ SnapshotOK(s)' <=> SnapshotOK(s)
         /\ Agrees(page, s)' <=> Agrees(page, s)
<1>1. SnapshotOK(s)' <=> SnapshotOK(s)
  BY DEF SnapshotOK, VersionsAreInOrder, IsVersion, IsEvaluation, IsClean,
         ReviewsAreOfTheVersion, BestIsTheBest
<1>2. Agrees(page, s)' <=> Agrees(page, s)
  BY DEF Agrees, OutcomeAgrees, MissedReset
<1> QED BY <1>1, <1>2

\* A handler starts from a snapshot the page will know, unless the run has ended.
LEMMA StartedIsGood ==
  ASSUME ProjectionInv
  PROVE  /\ snapshot.status \notin TerminalStatuses => Good(Started)
         /\ Started[1] = snapshot /\ PageAt(Started) = Settled
         /\ IsLog(stream) /\ Len(stream) \in Nat
<1> DEFINE page == Settled
<1>1. IsLog(stream) /\ Len(stream) \in Nat /\ PageOK(page)
  <2>1. IsLog(stream)
    BY DEF ProjectionInv, IsLog
  <2>2. Len(stream) \in Nat
    BY <2>1, LogsGrow
  <2> QED BY <2>1, <2>2 DEF ProjectionInv, Settled, Arrived
<1>2. /\ SnapshotOK(snapshot)
      /\ snapshot.status \notin TerminalStatuses =>
           Knows(page, snapshot) /\ page.latestSequence = snapshot.latest_event_sequence
  <2>1. snapshot.status \notin TerminalStatuses => snapshot.status # "CANCELLED"
    BY DEF TerminalStatuses
  <2>2. SnapshotOK(snapshot) /\ Agrees(page, snapshot)
    BY DEF ProjectionInv
  <2>3. snapshot.status # "CANCELLED" => ~MissedReset(page, snapshot)
    BY DEF MissedReset
  <2>4. snapshot.status # "CANCELLED" => page.latestSequence = snapshot.latest_event_sequence
    BY DEF ProjectionInv
  <2> HIDE DEF page
  <2> QED BY <2>1, <2>2, <2>3, <2>4, AgreesIs
<1>3. HasTypes(snapshot)
  BY <1>2, VersionsAre
<1> HIDE DEF page
<1>4. Started[1] = snapshot /\ Started[2] = <<>>
  BY DEF Started
<1>5. IsLog(<<>>) /\ Len(<<>>) = 0
  BY EmptySeq DEF IsLog
<1>6. Arrived(page, <<>>) = page /\ Pages(page, <<>>)[0] = page
  BY <1>5, PagesShrink
<1>7. PageAt(Started) = page
  BY <1>4, <1>6 DEF PageAt, page
<1>8. \A n \in 0 .. Len(Started[2]) : PageOK(Pages(page, Started[2])[n])
  BY <1>1, <1>4, <1>5, <1>6
<1>9. snapshot.status \notin TerminalStatuses =>
        page.latestSequence = snapshot.latest_event_sequence + Len(Started[2])
  BY <1>2, <1>3, <1>4, <1>5 DEF HasTypes
<1> QED BY <1>1, <1>2, <1>4, <1>5, <1>7, <1>8, <1>9 DEF Good, page

\* The pages of what a handler wrote come behind those there are.
LEMMA PagesWritten ==
  ASSUME ProjectionInv, NEW log, IsLog(log), stream' = stream \o log, live' = live,
         \A n \in 0 .. Len(log) : PageOK(Pages(Settled, log)[n])
  PROVE  /\ Settled' = Arrived(Settled, log) /\ IsLog(stream)'
         /\ \A k \in 0 .. Len(stream') : PageOK(Pages(live', stream')[k])
<1>1. IsLog(stream) /\ Len(stream) \in Nat /\ Len(log) \in Nat
  BY StartedIsGood, LogsGrow
<1>2. /\ IsLog(stream \o log) /\ Len(stream \o log) = Len(stream) + Len(log)
      /\ \A k \in 0 .. Len(stream) : Pages(live, stream \o log)[k] = Pages(live, stream)[k]
      /\ \A k \in 0 .. Len(log) :
           Pages(live, stream \o log)[Len(stream) + k] = Pages(Arrived(live, stream), log)[k]
      /\ Arrived(live, stream \o log) = Arrived(Arrived(live, stream), log)
  BY ONLY <1>1, IsLog(log), PagesJoin
<1>3. Settled' = Arrived(Settled, log)
  BY <1>2 DEF Settled
<1>4. ASSUME NEW k \in 0 .. Len(stream \o log) PROVE PageOK(Pages(live, stream \o log)[k])
  <2>1. CASE k \in 0 .. Len(stream)
    BY <1>2, <2>1 DEF ProjectionInv
  <2>2. CASE k \notin 0 .. Len(stream)
    <3>1. k - Len(stream) \in 0 .. Len(log) /\ k = Len(stream) + (k - Len(stream))
      BY <1>1, <1>2, <2>2
    <3> QED BY <1>2, <3>1 DEF Settled
  <2> QED BY <2>1, <2>2
<1> QED BY <1>2, <1>3, <1>4 DEF IsLog

\* What a handler wrote, if it kept server and pages together, keeps the invariant.
LEMMA WriteKeeps ==
  ASSUME ProjectionInv, NEW at, Good(at), Write(at), setup' = setup, live' = live, PhaseOK'
  PROVE  ProjectionInv'
<1> DEFINE log == at[2]
           n == at[1].latest_event_sequence + Len(log)
           t == [at[1] EXCEPT !.latest_event_sequence = n]
<1>1. snapshot' = t /\ stream' = stream \o log
  BY DEF Write
<1>2. IsLog(stream) /\ IsLog(log) /\ Len(stream) \in Nat /\ Len(log) \in Nat
  BY StartedIsGood, LogsGrow DEF Good
<1>3. n \in Nat
  <2>1. HasTypes(at[1])
    BY PageAtIs
  <2> QED BY <1>2, <2>1 DEF HasTypes
<1>4. /\ SnapshotOK(t) /\ t.latest_event_sequence = n /\ Agrees(PageAt(at), t)
  <2>1. SnapshotOK(at[1]) /\ Knows(PageAt(at), at[1])
    BY PageAtIs
  <2> HIDE DEF n
  <2> QED BY <1>3, <2>1, NumberAside
<1>5. SnapshotOK(snapshot)'
  <2>1. SnapshotOK(t)'
    BY <1>4, SetupOnly
  <2> QED BY <1>1, <2>1
<1>6. /\ PageAt(at).latestSequence = snapshot.latest_event_sequence + Len(log)
      /\ at[1].latest_event_sequence = snapshot.latest_event_sequence
      /\ \A k \in 0 .. Len(log) : PageOK(Pages(Settled, log)[k])
  BY DEF Good
<1>7. /\ Settled' = PageAt(at) /\ IsLog(stream)'
      /\ \A k \in 0 .. Len(stream') : PageOK(Pages(live', stream')[k])
  BY <1>1, <1>2, <1>6, PagesWritten DEF PageAt
<1> HIDE DEF log
<1>8. /\ Settled'.latestSequence = snapshot'.latest_event_sequence
       /\ snapshot'.latest_event_sequence \in Nat
  BY <1>1, <1>3, <1>4, <1>6, <1>7
<1>9. Agrees(Settled, snapshot)'
  <2>1. PICK page : page = PageAt(at)
    OBVIOUS
  <2>2. PICK written : written = t
    OBVIOUS
  <2>3. Agrees(page, written) /\ Settled' = page /\ snapshot' = written
    BY <1>1, <1>4, <1>7, <2>1, <2>2
  <2>4. Agrees(page, written)'
    BY <2>3, SetupOnly
  <2> QED BY <2>3, <2>4
<1> HIDE DEF t, n
<1> QED BY <1>5, <1>7, <1>8, <1>9 DEF ProjectionInv, IsLog

--------------------------------------------------------------------------------
(* The actions of the server that say nothing new about the document. *)

\* PhaseOK, of any snapshot and phase.
AtPhase(s, p) ==
  LET written == s.current_iteration = Len(s.versions)
      last == s.versions[Len(s.versions)]
  IN
  /\ p \in {"created", "planned", "writing", "failing", "leaving", "reviewing", "aggregated",
            "paused", "planning", "over"}
  /\ p \in {"over", "leaving"} <=> s.status \in TerminalStatuses
  /\ s.status = "PAUSED" => p = "paused"
  /\ p = "created" => /\ ~written /\ Len(s.versions) = 0
                      /\ s.current_prd = <<>> /\ s.current_prd_attempt = 1
  /\ p = "planned" => ~written /\ Len(s.versions) # 0 /\ s.current_prd = last.content
  /\ p \in {"writing", "failing"} =>
       ~written /\ IsTextOf(s.current_prd, s.current_iteration, s.current_prd_attempt)
  /\ p = "leaving" => ~written /\ s.status = "CANCELLED"
  /\ p = "reviewing" => written /\ last.evaluation = Null
  /\ p \in {"aggregated", "paused", "planning"} => written /\ last.evaluation # Null

\* PhaseOK now and after a step, of a snapshot and a phase.
LEMMA PhaseIs ==
  /\ PhaseOK <=> setup \in Setups /\ pauses \in Nat /\ waiting \subseteq Roles
                   /\ AtPhase(snapshot, phase)
  /\ PhaseOK' <=> setup' \in Setups /\ pauses' \in Nat /\ waiting' \subseteq Roles
                   /\ AtPhase(snapshot', phase')
BY DEF PhaseOK, AtPhase, Attempt, isTerminalRunStatus

\* A handler that leaves the snapshot as its phase wants it keeps the invariant.
LEMMA WriteStep ==
  ASSUME ProjectionInv, NEW at, Good(at), Write(at), setup' = setup, live' = live,
         AtPhase(at[1], phase'), pauses' \in Nat, waiting' \subseteq Roles
  PROVE  ProjectionInv'
<1>1. snapshot' = [at[1] EXCEPT !.latest_event_sequence = @ + Len(at[2])]
  BY DEF Write
<1>2. HasTypes(at[1])
  BY PageAtIs
<1>3. SameDocument(at[1], snapshot') /\ snapshot'.status = at[1].status
  BY <1>1, <1>2 DEF HasTypes, SnapshotFields, SameDocument
<1>4. AtPhase(snapshot', phase')
  BY <1>3 DEF AtPhase, SameDocument
<1>5. setup' \in Setups
  BY PhaseIs DEF ProjectionInv
<1>6. PhaseOK'
  BY <1>4, <1>5, PhaseIs
<1> QED BY <1>6, WriteKeeps

\* What the workflow relies on where it begins a stretch.
LEMMA StretchBegins ==
  ASSUME ProjectionInv
  PROVE  /\ Started[1] = snapshot /\ HasTypes(snapshot) /\ SnapshotOK(snapshot)
         /\ AtPhase(snapshot, phase) /\ setup \in Setups /\ pauses \in Nat /\ waiting \subseteq Roles
         /\ phase \notin {"over", "leaving"} <=> snapshot.status \notin TerminalStatuses
         /\ snapshot.status \notin TerminalStatuses => Good(Started) /\ snapshot.error = Null
<1>1. AtPhase(snapshot, phase) /\ setup \in Setups /\ pauses \in Nat /\ waiting \subseteq Roles
  BY PhaseIs DEF ProjectionInv
<1>2. (snapshot.status \notin TerminalStatuses => Good(Started)) /\ Started[1] = snapshot
  BY StartedIsGood
<1>3. SnapshotOK(snapshot) /\ HasTypes(snapshot) /\ EndIsJust(snapshot)
  BY VersionsAre DEF SnapshotOK, ProjectionInv
<1> QED BY <1>1, <1>2, <1>3 DEF AtPhase, EndIsJust, TerminalStatuses

\* Data that is the same after each of two steps is the same after both.
LEMMA SameDataTwice ==
  ASSUME NEW s, NEW t, NEW u, SameData(s, t), SameData(t, u)
  PROVE  SameData(s, u)
BY DEF SameData, SameDocument

\* Where the workflow is, if nothing new was said.
LEMMA SamePhase ==
  ASSUME NEW s, NEW t, SameData(s, t), NEW p, AtPhase(s, p), p \notin {"over", "leaving"},
         t.status \notin TerminalStatuses, t.status = "PAUSED" => p = "paused"
  PROVE  AtPhase(t, p)
BY DEF SameData, SameDocument, AtPhase

\* The start of a reviewer keeps the invariant.
LEMMA BeginReviewKeeps ==
  ASSUME ProjectionInv, NEW role \in Roles, BeginReview(role), live' = live
  PROVE  ProjectionInv'
<1>1. /\ Good(Started) /\ Started[1] = snapshot /\ AtPhase(snapshot, phase)
      /\ pauses \in Nat /\ waiting \subseteq Roles /\ snapshot.status \notin TerminalStatuses
      /\ phase \notin {"over", "leaving"}
  BY StretchBegins DEF BeginReview
<1>2. PICK at : at = MarkRunning(Started, ReviewerOf(role))
  OBVIOUS
<1>3. ReviewerOf(role) \in Nodes
  BY StatusesAndNodes
<1>4. Good(at) /\ SameData(snapshot, at[1]) /\ at[1].status = snapshot.status
  BY <1>1, <1>2, <1>3, MarkRunningKeeps
<1>5. AtPhase(at[1], phase)
  <2>1. snapshot.status = "PAUSED" => phase = "paused"
    BY <1>1 DEF AtPhase
  <2> QED BY <1>1, <1>4, <2>1, SamePhase
<1> QED BY <1>1, <1>2, <1>4, <1>5, WriteStep DEF BeginReview

\* A request to pause keeps the invariant.
LEMMA PauseRunKeeps ==
  ASSUME ProjectionInv, PauseRun, live' = live
  PROVE  ProjectionInv'
<1>1. /\ Started[1] = snapshot /\ AtPhase(snapshot, phase)
      /\ pauses \in Nat /\ waiting \subseteq Roles
  BY StretchBegins
<1>2. snapshot.status \notin TerminalStatuses /\ phase \notin {"over", "leaving"} /\ Good(Started)
  <2>1. snapshot.status \in PausableStatuses
    BY DEF PauseRun
  <2>2. snapshot.status \notin TerminalStatuses
    BY <2>1 DEF PausableStatuses, TerminalStatuses
  <2> QED BY <2>2, StretchBegins
<1>3. PICK at : at = Transition(Started, "PAUSE_REQUESTED", "pause_requested", EmptyMap)
  OBVIOUS
<1>4. Good(at) /\ SameData(snapshot, at[1]) /\ at[1].status = "PAUSE_REQUESTED"
  <2>1. /\ "PAUSE_REQUESTED" \in RunStatuses /\ "PAUSE_REQUESTED" \notin Ended
        /\ "PAUSE_REQUESTED" # "FAILED"
    BY DEF RunStatuses, LiveStatuses, Ended
  <2> QED BY <1>1, <1>2, <1>3, <2>1, TransitionKeeps
<1>5. AtPhase(at[1], phase)
  <2>1. at[1].status \notin TerminalStatuses /\ at[1].status # "PAUSED"
    BY <1>4 DEF TerminalStatuses
  <2> QED BY <1>1, <1>2, <1>4, <2>1, SamePhase
<1>6. Write(at) /\ setup' = setup /\ phase' = phase /\ waiting' = waiting /\ pauses' = pauses + 1
  BY <1>3 DEF PauseRun
<1> QED BY <1>1, <1>4, <1>5, <1>6, WriteStep

\* A cancellation keeps the invariant.
LEMMA CancelRunKeeps ==
  ASSUME ProjectionInv, CancelRun, live' = live
  PROVE  ProjectionInv'
<1>1. /\ Good(Started) /\ Started[1] = snapshot /\ AtPhase(snapshot, phase)
      /\ pauses \in Nat /\ waiting \subseteq Roles
  BY StretchBegins DEF CancelRun
<1>2. PICK asked : asked = Transition(Started, "CANCEL_REQUESTED", "status_changed", EmptyMap)
  OBVIOUS
<1>3. PICK at : at = Transition(asked, "CANCELLED", "run_cancelled", EmptyMap)
  OBVIOUS
<1>4. Good(asked) /\ asked[1].status = "CANCEL_REQUESTED" /\ SameData(snapshot, asked[1])
  <2>1. /\ "CANCEL_REQUESTED" \in RunStatuses /\ "CANCEL_REQUESTED" \notin Ended
        /\ "CANCEL_REQUESTED" # "FAILED"
    BY DEF RunStatuses, LiveStatuses, Ended
  <2>2. snapshot.status \notin TerminalStatuses
    BY DEF CancelRun
  <2> QED BY <1>1, <1>2, <2>1, <2>2, TransitionKeeps
<1>5. Good(at) /\ at[1].status = "CANCELLED" /\ SameData(asked[1], at[1])
  <2>1. /\ "CANCELLED" \in RunStatuses /\ "CANCELLED" \notin Ended /\ "CANCELLED" # "FAILED"
        /\ "CANCEL_REQUESTED" \notin TerminalStatuses
    BY DEF RunStatuses, TerminalStatuses, Ended
  <2> QED BY <1>3, <1>4, <2>1, TransitionKeeps
<1>6. AtPhase(at[1], IF phase = "writing" THEN "leaving" ELSE "over")
  <2>1. SameDocument(snapshot, at[1])
    BY <1>4, <1>5, SameDataTwice DEF SameData
  <2>2. at[1].status \in TerminalStatuses /\ at[1].status # "PAUSED"
    BY <1>5 DEF TerminalStatuses
  <2> QED BY <1>1, <1>5, <2>1, <2>2 DEF AtPhase, SameDocument
<1>7. /\ Write(at) /\ setup' = setup /\ waiting' = waiting /\ pauses' = pauses
      /\ phase' = IF phase = "writing" THEN "leaving" ELSE "over"
  BY <1>2, <1>3 DEF CancelRun
<1> QED BY <1>1, <1>5, <1>6, <1>7, WriteStep

\* A request to resume keeps the invariant.
LEMMA ResumeRunKeeps ==
  ASSUME ProjectionInv, ResumeRun, live' = live
  PROVE  ProjectionInv'
<1> DEFINE t == [snapshot EXCEPT !.status = "OPTIMIZING"]
           e == EventOf(Started, t, "run_resumed", EmptyMap)
           v == PageAt(Started)
           w == applyEvent(v, e)
<1>1. /\ Good(Started) /\ Started[1] = snapshot /\ AtPhase(snapshot, phase)
      /\ pauses \in Nat /\ waiting \subseteq Roles /\ HasTypes(snapshot) /\ EndIsJust(snapshot)
  BY StretchBegins DEF SnapshotOK, ResumeRun, TerminalStatuses
<1>2. /\ snapshot.status = "PAUSED" /\ phase = "paused"
      /\ snapshot.status \notin TerminalStatuses
  <2>1. snapshot.status = "PAUSED"
    BY DEF ResumeRun
  <2> QED BY <1>1, <2>1 DEF AtPhase, TerminalStatuses
<1>3. HasTypes(t) /\ SameData(snapshot, t) /\ t.error = snapshot.error /\ t.status = "OPTIMIZING"
  <2>1. "OPTIMIZING" \in RunStatuses
    BY DEF RunStatuses, LiveStatuses, PausableStatuses
  <2>2. t.status = "OPTIMIZING"
    BY <1>1 DEF HasTypes, SnapshotFields
  <2>3. \E status \in RunStatuses : t = [snapshot EXCEPT !.status = status]
    BY <2>1
  <2> HIDE DEF t
  <2> QED BY <1>1, <2>2, <2>3, PlainUpdates
<1>4. e.event = "run_resumed"
  BY DEF EventOf
<1>5. IsView(v) /\ (v.snapshot = Null \/ IsRunSnapshot(v.snapshot))
  BY <1>1, PageAtIs
<1> HIDE DEF t, e, v, w
<1>6. t.status \notin Ended /\ t.status # "FAILED"
  BY <1>3 DEF Ended
<1>7. EndIsJust(t) /\ t.error = Null
  BY <1>1, <1>2, <1>3, <1>6, NotEndedIsJust
<1>8. Plain(v, w) /\ w.status = "OPTIMIZING" /\ w.error = Null
  BY <1>4, <1>5, PlainEvents DEF w
<1>9. PICK at : at = Commit(Started, t, "run_resumed", EmptyMap)
  OBVIOUS
<1>10. Good(at) /\ at[1] = t
  BY <1>1, <1>2, <1>3, <1>6, <1>7, <1>8, <1>9, PlainCommit, CommitIs DEF v, w, e
<1>11. AtPhase(t, "aggregated")
  BY <1>1, <1>2, <1>3 DEF AtPhase, SameData, SameDocument, TerminalStatuses
<1>12. Write(at) /\ setup' = setup /\ phase' = "aggregated" /\ waiting' = waiting /\ pauses' = pauses
  BY <1>9 DEF ResumeRun, t
<1> QED BY <1>1, <1>10, <1>11, <1>12, WriteStep

\* A failure keeps the invariant.
LEMMA FailRunKeeps ==
  ASSUME ProjectionInv, FailRun, live' = live
  PROVE  ProjectionInv'
<1> DEFINE s == snapshot
           statuses == [n \in Nodes |-> IF n = s.active_node THEN "FAILED" ELSE s.node_statuses[n]]
           t == [s EXCEPT !.status = "FAILED", !.error = FailureCode, !.active_node = Null,
                          !.node_statuses = statuses]
           payload == [error_code |-> FailureCode]
           e == EventOf(Started, t, "run_failed", payload)
           v == PageAt(Started)
           w == applyEvent(v, e)
<1>1. /\ Good(Started) /\ Started[1] = s /\ pauses \in Nat /\ waiting \subseteq Roles
      /\ HasTypes(s) /\ EndIsJust(s) /\ s.status \notin TerminalStatuses
  BY StretchBegins DEF SnapshotOK, FailRun
<1>2. HasTypes(t) /\ SameData(s, t) /\ t.error = FailureCode /\ t.status = "FAILED"
  <2>1. /\ statuses \in [Nodes -> NodeStatus] /\ "FAILED" \in RunStatuses
        /\ FailureCode \in ERROR_MESSAGES
    <3>1. "FAILED" \in RunStatuses /\ FailureCode \in ERROR_MESSAGES
      BY DEF RunStatuses, TerminalStatuses, FailureCode, ERROR_MESSAGES, ProviderCodes
    <3>2. s.node_statuses \in [Nodes -> NodeStatus]
      BY <1>1 DEF HasTypes
    <3> QED BY <3>1, <3>2 DEF NodeStatus
  <2> HIDE DEF statuses, s
  <2> QED BY <1>1, <2>1 DEF HasTypes, SnapshotFields, SameData, SameDocument, Maybe
<1>3. /\ e.event = "run_failed" /\ e.payload = payload /\ "error_code" \in DOMAIN payload
      /\ payload["error_code"] = FailureCode
  BY DEF EventOf
<1>4. IsView(v) /\ (v.snapshot = Null \/ IsRunSnapshot(v.snapshot))
  BY <1>1, PageAtIs
<1>5. PICK at : at = Commit(Started, t, "run_failed", payload)
  OBVIOUS
<1>6. Write(at) /\ setup' = setup /\ phase' = "over" /\ waiting' = waiting /\ pauses' = pauses
  BY <1>5 DEF FailRun
<1> HIDE DEF t, payload, e, v, w
<1>7. t.status \notin Ended /\ EndIsJust(t)
  BY <1>2 DEF Ended, EndIsJust
<1>8. Plain(v, w) /\ w.status = "FAILED" /\ w.error = FailureCode
  <2>1. w = applyEvent(v, e) /\ payload = e.payload
    BY <1>3 DEF w
  <2> QED BY <1>3, <1>4, <2>1, PlainEvents
<1>9. Good(at) /\ at[1] = t
  BY <1>1, <1>2, <1>5, <1>7, <1>8, PlainCommit, CommitIs DEF v, w, e
<1>10. AtPhase(t, "over")
  BY <1>2 DEF AtPhase, TerminalStatuses
<1> QED BY <1>1, <1>6, <1>9, <1>10, WriteStep

\* The start of the optimizer, or the pause there, keeps the invariant.
LEMMA BeginOptimizerKeeps ==
  ASSUME ProjectionInv, BeginOptimizer, live' = live
  PROVE  ProjectionInv'
<1>1. /\ Good(Started) /\ Started[1] = snapshot /\ AtPhase(snapshot, phase)
      /\ pauses \in Nat /\ waiting \subseteq Roles /\ snapshot.status \notin TerminalStatuses
      /\ phase = "aggregated"
  BY StretchBegins DEF BeginOptimizer
<1>2. CASE snapshot.status = "PAUSE_REQUESTED"
  <2>1. PICK at : at = Transition(Started, "PAUSED", "run_paused", EmptyMap)
    OBVIOUS
  <2>2. Write(at) /\ setup' = setup /\ phase' = "paused" /\ waiting' = waiting /\ pauses' = pauses
    BY <1>2, <2>1 DEF BeginOptimizer, Park
  <2>3. Good(at) /\ SameData(snapshot, at[1]) /\ at[1].status = "PAUSED"
    <3>1. "PAUSED" \in RunStatuses /\ "PAUSED" \notin Ended /\ "PAUSED" # "FAILED"
      BY DEF RunStatuses, LiveStatuses, Ended
    <3> QED BY <1>1, <2>1, <3>1, TransitionKeeps
  <2>4. AtPhase(at[1], "paused")
    BY <1>1, <2>3 DEF AtPhase, SameData, SameDocument, TerminalStatuses
  <2> QED BY <1>1, <2>2, <2>3, <2>4, WriteStep
<1>3. CASE snapshot.status # "PAUSE_REQUESTED"
  <2>1. PICK staged : staged = SetStage(Started, "OPTIMIZING")
    OBVIOUS
  <2>2. PICK at : at = MarkRunning(staged, "optimizer")
    OBVIOUS
  <2>3. Write(at) /\ setup' = setup /\ phase' = "planning" /\ waiting' = waiting /\ pauses' = pauses
    BY <1>3, <2>1, <2>2 DEF BeginOptimizer
  <2>4. /\ Good(staged) /\ SameData(snapshot, staged[1])
        /\ staged[1].status \notin TerminalStatuses
        /\ staged[1].status \in {snapshot.status, "OPTIMIZING"}
    <3>1. "OPTIMIZING" \in PausableStatuses
      BY DEF PausableStatuses
    <3> QED BY <1>1, <2>1, <3>1, SetStageKeeps
  <2>5. Good(at) /\ SameData(staged[1], at[1]) /\ at[1].status = staged[1].status
    <3>1. "optimizer" \in Nodes
      BY DEF Nodes
    <3> QED BY <2>2, <2>4, <3>1, MarkRunningKeeps
  <2>6. AtPhase(at[1], "planning")
    <3>1. SameData(snapshot, at[1])
      BY <2>4, <2>5, SameDataTwice
    <3>2. at[1].status \notin TerminalStatuses /\ at[1].status # "PAUSED"
      BY <1>1, <2>4, <2>5 DEF AtPhase
    <3> QED BY <1>1, <3>1, <3>2 DEF AtPhase, SameData, SameDocument
  <2> QED BY <1>1, <2>3, <2>5, <2>6, WriteStep
<1> QED BY <1>2, <1>3

\* A new text is begun where there is no text of the version yet.
LEMMA BeginStreamKeeps ==
  ASSUME NEW at, Good(at), at[1].current_iteration # Len(at[1].versions), ~IsStarted(at[1]),
         at[1].status \notin TerminalStatuses, NEW snap, snap = BeginStream(at[1], 1)
  PROVE  /\ Good(<<snap, at[2]>>) /\ snap.current_prd = <<>> /\ snap.current_prd_attempt = 1
         /\ snap.status = at[1].status /\ snap.versions = at[1].versions
         /\ snap.current_iteration = at[1].current_iteration
<1> DEFINE s == at[1]
           v == PageAt(at)
<1>1. HasTypes(s) /\ SnapshotOK(s) /\ Knows(v, s)
  BY PageAtIs
<1>2. snap = [s EXCEPT !.current_prd = <<>>, !.current_prd_attempt = 1]
  BY DEF BeginStream
<1> HIDE DEF s, v
<1>3. HasTypes(snap)
  <2>1. <<>> \in Text
    BY EmptySeq DEF Text
  <2>2. 1 \in Nat
    OBVIOUS
  <2> HIDE DEF Text
  <2> QED BY <1>1, <1>2, <2>1, <2>2 DEF HasTypes, SnapshotFields
<1>4. /\ snap.current_prd = <<>> /\ snap.current_prd_attempt = 1 /\ snap.run_id = s.run_id
      /\ snap.current_iteration = s.current_iteration /\ snap.versions = s.versions
      /\ snap.quality_threshold = s.quality_threshold /\ snap.status = s.status
      /\ snap.latest_evaluation = s.latest_evaluation
      /\ snap.best_version = s.best_version /\ snap.best_score = s.best_score
      /\ snap.reviews = s.reviews /\ snap.pending_revision_plan = s.pending_revision_plan
      /\ snap.error = s.error /\ snap.latest_event_sequence = s.latest_event_sequence
  BY <1>1, <1>2 DEF HasTypes, SnapshotFields
<1>5. SnapshotOK(snap)
  <2>1. VersionsAreInOrder(snap) /\ ReviewsAreOfTheVersion(snap)
    BY <1>1, <1>4 DEF SnapshotOK, VersionsAreInOrder, ReviewsAreOfTheVersion
  <2>2. BestIsTheBest(snap)
    <3>1. BestIsTheBest(s)
      BY <1>1 DEF SnapshotOK
    <3> QED BY Zenon, <1>4, <3>1 DEF BestIsTheBest
  <2>3. TextIsOfOneAttempt(snap)
    BY <1>4 DEF TextIsOfOneAttempt, IsTextOf, s
  <2>4. EndIsJust(snap)
    BY <1>1, <1>4 DEF SnapshotOK, EndIsJust, Passed
  <2>5. IsRunSnapshot(snap)
    BY <1>3, SnapshotTypes
  <2>6. snap.run_id = RunId /\ snap.current_prd_attempt \in {1, 2}
    BY <1>1, <1>4 DEF SnapshotOK
  <2> QED BY <2>1, <2>2, <2>3, <2>4, <2>5, <2>6 DEF SnapshotOK
<1>6. Knows(v, snap)
  <2>1. ~IsStarted(snap) /\ ~IsStarted(s)
    BY <1>4 DEF IsStarted, s
  <2>2. HasDrafts(v.drafts, snap)
    BY <1>1, <1>4, <2>1 DEF Knows, HasDrafts, HasVersions, HasRest
  <2>3. /\ ReviewsOf(snap) = ReviewsOf(s) /\ ScoresOf(snap.versions) = ScoresOf(s.versions)
        /\ HasPlans(v.revisionPlansBySourceVersion, snap)
    <3>1. HasPlans(v.revisionPlansBySourceVersion, s)
      BY <1>1 DEF Knows
    <3>2. HasPlans(v.revisionPlansBySourceVersion, snap)
      BY <1>4, <3>1, SamePlans
    <3> QED BY <1>4, <3>2 DEF ReviewsOf
  <2>4. HasBest(v, snap)
    BY <1>1, <1>4 DEF Knows, HasBest, IsBest, ScoreAt
  <2>5. OutcomeAgrees(v, snap)
    <3>1. s.status \notin Ended /\ snap.status \notin Ended
      BY <1>4 DEF Ended, TerminalStatuses, s
    <3> QED BY <1>1, <3>1, OutcomeOpen DEF Knows
  <2>6. v.snapshot # Null => IsEarlier(v.snapshot, snap)
    BY <1>1, <1>4 DEF Knows, IsEarlier
  <2> QED BY <1>1, <1>4, <2>2, <2>3, <2>4, <2>5, <2>6 DEF Knows
<1>7. Good(<<snap, at[2]>>)
  BY <1>4, <1>5, <1>6 DEF Good, PageAt, s, v
<1> QED BY <1>4, <1>7 DEF s

\* The start of the generator, or the pause there, keeps the invariant.
LEMMA BeginGeneratorKeeps ==
  ASSUME ProjectionInv, BeginGenerator, live' = live
  PROVE  ProjectionInv'
<1>1. /\ Good(Started) /\ Started[1] = snapshot /\ AtPhase(snapshot, phase)
      /\ pauses \in Nat /\ waiting \subseteq Roles /\ snapshot.status \notin TerminalStatuses
      /\ phase \in {"created", "planned"} /\ HasTypes(snapshot) /\ EndIsJust(snapshot)
      /\ snapshot.error = Null
  BY StretchBegins DEF BeginGenerator, SnapshotOK
<1>2. PICK at0 : at0 = IF phase = "created" THEN Commit(Started, snapshot, "run_started", EmptyMap)
                       ELSE Started
  OBVIOUS
<1>3. PICK staged : staged = SetStage(at0, "GENERATING")
  OBVIOUS
<1>4. PICK at : at = MarkRunning(staged, "generator")
  OBVIOUS
<1>5. PICK snap : snap = BeginStream(at[1], 1)
  OBVIOUS
<1>6. /\ Write(<<snap, at[2]>>) /\ setup' = setup /\ phase' = "writing"
      /\ waiting' = waiting /\ pauses' = pauses
  BY <1>2, <1>3, <1>4, <1>5 DEF BeginGenerator
<1>7. Good(at0) /\ at0[1] = snapshot
  <2>1. CASE phase # "created"
    BY <1>1, <1>2, <2>1
  <2>2. CASE phase = "created"
    <3> DEFINE s == snapshot
               e == EventOf(Started, s, "run_started", EmptyMap)
               v == PageAt(Started)
               w == applyEvent(v, e)
    <3>1. /\ IsView(v) /\ (v.snapshot = Null \/ IsRunSnapshot(v.snapshot))
          /\ v.status = s.status /\ e.event = "run_started"
      BY <1>1, PageAtIs DEF Knows, EventOf
    <3> HIDE DEF e, v, w
    <3>2. Plain(v, w) /\ w.status = v.status /\ w.error = Null
      BY <3>1, PlainEvents DEF w
    <3>3. SameData(s, s) /\ s.status \notin Ended
      BY <1>1 DEF SameData, SameDocument, Ended, TerminalStatuses
    <3>4. Good(Commit(Started, s, "run_started", EmptyMap))
      BY <1>1, <3>1, <3>2, <3>3, PlainCommit DEF v, w, e
    <3> QED BY <1>2, <2>2, <3>4, CommitIs
  <2> QED BY <2>1, <2>2
<1>8. /\ Good(staged) /\ SameData(snapshot, staged[1])
      /\ staged[1].status \notin TerminalStatuses
      /\ staged[1].status \in {snapshot.status, "GENERATING"}
  <2>1. "GENERATING" \in PausableStatuses
    BY DEF PausableStatuses
  <2> QED BY <1>1, <1>3, <1>7, <2>1, SetStageKeeps
<1>9. /\ Good(at) /\ SameData(snapshot, at[1]) /\ at[1].status \notin TerminalStatuses
      /\ at[1].status # "PAUSED"
  <2>1. "generator" \in Nodes
    BY DEF Nodes
  <2>2. Good(at) /\ SameData(staged[1], at[1]) /\ at[1].status = staged[1].status
    BY <1>4, <1>8, <2>1, MarkRunningKeeps
  <2>3. SameData(snapshot, at[1])
    BY <1>8, <2>2, SameDataTwice
  <2> QED BY <1>1, <1>8, <2>2, <2>3 DEF AtPhase
<1>10. at[1].current_iteration # Len(at[1].versions) /\ ~IsStarted(at[1])
  BY <1>1, <1>9 DEF AtPhase, SameData, SameDocument, IsStarted
<1>11. /\ Good(<<snap, at[2]>>) /\ snap.current_prd = <<>> /\ snap.current_prd_attempt = 1
       /\ snap.status = at[1].status /\ snap.versions = at[1].versions
       /\ snap.current_iteration = at[1].current_iteration
  BY <1>5, <1>9, <1>10, BeginStreamKeeps
<1>12. AtPhase(snap, "writing")
  BY <1>9, <1>10, <1>11 DEF AtPhase, IsTextOf
<1> QED BY <1>1, <1>6, <1>11, <1>12, WriteStep

--------------------------------------------------------------------------------
(* The actions of the generator that say something new about the text. *)

\* A page that has logged an event about a draft.
Drafted(v, w) ==
  /\ IsView(w) /\ w.runId = v.runId /\ w.pendingControl = v.pendingControl
  /\ w.selectionPinned = v.selectionPinned
  /\ w.selectedVersion = v.selectedVersion \/ w.selectedVersion \in DOMAIN w.drafts
  /\ DOMAIN v.drafts \subseteq DOMAIN w.drafts
  /\ w.reviewsByVersion = v.reviewsByVersion /\ w.scoresByVersion = v.scoresByVersion
  /\ w.revisionPlansBySourceVersion = v.revisionPlansBySourceVersion
  /\ w.bestVersion = v.bestVersion /\ w.bestScore = v.bestScore /\ w.outcome = v.outcome
  /\ w.pendingRevisionPlan = v.pendingRevisionPlan
  /\ StillShows(v.snapshot, w.snapshot)

\* A page with well formed drafts stays well formed.
LEMMA DraftedPageOK ==
  ASSUME NEW v, PageOK(v), NEW w, Drafted(v, w), w.status \in RunStatuses,
         \A x \in DOMAIN w.drafts : IsDraft(w.drafts, x)
  PROVE  PageOK(w)
<1>1. w.snapshot = Null \/ IsRunSnapshot(w.snapshot)
  BY DEF Drafted, StillShows
<1>2. /\ DOMAIN w = DOMAIN initialRunViewState /\ w.runId = RunId /\ w.pendingControl = Null
      /\ w.selectionPinned \in BOOLEAN
  BY Zenon DEF Drafted, PageOK, IsView
<1>3. w.selectedVersion \in Maybe(DOMAIN w.drafts)
  BY DEF Drafted, PageOK, Maybe
<1>4. \A x \in DOMAIN w.reviewsByVersion : \A role \in DOMAIN w.reviewsByVersion[x] :
        w.reviewsByVersion[x][role].feedback \in Seq(FEEDBACK_SEVERITIES)
  BY DEF Drafted, PageOK
<1> QED BY <1>1, <1>2, <1>3, <1>4 DEF PageOK

\* The run's data but for the text that is being written.
SameRecord(s, t) ==
  /\ t.run_id = s.run_id /\ t.current_iteration = s.current_iteration
  /\ t.quality_threshold = s.quality_threshold /\ t.versions = s.versions
  /\ t.latest_evaluation = s.latest_evaluation
  /\ t.best_version = s.best_version /\ t.best_score = s.best_score
  /\ t.reviews = s.reviews /\ t.pending_revision_plan = s.pending_revision_plan
  /\ t.status = s.status /\ t.error = s.error
  /\ t.latest_event_sequence = s.latest_event_sequence

\* A snapshot with more of the text of its attempt stays well formed,
LEMMA NewTextIsOK ==
  ASSUME NEW s, SnapshotOK(s), s.current_iteration # Len(s.versions),
         NEW t, HasTypes(t), SameRecord(s, t), t.current_prd_attempt \in {1, 2},
         IsTextOf(t.current_prd, t.current_iteration, t.current_prd_attempt)
  PROVE  SnapshotOK(t)
<1>1. VersionsAreInOrder(t) /\ ReviewsAreOfTheVersion(t)
  BY DEF SameRecord, SnapshotOK, VersionsAreInOrder, ReviewsAreOfTheVersion
<1>2. BestIsTheBest(t)
  <2>1. BestIsTheBest(s) /\ t.versions = s.versions /\ t.best_version = s.best_version
        /\ t.best_score = s.best_score
    BY DEF SnapshotOK, SameRecord
  <2> QED BY Zenon, <2>1 DEF BestIsTheBest
<1>3. TextIsOfOneAttempt(t)
  BY DEF SameRecord, TextIsOfOneAttempt
<1>4. EndIsJust(t)
  BY DEF SameRecord, SnapshotOK, EndIsJust, Passed
<1>5. IsRunSnapshot(t)
  BY SnapshotTypes
<1>6. t.run_id = RunId
  BY DEF SnapshotOK, SameRecord
<1> QED BY <1>1, <1>2, <1>3, <1>4, <1>5, <1>6 DEF SnapshotOK

\* and a page that has the text as well knows it.
LEMMA NewTextIsKnown ==
  ASSUME NEW s, NEW v, Knows(v, s), s.status \notin Ended, NEW t, SameRecord(s, t),
         NEW w, Drafted(v, w), HasDrafts(w.drafts, t), w.status = t.status, w.error = t.error
  PROVE  Knows(w, t)
<1>1. /\ ReviewsOf(t) = ReviewsOf(s) /\ ScoresOf(t.versions) = ScoresOf(s.versions)
      /\ \A plans : HasPlans(plans, t) <=> HasPlans(plans, s)
  BY SamePlans DEF SameRecord, ReviewsOf
<1>2. /\ w.reviewsByVersion = ReviewsOf(t) /\ w.scoresByVersion = ScoresOf(t.versions)
      /\ HasPlans(w.revisionPlansBySourceVersion, t)
  BY <1>1 DEF Drafted, Knows
<1>3. HasBest(w, t)
  <2>1. HasBest(v, s) /\ w.bestVersion = v.bestVersion /\ w.bestScore = v.bestScore
    BY DEF Knows, Drafted
  <2>2. /\ t.versions = s.versions /\ t.best_version = s.best_version
        /\ t.best_score = s.best_score
    BY DEF SameRecord
  <2> QED BY <2>1, <2>2 DEF HasBest, IsBest, ScoreAt
<1>4. OutcomeAgrees(w, t)
  <2>1. w.outcome = Null
    BY OutcomeOpen DEF Knows, Drafted
  <2>2. t.status \notin Ended
    BY DEF SameRecord
  <2> QED BY <2>1, <2>2, OutcomeOpen
<1>5. w.snapshot # Null => IsEarlier(w.snapshot, t)
  <2>1. ASSUME w.snapshot # Null
        PROVE  /\ IsEarlier(v.snapshot, s) /\ w.snapshot.versions = v.snapshot.versions
               /\ w.snapshot.current_iteration = v.snapshot.current_iteration
    BY <2>1 DEF Knows, Drafted, StillShows
  <2>2. t.versions = s.versions /\ t.current_iteration = s.current_iteration
    BY DEF SameRecord
  <2> QED BY <2>1, <2>2 DEF IsEarlier
<1>6. w.pendingRevisionPlan # Null => t.current_iteration > 1
  BY DEF Knows, Drafted, SameRecord
<1> QED BY <1>2, <1>3, <1>4, <1>5, <1>6 DEF Knows

\* A new text has something in it that is not in the version before it.
LEMMA TextIsNew ==
  ASSUME NEW s, SnapshotOK(s), s.current_iteration # Len(s.versions),
         IsTextOf(s.current_prd, s.current_iteration, s.current_prd_attempt)
  PROVE  IsStarted(s) <=> s.current_prd # <<>> \/ s.current_prd_attempt > 1
<1>1. ASSUME Len(s.versions) # 0, s.current_prd = s.versions[Len(s.versions)].content
      PROVE  FALSE
  <2> DEFINE n == Len(s.versions)
             last == s.versions[n]
  <2>1. n \in DOMAIN s.versions
    BY <1>1, VersionsAre
  <2>2. last.content # <<>> /\ last.content[1][1] = n
    BY <2>1, VersionsAre DEF IsVersion
  <2>3. s.current_prd[1] = <<s.current_iteration, s.current_prd_attempt, 1>>
    BY <1>1, <2>2 DEF IsTextOf
  <2>4. s.current_prd[1][1] = s.current_iteration
    BY <2>3
  <2> QED BY <1>1, <2>2, <2>4
<1> QED BY <1>1 DEF IsStarted

\* A text grows by a chunk.
LEMMA ChunksAre ==
  ASSUME NEW text \in Text, NEW chunk \in Seq(Nat)
  PROVE  /\ Append(text, chunk) \in Text /\ Len(text) \in Nat
         /\ DOMAIN Append(text, chunk) = 1 .. (Len(text) + 1)
         /\ Append(text, chunk)[Len(text) + 1] = chunk
         /\ \A k \in 1 .. Len(text) : Append(text, chunk)[k] = text[k]
         /\ DOMAIN text = 1 .. Len(text) /\ (text = <<>> <=> Len(text) = 0)
         /\ Append(text, chunk) # <<>>
<1>1. text \in Seq(Seq(Nat))
  BY DEF Text
<1>2. Len(text) \in Nat /\ DOMAIN text = 1 .. Len(text) /\ (text = <<>> <=> Len(text) = 0)
  BY <1>1, EmptySeq, LenProperties
<1>3. /\ Append(text, chunk) \in Seq(Seq(Nat)) /\ Len(Append(text, chunk)) = Len(text) + 1
      /\ Append(text, chunk)[Len(text) + 1] = chunk
      /\ \A k \in 1 .. Len(text) : Append(text, chunk)[k] = text[k]
  BY <1>1
<1>4. DOMAIN Append(text, chunk) = 1 .. (Len(text) + 1) /\ Append(text, chunk) # <<>>
  <2>1. PICK longer : longer = Append(text, chunk)
    OBVIOUS
  <2>2. longer \in Seq(Seq(Nat)) /\ Len(longer) = Len(text) + 1
    BY <1>3, <2>1
  <2>3. DOMAIN longer = 1 .. (Len(text) + 1) /\ longer # <<>>
    BY <1>2, <2>2, EmptySeq, LenProperties
  <2> QED BY <2>1, <2>3
<1> QED BY <1>2, <1>3, <1>4 DEF Text

\* The draft an event about a text makes of it, while it is being written and at its end.
OpenDraft(version, attempt, content) ==
  [version |-> version, attempt |-> attempt, content |-> content, complete |-> FALSE]
DoneDraft(version, attempt, content) ==
  [version |-> version, attempt |-> attempt, content |-> content, complete |-> TRUE]

\* The page then has that draft, and is otherwise the one it was.
HasDraft(v, w, draft) ==
  /\ w.drafts = Put(v.drafts, draft.version, draft) /\ Drafted(v, w)
  /\ w.status = v.status /\ w.error = Null

\* A text that does not fit leaves the page as it was.
KeepsDrafts(v, w) ==
  w.drafts = v.drafts /\ Drafted(v, w) /\ w.status = v.status /\ w.error = Null

\* What the events about a draft do to a page: a reset, a piece of text, a version.
LEMMA DraftEvents ==
  ASSUME NEW v, IsView(v), v.snapshot = Null \/ IsRunSnapshot(v.snapshot), NEW e,
         NEW w, w = applyEvent(v, e), NEW p, p = e.payload, NEW x \in Nat, NEW a \in Nat,
         {"version", "attempt"} \subseteq DOMAIN p, p["version"] = x, p["attempt"] = a
  PROVE  /\ (e.event = "prd_stream_reset" /\ (x \in DOMAIN v.drafts => ~(a <= v.drafts[x].attempt))) =>
              HasDraft(v, w, OpenDraft(x, a, <<>>))
         /\ \A text, delta :
              (/\ e.event = "prd_delta" /\ "delta" \in DOMAIN p /\ p["delta"] = delta
               /\ IF x \in DOMAIN v.drafts
                  THEN /\ v.drafts[x].complete \in BOOLEAN /\ ~v.drafts[x].complete
                       /\ v.drafts[x].attempt = a /\ text = v.drafts[x].content
                  ELSE a = 1 /\ text = <<>>) =>
              HasDraft(v, w, OpenDraft(x, a, Append(text, delta)))
         /\ \A text : (e.event = "prd_generated" /\ "content" \in DOMAIN p /\ p["content"] = text) =>
              HasDraft(v, w, DoneDraft(x, a, text))
         /\ (e.event = "prd_delta" /\ x \notin DOMAIN v.drafts /\ a # 1) => KeepsDrafts(v, w)
<1> DEFINE n == Logging(v, e)
           version == numberPayload(e.payload, "version", e.iteration)
<1>1. Plain(v, n) /\ n.status = v.status /\ n.error = Null
  BY LoggingIsPlain
<1>2. Applies(n, w, e, version)
  BY AppliedIs
<1>3. x # Null /\ a # Null
  BY NullIsNoValue
<1>4. version = x /\ numberPayload(p, "attempt", 1) = a
  BY <1>3 DEF numberPayload, Sent
<1> HIDE DEF n, version
<1>5. IsView(n) /\ n.drafts = v.drafts /\ (n.snapshot = Null \/ IsRunSnapshot(n.snapshot))
      /\ StillShows(v.snapshot, n.snapshot)
  BY <1>1 DEF Plain, StillShows
<1>6. ASSUME NEW draft, draft.version = x, NEW snap, StillShows(v.snapshot, snap),
             \/ w = [n EXCEPT !.drafts = Put(n.drafts, x, draft)]
             \/ w = [n EXCEPT !.drafts = Put(n.drafts, x, draft), !.selectedVersion = Follow(n, x)]
             \/ w = [n EXCEPT !.drafts = Put(n.drafts, x, draft), !.selectedVersion = Follow(n, x),
                              !.snapshot = snap],
             w.snapshot \in {n.snapshot, snap}
      PROVE  HasDraft(v, w, draft)
  <2>1. /\ IsView(w) /\ w.drafts = Put(n.drafts, x, draft)
        /\ w.selectedVersion \in {n.selectedVersion, Follow(n, x)}
        /\ \A field \in DOMAIN n \ {"drafts", "selectedVersion", "snapshot"} : w[field] = n[field]
    BY <1>5, <1>6, ViewFields DEF IsView
  <2>2. {"runId", "pendingControl", "selectionPinned", "reviewsByVersion", "scoresByVersion",
         "revisionPlansBySourceVersion", "bestVersion", "bestScore", "outcome",
         "pendingRevisionPlan", "status", "error"} \subseteq DOMAIN n \ {"drafts", "selectedVersion", "snapshot"}
    BY <1>5, ViewFields
  <2>3. /\ w.runId = n.runId /\ w.pendingControl = n.pendingControl
        /\ w.selectionPinned = n.selectionPinned /\ w.reviewsByVersion = n.reviewsByVersion
        /\ w.scoresByVersion = n.scoresByVersion
        /\ w.revisionPlansBySourceVersion = n.revisionPlansBySourceVersion
        /\ w.bestVersion = n.bestVersion /\ w.bestScore = n.bestScore /\ w.outcome = n.outcome
        /\ w.pendingRevisionPlan = n.pendingRevisionPlan /\ w.status = n.status /\ w.error = n.error
    BY <2>1, <2>2
  <2>4. /\ DOMAIN w.drafts = DOMAIN v.drafts \cup {x}
        /\ w.selectedVersion = v.selectedVersion \/ w.selectedVersion = x
    <3>1. DOMAIN w.drafts = DOMAIN v.drafts \cup {x}
      BY <1>5, <2>1 DEF Put
    <3>2. n.selectedVersion = v.selectedVersion
      BY <1>1 DEF Plain
    <3> QED BY <2>1, <3>1, <3>2 DEF Follow
  <2>5. StillShows(v.snapshot, w.snapshot)
    BY <1>5, <1>6
  <2>6. Drafted(v, w)
    BY <1>1, <2>1, <2>3, <2>4, <2>5 DEF Drafted, Plain
  <2> QED BY <1>1, <1>5, <1>6, <2>1, <2>3, <2>6 DEF HasDraft
<1>7. ASSUME e.event = "prd_stream_reset", x \in DOMAIN v.drafts => ~(a <= v.drafts[x].attempt)
      PROVE  HasDraft(v, w, OpenDraft(x, a, <<>>))
  <2>1. w = [n EXCEPT !.drafts = Put(n.drafts, x, OpenDraft(x, a, <<>>))]
    BY <1>2, <1>4, <1>5, <1>7 DEF Applies, PrdStreamReset, OpenDraft
  <2>2. OpenDraft(x, a, <<>>).version = x
    BY DEF OpenDraft
  <2>3. w.snapshot = n.snapshot
    BY <1>5, <2>1, ViewFields
  <2> QED BY <1>5, <1>6, <2>1, <2>2, <2>3
<1>8. ASSUME NEW text, NEW delta, e.event = "prd_delta", "delta" \in DOMAIN p, p["delta"] = delta,
             IF x \in DOMAIN v.drafts
             THEN /\ v.drafts[x].complete \in BOOLEAN /\ ~v.drafts[x].complete
                  /\ v.drafts[x].attempt = a /\ text = v.drafts[x].content
             ELSE a = 1 /\ text = <<>>
      PROVE  HasDraft(v, w, OpenDraft(x, a, Append(text, delta)))
  <2>1. w = PrdDelta(n, x, p)
    BY <1>2, <1>4, <1>8 DEF Applies
  <2> DEFINE draft == OpenDraft(x, a, Append(text, delta))
  <2>2. w = [n EXCEPT !.drafts = Put(n.drafts, x, draft), !.selectedVersion = Follow(n, x)]
    <3> DEFINE attempt == numberPayload(p, "attempt", 1)
               known == x \in DOMAIN n.drafts
               fits == IF known THEN ~n.drafts[x].complete /\ n.drafts[x].attempt = attempt
                       ELSE attempt = 1
               sofar == IF known THEN n.drafts[x].content ELSE <<>>
               made == [version |-> x, attempt |-> attempt,
                        content |-> Append(sofar, p.delta), complete |-> FALSE]
    <3>1. w = IF ~fits THEN n
              ELSE [n EXCEPT !.drafts = Put(n.drafts, x, made), !.selectedVersion = Follow(n, x)]
      BY <2>1 DEF PrdDelta
    <3>2. fits /\ attempt = a /\ sofar = text
      <4>1. CASE x \in DOMAIN v.drafts
        BY <1>4, <1>5, <1>8, <4>1
      <4>2. CASE x \notin DOMAIN v.drafts
        BY <1>4, <1>5, <1>8, <4>2
      <4> QED BY <4>1, <4>2
    <3>3. made = draft
      BY <1>8, <3>2 DEF OpenDraft
    <3> HIDE DEF fits, made, draft
    <3> QED BY <3>1, <3>2, <3>3
  <2>3. draft.version = x
    BY DEF OpenDraft
  <2> HIDE DEF draft
  <2>4. w.snapshot = n.snapshot
    BY <1>5, <2>2, ViewFields
  <2>5. HasDraft(v, w, draft)
    BY <1>5, <1>6, <2>2, <2>3, <2>4
  <2> QED BY <2>5 DEF draft
<1>9. ASSUME NEW text, e.event = "prd_generated", "content" \in DOMAIN p, p["content"] = text
      PROVE  HasDraft(v, w, DoneDraft(x, a, text))
  <2> DEFINE draft == DoneDraft(x, a, text)
             snap == withNodeStatus(n.snapshot, "generator", "SUCCEEDED")
  <2>1. w = [n EXCEPT !.drafts = Put(n.drafts, x, draft), !.selectedVersion = Follow(n, x),
                      !.snapshot = snap]
    BY <1>2, <1>4, <1>9 DEF Applies, PrdGenerated, DoneDraft
  <2>2. draft.version = x
    BY DEF DoneDraft
  <2>3. StillShows(v.snapshot, snap)
    <3>1. StillShows(n.snapshot, snap)
      BY <1>5, NodeShown DEF Nodes, NodeStatus
    <3> QED BY <1>5, <3>1 DEF StillShows
  <2> HIDE DEF draft, snap
  <2>4. w.snapshot = snap
    BY <1>5, <2>1, ViewFields
  <2>5. HasDraft(v, w, draft)
    BY <1>6, <2>1, <2>2, <2>3, <2>4
  <2> QED BY <2>5 DEF draft
<1>10. ASSUME e.event = "prd_delta", x \notin DOMAIN v.drafts, a # 1
       PROVE  KeepsDrafts(v, w)
  <2>1. w = PrdDelta(n, x, p)
    BY <1>2, <1>4, <1>10 DEF Applies
  <2>2. w = n
    BY <1>4, <1>5, <1>10, <2>1 DEF PrdDelta
  <2> QED BY <1>1, <2>2 DEF KeepsDrafts, Drafted, Plain
<1> QED BY <1>7, <1>8, <1>9, <1>10

\* A text that has grown by a chunk has the beginnings it had.
LEMMA TextGrows ==
  ASSUME NEW text \in Text, NEW chunk \in Seq(Nat), NEW n \in 0 .. Len(text)
  PROVE  /\ Beginning(Append(text, chunk), n) = Beginning(text, n)
         /\ Rest(Append(text, chunk), n) = Append(Rest(text, n), chunk)
         /\ n = Len(text) => Rest(text, n) = <<>>
         /\ Rest(Append(text, chunk), 0) = Append(text, chunk)
         /\ n \in 0 .. Len(Append(text, chunk)) /\ Len(Append(text, chunk)) = Len(text) + 1
<1> DEFINE long == Append(text, chunk)
           rest == Rest(text, n)
           grown == Append(rest, chunk)
<1>1. /\ text \in Seq(Seq(Nat)) /\ long \in Seq(Seq(Nat)) /\ Len(text) \in Nat
      /\ Len(long) = Len(text) + 1 /\ long[Len(text) + 1] = chunk
      /\ \A k \in 1 .. Len(text) : long[k] = text[k]
  BY DEF Text
<1>2. /\ rest \in Seq(Seq(Nat)) /\ Len(rest) = Len(text) - n
      /\ \A k \in 1 .. Len(text) - n : rest[k] = text[n + k]
  BY <1>1, TextParts
<1> HIDE DEF long
<1>3. Beginning(long, n) = Beginning(text, n)
  BY <1>1 DEF Beginning
<1>4. /\ Rest(long, n) \in Seq(Seq(Nat)) /\ Len(Rest(long, n)) = Len(text) + 1 - n
      /\ \A k \in 1 .. (Len(text) + 1 - n) : Rest(long, n)[k] = long[n + k]
      /\ Rest(long, 0) = long
  <2>1. n \in 0 .. Len(long)
    BY <1>1
  <2> QED BY <1>1, <2>1, TextParts
<1> HIDE DEF rest
<1>5. /\ grown \in Seq(Seq(Nat)) /\ Len(grown) = Len(text) + 1 - n
      /\ grown[Len(text) - n + 1] = chunk
      /\ \A k \in 1 .. Len(text) - n : grown[k] = rest[k]
  <2>1. Len(rest) \in Nat /\ Len(rest) + 1 = Len(text) + 1 - n
    BY <1>1, <1>2
  <2> QED BY <1>2, <2>1, AppendOne
<1> HIDE DEF grown
<1>6. ASSUME NEW k \in 1 .. (Len(text) + 1 - n) PROVE Rest(long, n)[k] = grown[k]
  <2>1. CASE k \in 1 .. Len(text) - n
    <3>1. n + k \in 1 .. Len(text)
      BY <1>1, <2>1
    <3> QED BY <1>1, <1>2, <1>4, <1>5, <2>1, <3>1
  <2>2. CASE k = Len(text) - n + 1
    <3>1. n + k = Len(text) + 1
      BY <1>1, <2>2
    <3> QED BY <1>1, <1>4, <1>5, <2>2, <3>1
  <2> QED BY <1>1, <2>1, <2>2
<1>7. Rest(long, n) = grown
  BY <1>4, <1>5, <1>6, SeqEqual
<1>8. n = Len(text) => rest = <<>>
  BY <1>1, <1>2, EmptySeq
<1> QED BY <1>1, <1>3, <1>4, <1>7, <1>8 DEF long, grown, rest

\* Committing a text and the event that tells of it keeps server and pages together.
LEMMA TextCommit ==
  ASSUME NEW at, Good(at), NEW s, s = at[1], s.status \notin TerminalStatuses, s.error = Null,
         NEW t, HasTypes(t), SameRecord(s, t), t.current_prd_attempt \in {1, 2}, IsStarted(t),
         NEW cur, cur = t.current_iteration, cur # Len(t.versions),
         IsTextOf(t.current_prd, cur, t.current_prd_attempt),
         NEW kind, NEW payload, NEW w, w = applyEvent(PageAt(at), EventOf(at, t, kind, payload)),
         NEW n \in 0 .. Len(t.current_prd), n # 0 => RepeatsAt(t, n),
         \/ /\ HasDraft(PageAt(at), w, OpenDraft(cur, t.current_prd_attempt, Rest(t.current_prd, n)))
            /\ n # 0 => /\ t.current_prd_attempt = 1
                        /\ \A k \in 1 .. n : t.current_prd[k] # Marker
         \/ /\ KeepsDrafts(PageAt(at), w) /\ cur \notin DOMAIN PageAt(at).drafts
            /\ RepeatsAt(t, n) /\ t.current_prd_attempt # 1
  PROVE  Good(Commit(at, t, kind, payload)) /\ Commit(at, t, kind, payload)[1] = t
<1> DEFINE v == PageAt(at)
           a == t.current_prd_attempt
           text == Rest(t.current_prd, n)
           draft == OpenDraft(cur, a, text)
<1>1. PageOK(v) /\ Knows(v, s) /\ SnapshotOK(s) /\ HasTypes(s)
  BY PageAtIs
<1>2. SnapshotOK(t) /\ cur = s.current_iteration /\ t.versions = s.versions
  <2>1. t.current_iteration = s.current_iteration /\ t.versions = s.versions
    BY DEF SameRecord
  <2> HIDE DEF v
  <2> QED BY <1>1, <2>1, NewTextIsOK
<1>3. /\ cur \notin 1 .. Len(t.versions) /\ Len(t.versions) \in Nat /\ cur \in Nat
      /\ cur = Len(t.versions) + 1 /\ t.versions \in Seq(PRDVersion)
  <2>1. /\ Len(t.versions) \in Nat /\ t.current_iteration \in Nat
        /\ t.current_iteration \in {Len(t.versions), Len(t.versions) + 1}
    BY <1>2, VersionsAre
  <2> QED BY <2>1 DEF HasTypes
<1>4. /\ text \in Text /\ Len(t.current_prd) \in Nat /\ a \in Nat
      /\ DOMAIN t.current_prd = 1 .. Len(t.current_prd)
      /\ \A k \in DOMAIN text : text[k] = t.current_prd[n + k] /\ n + k \in DOMAIN t.current_prd
  <2>1. t.current_prd \in Seq(Seq(Nat)) /\ a \in Nat
    BY DEF HasTypes, Text
  <2>2. /\ text \in Seq(Seq(Nat)) /\ Len(text) = Len(t.current_prd) - n
        /\ \A k \in 1 .. Len(t.current_prd) - n : text[k] = t.current_prd[n + k]
    BY <2>1, TextParts
  <2>3. /\ Len(t.current_prd) \in Nat /\ DOMAIN t.current_prd = 1 .. Len(t.current_prd)
        /\ DOMAIN text = 1 .. Len(text)
    BY <2>1, <2>2
  <2>4. \A k \in DOMAIN text : n + k \in 1 .. Len(t.current_prd)
    BY <2>2, <2>3
  <2> HIDE DEF text
  <2> QED BY <2>1, <2>2, <2>3, <2>4 DEF Text
<1>5. /\ draft.version = cur /\ draft.attempt = a /\ draft.content = text
      /\ draft.complete \in BOOLEAN /\ ~draft.complete /\ draft \in VersionDraft
  BY <1>3, <1>4 DEF OpenDraft, VersionDraft
<1> HIDE DEF v, draft, text
<1>6. HasDrafts(v.drafts, s) /\ \A x \in DOMAIN v.drafts : IsDraft(v.drafts, x)
  BY <1>1 DEF Knows, PageOK
<1>7. Drafted(v, w) /\ w.status = v.status /\ w.error = Null
  BY DEF HasDraft, KeepsDrafts, v, draft, text
<1>8. ASSUME KeepsDrafts(v, w), cur \notin DOMAIN v.drafts,
             RepeatsAt(t, n), t.current_prd_attempt # 1
      PROVE  HasDrafts(w.drafts, t) /\ \A x \in DOMAIN w.drafts : IsDraft(w.drafts, x)
  <2>1. w.drafts = v.drafts
    BY <1>8 DEF KeepsDrafts
  <2>2. HasVersions(w.drafts, t)
    BY <1>2, <1>6, <2>1 DEF HasDrafts, HasVersions
  <2>3. HasRest(w.drafts, t)
    BY <1>8, <2>1 DEF HasRest
  <2> QED BY <1>6, <2>1, <2>2, <2>3 DEF HasDrafts
<1>9. ASSUME HasDraft(v, w, draft),
             n # 0 => a = 1 /\ \A k \in 1 .. n : t.current_prd[k] # Marker
      PROVE  HasDrafts(w.drafts, t) /\ \A x \in DOMAIN w.drafts : IsDraft(w.drafts, x)
  <2>1. /\ DOMAIN w.drafts = DOMAIN v.drafts \cup {cur} /\ w.drafts[cur] = draft
        /\ \A x \in DOMAIN v.drafts \ {cur} : w.drafts[x] = v.drafts[x]
    BY <1>5, <1>9 DEF HasDraft, Put
  <2>2. HasVersions(w.drafts, t)
    BY <1>2, <1>3, <1>5, <1>6, <2>1 DEF HasDrafts, HasVersions
  <2>3. HasRest(w.drafts, t)
    BY <1>5, <1>9, <2>1 DEF HasRest, text
  <2>4. ASSUME n # 0
        PROVE  /\ n <= MaxChunks /\ a = 1 /\ cur - 1 \in DOMAIN w.drafts
               /\ Reads([k \in 1 .. n |-> <<cur, 1, k>>]) = Reads(w.drafts[cur - 1].content)
    <3>1. /\ a = 1 /\ RepeatsAt(t, n) /\ n \in DOMAIN t.current_prd
          /\ \A k \in 1 .. n : k \in DOMAIN t.current_prd /\ t.current_prd[k] # Marker
      BY <1>4, <1>9, <2>4
    <3>2. /\ n <= MaxChunks
          /\ \A k \in 1 .. n : t.current_prd[k] = <<cur, 1, k>>
      BY <3>1 DEF IsTextOf
    <3>3. Beginning(t.current_prd, n) = [k \in 1 .. n |-> <<cur, 1, k>>]
      BY <3>2 DEF Beginning
    <3>4. /\ Len(t.versions) # 0 /\ Last1(t.versions) = t.versions[Len(t.versions)]
          /\ Reads(Beginning(t.current_prd, n)) = Reads(Last1(t.versions).content)
      <4>1. /\ t.versions # <<>>
            /\ Reads(Beginning(t.current_prd, n)) = Reads(Last1(t.versions).content)
        BY <3>1 DEF RepeatsAt
      <4> QED BY <1>3, <4>1, Last1Is, EmptySeq
    <3>5. cur - 1 = Len(t.versions) /\ Len(t.versions) \in 1 .. Len(t.versions)
      BY <1>3, <3>4
    <3>6. /\ cur - 1 \in DOMAIN w.drafts
          /\ w.drafts[cur - 1].content = t.versions[Len(t.versions)].content
      BY <2>2, <3>5 DEF HasVersions
    <3> QED BY <3>1, <3>2, <3>3, <3>4, <3>6
  <2>5. n \in 0 .. MaxChunks
    BY <2>4, <1>4, ServerAssumption
  <2>6. \A k \in DOMAIN text : text[k] \in {<<cur, a, n + k>>, Marker}
    BY <1>4 DEF IsTextOf
  <2>7. IsRestOfAttempt(w.drafts, cur, n)
    BY <1>5, <2>1, <2>4, <2>6 DEF IsRestOfAttempt
  <2>8. IsDraft(w.drafts, cur)
    BY <1>5, <2>1, <2>5, <2>7 DEF IsDraft
  <2>9. ASSUME NEW x \in DOMAIN w.drafts, x # cur PROVE IsDraft(w.drafts, x)
    <3>1. x \in DOMAIN v.drafts /\ w.drafts[x] = v.drafts[x] /\ v.drafts[x].complete
      BY <1>2, <1>6, <2>1, <2>9 DEF HasDrafts, HasVersions
    <3> QED BY <1>6, <3>1 DEF IsDraft
  <2> QED BY <2>2, <2>3, <2>8, <2>9 DEF HasDrafts
<1>10. HasDrafts(w.drafts, t) /\ \A x \in DOMAIN w.drafts : IsDraft(w.drafts, x)
  BY <1>8, <1>9 DEF v, draft, text
<1>11. v.status = s.status /\ w.status = t.status /\ w.error = t.error /\ t.status \in RunStatuses
  BY <1>1, <1>7 DEF SameRecord, Knows, HasTypes
<1>12. s.status \notin Ended
  BY DEF Ended, TerminalStatuses
<1>13. PageOK(w)
  BY <1>1, <1>7, <1>10, <1>11, DraftedPageOK
<1>14. Knows(w, t)
  BY <1>1, <1>7, <1>10, <1>11, <1>12, NewTextIsKnown
<1>15. t.latest_event_sequence = s.latest_event_sequence
  BY DEF SameRecord
<1> QED BY <1>2, <1>13, <1>14, <1>15, CommitKeeps, CommitIs DEF v

\* A piece of the text keeps the invariant.
LEMMA WriteChunkKeeps ==
  ASSUME ProjectionInv, WriteChunk, live' = live
  PROVE  ProjectionInv'
<1>1. /\ Good(Started) /\ Started[1] = snapshot /\ AtPhase(snapshot, phase)
      /\ pauses \in Nat /\ waiting \subseteq Roles /\ snapshot.status \notin TerminalStatuses
      /\ phase = "writing" /\ HasTypes(snapshot) /\ SnapshotOK(snapshot) /\ snapshot.error = Null
      /\ setup \in Setups
  BY StretchBegins DEF WriteChunk
<1> DEFINE s == snapshot
           cur == s.current_iteration
           att == s.current_prd_attempt
           k == Len(s.current_prd) + 1
           v == PageAt(Started)
           mine(i) == <<cur, att, i>>
<1>2. PICK chunk \in {mine(k)} \cup {Marker} :
         /\ IF chunk = Marker THEN k > 1 ELSE k <= setup.chunks
         /\ Write(Commit(Started, [s EXCEPT !.current_prd = Append(@, chunk)], "prd_delta",
              [version |-> cur, attempt |-> att, delta |-> chunk]))
  BY DEF WriteChunk, Chunk, Attempt
<1> DEFINE text == Append(s.current_prd, chunk)
           t == [s EXCEPT !.current_prd = text]
           payload == [version |-> cur, attempt |-> att, delta |-> chunk]
           e == EventOf(Started, t, "prd_delta", payload)
           w == applyEvent(v, e)
<1>3. /\ cur \in Nat /\ att \in {1, 2} /\ s.current_prd \in Text
      /\ cur # Len(s.versions) /\ IsTextOf(s.current_prd, cur, att)
  BY <1>1 DEF HasTypes, SnapshotOK, AtPhase
<1>4. /\ chunk \in Seq(Nat) /\ (chunk = Marker => k > 1)
      /\ chunk # Marker => chunk = mine(k) /\ k <= MaxChunks
  <2>1. k \in Nat
    BY <1>3 DEF Text
  <2>2. mine(k) \in Seq(Nat)
    <3>1. <<cur, att, k>> \in Seq(Nat)
      BY <1>3, <2>1
    <3> QED BY <3>1
  <2>3. Marker \in Seq(Nat)
    BY DEF Marker
  <2>4. setup.chunks \in 1 .. MaxChunks /\ MaxChunks \in Nat
    BY <1>1, ServerAssumption
  <2>5. k <= setup.chunks => k <= MaxChunks
    BY <2>1, <2>4
  <2> HIDE DEF k, mine
  <2> QED BY <1>2, <2>2, <2>3, <2>5
<1>5. /\ text \in Text /\ k \in Nat /\ DOMAIN text = 1 .. k /\ text[k] = chunk
      /\ \A i \in 1 .. (k - 1) : text[i] = s.current_prd[i]
      /\ DOMAIN s.current_prd = 1 .. (k - 1) /\ (s.current_prd = <<>> <=> k = 1) /\ text # <<>>
  <2>1. PICK sofar : sofar = s.current_prd
    OBVIOUS
  <2>2. sofar \in Text /\ chunk \in Seq(Nat) /\ text = Append(sofar, chunk) /\ k = Len(sofar) + 1
    BY <1>3, <1>4, <2>1
  <2>3. /\ Append(sofar, chunk) \in Text /\ Len(sofar) \in Nat
        /\ DOMAIN Append(sofar, chunk) = 1 .. (Len(sofar) + 1)
        /\ Append(sofar, chunk)[Len(sofar) + 1] = chunk
        /\ \A i \in 1 .. Len(sofar) : Append(sofar, chunk)[i] = sofar[i]
        /\ DOMAIN sofar = 1 .. Len(sofar) /\ (sofar = <<>> <=> Len(sofar) = 0)
        /\ Append(sofar, chunk) # <<>>
    BY ONLY <2>2, ChunksAre
  <2>4. k - 1 = Len(sofar) /\ k \in Nat
    BY <2>2, <2>3
  <2> HIDE DEF text, k
  <2> QED BY <2>1, <2>2, <2>3, <2>4
<1>6. IsTextOf(text, cur, att)
  <2> DEFINE fits(c, i) == c = Marker \/ (c = mine(i) /\ i <= MaxChunks)
  <2>1. IsTextOf(s.current_prd, cur, att) <=>
          /\ \A i \in DOMAIN s.current_prd : fits(s.current_prd[i], i)
          /\ s.current_prd # <<>> => s.current_prd[1] = mine(1)
    BY DEF IsTextOf
  <2>2. IsTextOf(text, cur, att) <=>
          /\ \A i \in DOMAIN text : fits(text[i], i)
          /\ text # <<>> => text[1] = mine(1)
    BY DEF IsTextOf
  <2>3. fits(chunk, k)
    BY <1>4
  <2> HIDE DEF s, cur, att, k, text, mine, fits
  <2>4. \A i \in 1 .. (k - 1) : fits(text[i], i)
    BY <1>3, <1>5, <2>1
  <2>5. text[1] = mine(1)
    <3>1. CASE k = 1
      BY <1>4, <1>5, <3>1
    <3>2. CASE k # 1
      BY <1>3, <1>5, <2>1, <3>2
    <3> QED BY <3>1, <3>2
  <2>6. \A i \in 1 .. k : i \in 1 .. (k - 1) \/ i = k
    BY <1>5
  <2> QED BY <1>5, <2>2, <2>3, <2>4, <2>5, <2>6
<1>7. HasTypes(t) /\ SameRecord(s, t) /\ t.current_prd = text /\ t.current_prd_attempt = att
  <2> HIDE DEF s, text, cur, k
  <2> QED BY <1>1, <1>5 DEF s, HasTypes, SnapshotFields, SameRecord
<1>8. t.current_iteration = cur /\ t.versions = s.versions
  BY <1>7 DEF SameRecord
<1>9. /\ e.event = "prd_delta" /\ e.payload = payload /\ DOMAIN payload = {"version", "attempt", "delta"}
      /\ payload["version"] = cur /\ payload["attempt"] = att /\ payload["delta"] = chunk
  BY DEF EventOf
<1>10. PageOK(v) /\ IsView(v) /\ Knows(v, s) /\ (v.snapshot = Null \/ IsRunSnapshot(v.snapshot))
  BY <1>1, PageAtIs
<1>11. PICK at : at = Commit(Started, t, "prd_delta", payload)
  OBVIOUS
<1>12. Write(at) /\ setup' = setup /\ phase' = phase /\ waiting' = waiting /\ pauses' = pauses
  BY <1>2, <1>11 DEF WriteChunk
<1> HIDE DEF t, payload, e, v, w, text
<1>13. SnapshotOK(t)
  BY <1>1, <1>3, <1>6, <1>7, <1>8, NewTextIsOK
<1>14. cur \notin 1 .. Len(s.versions) /\ cur # Len(t.versions) /\ cur \in Nat
  <2>1. cur \in {Len(s.versions), Len(s.versions) + 1} /\ Len(s.versions) \in Nat
    BY <1>1, VersionsAre
  <2> QED BY <1>3, <1>8, <2>1
<1>15. w = applyEvent(v, e) /\ payload = e.payload /\ {"version", "attempt"} \subseteq DOMAIN payload
       /\ att \in Nat
  BY <1>3, <1>9 DEF w
<1>16. IsStarted(t) /\ (IsStarted(s) <=> s.current_prd # <<>> \/ att > 1)
  <2>1. IsStarted(t) <=> t.current_prd # <<>> \/ t.current_prd_attempt > 1
    BY <1>6, <1>7, <1>8, <1>13, <1>14, TextIsNew
  <2>2. IsStarted(s) <=> s.current_prd # <<>> \/ att > 1
    BY <1>1, <1>3, TextIsNew
  <2> QED BY <1>5, <1>7, <2>1, <2>2
<1>17. \E n \in 0 .. Len(t.current_prd) :
         /\ n # 0 => RepeatsAt(t, n)
         /\ \/ /\ HasDraft(v, w, OpenDraft(cur, att, Rest(t.current_prd, n)))
               /\ n # 0 => att = 1 /\ \A i \in 1 .. n : t.current_prd[i] # Marker
            \/ KeepsDrafts(v, w) /\ cur \notin DOMAIN v.drafts /\ RepeatsAt(t, n) /\ att # 1
  <2> DEFINE prd == s.current_prd
  <2>1. \A n \in 0 .. Len(prd) :
          /\ n \in 0 .. Len(text) /\ Rest(text, n) = Append(Rest(prd, n), chunk)
          /\ n = Len(prd) => Rest(prd, n) = <<>>
          /\ RepeatsAt(s, n) <=> RepeatsAt(t, n)
          /\ \A i \in 1 .. n : text[i] = prd[i] /\ i \in DOMAIN prd
    <3> HIDE DEF s, k
    <3>1. Len(prd) \in Nat /\ prd \in Text /\ DOMAIN prd = 1 .. Len(prd) /\ k = Len(prd) + 1
      BY <1>3 DEF Text, k
    <3> HIDE DEF prd
    <3>2. ASSUME NEW n \in 0 .. Len(prd)
          PROVE  /\ n \in 0 .. Len(text) /\ Rest(text, n) = Append(Rest(prd, n), chunk)
                 /\ n = Len(prd) => Rest(prd, n) = <<>>
                 /\ Beginning(text, n) = Beginning(prd, n)
      <4>1. PICK sofar : sofar = prd
        OBVIOUS
      <4>2. text = Append(sofar, chunk)
        BY <4>1 DEF text, prd
      <4>3. sofar \in Text /\ n \in 0 .. Len(sofar) /\ chunk \in Seq(Nat)
        BY <1>4, <3>1, <4>1
      <4>4. /\ Beginning(Append(sofar, chunk), n) = Beginning(sofar, n)
            /\ Rest(Append(sofar, chunk), n) = Append(Rest(sofar, n), chunk)
            /\ n = Len(sofar) => Rest(sofar, n) = <<>>
            /\ n \in 0 .. Len(Append(sofar, chunk))
        BY ONLY <4>3, TextGrows
      <4> HIDE DEF text
      <4> QED BY <4>1, <4>2, <4>4
    <3>3. ASSUME NEW n \in 0 .. Len(prd) PROVE RepeatsAt(s, n) <=> RepeatsAt(t, n)
      BY <1>7, <1>8, <3>2, <3>3 DEF RepeatsAt, prd
    <3>4. ASSUME NEW n \in 0 .. Len(prd), NEW i \in 1 .. n
          PROVE  text[i] = prd[i] /\ i \in DOMAIN prd
      <4>1. i \in 1 .. (k - 1) /\ i \in 1 .. Len(prd)
        BY <3>1, <3>4
      <4> QED BY <1>5, <3>1, <4>1 DEF prd
    <3> QED BY <3>2, <3>3, <3>4
  <2>2. HasVersions(v.drafts, s) /\ HasRest(v.drafts, s) /\ 0 \in 0 .. Len(prd)
    <3>1. Len(prd) \in Nat
      BY <1>3 DEF Text
    <3> HIDE DEF prd
    <3> QED BY <1>10, <3>1 DEF Knows, HasDrafts
  <2>3. ASSUME NEW sofar, IF cur \in DOMAIN v.drafts
                          THEN v.drafts[cur].attempt = att /\ sofar = v.drafts[cur].content
                          ELSE att = 1 /\ sofar = <<>>
        PROVE  HasDraft(v, w, OpenDraft(cur, att, Append(sofar, chunk)))
    <3>1. cur \in DOMAIN v.drafts => v.drafts[cur].complete \in BOOLEAN /\ ~v.drafts[cur].complete
      BY <1>14, <2>2 DEF HasVersions
    <3> HIDE DEF cur, att, s
    <3> QED BY <1>9, <1>10, <1>14, <1>15, <2>3, <3>1, DraftEvents
  <2>4. cur \notin DOMAIN v.drafts /\ att # 1 => KeepsDrafts(v, w)
    <3> HIDE DEF cur, att, s
    <3> QED BY <1>9, <1>10, <1>14, <1>15, DraftEvents
  <2>5. CASE ~IsStarted(s)
    <3>1. prd = <<>> /\ att = 1 /\ cur \notin DOMAIN v.drafts
      BY <1>3, <1>14, <1>16, <2>2, <2>5 DEF HasRest
    <3>2. HasDraft(v, w, OpenDraft(cur, att, Append(<<>>, chunk)))
      BY <2>3, <3>1
    <3>3. Rest(text, 0) = Append(<<>>, chunk) /\ 0 \in 0 .. Len(text)
      BY <2>1, <2>2, <3>1, EmptySeq
    <3> QED BY <1>7, <3>2, <3>3
  <2>6. CASE IsStarted(s)
    <3>1. PICK n \in 0 .. Len(prd) :
            /\ n # 0 => RepeatsAt(s, n)
            /\ IF cur \in DOMAIN v.drafts
               THEN /\ v.drafts[cur].attempt = att /\ v.drafts[cur].content = Rest(prd, n)
                    /\ n # 0 => att = 1 /\ \A i \in 1 .. n : prd[i] # Marker
               ELSE RepeatsAt(s, n) /\ (n = Len(prd) \/ att # 1)
      BY <2>2, <2>6 DEF HasRest
    <3>2. /\ n \in 0 .. Len(text) /\ Rest(text, n) = Append(Rest(prd, n), chunk)
          /\ n = Len(prd) => Rest(prd, n) = <<>>
          /\ RepeatsAt(s, n) <=> RepeatsAt(t, n)
          /\ \A i \in 1 .. n : text[i] = prd[i] /\ i \in DOMAIN prd
      BY <2>1
    <3>3. CASE cur \in DOMAIN v.drafts
      <4>1. HasDraft(v, w, OpenDraft(cur, att, Rest(text, n)))
        BY <2>3, <3>1, <3>2, <3>3
      <4> HIDE DEF s, att, prd
      <4> QED BY <1>7, <3>1, <3>2, <3>3, <4>1
    <3>4. CASE cur \notin DOMAIN v.drafts /\ att = 1
      <4>1. HasDraft(v, w, OpenDraft(cur, att, Rest(text, n)))
        BY <2>3, <3>1, <3>2, <3>4
      <4>2. \A i \in DOMAIN prd : prd[i] # Marker
        BY DEF WriteChunk, Range
      <4> HIDE DEF s, att, prd
      <4> QED BY <1>7, <3>1, <3>2, <3>4, <4>1, <4>2
    <3>5. CASE cur \notin DOMAIN v.drafts /\ att # 1
      <4> HIDE DEF s, att, prd
      <4> QED BY <1>7, <2>4, <3>1, <3>2, <3>5
    <3> QED BY <3>3, <3>4, <3>5
  <2> QED BY <2>5, <2>6
<1>18. Good(at) /\ at[1] = t
  <2> HIDE DEF s, att, k
  <2>1. PICK now : now = cur
    OBVIOUS
  <2> HIDE DEF cur
  <2>2. /\ Started[1] = s /\ s.status \notin TerminalStatuses /\ s.error = Null
        /\ now = t.current_iteration /\ now # Len(t.versions)
        /\ IsTextOf(t.current_prd, now, t.current_prd_attempt)
        /\ t.current_prd_attempt \in {1, 2}
    BY <1>1, <1>3, <1>6, <1>7, <1>8, <1>14, <2>1 DEF s
  <2>3. PICK n \in 0 .. Len(t.current_prd) :
         /\ n # 0 => RepeatsAt(t, n)
         /\ \/ /\ HasDraft(PageAt(Started), w,
                           OpenDraft(now, t.current_prd_attempt, Rest(t.current_prd, n)))
               /\ n # 0 => /\ t.current_prd_attempt = 1
                           /\ \A i \in 1 .. n : t.current_prd[i] # Marker
            \/ /\ KeepsDrafts(PageAt(Started), w) /\ now \notin DOMAIN PageAt(Started).drafts
               /\ RepeatsAt(t, n) /\ t.current_prd_attempt # 1
    BY <1>7, <1>17, <2>1 DEF v
  <2>4. w = applyEvent(PageAt(Started), EventOf(Started, t, "prd_delta", payload))
    BY DEF w, v, e
  <2>5. /\ Good(Commit(Started, t, "prd_delta", payload))
        /\ Commit(Started, t, "prd_delta", payload)[1] = t
    BY ONLY <1>1, <1>7, <1>16, <2>2, <2>3, <2>4, TextCommit
  <2> QED BY <1>11, <2>5
<1>19. AtPhase(t, phase)
  BY <1>1, <1>6, <1>7, <1>8 DEF AtPhase, SameRecord
<1> QED BY <1>1, <1>12, <1>18, <1>19, WriteStep

\* A new attempt at the text keeps the invariant.
LEMMA NewAttemptKeeps ==
  ASSUME ProjectionInv, RetryGeneration, phase = "writing", live' = live
  PROVE  ProjectionInv'
<1>1. /\ Good(Started) /\ Started[1] = snapshot /\ AtPhase(snapshot, phase)
      /\ pauses \in Nat /\ waiting \subseteq Roles /\ snapshot.status \notin TerminalStatuses
      /\ phase = "writing" /\ snapshot.current_prd_attempt = 1 /\ snapshot.error = Null
  BY StretchBegins DEF RetryGeneration, Attempt
<1>2. PICK began \in {Started, RecordUsage(Started)} :
        Write(Commit(began, BeginStream(began[1], 2), "prd_stream_reset",
                     [version |-> snapshot.current_iteration, attempt |-> 2]))
  BY DEF RetryGeneration
<1>3. Good(began) /\ SameData(snapshot, began[1]) /\ began[1].status = snapshot.status
  <2>1. SameData(snapshot, snapshot)
    BY DEF SameData, SameDocument
  <2> QED BY <1>1, <1>2, <2>1, RecordUsageKeeps
<1> DEFINE s == began[1]
           cur == s.current_iteration
           t == BeginStream(s, 2)
           v == PageAt(began)
           payload == [version |-> cur, attempt |-> 2]
           e == EventOf(began, t, "prd_stream_reset", payload)
           w == applyEvent(v, e)
<1>4. cur = snapshot.current_iteration /\ s.versions = snapshot.versions /\ s.current_prd_attempt = 1
  BY <1>1, <1>3 DEF SameData, SameDocument
<1>5. Write(Commit(began, t, "prd_stream_reset", payload))
  BY <1>2, <1>4
<1>6. PageOK(v) /\ IsView(v) /\ Knows(v, s) /\ (v.snapshot = Null \/ IsRunSnapshot(v.snapshot))
      /\ HasTypes(s) /\ SnapshotOK(s)
  BY <1>3, PageAtIs
<1>7. t = [s EXCEPT !.current_prd = <<>>, !.current_prd_attempt = 2]
  BY DEF BeginStream
<1>8. /\ e.event = "prd_stream_reset" /\ e.payload = payload /\ DOMAIN payload = {"version", "attempt"}
      /\ payload["version"] = cur /\ payload["attempt"] = 2
  BY DEF EventOf
<1>9. s.status \notin TerminalStatuses /\ s.error = Null /\ cur # Len(s.versions)
  <2>1. s.status \notin TerminalStatuses
    BY <1>1, <1>3
  <2>2. EndIsJust(s)
    BY <1>6 DEF SnapshotOK
  <2>3. s.error = Null
    BY <2>1, <2>2 DEF EndIsJust, TerminalStatuses
  <2> QED BY <1>1, <1>4, <2>1, <2>3 DEF AtPhase
<1> HIDE DEF t, payload, e, v, w, s
<1>10. HasTypes(t) /\ SameRecord(s, t) /\ t.current_prd = <<>> /\ t.current_prd_attempt = 2
  <2>1. <<>> \in Text
    BY EmptySeq DEF Text
  <2>2. 2 \in Nat
    OBVIOUS
  <2> HIDE DEF Text
  <2> QED BY <1>6, <1>7, <2>1, <2>2 DEF HasTypes, SnapshotFields, SameRecord
<1>11. t.current_iteration = cur /\ t.versions = s.versions
  BY <1>10 DEF SameRecord
<1>12. IsTextOf(t.current_prd, t.current_iteration, t.current_prd_attempt)
  BY <1>10 DEF IsTextOf
<1>13. cur \notin 1 .. Len(s.versions) /\ cur \in Nat
  <2>1. cur \in {Len(s.versions), Len(s.versions) + 1} /\ Len(s.versions) \in Nat
    BY <1>6, VersionsAre
  <2>2. cur \in Nat
    BY <1>6 DEF HasTypes
  <2> QED BY <1>9, <2>1, <2>2
<1>14. IsStarted(t) /\ HasDraft(v, w, OpenDraft(cur, 2, <<>>))
  <2>1. w = applyEvent(v, e) /\ payload = e.payload /\ {"version", "attempt"} \subseteq DOMAIN payload
    BY <1>8 DEF w
  <2>2. IsStarted(t)
    <3>1. SnapshotOK(t)
      BY <1>6, <1>9, <1>10, <1>12, NewTextIsOK
    <3> QED BY <1>9, <1>10, <1>11, <1>12, <3>1, TextIsNew
  <2>3. cur \in DOMAIN v.drafts => ~(2 <= v.drafts[cur].attempt)
    <3>1. HasRest(v.drafts, s)
      BY <1>6 DEF Knows, HasDrafts
    <3>2. cur \in DOMAIN v.drafts => v.drafts[cur].attempt = 1
      BY <1>4, <1>13, <3>1 DEF HasRest
    <3> QED BY <3>2
  <2> HIDE DEF cur
  <2>4. HasDraft(v, w, OpenDraft(cur, 2, <<>>))
    BY <1>6, <1>8, <1>13, <2>1, <2>3, DraftEvents
  <2> QED BY <2>2, <2>4
<1>15. PICK at : at = Commit(began, t, "prd_stream_reset", payload)
  OBVIOUS
<1>16. Good(at) /\ at[1] = t
  <2>1. s = began[1]
    BY DEF s
  <2>2. w = applyEvent(PageAt(began), EventOf(began, t, "prd_stream_reset", payload))
    BY DEF w, v, e
  <2>3. PICK now : now = cur
    OBVIOUS
  <2> HIDE DEF cur
  <2>4. /\ 0 \in 0 .. Len(t.current_prd)
        /\ HasDraft(PageAt(began), w, OpenDraft(now, t.current_prd_attempt, Rest(t.current_prd, 0)))
    <3>1. Rest(<<>>, 0) = <<>> /\ Len(<<>>) = 0
      BY EmptySeq, TextParts
    <3> QED BY <1>10, <1>14, <2>3, <3>1 DEF v
  <2>5. /\ t.current_prd_attempt \in {1, 2} /\ now = t.current_iteration /\ now # Len(t.versions)
        /\ IsTextOf(t.current_prd, now, t.current_prd_attempt)
    BY <1>9, <1>10, <1>11, <1>12, <2>3
  <2>6. /\ Good(Commit(began, t, "prd_stream_reset", payload))
        /\ Commit(began, t, "prd_stream_reset", payload)[1] = t
    BY ONLY <1>3, <1>9, <1>10, <1>14, <2>1, <2>2, <2>4, <2>5, TextCommit
  <2> QED BY <1>15, <2>6
<1>17. AtPhase(t, phase)
  <2>1. t.status \notin TerminalStatuses /\ t.status # "PAUSED"
    BY <1>1, <1>3, <1>10 DEF SameRecord, AtPhase, s
  <2> QED BY <1>1, <1>9, <1>11, <1>12, <2>1 DEF AtPhase
<1>18. Write(at) /\ setup' = setup /\ phase' = phase /\ waiting' = waiting /\ pauses' = pauses
  BY <1>1, <1>5, <1>15 DEF RetryGeneration
<1> QED BY <1>1, <1>16, <1>17, <1>18, WriteStep

\* An attempt that leaves no other keeps the invariant.
LEMMA LastAttemptKeeps ==
  ASSUME ProjectionInv, GiveUp, phase = "writing", live' = live
  PROVE  ProjectionInv'
<1>1. /\ Good(Started) /\ Started[1] = snapshot /\ AtPhase(snapshot, phase)
      /\ pauses \in Nat /\ waiting \subseteq Roles /\ snapshot.status \notin TerminalStatuses
  BY StretchBegins
<1>2. PICK at : at = RecordUsage(Started)
  OBVIOUS
<1>3. Good(at) /\ SameData(snapshot, at[1]) /\ at[1].status = snapshot.status
  BY <1>1, <1>2, RecordUsageKeeps
<1>4. AtPhase(at[1], "failing")
  <2>1. AtPhase(at[1], phase)
    BY <1>1, <1>3, SamePhase DEF AtPhase
  <2> QED BY <1>1, <1>3, <2>1 DEF AtPhase
<1>5. /\ Write(at) /\ setup' = setup /\ phase' = "failing" /\ waiting' = waiting
      /\ pauses' = pauses
  BY <1>2 DEF GiveUp
<1> QED BY <1>1, <1>3, <1>4, <1>5, WriteStep

--------------------------------------------------------------------------------
(* What the generator writes behind a cancellation. *)

\* Events that change no page.
Idle(at) == IsLog(at[2]) /\ \A n \in 0 .. Len(at[2]) : Pages(Settled, at[2])[n] = Settled

\* A page that has been told of an end listens to nothing behind it.
LEMMA LateCommit ==
  ASSUME NEW at, Idle(at), Settled.status \in TerminalStatuses, Settled.status # Null,
         NEW snap, NEW kind, NEW payload
  PROVE  /\ Idle(Commit(at, snap, kind, payload)) /\ Commit(at, snap, kind, payload)[1] = snap
         /\ Len(Commit(at, snap, kind, payload)[2]) = Len(at[2]) + 1 /\ Len(at[2]) \in Nat
<1> DEFINE page == Settled
           log == at[2]
           e == EventOf(at, snap, kind, payload)
           new == Commit(at, snap, kind, payload)
<1>1. new[1] = snap /\ new[2] = Append(log, e)
  BY CommitIs
<1> HIDE DEF new, e
<1>2. IsLog(log) /\ \A n \in 0 .. Len(log) : Pages(page, log)[n] = page
  BY DEF Idle
<1>3. EventReceived(page, e) = page
  BY DEF EventReceived, IsRelevant, isTerminalRunStatus
<1> HIDE DEF page, log
<1>4. /\ IsLog(Append(log, e)) /\ Len(Append(log, e)) = Len(log) + 1 /\ Len(log) \in Nat
      /\ \A n \in 0 .. Len(log) : Pages(page, Append(log, e))[n] = Pages(page, log)[n]
      /\ Pages(page, Append(log, e))[Len(log) + 1] = EventReceived(Arrived(page, log), e)
  BY ONLY <1>2, PagesAppend
<1>5. Arrived(page, log) = page
  BY <1>2, <1>4 DEF Arrived
<1>6. ASSUME NEW n \in 0 .. Len(Append(log, e)) PROVE Pages(page, Append(log, e))[n] = page
  <2>1. n \in 0 .. Len(log) \/ n = Len(log) + 1
    BY <1>4
  <2> QED BY <1>2, <1>3, <1>4, <1>5, <2>1
<1> QED BY <1>1, <1>4, <1>6 DEF Idle, new, page, log

\* The text of a cancelled run is the one there was, or that of an attempt nobody will see.
LateText(s, t) ==
  \/ t.current_prd = s.current_prd /\ t.current_prd_attempt = s.current_prd_attempt
  \/ t.current_prd = <<>> /\ t.current_prd_attempt = 2

\* Such a write keeps the invariant: the page knows the versions still, and either
\* the text as well or that it has missed a reset.
LEMMA LateWrite ==
  ASSUME ProjectionInv, phase = "leaving", NEW at, Idle(at), Len(at[2]) > 0,
         SnapshotOK(at[1]), SameVersions(snapshot, at[1]), LateText(snapshot, at[1]),
         at[1].status = snapshot.status, at[1].error = snapshot.error,
         at[1].run_id = snapshot.run_id,
         at[1].latest_event_sequence = snapshot.latest_event_sequence,
         Write(at), setup' = setup, live' = live, phase' = "over", waiting' = waiting,
         pauses' = pauses
  PROVE  ProjectionInv'
<1> DEFINE log == at[2]
           page == Settled
           old == snapshot
           n == at[1].latest_event_sequence + Len(log)
           t == [at[1] EXCEPT !.latest_event_sequence = n]
<1>1. snapshot' = t /\ stream' = stream \o log
  BY DEF Write
<1>2. /\ IsLog(log) /\ Len(log) \in Nat /\ \A k \in 0 .. Len(log) : Pages(page, log)[k] = page
      /\ Arrived(page, log) = page
  BY LogsGrow DEF Idle, Arrived
<1>3. /\ SnapshotOK(old) /\ AtPhase(old, phase) /\ pauses \in Nat /\ waiting \subseteq Roles
      /\ setup \in Setups /\ old.status = "CANCELLED" /\ old.latest_event_sequence \in Nat
  BY StretchBegins DEF AtPhase, HasTypes
<1>4. PageOK(page) /\ Agrees(page, old) /\ page.latestSequence \in 0 .. old.latest_event_sequence
  <2>1. Len(stream) \in Nat
    BY StartedIsGood
  <2> QED BY <2>1 DEF ProjectionInv, Settled, Arrived
<1>5. /\ n \in Nat /\ n > old.latest_event_sequence
  BY <1>2, <1>3
<1> HIDE DEF n
<1>6. SnapshotOK(t) /\ t.latest_event_sequence = n
  <2>1. PICK s : s = at[1]
    OBVIOUS
  <2>2. SnapshotOK(s) /\ t = [s EXCEPT !.latest_event_sequence = n]
    BY <2>1
  <2> HIDE DEF t
  <2> QED BY ONLY <1>5, <2>2, NumberAside
<1>7. /\ SameVersions(old, t) /\ LateText(old, t) /\ t.status = "CANCELLED" /\ t.error = old.error
      /\ t.run_id = old.run_id
  <2>1. HasTypes(at[1])
    BY VersionsAre
  <2>2. PICK s : s = at[1]
    OBVIOUS
  <2>3. \A field \in SnapshotFields \ {"latest_event_sequence"} : t[field] = s[field]
    BY <2>1, <2>2 DEF HasTypes, SnapshotFields
  <2>4. /\ t.run_id = s.run_id /\ t.current_iteration = s.current_iteration
        /\ t.max_iterations = s.max_iterations /\ t.quality_threshold = s.quality_threshold
        /\ t.versions = s.versions /\ t.current_prd = s.current_prd
        /\ t.current_prd_attempt = s.current_prd_attempt
        /\ t.latest_evaluation = s.latest_evaluation /\ t.best_version = s.best_version
        /\ t.best_score = s.best_score /\ t.reviews = s.reviews
        /\ t.pending_revision_plan = s.pending_revision_plan
        /\ t.status = s.status /\ t.error = s.error
    BY <2>3 DEF SnapshotFields
  <2> HIDE DEF t
  <2> QED BY <1>3, <2>2, <2>4 DEF SameVersions, LateText
<1> HIDE DEF t
<1>8. Agrees(page, t)
  <2>1. KnowsVersions(page, old) /\ (~MissedReset(page, old) => HasRest(page.drafts, old))
    BY <1>3, <1>4, AgreesIs
  <2>2. KnowsVersions(page, t)
    BY <1>3, <1>6, <1>7, <2>1, SameDocumentSameKnowledge
  <2>3. page.latestSequence # t.latest_event_sequence /\ page.latestSequence # n
    BY <1>3, <1>4, <1>5, <1>6
  <2>4. ASSUME ~MissedReset(page, t) PROVE HasRest(page.drafts, t)
    <3>1. t.current_prd = old.current_prd /\ t.current_prd_attempt = old.current_prd_attempt
      BY <1>7, <2>3, <2>4 DEF LateText, MissedReset
    <3>2. ~MissedReset(page, old)
      BY <1>3, <1>7, <2>3, <2>4, <3>1 DEF MissedReset
    <3>3. SameDocument(old, t)
      BY <1>7, <3>1 DEF SameVersions, SameDocument
    <3> QED BY <2>1, <3>2, <3>3, SameDocumentSameDrafts
  <2> QED BY <1>6, <2>2, <2>4, AgreesIs
<1>9. /\ Settled' = page /\ IsLog(stream)'
      /\ \A k \in 0 .. Len(stream') : PageOK(Pages(live', stream')[k])
  <2>1. \A k \in 0 .. Len(log) : PageOK(Pages(page, log)[k])
    BY <1>2, <1>4
  <2> QED BY <1>1, <1>2, <2>1, PagesWritten
<1>10. SnapshotOK(snapshot)'
  <2>1. SnapshotOK(t)'
    BY <1>6, SetupOnly
  <2> QED BY <1>1, <2>1
<1>11. Agrees(Settled, snapshot)'
  <2>1. PICK now : now = page
    OBVIOUS
  <2>2. Agrees(now, t) /\ Settled' = now
    BY <1>8, <1>9, <2>1
  <2>3. PICK written : written = t
    OBVIOUS
  <2>4. Agrees(now, written)'
    BY <2>2, <2>3, SetupOnly
  <2>5. snapshot' = written
    BY <1>1, <2>3
  <2> QED BY <2>2, <2>4, <2>5
<1>12. PhaseOK'
  <2>1. AtPhase(t, "over")
    BY <1>7 DEF AtPhase, TerminalStatuses
  <2> QED BY <1>1, <1>3, <2>1, PhaseIs
<1>13. /\ Settled'.latestSequence \in 0 .. snapshot'.latest_event_sequence
       /\ snapshot'.status = "CANCELLED"
  <2>1. page.latestSequence \in 0 .. n
    BY <1>3, <1>4, <1>5
  <2> QED BY <1>1, <1>6, <1>7, <1>9, <2>1
<1> HIDE DEF log, page, old
<1> QED BY <1>9, <1>10, <1>11, <1>12, <1>13 DEF ProjectionInv, IsLog

\* Where such a stretch begins, and what the usage it may know adds to it.
LEMMA LateStretchBegins ==
  ASSUME ProjectionInv, phase = "leaving", NEW at \in {Started, RecordUsage(Started)}
  PROVE  /\ Idle(at) /\ SnapshotOK(at[1]) /\ SameData(snapshot, at[1]) /\ Len(at[2]) \in Nat
         /\ at = RecordUsage(Started) => Len(at[2]) > 0
         /\ at[1].status = snapshot.status /\ at[1].error = snapshot.error
         /\ at[1].max_iterations = snapshot.max_iterations
         /\ Settled.status \in TerminalStatuses /\ Settled.status # Null
         /\ snapshot.current_iteration # Len(snapshot.versions)
<1>1. /\ Started[1] = snapshot /\ SnapshotOK(snapshot) /\ HasTypes(snapshot)
      /\ AtPhase(snapshot, "leaving")
  BY StretchBegins
<1>2. snapshot.status = "CANCELLED" /\ snapshot.current_iteration # Len(snapshot.versions)
  BY <1>1 DEF AtPhase
<1>3. Settled.status \in TerminalStatuses /\ Settled.status # Null
  <2>1. Settled.status = snapshot.status
    BY DEF ProjectionInv, Agrees
  <2>2. "CANCELLED" \in TerminalStatuses /\ TerminalStatuses \subseteq RunStatuses
    BY DEF TerminalStatuses, RunStatuses
  <2> QED BY <1>2, <2>1, <2>2, NullIsNoValue
<1>4. Idle(Started) /\ Len(Started[2]) = 0
  <2>1. Started[2] = <<>> /\ IsLog(<<>>) /\ Len(<<>>) = 0
    BY EmptySeq DEF Started, IsLog
  <2>2. Pages(Settled, <<>>)[0] = Settled
    BY <2>1, PagesShrink
  <2> QED BY <2>1, <2>2 DEF Idle
<1>5. PICK used : used = RecordUsage(Started)
  OBVIOUS
<1>6. Idle(used) /\ Len(used[2]) = 1
  <2>1. PICK begun : begun = Started
    OBVIOUS
  <2>2. PICK snap, kind, payload : used = Commit(begun, snap, kind, payload)
    BY <1>5, <2>1 DEF RecordUsage
  <2>3. Idle(used) /\ Len(used[2]) = Len(begun[2]) + 1
    BY <1>3, <1>4, <2>1, <2>2, LateCommit
  <2> QED BY <1>4, <2>1, <2>3
<1>7. CASE at = Started
  <2>1. /\ SameData(snapshot, snapshot) /\ 0 \in Nat
    BY DEF SameData, SameDocument
  <2>2. at # RecordUsage(Started)
    BY <1>4, <1>5, <1>6, <1>7
  <2> QED BY <1>1, <1>2, <1>3, <1>4, <1>7, <2>1, <2>2
<1>8. CASE at = RecordUsage(Started)
  <2> DEFINE s == snapshot
             tokens == s.total_tokens + 1
             t == [s EXCEPT !.total_tokens = tokens]
  <2>1. at = Commit(Started, t, "telemetry_updated", [tokens |-> tokens])
    BY <1>1, <1>8 DEF RecordUsage
  <2>2. HasTypes(t) /\ SameData(s, t) /\ t.error = s.error /\ t.status = s.status
        /\ t.max_iterations = s.max_iterations
    <3>1. tokens \in Nat
      BY <1>1 DEF HasTypes
    <3> HIDE DEF tokens, s
    <3>2. t.status = s.status /\ t.max_iterations = s.max_iterations
      BY <1>1 DEF HasTypes, SnapshotFields, s
    <3>3. \E x \in Nat : t = [s EXCEPT !.total_tokens = x]
      BY <3>1
    <3> HIDE DEF t
    <3> QED BY <1>1, <3>2, <3>3, PlainUpdates DEF s
  <2> HIDE DEF t, tokens
  <2>3. EndIsJust(t)
    <3>1. EndIsJust(s) /\ s.status = "CANCELLED"
      BY <1>1, <1>2 DEF SnapshotOK
    <3> QED BY <2>2, <3>1 DEF EndIsJust, Ended
  <2>4. SnapshotOK(t)
    BY <1>1, <2>2, <2>3, SameSnapshotOK DEF SameData
  <2>5. at[1] = t
    BY <2>1, CommitIs
  <2>6. at = used /\ Len(at[2]) \in Nat /\ Len(at[2]) > 0 /\ Idle(at)
    BY <1>5, <1>6, <1>8
  <2> QED BY <1>2, <1>3, <2>2, <2>4, <2>5, <2>6
<1> QED BY <1>7, <1>8

\* A reset behind a cancellation keeps the invariant,
LEMMA LateAttemptKeeps ==
  ASSUME ProjectionInv, RetryGeneration, phase = "leaving", live' = live
  PROVE  ProjectionInv'
<1>1. PICK began \in {Started, RecordUsage(Started)} :
        Write(Commit(began, BeginStream(began[1], 2), "prd_stream_reset",
                     [version |-> snapshot.current_iteration, attempt |-> 2]))
  BY DEF RetryGeneration
<1> DEFINE s == began[1]
           t == BeginStream(s, 2)
           payload == [version |-> snapshot.current_iteration, attempt |-> 2]
<1>2. /\ Idle(began) /\ SnapshotOK(s) /\ SameData(snapshot, s) /\ Len(began[2]) \in Nat
      /\ s.status = snapshot.status /\ s.error = snapshot.error
      /\ s.max_iterations = snapshot.max_iterations
      /\ Settled.status \in TerminalStatuses /\ Settled.status # Null
      /\ snapshot.current_iteration # Len(snapshot.versions)
  BY LateStretchBegins
<1>3. PICK at : at = Commit(began, t, "prd_stream_reset", payload)
  OBVIOUS
<1>4. Idle(at) /\ at[1] = t /\ Len(at[2]) > 0
  <2>1. Idle(at) /\ at[1] = t /\ Len(at[2]) = Len(began[2]) + 1
    BY <1>2, <1>3, LateCommit
  <2> QED BY <1>2, <2>1
<1> HIDE DEF s
<1>5. HasTypes(s) /\ t = [s EXCEPT !.current_prd = <<>>, !.current_prd_attempt = 2]
  BY <1>2, VersionsAre DEF BeginStream
<1> HIDE DEF t
<1>6. HasTypes(t) /\ SameRecord(s, t) /\ t.current_prd = <<>> /\ t.current_prd_attempt = 2
      /\ t.max_iterations = s.max_iterations
  <2>1. <<>> \in Text
    BY EmptySeq DEF Text
  <2>2. 2 \in Nat
    OBVIOUS
  <2> HIDE DEF Text
  <2> QED BY <1>5, <2>1, <2>2 DEF HasTypes, SnapshotFields, SameRecord
<1>7. SnapshotOK(t)
  <2>1. s.current_iteration # Len(s.versions)
    BY <1>2 DEF SameData, SameDocument
  <2>2. IsTextOf(t.current_prd, t.current_iteration, t.current_prd_attempt)
    BY <1>6 DEF IsTextOf
  <2> QED BY <1>2, <1>6, <2>1, <2>2, NewTextIsOK
<1>8. /\ SameVersions(snapshot, t) /\ LateText(snapshot, t) /\ t.run_id = snapshot.run_id
      /\ t.status = snapshot.status /\ t.error = snapshot.error
      /\ t.latest_event_sequence = snapshot.latest_event_sequence
  BY <1>2, <1>6 DEF SameData, SameDocument, SameRecord, SameVersions, LateText
<1>9. /\ Write(at) /\ setup' = setup /\ phase' = "over" /\ waiting' = waiting
      /\ pauses' = pauses
  BY <1>1, <1>3 DEF RetryGeneration, t, s
<1> QED BY <1>4, <1>7, <1>8, <1>9, LateWrite

\* and so does what a cancelled call has spent.
LEMMA LateUsageKeeps ==
  ASSUME ProjectionInv, GiveUp, phase = "leaving", live' = live
  PROVE  ProjectionInv'
<1>1. PICK at : at = RecordUsage(Started)
  OBVIOUS
<1>2. /\ Idle(at) /\ SnapshotOK(at[1]) /\ SameData(snapshot, at[1]) /\ Len(at[2]) > 0
      /\ at[1].status = snapshot.status /\ at[1].error = snapshot.error
      /\ at[1].max_iterations = snapshot.max_iterations
  BY <1>1, LateStretchBegins
<1>3. SameVersions(snapshot, at[1]) /\ LateText(snapshot, at[1]) /\ at[1].run_id = snapshot.run_id
      /\ at[1].latest_event_sequence = snapshot.latest_event_sequence
  BY <1>2 DEF SameData, SameDocument, SameVersions, LateText
<1>4. /\ Write(at) /\ setup' = setup /\ phase' = "over" /\ waiting' = waiting
      /\ pauses' = pauses
  BY <1>1 DEF GiveUp
<1> QED BY <1>2, <1>3, <1>4, LateWrite

\* So the failures of the generator keep the invariant, before an end and behind one.
LEMMA FailedAttemptKeeps ==
  ASSUME ProjectionInv, RetryGeneration \/ GiveUp, live' = live
  PROVE  ProjectionInv'
BY NewAttemptKeeps, LastAttemptKeeps, LateAttemptKeeps, LateUsageKeeps DEF RetryGeneration, GiveUp

--------------------------------------------------------------------------------
(* The end of the generator. *)

\* A node has done its work.
LEMMA SucceedIs ==
  ASSUME NEW s, HasTypes(s), NEW node \in Nodes, NEW t, t = Succeed(s, node)
  PROVE  HasTypes(t) /\ SameData(s, t) /\ t.status = s.status /\ t.error = s.error
<1> DEFINE statuses == [s.node_statuses EXCEPT ![node] = "SUCCEEDED"]
           active == IF node \in Reviewers /\ s.active_node # node THEN s.active_node ELSE Null
<1>1. t = [s EXCEPT !.node_statuses = statuses, !.active_node = active]
  BY DEF Succeed
<1>2. statuses \in [Nodes -> NodeStatus] /\ active \in Maybe(Nodes)
  BY DEF HasTypes, Maybe, NodeStatus
<1> HIDE DEF statuses, active
<1>3. t.status = s.status
  BY <1>1 DEF HasTypes, SnapshotFields
<1> QED BY <1>1, <1>2, <1>3, PlainUpdates

\* The document is what the generator wrote, without the marker.
LEMMA ValidatedIs ==
  ASSUME NEW text \in Text, NEW version \in Nat, NEW attempt \in Nat, IsTextOf(text, version, attempt),
         Marker \in Range(text), NEW content, content = Validated(text)
  PROVE  content \in Text /\ content # <<>> /\ content[1][1] = version
<1> DEFINE mine(k) == <<version, attempt, k>>
           K == {k \in DOMAIN text : text[k] # Marker}
<1>1. text \in Seq(Seq(Nat)) /\ DOMAIN text = 1 .. Len(text) /\ Len(text) \in Nat
  BY LenProperties DEF Text
<1>2. 1 \in DOMAIN text /\ text[1] = mine(1)
  <2>1. text # <<>>
    BY DEF Range
  <2> QED BY <1>1, <2>1, EmptySeq DEF IsTextOf
<1>3. Marker # mine(1)
  BY DEF Marker
<1>4. 1 \in K /\ K \in SUBSET DOMAIN text /\ content = Selected(text, K)
  BY <1>2, <1>3 DEF Validated
<1>5. \A k \in K : text[k] = mine(k)
  BY DEF IsTextOf
<1> HIDE DEF K, mine
<1>6. /\ Selected(text, K) \in Seq(Seq(Nat)) /\ Len(Selected(text, K)) = Cardinality(K)
      /\ Cardinality(K) \in 0 .. Len(text)
      /\ \A k \in 1 .. Cardinality(K) : Nth(K, k) \in K /\ Selected(text, K)[k] = text[Nth(K, k)]
      /\ \A n \in K : \E k \in 1 .. Cardinality(K) : Nth(K, k) = n
  BY <1>1, <1>4, SelectedIs
<1>7. Cardinality(K) \in Nat /\ 1 \in 1 .. Cardinality(K)
  BY <1>1, <1>4, <1>6
<1>8. content[1] = <<version, attempt, Nth(K, 1)>>
  BY <1>4, <1>5, <1>6, <1>7 DEF mine
<1>9. content \in Seq(Seq(Nat)) /\ Len(content) # 0
  BY <1>4, <1>6, <1>7
<1>10. content # <<>>
  BY <1>9, EmptySeq
<1> QED BY <1>8, <1>9, <1>10 DEF Text

HasLast(all, versions, version, n) ==
  /\ all \in Seq(PRDVersion) /\ Len(all) = n /\ n \in Nat \ {0} /\ DOMAIN all = 1 .. n
  /\ all[n] = version /\ \A i \in DOMAIN versions : all[i] = versions[i]
  /\ DOMAIN versions = 1 .. (n - 1) /\ Len(versions) = n - 1
  /\ Evaluated(all) = Evaluated(versions) /\ n \notin Evaluated(all)

\* A version behind the others, not evaluated yet.
LEMMA VersionAdded ==
  ASSUME NEW versions \in Seq(PRDVersion), NEW version \in PRDVersion, version.evaluation = Null,
         NEW all, all = Append(versions, version)
  PROVE  HasLast(all, versions, version, Len(versions) + 1)
<1> DEFINE n == Len(versions) + 1
<1>1. Len(versions) \in Nat /\ DOMAIN versions = 1 .. Len(versions) /\ n \in Nat \ {0}
  BY LenProperties
<1>2. /\ all \in Seq(PRDVersion) /\ Len(all) = n /\ all[n] = version
      /\ \A i \in DOMAIN versions : all[i] = versions[i]
  BY <1>1
<1>3. DOMAIN all = 1 .. n
  BY <1>2, LenProperties
<1>4. Evaluated(all) = Evaluated(versions) /\ n \notin Evaluated(all)
  BY <1>1, <1>2, <1>3 DEF Evaluated
<1> QED BY <1>1, <1>2, <1>3, <1>4 DEF HasLast

\* The run's data with a version more.
WithVersion(s, t, version) ==
  /\ t.run_id = s.run_id /\ t.current_iteration = s.current_iteration
  /\ t.quality_threshold = s.quality_threshold /\ t.versions = Append(s.versions, version)
  /\ t.current_prd = version.content /\ t.current_prd_attempt = s.current_prd_attempt
  /\ t.latest_evaluation = s.latest_evaluation
  /\ t.best_version = s.best_version /\ t.best_score = s.best_score
  /\ t.reviews = s.reviews /\ t.pending_revision_plan = Null
  /\ t.status = s.status /\ t.error = s.error
  /\ t.latest_event_sequence = s.latest_event_sequence

\* The version is the one the run is at, and has what is needed of one.
IsNext(version, s) ==
  /\ s.current_iteration # Len(s.versions)
  /\ version \in PRDVersion /\ version.version = s.current_iteration
  /\ version.content # <<>> /\ version.content[1][1] = s.current_iteration
  /\ version.evaluation = Null /\ version.revision_plan = s.pending_revision_plan

\* The versions of a run that has a new one.
LEMMA NewVersionIs ==
  ASSUME NEW s, SnapshotOK(s), NEW version, IsNext(version, s),
         NEW t, HasTypes(t), WithVersion(s, t, version), NEW cur, cur = s.current_iteration
  PROVE  /\ cur \in Nat \ {0} /\ t.current_iteration = cur
         /\ Len(t.versions) = cur /\ DOMAIN t.versions = 1 .. cur
         /\ DOMAIN s.versions = 1 .. (cur - 1) /\ Len(s.versions) = cur - 1
         /\ t.versions[cur] = version /\ \A i \in DOMAIN s.versions : t.versions[i] = s.versions[i]
         /\ Evaluated(t.versions) = Evaluated(s.versions)
         /\ cur \notin Evaluated(t.versions) /\ Evaluated(s.versions) \subseteq DOMAIN s.versions
<1>1. /\ s.versions \in Seq(PRDVersion) /\ Len(s.versions) \in Nat
      /\ cur \in {Len(s.versions), Len(s.versions) + 1}
  BY VersionsAre DEF HasTypes
<1>2. cur = Len(s.versions) + 1 /\ version \in PRDVersion /\ version.evaluation = Null
  BY <1>1 DEF IsNext
<1>3. t.versions = Append(s.versions, version) /\ t.current_iteration = cur
  BY DEF WithVersion
<1>4. Evaluated(s.versions) \subseteq DOMAIN s.versions
  BY DEF Evaluated
<1>5. PICK old : old = s.versions
  OBVIOUS
<1>6. PICK all : all = t.versions
  OBVIOUS
<1>7. old \in Seq(PRDVersion) /\ cur = Len(old) + 1 /\ all = Append(old, version)
  BY <1>1, <1>2, <1>3, <1>5, <1>6
<1>8. HasLast(all, old, version, Len(old) + 1)
  BY ONLY <1>2, <1>7, VersionAdded
<1>9. HasLast(t.versions, s.versions, version, cur)
  BY <1>5, <1>6, <1>7, <1>8
<1> QED BY <1>3, <1>4, <1>9 DEF HasLast

\* A snapshot with its new version stays well formed,
LEMMA NewVersionIsOK ==
  ASSUME NEW s, SnapshotOK(s), s.status \notin Ended, NEW version, IsNext(version, s),
         NEW t, HasTypes(t), WithVersion(s, t, version)
  PROVE  SnapshotOK(t) /\ ~IsStarted(t)
<1> DEFINE cur == s.current_iteration
<1>1. /\ cur \in Nat \ {0} /\ t.current_iteration = cur
      /\ Len(t.versions) = cur /\ DOMAIN t.versions = 1 .. cur
      /\ DOMAIN s.versions = 1 .. (cur - 1) /\ Len(s.versions) = cur - 1
      /\ t.versions[cur] = version /\ \A i \in DOMAIN s.versions : t.versions[i] = s.versions[i]
      /\ Evaluated(t.versions) = Evaluated(s.versions)
      /\ cur \notin Evaluated(t.versions) /\ Evaluated(s.versions) \subseteq DOMAIN s.versions
  BY NewVersionIs
<1> HIDE DEF cur
<1>2. VersionsAreInOrder(t)
  <2>1. VersionsAreInOrder(s)
    BY DEF SnapshotOK
  <2>2. ASSUME NEW i \in DOMAIN t.versions PROVE IsVersion(t.versions[i], i)
    <3>1. CASE i = cur
      <4>1. IsPlanFor(s.pending_revision_plan, cur)
        BY <1>1, <2>1 DEF VersionsAreInOrder, cur
      <4> QED BY <1>1, <3>1, <4>1 DEF IsVersion, IsNext, cur
    <3>2. CASE i # cur
      <4>1. i \in DOMAIN s.versions
        BY <1>1, <3>2
      <4> QED BY <1>1, <2>1, <4>1 DEF VersionsAreInOrder
    <3> QED BY <3>1, <3>2
  <2>3. ASSUME NEW i \in DOMAIN t.versions, i < cur PROVE t.versions[i].evaluation # Null
    <3>1. i \in DOMAIN s.versions
      BY <1>1, <2>3
    <3> QED BY <1>1, <2>1, <2>3, <3>1 DEF VersionsAreInOrder, cur
  <2>4. t.pending_revision_plan = Null
    BY DEF WithVersion
  <2> QED BY <1>1, <2>2, <2>3, <2>4 DEF VersionsAreInOrder
<1>3. ReviewsAreOfTheVersion(t)
  <2>1. t.versions[Len(t.versions)].evaluation = Null
    BY <1>1 DEF IsNext
  <2>2. IsClean(t.reviews)
    BY DEF SnapshotOK, ReviewsAreOfTheVersion, WithVersion
  <2> QED BY <1>1, <2>1, <2>2 DEF ReviewsAreOfTheVersion
<1>4. BestIsTheBest(t)
  <2>1. BestIsTheBest(s) /\ t.best_version = s.best_version /\ t.best_score = s.best_score
    BY DEF SnapshotOK, WithVersion
  <2>2. \A i \in Evaluated(s.versions) : t.versions[i].evaluation = s.versions[i].evaluation
    BY <1>1
  <2>3. Evaluated(t.versions) = Evaluated(s.versions)
    BY <1>1
  <2> QED BY Zenon, <2>1, <2>2, <2>3 DEF BestIsTheBest
<1>5. TextIsOfOneAttempt(t) /\ ~IsStarted(t)
  BY <1>1 DEF TextIsOfOneAttempt, IsStarted, WithVersion
<1>6. EndIsJust(t)
  BY DEF WithVersion, SnapshotOK, EndIsJust
<1>7. IsRunSnapshot(t)
  BY SnapshotTypes
<1>8. t.run_id = RunId /\ t.current_prd_attempt \in {1, 2}
  BY DEF SnapshotOK, WithVersion
<1> QED BY <1>2, <1>3, <1>4, <1>5, <1>6, <1>7, <1>8 DEF SnapshotOK

\* and a page that has the finished draft knows it.
LEMMA NewVersionIsKnown ==
  ASSUME NEW s, SnapshotOK(s), s.status \notin Ended, NEW v, Knows(v, s),
         NEW version, IsNext(version, s), NEW t, HasTypes(t), WithVersion(s, t, version),
         NEW w, Drafted(v, w), w.status = t.status, w.error = t.error, HasDrafts(w.drafts, t)
  PROVE  Knows(w, t)
<1> DEFINE cur == s.current_iteration
           E == Evaluated(s.versions)
<1>1. /\ cur \in Nat \ {0} /\ t.current_iteration = cur
      /\ Len(t.versions) = cur /\ DOMAIN t.versions = 1 .. cur
      /\ DOMAIN s.versions = 1 .. (cur - 1) /\ Len(s.versions) = cur - 1
      /\ t.versions[cur] = version /\ \A i \in DOMAIN s.versions : t.versions[i] = s.versions[i]
      /\ Evaluated(t.versions) = E /\ cur \notin E /\ E \subseteq DOMAIN s.versions
  BY NewVersionIs
<1>2. \A i \in E : t.versions[i] = s.versions[i]
  BY <1>1
<1>3. ReviewsOf(t) = ReviewsOf(s)
  <2>1. DOMAIN s.reviews = {} /\ t.reviews = s.reviews
    BY DEF SnapshotOK, ReviewsAreOfTheVersion, IsNext, WithVersion
  <2>2. ReviewsOf(s) = [x \in E |-> Normalized(s.versions[x].evaluation.reviews)]
    BY <1>1, <2>1 DEF ReviewsOf
  <2>3. ReviewsOf(t) = [x \in E |-> Normalized(t.versions[x].evaluation.reviews)]
    BY <1>1, <2>1 DEF ReviewsOf
  <2> HIDE DEF E
  <2> QED BY <1>2, <2>2, <2>3
<1>4. ScoresOf(t.versions) = ScoresOf(s.versions)
  BY <1>1, <1>2 DEF ScoresOf
<1>5. PlansOf(t) = PlansOf(s)
  <2>1. ASSUME NEW x \in 1 .. (cur - 1) PROVE PlanAfter(t, x) = PlanAfter(s, x)
    <3>1. x + 1 \in DOMAIN t.versions
      BY <1>1
    <3>2. CASE x + 1 = cur
      <4>1. x + 1 \notin DOMAIN s.versions
        BY <1>1, <3>2
      <4> QED BY <1>1, <3>1, <3>2, <4>1 DEF PlanAfter, IsNext
    <3>3. CASE x + 1 # cur
      <4>1. x + 1 \in DOMAIN s.versions
        BY <1>1, <3>3
      <4> QED BY <1>1, <3>1, <4>1 DEF PlanAfter
    <3> QED BY <3>2, <3>3
  <2> QED BY <1>1, <2>1 DEF PlansOf
<1>6. /\ w.reviewsByVersion = ReviewsOf(t) /\ w.scoresByVersion = ScoresOf(t.versions)
      /\ HasPlans(w.revisionPlansBySourceVersion, t)
  <2>1. HasPlans(v.revisionPlansBySourceVersion, s) /\ t.current_iteration = s.current_iteration
    BY <1>1 DEF Knows
  <2>2. PlansAreNumbered(t) => PlansAreNumbered(s)
    <3>1. SnapshotOK(t)
      BY NewVersionIsOK
    <3>2. ASSUME PlansAreNumbered(t)
          PROVE  /\ \A i \in DOMAIN s.versions : IsNumbered(s.versions[i].revision_plan, i)
                 /\ IsNumbered(s.pending_revision_plan, cur)
      <4>1. \A i \in DOMAIN t.versions : IsNumbered(t.versions[i].revision_plan, i)
        BY <3>1, <3>2, NumberedPlans
      <4>2. \A i \in DOMAIN s.versions : i \in DOMAIN t.versions /\ t.versions[i] = s.versions[i]
        BY <1>1
      <4>3. cur \in DOMAIN t.versions /\ t.versions[cur].revision_plan = s.pending_revision_plan
        BY <1>1 DEF IsNext
      <4> QED BY <4>1, <4>2, <4>3
    <3> QED BY <3>2, NumberedPlans
  <2>3. HasPlans(w.revisionPlansBySourceVersion, t)
    BY <1>5, <2>1, <2>2 DEF HasPlans, Drafted
  <2> QED BY <1>3, <1>4, <2>3 DEF Drafted, Knows
<1>7. HasBest(w, t)
  <2>1. HasBest(v, s) /\ w.bestVersion = v.bestVersion /\ w.bestScore = v.bestScore
    BY DEF Knows, Drafted
  <2>2. t.best_version = s.best_version /\ t.best_score = s.best_score
    BY DEF WithVersion
  <2>3. Evaluated(t.versions) = Evaluated(s.versions) /\ \A i \in E : ScoreAt(t, i) = ScoreAt(s, i)
    BY <1>1, <1>2 DEF ScoreAt
  <2> QED BY <2>1, <2>2, <2>3 DEF HasBest, IsBest
<1>8. OutcomeAgrees(w, t)
  <2>1. w.outcome = Null
    BY OutcomeOpen DEF Knows, Drafted
  <2>2. t.status \notin Ended
    BY DEF WithVersion
  <2> QED BY <2>1, <2>2, OutcomeOpen
<1>9. w.snapshot # Null => IsEarlier(w.snapshot, t)
  <2>1. ASSUME w.snapshot # Null
        PROVE  /\ IsEarlier(v.snapshot, s) /\ w.snapshot.versions = v.snapshot.versions
               /\ w.snapshot.current_iteration = v.snapshot.current_iteration
               /\ Len(w.snapshot.versions) \in Nat
    <3>1. /\ IsEarlier(v.snapshot, s) /\ w.snapshot.versions = v.snapshot.versions
          /\ w.snapshot.current_iteration = v.snapshot.current_iteration /\ IsRunSnapshot(w.snapshot)
      BY <2>1 DEF Knows, Drafted, StillShows
    <3>2. Len(w.snapshot.versions) \in Nat
      BY <3>1, SnapshotTypes, LenProperties DEF HasTypes
    <3> QED BY <3>1, <3>2
  <2> QED BY <1>1, <2>1 DEF IsEarlier
<1>10. w.pendingRevisionPlan # Null => t.current_iteration > 1
  BY <1>1 DEF Knows, Drafted
<1> QED BY <1>6, <1>7, <1>8, <1>9, <1>10 DEF Knows

\* A new version keeps the invariant.
LEMMA FinishGenerationKeeps ==
  ASSUME ProjectionInv, FinishGeneration, live' = live
  PROVE  ProjectionInv'
<1> DEFINE s == snapshot
           cur == s.current_iteration
           att == s.current_prd_attempt
           content == Validated(s.current_prd)
           version == [version |-> cur, content |-> content, evaluation |-> Null,
                       revision_plan |-> s.pending_revision_plan]
           done == Succeed(s, "generator")
           t == [done EXCEPT !.versions = Append(@, version), !.current_prd = content,
                             !.pending_revision_plan = Null]
           payload == [version |-> cur, attempt |-> att, content |-> content]
           v == PageAt(Started)
           e == EventOf(Started, t, "prd_generated", payload)
           w == applyEvent(v, e)
<1>1. /\ Good(Started) /\ Started[1] = s /\ AtPhase(s, phase) /\ s.error = Null
      /\ pauses \in Nat /\ s.status \notin TerminalStatuses /\ HasTypes(s) /\ SnapshotOK(s)
      /\ phase = "writing" /\ Marker \in Range(s.current_prd)
  BY StretchBegins DEF FinishGeneration
<1>2. PICK generated : generated = Commit(Started, t, "prd_generated", payload)
  OBVIOUS
<1>3. PICK used : used = RecordUsage(generated)
  OBVIOUS
<1>4. PICK at : at = SetStage(used, "REVIEWING")
  OBVIOUS
<1>5. Write(at) /\ setup' = setup /\ phase' = "reviewing" /\ waiting' = Roles /\ pauses' = pauses
  BY <1>2, <1>3, <1>4 DEF FinishGeneration, Attempt
<1>6. PageOK(v) /\ IsView(v) /\ Knows(v, s) /\ (v.snapshot = Null \/ IsRunSnapshot(v.snapshot))
  BY <1>1, PageAtIs
<1>7. /\ cur \in Nat /\ att \in Nat /\ s.current_prd \in Text
      /\ cur # Len(s.versions) /\ IsTextOf(s.current_prd, cur, att)
      /\ s.pending_revision_plan \in Maybe(RevisionPlan)
  BY <1>1 DEF HasTypes, AtPhase
<1>8. content \in Text /\ content # <<>> /\ content[1][1] = cur
  <2> HIDE DEF s, cur, att
  <2> QED BY <1>1, <1>7, ValidatedIs
<1>9. IsNext(version, s) /\ version.content = content /\ version \in PRDVersion
  <2> HIDE DEF content
  <2> QED BY <1>7, <1>8 DEF IsNext, PRDVersion, Maybe
<1>10. HasTypes(done) /\ SameData(s, done) /\ done.status = s.status /\ done.error = s.error
  BY <1>1, SucceedIs DEF Nodes
<1>11. /\ e.event = "prd_generated" /\ e.payload = payload
       /\ DOMAIN payload = {"version", "attempt", "content"}
       /\ payload["version"] = cur /\ payload["attempt"] = att /\ payload["content"] = content
  BY DEF EventOf
<1> HIDE DEF content, version, done
<1>12. HasTypes(t) /\ WithVersion(s, t, version)
  <2>1. done.versions = s.versions /\ s.versions \in Seq(PRDVersion)
    BY <1>1, <1>10 DEF HasTypes, SameData, SameDocument
  <2>2. PICK all : all = Append(s.versions, version)
    OBVIOUS
  <2>3. all \in Seq(PRDVersion)
    <3> HIDE DEF s
    <3> QED BY <1>9, <2>1, <2>2
  <2>4. t = [done EXCEPT !.versions = all, !.current_prd = content, !.pending_revision_plan = Null]
    BY <2>1, <2>2
  <2> HIDE DEF t, s
  <2>5. HasTypes(t)
    BY <1>8, <1>10, <2>3, <2>4 DEF HasTypes, SnapshotFields, Maybe
  <2>6. /\ t.versions = all /\ t.current_prd = content /\ t.pending_revision_plan = Null
        /\ \A field \in SnapshotFields \ {"versions", "current_prd", "pending_revision_plan"} :
             t[field] = done[field]
    BY <1>10, <2>4 DEF HasTypes, SnapshotFields
  <2>7. {"run_id", "current_iteration", "quality_threshold", "current_prd_attempt",
         "latest_evaluation", "best_version", "best_score", "reviews", "status", "error",
         "latest_event_sequence"} \subseteq SnapshotFields \ {"versions", "current_prd", "pending_revision_plan"}
    BY DEF SnapshotFields
  <2>8. /\ t.run_id = done.run_id /\ t.current_iteration = done.current_iteration
        /\ t.quality_threshold = done.quality_threshold
        /\ t.current_prd_attempt = done.current_prd_attempt
        /\ t.latest_evaluation = done.latest_evaluation /\ t.best_version = done.best_version
        /\ t.best_score = done.best_score /\ t.reviews = done.reviews /\ t.status = done.status
        /\ t.error = done.error /\ t.latest_event_sequence = done.latest_event_sequence
    BY <2>6, <2>7
  <2> QED BY <1>9, <1>10, <2>2, <2>5, <2>6, <2>8 DEF WithVersion, SameData, SameDocument
<1> HIDE DEF t, payload, e, v, w
<1>13. s.status \notin Ended
  BY <1>1 DEF Ended, TerminalStatuses
<1>14. SnapshotOK(t) /\ ~IsStarted(t)
  BY <1>1, <1>9, <1>12, <1>13, NewVersionIsOK
<1>15. /\ t.current_iteration = cur /\ Len(t.versions) = cur /\ DOMAIN t.versions = 1 .. cur
       /\ DOMAIN s.versions = 1 .. (cur - 1) /\ Len(s.versions) = cur - 1
       /\ t.versions[cur] = version /\ \A i \in DOMAIN s.versions : t.versions[i] = s.versions[i]
       /\ cur \in Nat \ {0}
  BY <1>1, <1>9, <1>12, NewVersionIs
<1>16. HasDraft(v, w, DoneDraft(cur, att, content))
  <2>1. w = applyEvent(v, e) /\ payload = e.payload
    BY <1>11 DEF w
  <2>2. {"version", "attempt"} \subseteq DOMAIN payload /\ "content" \in DOMAIN payload
    BY <1>11
  <2> HIDE DEF cur, att
  <2> QED BY <1>6, <1>7, <1>11, <2>1, <2>2, DraftEvents
<1> DEFINE draft == DoneDraft(cur, att, content)
<1>17. draft.version = cur /\ draft.content = content /\ draft.complete \in BOOLEAN /\ draft.complete
  BY DEF DoneDraft
<1>18. draft \in VersionDraft
  <2> HIDE DEF cur, att
  <2> QED BY <1>7, <1>8 DEF DoneDraft, VersionDraft
<1> HIDE DEF draft
<1>19. /\ Drafted(v, w) /\ w.status = v.status /\ w.error = Null
       /\ DOMAIN w.drafts = DOMAIN v.drafts \cup {cur} /\ w.drafts[cur] = draft
       /\ \A x \in DOMAIN v.drafts \ {cur} : w.drafts[x] = v.drafts[x]
  <2>1. /\ Drafted(v, w) /\ w.status = v.status /\ w.error = Null
        /\ w.drafts = Put(v.drafts, cur, draft)
    BY <1>16, <1>17 DEF HasDraft, draft
  <2> QED BY <2>1 DEF Put
<1>20. HasDrafts(w.drafts, t)
  <2>1. HasVersions(v.drafts, s)
    BY <1>6 DEF Knows, HasDrafts
  <2> HIDE DEF cur
  <2>2. DOMAIN v.drafts \subseteq 1 .. cur /\ 1 .. (cur - 1) \subseteq DOMAIN v.drafts
    BY <1>15, <2>1 DEF HasVersions, cur
  <2>3. DOMAIN w.drafts = 1 .. Len(t.versions)
    BY <1>15, <1>19, <2>2
  <2>4. ASSUME NEW x \in 1 .. Len(t.versions)
        PROVE  /\ w.drafts[x].content = t.versions[x].content
               /\ w.drafts[x].complete \in BOOLEAN /\ w.drafts[x].complete
    <3>1. CASE x = cur
      BY <1>9, <1>15, <1>17, <1>19, <3>1
    <3>2. CASE x # cur
      <4>1. x \in 1 .. Len(s.versions) /\ x \in DOMAIN s.versions
        BY <1>15, <3>2
      <4> QED BY <1>15, <1>19, <2>1, <2>2, <3>2, <4>1 DEF HasVersions
    <3> QED BY <3>1, <3>2
  <2>5. HasVersions(w.drafts, t)
    BY <2>3, <2>4 DEF HasVersions
  <2>6. HasRest(w.drafts, t)
    BY <1>14, <2>3 DEF HasRest
  <2> QED BY <2>5, <2>6 DEF HasDrafts
<1>21. ASSUME NEW x \in DOMAIN w.drafts PROVE IsDraft(w.drafts, x)
  <2>1. CASE x = cur
    BY <1>17, <1>19, <1>18, <2>1 DEF IsDraft
  <2>2. CASE x # cur
    <3>1. x \in DOMAIN v.drafts /\ w.drafts[x] = v.drafts[x] /\ IsDraft(v.drafts, x)
      BY <1>6, <1>19, <2>2 DEF PageOK
    <3>2. DOMAIN w.drafts = 1 .. Len(t.versions) /\ w.drafts[x].complete
      BY <1>14, <1>20 DEF HasDrafts, HasVersions, HasRest
    <3> QED BY <3>1, <3>2 DEF IsDraft
  <2> QED BY <2>1, <2>2
<1>22. w.status = t.status /\ w.error = t.error /\ w.status \in RunStatuses
  BY <1>1, <1>6, <1>12, <1>19 DEF WithVersion, Knows, HasTypes
<1>23. PageOK(w)
  BY <1>6, <1>19, <1>21, <1>22, DraftedPageOK
<1>24. Knows(w, t)
  BY <1>1, <1>6, <1>9, <1>12, <1>13, <1>19, <1>20, <1>22, NewVersionIsKnown
<1>25. Good(generated) /\ generated[1] = t
  <2>1. t.latest_event_sequence = Started[1].latest_event_sequence /\ Started[1].status \notin TerminalStatuses
    BY <1>1, <1>12 DEF WithVersion
  <2>2. w = applyEvent(PageAt(Started), EventOf(Started, t, "prd_generated", payload))
    BY DEF w, v, e
  <2> QED BY <1>1, <1>2, <1>14, <1>23, <1>24, <2>1, <2>2, CommitKeeps, CommitIs
<1>26. t.status = s.status
  BY <1>12 DEF WithVersion
<1>27. Good(used) /\ SameData(t, used[1]) /\ used[1].status = s.status
  BY <1>1, <1>3, <1>25, <1>26, RecordUsageKeeps
<1>28. /\ Good(at) /\ SameData(used[1], at[1]) /\ at[1].status \notin TerminalStatuses
       /\ at[1].status \in {s.status, "REVIEWING"}
  <2>1. "REVIEWING" \in PausableStatuses
    BY DEF PausableStatuses
  <2> QED BY <1>1, <1>4, <1>27, <2>1, SetStageKeeps
<1>29. AtPhase(at[1], "reviewing")
  <2>1. /\ at[1].current_iteration = cur /\ Len(at[1].versions) = cur
        /\ at[1].versions[cur].evaluation = Null
    BY <1>9, <1>15, <1>27, <1>28 DEF SameData, SameDocument, IsNext
  <2>2. at[1].status # "PAUSED"
    BY <1>1, <1>28 DEF AtPhase
  <2> QED BY <1>28, <2>1, <2>2 DEF AtPhase
<1> QED BY <1>1, <1>5, <1>28, <1>29, WriteStep

--------------------------------------------------------------------------------
(* The actions of the reviewers. *)

\* A page that has logged an event about no draft.
Shown(v, w) ==
  /\ IsView(w) /\ w.runId = v.runId /\ w.pendingControl = v.pendingControl
  /\ w.selectionPinned = v.selectionPinned /\ w.selectedVersion = v.selectedVersion
  /\ w.drafts = v.drafts /\ StillShows(v.snapshot, w.snapshot)

\* A page with reviews of the three severities stays well formed.
LEMMA ShownPageOK ==
  ASSUME NEW v, PageOK(v), NEW w, Shown(v, w), w.status \in RunStatuses,
         \A x \in DOMAIN w.reviewsByVersion : \A role \in DOMAIN w.reviewsByVersion[x] :
           w.reviewsByVersion[x][role].feedback \in Seq(FEEDBACK_SEVERITIES)
  PROVE  PageOK(w)
<1>1. w.snapshot = Null \/ IsRunSnapshot(w.snapshot)
  BY DEF Shown, StillShows
<1>2. /\ DOMAIN w = DOMAIN initialRunViewState /\ w.runId = RunId /\ w.pendingControl = Null
      /\ w.selectionPinned \in BOOLEAN /\ w.selectedVersion \in Maybe(DOMAIN w.drafts)
  BY Zenon DEF Shown, PageOK, IsView
<1>3. \A x \in DOMAIN w.drafts : IsDraft(w.drafts, x)
  BY DEF Shown, PageOK
<1> QED BY <1>1, <1>2, <1>3 DEF PageOK

\* The findings of a page that knows the reviews.
LEMMA ReviewsAreCounted ==
  ASSUME NEW t, SnapshotOK(t), NEW x \in DOMAIN ReviewsOf(t), NEW role \in DOMAIN ReviewsOf(t)[x]
  PROVE  ReviewsOf(t)[x][role].feedback \in Seq(FEEDBACK_SEVERITIES)
<1> DEFINE r == IF x = t.current_iteration THEN t.reviews ELSE t.versions[x].evaluation.reviews
<1>1. ReviewsOf(t)[x] = Normalized(r)
  BY DEF ReviewsOf
<1>2. AreReviews(r)
  <2>1. CASE x = t.current_iteration
    BY <2>1, VersionsAre DEF HasTypes
  <2>2. CASE x # t.current_iteration
    <3>1. x \in Evaluated(t.versions)
      BY <2>2 DEF ReviewsOf
    <3> QED BY <2>2, <3>1, VersionsAre, EvaluationCounts
  <2> QED BY <2>1, <2>2
<1> HIDE DEF r
<1> QED BY <1>1, <1>2, FeedbackIs

\* What review_completed does to a page.
LEMMA ReviewEvent ==
  ASSUME NEW v, IsView(v), v.snapshot = Null \/ IsRunSnapshot(v.snapshot), NEW e,
         NEW w, w = applyEvent(v, e), e.event = "review_completed",
         NEW review, e.payload = review, NEW role \in Roles, review.role = role,
         NEW cur, e.iteration = cur
  PROVE  /\ Shown(v, w) /\ w.status = v.status /\ w.error = Null
         /\ w.reviewsByVersion = Put(v.reviewsByVersion, cur,
              Put(Get(v.reviewsByVersion, cur, EmptyMap), role, normalizeReview(review)))
         /\ w.scoresByVersion = v.scoresByVersion
         /\ w.revisionPlansBySourceVersion = v.revisionPlansBySourceVersion
         /\ w.bestVersion = v.bestVersion /\ w.bestScore = v.bestScore /\ w.outcome = v.outcome
         /\ w.pendingRevisionPlan = v.pendingRevisionPlan
<1> DEFINE n == Logging(v, e)
           version == numberPayload(e.payload, "version", e.iteration)
<1>1. Plain(v, n) /\ n.status = v.status /\ n.error = Null
  BY LoggingIsPlain
<1>2. Applies(n, w, e, version)
  BY AppliedIs
<1> HIDE DEF n, version
<1>3. IsView(n) /\ (n.snapshot = Null \/ IsRunSnapshot(n.snapshot))
      /\ StillShows(v.snapshot, n.snapshot) /\ n.reviewsByVersion = v.reviewsByVersion
  BY <1>1 DEF Plain, StillShows
<1> DEFINE snap == withNodeStatus(n.snapshot, ReviewerOf(role), "SUCCEEDED")
           reviews == Put(n.reviewsByVersion, cur,
                          Put(Get(n.reviewsByVersion, cur, EmptyMap), role, normalizeReview(review)))
<1>4. w = [n EXCEPT !.reviewsByVersion = reviews, !.snapshot = snap]
  BY <1>2 DEF Applies, ReviewCompleted
<1>5. StillShows(v.snapshot, snap)
  <2>1. StillShows(n.snapshot, snap)
    BY <1>3, NodeShown, StatusesAndNodes DEF NodeStatus
  <2> QED BY <1>3, <2>1 DEF StillShows
<1>6. reviews = Put(v.reviewsByVersion, cur,
                    Put(Get(v.reviewsByVersion, cur, EmptyMap), role, normalizeReview(review)))
  BY <1>3
<1> HIDE DEF snap, reviews
<1>7. /\ IsView(w) /\ w.reviewsByVersion = reviews /\ w.snapshot = snap
      /\ \A field \in DOMAIN n \ {"reviewsByVersion", "snapshot"} : w[field] = n[field]
  BY <1>3, <1>4, ViewFields DEF IsView
<1>8. {"runId", "pendingControl", "selectionPinned", "selectedVersion", "drafts", "scoresByVersion",
       "revisionPlansBySourceVersion", "bestVersion", "bestScore", "outcome",
       "pendingRevisionPlan", "status", "error"} \subseteq DOMAIN n \ {"reviewsByVersion", "snapshot"}
  BY <1>3, ViewFields
<1>9. /\ w.runId = n.runId /\ w.pendingControl = n.pendingControl
      /\ w.selectionPinned = n.selectionPinned /\ w.selectedVersion = n.selectedVersion
      /\ w.drafts = n.drafts /\ w.scoresByVersion = n.scoresByVersion
      /\ w.revisionPlansBySourceVersion = n.revisionPlansBySourceVersion
      /\ w.bestVersion = n.bestVersion /\ w.bestScore = n.bestScore /\ w.outcome = n.outcome
      /\ w.pendingRevisionPlan = n.pendingRevisionPlan /\ w.status = n.status /\ w.error = n.error
  BY <1>7, <1>8
<1> QED BY <1>1, <1>5, <1>6, <1>7, <1>9 DEF Plain, Shown

\* The run's data with a review more.
WithReview(s, t, role, review) ==
  /\ t.run_id = s.run_id /\ t.current_iteration = s.current_iteration
  /\ t.quality_threshold = s.quality_threshold /\ t.versions = s.versions
  /\ t.current_prd = s.current_prd /\ t.current_prd_attempt = s.current_prd_attempt
  /\ t.latest_evaluation = s.latest_evaluation
  /\ t.best_version = s.best_version /\ t.best_score = s.best_score
  /\ t.reviews = Put(s.reviews, role, review)
  /\ t.pending_revision_plan = s.pending_revision_plan
  /\ t.status = s.status /\ t.error = s.error
  /\ t.latest_event_sequence = s.latest_event_sequence

\* The version the run is at is under review.
UnderReview(s) ==
  /\ s.current_iteration = Len(s.versions)
  /\ s.versions[Len(s.versions)].evaluation = Null

\* A snapshot with a review more stays well formed.
LEMMA ReviewedIsOK ==
  ASSUME NEW s, SnapshotOK(s), s.status \notin Ended, UnderReview(s),
         NEW role \in Roles, NEW review,
         ~setup.legacy => review.feedback \in Seq(FEEDBACK_SEVERITIES),
         NEW t, HasTypes(t), WithReview(s, t, role, review)
  PROVE  SnapshotOK(t)
<1>1. VersionsAreInOrder(t)
  BY DEF SnapshotOK, VersionsAreInOrder, WithReview
<1>2. ReviewsAreOfTheVersion(t)
  <2>1. IsClean(s.reviews)
    BY DEF SnapshotOK, ReviewsAreOfTheVersion
  <2>2. IsClean(t.reviews)
    BY <2>1 DEF IsClean, WithReview, Put
  <2> QED BY <2>2 DEF ReviewsAreOfTheVersion, UnderReview, WithReview
<1>3. BestIsTheBest(t)
  <2>1. BestIsTheBest(s) /\ t.versions = s.versions /\ t.best_version = s.best_version
        /\ t.best_score = s.best_score
    BY DEF SnapshotOK, WithReview
  <2> QED BY Zenon, <2>1 DEF BestIsTheBest
<1>4. TextIsOfOneAttempt(t)
  BY DEF SnapshotOK, WithReview, TextIsOfOneAttempt
<1>5. EndIsJust(t)
  BY DEF WithReview, SnapshotOK, EndIsJust
<1>6. IsRunSnapshot(t)
  BY SnapshotTypes
<1>7. t.run_id = RunId /\ t.current_prd_attempt \in {1, 2}
  BY DEF SnapshotOK, WithReview
<1> QED BY <1>1, <1>2, <1>3, <1>4, <1>5, <1>6, <1>7 DEF SnapshotOK

\* A round with a review more, as a new page would take it.
LEMMA ReviewsGrow ==
  ASSUME NEW s, SnapshotOK(s), UnderReview(s), NEW role \in Roles, NEW review,
         NEW t, WithReview(s, t, role, review), NEW cur, cur = s.current_iteration
  PROVE  ReviewsOf(t) = Put(ReviewsOf(s), cur,
                            Put(Get(ReviewsOf(s), cur, EmptyMap), role, normalizeReview(review)))
<1> DEFINE E == Evaluated(s.versions)
           other(v) == Normalized(s.versions[v].evaluation.reviews)
<1>1. cur \notin E
  BY DEF Evaluated, UnderReview
<1>2. t.reviews = Put(s.reviews, role, review) /\ t.versions = s.versions /\ t.current_iteration = cur
  BY DEF WithReview
<1>3. DOMAIN t.reviews = DOMAIN s.reviews \cup {role}
  BY <1>2 DEF Put
<1>4. Normalized(t.reviews) = Put(Get(ReviewsOf(s), cur, EmptyMap), role, normalizeReview(review))
  <2>1. Normalized(t.reviews) =
          [x \in DOMAIN s.reviews \cup {role} |->
             IF x = role THEN normalizeReview(review) ELSE normalizeReview(s.reviews[x])]
    BY <1>2, <1>3 DEF Normalized, Put
  <2>2. CASE DOMAIN s.reviews = {}
    <3>1. cur \notin DOMAIN ReviewsOf(s)
      BY <1>1, <2>2 DEF ReviewsOf
    <3>2. Get(ReviewsOf(s), cur, EmptyMap) = EmptyMap
      BY <3>1 DEF Get
    <3>3. DOMAIN EmptyMap = {}
      BY DEF EmptyMap
    <3>4. Put(EmptyMap, role, normalizeReview(review)) = [x \in {role} |-> normalizeReview(review)]
      BY <3>3 DEF Put
    <3>5. Normalized(t.reviews) = [x \in {role} |-> normalizeReview(review)]
      BY <2>1, <2>2
    <3> QED BY <3>2, <3>4, <3>5
  <2>3. CASE DOMAIN s.reviews # {}
    <3>1. cur \in DOMAIN ReviewsOf(s) /\ ReviewsOf(s)[cur] = Normalized(s.reviews)
      BY <2>3 DEF ReviewsOf
    <3>2. Get(ReviewsOf(s), cur, EmptyMap) = Normalized(s.reviews)
      BY <3>1 DEF Get
    <3> QED BY <2>1, <3>2 DEF Put, Normalized
  <2> QED BY <2>2, <2>3
<1>5. ReviewsOf(t) = [v \in E \cup {cur} |-> IF v = cur THEN Normalized(t.reviews) ELSE other(v)]
  <2>1. DOMAIN t.reviews # {}
    BY <1>3
  <2> QED BY <1>2, <2>1 DEF ReviewsOf
<1>6. DOMAIN ReviewsOf(s) \cup {cur} = E \cup {cur} /\ \A v \in E : ReviewsOf(s)[v] = other(v)
  BY <1>1 DEF ReviewsOf
<1> HIDE DEF E, other
<1>7. Put(ReviewsOf(s), cur, Normalized(t.reviews)) =
        [v \in E \cup {cur} |-> IF v = cur THEN Normalized(t.reviews) ELSE other(v)]
  BY <1>6 DEF Put
<1> QED BY <1>4, <1>5, <1>7

\* A page that knows the run's data knows it with the review too.
LEMMA ReviewedIsKnown ==
  ASSUME NEW s, SnapshotOK(s), s.status \notin Ended, UnderReview(s), NEW v, Knows(v, s),
         NEW role \in Roles, NEW review, NEW t, WithReview(s, t, role, review),
         NEW cur, cur = s.current_iteration,
         NEW w, Shown(v, w), w.status = v.status, w.error = Null, t.error = Null,
         w.reviewsByVersion = Put(v.reviewsByVersion, cur,
           Put(Get(v.reviewsByVersion, cur, EmptyMap), role, normalizeReview(review))),
         w.scoresByVersion = v.scoresByVersion,
         w.revisionPlansBySourceVersion = v.revisionPlansBySourceVersion,
         w.bestVersion = v.bestVersion, w.bestScore = v.bestScore, w.outcome = v.outcome,
         w.pendingRevisionPlan = v.pendingRevisionPlan
  PROVE  Knows(w, t)
<1>1. /\ t.versions = s.versions /\ t.current_iteration = s.current_iteration
      /\ t.current_prd = s.current_prd /\ t.current_prd_attempt = s.current_prd_attempt
      /\ t.best_version = s.best_version /\ t.best_score = s.best_score
      /\ t.pending_revision_plan = s.pending_revision_plan /\ t.status = s.status
  BY DEF WithReview
<1>2. HasDrafts(w.drafts, t)
  <2>1. HasDrafts(v.drafts, s) /\ w.drafts = v.drafts
    BY DEF Knows, Shown
  <2>2. /\ IsStarted(t) <=> IsStarted(s)
        /\ \A n : RepeatsAt(t, n) <=> RepeatsAt(s, n)
    BY <1>1 DEF IsStarted, RepeatsAt
  <2> QED BY <1>1, <2>1, <2>2 DEF HasDrafts, HasVersions, HasRest
<1>3. w.reviewsByVersion = ReviewsOf(t)
  <2>1. v.reviewsByVersion = ReviewsOf(s)
    BY DEF Knows
  <2>2. ReviewsOf(t) = Put(ReviewsOf(s), cur,
                           Put(Get(ReviewsOf(s), cur, EmptyMap), role, normalizeReview(review)))
    BY ReviewsGrow
  <2> QED BY <2>1, <2>2
<1>4. w.scoresByVersion = ScoresOf(t.versions) /\ HasPlans(w.revisionPlansBySourceVersion, t)
  <2>1. HasPlans(v.revisionPlansBySourceVersion, s)
    BY DEF Knows
  <2>2. HasPlans(w.revisionPlansBySourceVersion, t)
    BY <1>1, <2>1, SamePlans
  <2> QED BY <1>1, <2>2 DEF Knows
<1>5. HasBest(w, t)
  BY <1>1 DEF Knows, HasBest, IsBest, ScoreAt
<1>6. OutcomeAgrees(w, t)
  BY <1>1, OutcomeOpen DEF Knows
<1>7. w.snapshot # Null => IsEarlier(w.snapshot, t)
  <2>1. ASSUME w.snapshot # Null
        PROVE  /\ IsEarlier(v.snapshot, s) /\ w.snapshot.versions = v.snapshot.versions
               /\ w.snapshot.current_iteration = v.snapshot.current_iteration
    BY <2>1 DEF Knows, Shown, StillShows
  <2> QED BY <1>1, <2>1 DEF IsEarlier
<1>8. w.pendingRevisionPlan # Null => t.current_iteration > 1
  BY <1>1 DEF Knows
<1> QED BY <1>1, <1>2, <1>3, <1>4, <1>5, <1>6, <1>7, <1>8 DEF Knows

\* A review keeps the invariant.
LEMMA FinishReviewKeeps ==
  ASSUME ProjectionInv, NEW role \in Roles, FinishReview(role), live' = live
  PROVE  ProjectionInv'
<1>1. /\ Good(Started) /\ Started[1] = snapshot /\ AtPhase(snapshot, phase) /\ snapshot.error = Null
      /\ pauses \in Nat /\ snapshot.status \notin TerminalStatuses /\ waiting \subseteq Roles
      /\ HasTypes(snapshot) /\ SnapshotOK(snapshot) /\ phase = "reviewing" /\ setup \in Setups
  BY StretchBegins DEF FinishReview
<1>2. PICK answer \in setup.reviews :
        LET review == [role |-> role, score |-> answer.score, feedback |-> answer.feedback]
            done == [Succeed(snapshot, ReviewerOf(role)) EXCEPT !.reviews = Put(@, role, review)]
        IN  Write(RecordUsage(Commit(Started, done, "review_completed", review)))
  BY DEF FinishReview
<1> DEFINE s == snapshot
           cur == s.current_iteration
           review == [role |-> role, score |-> answer.score, feedback |-> answer.feedback]
           done == Succeed(s, ReviewerOf(role))
           t == [done EXCEPT !.reviews = Put(@, role, review)]
           v == PageAt(Started)
           e == EventOf(Started, t, "review_completed", review)
           w == applyEvent(v, e)
<1>3. PICK reviewed : reviewed = Commit(Started, t, "review_completed", review)
  OBVIOUS
<1>4. PICK at : at = RecordUsage(reviewed)
  OBVIOUS
<1>5. Write(at) /\ setup' = setup /\ phase' = phase /\ waiting' = waiting /\ pauses' = pauses
  BY <1>2, <1>3, <1>4 DEF FinishReview
<1>6. /\ answer.score \in Nat /\ answer.feedback \in Feedback
      /\ ~setup.legacy => answer.feedback \in Seq(FEEDBACK_SEVERITIES)
  <2>1. /\ answer.score \in Nat
        /\ answer.feedback \in IF setup.legacy THEN Feedback ELSE Seq(FEEDBACK_SEVERITIES)
    BY <1>1, <1>2, ServerAssumption
  <2>2. Seq(FEEDBACK_SEVERITIES) \subseteq Feedback
    <3>1. FEEDBACK_SEVERITIES \subseteq FEEDBACK_SEVERITIES \cup LegacyFindings
      OBVIOUS
    <3> HIDE DEF FEEDBACK_SEVERITIES
    <3> QED BY <3>1, SeqMonotonic DEF Feedback
  <2> QED BY <2>1, <2>2
<1>7. review \in RoleReview /\ review.role = role /\ review.feedback = answer.feedback
  BY <1>6 DEF RoleReview
<1>8. HasTypes(done) /\ SameData(s, done) /\ done.status = s.status /\ done.error = s.error
  BY <1>1, StatusesAndNodes, SucceedIs
<1>9. PageOK(v) /\ IsView(v) /\ Knows(v, s) /\ (v.snapshot = Null \/ IsRunSnapshot(v.snapshot))
  BY <1>1, PageAtIs
<1>10. /\ e.event = "review_completed" /\ e.payload = review /\ e.iteration = t.current_iteration
  BY DEF EventOf
<1> HIDE DEF review, done
<1>11. HasTypes(t) /\ WithReview(s, t, role, review)
  <2>1. done.reviews = s.reviews /\ AreReviews(s.reviews)
    BY <1>1, <1>8 DEF HasTypes, SameData, SameDocument
  <2>2. PICK reviews : reviews = Put(s.reviews, role, review)
    OBVIOUS
  <2>3. AreReviews(reviews)
    <3> HIDE DEF s
    <3> QED BY <1>7, <2>1, <2>2 DEF AreReviews, Put
  <2>4. t = [done EXCEPT !.reviews = reviews]
    BY <2>1, <2>2
  <2> HIDE DEF t, s
  <2>5. HasTypes(t)
    BY <1>8, <2>3, <2>4 DEF HasTypes, SnapshotFields
  <2>6. t.reviews = reviews /\ \A field \in SnapshotFields \ {"reviews"} : t[field] = done[field]
    BY <1>8, <2>4 DEF HasTypes, SnapshotFields
  <2>7. {"run_id", "current_iteration", "quality_threshold", "versions", "current_prd",
         "current_prd_attempt", "latest_evaluation", "best_version", "best_score",
         "pending_revision_plan", "status", "error", "latest_event_sequence"}
           \subseteq SnapshotFields \ {"reviews"}
    BY DEF SnapshotFields
  <2>8. /\ t.run_id = done.run_id /\ t.current_iteration = done.current_iteration
        /\ t.quality_threshold = done.quality_threshold /\ t.versions = done.versions
        /\ t.current_prd = done.current_prd /\ t.current_prd_attempt = done.current_prd_attempt
        /\ t.latest_evaluation = done.latest_evaluation /\ t.best_version = done.best_version
        /\ t.best_score = done.best_score
        /\ t.pending_revision_plan = done.pending_revision_plan /\ t.status = done.status
        /\ t.error = done.error /\ t.latest_event_sequence = done.latest_event_sequence
    BY <2>6, <2>7
  <2> QED BY <1>8, <2>2, <2>5, <2>6, <2>8 DEF WithReview, SameData, SameDocument
<1> HIDE DEF t, e, v, w
<1>12. s.status \notin Ended /\ UnderReview(s)
  BY <1>1 DEF Ended, TerminalStatuses, AtPhase, UnderReview
<1>13. SnapshotOK(t)
  BY <1>1, <1>6, <1>7, <1>11, <1>12, ReviewedIsOK
<1>14. /\ Shown(v, w) /\ w.status = v.status /\ w.error = Null
       /\ w.reviewsByVersion = Put(v.reviewsByVersion, cur,
            Put(Get(v.reviewsByVersion, cur, EmptyMap), role, normalizeReview(review)))
       /\ w.scoresByVersion = v.scoresByVersion
       /\ w.revisionPlansBySourceVersion = v.revisionPlansBySourceVersion
       /\ w.bestVersion = v.bestVersion /\ w.bestScore = v.bestScore /\ w.outcome = v.outcome
       /\ w.pendingRevisionPlan = v.pendingRevisionPlan
  <2>1. w = applyEvent(v, e) /\ e.iteration = cur
    BY <1>10, <1>11 DEF w, WithReview
  <2> HIDE DEF cur
  <2> QED BY <1>7, <1>9, <1>10, <2>1, ReviewEvent
<1>15. Knows(w, t)
  <2>1. t.error = Null
    BY <1>1, <1>11 DEF WithReview
  <2> HIDE DEF s
  <2> QED BY <1>1, <1>9, <1>11, <1>12, <1>14, <2>1, ReviewedIsKnown DEF s
<1>16. PageOK(w)
  <2>1. w.reviewsByVersion = ReviewsOf(t)
    BY <1>15 DEF Knows
  <2>2. w.status \in RunStatuses
    BY <1>11, <1>15 DEF Knows, HasTypes
  <2> QED BY <1>9, <1>13, <1>14, <2>1, <2>2, ReviewsAreCounted, ShownPageOK
<1>17. Good(reviewed) /\ reviewed[1] = t
  <2>1. t.latest_event_sequence = Started[1].latest_event_sequence /\ Started[1].status \notin TerminalStatuses
    BY <1>1, <1>11 DEF WithReview
  <2>2. w = applyEvent(PageAt(Started), EventOf(Started, t, "review_completed", review))
    BY DEF w, v, e
  <2> QED BY <1>1, <1>3, <1>13, <1>15, <1>16, <2>1, <2>2, CommitKeeps, CommitIs
<1>18. t.status = s.status
  BY <1>11 DEF WithReview
<1>19. Good(at) /\ SameData(t, at[1]) /\ at[1].status = s.status
  BY <1>1, <1>4, <1>17, <1>18, RecordUsageKeeps
<1>20. AtPhase(at[1], phase)
  BY <1>1, <1>11, <1>19 DEF AtPhase, SameData, SameDocument, WithReview
<1> QED BY <1>1, <1>5, <1>19, <1>20, WriteStep

--------------------------------------------------------------------------------
(* The optimizer. *)

\* A plan more, for the version it says it is for.
HasNewPlan(v, w, plan, cur) ==
  LET plans == w.revisionPlansBySourceVersion IN
  /\ DOMAIN plans # {}
  /\ plan.iteration \in {Null, cur} =>
       plans = Put(v.revisionPlansBySourceVersion, cur, Placed(plan, cur, cur + 1))

\* What revision_planned does to a page.
LEMMA PlannedEvent ==
  ASSUME NEW v, IsView(v), v.snapshot = Null \/ IsRunSnapshot(v.snapshot), NEW e,
         NEW w, w = applyEvent(v, e), e.event = "revision_planned",
         NEW cur \in Nat \ {0}, NEW next, next = cur + 1, e.iteration = next,
         NEW plan \in RevisionPlan, e.payload = [revision_plan |-> plan]
  PROVE  /\ Shown(v, w) /\ w.status = v.status /\ w.error = Null
         /\ w.reviewsByVersion = v.reviewsByVersion /\ w.scoresByVersion = v.scoresByVersion
         /\ HasNewPlan(v, w, plan, cur)
         /\ w.bestVersion = v.bestVersion /\ w.bestScore = v.bestScore /\ w.outcome = v.outcome
<1> DEFINE n == Logging(v, e)
           version == numberPayload(e.payload, "version", e.iteration)
<1>1. Plain(v, n) /\ n.status = v.status /\ n.error = Null
  BY LoggingIsPlain
<1>2. Applies(n, w, e, version)
  BY AppliedIs
<1> HIDE DEF n, version
<1>3. IsView(n) /\ (n.snapshot = Null \/ IsRunSnapshot(n.snapshot))
      /\ StillShows(v.snapshot, n.snapshot)
      /\ n.revisionPlansBySourceVersion = v.revisionPlansBySourceVersion
  BY <1>1 DEF Plain, StillShows
<1> DEFINE source == planSourceVersion(plan, next)
           target == MaxOf({next, source + 1})
<1>4. plan.iteration \in {Null, cur} => source = cur
  BY DEF planSourceVersion
<1>5. plan.iteration \in {Null, cur} => target = next
  BY <1>4 DEF MaxOf
<1> HIDE DEF source, target
<1>6. plan # Null /\ Get(e.payload, "revision_plan", Null) = plan
  <2>1. plan # Null
    BY NullIsNoValue
  <2> QED BY <2>1 DEF Get
<1> DEFINE snap == withNodeStatus(n.snapshot, "optimizer", "SUCCEEDED")
           plans == Put(n.revisionPlansBySourceVersion, source, Placed(plan, source, target))
<1>7. w = [[n EXCEPT !.pendingRevisionPlan = plan, !.snapshot = snap]
             EXCEPT !.revisionPlansBySourceVersion = plans]
  <2>1. w = RevisionPlanned(n, next, e.payload)
    BY <1>2 DEF Applies
  <2>2. [n EXCEPT !.pendingRevisionPlan = plan, !.snapshot = snap].revisionPlansBySourceVersion
          = n.revisionPlansBySourceVersion
    BY <1>3, ViewFields
  <2> HIDE DEF snap
  <2> QED BY <1>6, <2>1, <2>2 DEF RevisionPlanned, snap, source, target
<1>8. StillShows(v.snapshot, snap)
  <2>1. StillShows(n.snapshot, snap)
    BY <1>3, NodeShown DEF Nodes, NodeStatus
  <2> QED BY <1>3, <2>1 DEF StillShows
<1> HIDE DEF snap, plans
<1>9. /\ IsView(w) /\ w.revisionPlansBySourceVersion = plans /\ w.snapshot = snap
      /\ \A field \in DOMAIN n \ {"pendingRevisionPlan", "snapshot", "revisionPlansBySourceVersion"} :
           w[field] = n[field]
  <2>1. PICK done : done = [n EXCEPT !.pendingRevisionPlan = plan, !.snapshot = snap]
    OBVIOUS
  <2>2. /\ DOMAIN done = DOMAIN n /\ done.snapshot = snap
        /\ \A field \in DOMAIN n \ {"pendingRevisionPlan", "snapshot"} : done[field] = n[field]
    BY <1>3, <2>1, ViewFields
  <2>3. w = [done EXCEPT !.revisionPlansBySourceVersion = plans]
    BY <1>7, <2>1
  <2>4. /\ DOMAIN w = DOMAIN n /\ w.revisionPlansBySourceVersion = plans /\ w.snapshot = done.snapshot
        /\ \A field \in DOMAIN n \ {"revisionPlansBySourceVersion"} : w[field] = done[field]
    BY ONLY <1>3, <2>2, <2>3, ViewFields
  <2> QED BY <1>3, <2>2, <2>4 DEF IsView
<1>10. {"runId", "pendingControl", "selectionPinned", "selectedVersion", "drafts", "scoresByVersion",
        "reviewsByVersion", "bestVersion", "bestScore", "outcome", "status", "error"}
          \subseteq DOMAIN n \ {"pendingRevisionPlan", "snapshot", "revisionPlansBySourceVersion"}
  BY <1>3, ViewFields
<1>11. /\ w.runId = n.runId /\ w.pendingControl = n.pendingControl
       /\ w.selectionPinned = n.selectionPinned /\ w.selectedVersion = n.selectedVersion
       /\ w.drafts = n.drafts /\ w.scoresByVersion = n.scoresByVersion
       /\ w.reviewsByVersion = n.reviewsByVersion
       /\ w.bestVersion = n.bestVersion /\ w.bestScore = n.bestScore /\ w.outcome = n.outcome
       /\ w.status = n.status /\ w.error = n.error
  BY <1>9, <1>10
<1>12. HasNewPlan(v, w, plan, cur)
  <2>1. plans = Put(v.revisionPlansBySourceVersion, source, Placed(plan, source, target))
    BY <1>3 DEF plans
  <2>2. DOMAIN plans # {}
    BY <2>1 DEF Put
  <2> QED BY <1>4, <1>5, <1>9, <2>1, <2>2 DEF HasNewPlan
<1> QED BY <1>1, <1>8, <1>9, <1>11, <1>12 DEF Plain, Shown

\* The run's data as the next round begins.
WithPlan(s, t, plan) ==
  /\ t.run_id = s.run_id /\ t.current_iteration = s.current_iteration + 1
  /\ t.versions = s.versions
  /\ t.current_prd = s.current_prd /\ t.current_prd_attempt = s.current_prd_attempt
  /\ t.best_version = s.best_version /\ t.best_score = s.best_score
  /\ DOMAIN t.reviews = {} /\ t.pending_revision_plan = plan
  /\ t.status = s.status /\ t.error = s.error
  /\ t.latest_event_sequence = s.latest_event_sequence

\* The version the run is at has been reviewed and scored.
IsScored(s) ==
  /\ s.current_iteration = Len(s.versions)
  /\ s.versions[Len(s.versions)].evaluation # Null

\* A snapshot with its plan, at the next round, stays well formed,
LEMMA PlannedIsOK ==
  ASSUME NEW s, SnapshotOK(s), s.status \notin Ended, IsScored(s),
         NEW plan \in RevisionPlan, NEW t, HasTypes(t), WithPlan(s, t, plan)
  PROVE  SnapshotOK(t) /\ ~IsStarted(t) /\ ~IsStarted(s)
<1> DEFINE cur == s.current_iteration
<1>1. /\ cur \in Nat \ {0} /\ cur = Len(s.versions) /\ DOMAIN s.versions = 1 .. cur
      /\ t.current_iteration = cur + 1 /\ t.versions = s.versions
      /\ Len(t.versions) # t.current_iteration
  BY VersionsAre DEF IsScored, WithPlan
<1> HIDE DEF cur
<1>2. VersionsAreInOrder(t)
  <2>1. VersionsAreInOrder(s)
    BY DEF SnapshotOK
  <2>2. \A i \in DOMAIN t.versions : IsVersion(t.versions[i], i)
    BY <1>1, <2>1 DEF VersionsAreInOrder
  <2>3. ASSUME NEW i \in DOMAIN t.versions, i < t.current_iteration
        PROVE  t.versions[i].evaluation # Null
    <3>1. CASE i = cur
      BY <1>1, <3>1 DEF IsScored
    <3>2. CASE i # cur
      <4>1. i \in DOMAIN s.versions /\ i < cur
        BY <1>1, <3>2
      <4> QED BY <1>1, <2>1, <4>1 DEF VersionsAreInOrder, cur
    <3> QED BY <3>1, <3>2
  <2>4. IsPlanFor(t.pending_revision_plan, t.current_iteration)
    <3>1. t.pending_revision_plan = plan
      BY DEF WithPlan
    <3>2. cur + 1 # 1 /\ (cur + 1) - 1 = cur
      BY <1>1
    <3> QED BY <1>1, <3>1, <3>2 DEF IsPlanFor, Maybe, cur
  <2>5. t.current_iteration \in {Len(t.versions), Len(t.versions) + 1} \ {0}
    BY <1>1
  <2> QED BY <1>1, <2>2, <2>3, <2>4, <2>5 DEF VersionsAreInOrder
<1>3. ReviewsAreOfTheVersion(t)
  BY <1>1 DEF ReviewsAreOfTheVersion, IsClean, WithPlan
<1>4. BestIsTheBest(t)
  <2>1. BestIsTheBest(s) /\ t.versions = s.versions /\ t.best_version = s.best_version
        /\ t.best_score = s.best_score
    BY DEF SnapshotOK, WithPlan
  <2> QED BY Zenon, <2>1 DEF BestIsTheBest
<1>5. Len(t.versions) # 0 /\ t.current_prd = t.versions[Len(t.versions)].content
  <2>1. s.current_prd = s.versions[Len(s.versions)].content
    BY DEF SnapshotOK, TextIsOfOneAttempt, IsScored
  <2> QED BY <1>1, <2>1 DEF WithPlan
<1>6. TextIsOfOneAttempt(t) /\ ~IsStarted(t) /\ ~IsStarted(s)
  BY <1>1, <1>5 DEF TextIsOfOneAttempt, IsStarted, IsScored
<1>7. EndIsJust(t)
  BY DEF WithPlan, SnapshotOK, EndIsJust
<1>8. IsRunSnapshot(t)
  BY SnapshotTypes
<1>9. t.run_id = RunId /\ t.current_prd_attempt \in {1, 2}
  BY DEF SnapshotOK, WithPlan
<1> QED BY <1>2, <1>3, <1>4, <1>6, <1>7, <1>8, <1>9 DEF SnapshotOK

\* and a page that was told of the plan knows it.
LEMMA PlannedIsKnown ==
  ASSUME NEW s, SnapshotOK(s), s.status \notin Ended, IsScored(s), NEW v, Knows(v, s),
         ~IsStarted(s), NEW plan, NEW t, SnapshotOK(t), WithPlan(s, t, plan), ~IsStarted(t),
         t.error = Null,
         NEW cur, cur = s.current_iteration, NEW next, next = cur + 1,
         NEW w, Shown(v, w), w.status = v.status, w.error = Null,
         w.reviewsByVersion = v.reviewsByVersion, w.scoresByVersion = v.scoresByVersion,
         HasNewPlan(v, w, plan, cur),
         w.bestVersion = v.bestVersion, w.bestScore = v.bestScore, w.outcome = v.outcome
  PROVE  Knows(w, t)
<1>1. /\ t.versions = s.versions /\ t.current_iteration = next
      /\ t.best_version = s.best_version /\ t.best_score = s.best_score
      /\ t.pending_revision_plan = plan /\ t.status = s.status /\ DOMAIN t.reviews = {}
  BY DEF WithPlan
<1>2. /\ cur \in Nat \ {0} /\ cur = Len(s.versions) /\ DOMAIN s.versions = 1 .. cur
      /\ cur \in Evaluated(s.versions) /\ Evaluated(s.versions) \subseteq 1 .. cur
  BY VersionsAre DEF IsScored, Evaluated
<1>3. HasDrafts(w.drafts, t)
  <2>1. HasDrafts(v.drafts, s) /\ w.drafts = v.drafts
    BY DEF Knows, Shown
  <2>2. DOMAIN w.drafts = 1 .. Len(t.versions)
    BY <1>1, <2>1 DEF HasDrafts, HasRest
  <2>3. HasVersions(w.drafts, t)
    BY <1>1, <1>2, <2>1, <2>2 DEF HasDrafts, HasVersions
  <2>4. HasRest(w.drafts, t)
    BY <2>2 DEF HasRest
  <2> QED BY <2>3, <2>4 DEF HasDrafts
<1>4. w.reviewsByVersion = ReviewsOf(t)
  <2> DEFINE E == Evaluated(s.versions)
             round(x) == Normalized(s.versions[x].evaluation.reviews)
  <2>1. next \notin E
    BY <1>2
  <2>2. ReviewsOf(t) = [x \in E |-> round(x)]
    BY <1>1, <2>1 DEF ReviewsOf
  <2>3. s.reviews = s.versions[cur].evaluation.reviews
    BY DEF SnapshotOK, ReviewsAreOfTheVersion, IsScored
  <2>4. E \cup {c \in {s.current_iteration} : DOMAIN s.reviews # {}} = E
    BY <1>2
  <2>5. ReviewsOf(s) = [x \in E |-> Normalized(IF x = cur THEN s.reviews
                                               ELSE s.versions[x].evaluation.reviews)]
    BY <2>4 DEF ReviewsOf
  <2>6. ReviewsOf(s) = [x \in E |-> round(x)]
    <3>1. \A x \in E : Normalized(IF x = cur THEN s.reviews
                                  ELSE s.versions[x].evaluation.reviews) = round(x)
      BY <2>3
    <3> HIDE DEF E, round
    <3> QED BY <2>5, <3>1
  <2> QED BY <2>2, <2>6 DEF Knows
<1>5. w.scoresByVersion = ScoresOf(t.versions)
  BY <1>1 DEF Knows
<1>6. HasPlans(w.revisionPlansBySourceVersion, t)
  <2>1. ASSUME PlansAreNumbered(t) PROVE w.revisionPlansBySourceVersion = PlansOf(t)
    <3>1. plan \in RevisionPlan /\ plan # Null
      <4>1. IsPlanFor(plan, next)
        BY <1>1, <1>2 DEF SnapshotOK, VersionsAreInOrder
      <4>2. next # 1
        BY <1>2
      <4> QED BY <4>1, <4>2, NullIsNoValue DEF IsPlanFor
    <3>2. /\ \A i \in DOMAIN t.versions : IsNumbered(t.versions[i].revision_plan, i)
          /\ IsNumbered(plan, next)
      BY <1>1, <2>1, NumberedPlans
    <3>3. plan.iteration \in {Null, cur}
      <4>1. next - 1 = cur
        BY <1>2
      <4>2. IsNumbered(plan, next) /\ plan # Null
        BY <3>1, <3>2
      <4>3. plan.iteration \in Maybe({next - 1})
        BY Zenon, <4>2 DEF IsNumbered
      <4> QED BY Zenon, <4>1, <4>3 DEF Maybe
    <3>4. PlansAreNumbered(s)
      <4>1. s.pending_revision_plan = Null
        BY DEF SnapshotOK, VersionsAreInOrder, IsScored
      <4>2. IsNumbered(s.pending_revision_plan, s.current_iteration)
        BY <4>1 DEF IsNumbered
      <4> QED BY <1>1, <3>2, <4>2, NumberedPlans
    <3>5. next - 1 = cur /\ (1 .. (cur - 1)) \cup {cur} = 1 .. cur
      BY <1>2
    <3>6. PlansOf(t) = [x \in 1 .. cur |-> Placed(PlanAfter(t, x), x, x + 1)]
      BY <1>1, <3>5 DEF PlansOf
    <3>7. PlanAfter(t, cur) = plan
      <4>1. cur + 1 \notin DOMAIN s.versions
        BY <1>2
      <4> QED BY <1>1, <4>1 DEF PlanAfter
    <3>8. \A x \in 1 .. (cur - 1) : PlanAfter(t, x) = PlanAfter(s, x)
      <4>1. \A x \in 1 .. (cur - 1) : x + 1 \in DOMAIN s.versions
        BY <1>2
      <4> QED BY <1>1, <4>1 DEF PlanAfter
    <3>9. v.revisionPlansBySourceVersion = [x \in 1 .. (cur - 1) |-> Placed(PlanAfter(s, x), x, x + 1)]
      BY <3>4 DEF Knows, HasPlans, PlansOf
    <3>10. Put(v.revisionPlansBySourceVersion, cur, Placed(plan, cur, next)) =
            [x \in 1 .. cur |-> IF x = cur THEN Placed(plan, cur, next)
                                ELSE v.revisionPlansBySourceVersion[x]]
      BY <3>5, <3>9 DEF Put
    <3>11. ASSUME NEW x \in 1 .. cur
          PROVE  Placed(PlanAfter(t, x), x, x + 1) =
                   IF x = cur THEN Placed(plan, cur, next) ELSE v.revisionPlansBySourceVersion[x]
      <4>1. CASE x = cur
        BY <3>7, <4>1
      <4>2. CASE x # cur
        <5>1. x \in 1 .. (cur - 1)
          BY <1>2, <4>2
        <5> QED BY <3>8, <3>9, <4>2, <5>1
      <4> QED BY <4>1, <4>2
    <3>12. w.revisionPlansBySourceVersion =
            Put(v.revisionPlansBySourceVersion, cur, Placed(plan, cur, next))
      BY <3>3 DEF HasNewPlan
    <3> QED BY <3>6, <3>10, <3>11, <3>12
  <2>2. DOMAIN w.revisionPlansBySourceVersion # {} /\ t.current_iteration # 1
    BY <1>1, <1>2 DEF HasNewPlan
  <2> QED BY <2>1, <2>2 DEF HasPlans
<1>7. HasBest(w, t)
  BY <1>1 DEF Knows, HasBest, IsBest, ScoreAt
<1>8. OutcomeAgrees(w, t)
  BY <1>1, OutcomeOpen DEF Knows
<1>9. w.snapshot # Null => IsEarlier(w.snapshot, t)
  <2>1. ASSUME w.snapshot # Null
        PROVE  /\ IsEarlier(v.snapshot, s) /\ w.snapshot.versions = v.snapshot.versions
               /\ w.snapshot.current_iteration = v.snapshot.current_iteration
               /\ w.snapshot.current_iteration \in Nat
    <3>1. /\ IsEarlier(v.snapshot, s) /\ w.snapshot.versions = v.snapshot.versions
          /\ w.snapshot.current_iteration = v.snapshot.current_iteration /\ IsRunSnapshot(w.snapshot)
      BY <2>1 DEF Knows, Shown, StillShows
    <3> QED BY <3>1, SnapshotTypes DEF HasTypes
  <2> QED BY <1>1, <1>2, <2>1 DEF IsEarlier
<1>10. t.current_iteration > 1
  BY <1>1, <1>2
<1> QED BY <1>1, <1>3, <1>4, <1>5, <1>6, <1>7, <1>8, <1>9, <1>10 DEF Knows

\* A plan, whatever number the model gives it, keeps the invariant.
LEMMA FinishOptimizerKeeps ==
  ASSUME ProjectionInv, FinishOptimizer, live' = live
  PROVE  ProjectionInv'
<1>1. /\ Good(Started) /\ Started[1] = snapshot /\ AtPhase(snapshot, phase) /\ snapshot.error = Null
      /\ pauses \in Nat /\ snapshot.status \notin TerminalStatuses /\ waiting \subseteq Roles
      /\ HasTypes(snapshot) /\ SnapshotOK(snapshot) /\ phase = "planning"
  BY StretchBegins DEF FinishOptimizer
<1> DEFINE s == snapshot
           cur == s.current_iteration
           next == cur + 1
           done == Succeed(s, "optimizer")
<1>2. PICK offset \in PlanOffsets :
        LET planned == [iteration |-> IF setup.legacy THEN Null ELSE snapshot.current_iteration + offset]
        IN  Write(SetStage(RecordUsage(Commit(Started,
              [Succeed(snapshot, "optimizer") EXCEPT
                 !.pending_revision_plan = planned, !.current_iteration = @ + 1, !.reviews = NoRound],
              "revision_planned", [revision_plan |-> planned])), "GENERATING"))
  BY DEF FinishOptimizer
<1> DEFINE plan == [iteration |-> IF setup.legacy THEN Null ELSE cur + offset]
<1> DEFINE t == [done EXCEPT !.pending_revision_plan = plan, !.current_iteration = @ + 1,
                             !.reviews = NoRound]
           v == PageAt(Started)
           payload == [revision_plan |-> plan]
           e == EventOf(Started, t, "revision_planned", payload)
           w == applyEvent(v, e)
<1>3. PICK planned : planned = Commit(Started, t, "revision_planned", payload)
  OBVIOUS
<1>4. PICK counted : counted = RecordUsage(planned)
  OBVIOUS
<1>5. PICK at : at = SetStage(counted, "GENERATING")
  OBVIOUS
<1>6. Write(at) /\ setup' = setup /\ phase' = "planned" /\ waiting' = waiting /\ pauses' = pauses
  BY <1>2, <1>3, <1>4, <1>5 DEF FinishOptimizer
<1>7. s.status \notin Ended /\ IsScored(s)
  BY <1>1 DEF Ended, TerminalStatuses, AtPhase, IsScored
<1>8. cur \in Nat \ {0} /\ Len(s.versions) = cur
  BY <1>1, <1>7, VersionsAre DEF IsScored
<1>9. plan \in RevisionPlan
  <2>1. offset \in Int /\ cur + offset \in Int
    BY <1>8, ServerAssumption
  <2> QED BY <2>1 DEF RevisionPlan, Maybe
<1>10. HasTypes(done) /\ SameData(s, done) /\ done.status = s.status /\ done.error = s.error
  BY <1>1, SucceedIs DEF Nodes
<1>11. PageOK(v) /\ IsView(v) /\ Knows(v, s) /\ (v.snapshot = Null \/ IsRunSnapshot(v.snapshot))
  BY <1>1, PageAtIs
<1>12. /\ e.event = "revision_planned" /\ e.payload = payload /\ e.iteration = t.current_iteration
  BY DEF EventOf
<1> HIDE DEF done, plan
<1>13. HasTypes(t) /\ WithPlan(s, t, plan)
  <2>1. done.current_iteration = cur /\ AreReviews(NoRound) /\ DOMAIN NoRound = {}
    BY <1>10 DEF SameData, SameDocument, NoRound, AreReviews
  <2>2. PICK none : none = NoRound
    OBVIOUS
  <2>3. t = [done EXCEPT !.pending_revision_plan = plan, !.current_iteration = next, !.reviews = none]
    BY <2>1, <2>2
  <2>4. next \in Nat
    BY <1>8
  <2> HIDE DEF t, s, next
  <2>5. HasTypes(t)
    BY <1>9, <1>10, <2>1, <2>2, <2>3, <2>4 DEF HasTypes, SnapshotFields, Maybe
  <2>6. /\ t.reviews = none /\ t.pending_revision_plan = plan /\ t.current_iteration = next
        /\ \A field \in SnapshotFields \ {"reviews", "pending_revision_plan", "current_iteration"} :
             t[field] = done[field]
    BY <1>10, <2>3 DEF HasTypes, SnapshotFields
  <2>7. {"run_id", "versions", "current_prd", "current_prd_attempt", "best_version", "best_score",
         "status", "error", "latest_event_sequence"}
           \subseteq SnapshotFields \ {"reviews", "pending_revision_plan", "current_iteration"}
    BY DEF SnapshotFields
  <2>8. /\ t.run_id = done.run_id /\ t.versions = done.versions
        /\ t.current_prd = done.current_prd /\ t.current_prd_attempt = done.current_prd_attempt
        /\ t.best_version = done.best_version /\ t.best_score = done.best_score
        /\ t.status = done.status /\ t.error = done.error
        /\ t.latest_event_sequence = done.latest_event_sequence
    BY <2>6, <2>7
  <2> QED BY <1>10, <2>1, <2>2, <2>5, <2>6, <2>8 DEF WithPlan, SameData, SameDocument, next
<1>14. t.current_iteration = next
  BY <1>13 DEF WithPlan
<1> HIDE DEF t, e, v, w
<1>15. SnapshotOK(t) /\ ~IsStarted(t) /\ ~IsStarted(s)
  BY <1>1, <1>7, <1>9, <1>13, PlannedIsOK
<1>16. /\ Shown(v, w) /\ w.status = v.status /\ w.error = Null
       /\ w.reviewsByVersion = v.reviewsByVersion /\ w.scoresByVersion = v.scoresByVersion
       /\ HasNewPlan(v, w, plan, cur)
       /\ w.bestVersion = v.bestVersion /\ w.bestScore = v.bestScore /\ w.outcome = v.outcome
  <2>1. w = applyEvent(v, e) /\ e.iteration = next /\ e.payload = [revision_plan |-> plan]
    BY <1>12, <1>14 DEF w
  <2>2. next = cur + 1
    OBVIOUS
  <2> HIDE DEF cur, next, payload
  <2> QED BY <1>8, <1>9, <1>11, <1>12, <2>1, <2>2, PlannedEvent
<1>17. Knows(w, t)
  <2>1. t.error = Null
    BY <1>1, <1>13 DEF WithPlan
  <2>2. PICK now, then : now = cur /\ then = next
    OBVIOUS
  <2> HIDE DEF s
  <2> QED BY <1>1, <1>7, <1>11, <1>13, <1>15, <1>16, <2>1, <2>2, PlannedIsKnown DEF s
<1>18. PageOK(w)
  <2>1. w.reviewsByVersion = ReviewsOf(t)
    BY <1>17 DEF Knows
  <2>2. w.status \in RunStatuses
    BY <1>13, <1>17 DEF Knows, HasTypes
  <2> QED BY <1>11, <1>15, <1>16, <2>1, <2>2, ReviewsAreCounted, ShownPageOK
<1>19. Good(planned) /\ planned[1] = t
  <2>1. t.latest_event_sequence = Started[1].latest_event_sequence /\ Started[1].status \notin TerminalStatuses
    BY <1>1, <1>13 DEF WithPlan
  <2>2. w = applyEvent(PageAt(Started), EventOf(Started, t, "revision_planned", payload))
    BY DEF w, v, e
  <2> QED BY <1>1, <1>3, <1>15, <1>17, <1>18, <2>1, <2>2, CommitKeeps, CommitIs
<1>20. t.status = s.status
  BY <1>13 DEF WithPlan
<1>21. Good(counted) /\ SameData(t, counted[1]) /\ counted[1].status = s.status
  BY <1>1, <1>4, <1>19, <1>20, RecordUsageKeeps
<1>22. /\ Good(at) /\ SameData(counted[1], at[1]) /\ at[1].status \notin TerminalStatuses
       /\ at[1].status \in {s.status, "GENERATING"}
  BY <1>1, <1>5, <1>21, SetStageKeeps DEF PausableStatuses
<1>23. SameData(t, at[1])
  BY <1>21, <1>22, SameDataTwice
<1>24. AtPhase(at[1], "planned")
  <2>1. Len(s.versions) # 0 /\ Len(s.versions) # next
    BY <1>8
  <2>2. s.current_prd = s.versions[Len(s.versions)].content
    BY <1>1, <1>7 DEF SnapshotOK, TextIsOfOneAttempt, IsScored
  <2>3. /\ at[1].current_iteration = next /\ at[1].versions = s.versions
        /\ at[1].current_prd = s.current_prd
    BY <1>13, <1>14, <1>23 DEF SameData, SameDocument, WithPlan
  <2>4. s.status # "PAUSED" /\ at[1].status # "PAUSED"
    BY <1>1, <1>22 DEF AtPhase
  <2> HIDE DEF s, next
  <2> QED BY <1>22, <2>1, <2>2, <2>3, <2>4 DEF AtPhase
<1> QED BY <1>1, <1>6, <1>22, <1>24, WriteStep

--------------------------------------------------------------------------------
(* The aggregator. *)

\* The evaluation the aggregator makes of a complete round of reviews.
LEMMA EvaluationIs ==
  ASSUME SnapshotOK(snapshot), DOMAIN snapshot.reviews = Roles, setup \in Setups
  PROVE  /\ IsEvaluation(Evaluation) /\ Evaluation.reviews = snapshot.reviews
         /\ Evaluation.overall_score \in Nat /\ Evaluation # Null
<1>1. AreReviews(snapshot.reviews) /\ IsClean(snapshot.reviews)
  BY VersionsAre DEF HasTypes, SnapshotOK, ReviewsAreOfTheVersion
<1> DEFINE r == snapshot.reviews
           total == ScoreBy("tech") + ScoreBy("ux") + ScoreBy("biz")
           all == IF setup.legacy THEN <<>> ELSE FeedbackOf(r)
<1>2. \A role : ScoreBy(role) \in Nat
  BY <1>1 DEF ScoreBy, AreReviews, RoleReview
<1>3. total \in Nat
  BY <1>2
<1>4. all \in Feedback
  <2>1. <<>> \in Feedback
    BY DEF Feedback
  <2>2. ASSUME NEW role PROVE FindingsOf(r, role) \in Feedback
    BY <1>1, <2>1 DEF FindingsOf, AreReviews, RoleReview
  <2>3. \A x, y \in Feedback : x \o y \in Feedback
    BY DEF Feedback
  <2> QED BY <2>1, <2>2, <2>3 DEF FeedbackOf
<1>5. r \in [Roles -> RoleReview]
  BY <1>1 DEF AreReviews
<1>6. Evaluation = [reviews |-> r, overall_score |-> total, combined_feedback |-> all]
  BY DEF Evaluation
<1> HIDE DEF r, total, all
<1>7. Evaluation \in EvaluationResult
  BY <1>3, <1>4, <1>5, <1>6 DEF EvaluationResult
<1> QED BY <1>1, <1>3, <1>6, <1>7, NullIsNoValue DEF IsEvaluation, r, all

\* What a payload of this server says of the findings of a round.
TellsSeverity(payload) ==
  IF setup.legacy THEN "severity_counts" \notin DOMAIN payload
  ELSE "severity_counts" \in DOMAIN payload
       /\ payload["severity_counts"] = SeverityCounts(Evaluation)

\* The browser counts what the server counted, from the payload or from the cards.
LEMMA SeverityIs ==
  ASSUME IsEvaluation(Evaluation), NEW payload, TellsSeverity(payload),
         NEW counts, counts = severitiesFromEvaluation(Evaluation)
  PROVE  /\ severityFromPayload(payload, severitiesFromReviews(Normalized(Evaluation.reviews))) = counts
         /\ severityFromPayload(payload, counts) = counts
         /\ severitiesFromReviews(Normalized(Evaluation.reviews)) \in {counts, Null}
<1> DEFINE found == FeedbackOf(Normalized(Evaluation.reviews))
           fromReviews == severitiesFromReviews(Normalized(Evaluation.reviews))
<1>1. /\ counts = countSeverities(found) /\ counts # Null
      /\ ~setup.legacy => SeverityCounts(Evaluation) = counts
  BY EvaluationCounts, CountsAre
<1>2. fromReviews = IF found = <<>> THEN Null ELSE counts
  BY <1>1 DEF severitiesFromReviews
<1>3. found = <<>> => counts = EMPTY_SEVERITY_COUNTS
  BY <1>1, CountsAre
<1>4. fromReviews \in {counts, Null} /\ (fromReviews = Null => counts = EMPTY_SEVERITY_COUNTS)
  BY <1>1, <1>2, <1>3
<1> HIDE DEF found, fromReviews
<1>5. /\ severityFromPayload(payload, fromReviews) = counts
      /\ severityFromPayload(payload, counts) = counts
  <2>1. CASE setup.legacy
    <3>1. ~Sent(payload, SEVERITY_PAYLOAD_KEY)
      BY <2>1 DEF TellsSeverity, Sent, SEVERITY_PAYLOAD_KEY
    <3> QED BY <1>1, <1>4, <3>1 DEF severityFromPayload, numberPayload
  <2>2. CASE ~setup.legacy
    <3>1. Sent(payload, SEVERITY_PAYLOAD_KEY) /\ payload[SEVERITY_PAYLOAD_KEY] = counts
      BY <1>1, <2>2 DEF TellsSeverity, Sent, SEVERITY_PAYLOAD_KEY
    <3> QED BY <3>1 DEF severityFromPayload, numberPayload
  <2> QED BY <2>1, <2>2
<1> QED BY <1>4, <1>5 DEF fromReviews

\* What the browser makes of the scores.
LEMMA ScoresEvent ==
  ASSUME NEW v, IsView(v), v.snapshot = Null \/ IsRunSnapshot(v.snapshot), NEW e,
         NEW w, w = applyEvent(v, e), e.event = "scores_updated",
         NEW cur, e.iteration = cur, NEW p, e.payload = p,
         NEW overall, overall = numberPayload(p, "overall", 0),
         NEW severity, severity = severityFromPayload(p,
           severitiesFromReviews(Get(v.reviewsByVersion, cur, EmptyMap))),
         NEW score, score = ScoreOf(cur, p.reviews, overall, severity)
  PROVE  /\ Shown(v, w) /\ w.status = v.status /\ w.error = Null
         /\ w.reviewsByVersion = v.reviewsByVersion
         /\ w.scoresByVersion = Put(v.scoresByVersion, cur, score)
         /\ w.revisionPlansBySourceVersion = v.revisionPlansBySourceVersion
         /\ w.outcome = v.outcome /\ w.pendingRevisionPlan = v.pendingRevisionPlan
         /\ LET improved == v.bestScore = Null \/ overall > v.bestScore IN
            /\ w.bestVersion = numberPayload(p, "best_version", IF improved THEN cur ELSE v.bestVersion)
            /\ w.bestScore = numberPayload(p, "best_score", IF improved THEN overall ELSE v.bestScore)
<1> DEFINE n == Logging(v, e)
           version == numberPayload(e.payload, "version", e.iteration)
<1>1. Plain(v, n) /\ n.status = v.status /\ n.error = Null
  BY LoggingIsPlain
<1>2. Applies(n, w, e, version)
  BY AppliedIs
<1> HIDE DEF n, version
<1>3. /\ IsView(n) /\ (n.snapshot = Null \/ IsRunSnapshot(n.snapshot)) /\ StillShows(v.snapshot, n.snapshot)
      /\ n.reviewsByVersion = v.reviewsByVersion /\ n.scoresByVersion = v.scoresByVersion
      /\ n.bestVersion = v.bestVersion /\ n.bestScore = v.bestScore
  BY <1>1 DEF Plain, StillShows
<1> DEFINE snap == withNodeStatus(n.snapshot, "aggregator", "SUCCEEDED")
           scores == Put(v.scoresByVersion, cur, score)
           improved == v.bestScore = Null \/ overall > v.bestScore
           best == numberPayload(p, "best_version", IF improved THEN cur ELSE v.bestVersion)
           top == numberPayload(p, "best_score", IF improved THEN overall ELSE v.bestScore)
<1>4. w = [n EXCEPT !.scoresByVersion = scores, !.bestVersion = best, !.bestScore = top,
                    !.snapshot = snap]
  <2>1. w = ScoresUpdated(n, cur, p)
    BY <1>2 DEF Applies
  <2> HIDE DEF snap
  <2> QED BY <1>3, <2>1 DEF ScoresUpdated, snap
<1>5. StillShows(v.snapshot, snap)
  <2>1. StillShows(n.snapshot, snap)
    BY <1>3, NodeShown DEF Nodes, NodeStatus
  <2> QED BY <1>3, <2>1 DEF StillShows
<1> HIDE DEF snap, scores, best, top
<1>6. /\ IsView(w) /\ w.scoresByVersion = scores /\ w.bestVersion = best /\ w.bestScore = top
      /\ w.snapshot = snap
      /\ \A field \in DOMAIN n \ {"scoresByVersion", "bestVersion", "bestScore", "snapshot"} :
           w[field] = n[field]
  BY <1>3, <1>4, ViewFields DEF IsView
<1>7. {"runId", "pendingControl", "selectionPinned", "selectedVersion", "drafts",
       "reviewsByVersion", "revisionPlansBySourceVersion", "outcome", "status", "error",
       "pendingRevisionPlan"}
         \subseteq DOMAIN n \ {"scoresByVersion", "bestVersion", "bestScore", "snapshot"}
  BY <1>3, ViewFields
<1>8. /\ w.runId = n.runId /\ w.pendingControl = n.pendingControl
      /\ w.selectionPinned = n.selectionPinned /\ w.selectedVersion = n.selectedVersion
      /\ w.drafts = n.drafts /\ w.reviewsByVersion = n.reviewsByVersion
      /\ w.revisionPlansBySourceVersion = n.revisionPlansBySourceVersion
      /\ w.outcome = n.outcome /\ w.status = n.status /\ w.error = n.error
      /\ w.pendingRevisionPlan = n.pendingRevisionPlan
  BY <1>6, <1>7
<1>9. Shown(v, w)
  BY <1>1, <1>5, <1>6, <1>8 DEF Plain, Shown
<1> QED BY <1>1, <1>6, <1>8, <1>9 DEF Plain, scores, best, top

\* The versions with the last of them scored.
HasScore(all, versions, n, ev) ==
  /\ all \in Seq(PRDVersion) /\ Len(all) = n /\ DOMAIN all = 1 .. n
  /\ all[n].version = versions[n].version /\ all[n].content = versions[n].content
  /\ all[n].revision_plan = versions[n].revision_plan /\ all[n].evaluation = ev
  /\ \A i \in 1 .. (n - 1) : all[i] = versions[i]
  /\ Evaluated(all) = Evaluated(versions) \cup {n} /\ n \notin Evaluated(versions)

\* The versions with the last of them evaluated.
LEMMA LastScored ==
  ASSUME NEW versions \in Seq(PRDVersion), NEW n \in Nat \ {0}, n = Len(versions),
         versions[n].evaluation = Null, NEW ev \in EvaluationResult,
         NEW all, all = [versions EXCEPT ![n].evaluation = ev]
  PROVE  HasScore(all, versions, n, ev)
<1>1. DOMAIN versions = 1 .. n /\ versions[n] \in PRDVersion
  BY LenProperties, ElementOfSeq
<1>2. PICK last : last = versions[n]
  OBVIOUS
<1>3. PICK scored : scored = [last EXCEPT !.evaluation = ev]
  OBVIOUS
<1>4. /\ scored \in PRDVersion /\ scored.version = last.version /\ scored.content = last.content
      /\ scored.revision_plan = last.revision_plan /\ scored.evaluation = ev
  BY <1>1, <1>2, <1>3 DEF PRDVersion, Maybe
<1>5. all = [versions EXCEPT ![n] = scored]
  BY <1>2, <1>3
<1>6. all \in Seq(PRDVersion) /\ Len(all) = n /\ all[n] = scored
      /\ \A i \in 1 .. (n - 1) : all[i] = versions[i]
  <2>1. n \in 1 .. Len(versions) /\ scored \in PRDVersion
    BY <1>4
  <2>2. /\ all \in Seq(PRDVersion) /\ Len(all) = Len(versions)
        /\ \A i \in 1 .. Len(versions) : all[i] = IF i = n THEN scored ELSE versions[i]
    BY ONLY <1>5, <2>1, versions \in Seq(PRDVersion), ExceptSeq
  <2>3. n \in 1 .. n /\ \A i \in 1 .. (n - 1) : i \in 1 .. n /\ i # n
    OBVIOUS
  <2> QED BY <2>2, <2>3
<1>7. DOMAIN all = 1 .. n
  BY <1>6, LenProperties
<1>8. Evaluated(all) = Evaluated(versions) \cup {n} /\ n \notin Evaluated(versions)
  <2>1. ev # Null
    BY NullIsNoValue
  <2>2. \A i \in 1 .. n : i = n \/ i \in 1 .. (n - 1)
    OBVIOUS
  <2> QED BY <1>1, <1>4, <1>6, <1>7, <2>1, <2>2 DEF Evaluated
<1> QED BY <1>2, <1>4, <1>6, <1>7, <1>8 DEF HasScore

\* The run's data with the round scored.
WithScore(s, t, ev, best) ==
  /\ t.run_id = s.run_id /\ t.current_iteration = s.current_iteration
  /\ t.max_iterations = s.max_iterations /\ t.quality_threshold = s.quality_threshold
  /\ HasScore(t.versions, s.versions, s.current_iteration, ev)
  /\ t.current_prd = s.current_prd /\ t.current_prd_attempt = s.current_prd_attempt
  /\ t.latest_evaluation = ev
  /\ t.best_version = best.version /\ t.best_score = best.score
  /\ t.reviews = s.reviews /\ t.pending_revision_plan = s.pending_revision_plan
  /\ t.status = s.status /\ t.error = s.error
  /\ t.latest_event_sequence = s.latest_event_sequence

\* The best version so far, as the aggregator finds it.
IsNewBest(best, s, ev) ==
  IF setup.legacy THEN best.version = Null /\ best.score = Null
  ELSE IF s.best_score = Null \/ ev.overall_score > s.best_score
       THEN best.version = s.current_iteration /\ best.score = ev.overall_score
       ELSE best.version = s.best_version /\ best.score = s.best_score

\* The pointer the aggregator sets is to a version that scored highest.
LEMMA NewBestIs ==
  ASSUME NEW s, SnapshotOK(s), UnderReview(s), NEW ev, IsEvaluation(ev),
         NEW best, IsNewBest(best, s, ev), NEW t, WithScore(s, t, ev, best)
  PROVE  /\ BestIsTheBest(t)
         /\ ~setup.legacy => best.version \in Nat /\ best.score \in Nat
<1> DEFINE cur == s.current_iteration
           E == Evaluated(s.versions)
           T == Evaluated(t.versions)
           total == ev.overall_score
           score(i) == s.versions[i].evaluation.overall_score
           now(i) == t.versions[i].evaluation.overall_score
<1>1. /\ cur \in Nat \ {0} /\ Len(s.versions) = cur /\ DOMAIN s.versions = 1 .. cur
      /\ T = E \cup {cur} /\ cur \notin E /\ cur \in T /\ T # {}
      /\ E \subseteq 1 .. (cur - 1) /\ T \subseteq Nat
  <2>1. E \subseteq 1 .. cur
    BY VersionsAre
  <2>2. cur \in Nat \ {0} /\ Len(s.versions) = cur /\ DOMAIN s.versions = 1 .. cur
    BY VersionsAre DEF UnderReview
  <2>3. T = E \cup {cur} /\ cur \notin E
    BY DEF WithScore, HasScore
  <2> QED BY <2>1, <2>2, <2>3
<1>2. total \in Nat
  BY EvaluationCounts
<1>3. now(cur) = total /\ \A i \in E : now(i) = score(i) /\ score(i) \in Nat
  <2>1. \A i \in E : score(i) \in Nat
    BY VersionsAre, EvaluationCounts
  <2> QED BY <1>1, <2>1 DEF WithScore, HasScore
<1>4. t.best_version = best.version /\ t.best_score = best.score
  BY DEF WithScore
<1> HIDE DEF T, E, now, score, cur, total
<1>5. ASSUME ~setup.legacy
      PROVE  /\ t.best_version \in T /\ t.best_score = now(t.best_version)
             /\ \A i \in T : now(i) <= t.best_score
             /\ t.best_score \in Nat
  <2>1. IF E = {} THEN s.best_score = Null
        ELSE /\ s.best_version \in E /\ s.best_score = score(s.best_version)
             /\ \A i \in E : score(i) <= s.best_score
    BY <1>5 DEF SnapshotOK, BestIsTheBest, E, score
  <2>2. CASE s.best_score = Null \/ total > s.best_score
    <3>1. t.best_version = cur /\ t.best_score = total
      BY <1>4, <1>5, <2>2 DEF IsNewBest, cur, total
    <3>2. ASSUME NEW i \in E PROVE now(i) <= total
      <4>1. s.best_score \in Nat /\ score(i) <= s.best_score
        BY <1>3, <2>1, <3>2
      <4>2. s.best_score # Null
        BY <4>1, NullIsNoValue
      <4> QED BY <1>2, <1>3, <2>2, <4>1, <4>2
    <3> QED BY <1>1, <1>2, <1>3, <3>1, <3>2
  <2>3. CASE ~(s.best_score = Null \/ total > s.best_score)
    <3>1. t.best_version = s.best_version /\ t.best_score = s.best_score
      BY <1>4, <1>5, <2>3 DEF IsNewBest, cur, total
    <3>2. E # {} /\ s.best_score \in Nat /\ s.best_version \in E
      BY <1>3, <2>1, <2>3
    <3>3. total <= s.best_score
      BY <1>2, <2>3, <3>2
    <3> QED BY <1>1, <1>3, <2>1, <3>1, <3>2, <3>3
  <2> QED BY <2>2, <2>3
<1>6. BestIsTheBest(t)
  <2>1. CASE setup.legacy
    BY <1>4, <2>1 DEF BestIsTheBest, IsNewBest
  <2>2. CASE ~setup.legacy
    <3>1. /\ t.best_version \in Evaluated(t.versions)
          /\ t.best_score = t.versions[t.best_version].evaluation.overall_score
          /\ \A i \in Evaluated(t.versions) : t.versions[i].evaluation.overall_score <= t.best_score
          /\ Evaluated(t.versions) # {}
      BY <1>1, <1>5, <2>2 DEF T, now
    <3> QED BY <2>2, <3>1 DEF BestIsTheBest
  <2> QED BY <2>1, <2>2
<1>7. ~setup.legacy => best.version \in Nat /\ best.score \in Nat
  BY <1>1, <1>4, <1>5
<1> QED BY <1>6, <1>7

\* A snapshot with its scores stays well formed.
LEMMA ScoredIsOK ==
  ASSUME NEW s, SnapshotOK(s), s.status \notin Ended, UnderReview(s),
         NEW ev, IsEvaluation(ev), ev.reviews = s.reviews,
         NEW best, IsNewBest(best, s, ev), NEW t, HasTypes(t), WithScore(s, t, ev, best)
  PROVE  SnapshotOK(t) /\ ~IsStarted(t)
<1> DEFINE cur == s.current_iteration
<1>1. /\ cur \in Nat \ {0} /\ Len(s.versions) = cur /\ DOMAIN s.versions = 1 .. cur
      /\ t.current_iteration = cur /\ Len(t.versions) = cur /\ DOMAIN t.versions = 1 .. cur
      /\ \A i \in 1 .. (cur - 1) : t.versions[i] = s.versions[i]
      /\ t.versions[cur].version = s.versions[cur].version
      /\ t.versions[cur].content = s.versions[cur].content
      /\ t.versions[cur].revision_plan = s.versions[cur].revision_plan
      /\ t.versions[cur].evaluation = ev
  BY VersionsAre DEF UnderReview, WithScore, HasScore
<1>2. ev # Null
  BY EvaluationCounts
<1> HIDE DEF cur
<1>3. VersionsAreInOrder(t)
  <2>1. VersionsAreInOrder(s)
    BY DEF SnapshotOK
  <2>2. \A i \in 1 .. cur : i = cur \/ i \in 1 .. (cur - 1)
    BY <1>1
  <2>3. \A i \in DOMAIN t.versions : IsVersion(t.versions[i], i)
    BY <1>1, <2>1, <2>2 DEF VersionsAreInOrder, IsVersion
  <2>4. ASSUME NEW i \in DOMAIN t.versions, i < t.current_iteration
        PROVE  t.versions[i].evaluation # Null
    <3>1. i \in 1 .. (cur - 1) /\ i \in DOMAIN s.versions /\ i < cur
      BY <1>1, <2>4
    <3> QED BY <1>1, <2>1, <3>1 DEF VersionsAreInOrder, cur
  <2>5. t.pending_revision_plan = Null
    BY <1>1, <2>1 DEF VersionsAreInOrder, WithScore, cur
  <2> QED BY <1>1, <2>3, <2>4, <2>5 DEF VersionsAreInOrder
<1>4. ReviewsAreOfTheVersion(t)
  <2>1. IsClean(t.reviews) /\ t.reviews = s.reviews /\ t.latest_evaluation = ev
    BY DEF SnapshotOK, ReviewsAreOfTheVersion, WithScore
  <2> QED BY <1>1, <2>1 DEF ReviewsAreOfTheVersion
<1>5. BestIsTheBest(t)
  BY NewBestIs
<1>6. TextIsOfOneAttempt(t) /\ ~IsStarted(t)
  BY <1>1 DEF SnapshotOK, TextIsOfOneAttempt, IsStarted, WithScore, cur
<1>7. EndIsJust(t)
  BY DEF WithScore, SnapshotOK, EndIsJust
<1>8. IsRunSnapshot(t)
  BY SnapshotTypes
<1>9. t.run_id = RunId /\ t.current_prd_attempt \in {1, 2}
  BY DEF SnapshotOK, WithScore
<1> QED BY <1>3, <1>4, <1>5, <1>6, <1>7, <1>8, <1>9 DEF SnapshotOK

\* A page that knows the run's data knows it with the round scored too.
LEMMA ScoredIsKnown ==
  ASSUME NEW s, SnapshotOK(s), s.status \notin Ended, UnderReview(s), DOMAIN s.reviews = Roles,
         NEW v, Knows(v, s), NEW ev, IsEvaluation(ev), ev.reviews = s.reviews,
         NEW best, IsNewBest(best, s, ev), NEW t, SnapshotOK(t), HasTypes(t),
         WithScore(s, t, ev, best), t.error = Null, NEW cur, cur = s.current_iteration, NEW total, total = ev.overall_score,
         NEW w, Shown(v, w), w.status = v.status, w.error = Null,
         w.reviewsByVersion = v.reviewsByVersion,
         w.scoresByVersion = Put(v.scoresByVersion, cur,
           ScoreOf(cur, ev.reviews, total, severitiesFromEvaluation(ev))),
         w.revisionPlansBySourceVersion = v.revisionPlansBySourceVersion,
         w.outcome = v.outcome, w.pendingRevisionPlan = v.pendingRevisionPlan,
         IF setup.legacy
         THEN LET improved == v.bestScore = Null \/ total > v.bestScore IN
              /\ w.bestVersion = IF improved THEN cur ELSE v.bestVersion
              /\ w.bestScore = IF improved THEN total ELSE v.bestScore
         ELSE w.bestVersion = best.version /\ w.bestScore = best.score
  PROVE  Knows(w, t)
<1> DEFINE E == Evaluated(s.versions)
           T == Evaluated(t.versions)
<1>1. /\ cur \in Nat \ {0} /\ Len(s.versions) = cur /\ DOMAIN s.versions = 1 .. cur
      /\ t.current_iteration = cur /\ Len(t.versions) = cur /\ DOMAIN t.versions = 1 .. cur
      /\ \A i \in 1 .. (cur - 1) : t.versions[i] = s.versions[i]
      /\ t.versions[cur].version = s.versions[cur].version
      /\ t.versions[cur].content = s.versions[cur].content
      /\ t.versions[cur].revision_plan = s.versions[cur].revision_plan
      /\ t.versions[cur].evaluation = ev /\ t.reviews = s.reviews /\ t.status = s.status
      /\ t.pending_revision_plan = s.pending_revision_plan
      /\ t.best_version = best.version /\ t.best_score = best.score
      /\ T = E \cup {cur} /\ cur \notin E
  BY VersionsAre DEF UnderReview, WithScore, HasScore
<1>2. E \subseteq 1 .. (cur - 1) /\ (\A i \in E : i # cur) /\ total \in Nat
  <2>1. E \subseteq 1 .. cur
    BY VersionsAre
  <2> QED BY <1>1, <2>1, EvaluationCounts
<1>3. \A i \in 1 .. cur : i = cur \/ i \in 1 .. (cur - 1)
  BY <1>1
<1> HIDE DEF E, T
<1>4. HasDrafts(w.drafts, t)
  <2>1. HasDrafts(v.drafts, s) /\ w.drafts = v.drafts /\ ~IsStarted(s) /\ ~IsStarted(t)
    BY <1>1 DEF Knows, Shown, IsStarted
  <2>2. \A i \in 1 .. cur : t.versions[i].content = s.versions[i].content
    BY <1>1, <1>3
  <2>3. HasVersions(w.drafts, t)
    BY <1>1, <2>1, <2>2 DEF HasDrafts, HasVersions
  <2>4. HasRest(w.drafts, t)
    BY <1>1, <2>1 DEF HasDrafts, HasRest
  <2> QED BY <2>3, <2>4 DEF HasDrafts
<1>5. w.reviewsByVersion = ReviewsOf(t)
  <2> DEFINE d == {c \in {cur} : DOMAIN s.reviews # {}}
             old(x) == Normalized(IF x = cur THEN s.reviews ELSE s.versions[x].evaluation.reviews)
             new(x) == Normalized(IF x = cur THEN s.reviews ELSE t.versions[x].evaluation.reviews)
  <2>1. ReviewsOf(s) = [x \in E \cup d |-> old(x)]
    BY <1>1 DEF ReviewsOf, E
  <2>2. ReviewsOf(t) = [x \in T \cup d |-> new(x)]
    BY <1>1 DEF ReviewsOf, T
  <2>3. T \cup d = E \cup {cur} /\ E \cup d = E \cup {cur}
    BY <1>1, RolesAssumption
  <2>4. \A x \in E \cup {cur} : old(x) = new(x)
    BY <1>1, <1>2
  <2> HIDE DEF old, new, d
  <2> QED BY <2>1, <2>2, <2>3, <2>4 DEF Knows
<1>6. w.scoresByVersion = ScoresOf(t.versions)
  <2> DEFINE of(version, i) == ScoreOf(i, version.evaluation.reviews, version.evaluation.overall_score,
                                       severitiesFromEvaluation(version.evaluation))
             score == ScoreOf(cur, ev.reviews, total, severitiesFromEvaluation(ev))
  <2>1. v.scoresByVersion = [i \in E |-> of(s.versions[i], i)]
    BY DEF Knows, ScoresOf, E
  <2>2. ScoresOf(t.versions) = [i \in T |-> of(t.versions[i], i)]
    BY DEF ScoresOf, T
  <2>3. of(t.versions[cur], cur) = score
    BY <1>1
  <2>4. \A i \in E : t.versions[i] = s.versions[i]
    BY <1>1, <1>2
  <2> HIDE DEF of, score
  <2>5. w.scoresByVersion = Put(v.scoresByVersion, cur, score)
    BY DEF score
  <2>6. Put(v.scoresByVersion, cur, score) =
          [i \in T |-> IF i = cur THEN score ELSE v.scoresByVersion[i]]
    BY <1>1, <2>1 DEF Put
  <2>7. \A i \in T : of(t.versions[i], i) = IF i = cur THEN score ELSE v.scoresByVersion[i]
    BY <1>1, <2>1, <2>3, <2>4
  <2> QED BY <2>2, <2>5, <2>6, <2>7
<1>7. HasPlans(w.revisionPlansBySourceVersion, t)
  <2>1. ASSUME NEW x \in 1 .. (cur - 1)
        PROVE  PlanAfter(t, x) = PlanAfter(s, x)
    <3>1. x + 1 \in 1 .. cur
      BY <1>1
    <3>2. t.versions[x + 1].revision_plan = s.versions[x + 1].revision_plan
      BY <1>1, <1>3, <3>1
    <3> QED BY <1>1, <3>1, <3>2 DEF PlanAfter
  <2>2. PlansOf(t) = [x \in 1 .. (cur - 1) |-> Placed(PlanAfter(t, x), x, x + 1)]
    BY <1>1 DEF PlansOf
  <2>3. PlansOf(s) = [x \in 1 .. (cur - 1) |-> Placed(PlanAfter(s, x), x, x + 1)]
    BY DEF PlansOf
  <2>4. HasPlans(v.revisionPlansBySourceVersion, s)
    BY DEF Knows
  <2>5. PlansOf(t) = PlansOf(s)
    BY <2>1, <2>2, <2>3
  <2>6. PlansAreNumbered(t) => PlansAreNumbered(s)
    <3>1. \A i \in 1 .. cur : t.versions[i].revision_plan = s.versions[i].revision_plan
      BY <1>1, <1>3
    <3>2. /\ PlansAreNumbered(t) <=>
               /\ \A i \in 1 .. cur : IsNumbered(t.versions[i].revision_plan, i)
               /\ IsNumbered(t.pending_revision_plan, cur)
          /\ PlansAreNumbered(s) <=>
               /\ \A i \in 1 .. cur : IsNumbered(s.versions[i].revision_plan, i)
               /\ IsNumbered(s.pending_revision_plan, cur)
      BY <1>1, NumberedPlans
    <3> QED BY <1>1, <3>1, <3>2
  <2> QED BY <1>1, <2>4, <2>5, <2>6 DEF HasPlans
<1>8. HasBest(w, t)
  <2>1. CASE ~setup.legacy
    BY <1>1, <2>1 DEF HasBest
  <2>2. CASE setup.legacy
    <3> DEFINE best1 == [version |-> v.bestVersion, score |-> v.bestScore]
               best2 == [version |-> w.bestVersion, score |-> w.bestScore]
               score(i) == s.versions[i].evaluation.overall_score
               now(i) == t.versions[i].evaluation.overall_score
    <3>1. IsBest(best1, s)
      BY <2>2 DEF Knows, HasBest
    <3>2. IF E = {} THEN v.bestVersion = Null /\ v.bestScore = Null
          ELSE /\ v.bestVersion \in E /\ v.bestScore = score(v.bestVersion)
               /\ \A i \in E : score(i) <= v.bestScore
               /\ \A i \in E : score(i) = v.bestScore => v.bestVersion <= i
      BY <2>2, <3>1 DEF IsBest, E, ScoreAt
    <3>3. now(cur) = total /\ \A i \in E : now(i) = score(i) /\ score(i) \in Nat
      <4>1. \A i \in E : score(i) \in Nat
        BY VersionsAre, EvaluationCounts DEF E
      <4> QED BY <1>1, <1>2, <4>1
    <3>4. \A i \in E : i \in Nat /\ i < cur
      BY <1>1, <1>2
    <3> HIDE DEF score, now
    <3>5. /\ w.bestVersion \in T /\ w.bestScore = now(w.bestVersion)
          /\ \A i \in T : now(i) <= w.bestScore
          /\ \A i \in T : now(i) = w.bestScore => w.bestVersion <= i
      <4>1. CASE E = {}
        <5>1. w.bestVersion = cur /\ w.bestScore = total /\ T = {cur}
          BY <1>1, <2>2, <3>2, <4>1
        <5> QED BY <1>1, <1>2, <3>3, <5>1
      <4>2. CASE E # {} /\ total > v.bestScore
        <5>1. w.bestVersion = cur /\ w.bestScore = total /\ cur \in T
          BY <1>1, <2>2, <4>2
        <5>2. ASSUME NEW i \in E PROVE now(i) < total
          <6>1. v.bestScore \in Nat /\ score(i) <= v.bestScore /\ score(i) \in Nat /\ now(i) = score(i)
            BY <3>2, <3>3, <4>2
          <6> QED BY <1>2, <4>2, <6>1
        <5> QED BY <1>1, <1>2, <3>3, <5>1, <5>2
      <4>3. CASE E # {} /\ ~(total > v.bestScore)
        <5>1. v.bestScore \in Nat /\ v.bestVersion \in E /\ v.bestScore # Null
          BY <3>2, <3>3, <4>3, NullIsNoValue
        <5>2. w.bestVersion = v.bestVersion /\ w.bestScore = v.bestScore
          BY <2>2, <4>3, <5>1
        <5>3. total <= v.bestScore
          BY <1>2, <4>3, <5>1
        <5> QED BY <1>1, <3>2, <3>3, <3>4, <4>3, <5>1, <5>2, <5>3
      <4> QED BY <4>1, <4>2, <4>3
    <3>6. T # {}
      BY <1>1
    <3>7. IsBest(best2, t)
      BY <3>5, <3>6 DEF IsBest, T, now, ScoreAt
    <3> QED BY <2>2, <3>7 DEF HasBest
  <2> QED BY <2>1, <2>2
<1>9. OutcomeAgrees(w, t)
  BY <1>1, OutcomeOpen DEF Knows
<1>10. w.snapshot # Null => IsEarlier(w.snapshot, t)
  BY <1>1 DEF Knows, Shown, StillShows, IsEarlier
<1>11. w.pendingRevisionPlan # Null => t.current_iteration > 1
  BY <1>1 DEF Knows
<1>12. w.status = t.status /\ w.error = t.error
  BY <1>1 DEF Knows
<1> QED BY <1>4, <1>5, <1>6, <1>7, <1>8, <1>9, <1>10, <1>11, <1>12 DEF Knows

\* What a payload of this server has of a record: an old one lacks four of the fields.
LEMMA SinceIs ==
  ASSUME NEW payload
  PROVE  /\ ~setup.legacy => Since(payload) = payload
         /\ setup.legacy =>
              DOMAIN Since(payload) = DOMAIN payload \ {"severity_counts", "quality_gate_passed",
                                                        "best_version", "best_score"}
         /\ \A key \in DOMAIN Since(payload) : Since(payload)[key] = payload[key]
BY DEF Since

\* What scores_updated says.
LEMMA ScoresPayloadIs ==
  ASSUME Evaluation.overall_score \in Nat, IsEvaluation(Evaluation),
         ~setup.legacy => Best.version \in Nat /\ Best.score \in Nat,
         NEW p, p = ScoresPayload
  PROVE  /\ p.reviews = Evaluation.reviews /\ TellsSeverity(p)
         /\ numberPayload(p, "overall", 0) = Evaluation.overall_score
         /\ \A other :
              /\ numberPayload(p, "best_version", other) = IF setup.legacy THEN other ELSE Best.version
              /\ numberPayload(p, "best_score", other) = IF setup.legacy THEN other ELSE Best.score
<1> DEFINE overall == Evaluation.overall_score
           counts == SeverityCounts(Evaluation)
           reviews == Evaluation.reviews
           passed == GatePassed
           all == [reviews |-> reviews, overall |-> overall,
                   version |-> snapshot.current_iteration, best_version |-> Best.version,
                   best_score |-> Best.score, severity_counts |-> counts,
                   quality_gate_passed |-> passed]
<1>1. p = Since(all)
  BY DEF ScoresPayload
<1> HIDE DEF overall, counts, reviews, passed
<1>2. DOMAIN all = {"reviews", "overall", "version", "best_version", "best_score",
                    "severity_counts", "quality_gate_passed"}
  OBVIOUS
<1>3. /\ all.reviews = reviews /\ all.overall = overall /\ all.best_version = Best.version
      /\ all.best_score = Best.score /\ all["severity_counts"] = counts
  OBVIOUS
<1> HIDE DEF all
<1>4. /\ ~setup.legacy => DOMAIN p = DOMAIN all
      /\ setup.legacy => DOMAIN p = {"reviews", "overall", "version"}
      /\ \A key \in DOMAIN p : p[key] = all[key]
  <2>1. /\ ~setup.legacy => p = all
        /\ setup.legacy =>
             DOMAIN p = DOMAIN all \ {"severity_counts", "quality_gate_passed",
                                      "best_version", "best_score"}
        /\ \A key \in DOMAIN p : p[key] = all[key]
    BY <1>1, SinceIs
  <2>2. DOMAIN all \ {"severity_counts", "quality_gate_passed", "best_version", "best_score"}
          = {"reviews", "overall", "version"}
    BY <1>2
  <2> QED BY <2>1, <2>2
<1>5. p.reviews = reviews /\ p.overall = overall /\ "overall" \in DOMAIN p
  BY <1>2, <1>3, <1>4
<1>6. numberPayload(p, "overall", 0) = overall
  BY <1>5, NullIsNoValue DEF numberPayload, Sent, overall
<1>7. TellsSeverity(p)
  <2>1. CASE setup.legacy
    BY <1>4, <2>1 DEF TellsSeverity
  <2>2. CASE ~setup.legacy
    BY <1>2, <1>3, <1>4, <2>2 DEF TellsSeverity, counts
  <2> QED BY <2>1, <2>2
<1>8. ASSUME NEW other
      PROVE  /\ numberPayload(p, "best_version", other) = IF setup.legacy THEN other ELSE Best.version
             /\ numberPayload(p, "best_score", other) = IF setup.legacy THEN other ELSE Best.score
  <2>1. CASE setup.legacy
    BY <1>4, <2>1 DEF numberPayload, Sent
  <2>2. CASE ~setup.legacy
    BY <1>2, <1>3, <1>4, <2>2, NullIsNoValue DEF numberPayload, Sent
  <2> QED BY <2>1, <2>2
<1> QED BY <1>5, <1>6, <1>7, <1>8 DEF reviews, overall

\* The round is scored, and the workflow has not gone on yet.
RoundScored(t) ==
  /\ t.status \notin TerminalStatuses /\ t.status # "PAUSED" /\ t.error = Null
  /\ t.current_iteration = snapshot.current_iteration /\ t.current_iteration = Len(t.versions)
  /\ t.max_iterations = snapshot.max_iterations
  /\ t.quality_threshold = snapshot.quality_threshold
  /\ t.latest_evaluation = Evaluation /\ t.versions[Len(t.versions)].evaluation = Evaluation
  /\ t.best_version = Best.version /\ t.best_score = Best.score

\* The scores of a round keep server and pages together.
LEMMA ScoringKeeps ==
  ASSUME ProjectionInv, phase = "reviewing", DOMAIN snapshot.reviews = Roles,
         NEW begun, begun = MarkRunning(SetStage(Started, "AGGREGATING"), "aggregator"),
         NEW at, at = Commit(begun, Scored(begun[1]), "scores_updated", ScoresPayload)
  PROVE  /\ Good(at) /\ RoundScored(at[1]) /\ IsEvaluation(Evaluation)
         /\ ~setup.legacy => Best.version \in Nat /\ Best.score \in Nat
<1>1. /\ Good(Started) /\ Started[1] = snapshot /\ AtPhase(snapshot, phase) /\ snapshot.error = Null
      /\ snapshot.status \notin TerminalStatuses /\ setup \in Setups
      /\ HasTypes(snapshot) /\ SnapshotOK(snapshot)
  BY StretchBegins
<1>2. PICK staged : staged = SetStage(Started, "AGGREGATING")
  OBVIOUS
<1>3. /\ Good(staged) /\ SameData(snapshot, staged[1]) /\ staged[1].status \notin TerminalStatuses
      /\ staged[1].status \in {snapshot.status, "AGGREGATING"}
  BY <1>1, <1>2, SetStageKeeps DEF PausableStatuses
<1>4. Good(begun) /\ SameData(staged[1], begun[1]) /\ begun[1].status = staged[1].status
  BY <1>2, <1>3, MarkRunningKeeps DEF Nodes
<1> DEFINE s == begun[1]
           cur == s.current_iteration
           done == Succeed(s, "aggregator")
           ev == Evaluation
           t == Scored(s)
           v == PageAt(begun)
           p == ScoresPayload
           e == EventOf(begun, t, "scores_updated", p)
           w == applyEvent(v, e)
<1>5. /\ PageOK(v) /\ IsView(v) /\ Knows(v, s) /\ (v.snapshot = Null \/ IsRunSnapshot(v.snapshot))
      /\ HasTypes(s) /\ SnapshotOK(s)
  BY <1>4, PageAtIs
<1>6. SameData(snapshot, s) /\ s.status \notin TerminalStatuses /\ s.status # "PAUSED"
  <2>1. snapshot.status # "PAUSED"
    BY <1>1 DEF AtPhase
  <2> QED BY <1>3, <1>4, <2>1, SameDataTwice
<1>7. /\ IsEvaluation(ev) /\ ev.reviews = s.reviews /\ ev.overall_score \in Nat /\ ev # Null
      /\ DOMAIN s.reviews = Roles
  BY <1>1, <1>6, EvaluationIs DEF SameData, SameDocument
<1>8. s.error = Null
  BY <1>5, <1>6 DEF SnapshotOK, EndIsJust, TerminalStatuses
<1>9. s.status \notin Ended /\ UnderReview(s)
  BY <1>1, <1>6 DEF Ended, TerminalStatuses, AtPhase, UnderReview, SameData, SameDocument
<1>10. cur \in Nat \ {0} /\ Len(s.versions) = cur /\ s.versions \in Seq(PRDVersion)
       /\ s.versions[cur].evaluation = Null
  BY <1>5, <1>9, VersionsAre DEF UnderReview, HasTypes
<1>11. IsNewBest(Best, s, ev)
  BY <1>6 DEF IsNewBest, Best, Improved, SameData, SameDocument
<1>12. HasTypes(done) /\ SameData(s, done) /\ done.status = s.status /\ done.error = s.error
  BY <1>5, SucceedIs DEF Nodes
<1>13. PICK all : all = [done.versions EXCEPT ![cur].evaluation = ev]
  OBVIOUS
<1>14. HasScore(all, s.versions, cur, ev)
  <2>1. done.versions = s.versions /\ ev \in EvaluationResult
    BY <1>7, <1>12 DEF SameData, SameDocument, IsEvaluation
  <2> HIDE DEF s, cur, ev, done
  <2> QED BY <1>10, <1>13, <2>1, LastScored
<1>15. PICK best : best = Best
  OBVIOUS
<1>16. t = [done EXCEPT !.latest_evaluation = ev, !.versions = all,
                        !.best_version = best.version, !.best_score = best.score]
  BY <1>10, <1>13, <1>15 DEF Scored
<1>17. best.version \in Maybe(Nat) /\ best.score \in Maybe(Nat)
  <2>1. s.best_version \in Maybe(Nat) /\ s.best_score \in Maybe(Nat)
    BY <1>5 DEF HasTypes
  <2> QED BY <1>7, <1>10, <1>11, <1>15, <2>1 DEF IsNewBest, Maybe
<1> HIDE DEF done
<1>18. HasTypes(t) /\ WithScore(s, t, ev, best)
  <2> HIDE DEF t, s, cur, ev
  <2>1. all \in Seq(PRDVersion) /\ ev \in EvaluationResult
    BY <1>7, <1>14 DEF HasScore, IsEvaluation
  <2>2. HasTypes(t)
    BY <1>12, <1>16, <1>17, <2>1 DEF HasTypes, SnapshotFields, Maybe
  <2>3. /\ t.latest_evaluation = ev /\ t.versions = all
        /\ t.best_version = best.version /\ t.best_score = best.score
        /\ \A field \in SnapshotFields \ {"latest_evaluation", "versions", "best_version", "best_score"} :
             t[field] = done[field]
    BY <1>12, <1>16 DEF HasTypes, SnapshotFields
  <2>4. {"run_id", "current_iteration", "max_iterations", "quality_threshold", "current_prd",
         "current_prd_attempt", "reviews", "pending_revision_plan", "status", "error",
         "latest_event_sequence"}
           \subseteq SnapshotFields \ {"latest_evaluation", "versions", "best_version", "best_score"}
    BY DEF SnapshotFields
  <2>5. /\ t.run_id = done.run_id /\ t.current_iteration = done.current_iteration
        /\ t.max_iterations = done.max_iterations /\ t.quality_threshold = done.quality_threshold
        /\ t.current_prd = done.current_prd /\ t.current_prd_attempt = done.current_prd_attempt
        /\ t.reviews = done.reviews /\ t.pending_revision_plan = done.pending_revision_plan
        /\ t.status = done.status /\ t.error = done.error
        /\ t.latest_event_sequence = done.latest_event_sequence
    BY <2>3, <2>4
  <2> QED BY <1>12, <1>14, <2>2, <2>3, <2>5 DEF WithScore, SameData, SameDocument, cur
<1>19. /\ e.event = "scores_updated" /\ e.payload = p /\ e.iteration = t.current_iteration
  BY DEF EventOf
<1> HIDE DEF t, e, v, w
<1>20. SnapshotOK(t) /\ ~IsStarted(t)
  <2> HIDE DEF s, ev
  <2> QED BY <1>5, <1>7, <1>9, <1>11, <1>15, <1>18, ScoredIsOK
<1>21. ~setup.legacy => Best.version \in Nat /\ Best.score \in Nat
  <2> HIDE DEF s, ev
  <2> QED BY <1>5, <1>7, <1>9, <1>11, <1>15, <1>18, NewBestIs
<1>22. e.iteration = cur
  BY <1>18, <1>19 DEF WithScore
<1>23. /\ p.reviews = ev.reviews /\ TellsSeverity(p)
       /\ numberPayload(p, "overall", 0) = ev.overall_score
       /\ \A other :
            /\ numberPayload(p, "best_version", other) = IF setup.legacy THEN other ELSE Best.version
            /\ numberPayload(p, "best_score", other) = IF setup.legacy THEN other ELSE Best.score
  BY <1>7, <1>21, ScoresPayloadIs
<1> DEFINE total == ev.overall_score
           severity == severitiesFromEvaluation(ev)
           score == ScoreOf(cur, ev.reviews, total, severity)
<1>24. severity = severityFromPayload(p, severitiesFromReviews(Get(v.reviewsByVersion, cur, EmptyMap)))
  <2>1. v.reviewsByVersion = ReviewsOf(s)
    BY <1>5 DEF Knows
  <2>2. DOMAIN s.reviews # {}
    BY <1>7, RolesAssumption
  <2>3. cur \in DOMAIN ReviewsOf(s) /\ ReviewsOf(s)[cur] = Normalized(s.reviews)
    <3> HIDE DEF s
    <3> QED BY <2>2 DEF ReviewsOf
  <2>4. Get(v.reviewsByVersion, cur, EmptyMap) = Normalized(ev.reviews)
    <3> HIDE DEF s, cur, ev
    <3> QED BY <1>7, <2>1, <2>3 DEF Get
  <2>5. severityFromPayload(p, severitiesFromReviews(Normalized(ev.reviews))) = severity
    BY <1>7, <1>23, SeverityIs
  <2> QED BY <2>4, <2>5
<1>25. /\ Shown(v, w) /\ w.status = v.status /\ w.error = Null
       /\ w.reviewsByVersion = v.reviewsByVersion
       /\ w.scoresByVersion = Put(v.scoresByVersion, cur, score)
       /\ w.revisionPlansBySourceVersion = v.revisionPlansBySourceVersion
       /\ w.outcome = v.outcome /\ w.pendingRevisionPlan = v.pendingRevisionPlan
       /\ LET improved == v.bestScore = Null \/ total > v.bestScore IN
          /\ w.bestVersion = numberPayload(p, "best_version", IF improved THEN cur ELSE v.bestVersion)
          /\ w.bestScore = numberPayload(p, "best_score", IF improved THEN total ELSE v.bestScore)
  <2>1. w = applyEvent(v, e)
    BY DEF w
  <2>2. /\ total = numberPayload(p, "overall", 0)
        /\ score = ScoreOf(cur, p.reviews, total, severity)
    BY <1>23
  <2> HIDE DEF cur, p, total, severity, score
  <2> QED BY ONLY <1>5, <1>19, <1>22, <1>24, <2>1, <2>2, ScoresEvent
<1>26. IF setup.legacy
       THEN LET improved == v.bestScore = Null \/ total > v.bestScore IN
            /\ w.bestVersion = IF improved THEN cur ELSE v.bestVersion
            /\ w.bestScore = IF improved THEN total ELSE v.bestScore
       ELSE w.bestVersion = best.version /\ w.bestScore = best.score
  <2> HIDE DEF cur, p, total, score
  <2> QED BY <1>15, <1>23, <1>25
<1>27. t.error = Null /\ t.status = s.status /\ t.current_iteration = cur
       /\ t.latest_event_sequence = s.latest_event_sequence
  BY <1>8, <1>18 DEF WithScore
<1>28. Knows(w, t)
  <2>1. PICK now, sum : now = cur /\ sum = total
    OBVIOUS
  <2> HIDE DEF s, ev
  <2> QED BY <1>5, <1>7, <1>9, <1>11, <1>15, <1>18, <1>20, <1>25, <1>26, <1>27, <2>1, ScoredIsKnown DEF s
<1>29. PageOK(w)
  <2>1. w.reviewsByVersion = ReviewsOf(t)
    BY <1>28 DEF Knows
  <2>2. w.status \in RunStatuses
    BY <1>18, <1>28 DEF Knows, HasTypes
  <2> QED BY <1>5, <1>20, <1>25, <2>1, <2>2, ReviewsAreCounted, ShownPageOK
<1>30. Good(at) /\ at[1] = t
  <2>1. w = applyEvent(PageAt(begun), EventOf(begun, t, "scores_updated", p))
    BY DEF w, v, e
  <2>2. at = Commit(begun, t, "scores_updated", p)
    BY DEF t
  <2> QED BY <1>4, <1>6, <1>20, <1>27, <1>28, <1>29, <2>1, <2>2, CommitKeeps, CommitIs
<1>31. RoundScored(t)
  <2>1. cur = snapshot.current_iteration /\ s.max_iterations = snapshot.max_iterations
        /\ s.quality_threshold = snapshot.quality_threshold
    BY <1>6 DEF SameData, SameDocument
  <2>2. Len(t.versions) = cur /\ t.versions[cur].evaluation = ev
    BY <1>18 DEF WithScore, HasScore
  <2> QED BY <1>6, <1>15, <1>18, <1>27, <2>1, <2>2 DEF RoundScored, WithScore
<1> QED BY <1>7, <1>21, <1>30, <1>31

\* What run_completed and max_iterations_reached say.
EndPayload(target) ==
  [k \in {"current"} \cup DOMAIN Outcome |-> IF k = "current" THEN target ELSE Outcome[k]]

OutcomeFields ==
  {"final_version", "best_version", "best_score", "quality_threshold", "completed_iterations",
   "max_iterations", "threshold_met", "quality_gate_passed", "severity_counts"}

\* What the events that end a run say, of this server and of an old one.
LEMMA EndPayloadIs ==
  ASSUME NEW target, NEW p, p = EndPayload(target)
  PROVE  /\ ~setup.legacy => OutcomeFields \subseteq DOMAIN p
         /\ setup.legacy => DOMAIN p = {"current", "final_version", "quality_threshold",
                                        "completed_iterations", "max_iterations", "threshold_met"}
         /\ p["final_version"] = snapshot.current_iteration
         /\ p["quality_threshold"] = snapshot.quality_threshold
         /\ p["completed_iterations"] = snapshot.current_iteration
         /\ p["max_iterations"] = snapshot.max_iterations
         /\ ~setup.legacy =>
              /\ p["best_version"] = Best.version /\ p["best_score"] = Best.score
              /\ p["severity_counts"] = SeverityCounts(Evaluation)
         /\ ~setup.legacy =>
              /\ p["threshold_met"] = ThresholdMet
              /\ p["quality_gate_passed"] = GatePassed
<1> DEFINE counts == SeverityCounts(Evaluation)
           met == ThresholdMet
           gate == GatePassed
           all == [final_version |-> snapshot.current_iteration, best_version |-> Best.version,
                   best_score |-> Best.score, quality_threshold |-> snapshot.quality_threshold,
                   completed_iterations |-> snapshot.current_iteration,
                   max_iterations |-> snapshot.max_iterations, threshold_met |-> met,
                   quality_gate_passed |-> gate, severity_counts |-> counts]
<1>1. Outcome = Since(all)
  BY DEF Outcome
<1> HIDE DEF counts, met, gate
<1>2. DOMAIN all = OutcomeFields
  BY DEF OutcomeFields
<1>3. /\ all["final_version"] = snapshot.current_iteration /\ all["best_version"] = Best.version
      /\ all["best_score"] = Best.score /\ all["quality_threshold"] = snapshot.quality_threshold
      /\ all["completed_iterations"] = snapshot.current_iteration
      /\ all["max_iterations"] = snapshot.max_iterations /\ all["threshold_met"] = met
      /\ all["quality_gate_passed"] = gate /\ all["severity_counts"] = counts
  OBVIOUS
<1> HIDE DEF all
<1>4. /\ ~setup.legacy => DOMAIN Outcome = OutcomeFields
      /\ setup.legacy => DOMAIN Outcome = {"final_version", "quality_threshold",
                            "completed_iterations", "max_iterations", "threshold_met"}
      /\ \A key \in DOMAIN Outcome : Outcome[key] = all[key]
  <2>1. /\ ~setup.legacy => Outcome = all
        /\ setup.legacy =>
             DOMAIN Outcome = DOMAIN all \ {"severity_counts", "quality_gate_passed",
                                            "best_version", "best_score"}
        /\ \A key \in DOMAIN Outcome : Outcome[key] = all[key]
    BY <1>1, SinceIs
  <2>2. OutcomeFields \ {"severity_counts", "quality_gate_passed", "best_version", "best_score"}
          = {"final_version", "quality_threshold", "completed_iterations", "max_iterations",
             "threshold_met"}
    BY DEF OutcomeFields
  <2> QED BY <1>2, <2>1, <2>2
<1>5. DOMAIN p = {"current"} \cup DOMAIN Outcome
      /\ \A key \in DOMAIN Outcome : key # "current" => p[key] = Outcome[key]
  BY DEF EndPayload
<1>6. \A key \in OutcomeFields : key # "current"
  BY DEF OutcomeFields
<1>7. DOMAIN Outcome \subseteq OutcomeFields
  BY <1>4 DEF OutcomeFields
<1>8. \A key \in DOMAIN Outcome : p[key] = all[key]
  BY <1>4, <1>5, <1>6, <1>7
<1>9. {"final_version", "quality_threshold", "completed_iterations", "max_iterations"}
        \subseteq DOMAIN Outcome
  BY <1>4 DEF OutcomeFields
<1>10. ~setup.legacy => {"best_version", "best_score", "severity_counts", "threshold_met",
                         "quality_gate_passed"} \subseteq DOMAIN Outcome
  BY <1>4 DEF OutcomeFields
<1>11. /\ ~setup.legacy => OutcomeFields \subseteq DOMAIN p
       /\ setup.legacy => DOMAIN p = {"current", "final_version", "quality_threshold",
                                      "completed_iterations", "max_iterations", "threshold_met"}
  BY <1>4, <1>5
<1>12. ~setup.legacy => /\ p["threshold_met"] = met /\ p["quality_gate_passed"] = gate
                        /\ p["best_version"] = Best.version /\ p["best_score"] = Best.score
                        /\ p["severity_counts"] = counts
  BY <1>3, <1>8, <1>10
<1> QED BY <1>3, <1>8, <1>9, <1>11, <1>12 DEF counts, met, gate

\* The outcome the browser makes of it: all that matters of an old server's is the counts.
LEMMA OutcomeIs ==
  ASSUME SnapshotOK(snapshot), IsEvaluation(Evaluation),
         ~setup.legacy => Best.version \in Nat /\ Best.score \in Nat,
         NEW status, NEW p, p = EndPayload(status),
         NEW counts, counts = severitiesFromEvaluation(Evaluation), NEW iteration,
         NEW o, o = outcomeFromPayload(p, iteration, status = "COMPLETED", counts)
  PROVE  /\ o.severity = counts
         /\ o.bestVersion = IF setup.legacy THEN Null ELSE Best.version
         /\ o.bestScore = IF setup.legacy THEN Null ELSE Best.score
         /\ ~setup.legacy =>
              o = [thresholdMet |-> ThresholdMet, qualityGatePassed |-> GatePassed,
                   qualityThreshold |-> snapshot.quality_threshold,
                   completedIterations |-> snapshot.current_iteration,
                   maxIterations |-> snapshot.max_iterations,
                   bestVersion |-> Best.version, bestScore |-> Best.score, severity |-> counts]
<1>1. severityFromPayload(p, counts) = counts
  <2>1. TellsSeverity(p)
    BY EndPayloadIs DEF TellsSeverity, OutcomeFields
  <2> QED BY <2>1, SeverityIs
<1>2. /\ optionalNumberPayload(p, "best_version") = IF setup.legacy THEN Null ELSE Best.version
      /\ optionalNumberPayload(p, "best_score") = IF setup.legacy THEN Null ELSE Best.score
  <2>1. CASE setup.legacy
    BY <2>1, EndPayloadIs DEF optionalNumberPayload, numberPayload, Sent
  <2>2. CASE ~setup.legacy
    BY <2>2, EndPayloadIs, NullIsNoValue
      DEF optionalNumberPayload, numberPayload, Sent, OutcomeFields
  <2> QED BY <2>1, <2>2
<1>3. /\ o.severity = severityFromPayload(p, counts)
      /\ o.bestVersion = optionalNumberPayload(p, "best_version")
      /\ o.bestScore = optionalNumberPayload(p, "best_score")
  BY DEF outcomeFromPayload
<1>4. ASSUME ~setup.legacy
      PROVE  o = [thresholdMet |-> ThresholdMet, qualityGatePassed |-> GatePassed,
                  qualityThreshold |-> snapshot.quality_threshold,
                  completedIterations |-> snapshot.current_iteration,
                  maxIterations |-> snapshot.max_iterations,
                  bestVersion |-> Best.version, bestScore |-> Best.score, severity |-> counts]
  <2>1. /\ {"threshold_met", "quality_gate_passed", "quality_threshold", "completed_iterations",
            "max_iterations"} \subseteq DOMAIN p
        /\ p["quality_threshold"] = snapshot.quality_threshold
        /\ p["completed_iterations"] = snapshot.current_iteration
        /\ p["max_iterations"] = snapshot.max_iterations
    BY <1>4, EndPayloadIs DEF OutcomeFields
  <2>2. /\ snapshot.quality_threshold # Null /\ snapshot.current_iteration # Null
        /\ snapshot.max_iterations # Null
    BY VersionsAre, NullIsNoValue DEF HasTypes
  <2>3. /\ numberPayload(p, "quality_threshold", 0) = snapshot.quality_threshold
        /\ numberPayload(p, "completed_iterations", iteration) = snapshot.current_iteration
        /\ numberPayload(p, "max_iterations", iteration) = snapshot.max_iterations
    BY <2>1, <2>2 DEF numberPayload, Sent
  <2>4. Get(p, "threshold_met", FALSE) = p["threshold_met"]
    BY Zenon, <2>1 DEF Get
  <2>5. Get(p, "quality_gate_passed", status = "COMPLETED" /\ p["threshold_met"])
          = p["quality_gate_passed"]
    BY Zenon, <2>1 DEF Get
  <2>6. o = [thresholdMet |-> p["threshold_met"], qualityGatePassed |-> p["quality_gate_passed"],
             qualityThreshold |-> snapshot.quality_threshold,
             completedIterations |-> snapshot.current_iteration,
             maxIterations |-> snapshot.max_iterations,
             bestVersion |-> Best.version, bestScore |-> Best.score, severity |-> counts]
    <3>1. o = [thresholdMet |-> Get(p, "threshold_met", FALSE),
               qualityGatePassed |->
                 Get(p, "quality_gate_passed", status = "COMPLETED" /\ Get(p, "threshold_met", FALSE)),
               qualityThreshold |-> numberPayload(p, "quality_threshold", 0),
               completedIterations |-> numberPayload(p, "completed_iterations", iteration),
               maxIterations |-> numberPayload(p, "max_iterations", iteration),
               bestVersion |-> optionalNumberPayload(p, "best_version"),
               bestScore |-> optionalNumberPayload(p, "best_score"),
               severity |-> severityFromPayload(p, counts)]
      BY Zenon DEF outcomeFromPayload
    <3> QED BY Zenon, <1>1, <1>2, <1>4, <2>3, <2>4, <2>5, <3>1
  <2>7. p["threshold_met"] = ThresholdMet /\ p["quality_gate_passed"] = GatePassed
    BY <1>4, EndPayloadIs
  <2> QED BY Zenon, <2>6, <2>7
<1> QED BY <1>1, <1>2, <1>3, <1>4

\* The findings of the last round, as a page that knows it counts them.
LEMMA FinalRoundIs ==
  ASSUME NEW t, SnapshotOK(t), RoundScored(t), IsEvaluation(Evaluation),
         NEW n, n.reviewsByVersion = ReviewsOf(t), n.scoresByVersion = ScoresOf(t.versions),
         NEW counts, counts = severitiesFromEvaluation(Evaluation),
         NEW p, "final_version" \in DOMAIN p, NEW cur, cur = t.current_iteration,
         p["final_version"] = cur, NEW iteration
  PROVE  /\ finalRoundSeverity(n, p, iteration) = counts
         /\ n.scoresByVersion[cur].severity = counts
<1>1. cur \in Nat \ {0} /\ cur # Null /\ Len(t.versions) = cur /\ cur \in Evaluated(t.versions)
      /\ t.latest_evaluation = Evaluation /\ t.reviews = Evaluation.reviews
      /\ t.versions[cur].evaluation = Evaluation
  <2>1. cur \in Nat \ {0} /\ Len(t.versions) = cur /\ DOMAIN t.versions = 1 .. cur
        /\ t.versions[cur].evaluation = Evaluation /\ Evaluation # Null
    BY VersionsAre, EvaluationCounts DEF RoundScored
  <2>2. t.latest_evaluation = Evaluation /\ t.latest_evaluation.reviews = t.reviews
    BY <2>1 DEF SnapshotOK, ReviewsAreOfTheVersion, RoundScored
  <2> QED BY <2>1, <2>2, NullIsNoValue DEF Evaluated
<1>2. numberPayload(p, "final_version", iteration) = cur
  BY <1>1 DEF numberPayload, Sent
<1>3. DOMAIN t.reviews = Roles /\ Roles # {}
  BY <1>1, EvaluationCounts, RolesAssumption
<1>4. cur \in DOMAIN ReviewsOf(t) /\ ReviewsOf(t)[cur] = Normalized(t.reviews)
  BY <1>1, <1>3 DEF ReviewsOf
<1>5. severitiesFromReviews(Get(n.reviewsByVersion, cur, EmptyMap)) \in {counts, Null}
  <2>1. Get(n.reviewsByVersion, cur, EmptyMap) = Normalized(Evaluation.reviews)
    BY <1>1, <1>4 DEF Get
  <2>2. PICK payload : payload = IF setup.legacy THEN [x \in {} |-> Null]
                                 ELSE [x \in {"severity_counts"} |-> SeverityCounts(Evaluation)]
    OBVIOUS
  <2>3. TellsSeverity(payload)
    BY <2>2 DEF TellsSeverity
  <2> QED BY <2>1, <2>3, SeverityIs
<1>6. cur \in DOMAIN n.scoresByVersion /\ n.scoresByVersion[cur].severity = counts
  <2>1. ScoresOf(t.versions)[cur] = ScoreOf(cur, Evaluation.reviews, Evaluation.overall_score, counts)
    BY <1>1 DEF ScoresOf
  <2>2. ScoresOf(t.versions)[cur].severity = counts
    BY <2>1 DEF ScoreOf
  <2> QED BY <1>1, <2>2 DEF ScoresOf
<1>7. counts # Null
  BY EvaluationCounts, CountsAre
<1> DEFINE reviewed == severitiesFromReviews(Get(n.reviewsByVersion, cur, EmptyMap))
<1>8. finalRoundSeverity(n, p, iteration) =
        IF reviewed # Null THEN reviewed
        ELSE IF cur \in DOMAIN n.scoresByVersion THEN n.scoresByVersion[cur].severity ELSE Null
  BY <1>2 DEF finalRoundSeverity
<1> HIDE DEF reviewed
<1>9. reviewed \in {counts, Null}
  BY <1>5 DEF reviewed
<1> QED BY <1>6, <1>7, <1>8, <1>9

\* What an event that ends the run leaves of a page.
LEMMA EndEvent ==
  ASSUME SnapshotOK(snapshot), IsEvaluation(Evaluation),
         ~setup.legacy => Best.version \in Nat /\ Best.score \in Nat,
         NEW v, IsView(v), v.snapshot = Null \/ IsRunSnapshot(v.snapshot),
         NEW t, SnapshotOK(t), RoundScored(t), Knows(v, t),
         NEW target, NEW e, e.payload = EndPayload(target),
         \/ target = "COMPLETED" /\ e.event = "run_completed"
         \/ target = "MAX_ITERATIONS_REACHED" /\ e.event = "max_iterations_reached",
         NEW counts, counts = severitiesFromEvaluation(Evaluation),
         NEW w, w = applyEvent(v, e)
  PROVE  /\ Shown(v, w) /\ w.status = target /\ w.error = Null
         /\ w.reviewsByVersion = v.reviewsByVersion
         /\ w.scoresByVersion = v.scoresByVersion
         /\ w.revisionPlansBySourceVersion = v.revisionPlansBySourceVersion
         /\ w.pendingRevisionPlan = v.pendingRevisionPlan
         /\ w.bestVersion = v.bestVersion /\ w.bestScore = v.bestScore
         /\ w.outcome.severity = counts
         /\ ~setup.legacy =>
              w.outcome = [thresholdMet |-> ThresholdMet, qualityGatePassed |-> GatePassed,
                   qualityThreshold |-> snapshot.quality_threshold,
                   completedIterations |-> snapshot.current_iteration,
                   maxIterations |-> snapshot.max_iterations,
                   bestVersion |-> Best.version, bestScore |-> Best.score, severity |-> counts]
<1> DEFINE n == Logging(v, e)
           p == e.payload
           iteration == e.iteration
           version == numberPayload(e.payload, "version", e.iteration)
<1>1. Plain(v, n) /\ n.status = v.status /\ n.error = Null
  BY LoggingIsPlain
<1>2. Applies(n, w, e, version)
  BY AppliedIs
<1> HIDE DEF n, version
<1>3. /\ IsView(n) /\ (n.snapshot = Null \/ IsRunSnapshot(n.snapshot)) /\ StillShows(v.snapshot, n.snapshot)
      /\ n.reviewsByVersion = ReviewsOf(t) /\ n.scoresByVersion = ScoresOf(t.versions)
      /\ n.bestVersion = v.bestVersion /\ n.bestScore = v.bestScore
  BY <1>1 DEF Plain, StillShows, Knows
<1>4. w = RunEnded(n, iteration, p, target)
  BY <1>2 DEF Applies
<1>5. p["final_version"] = t.current_iteration /\ "final_version" \in DOMAIN p
  BY EndPayloadIs DEF OutcomeFields, RoundScored
<1>6. finalRoundSeverity(n, p, iteration) = counts
  BY <1>3, <1>5, FinalRoundIs
<1> HIDE DEF iteration
<1>7. PICK o : o = outcomeFromPayload(p, iteration, target = "COMPLETED", finalRoundSeverity(n, p, iteration))
  OBVIOUS
<1>8. /\ o.severity = counts
      /\ o.bestVersion = IF setup.legacy THEN Null ELSE Best.version
      /\ o.bestScore = IF setup.legacy THEN Null ELSE Best.score
      /\ ~setup.legacy =>
           o = [thresholdMet |-> ThresholdMet, qualityGatePassed |-> GatePassed,
                qualityThreshold |-> snapshot.quality_threshold,
                completedIterations |-> snapshot.current_iteration,
                maxIterations |-> snapshot.max_iterations,
                bestVersion |-> Best.version, bestScore |-> Best.score, severity |-> counts]
  <2>1. o = outcomeFromPayload(p, iteration, target = "COMPLETED", counts)
    BY <1>6, <1>7
  <2> QED BY <2>1, OutcomeIs
<1>9. /\ IsView(w) /\ w.status = target /\ w.outcome = o
      /\ w.bestVersion = IF o.bestVersion # Null THEN o.bestVersion ELSE n.bestVersion
      /\ w.bestScore = IF o.bestScore # Null THEN o.bestScore ELSE n.bestScore
      /\ \A field \in DOMAIN n \ {"status", "connection", "outcome", "bestVersion", "bestScore"} :
           w[field] = n[field]
  BY <1>3, <1>4, <1>7, RunEndedIs
<1>10. {"runId", "pendingControl", "selectionPinned", "selectedVersion", "drafts", "snapshot",
        "reviewsByVersion", "scoresByVersion", "revisionPlansBySourceVersion", "error",
        "pendingRevisionPlan"}
         \subseteq DOMAIN n \ {"status", "connection", "outcome", "bestVersion", "bestScore"}
  BY <1>3, ViewFields
<1>11. /\ w.runId = n.runId /\ w.pendingControl = n.pendingControl
       /\ w.selectionPinned = n.selectionPinned /\ w.selectedVersion = n.selectedVersion
       /\ w.drafts = n.drafts /\ w.snapshot = n.snapshot /\ w.reviewsByVersion = n.reviewsByVersion
       /\ w.scoresByVersion = n.scoresByVersion
       /\ w.revisionPlansBySourceVersion = n.revisionPlansBySourceVersion
       /\ w.error = n.error /\ w.pendingRevisionPlan = n.pendingRevisionPlan
  BY <1>9, <1>10
<1>12. Shown(v, w)
  BY <1>1, <1>3, <1>9, <1>11 DEF Plain, Shown
<1>13. w.bestVersion = v.bestVersion /\ w.bestScore = v.bestScore
  <2>1. CASE setup.legacy
    BY <1>3, <1>8, <1>9, <2>1
  <2>2. CASE ~setup.legacy
    <3>1. v.bestVersion = Best.version /\ v.bestScore = Best.score
      BY <2>2 DEF Knows, HasBest, RoundScored
    <3> QED BY <1>3, <1>8, <1>9, <2>2, <3>1
  <2> QED BY <2>1, <2>2
<1> QED BY <1>1, <1>8, <1>9, <1>11, <1>12, <1>13 DEF Plain

\* The run comes to its end by itself.
LEMMA EndKeeps ==
  ASSUME SnapshotOK(snapshot), IsEvaluation(Evaluation),
         ~setup.legacy => Best.version \in Nat /\ Best.score \in Nat,
         NEW at, Good(at), RoundScored(at[1]), NEW target, NEW kind,
         \/ target = "COMPLETED" /\ kind = "run_completed" /\ GatePassed
         \/ target = "MAX_ITERATIONS_REACHED" /\ kind = "max_iterations_reached" /\ ~GatePassed,
         NEW new, new = Transition(at, target, kind, Outcome)
  PROVE  Good(new) /\ new[1].status = target
<1> DEFINE t == at[1]
           u == [t EXCEPT !.status = target,
                          !.active_node = IF target \in TerminalStatuses THEN Null ELSE @]
           payload == EndPayload(target)
           e == EventOf(at, u, kind, payload)
           v == PageAt(at)
           w == applyEvent(v, e)
           counts == severitiesFromEvaluation(Evaluation)
<1>1. new = Commit(at, u, kind, payload)
  BY DEF Transition, EndPayload
<1>2. /\ HasTypes(t) /\ SnapshotOK(t) /\ EndIsJust(t) /\ PageOK(v) /\ IsView(v) /\ Knows(v, t)
      /\ (v.snapshot = Null \/ IsRunSnapshot(v.snapshot))
  BY PageAtIs DEF SnapshotOK
<1>3. target \in Ended /\ target \in TerminalStatuses /\ target \in RunStatuses /\ target # "FAILED"
  BY DEF Ended, TerminalStatuses, RunStatuses
<1>4. HasTypes(u) /\ SameData(t, u) /\ u.error = Null /\ u.status = target
  <2>1. u = [t EXCEPT !.status = target, !.active_node = Null] /\ Null \in Maybe(Nodes)
    BY <1>3 DEF Maybe
  <2>2. u.status = target
    BY <1>2, <2>1 DEF HasTypes, SnapshotFields
  <2>3. t.error = Null
    BY DEF RoundScored
  <2> HIDE DEF t, u
  <2> QED BY <1>2, <1>3, <2>1, <2>2, <2>3, PlainUpdates
<1>5. e.event = kind /\ e.payload = payload
  BY DEF EventOf
<1> HIDE DEF u, payload, e, v, w, counts
<1>6. /\ u.current_iteration = snapshot.current_iteration /\ u.current_iteration = Len(u.versions)
      /\ u.quality_threshold = snapshot.quality_threshold
      /\ u.max_iterations = snapshot.max_iterations
      /\ u.latest_evaluation = Evaluation /\ u.versions[Len(u.versions)].evaluation = Evaluation
      /\ u.best_version = Best.version /\ u.best_score = Best.score
  BY <1>4 DEF RoundScored, SameData, SameDocument
<1>7. Evaluation # Null /\ counts \in Severities
  BY EvaluationCounts DEF counts
<1>8. EndIsJust(u)
  <2>1. Passed(u) <=> GatePassed
    BY <1>6 DEF Passed, GatePassed, ThresholdMet
  <2>2. target = "COMPLETED" <=> GatePassed
    OBVIOUS
  <2> QED BY <1>3, <1>4, <1>6, <1>7, <2>1, <2>2 DEF EndIsJust
<1>9. SnapshotOK(u)
  BY <1>2, <1>4, <1>8, SameSnapshotOK DEF SameData
<1>10. /\ Shown(v, w) /\ w.status = target /\ w.error = Null
       /\ w.reviewsByVersion = v.reviewsByVersion
       /\ w.scoresByVersion = v.scoresByVersion
       /\ w.revisionPlansBySourceVersion = v.revisionPlansBySourceVersion
       /\ w.pendingRevisionPlan = v.pendingRevisionPlan
       /\ w.bestVersion = v.bestVersion /\ w.bestScore = v.bestScore
       /\ w.outcome.severity = counts
       /\ ~setup.legacy =>
            w.outcome = [thresholdMet |-> ThresholdMet, qualityGatePassed |-> GatePassed,
                 qualityThreshold |-> snapshot.quality_threshold,
                 completedIterations |-> snapshot.current_iteration,
                 maxIterations |-> snapshot.max_iterations,
                 bestVersion |-> Best.version, bestScore |-> Best.score, severity |-> counts]
  <2>1. w = applyEvent(v, e) /\ e.payload = EndPayload(target)
    BY <1>5 DEF w, payload
  <2>2. \/ target = "COMPLETED" /\ e.event = "run_completed"
        \/ target = "MAX_ITERATIONS_REACHED" /\ e.event = "max_iterations_reached"
    BY <1>5
  <2>3. counts = severitiesFromEvaluation(Evaluation)
    BY DEF counts
  <2> HIDE DEF t
  <2>4. RoundScored(t)
    BY DEF t
  <2> QED BY <1>2, <2>1, <2>2, <2>3, <2>4, EndEvent
<1>11. Knows(w, u)
  <2>1. SameDocument(t, u)
    BY <1>4 DEF SameData
  <2> HIDE DEF t
  <2>2. /\ u.versions = t.versions /\ u.current_iteration = t.current_iteration
        /\ u.current_prd = t.current_prd /\ u.current_prd_attempt = t.current_prd_attempt
        /\ u.reviews = t.reviews /\ u.pending_revision_plan = t.pending_revision_plan
        /\ u.best_version = t.best_version /\ u.best_score = t.best_score
    BY <2>1 DEF SameDocument
  <2>3. HasDrafts(w.drafts, u)
    <3>1. HasDrafts(v.drafts, t) /\ w.drafts = v.drafts
      BY <1>2, <1>10 DEF Knows, Shown
    <3> QED BY <2>1, <3>1, SameDocumentSameDrafts DEF HasDrafts
  <2>4. w.reviewsByVersion = ReviewsOf(u)
    BY <1>2, <1>10, <2>2 DEF Knows, ReviewsOf
  <2>5. w.scoresByVersion = ScoresOf(u.versions)
    BY <1>2, <1>10, <2>2 DEF Knows
  <2>6. HasPlans(w.revisionPlansBySourceVersion, u)
    <3>1. HasPlans(v.revisionPlansBySourceVersion, t)
      BY <1>2 DEF Knows
    <3> QED BY <1>10, <2>2, <3>1, SamePlans
  <2>7. HasBest(w, u)
    BY <1>2, <1>10, <2>2 DEF Knows, HasBest, IsBest, ScoreAt
  <2>8. OutcomeAgrees(w, u)
    <3>1. w.outcome.severity = w.scoresByVersion[u.current_iteration].severity
      <4>1. v.reviewsByVersion = ReviewsOf(t) /\ v.scoresByVersion = ScoresOf(t.versions)
        BY <1>2 DEF Knows
      <4>2. RoundScored(t)
        BY DEF t
      <4>3. PICK p, cur : cur = t.current_iteration /\ p = [x \in {"final_version"} |-> cur]
        OBVIOUS
      <4>4. "final_version" \in DOMAIN p /\ p["final_version"] = cur
        BY <4>3
      <4>5. v.scoresByVersion[cur].severity = counts
        BY <1>2, <4>1, <4>2, <4>3, <4>4, FinalRoundIs DEF counts
      <4> QED BY <1>10, <2>2, <4>3, <4>5
    <3>2. ASSUME ~setup.legacy
          PROVE  w.outcome = outcomeFromSnapshot(u, bestFromSnapshot(u))
      <4> DEFINE best == bestFromSnapshot(u)
                 met == u.status = "COMPLETED" \/ (Evaluation # Null
                          /\ Evaluation.overall_score >= u.quality_threshold)
                 passed == u.status = "COMPLETED"
      <4>1. best.version = Best.version /\ best.score = Best.score
        BY <1>6, <1>9, <3>2, BestIs
      <4> HIDE DEF best
      <4>2. outcomeFromSnapshot(u, best) =
              [thresholdMet |-> met, qualityGatePassed |-> passed,
               qualityThreshold |-> u.quality_threshold,
               completedIterations |-> u.current_iteration, maxIterations |-> u.max_iterations,
               bestVersion |-> best.version, bestScore |-> best.score, severity |-> counts]
        <5>1. u.status \in {"COMPLETED", "MAX_ITERATIONS_REACHED"}
          BY <1>4
        <5>2. u.latest_evaluation = Evaluation /\ u.latest_evaluation # Null
          BY <1>6, <1>7
        <5> QED BY <5>1, <5>2 DEF outcomeFromSnapshot, counts
      <4>3. met <=> ThresholdMet
        BY <1>4, <1>6, <1>7 DEF ThresholdMet, GatePassed
      <4>4. passed <=> GatePassed
        BY <1>4
      <4>5. (met = ThresholdMet) /\ (passed = GatePassed)
        <5>1. met \in BOOLEAN /\ passed \in BOOLEAN /\ ThresholdMet \in BOOLEAN /\ GatePassed \in BOOLEAN
          BY DEF ThresholdMet, GatePassed
        <5> HIDE DEF met, passed
        <5> QED BY <4>3, <4>4, <5>1
      <4> HIDE DEF met, passed
      <4>6. outcomeFromSnapshot(u, best) =
              [thresholdMet |-> ThresholdMet, qualityGatePassed |-> GatePassed,
               qualityThreshold |-> snapshot.quality_threshold,
               completedIterations |-> snapshot.current_iteration,
               maxIterations |-> snapshot.max_iterations,
               bestVersion |-> Best.version, bestScore |-> Best.score, severity |-> counts]
        BY Zenon, <1>6, <4>1, <4>2, <4>5
      <4> QED BY Zenon, <1>10, <3>2, <4>6 DEF best
    <3>3. u.status \in Ended
      BY <1>3, <1>4
    <3> QED BY Zenon, <3>1, <3>2, <3>3 DEF OutcomeAgrees
  <2>9. w.snapshot # Null => IsEarlier(w.snapshot, u)
    BY <1>2, <1>10, <2>2 DEF Knows, Shown, StillShows, IsEarlier
  <2>10. w.pendingRevisionPlan # Null => u.current_iteration > 1
    BY <1>2, <1>10, <2>2 DEF Knows
  <2>11. w.status = u.status /\ w.error = u.error
    BY <1>4, <1>10
  <2> QED BY <2>3, <2>4, <2>5, <2>6, <2>7, <2>8, <2>9, <2>10, <2>11 DEF Knows
<1>12. PageOK(w)
  <2>1. w.reviewsByVersion = ReviewsOf(u)
    BY <1>11 DEF Knows
  <2>2. w.status \in RunStatuses
    BY <1>3, <1>10
  <2> QED BY <1>2, <1>9, <1>10, <2>1, <2>2, ReviewsAreCounted, ShownPageOK
<1>13. Good(new)
  <2>1. u.latest_event_sequence = at[1].latest_event_sequence /\ at[1].status \notin TerminalStatuses
    BY <1>4 DEF SameData, RoundScored
  <2>2. w = applyEvent(PageAt(at), EventOf(at, u, kind, payload))
    BY DEF w, v, e
  <2> QED BY <1>1, <1>9, <1>11, <1>12, <2>1, <2>2, CommitKeeps
<1> QED BY <1>1, <1>4, <1>13, CommitIs

\* The aggregator keeps the invariant, whichever way it goes on.
LEMMA AggregateKeeps ==
  ASSUME ProjectionInv, Aggregate, live' = live
  PROVE  ProjectionInv'
<1>1. /\ AtPhase(snapshot, phase) /\ SnapshotOK(snapshot)
      /\ phase = "reviewing" /\ DOMAIN snapshot.reviews = Roles
      /\ setup' = setup /\ waiting' = waiting /\ pauses' = pauses
      /\ pauses \in Nat /\ waiting \subseteq Roles
  BY StretchBegins DEF Aggregate
<1>2. PICK begun : begun = MarkRunning(SetStage(Started, "AGGREGATING"), "aggregator")
  OBVIOUS
<1>3. PICK at : at = Commit(begun, Scored(begun[1]), "scores_updated", ScoresPayload)
  OBVIOUS
<1>4. /\ Good(at) /\ RoundScored(at[1]) /\ IsEvaluation(Evaluation)
      /\ ~setup.legacy => Best.version \in Nat /\ Best.score \in Nat
  BY <1>1, <1>2, <1>3, ScoringKeeps
<1>5. \/ /\ GatePassed
         /\ Write(Transition(at, "COMPLETED", "run_completed", Outcome)) /\ phase' = "over"
      \/ /\ ~GatePassed
         /\ Write(Transition(at, "MAX_ITERATIONS_REACHED", "max_iterations_reached", Outcome))
         /\ phase' = "over"
      \/ Write(Park(at)) /\ phase' = "paused"
      \/ Write(SetStage(at, "OPTIMIZING")) /\ phase' = "aggregated"
  BY <1>2, <1>3 DEF Aggregate
<1>6. ASSUME NEW target, NEW kind,
             \/ target = "COMPLETED" /\ kind = "run_completed" /\ GatePassed
             \/ target = "MAX_ITERATIONS_REACHED" /\ kind = "max_iterations_reached" /\ ~GatePassed,
             Write(Transition(at, target, kind, Outcome)), phase' = "over"
      PROVE  ProjectionInv'
  <2>1. PICK new : new = Transition(at, target, kind, Outcome)
    OBVIOUS
  <2>2. Good(new) /\ new[1].status = target
    BY <1>1, <1>4, <1>6, <2>1, EndKeeps
  <2>3. AtPhase(new[1], phase')
    BY <1>6, <2>2 DEF AtPhase, TerminalStatuses
  <2> QED BY <1>1, <1>6, <2>1, <2>2, <2>3, WriteStep
<1>7. at[1].status \notin TerminalStatuses /\ at[1].status # "PAUSED"
      /\ at[1].current_iteration = Len(at[1].versions)
      /\ at[1].versions[Len(at[1].versions)].evaluation # Null
  BY <1>4, EvaluationCounts DEF RoundScored
<1>8. ASSUME NEW new, Good(new), SameData(at[1], new[1]), new[1].status \notin TerminalStatuses,
             new[1].status = "PAUSED" => phase' = "paused", phase' \in {"paused", "aggregated"},
             Write(new)
      PROVE  ProjectionInv'
  <2>1. new[1].current_iteration = at[1].current_iteration /\ new[1].versions = at[1].versions
    BY <1>8 DEF SameData, SameDocument
  <2>2. AtPhase(new[1], phase')
    BY <1>7, <1>8, <2>1 DEF AtPhase
  <2> QED BY <1>1, <1>8, <2>2, WriteStep
<1>9. CASE Write(Park(at)) /\ phase' = "paused"
  <2>1. PICK new : new = Park(at)
    OBVIOUS
  <2>2. Good(new) /\ SameData(at[1], new[1]) /\ new[1].status = "PAUSED"
    BY <1>4, <1>7, <2>1, TransitionKeeps DEF Park, RunStatuses, LiveStatuses, Ended
  <2>3. new[1].status \notin TerminalStatuses
    BY <2>2 DEF TerminalStatuses
  <2> QED BY <1>8, <1>9, <2>1, <2>2, <2>3
<1>10. CASE Write(SetStage(at, "OPTIMIZING")) /\ phase' = "aggregated"
  <2>1. PICK new : new = SetStage(at, "OPTIMIZING")
    OBVIOUS
  <2>2. /\ Good(new) /\ SameData(at[1], new[1]) /\ new[1].status \notin TerminalStatuses
        /\ new[1].status \in {at[1].status, "OPTIMIZING"}
    BY <1>4, <1>7, <2>1, SetStageKeeps DEF PausableStatuses
  <2> QED BY <1>7, <1>8, <1>10, <2>1, <2>2
<1> QED BY <1>5, <1>6, <1>9, <1>10

--------------------------------------------------------------------------------
(* The actions of the browser. *)

\* The browser goes on without the server: a page, and the events it is still to be sent.
LEMMA BrowserStep ==
  ASSUME ProjectionInv, UNCHANGED <<setup, snapshot, phase, waiting, pauses>>,
         NEW page, NEW log, live' = page, stream' = log, IsLog(log),
         \A n \in 0 .. Len(log) : PageOK(Pages(page, log)[n]),
         Arrived(page, log).latestSequence \in 0 .. snapshot.latest_event_sequence,
         snapshot.status # "CANCELLED" =>
           Arrived(page, log).latestSequence = snapshot.latest_event_sequence,
         Agrees(Arrived(page, log), snapshot)
  PROVE  ProjectionInv'
<1>1. SnapshotOK(snapshot)'
  <2>1. PICK s : s = snapshot
    OBVIOUS
  <2>2. SnapshotOK(s)'
    BY <2>1, SetupOnly DEF ProjectionInv
  <2> QED BY <2>1, <2>2
<1>2. PhaseOK'
  BY PhaseIs DEF ProjectionInv
<1>3. Settled' = Arrived(page, log)
  BY DEF Settled
<1>4. Agrees(Settled, snapshot)'
  <2>1. PICK s : s = snapshot
    OBVIOUS
  <2>2. PICK settled : settled = Arrived(page, log)
    OBVIOUS
  <2>3. Agrees(settled, s)'
    BY <2>1, <2>2, SetupOnly
  <2> QED BY <1>3, <2>1, <2>2, <2>3
<1>5. /\ Settled'.latestSequence \in 0 .. snapshot'.latest_event_sequence
      /\ snapshot'.status # "CANCELLED" =>
           Settled'.latestSequence = snapshot'.latest_event_sequence
  BY <1>3
<1>6. (IsLog(stream) /\ \A n \in 0 .. Len(stream) : PageOK(Pages(live, stream)[n]))'
  BY DEF IsLog
<1> QED BY <1>1, <1>2, <1>4, <1>5, <1>6 DEF ProjectionInv, IsLog

\* An event that arrives keeps the invariant: the page goes on to the next on the way.
LEMMA DeliverKeeps ==
  ASSUME ProjectionInv, Deliver
  PROVE  ProjectionInv'
<1>1. /\ stream # <<>> /\ live' = EventReceived(live, Head(stream)) /\ stream' = Tail(stream)
      /\ UNCHANGED <<setup, snapshot, phase, waiting, pauses>>
  BY DEF Deliver
<1>2. IsLog(stream) /\ \A n \in 0 .. Len(stream) : PageOK(Pages(live, stream)[n])
  BY DEF ProjectionInv, IsLog
<1>3. PICK page, log : page = EventReceived(live, Head(stream)) /\ log = Tail(stream)
  OBVIOUS
<1>4. /\ IsLog(log) /\ Len(log) + 1 = Len(stream) /\ Len(log) \in Nat
      /\ \A n \in 0 .. Len(log) : Pages(page, log)[n] = Pages(live, stream)[n + 1]
      /\ Arrived(page, log) = Settled
  BY <1>1, <1>2, <1>3, PagesShrink DEF Settled
<1>5. ASSUME NEW n \in 0 .. Len(log) PROVE PageOK(Pages(page, log)[n])
  <2>1. n + 1 \in 0 .. Len(stream)
    BY <1>4
  <2> QED BY <1>2, <1>4, <2>1
<1> QED BY <1>1, <1>3, <1>4, <1>5, BrowserStep DEF ProjectionInv

\* The newest draft of a page is one of them.
LEMMA SelectionKept ==
  ASSUME NEW s, SnapshotOK(s), NEW v, NEW drafts, HasDrafts(drafts, s)
  PROVE  KeptSelection(v, drafts) \in Maybe(DOMAIN drafts)
<1> DEFINE last == Len(s.versions)
           cur == s.current_iteration
           D == DOMAIN drafts
<1>1. /\ last \in Nat /\ cur \in Nat /\ cur \in {last, last + 1}
      /\ 1 .. last \subseteq D /\ D \subseteq (1 .. last) \cup {cur}
  BY VersionsAre DEF HasDrafts, HasVersions
<1> HIDE DEF last, cur, D
<1>2. ASSUME D # {} PROVE MaxOf(D) \in D
  <2>1. \E m \in D : \A x \in D : x <= m
    <3>1. CASE cur \in D
      <4>1. \A x \in D : x <= cur
        BY <1>1
      <4> QED BY <3>1, <4>1
    <3>2. CASE cur \notin D
      <4>1. D = 1 .. last
        BY <1>1, <3>2
      <4>2. last \in D /\ \A x \in D : x <= last
        BY <1>1, <1>2, <4>1
      <4> QED BY <4>2
    <3> QED BY <3>1, <3>2
  <2> QED BY <2>1 DEF MaxOf
<1>3. KeptSelection(v, drafts) \in {v.selectedVersion, Null, MaxOf(D)}
      /\ (KeptSelection(v, drafts) \in D \/ KeptSelection(v, drafts) = Null
          \/ (D # {} /\ KeptSelection(v, drafts) = MaxOf(D)))
  BY DEF KeptSelection, D
<1> QED BY <1>2, <1>3 DEF Maybe, D

\* A page that has just loaded a snapshot is well formed and knows it.
LEMMA LoadedPageOK ==
  ASSUME NEW s, SnapshotOK(s), NEW v, IsView(v), v.selectionPinned \in BOOLEAN,
         NEW w, w = SnapshotLoaded(v, s)
  PROVE  PageOK(w) /\ w.latestSequence = s.latest_event_sequence /\ Agrees(w, s)
<1>1. HasLoaded(v, s, w) /\ HasTypes(s) /\ s.run_id = RunId
  BY SnapshotLoadedIs, VersionsAre DEF SnapshotOK
<1>2. w.selectionPinned \in BOOLEAN
  <2>1. w.selectionPinned = (v.selectionPinned /\ w.selectedVersion = v.selectedVersion)
    BY Zenon, <1>1 DEF HasLoaded
  <2> QED BY Zenon, <2>1
<1>3. /\ IsView(w) /\ w.runId = s.run_id /\ w.snapshot = s /\ w.status = s.status
      /\ w.latestSequence = s.latest_event_sequence /\ w.drafts = draftsFromSnapshot(s)
      /\ w.reviewsByVersion = reviewsFromSnapshot(s)
      /\ w.scoresByVersion = scoresFromSnapshot(s.versions)
      /\ w.revisionPlansBySourceVersion = revisionPlansFromSnapshot(s)
  BY Zenon, <1>1 DEF HasLoaded
<1>4. /\ w.bestVersion = bestFromSnapshot(s).version /\ w.bestScore = bestFromSnapshot(s).score
      /\ w.outcome = outcomeFromSnapshot(s, bestFromSnapshot(s))
      /\ w.selectedVersion = KeptSelection(v, w.drafts)
      /\ w.pendingRevisionPlan = s.pending_revision_plan /\ w.pendingControl = Null
      /\ w.error = IF s.error = Null THEN Null ELSE localizedErrorMessage(s.error)
  BY Zenon, <1>1 DEF HasLoaded
<1>5. HasDrafts(w.drafts, s) /\ \A x \in DOMAIN w.drafts : IsDraft(w.drafts, x)
  BY <1>3, DraftsAre
<1>6. PageOK(w)
  <2>1. w.selectedVersion \in Maybe(DOMAIN w.drafts)
    BY <1>4, <1>5, SelectionKept
  <2>2. w.reviewsByVersion = ReviewsOf(s)
    BY <1>3, ReviewsAre
  <2>3. \A x \in DOMAIN w.reviewsByVersion : \A role \in DOMAIN w.reviewsByVersion[x] :
          w.reviewsByVersion[x][role].feedback \in Seq(FEEDBACK_SEVERITIES)
    BY <2>2, ReviewsAreCounted
  <2>4. IsRunSnapshot(w.snapshot) /\ w.status \in RunStatuses
    BY <1>1, <1>3, SnapshotTypes DEF HasTypes
  <2> QED BY <1>1, <1>2, <1>3, <1>4, <1>5, <2>1, <2>3, <2>4 DEF PageOK, IsView
<1>7. w.error = s.error
  <2>1. s.error \in {Null, FailureCode}
    BY DEF SnapshotOK, EndIsJust
  <2>2. localizedErrorMessage(FailureCode) = FailureCode
    BY DEF localizedErrorMessage, FailureCode, ERROR_MESSAGES, ProviderCodes
  <2> QED BY <1>4, <2>1, <2>2
<1>8. HasVersions(w.drafts, s) /\ HasRest(w.drafts, s) /\ PlansAgree(w, s)
  BY <1>3, <1>5, PlansAreThere DEF PlansAgree, HasDrafts
<1>9. ASSUME w.outcome # Null
      PROVE  /\ s.status \in Ended
             /\ w.outcome.severity = w.scoresByVersion[s.current_iteration].severity
  <2> DEFINE cur == s.current_iteration
             counts == severitiesFromEvaluation(s.latest_evaluation)
  <2>1. s.status \in Ended
    BY <1>4, <1>9 DEF outcomeFromSnapshot, Ended
  <2>2. /\ cur \in Nat /\ cur = Len(s.versions) /\ s.versions[cur].evaluation # Null
        /\ s.latest_evaluation = s.versions[cur].evaluation /\ cur \in DOMAIN s.versions
    BY <2>1, VersionsAre DEF SnapshotOK, EndIsJust, ReviewsAreOfTheVersion
  <2>3. w.outcome.severity = counts
    BY <1>4, <2>1, <2>2 DEF outcomeFromSnapshot, Ended
  <2>4. w.scoresByVersion[cur] =
          ScoreOf(cur, s.versions[cur].evaluation.reviews, s.versions[cur].evaluation.overall_score, counts)
    <3>1. w.scoresByVersion = ScoresOf(s.versions)
      BY <1>3, ScoresAre
    <3>2. cur \in Evaluated(s.versions)
      BY <2>2 DEF Evaluated
    <3>3. counts = severitiesFromEvaluation(s.versions[cur].evaluation)
      BY <2>2
    <3> HIDE DEF cur, counts
    <3> QED BY <3>1, <3>2, <3>3 DEF ScoresOf
  <2>5. w.scoresByVersion[cur].severity = counts
    BY <2>4 DEF ScoreOf
  <2> QED BY <2>1, <2>3, <2>5
<1>10. OutcomeAgrees(w, s)
  BY <1>4, <1>9 DEF OutcomeAgrees
<1>11. IsEarlier(w.snapshot, s)
  <2>1. /\ s.current_iteration \in Nat /\ Len(s.versions) \in Nat
        /\ \A i \in DOMAIN s.versions : IsVersion(s.versions[i], i)
    BY VersionsAre
  <2>2. \A i \in DOMAIN s.versions :
          s.versions[i].version = i /\ (i = 1 => s.versions[i].revision_plan = Null)
    <3> SUFFICES ASSUME NEW i \in DOMAIN s.versions
                 PROVE  s.versions[i].version = i /\ (i = 1 => s.versions[i].revision_plan = Null)
      OBVIOUS
    <3>1. IsVersion(s.versions[i], i)
      BY <2>1
    <3>2. s.versions[i].version = i /\ IsPlanFor(s.versions[i].revision_plan, i)
      BY <3>1 DEF IsVersion
    <3> QED BY <3>2 DEF IsPlanFor
  <2>3. s.current_iteration <= s.current_iteration /\ Len(s.versions) <= Len(s.versions)
    BY <2>1
  <2>4. IsEarlier(s, s)
    BY <2>2, <2>3 DEF IsEarlier
  <2> QED BY <1>3, <2>4
<1>12. w.pendingRevisionPlan # Null => s.current_iteration > 1
  BY <1>4, VersionsAre DEF SnapshotOK, VersionsAreInOrder, IsPlanFor
<1> QED BY <1>3, <1>4, <1>6, <1>7, <1>8, <1>10, <1>11, <1>12 DEF Agrees

\* A page that loads the snapshot is up to date.
LEMMA LoadKeeps ==
  ASSUME ProjectionInv, NEW view, IsView(view), view.selectionPinned \in BOOLEAN, Load(view)
  PROVE  ProjectionInv'
<1>1. /\ live' = SnapshotLoaded(view, snapshot) /\ stream' = <<>>
      /\ UNCHANGED <<setup, snapshot, phase, waiting, pauses>>
  BY DEF Load
<1>2. PICK page, log : page = SnapshotLoaded(view, snapshot) /\ log = <<>>
  OBVIOUS
<1>3. /\ PageOK(page) /\ Agrees(page, snapshot)
      /\ page.latestSequence = snapshot.latest_event_sequence
      /\ page.latestSequence \in 0 .. snapshot.latest_event_sequence
  <2>1. snapshot.latest_event_sequence \in Nat
    BY StretchBegins DEF HasTypes
  <2> QED BY <1>2, <2>1, LoadedPageOK DEF ProjectionInv
<1>4. /\ IsLog(log) /\ Len(log) = 0 /\ Arrived(page, log) = page /\ Pages(page, log)[0] = page
  <2>1. IsLog(<<>>) /\ Len(<<>>) = 0
    BY EmptySeq DEF IsLog
  <2> QED BY <1>2, <2>1, PagesShrink
<1>5. \A n \in 0 .. Len(log) : PageOK(Pages(page, log)[n])
  BY <1>3, <1>4
<1> QED BY <1>1, <1>2, <1>3, <1>4, <1>5, BrowserStep

\* Picking a version keeps the invariant, on the page and on those on the way.
LEMMA SelectKeeps ==
  ASSUME ProjectionInv, Select
  PROVE  ProjectionInv'
<1>1. PICK picked \in DOMAIN live.drafts : live' = VersionSelected(live, picked)
  BY DEF Select
<1>2. UNCHANGED <<setup, snapshot, phase, waiting, pauses>> /\ stream' = stream
  BY DEF Select, server
<1>3. IsLog(stream) /\ Len(stream) \in Nat /\ \A n \in 0 .. Len(stream) : PageOK(Pages(live, stream)[n])
  BY StartedIsGood DEF ProjectionInv
<1>4. IsView(live)
  <2>1. Pages(live, stream)[0] = live /\ PageOK(Pages(live, stream)[0])
    BY <1>3, PagesShrink
  <2> QED BY <2>1 DEF PageOK, IsView
<1>5. PICK page, log : page = VersionSelected(live, picked) /\ log = stream
  OBVIOUS
<1>6. \A n \in 0 .. Len(log) :
        /\ Pages(page, log)[n] = VersionSelected(Pages(live, log)[n], picked)
        /\ IsView(Pages(live, log)[n]) /\ picked \in DOMAIN Pages(live, log)[n].drafts
  BY <1>3, <1>4, <1>5, PickedOnTheWay
<1>7. ASSUME NEW v, IsView(v)
      PROVE  /\ DOMAIN VersionSelected(v, picked) = DOMAIN v
             /\ VersionSelected(v, picked).selectedVersion = picked
             /\ VersionSelected(v, picked).selectionPinned \in BOOLEAN
             /\ \A field \in DOMAIN v \ {"selectedVersion", "selectionPinned"} :
                  VersionSelected(v, picked)[field] = v[field]
  BY <1>7, ViewFields DEF VersionSelected
<1>8. ASSUME NEW v, IsView(v), NEW w, w = VersionSelected(v, picked)
      PROVE  /\ IsView(w) /\ w.selectedVersion = picked /\ w.selectionPinned \in BOOLEAN
             /\ w.runId = v.runId /\ w.snapshot = v.snapshot /\ w.status = v.status
             /\ w.latestSequence = v.latestSequence /\ w.drafts = v.drafts
             /\ w.reviewsByVersion = v.reviewsByVersion /\ w.scoresByVersion = v.scoresByVersion
             /\ w.revisionPlansBySourceVersion = v.revisionPlansBySourceVersion
             /\ w.bestVersion = v.bestVersion /\ w.bestScore = v.bestScore /\ w.outcome = v.outcome
             /\ w.pendingRevisionPlan = v.pendingRevisionPlan
             /\ w.pendingControl = v.pendingControl /\ w.error = v.error
  <2>1. {"runId", "snapshot", "status", "latestSequence", "drafts", "reviewsByVersion",
         "scoresByVersion", "revisionPlansBySourceVersion", "bestVersion", "bestScore", "outcome",
         "pendingRevisionPlan", "pendingControl", "error"}
           \subseteq DOMAIN v \ {"selectedVersion", "selectionPinned"}
    BY <1>8, ViewFields
  <2>2. /\ DOMAIN w = DOMAIN v /\ w.selectedVersion = picked /\ w.selectionPinned \in BOOLEAN
        /\ \A field \in DOMAIN v \ {"selectedVersion", "selectionPinned"} : w[field] = v[field]
    BY <1>7, <1>8
  <2> QED BY <1>8, <2>1, <2>2 DEF IsView
<1>9. ASSUME NEW n \in 0 .. Len(log) PROVE PageOK(Pages(page, log)[n])
  <2>1. PICK v, w : v = Pages(live, log)[n] /\ w = Pages(page, log)[n]
    OBVIOUS
  <2>2. PageOK(v) /\ IsView(v) /\ w = VersionSelected(v, picked) /\ picked \in DOMAIN v.drafts
    BY <1>3, <1>5, <1>6, <2>1
  <2> QED BY <1>8, <2>1, <2>2 DEF PageOK, IsView, Maybe
<1>10. /\ Arrived(page, log).latestSequence \in 0 .. snapshot.latest_event_sequence
       /\ snapshot.status # "CANCELLED" =>
            Arrived(page, log).latestSequence = snapshot.latest_event_sequence
       /\ Agrees(Arrived(page, log), snapshot)
  <2>1. PICK v, w : v = Arrived(live, log) /\ w = Arrived(page, log)
    OBVIOUS
  <2>2. IsView(v) /\ w = VersionSelected(v, picked)
    BY <1>3, <1>5, <1>6, <2>1 DEF Arrived
  <2>3. /\ v.latestSequence \in 0 .. snapshot.latest_event_sequence /\ Agrees(v, snapshot)
        /\ snapshot.status # "CANCELLED" => v.latestSequence = snapshot.latest_event_sequence
    BY <1>5, <2>1 DEF ProjectionInv, Settled
  <2>4. Agrees(w, snapshot)
    BY <1>8, <2>2, <2>3 DEF Agrees, PlansAgree, OutcomeAgrees, MissedReset
  <2> QED BY <1>8, <2>1, <2>2, <2>3, <2>4
<1> QED BY <1>1, <1>2, <1>3, <1>5, <1>9, <1>10, BrowserStep

--------------------------------------------------------------------------------
(* The whole behaviour. *)

\* A run begins with nothing written, and the workflow before its first node.
LEMMA StartIsOK ==
  ASSUME Init
  PROVE  SnapshotOK(snapshot) /\ PhaseOK /\ stream = <<>>
<1>1. PICK s : s = snapshot
  OBVIOUS
<1>2. /\ setup \in Setups /\ stream = <<>> /\ phase = "created" /\ waiting = {} /\ pauses = 0
      /\ setup.max_iterations \in Nat /\ setup.quality_threshold \in Nat
  BY ServerAssumption DEF Init
<1>3. /\ DOMAIN s = SnapshotFields
      /\ s.run_id = RunId /\ s.current_iteration = 1 /\ s.max_iterations = setup.max_iterations
      /\ s.quality_threshold = setup.quality_threshold /\ s.status = "QUEUED"
      /\ s.active_node = Null /\ s.versions = <<>> /\ s.current_prd = <<>>
      /\ s.current_prd_attempt = 1 /\ s.latest_evaluation = Null
  BY <1>1 DEF Init, SnapshotFields
<1>4. /\ s.best_version = Null /\ s.best_score = Null /\ s.reviews = NoRound
      /\ s.pending_revision_plan = Null /\ s.node_statuses = [n \in Nodes |-> "PENDING"]
      /\ s.total_tokens = 0 /\ s.error = Null /\ s.latest_event_sequence = 0
  BY <1>1 DEF Init
<1>5. /\ Len(<<>>) = 0 /\ DOMAIN s.versions = {} /\ <<>> \in Text /\ <<>> \in Seq(PRDVersion)
      /\ Len(s.versions) = 0
  BY <1>3, EmptySeq DEF Text
<1>6. DOMAIN s.reviews = {} /\ AreReviews(s.reviews)
  BY <1>4 DEF NoRound, AreReviews
<1>7. HasTypes(s)
  <2>1. /\ s.run_id \in {RunId} /\ s.current_iteration \in Nat /\ s.max_iterations \in Nat
        /\ s.quality_threshold \in Nat /\ s.status \in RunStatuses /\ s.active_node \in Maybe(Nodes)
    <3>1. "QUEUED" \in RunStatuses /\ 1 \in Nat
      BY DEF RunStatuses, LiveStatuses
    <3> QED BY <1>2, <1>3, <3>1 DEF Maybe
  <2>2. /\ s.versions \in Seq(PRDVersion) /\ s.current_prd \in Text /\ s.current_prd_attempt \in Nat
        /\ s.latest_evaluation \in Maybe(EvaluationResult)
    BY <1>3, <1>5 DEF Maybe
  <2>3. /\ s.best_version \in Maybe(Nat) /\ s.best_score \in Maybe(Nat)
        /\ s.pending_revision_plan \in Maybe(RevisionPlan)
        /\ s.total_tokens \in Nat /\ s.error \in Maybe(ERROR_MESSAGES)
        /\ s.latest_event_sequence \in Nat
    BY <1>4 DEF Maybe
  <2>4. s.node_statuses \in [Nodes -> NodeStatus]
    BY <1>4 DEF NodeStatus
  <2> QED BY <1>3, <1>6, <2>1, <2>2, <2>3, <2>4 DEF HasTypes
<1>8. IsRunSnapshot(s)
  BY <1>7, SnapshotTypes
<1>9. Evaluated(s.versions) = {}
  BY <1>5 DEF Evaluated
<1>10. VersionsAreInOrder(s)
  BY <1>3, <1>4, <1>5 DEF VersionsAreInOrder, IsPlanFor
<1>11. ReviewsAreOfTheVersion(s)
  BY <1>3, <1>5, <1>6 DEF ReviewsAreOfTheVersion, IsClean
<1>12. BestIsTheBest(s)
  BY Zenon, <1>4, <1>9 DEF BestIsTheBest
<1>13. TextIsOfOneAttempt(s)
  BY <1>3, <1>5 DEF TextIsOfOneAttempt, IsTextOf
<1>14. EndIsJust(s)
  BY <1>3, <1>4 DEF EndIsJust, Ended
<1>15. SnapshotOK(s)
  BY <1>3, <1>8, <1>10, <1>11, <1>12, <1>13, <1>14 DEF SnapshotOK
<1>16. ~isTerminalRunStatus(s.status)
  BY <1>3 DEF isTerminalRunStatus, TerminalStatuses
<1>17. PhaseOK
  <2> DEFINE last == s.versions[Len(s.versions)]
  <2>1. s.current_iteration # Len(s.versions) /\ Len(s.versions) = 0
    BY <1>3, <1>5
  <2> QED BY <1>1, <1>2, <1>3, <1>16, <2>1 DEF PhaseOK
<1> QED BY <1>1, <1>2, <1>15, <1>17

\* A run begins, and its page is opened, with the invariant.
LEMMA InitKeeps == ProjectionInit => ProjectionInv
<1> SUFFICES ASSUME ProjectionInit PROVE ProjectionInv
  OBVIOUS
<1> DEFINE v == RunSelected(initialRunViewState, RunId)
<1>1. live = SnapshotLoaded(v, snapshot) /\ IsView(v) /\ v.selectionPinned \in BOOLEAN
  BY InitialView DEF ProjectionInit
<1> HIDE DEF v
<1>2. SnapshotOK(snapshot) /\ PhaseOK /\ stream = <<>>
  BY StartIsOK DEF ProjectionInit
<1>3. PICK page, log, s : page = live /\ log = stream /\ s = snapshot
  OBVIOUS
<1>4. /\ PageOK(page) /\ page.latestSequence = s.latest_event_sequence /\ Agrees(page, s)
      /\ page.latestSequence \in 0 .. s.latest_event_sequence
  <2>1. SnapshotOK(s) /\ page = SnapshotLoaded(v, s)
    BY <1>1, <1>2, <1>3
  <2>2. s.latest_event_sequence \in Nat
    BY <2>1, VersionsAre DEF HasTypes
  <2> QED BY <1>1, <2>1, <2>2, LoadedPageOK
<1>5. IsLog(log) /\ Len(log) = 0 /\ Arrived(page, log) = page /\ Pages(page, log)[0] = page
  <2>1. IsLog(<<>>) /\ Len(<<>>) = 0
    BY EmptySeq DEF IsLog
  <2> QED BY <1>2, <1>3, <2>1, PagesShrink
<1>6. \A n \in 0 .. Len(log) : PageOK(Pages(page, log)[n])
  BY <1>4, <1>5
<1>7. log \in Seq(Range(log))
  BY <1>5 DEF IsLog
<1> QED BY <1>2, <1>3, <1>4, <1>5, <1>6, <1>7 DEF ProjectionInv, Settled

\* What the server writes keeps what it wrote, the pages on the way and the last of them
\* together.
LEMMA ServerKeeps ==
  ASSUME ProjectionInv, ServerNext, live' = live
  PROVE  ProjectionInv'
<1>1. CASE BeginGenerator
  BY <1>1, BeginGeneratorKeeps
<1>2. CASE WriteChunk
  BY <1>2, WriteChunkKeeps
<1>3. CASE RetryGeneration \/ GiveUp
  BY <1>3, FailedAttemptKeeps
<1>4. CASE FinishGeneration
  BY <1>4, FinishGenerationKeeps
<1>5. ASSUME NEW role \in Roles, BeginReview(role)
      PROVE  ProjectionInv'
  BY <1>5, BeginReviewKeeps
<1>6. ASSUME NEW role \in Roles, FinishReview(role)
      PROVE  ProjectionInv'
  BY <1>6, FinishReviewKeeps
<1>7. CASE Aggregate
  BY <1>7, AggregateKeeps
<1>8. CASE BeginOptimizer
  BY <1>8, BeginOptimizerKeeps
<1>9. CASE FinishOptimizer
  BY <1>9, FinishOptimizerKeeps
<1>10. CASE PauseRun
  BY <1>10, PauseRunKeeps
<1>11. CASE ResumeRun
  BY <1>11, ResumeRunKeeps
<1>12. CASE CancelRun
  BY <1>12, CancelRunKeeps
<1>13. CASE FailRun
  BY <1>13, FailRunKeeps
<1> QED BY <1>1, <1>2, <1>3, <1>4, <1>5, <1>6, <1>7, <1>8, <1>9, <1>10, <1>11, <1>12, <1>13
        DEF ServerNext

\* The reader's page is the first of those on the way.
LEMMA LiveIsAPage ==
  ASSUME ProjectionInv
  PROVE  PageOK(live) /\ IsView(live) /\ live.selectionPinned \in BOOLEAN
<1>1. IsLog(stream) /\ Len(stream) \in Nat /\ \A n \in 0 .. Len(stream) : PageOK(Pages(live, stream)[n])
  BY StartedIsGood DEF ProjectionInv
<1>2. Pages(live, stream)[0] = live /\ 0 \in 0 .. Len(stream)
  BY <1>1, PagesShrink
<1>3. PageOK(live)
  BY <1>1, <1>2
<1> QED BY <1>3 DEF PageOK, IsView

\* Every step of the server and of the browser keeps the invariant.
LEMMA StepKeeps == ProjectionInv /\ [Next]_vars => ProjectionInv'
<1> SUFFICES ASSUME ProjectionInv, [Next]_vars PROVE ProjectionInv'
  OBVIOUS
<1>1. CASE ServerStep
  BY <1>1, ServerKeeps DEF ServerStep
<1>2. CASE Deliver
  BY <1>2, DeliverKeeps
<1>3. CASE Open
  <2> DEFINE v == RunSelected(live, RunId)
  <2>1. Load(v) /\ IsView(v) /\ v.selectionPinned \in BOOLEAN
    BY <1>3, InitialView DEF Open
  <2> HIDE DEF v
  <2> QED BY <2>1, LoadKeeps
<1>4. CASE Recover
  <2>1. IsView(live) /\ live.selectionPinned \in BOOLEAN
    BY LiveIsAPage
  <2> QED BY <1>4, <2>1, LoadKeeps DEF Recover
<1>5. CASE Select
  BY <1>5, SelectKeeps
<1>6. CASE UNCHANGED vars
  <2>1. UNCHANGED <<setup, snapshot, phase, waiting, pauses, stream, live>>
    BY <1>6 DEF vars, server
  <2>2. PICK page, log : page = live /\ log = stream
    OBVIOUS
  <2>3. IsLog(log) /\ \A n \in 0 .. Len(log) : PageOK(Pages(page, log)[n])
    BY <2>2 DEF ProjectionInv, IsLog
  <2>4. /\ Arrived(page, log).latestSequence \in 0 .. snapshot.latest_event_sequence
        /\ snapshot.status # "CANCELLED" =>
             Arrived(page, log).latestSequence = snapshot.latest_event_sequence
        /\ Agrees(Arrived(page, log), snapshot)
    BY <2>2 DEF ProjectionInv, Settled
  <2> QED BY <2>1, <2>2, <2>3, <2>4, BrowserStep
<1> QED BY <1>1, <1>2, <1>3, <1>4, <1>5, <1>6 DEF Next

\* What the server wrote, every page on the way to being up to date and the last of them fit
\* together, whatever the model writes and however it numbers its plans.
THEOREM ProjectionInvariant == Spec => []ProjectionInv
<1>1. ProjectionInit => ProjectionInv
  BY InitKeeps
<1>2. ProjectionInv /\ [Next]_vars => ProjectionInv'
  BY StepKeeps
<1> QED BY <1>1, <1>2, PTL DEF Spec

--------------------------------------------------------------------------------
(* What the invariant says of the pages there are now. *)

\* The page once all events have arrived is well formed and knows the snapshot.
LEMMA SettledIs ==
  ASSUME ProjectionInv
  PROVE  /\ PageOK(Settled) /\ IsView(Settled) /\ Agrees(Settled, snapshot)
         /\ snapshot.status # "CANCELLED" =>
              Settled.latestSequence = snapshot.latest_event_sequence
<1>1. IsLog(stream) /\ Len(stream) \in Nat /\ \A n \in 0 .. Len(stream) : PageOK(Pages(live, stream)[n])
  BY StartedIsGood DEF ProjectionInv
<1>2. Len(stream) \in 0 .. Len(stream)
  BY <1>1
<1>3. PageOK(Settled)
  BY <1>1, <1>2 DEF Settled, Arrived
<1> QED BY <1>3 DEF ProjectionInv, PageOK, IsView

\* So is a page that is opened now.
LEMMA FreshIs ==
  ASSUME ProjectionInv
  PROVE  /\ PageOK(Fresh) /\ IsView(Fresh) /\ Agrees(Fresh, snapshot)
         /\ Fresh.latestSequence = snapshot.latest_event_sequence
<1>1. PICK v, s : v = RunSelected(live, RunId) /\ s = snapshot
  OBVIOUS
<1>2. IsView(v) /\ v.selectionPinned \in BOOLEAN /\ SnapshotOK(s)
  BY <1>1, InitialView DEF ProjectionInv
<1>3. PICK w : w = SnapshotLoaded(v, s)
  OBVIOUS
<1>4. PageOK(w) /\ w.latestSequence = s.latest_event_sequence /\ Agrees(w, s)
  BY <1>2, <1>3, LoadedPageOK
<1>5. Fresh = w
  BY <1>1, <1>3 DEF Fresh
<1> QED BY <1>1, <1>4, <1>5 DEF PageOK, IsView

\* The invariant has the types of the snapshot and of the page.
LEMMA TypesAre == ProjectionInv => TypeOK
<1> SUFFICES ASSUME ProjectionInv PROVE TypeOK
  OBVIOUS
<1>1. PageOK(live)
  BY LiveIsAPage
<1>2. IsRunSnapshot(snapshot)
  BY DEF ProjectionInv, SnapshotOK
<1> QED BY <1>1, <1>2 DEF TypeOK, PageOK, Maybe

\* An unfinished draft is of one attempt.
LEMMA DraftsAreOfOneAttempt ==
  ASSUME ProjectionInv
  PROVE  DraftIsOneAttempt
<1>1. PageOK(live)
  BY LiveIsAPage
<1> QED BY <1>1 DEF DraftIsOneAttempt, PageOK, IsDraft

--------------------------------------------------------------------------------
(* Two pages that know the same look the same. *)

\* The drafts of two pages, but for the attempts.
LikeDrafts(a, b) ==
  /\ DOMAIN a = DOMAIN b
  /\ \A v \in DOMAIN a :
       /\ a[v] # Null /\ b[v] # Null
       /\ a[v].version = b[v].version /\ a[v].content = b[v].content
       /\ a[v].complete = b[v].complete

SameShown(here, there) ==
  /\ here.selectedVersion = there.selectedVersion
  /\ LikeDrafts(here.drafts, there.drafts)
  /\ here.reviewsByVersion = there.reviewsByVersion
  /\ here.scoresByVersion = there.scoresByVersion
  /\ here.revisionPlansBySourceVersion = there.revisionPlansBySourceVersion

\* A draft is shown by its version, text and completeness alone.
LEMMA DraftLooksTheSame ==
  ASSUME NEW d, NEW e, d # Null, e # Null,
         d.version = e.version, d.content = e.content, d.complete = e.complete, NEW score
  PROVE  PRDViewer(d, score) = PRDViewer(e, score) /\ comparableContent(d) = comparableContent(e)
<1> DEFINE shown == IF score = Null THEN Null ELSE score.overall
<1>1. PICK c : c = d.complete /\ c = e.complete
  BY Zenon
<1>2. ASSUME NEW x, x # Null, x.version = d.version, x.content = d.content, x.complete = c
      PROVE  PRDViewer(x, score) =
               [version |-> d.version, overall |-> shown, content |-> d.content,
                generating |-> TRUE /\ ~c, diagrams |-> TRUE /\ c,
                download |-> TRUE /\ d.content # <<>>]
  <2>1. (x # Null) = TRUE
    BY <1>2
  <2> QED BY Zenon, <1>2, <2>1 DEF PRDViewer, shown
<1>3. PRDViewer(d, score) = PRDViewer(e, score)
  BY <1>1, <1>2
<1>4. comparableContent(d) = comparableContent(e)
  BY Zenon DEF comparableContent
<1> QED BY <1>3, <1>4

\* Two pages that agree about a version show the same in every tab.
LEMMA ShownIsTheSame ==
  ASSUME NEW here, NEW there, SameShown(here, there),
         here.selectedVersion \in DOMAIN here.drafts
  PROVE  /\ Tabs(here) = Tabs(there)
         /\ \A tab : activeTab(here, tab) = activeTab(there, tab)
<1>1. PICK v, a, b : v = here.selectedVersion /\ a = here.drafts /\ b = there.drafts
  OBVIOUS
<1>2. /\ here.selectedVersion = v /\ there.selectedVersion = v /\ here.drafts = a /\ there.drafts = b
      /\ LikeDrafts(a, b) /\ v \in DOMAIN a /\ v \in DOMAIN b
  BY <1>1 DEF SameShown, LikeDrafts
<1>3. PICK reviews, scores, plans :
        /\ reviews = here.reviewsByVersion /\ scores = here.scoresByVersion
        /\ plans = here.revisionPlansBySourceVersion
  OBVIOUS
<1>4. /\ here.reviewsByVersion = reviews /\ there.reviewsByVersion = reviews
      /\ here.scoresByVersion = scores /\ there.scoresByVersion = scores
      /\ here.revisionPlansBySourceVersion = plans /\ there.revisionPlansBySourceVersion = plans
  BY <1>3 DEF SameShown
<1>5. DOMAIN a = DOMAIN b
  BY <1>2 DEF LikeDrafts
<1>6. PICK previous : previous = previousVersionOf(here, v)
  OBVIOUS
<1>7. previousVersionOf(here, v) = previous /\ previousVersionOf(there, v) = previous
  <2>1. DOMAIN here.drafts = DOMAIN there.drafts
    BY <1>2, <1>5
  <2> QED BY Zenon, <1>6, <2>1 DEF previousVersionOf
<1>8. ASSUME NEW x
      PROVE  /\ comparableContent(DraftOf(here, x)) = comparableContent(DraftOf(there, x))
             /\ \A score : PRDViewer(DraftOf(here, x), score) = PRDViewer(DraftOf(there, x), score)
  <2>1. CASE x \in DOMAIN a
    <3>1. DraftOf(here, x) = a[x] /\ DraftOf(there, x) = b[x]
      BY <1>2, <1>5, <2>1 DEF DraftOf, Get
    <3>2. /\ a[x] # Null /\ b[x] # Null /\ a[x].version = b[x].version
          /\ a[x].content = b[x].content /\ a[x].complete = b[x].complete
      BY <1>2, <2>1 DEF LikeDrafts
    <3> QED BY <3>1, <3>2, DraftLooksTheSame
  <2>2. CASE x \notin DOMAIN a
    <3>1. DraftOf(here, x) = Null /\ DraftOf(there, x) = Null
      BY <1>2, <1>5, <2>2 DEF DraftOf, Get
    <3> QED BY <3>1
  <2> QED BY <2>1, <2>2
<1>9. Comparison(here) = Comparison(there)
  <2>1. PICK source : source = IF previous = Null THEN Null
                               ELSE comparableContent(DraftOf(here, previous))
    OBVIOUS
  <2>2. PICK target : target = comparableContent(DraftOf(here, v))
    OBVIOUS
  <2>3. /\ source = IF previous = Null THEN Null ELSE comparableContent(DraftOf(there, previous))
        /\ target = comparableContent(DraftOf(there, v))
    BY <1>8, <2>1, <2>2
  <2> QED BY <1>2, <1>7, <2>1, <2>2, <2>3 DEF Comparison
<1>10. Tabs(here) = Tabs(there)
  <2>1. PICK score : score = Get(scores, v, Null)
    OBVIOUS
  <2>2. PRDViewer(DraftOf(here, v), score) = PRDViewer(DraftOf(there, v), score)
    BY <1>8
  <2> QED BY <1>2, <1>4, <1>7, <1>9, <2>1, <2>2 DEF Tabs
<1>11. EnabledTabs(here) = EnabledTabs(there)
  BY <1>2, <1>4, <1>9 DEF EnabledTabs
<1> QED BY <1>10, <1>11 DEF activeTab

\* What a reader sees of a version does not depend on the page they see it on.
LEMMA SelectedLooksTheSame ==
  ASSUME NEW page, IsView(page), NEW fresh, IsView(fresh), NEW v, v \in DOMAIN page.drafts,
         LikeDrafts(page.drafts, fresh.drafts),
         page.reviewsByVersion = fresh.reviewsByVersion,
         page.scoresByVersion = fresh.scoresByVersion,
         page.revisionPlansBySourceVersion = fresh.revisionPlansBySourceVersion,
         page.status = fresh.status, page.error = fresh.error,
         page.pendingControl = fresh.pendingControl, page.bestVersion = fresh.bestVersion
  PROVE  LET here == VersionSelected(page, v)
             there == VersionSelected(fresh, v)
         IN  /\ Tabs(here) = Tabs(there)
             /\ \A tab : activeTab(here, tab) = activeTab(there, tab)
             /\ page.outcome = fresh.outcome => Header(here) = Header(there)
<1>1. PICK here, there : here = VersionSelected(page, v) /\ there = VersionSelected(fresh, v)
  OBVIOUS
<1>2. ASSUME NEW w, IsView(w), NEW x, x = VersionSelected(w, v)
      PROVE  /\ x.selectedVersion = v /\ x.drafts = w.drafts
             /\ x.reviewsByVersion = w.reviewsByVersion /\ x.scoresByVersion = w.scoresByVersion
             /\ x.revisionPlansBySourceVersion = w.revisionPlansBySourceVersion
             /\ x.status = w.status /\ x.error = w.error /\ x.outcome = w.outcome
             /\ x.pendingControl = w.pendingControl /\ x.bestVersion = w.bestVersion
  BY <1>2, ViewFields DEF VersionSelected
<1>3. /\ here.selectedVersion = v /\ here.drafts = page.drafts
      /\ here.reviewsByVersion = page.reviewsByVersion /\ here.scoresByVersion = page.scoresByVersion
      /\ here.revisionPlansBySourceVersion = page.revisionPlansBySourceVersion
      /\ here.status = page.status /\ here.error = page.error /\ here.outcome = page.outcome
      /\ here.pendingControl = page.pendingControl /\ here.bestVersion = page.bestVersion
  BY <1>1, <1>2
<1>4. /\ there.selectedVersion = v /\ there.drafts = fresh.drafts
      /\ there.reviewsByVersion = fresh.reviewsByVersion /\ there.scoresByVersion = fresh.scoresByVersion
      /\ there.revisionPlansBySourceVersion = fresh.revisionPlansBySourceVersion
      /\ there.status = fresh.status /\ there.error = fresh.error /\ there.outcome = fresh.outcome
      /\ there.pendingControl = fresh.pendingControl /\ there.bestVersion = fresh.bestVersion
  BY <1>1, <1>2
<1>5. SameShown(here, there) /\ here.selectedVersion \in DOMAIN here.drafts
  BY <1>3, <1>4 DEF SameShown
<1>6. Tabs(here) = Tabs(there) /\ \A tab : activeTab(here, tab) = activeTab(there, tab)
  BY <1>5, ShownIsTheSame
<1>7. ASSUME page.outcome = fresh.outcome PROVE Header(here) = Header(there)
  <2>1. /\ here.status = there.status /\ here.error = there.error /\ here.outcome = there.outcome
        /\ here.pendingControl = there.pendingControl /\ here.bestVersion = there.bestVersion
        /\ here.scoresByVersion = there.scoresByVersion /\ DOMAIN here.drafts = DOMAIN there.drafts
    BY <1>3, <1>4, <1>7 DEF LikeDrafts
  <2>2. VersionRail(here) = VersionRail(there)
    BY Zenon, <2>1 DEF VersionRail
  <2>3. OfferedControls(here) = OfferedControls(there)
    BY Zenon, <2>1 DEF OfferedControls
  <2>4. OutcomePanel(here) = OutcomePanel(there)
    BY <2>1 DEF OutcomePanel
  <2> QED BY <2>1, <2>2, <2>3, <2>4 DEF Header
<1> QED BY <1>1, <1>6, <1>7

\* A patient page and a new one agree about what is finished, and have read the log
\* as far, unless the run was cancelled.
LEMMA PagesKnowTheSameVersions ==
  ASSUME ProjectionInv
  PROVE  /\ KnowTheSameVersions(Settled, Fresh)
         /\ snapshot.status # "CANCELLED" => Settled.latestSequence = Fresh.latestSequence
<1>1. PICK page, fresh, s : page = Settled /\ fresh = Fresh /\ s = snapshot
  OBVIOUS
<1>2. /\ Agrees(page, s) /\ Agrees(fresh, s)
      /\ s.status # "CANCELLED" => page.latestSequence = fresh.latestSequence
  BY <1>1, SettledIs, FreshIs
<1>3. /\ page.status = fresh.status /\ page.error = fresh.error
      /\ page.reviewsByVersion = fresh.reviewsByVersion
      /\ page.scoresByVersion = fresh.scoresByVersion
      /\ page.bestVersion = fresh.bestVersion /\ page.bestScore = fresh.bestScore
  BY <1>2 DEF Agrees
<1>4. ~setup.legacy => page.outcome = fresh.outcome
  BY <1>2 DEF Agrees, OutcomeAgrees
<1> DEFINE finished(view) == {v \in DOMAIN view.drafts : view.drafts[v].complete}
           written == 1 .. Len(s.versions)
<1>5. ASSUME NEW view, HasVersions(view.drafts, s)
      PROVE  /\ finished(view) = written
             /\ \A v \in written : view.drafts[v].content = s.versions[v].content
  BY <1>5 DEF HasVersions
<1>6. FinishedTexts(page) = FinishedTexts(fresh)
  <2>1. HasVersions(page.drafts, s) /\ HasVersions(fresh.drafts, s)
    BY <1>2 DEF Agrees
  <2>2. /\ finished(page) = written /\ finished(fresh) = written
        /\ \A v \in written : page.drafts[v].content = fresh.drafts[v].content
    BY <1>5, <2>1
  <2>3. FinishedTexts(page) = [v \in finished(page) |-> page.drafts[v].content]
        /\ FinishedTexts(fresh) = [v \in finished(fresh) |-> fresh.drafts[v].content]
    BY DEF FinishedTexts
  <2> HIDE DEF finished
  <2> QED BY <2>2, <2>3
<1> QED BY <1>1, <1>2, <1>3, <1>4, <1>6 DEF KnowTheSameVersions

\* Unless the text read like the last version at some time, a page that has not missed a
\* reset has all of it.
LEMMA TextIsThere ==
  ASSUME NEW s, SnapshotOK(s), ~Repeats(s), NEW drafts, HasDrafts(drafts, s)
  PROVE  /\ DOMAIN drafts = (1 .. Len(s.versions)) \cup {v \in {s.current_iteration} : IsStarted(s)}
         /\ IsStarted(s) => drafts[s.current_iteration].content = s.current_prd
<1> DEFINE written == 1 .. Len(s.versions)
           cur == s.current_iteration
<1>1. written \subseteq DOMAIN drafts /\ DOMAIN drafts \subseteq written \cup {cur}
  BY DEF HasDrafts, HasVersions
<1>2. CASE ~IsStarted(s)
  <2>1. DOMAIN drafts = written
    BY <1>2 DEF HasDrafts, HasRest
  <2> QED BY <1>2, <2>1
<1>3. CASE IsStarted(s)
  <2>1. s.versions \in Seq(PRDVersion) /\ s.current_prd \in Seq(Seq(Nat))
    BY VersionsAre DEF HasTypes, Text
  <2>2. s.versions # <<>> => s.current_prd # Last1(s.versions).content
    BY <1>3, <2>1, Last1Is, EmptySeq DEF IsStarted
  <2>3. \A n \in 0 .. Len(s.current_prd) : ~RepeatsAt(s, n)
    BY <1>3, <2>2 DEF IsStarted, Repeats
  <2>4. cur \in DOMAIN drafts /\ drafts[cur].content = Rest(s.current_prd, 0)
    BY <1>3, <2>3 DEF HasDrafts, HasRest
  <2>5. Rest(s.current_prd, 0) = s.current_prd
    BY <2>1, TextParts
  <2> QED BY <1>1, <1>3, <2>4, <2>5
<1> QED BY <1>2, <1>3

\* They agree about the text being written as well, but for what is said of it.
LEMMA PagesHaveTheSameText ==
  ASSUME ProjectionInv, ~Repeats(snapshot), ~MissedReset(Settled, snapshot)
  PROVE  Texts(Settled) = Texts(Fresh) /\ LikeDrafts(Settled.drafts, Fresh.drafts)
<1>1. PICK page, fresh, s : page = Settled /\ fresh = Fresh /\ s = snapshot
  OBVIOUS
<1>2. PageOK(page) /\ Agrees(page, s) /\ PageOK(fresh) /\ Agrees(fresh, s)
  BY <1>1, SettledIs, FreshIs
<1>3. SnapshotOK(s) /\ HasDrafts(page.drafts, s) /\ HasDrafts(fresh.drafts, s)
  <2>1. ~MissedReset(page, s) /\ ~MissedReset(fresh, s)
    BY <1>1, FreshIs DEF MissedReset
  <2> QED BY <1>1, <1>2, <2>1 DEF Agrees, HasDrafts, ProjectionInv
<1> DEFINE written == 1 .. Len(s.versions)
           cur == s.current_iteration
           D == written \cup {v \in {cur} : IsStarted(s)}
<1>4. ASSUME NEW drafts, HasDrafts(drafts, s)
      PROVE  /\ DOMAIN drafts = D
             /\ \A v \in D : drafts[v].content = IF v \in written THEN s.versions[v].content
                                                ELSE s.current_prd
             /\ \A v \in D : /\ drafts[v].complete \in BOOLEAN
                             /\ drafts[v].complete <=> v \in written
  <2>1. /\ DOMAIN drafts = D
        /\ IsStarted(s) => drafts[cur].content = s.current_prd
    BY <1>1, <1>3, <1>4, TextIsThere
  <2>2. HasVersions(drafts, s)
    BY <1>4 DEF HasDrafts
  <2>3. ASSUME NEW v \in DOMAIN drafts
        PROVE  /\ drafts[v].complete \in BOOLEAN
               /\ v \in written => drafts[v].complete /\ drafts[v].content = s.versions[v].content
               /\ v \notin written => ~drafts[v].complete
    BY <2>2 DEF HasVersions
  <2>4. ASSUME NEW v \in D, v \notin written PROVE v = cur /\ IsStarted(s)
    BY <2>4
  <2> HIDE DEF D, written, cur
  <2> QED BY <2>1, <2>3, <2>4
<1> HIDE DEF D, written
<1>5. /\ DOMAIN page.drafts = D /\ DOMAIN fresh.drafts = D
      /\ \A v \in D : /\ page.drafts[v].content = fresh.drafts[v].content
                      /\ page.drafts[v].complete = fresh.drafts[v].complete
  <2>1. ASSUME NEW v \in D PROVE page.drafts[v].complete = fresh.drafts[v].complete
    <3>1. /\ page.drafts[v].complete \in BOOLEAN /\ fresh.drafts[v].complete \in BOOLEAN
          /\ page.drafts[v].complete <=> fresh.drafts[v].complete
      BY <1>3, <1>4
    <3> QED BY Zenon, <3>1
  <2> QED BY <1>3, <1>4, <2>1
<1>6. ASSUME NEW v \in D
      PROVE  /\ page.drafts[v] # Null /\ fresh.drafts[v] # Null
             /\ page.drafts[v].version = fresh.drafts[v].version
  <2>1. IsDraft(page.drafts, v) /\ IsDraft(fresh.drafts, v)
    BY <1>2, <1>5 DEF PageOK
  <2> QED BY <2>1, NullIsNoValue DEF IsDraft
<1>7. LikeDrafts(page.drafts, fresh.drafts)
  BY <1>5, <1>6 DEF LikeDrafts
<1>8. Texts(page) = Texts(fresh)
  BY <1>7 DEF Texts, LikeDrafts
<1> QED BY <1>1, <1>7, <1>8

\* And about the plans, if the model numbered them as it was asked to.
LEMMA PagesHaveTheSamePlans ==
  ASSUME ProjectionInv, PlansAreNumbered(snapshot)
  PROVE  Settled.revisionPlansBySourceVersion = Fresh.revisionPlansBySourceVersion
<1>1. PICK page, fresh, s : page = Settled /\ fresh = Fresh /\ s = snapshot
  OBVIOUS
<1>2. Agrees(page, s) /\ Agrees(fresh, s) /\ PlansAreNumbered(s)
  BY <1>1, SettledIs, FreshIs
<1> QED BY <1>1, <1>2 DEF Agrees, PlansAgree

\* And what they show is the same.
LEMMA PagesLookTheSame ==
  ASSUME ProjectionInv, ~Repeats(snapshot), ~MissedReset(Settled, snapshot),
         PlansAreNumbered(snapshot)
  PROVE  LookTheSame(Settled, Fresh)
<1>1. PICK page, fresh, legacy : page = Settled /\ fresh = Fresh /\ legacy = setup.legacy
  OBVIOUS
<1>2. IsView(page) /\ IsView(fresh) /\ page.pendingControl = fresh.pendingControl
  BY <1>1, SettledIs, FreshIs DEF PageOK
<1>3. /\ LikeDrafts(page.drafts, fresh.drafts)
      /\ page.reviewsByVersion = fresh.reviewsByVersion
      /\ page.scoresByVersion = fresh.scoresByVersion
      /\ page.revisionPlansBySourceVersion = fresh.revisionPlansBySourceVersion
      /\ page.status = fresh.status /\ page.error = fresh.error
      /\ page.bestVersion = fresh.bestVersion
      /\ ~setup.legacy => page.outcome = fresh.outcome
  BY <1>1, PagesKnowTheSameVersions, PagesHaveTheSameText, PagesHaveTheSamePlans
     DEF KnowTheSameVersions
<1>4. ASSUME NEW v \in DOMAIN fresh.drafts
      PROVE  LET here == VersionSelected(page, v)
                 there == VersionSelected(fresh, v)
             IN  /\ Tabs(here) = Tabs(there)
                 /\ ~setup.legacy => Header(here) = Header(there)
                 /\ \A tab \in {"review", "plan", "diff"} : activeTab(here, tab) = activeTab(there, tab)
  <2>1. v \in DOMAIN page.drafts
    BY <1>3 DEF LikeDrafts
  <2> QED BY <1>2, <1>3, <2>1, SelectedLooksTheSame
<1> QED BY <1>1, <1>4 DEF LookTheSame

\* So a reload changes nothing a reader could see, but what is said of it.
LEMMA ReloadShowsTheSame ==
  ASSUME ProjectionInv
  PROVE  ReloadAgrees
BY PagesKnowTheSameVersions, PagesHaveTheSameText, PagesHaveTheSamePlans, PagesLookTheSame
   DEF ReloadAgrees

--------------------------------------------------------------------------------
(* What the page says of findings and of the end. *)

\* The last version of a run that ended by itself is the one it was at.
LEMMA EndedWith ==
  ASSUME NEW s, SnapshotOK(s), s.status \in Ended
  PROVE  LET cur == s.current_iteration
             final == s.latest_evaluation
         IN  /\ cur \in Nat /\ cur = Len(s.versions) /\ cur \in Evaluated(s.versions)
             /\ s.versions[cur].evaluation = final /\ IsEvaluation(final)
             /\ final.reviews = s.reviews
<1> DEFINE cur == s.current_iteration
<1>1. cur = Len(s.versions) /\ s.versions[Len(s.versions)].evaluation # Null
  BY DEF SnapshotOK, EndIsJust
<1>2. cur \in Nat /\ cur \in DOMAIN s.versions
  BY <1>1, VersionsAre
<1>3. cur \in Evaluated(s.versions)
  BY <1>1, <1>2 DEF Evaluated
<1>4. /\ s.latest_evaluation = s.versions[Len(s.versions)].evaluation
      /\ s.latest_evaluation.reviews = s.reviews
  BY <1>1 DEF SnapshotOK, ReviewsAreOfTheVersion
<1>5. IsEvaluation(s.versions[cur].evaluation)
  BY <1>3, VersionsAre
<1> QED BY <1>1, <1>2, <1>3, <1>4, <1>5

\* The counts of a version are of the findings on its cards.
LEMMA CountsAreOfTheCards ==
  ASSUME NEW s, SnapshotOK(s), NEW v, v \in Evaluated(s.versions)
  PROVE  ScoresOf(s.versions)[v].severity = countSeverities(FeedbackOf(ReviewsOf(s)[v]))
<1> DEFINE e == s.versions[v].evaluation
           cur == s.current_iteration
<1>1. IsEvaluation(e) /\ v \in DOMAIN s.versions /\ e # Null
  BY VersionsAre DEF Evaluated
<1>2. v = cur => s.reviews = e.reviews
  <2>1. v = cur => cur = Len(s.versions)
    BY <1>1, VersionsAre
  <2> QED BY <1>1, <2>1 DEF SnapshotOK, ReviewsAreOfTheVersion
<1> HIDE DEF e, cur
<1>3. ReviewsOf(s)[v] = Normalized(e.reviews)
  <2>1. ReviewsOf(s)[v] = Normalized(IF v = cur THEN s.reviews ELSE e.reviews)
    BY DEF ReviewsOf, cur, e
  <2> QED BY <1>2, <2>1
<1>4. ScoresOf(s.versions)[v].severity = severitiesFromEvaluation(e)
  <2>1. ScoresOf(s.versions)[v] =
          ScoreOf(v, e.reviews, e.overall_score, severitiesFromEvaluation(e))
    BY DEF ScoresOf, e
  <2> QED BY <2>1 DEF ScoreOf
<1> QED BY <1>1, <1>3, <1>4, EvaluationCounts

\* The counts on the page are of the findings on the page.
LEMMA FindingsAreTheSame == ProjectionInv => ViewsAgreeOnFindings
<1> SUFFICES ASSUME ProjectionInv PROVE ViewsAgreeOnFindings
  OBVIOUS
<1>1. PICK page, s : page = Settled /\ s = snapshot
  OBVIOUS
<1>2. SnapshotOK(s) /\ Agrees(page, s)
  BY <1>1, SettledIs DEF ProjectionInv
<1>3. /\ page.scoresByVersion = ScoresOf(s.versions) /\ page.reviewsByVersion = ReviewsOf(s)
      /\ DOMAIN page.scoresByVersion = Evaluated(s.versions)
  <2>1. page.scoresByVersion = ScoresOf(s.versions) /\ page.reviewsByVersion = ReviewsOf(s)
    BY <1>2, ScoresAre, ReviewsAre DEF Agrees
  <2> QED BY <2>1 DEF ScoresOf
<1>4. ASSUME NEW v \in DOMAIN page.scoresByVersion
      PROVE  page.scoresByVersion[v].severity = countSeverities(FeedbackOf(page.reviewsByVersion[v]))
  BY <1>2, <1>3, CountsAreOfTheCards
<1>5. ASSUME page.outcome # Null
      PROVE  page.outcome.severity = page.scoresByVersion[MaxOf(DOMAIN page.scoresByVersion)].severity
  <2> DEFINE cur == s.current_iteration
             E == Evaluated(s.versions)
  <2>1. s.status \in Ended /\ page.outcome.severity = page.scoresByVersion[cur].severity
    BY <1>2, <1>5 DEF Agrees, OutcomeAgrees
  <2>2. cur \in E /\ E \subseteq 1 .. cur /\ cur \in Nat
    BY <1>2, <2>1, EndedWith, VersionsAre
  <2> HIDE DEF cur, E
  <2>3. MaxOf(E) = cur
    <3>1. \A m \in E : (\A x \in E : x <= m) => m = cur
      BY <2>2
    <3>2. \A x \in E : x <= cur
      BY <2>2
    <3> QED BY <2>2, <3>1, <3>2 DEF MaxOf
  <2> QED BY <1>3, <2>1, <2>3 DEF E
<1> QED BY <1>1, <1>4, <1>5 DEF ViewsAgreeOnFindings

\* What is announced of an outcome, by what it says of the gate.
LEMMA AnnouncedIs ==
  ASSUME NEW o, NEW met \in BOOLEAN, NEW blockers \in Nat, NEW passed \in BOOLEAN,
         o.thresholdMet \in BOOLEAN, o.qualityGatePassed \in BOOLEAN,
         o.thresholdMet <=> (passed \/ met), o.qualityGatePassed <=> passed,
         passed <=> (met /\ blockers = 0), o.severity["must_fix"] = blockers
  PROVE  LET panel == summarizeOutcome(o) IN
         /\ panel.tone = CASE met /\ blockers = 0 -> "passed"
                           [] met /\ blockers > 0 -> "blocked"
                           [] ~met -> "unmet"
         /\ panel.tone = "blocked" => panel.note.blockers = blockers
         /\ panel.severity["must_fix"] = blockers
<1>1. PICK word : word = tone(o)
  OBVIOUS
<1>2. word = CASE met /\ blockers = 0 -> "passed" [] met /\ blockers > 0 -> "blocked" [] ~met -> "unmet"
  <2>1. CASE met /\ blockers = 0
    BY <1>1, <2>1 DEF tone
  <2>2. CASE met /\ blockers > 0
    <3>1. ~passed /\ ~o.qualityGatePassed /\ o.thresholdMet /\ blockers # 0
      BY <2>2
    <3> QED BY <1>1, <2>2, <3>1 DEF tone
  <2>3. CASE ~met
    <3>1. ~passed /\ ~o.qualityGatePassed /\ ~o.thresholdMet
      BY <2>3
    <3> QED BY <1>1, <2>3, <3>1 DEF tone
  <2> QED BY <2>1, <2>2, <2>3
<1>3. PICK note : note = OutcomeNote(o)
  OBVIOUS
<1>4. /\ summarizeOutcome(o).tone = word /\ summarizeOutcome(o).severity = o.severity
      /\ summarizeOutcome(o).note = note
  BY <1>1, <1>3 DEF summarizeOutcome
<1>5. word = "blocked" => note.blockers = blockers
  <2> SUFFICES ASSUME word = "blocked" PROVE note.blockers = blockers
    OBVIOUS
  <2>1. note = [budget |-> TRUE, blockers |-> o.severity["must_fix"], advice |-> FALSE]
    BY Zenon, <1>1, <1>3 DEF OutcomeNote
  <2> QED BY <2>1
<1> QED BY <1>2, <1>4, <1>5

\* The outcome on the page is the one the server's gate came to.
LEMMA GateIsAnnounced == ProjectionInv => GateIsHonest
<1> SUFFICES ASSUME ProjectionInv, OutcomePanel(Settled) # Null, ~setup.legacy PROVE GateIsHonest
  BY DEF GateIsHonest
<1>1. PICK page, s, o : page = Settled /\ s = snapshot /\ o = page.outcome
  OBVIOUS
<1>2. SnapshotOK(s) /\ Agrees(page, s)
  BY <1>1, SettledIs DEF ProjectionInv
<1>3. o # Null /\ OutcomePanel(Settled) = summarizeOutcome(o)
  BY <1>1 DEF OutcomePanel
<1>4. PICK best : best = bestFromSnapshot(s)
  OBVIOUS
<1>5. s.status \in Ended /\ o = outcomeFromSnapshot(s, best)
  BY <1>1, <1>2, <1>3, <1>4 DEF Agrees, OutcomeAgrees
<1>6. PICK final, threshold : final = s.latest_evaluation /\ threshold = s.quality_threshold
  OBVIOUS
<1>7. /\ IsEvaluation(final) /\ final.reviews = s.reviews /\ final # Null
      /\ final.overall_score \in Nat /\ threshold \in Nat
  BY <1>2, <1>5, <1>6, EndedWith, EvaluationCounts, VersionsAre DEF HasTypes
<1>8. PICK passed \in BOOLEAN : passed <=> s.status = "COMPLETED"
  OBVIOUS
<1>9. PICK met \in BOOLEAN : met <=> final.overall_score >= threshold
  OBVIOUS
<1>10. PICK findings, counts : findings = FeedbackOf(s.reviews) /\ counts = severitiesFromEvaluation(final)
  OBVIOUS
<1>11. PICK blockers : blockers = Cardinality({i \in DOMAIN findings : findings[i] = "must_fix"})
  OBVIOUS
<1>12. counts \in Severities /\ SeverityCounts(final) = counts
  BY <1>7, <1>10, EvaluationCounts
<1>13. counts["must_fix"] = blockers /\ blockers \in Nat
  <2>1. final.combined_feedback = findings
    BY <1>7, <1>10 DEF IsEvaluation
  <2>2. SeverityCounts(final)["must_fix"] = blockers
    BY <1>11, <2>1 DEF SeverityCounts, FEEDBACK_SEVERITIES
  <2>3. counts["must_fix"] \in Nat
    BY <1>12 DEF Severities, FEEDBACK_SEVERITIES
  <2> QED BY <1>12, <2>2, <2>3
<1>14. passed <=> (met /\ blockers = 0)
  <2>1. s.status = "COMPLETED" <=> Passed(s)
    BY <1>2, <1>5 DEF SnapshotOK, EndIsJust
  <2>2. Passed(s) <=> (met /\ SeverityCounts(final)["must_fix"] = 0)
    BY <1>6, <1>9 DEF Passed
  <2> QED BY <1>8, <1>12, <1>13, <2>1, <2>2
<1>15. /\ o.thresholdMet \in BOOLEAN /\ o.qualityGatePassed \in BOOLEAN
       /\ (o.thresholdMet <=> (passed \/ met)) /\ (o.qualityGatePassed <=> passed)
       /\ o.severity = counts
  <2> DEFINE gate == s.status = "COMPLETED"
             over == gate \/ (final # Null /\ final.overall_score >= threshold)
             none == EMPTY_SEVERITY_COUNTS
  <2>1. o = [thresholdMet |-> over, qualityGatePassed |-> gate, qualityThreshold |-> threshold,
             completedIterations |-> s.current_iteration, maxIterations |-> s.max_iterations,
             bestVersion |-> best.version, bestScore |-> best.score,
             severity |-> IF final = Null THEN none ELSE counts]
    BY Zenon, <1>5, <1>6, <1>7, <1>10 DEF outcomeFromSnapshot, Ended
  <2>2. over \in BOOLEAN /\ gate \in BOOLEAN /\ (over <=> (passed \/ met)) /\ (gate <=> passed)
    BY <1>7, <1>8, <1>9
  <2> HIDE DEF over, gate, none
  <2> QED BY <1>7, <2>1, <2>2
<1>16. o.severity["must_fix"] = blockers
  BY <1>13, <1>15
<1>17. PICK panel : panel = summarizeOutcome(o)
  OBVIOUS
<1>18. /\ panel.tone = CASE met /\ blockers = 0 -> "passed"
                         [] met /\ blockers > 0 -> "blocked"
                         [] ~met -> "unmet"
       /\ panel.tone = "blocked" => panel.note.blockers = blockers
       /\ panel.severity["must_fix"] = blockers
  BY <1>13, <1>14, <1>15, <1>16, <1>17, AnnouncedIs
<1>19. OutcomePanel(Settled) = panel /\ snapshot.latest_evaluation = final
       /\ snapshot.quality_threshold = threshold /\ FeedbackOf(snapshot.reviews) = findings
  BY <1>1, <1>3, <1>6, <1>10, <1>17
<1>20. CASE met
  BY <1>9, <1>11, <1>18, <1>19, <1>20 DEF GateIsHonest
<1>21. CASE ~met
  BY <1>9, <1>11, <1>18, <1>19, <1>21 DEF GateIsHonest
<1> QED BY <1>20, <1>21

\* The newest of the versions a page knows of, if it is none that is finished, is the one
\* behind them.
LEMMA NewestIs ==
  ASSUME NEW n \in Nat, NEW cur \in Nat \ {0}, cur \in {n, n + 1}, NEW M,
         1 .. n \subseteq M, M \subseteq Nat, \A x \in M : x <= cur, M # {}, MaxOf(M) \notin 1 .. n
  PROVE  cur = n + 1 /\ (n # 0 => MaxOf(M) = n + 1)
<1>1. M \in SUBSET (0 .. cur)
  OBVIOUS
<1>2. \E m \in M : \A x \in M : x <= m
  <2>1. Max(M) \in M /\ \A x \in M : x <= Max(M)
    BY <1>1, MaxIsGreatest
  <2> QED BY <2>1
<1>3. MaxOf(M) \in M /\ \A x \in M : x <= MaxOf(M)
  BY <1>2 DEF MaxOf
<1>4. PICK m : m = MaxOf(M)
  OBVIOUS
<1>5. m \in Nat /\ m <= cur /\ m \notin 1 .. n /\ \A x \in 1 .. n : x <= m
  BY <1>3, <1>4
<1>6. n # 0 => n \in 1 .. n
  OBVIOUS
<1>7. cur = n + 1 /\ (n # 0 => m = n + 1)
  BY ONLY n \in Nat, cur \in Nat \ {0}, cur \in {n, n + 1}, <1>5, <1>6
<1> QED BY <1>4, <1>7

\* What the page of a run that failed knows of it.
LEMMA FailedPageKnows ==
  ASSUME NEW s, SnapshotOK(s), NEW page, PageOK(page), Agrees(page, s), page.snapshot # Null,
         FailedVersion(page) \notin CompletedVersions(page)
  PROVE  LET n == Len(s.versions) IN
         /\ n \in Nat /\ s.current_iteration = n + 1 /\ CompletedVersions(page) = 1 .. n
         /\ n # 0 => FailedVersion(page) = n + 1 /\ HasRevisionPlan(page)
<1> DEFINE n == Len(s.versions)
           cur == s.current_iteration
           old == page.snapshot
           D == DOMAIN page.drafts
           C == CompletedVersions(page)
           M == {old.current_iteration} \cup D \cup C
<1>1. n \in Nat /\ cur \in Nat \ {0} /\ cur \in {n, n + 1}
  BY VersionsAre
<1>2. /\ old.current_iteration \in Nat /\ old.current_iteration <= cur
      /\ DOMAIN old.versions \subseteq 1 .. n
      /\ \A i \in DOMAIN old.versions : old.versions[i].version = i
  <2>1. IsEarlier(old, s) /\ HasTypes(old)
    BY SnapshotTypes DEF Agrees, PageOK
  <2>2. old.versions \in Seq(PRDVersion) /\ old.current_iteration \in Nat
    BY <2>1 DEF HasTypes
  <2>3. DOMAIN old.versions = 1 .. Len(old.versions) /\ Len(old.versions) \in Nat
    BY <2>2
  <2>4. Len(old.versions) <= n
    BY <2>1 DEF IsEarlier
  <2> QED BY <1>1, <2>1, <2>2, <2>3, <2>4 DEF IsEarlier
<1>3. HasVersions(page.drafts, s) /\ HasPlans(page.revisionPlansBySourceVersion, s)
  BY AgreesIs DEF KnowsVersions
<1>4. D \subseteq (1 .. n) \cup {cur} /\ 1 .. n \subseteq D
      /\ {v \in D : page.drafts[v].complete} = 1 .. n
  <2>1. D \subseteq (1 .. n) \cup {cur} /\ 1 .. n \subseteq D
    BY <1>3 DEF HasVersions
  <2>2. \A v \in 1 .. n : page.drafts[v].complete
    BY <1>3 DEF HasVersions
  <2>3. \A v \in D \ (1 .. n) : ~page.drafts[v].complete
    BY <1>3 DEF HasVersions
  <2> HIDE DEF D, n, cur
  <2> QED BY Zenon, <2>1, <2>2, <2>3
<1> HIDE DEF n, cur, D
<1>5. C = 1 .. n
  <2>1. \A v \in VersionsOf(old) : v.version \in 1 .. n
    BY <1>2 DEF VersionsOf
  <2>2. C = {v.version : v \in VersionsOf(old)} \cup {v \in D : page.drafts[v].complete}
    BY DEF CompletedVersions, D
  <2> QED BY <1>4, <2>1, <2>2
<1>6. 1 .. n \subseteq M /\ M \subseteq Nat /\ (\A x \in M : x <= cur) /\ M # {}
  <2>1. PICK at : at = old.current_iteration
    OBVIOUS
  <2>2. M = {at} \cup D \cup (1 .. n) /\ at \in Nat /\ at <= cur
    BY <1>2, <1>5, <2>1
  <2> HIDE DEF M
  <2>3. \A x \in 1 .. n : x \in Nat /\ x <= cur
    BY <1>1
  <2>4. \A x \in D : x \in Nat /\ x <= cur
    BY <1>1, <1>4, <2>3
  <2> QED BY <2>2, <2>3, <2>4
<1>7. FailedVersion(page) = MaxOf(M)
  BY DEF FailedVersion, D
<1> HIDE DEF M, C
<1>8. cur = n + 1 /\ (n # 0 => FailedVersion(page) = n + 1)
  <2>1. MaxOf(M) \notin 1 .. n
    BY <1>5, <1>7 DEF C
  <2> QED BY <1>1, <1>6, <1>7, <2>1, NewestIs
<1>9. n # 0 => HasRevisionPlan(page)
  <2>1. DOMAIN page.revisionPlansBySourceVersion = {} <=> cur = 1
    BY <1>3 DEF HasPlans, cur
  <2>2. n # 0 => cur # 1
    BY <1>1, <1>8
  <2> QED BY <2>1, <2>2 DEF HasRevisionPlan
<1> QED BY <1>1, <1>5, <1>8, <1>9 DEF n, cur, C

\* The failure notice tells what survived.
LEMMA FailureIsTold == ProjectionInv => FailureIsHonest
<1> SUFFICES ASSUME ProjectionInv, failureNotice(Settled) # Null PROVE FailureIsHonest
  BY DEF FailureIsHonest
<1>1. PICK page, s : page = Settled /\ s = snapshot
  OBVIOUS
<1>2. SnapshotOK(s) /\ PageOK(page) /\ Agrees(page, s)
  BY <1>1, SettledIs DEF ProjectionInv
<1> DEFINE F == FailedVersion(page)
           C == CompletedVersions(page)
           kept == {v \in C : v < F}
           E == Evaluated(s.versions)
           cur == s.current_iteration
<1>3. PICK n : n = Len(s.versions)
  OBVIOUS
<1>4. page.snapshot # Null /\ F \notin C
  BY <1>1 DEF failureNotice
<1>5. /\ n \in Nat /\ cur = n + 1 /\ C = 1 .. n
      /\ n # 0 => F = n + 1 /\ HasRevisionPlan(page)
  BY <1>2, <1>3, <1>4, FailedPageKnows
<1> HIDE DEF F, C, cur
<1>6. kept = 1 .. n /\ (kept = {} <=> n = 0)
  <2>1. CASE n = 0
    BY <1>5, <2>1
  <2>2. CASE n # 0
    BY <1>5, <2>2
  <2> QED BY <2>1, <2>2
<1> HIDE DEF kept
<1>7. PICK notice : notice = failureNotice(Settled)
  OBVIOUS
<1>8. /\ notice.kept = kept /\ notice.version = IF kept = {} THEN Null ELSE F
      /\ notice.plan = (kept # {} /\ HasRevisionPlan(page))
      /\ notice.best = IF page.bestVersion \in kept THEN page.bestVersion ELSE Null
  <2> DEFINE seen == kept \cap ReviewedVersions(page) # {}
             planned == kept # {} /\ HasRevisionPlan(page)
  <2>1. notice = [version |-> IF kept = {} THEN Null ELSE F, kept |-> kept, reviews |-> seen,
                  plan |-> planned,
                  best |-> IF page.bestVersion \in kept THEN page.bestVersion ELSE Null]
    BY <1>1, <1>4, <1>7 DEF failureNotice, kept, F, C
  <2> HIDE DEF seen
  <2> QED BY Zenon, <2>1
<1>9. /\ DOMAIN s.versions = 1 .. n
      /\ \A i \in 1 .. n : s.versions[i].version = i
      /\ E \subseteq 1 .. n
      /\ VersionsOf(s) = {s.versions[i] : i \in 1 .. n}
  <2>1. DOMAIN s.versions = 1 .. n /\ \A i \in DOMAIN s.versions : s.versions[i].version = i
    BY <1>2, <1>3, VersionsAre DEF IsVersion
  <2> QED BY <2>1 DEF Evaluated, VersionsOf
<1>10. ServerVersions = 1 .. n
  BY <1>1, <1>9 DEF ServerVersions
<1> DEFINE scored == {v \in VersionsOf(s) : v.evaluation # Null}
<1>11. scored = {s.versions[i] : i \in E}
  BY <1>9 DEF Evaluated
<1>12. /\ E = {} => page.bestVersion = Null
       /\ E # {} => /\ page.bestVersion \in E
                    /\ \A i \in E : ScoreAt(s, i) <= ScoreAt(s, page.bestVersion)
  <2>1. PICK b : b = bestFromSnapshot(s)
    OBVIOUS
  <2>2. IsBest(b, s) /\ page.bestVersion = b.version
    BY <1>2, <2>1, BestIs DEF Agrees
  <2> QED BY <2>2 DEF IsBest
<1> HIDE DEF E, scored
<1>13. /\ notice.best = Null <=> scored = {}
       /\ E # {} => notice.best = page.bestVersion
  <2>1. Null \notin 1 .. n
    BY NullIsNoValue
  <2>2. E = {} => notice.best = Null
    BY <1>8, <1>12
  <2>3. E # {} => notice.best = page.bestVersion /\ page.bestVersion \in 1 .. n
    BY <1>6, <1>8, <1>9, <1>12
  <2>4. scored = {} <=> E = {}
    BY <1>11
  <2> QED BY <2>1, <2>2, <2>3, <2>4
<1>14. ASSUME NEW v \in scored, NEW w \in scored, v.version = notice.best
       PROVE  w.evaluation.overall_score <= v.evaluation.overall_score
  <2>1. PICK i \in E, j \in E : v = s.versions[i] /\ w = s.versions[j]
    BY <1>11
  <2>2. i = page.bestVersion
    BY <1>9, <1>13, <1>14, <2>1
  <2>3. ScoreAt(s, j) <= ScoreAt(s, i)
    BY <1>12, <2>1, <2>2
  <2> QED BY <2>1, <2>3 DEF ScoreAt
<1>15. n # 0 => s.pending_revision_plan # Null
  <2> SUFFICES ASSUME n # 0 PROVE s.pending_revision_plan # Null
    OBVIOUS
  <2>1. s.current_iteration # Len(s.versions) /\ s.current_iteration # 1
    BY <1>3, <1>5 DEF cur
  <2>2. IsPlanFor(s.pending_revision_plan, s.current_iteration)
    BY <1>2, <2>1 DEF SnapshotOK, VersionsAreInOrder
  <2> QED BY <2>1, <2>2, NullIsNoValue DEF IsPlanFor
<1>16. notice.plan = (ServerVersions # {} /\
                        (\/ s.pending_revision_plan # Null
                         \/ \E v \in VersionsOf(s) : v.revision_plan # Null))
  <2> DEFINE told == kept # {} /\ HasRevisionPlan(page)
             there == \/ s.pending_revision_plan # Null
                      \/ \E v \in VersionsOf(s) : v.revision_plan # Null
  <2>1. told <=> (ServerVersions # {} /\ there)
    BY <1>5, <1>6, <1>10, <1>15
  <2>2. notice.plan = told
    BY Zenon, <1>8
  <2> HIDE DEF told, there
  <2>3. told = (ServerVersions # {} /\ there)
    <3>1. told \in BOOLEAN
      BY DEF told
    <3> QED BY Zenon, <2>1, <3>1
  <2> QED BY Zenon, <2>2, <2>3 DEF there
<1>17. notice.kept = ServerVersions
       /\ notice.version = IF ServerVersions = {} THEN Null ELSE s.current_iteration
  BY <1>5, <1>6, <1>8, <1>10 DEF cur
<1> QED BY <1>1, <1>7, <1>13, <1>14, <1>16, <1>17 DEF FailureIsHonest, scored

--------------------------------------------------------------------------------
(* The properties of RunProjection. *)

\* What the server has and what the browser holds have their types at any time, and the
\* findings the browser counts and shows are of the three severities (types.ts, contracts.ts).
THEOREM TypesCorrect == Spec => []TypeOK
<1>1. Spec => []ProjectionInv
  BY ProjectionInvariant
<1>2. ProjectionInv => TypeOK
  BY TypesAre
<1> QED BY <1>1, <1>2, PTL

\* applyEvent and SNAPSHOT_LOADED compute the same facts of a run, and every panel shows
\* the same of them, wherever the reader was when the page was opened again: whatever the
\* model writes, and whichever texts read the same, but for what ReloadAgrees sets apart.
THEOREM ReloadChangesNothing == Spec => []ReloadAgrees
<1>1. Spec => []ProjectionInv
  BY ProjectionInvariant
<1>2. ProjectionInv => ReloadAgrees
  BY ReloadShowsTheSame
<1> QED BY <1>1, <1>2, PTL

\* An unfinished draft is a beginning of the text of one attempt: prd_delta counts no chunk
\* twice and mixes no two attempts, across any number of reloads, and leaves none out but
\* those that read like the version before when the page was loaded.
THEOREM DraftsOfOneAttempt == Spec => []DraftIsOneAttempt
<1>1. Spec => []ProjectionInv
  BY ProjectionInvariant
<1>2. ProjectionInv => DraftIsOneAttempt
  BY DraftsAreOfOneAttempt
<1> QED BY <1>1, <1>2, PTL

\* failureNotice names the versions that survive a failure, and the best of them.
THEOREM FailuresHonest == Spec => []FailureIsHonest
<1>1. Spec => []ProjectionInv
  BY ProjectionInvariant
<1>2. ProjectionInv => FailureIsHonest
  BY FailureIsTold
<1> QED BY <1>1, <1>2, PTL

\* summarizeOutcome announces the end the server's gate came to, and the blockers left.
THEOREM GateHonest == Spec => []GateIsHonest
<1>1. Spec => []ProjectionInv
  BY ProjectionInvariant
<1>2. ProjectionInv => GateIsHonest
  BY GateIsAnnounced
<1> QED BY <1>1, <1>2, PTL

\* The counts the page shows are of the findings it shows.
THEOREM FindingsAgree == Spec => []ViewsAgreeOnFindings
<1>1. Spec => []ProjectionInv
  BY ProjectionInvariant
<1>2. ProjectionInv => ViewsAgreeOnFindings
  BY FindingsAreTheSame
<1> QED BY <1>1, <1>2, PTL

================================================================================
