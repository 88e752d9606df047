--------------------------- MODULE AgentClientProofs ----------------------------
(***************************************************************************)
(* ClientInv is an invariant of AgentClient, and no step takes events back *)
(* from a page that stays with its run, for every number of runs, of       *)
(* events, of requests and of faults.                                      *)
(***************************************************************************)
EXTENDS AgentClientInvariant, NaturalSets

--------------------------------------------------------------------------------
(* The log. *)

\* What an event of a run carries.
LEMMA EventShape ==
  ASSUME NEW run, NEW e \in EventsOf(run)
  PROVE  /\ e.event \in StatusEvents \cup {"prd_delta", "run_failed"}
         /\ e.run_id = run /\ e.iteration = 1 /\ e.sequence \in Nat /\ e.status \in RunStatuses
         /\ e.event = "prd_delta" => DOMAIN e.payload = {"delta"} /\ e.payload.delta \in Seq(Nat)
         /\ e.event = "run_failed" => DOMAIN e.payload = {"error_code"}
         /\ e.event \in StatusEvents =>
              DOMAIN e.payload = {"current"} /\ e.payload.current \in RunStatuses
BY DEF EventsOf, EventsWith, StatusEvents

\* A run sends one more event.
Extends(run, e) ==
  /\ e \in EventsOf(run) /\ e.sequence = Len(log[run]) + 1 /\ SaysItsStatus(e)
  /\ ~isTerminalRunStatus(StatusOf(run))
  /\ log' = [log EXCEPT ![run] = Append(log[run], e)]

\* Everything that happens to the log.
LogStep ==
  \/ UNCHANGED log
  \/ \E run \in Runs \ DOMAIN log : log' = Put(log, run, <<>>)
  \/ \E run \in DOMAIN log : \E e \in EventsOf(run) : Extends(run, e)

\* Sending is such a step.
LEMMA SendExtends ==
  ASSUME LogIsOrdered, NEW run \in DOMAIN log, ~isTerminalRunStatus(StatusOf(run)),
         NEW kind, NEW status \in RunStatuses, NEW payload, Send(run, kind, status, payload),
         \/ /\ kind = "prd_delta" /\ payload \in [delta : Seq(Nat)]
            /\ ~isTerminalRunStatus(status)
         \/ kind = "run_failed" /\ payload = [error_code |-> "RUN_TIMEOUT"] /\ status = "FAILED"
         \/ /\ kind \in StatusEvents /\ payload = [current |-> status]
            /\ kind = "run_paused" => status = "PAUSED"
            /\ kind = "run_resumed" => status = "OPTIMIZING"
            /\ kind = "run_cancelled" => status = "CANCELLED"
  PROVE  LogStep /\ DOMAIN log' = DOMAIN log /\ StatusOf(run)' = status
<1> DEFINE e == [event |-> kind, run_id |-> run, sequence |-> Len(log[run]) + 1,
                 iteration |-> 1, status |-> status, payload |-> payload]
<1>1. log[run] \in Seq(EventsOf(run)) /\ Len(log[run]) + 1 \in Nat
  BY DEF LogIsOrdered
<1>2. e \in EventsOf(run)
  BY <1>1 DEF EventsOf, EventsWith, StatusEvents
<1>3. SaysItsStatus(e)
  BY DEF SaysItsStatus, StatusEvents
<1>4. log' = [log EXCEPT ![run] = Append(log[run], e)]
  BY DEF Send
<1>5. Extends(run, e)
  BY <1>2, <1>3, <1>4 DEF Extends
<1>6. /\ log'[run] = Append(log[run], e) /\ Len(log'[run]) = Len(log[run]) + 1
      /\ log'[run][Len(log'[run])] = e /\ log'[run] # <<>>
  <2>1. log'[run] = Append(log[run], e)
    BY <1>4
  <2> HIDE DEF e
  <2> QED BY <1>1, <1>2, <2>1, AppendOne
<1>7. StatusOf(run)' = status
  BY <1>6 DEF StatusOf, StatusAfter
<1> QED BY <1>2, <1>4, <1>5, <1>7 DEF LogStep

\* Joined text and prefixes of a log that grows.
LEMMA PrefixIs ==
  ASSUME NEW S, NEW s \in Seq(S), NEW n \in 0 .. Len(s)
  PROVE  /\ SubSeq(s, 1, n) \in Seq(S) /\ Len(SubSeq(s, 1, n)) = n
         /\ \A k \in 1 .. n : SubSeq(s, 1, n)[k] = s[k]
         /\ \A x \in S : SubSeq(Append(s, x), 1, n) = SubSeq(s, 1, n)
         /\ n < Len(s) => SubSeq(s, 1, n + 1) = Append(SubSeq(s, 1, n), s[n + 1])
         /\ SubSeq(s, 1, n) = <<>> <=> n = 0
<1>1. Len(s) \in Nat /\ n \in Nat /\ n <= Len(s)
  OBVIOUS
<1>2. \A k \in 1 .. Len(s) : s[k] \in S
  OBVIOUS
<1>3. /\ SubSeq(s, 1, n) \in Seq(S) /\ Len(SubSeq(s, 1, n)) = n
      /\ \A k \in 1 .. n : SubSeq(s, 1, n)[k] = s[k]
  <2>1. \A k \in 1 .. n : s[k] \in S
    BY <1>1, <1>2
  <2>2. /\ SubSeq(s, 1, n) \in Seq(S)
        /\ Len(SubSeq(s, 1, n)) = IF 1 <= n THEN n - 1 + 1 ELSE 0
        /\ \A i \in 1 .. n - 1 + 1 : SubSeq(s, 1, n)[i] = s[1 + i - 1]
    BY <1>1, <2>1, SubSeqProperties
  <2> QED BY <1>1, <2>2
<1>4. ASSUME NEW x \in S PROVE SubSeq(Append(s, x), 1, n) = SubSeq(s, 1, n)
  <2> DEFINE t == Append(s, x)
  <2>1. /\ t \in Seq(S) /\ Len(t) = Len(s) + 1 /\ \A k \in 1 .. Len(s) : t[k] = s[k]
    BY AppendOne
  <2> HIDE DEF t
  <2>2. \A k \in 1 .. n : t[k] \in S
    BY <1>1, <1>2, <2>1
  <2>3. /\ SubSeq(t, 1, n) \in Seq(S)
        /\ Len(SubSeq(t, 1, n)) = IF 1 <= n THEN n - 1 + 1 ELSE 0
        /\ \A i \in 1 .. n - 1 + 1 : SubSeq(t, 1, n)[i] = t[1 + i - 1]
    BY <1>1, <2>2, SubSeqProperties
  <2>4. Len(SubSeq(t, 1, n)) = n /\ \A k \in 1 .. n : SubSeq(t, 1, n)[k] = s[k]
    BY <1>1, <2>1, <2>3
  <2> QED BY <1>3, <2>3, <2>4, SeqEqual DEF t
<1>5. ASSUME n < Len(s) PROVE SubSeq(s, 1, n + 1) = Append(SubSeq(s, 1, n), s[n + 1])
  <2> DEFINE p == SubSeq(s, 1, n)
             q == SubSeq(s, 1, n + 1)
  <2>1. \A k \in 1 .. n + 1 : s[k] \in S
    BY <1>1, <1>2, <1>5
  <2>2. /\ q \in Seq(S)
        /\ Len(q) = IF 1 <= n + 1 THEN (n + 1) - 1 + 1 ELSE 0
        /\ \A i \in 1 .. (n + 1) - 1 + 1 : q[i] = s[1 + i - 1]
    BY <1>1, <2>1, SubSeqProperties
  <2>3. Len(q) = n + 1 /\ \A k \in 1 .. n + 1 : q[k] = s[k]
    BY <1>1, <2>2
  <2>4. s[n + 1] \in S /\ p \in Seq(S) /\ Len(p) = n
    BY <1>1, <1>3, <2>1
  <2> HIDE DEF p, q
  <2>5. /\ Append(p, s[n + 1]) \in Seq(S) /\ Len(Append(p, s[n + 1])) = n + 1
        /\ Append(p, s[n + 1])[n + 1] = s[n + 1]
        /\ \A k \in 1 .. n : Append(p, s[n + 1])[k] = p[k]
    BY <2>4, AppendOne
  <2>6. \A k \in 1 .. n + 1 : Append(p, s[n + 1])[k] = q[k]
    <3>1. ASSUME NEW k \in 1 .. n + 1 PROVE Append(p, s[n + 1])[k] = s[k]
      <4>1. k \in 1 .. n \/ k = n + 1
        BY <1>1
      <4> QED BY <1>3, <2>5, <4>1 DEF p
    <3> QED BY <2>3, <3>1
  <2>7. Append(p, s[n + 1]) = q
    BY <2>2, <2>3, <2>5, <2>6, SeqEqual
  <2> QED BY <2>7 DEF p, q
<1>6. SubSeq(s, 1, n) = <<>> <=> n = 0
  BY <1>1, <1>3, EmptySeq
<1> QED BY <1>3, <1>4, <1>5, <1>6

\* The text of a log, with one more event.
LEMMA TextGrows ==
  ASSUME NEW run, NEW s \in Seq(EventsOf(run)), NEW e \in EventsOf(run)
  PROVE  /\ TextOf(s) \in Seq(Seq(Nat))
         /\ e.event = "prd_delta" => TextOf(Append(s, e)) = Append(TextOf(s), e.payload.delta)
         /\ e.event # "prd_delta" => TextOf(Append(s, e)) = TextOf(s)
<1> DEFINE D == Deltas(s)
           t == Append(s, e)
           p == Selected(s, D)
<1>1. /\ Len(s) \in Nat /\ DOMAIN s = 1 .. Len(s) /\ DOMAIN t = 1 .. (Len(s) + 1)
      /\ t[Len(s) + 1] = e /\ \A n \in 1 .. Len(s) : t[n] = s[n] /\ s[n] \in EventsOf(run)
  BY AppendOne
<1>2. D \in SUBSET DOMAIN s /\ \A n \in D : s[n].event = "prd_delta"
  BY DEF Deltas
<1>3. /\ p \in Seq(EventsOf(run)) /\ Len(p) \in Nat /\ DOMAIN p = 1 .. Len(p)
      /\ \A k \in DOMAIN p : p[k].event = "prd_delta"
  <2> HIDE DEF D
  <2>1. /\ p \in Seq(EventsOf(run)) /\ Len(p) = Cardinality(D)
        /\ \A k \in 1 .. Cardinality(D) : Nth(D, k) \in D /\ p[k] = s[Nth(D, k)]
    BY <1>2, SelectedIs
  <2>2. Len(p) \in Nat /\ DOMAIN p = 1 .. Len(p)
    BY <2>1
  <2> QED BY <1>2, <2>1, <2>2
<1>4. \A k \in DOMAIN p : p[k] \in EventsOf(run)
  BY <1>3, ElementOfSeq
<1>5. \A k \in DOMAIN p : p[k].payload.delta \in Seq(Nat)
  BY <1>3, <1>4, EventShape
<1>6. TextOf(s) = [k \in DOMAIN p |-> p[k].payload.delta]
  BY DEF TextOf
<1>7. TextOf(s) \in Seq(Seq(Nat)) /\ Len(TextOf(s)) = Len(p)
  BY <1>3, <1>5, <1>6
<1>8. CASE e.event = "prd_delta"
  <2>1. Deltas(t) = D \cup {Len(s) + 1}
    BY <1>1, <1>8 DEF Deltas
  <2>2. Selected(t, D \cup {Len(s) + 1}) = Append(p, e)
    BY <1>2, SelectedGrows
  <2>3. /\ Append(p, e) \in Seq(EventsOf(run)) /\ DOMAIN Append(p, e) = 1 .. (Len(p) + 1)
        /\ Append(p, e)[Len(p) + 1] = e
        /\ \A k \in 1 .. Len(p) : Append(p, e)[k] = p[k]
    <3> HIDE DEF p
    <3> QED BY <1>3, AppendOne
  <2>4. TextOf(t) = [k \in 1 .. (Len(p) + 1) |-> Append(p, e)[k].payload.delta]
    BY <2>1, <2>2, <2>3 DEF TextOf
  <2>5. e.payload.delta \in Seq(Nat)
    BY <1>8, EventShape
  <2> DEFINE a == Append(TextOf(s), e.payload.delta)
  <2>6. /\ a \in Seq(Seq(Nat)) /\ Len(a) = Len(p) + 1 /\ a[Len(p) + 1] = e.payload.delta
        /\ \A k \in 1 .. Len(p) : a[k] = TextOf(s)[k]
    BY <1>7, <2>5, AppendOne
  <2> HIDE DEF a, p, t
  <2>7. \A k \in 1 .. (Len(p) + 1) : TextOf(t)[k] = Append(p, e)[k].payload.delta
    BY <2>4
  <2>8. ASSUME NEW k \in 1 .. (Len(p) + 1) PROVE TextOf(t)[k] = a[k] /\ TextOf(t)[k] \in Seq(Nat)
    <3>1. CASE k \in 1 .. Len(p)
      <4>1. TextOf(t)[k] = p[k].payload.delta /\ TextOf(s)[k] = p[k].payload.delta
        BY <1>3, <1>6, <2>3, <2>7, <3>1
      <4> QED BY <1>3, <1>5, <2>6, <3>1, <4>1
    <3>2. CASE k = Len(p) + 1
      BY <2>3, <2>5, <2>6, <2>7, <3>2
    <3>3. k \in 1 .. Len(p) \/ k = Len(p) + 1
      BY <1>3
    <3> QED BY <3>1, <3>2, <3>3
  <2>9. TextOf(t) \in Seq(Seq(Nat)) /\ Len(TextOf(t)) = Len(p) + 1
    <3>1. \A k \in 1 .. (Len(p) + 1) : Append(p, e)[k].payload.delta \in Seq(Nat)
      BY <2>7, <2>8
    <3>2. Len(p) + 1 \in Nat
      BY <1>3
    <3> QED BY <2>4, <3>1, <3>2
  <2>10. TextOf(t) = a
    BY <2>6, <2>8, <2>9, SeqEqual
  <2> QED BY <1>7, <1>8, <2>10 DEF a, t
<1>9. CASE e.event # "prd_delta"
  <2>1. Deltas(t) = D
    BY <1>1, <1>9 DEF Deltas
  <2>2. Selected(t, D) = p
    <3> HIDE DEF D
    <3> QED BY ZenonT(30), <1>2, SelectedGrows
  <2> QED BY <1>6, <1>7, <1>9, <2>1, <2>2 DEF TextOf
<1> QED BY <1>8, <1>9

\* What stays when the log grows: it is still in order, no event is taken back, and no
\* run goes on after its end.
LEMMA LogGrows ==
  ASSUME LogIsOrdered, LogStep
  PROVE  /\ LogIsOrdered' /\ DOMAIN log \subseteq DOMAIN log'
         /\ \A run \in DOMAIN log :
              /\ Len(log[run]) \in Nat /\ Len(log'[run]) \in Nat
              /\ Len(log[run]) <= Len(log'[run])
              /\ \A n \in 0 .. Len(log[run]) : SubSeq(log'[run], 1, n) = SubSeq(log[run], 1, n)
              /\ isTerminalRunStatus(StatusOf(run)) => log'[run] = log[run]
<1> USE DEF LogIsOrdered
<1>1. \A run \in DOMAIN log : log[run] \in Seq(EventsOf(run)) /\ Len(log[run]) \in Nat
  OBVIOUS
<1>2. CASE UNCHANGED log
  BY <1>1, <1>2
<1>3. ASSUME NEW run \in Runs \ DOMAIN log, log' = Put(log, run, <<>>)
      PROVE  /\ LogIsOrdered' /\ DOMAIN log \subseteq DOMAIN log'
             /\ \A other \in DOMAIN log : log'[other] = log[other]
  <2>1. /\ DOMAIN log' = DOMAIN log \cup {run} /\ log'[run] = <<>>
        /\ \A other \in DOMAIN log : log'[other] = log[other]
    BY <1>3 DEF Put
  <2>2. <<>> \in Seq(EventsOf(run)) /\ Len(<<>>) = 0
    OBVIOUS
  <2>3. \A n \in 1 .. Len(log'[run]) : FALSE
    BY <2>1, <2>2
  <2>4. ASSUME NEW other \in DOMAIN log'
        PROVE  /\ other \in Runs /\ log'[other] \in Seq(EventsOf(other))
               /\ \A n \in 1 .. Len(log'[other]) :
                    /\ log'[other][n].sequence = n /\ SaysItsStatus(log'[other][n])
                    /\ isTerminalRunStatus(log'[other][n].status) => n = Len(log'[other])
    <3>1. CASE other = run
      BY <2>1, <2>2, <2>3, <3>1
    <3>2. CASE other \in DOMAIN log
      BY <2>1, <3>2
    <3> QED BY <2>1, <3>1, <3>2
  <2>5. LogIsOrdered'
    BY <2>4
  <2> QED BY <2>1, <2>5
<1>4. ASSUME NEW run \in DOMAIN log, NEW e \in EventsOf(run), Extends(run, e)
      PROVE  /\ LogIsOrdered' /\ DOMAIN log' = DOMAIN log
             /\ Len(log'[run]) = Len(log[run]) + 1
             /\ \A n \in 0 .. Len(log[run]) : SubSeq(log'[run], 1, n) = SubSeq(log[run], 1, n)
             /\ \A other \in DOMAIN log : other # run => log'[other] = log[other]
  <2> DEFINE s == log[run]
             t == Append(s, e)
  <2>1. /\ DOMAIN log' = DOMAIN log /\ log'[run] = t
        /\ \A other \in DOMAIN log : other # run => log'[other] = log[other]
    BY <1>4 DEF Extends
  <2>2. s \in Seq(EventsOf(run)) /\ Len(s) \in Nat
    BY <1>1
  <2>3. /\ t \in Seq(EventsOf(run)) /\ Len(t) = Len(s) + 1 /\ t[Len(s) + 1] = e
        /\ \A n \in 1 .. Len(s) : t[n] = s[n]
        /\ \A n \in 1 .. Len(t) : n \in 1 .. Len(s) \/ n = Len(s) + 1
    BY <2>2, AppendOne
  <2>4. \A n \in 0 .. Len(s) : SubSeq(t, 1, n) = SubSeq(s, 1, n)
    BY <2>2, PrefixIs
  <2>5. \A n \in 1 .. Len(s) : ~isTerminalRunStatus(s[n].status)
    <3>1. SUFFICES ASSUME NEW n \in 1 .. Len(s), isTerminalRunStatus(s[n].status) PROVE FALSE
      OBVIOUS
    <3>2. n = Len(s)
      BY <3>1
    <3>3. s # <<>>
      BY <2>2, <3>1
    <3>4. StatusOf(run) = s[Len(s)].status
      BY <3>3 DEF StatusOf, StatusAfter
    <3> QED BY <1>4, <3>1, <3>2, <3>4 DEF Extends
  <2> HIDE DEF t
  <2>6. \A n \in 1 .. Len(t) :
          /\ t[n].sequence = n /\ SaysItsStatus(t[n])
          /\ isTerminalRunStatus(t[n].status) => n = Len(t)
    BY <1>4, <2>2, <2>3, <2>5 DEF Extends
  <2>7. ASSUME NEW other \in DOMAIN log'
        PROVE  /\ other \in Runs /\ log'[other] \in Seq(EventsOf(other))
               /\ \A n \in 1 .. Len(log'[other]) :
                    /\ log'[other][n].sequence = n /\ SaysItsStatus(log'[other][n])
                    /\ isTerminalRunStatus(log'[other][n].status) => n = Len(log'[other])
    <3>1. CASE other = run
      BY <2>1, <2>3, <2>6, <3>1
    <3>2. CASE other # run
      BY <2>1, <3>2
    <3> QED BY <3>1, <3>2
  <2>8. LogIsOrdered'
    BY <2>7
  <2> QED BY <2>1, <2>3, <2>4, <2>8
<1>5. ASSUME NEW run \in DOMAIN log, NEW e \in EventsOf(run), Extends(run, e)
      PROVE  ~isTerminalRunStatus(StatusOf(run))
  BY <1>5 DEF Extends
<1>6. CASE \E run \in Runs \ DOMAIN log : log' = Put(log, run, <<>>)
  BY <1>1, <1>3, <1>6
<1>7. CASE \E run \in DOMAIN log : \E e \in EventsOf(run) : Extends(run, e)
  <2>0. PICK run \in DOMAIN log : \E e \in EventsOf(run) : Extends(run, e)
    BY <1>7
  <2>1. PICK e \in EventsOf(run) : Extends(run, e)
    BY <2>0
  <2>2. /\ LogIsOrdered' /\ DOMAIN log' = DOMAIN log
        /\ Len(log'[run]) = Len(log[run]) + 1
        /\ \A n \in 0 .. Len(log[run]) : SubSeq(log'[run], 1, n) = SubSeq(log[run], 1, n)
        /\ \A other \in DOMAIN log : other # run => log'[other] = log[other]
    BY <1>4, <2>1
  <2>3. ~isTerminalRunStatus(StatusOf(run))
    BY <1>5, <2>1
  <2> QED BY <1>1, <2>2, <2>3
<1> QED BY <1>2, <1>6, <1>7 DEF LogStep

\* A run that has ended stays as it is.
LEMMA EndsStay ==
  ASSUME LogIsOrdered, LogStep
  PROVE  /\ \A run \in DOMAIN log :
              isTerminalRunStatus(StatusOf(run)) => StatusOf(run)' = StatusOf(run)
         /\ NobodyCancelled' => NobodyCancelled
<1>1. \A run \in DOMAIN log :
        isTerminalRunStatus(StatusOf(run)) => StatusOf(run)' = StatusOf(run)
  BY LogGrows DEF StatusOf
<1>2. isTerminalRunStatus("CANCELLED")
  BY DEF isTerminalRunStatus, TerminalStatuses
<1> QED BY <1>1, <1>2, LogGrows DEF NobodyCancelled

--------------------------------------------------------------------------------
(* The server goes on; the page does not. *)

\* The part of the invariant that says nothing of the requests.
PageInv ==
  /\ LogIsOrdered /\ SourcesTypeOK /\ ViewTypeOK /\ ConnectionIsTrue
  /\ PageKeepsUp /\ PageIsAPrefix

CallInv == AnswersHold /\ OneRequestIsWanted /\ NeverStranded

\* The invariant has a part about the page and a part about the requests under way,
LEMMA TwoParts == ClientInv <=> PageInv /\ CallInv
BY DEF ClientInv, PageInv, CallInv

\* now and after a step.
LEMMA TwoPartsNext == ClientInv' <=> PageInv' /\ CallInv'
BY DEF ClientInv, PageInv, CallInv

\* The page keeps its part while the server logs.
LEMMA LogAlone ==
  ASSUME PageInv, LogStep, UNCHANGED client
  PROVE  PageInv'
<1> USE DEF PageInv, client
<1>1. /\ LogIsOrdered' /\ DOMAIN log \subseteq DOMAIN log'
      /\ \A run \in DOMAIN log :
           /\ Len(log[run]) \in Nat /\ Len(log'[run]) \in Nat
           /\ Len(log[run]) <= Len(log'[run])
           /\ \A n \in 0 .. Len(log[run]) : SubSeq(log'[run], 1, n) = SubSeq(log[run], 1, n)
           /\ isTerminalRunStatus(StatusOf(run)) => log'[run] = log[run]
  BY LogGrows
<1>2. SourcesTypeOK'
  BY <1>1 DEF SourcesTypeOK
<1>3. ViewTypeOK'
  <2>1. view.runId \in {Null} \cup DOMAIN log'
    BY <1>1 DEF ViewTypeOK
  <2>2. view.runId # Null => view.latestSequence <= Len(log'[view.runId])
    BY <1>1 DEF ViewTypeOK
  <2> QED BY <2>1, <2>2 DEF ViewTypeOK
<1>4. ConnectionIsTrue'
  BY DEF ConnectionIsTrue, OneLiveSource, ConnectionIsShown, UrlIsTheRun, LiveSources
<1>5. view.snapshot # Null => view.runId \in DOMAIN log
  BY DEF ViewTypeOK
<1>6. PageKeepsUp'
  <2>1. SUFFICES ASSUME view.snapshot # Null, NobodyCancelled'
                 PROVE  PageKeepsUp'
    BY DEF PageKeepsUp
  <2>2. NobodyCancelled
    BY <2>1, EndsStay
  <2>3. isTerminalRunStatus(view.status) =>
          /\ log'[view.runId] = log[view.runId]
          /\ StatusOf(view.runId)' = StatusOf(view.runId)
    BY <1>1, <1>5, <2>1, <2>2 DEF PageKeepsUp, StatusOf
  <2> QED BY <2>1, <2>2, <2>3 DEF PageKeepsUp
<1>7. PageIsAPrefix'
  <2>1. SUFFICES ASSUME view.snapshot # Null, NobodyCancelled'
                 PROVE  PageIsAPrefix'
    BY DEF PageIsAPrefix, NobodyCancelled
  <2>2. NobodyCancelled
    BY <2>1, EndsStay
  <2>3. /\ view.latestSequence <= Len(log[view.runId])
        /\ ShownText = TextOf(Prefix(view.runId, view.latestSequence))
    BY <2>1, <2>2 DEF PageIsAPrefix, NobodyCancelled
  <2>4. view.latestSequence \in 0 .. Len(log[view.runId])
    BY <1>1, <1>5, <2>1, <2>3 DEF ViewTypeOK
  <2>5. Prefix(view.runId, view.latestSequence)' = Prefix(view.runId, view.latestSequence)
    BY <1>1, <1>5, <2>1, <2>4 DEF Prefix
  <2>6. ShownText' = TextOf(Prefix(view.runId, view.latestSequence)')
    BY <2>3, <2>5 DEF ShownText
  <2>7. view.latestSequence <= Len(log'[view.runId])
    BY <1>1, <1>5, <2>1, <2>4
  <2> QED BY <2>6, <2>7 DEF PageIsAPrefix
<1> QED BY <1>1, <1>2, <1>3, <1>4, <1>6, <1>7

\* What an answer to a request may say.
Fits(call, a) ==
  /\ a \in Answers
  /\ a # Null /\ "at" \in DOMAIN a =>
       call.run \in DOMAIN log' /\ call.run \in DOMAIN log
         /\ Len(log[call.run]) <= a.at /\ a.at <= Len(log'[call.run])
  /\ a # Null /\ "created" \in DOMAIN a => a.created \in DOMAIN log'
  /\ a # Null /\ "status" \in DOMAIN a /\ isTerminalRunStatus(a.status) =>
       call.run \in DOMAIN log' /\ StatusOf(call.run)' = "CANCELLED"

\* What was asked and answered before stays so.
LEMMA AnswersStay ==
  ASSUME ClientInv, LogStep, NEW call \in calls
  PROVE  /\ call \in Requests /\ call.session \in Nat /\ call.session <= session
         /\ call.kind \in RunCalls => call.run \in DOMAIN log'
         /\ HasAnswer(call, "at") =>
              call.run \in DOMAIN log' /\ call.answer.at <= Len(log'[call.run])
         /\ HasAnswer(call, "created") => call.answer.created \in DOMAIN log'
         /\ HasAnswer(call, "status") /\ isTerminalRunStatus(call.answer.status) =>
              call.run \in DOMAIN log' /\ StatusOf(call.run)' = "CANCELLED"
<1> USE DEF ClientInv, AnswersHold
<1>1. /\ DOMAIN log \subseteq DOMAIN log'
      /\ \A run \in DOMAIN log : /\ Len(log[run]) \in Nat /\ Len(log'[run]) \in Nat
                                 /\ Len(log[run]) <= Len(log'[run])
  BY LogGrows
<1>2. call \in Requests /\ call.session \in Nat /\ call.answer \in Answers
  BY DEF Requests
<1>3. HasAnswer(call, "at") => call.answer.at \in Nat
  BY <1>2 DEF HasAnswer, Answers
<1>4. isTerminalRunStatus("CANCELLED")
  BY DEF isTerminalRunStatus, TerminalStatuses
<1>5. HasAnswer(call, "at") =>
        call.run \in DOMAIN log' /\ call.answer.at <= Len(log'[call.run])
  <2> SUFFICES ASSUME HasAnswer(call, "at")
               PROVE  call.run \in DOMAIN log' /\ call.answer.at <= Len(log'[call.run])
    OBVIOUS
  <2>1. call.run \in DOMAIN log /\ call.answer.at <= Len(log[call.run])
    OBVIOUS
  <2> QED BY <1>1, <1>3, <2>1
<1>6. HasAnswer(call, "status") /\ isTerminalRunStatus(call.answer.status) =>
        call.run \in DOMAIN log' /\ StatusOf(call.run)' = "CANCELLED"
  BY <1>1, <1>4, EndsStay
<1> QED BY <1>1, <1>2, <1>5, <1>6

\* One request is answered, or none.
LEMMA Answered ==
  ASSUME ClientInv, LogStep, UNCHANGED client, NEW call \in calls, NEW a, Fits(call, a),
         Answer(call, a)
  PROVE  ClientInv'
<1> DEFINE new == [call EXCEPT !.answer = a]
<1>1. call \in Requests /\ a \in Answers
  BY DEF ClientInv, AnswersHold, Fits
<1>2. /\ new \in Requests /\ new.kind = call.kind /\ new.run = call.run
      /\ new.session = call.session /\ new.answer = a
  BY <1>1 DEF Requests
<1>3. calls' = (calls \ {call}) \cup {new}
  BY DEF Answer
<1> HIDE DEF new
<1>4. AnswersHold'
  <2>1. ASSUME NEW d \in calls'
        PROVE  /\ d \in Requests /\ d.session <= session'
               /\ d.kind \in RunCalls => d.run \in DOMAIN log'
               /\ HasAnswer(d, "at") =>
                    d.run \in DOMAIN log' /\ d.answer.at <= Len(log'[d.run])
               /\ HasAnswer(d, "created") => d.answer.created \in DOMAIN log'
               /\ HasAnswer(d, "status") /\ isTerminalRunStatus(d.answer.status) =>
                    d.run \in DOMAIN log' /\ StatusOf(d.run)' = "CANCELLED"
    <3>1. CASE d \in calls
      BY <3>1, AnswersStay DEF client
    <3>2. CASE d = new
      <4>1. d \in Requests /\ d.session <= session' /\ (d.kind \in RunCalls => d.run \in DOMAIN log')
        BY <1>2, <3>2, AnswersStay DEF client
      <4> QED BY <1>2, <3>2, <4>1 DEF HasAnswer, Fits
    <3> QED BY <1>3, <3>1, <3>2
  <2> QED BY <2>1 DEF AnswersHold, HasAnswer, StatusOf
<1>5. /\ \A d \in WantedCalls' : d \in WantedCalls \/ (d = new /\ call \in WantedCalls)
      /\ \A d \in WantedCalls : d # call => d \in WantedCalls'
      /\ call \in WantedCalls => new \in WantedCalls'
  BY <1>2, <1>3 DEF WantedCalls, IsWanted, client
<1>6. PageInv'
  BY TwoParts, LogAlone
<1>7. OneRequestIsWanted'
  <2> USE DEF ClientInv, OneRequestIsWanted
  <2>1. \A d, e \in WantedCalls' : d = e
    <3>1. \A d \in WantedCalls : call \in WantedCalls => d = call
      OBVIOUS
    <3>2. call \notin calls' \/ new = call
      BY <1>3
    <3>3. \A d \in WantedCalls' : call \in WantedCalls => d = new
      BY <1>5, <3>1, <3>2 DEF WantedCalls
    <3> QED BY <1>5, <3>3
  <2>2. ASSUME NEW d \in WantedCalls'
        PROVE  /\ ref' = 0
               /\ d.kind \in {"hydrate", "recover"} =>
                    /\ d.run = view'.runId
                    /\ HasAnswer(d, "at") => view'.latestSequence <= d.answer.at
               /\ d.kind = "create" => view'.runId = Null /\ view'.connection = "idle"
    <3>1. CASE d \in WantedCalls
      BY <3>1 DEF client
    <3>2. CASE d = new /\ call \in WantedCalls
      <4>1. /\ ref' = 0
            /\ d.kind \in {"hydrate", "recover"} => d.run = view'.runId
            /\ d.kind = "create" => view'.runId = Null /\ view'.connection = "idle"
        BY <1>2, <3>2 DEF client
      <4>2. ASSUME HasAnswer(d, "at"), d.kind \in {"hydrate", "recover"}
            PROVE  view'.latestSequence <= d.answer.at
        <5>1. call.run \in DOMAIN log /\ Len(log[call.run]) <= a.at /\ a.at \in Nat
          BY <1>1, <1>2, <3>2, <4>2 DEF Fits, HasAnswer, Answers
        <5>2. view.latestSequence \in Nat /\ view.latestSequence <= Len(log[call.run])
          <6>1. call.run = view.runId /\ call.run \in Runs
            BY <1>2, <3>2, <4>2, <5>1 DEF LogIsOrdered
          <6> QED BY <5>1, <6>1, NullAssumption DEF ViewTypeOK
        <5>3. Len(log[call.run]) \in Nat
          BY <5>1, LogGrows
        <5> QED BY <1>2, <3>2, <5>1, <5>2, <5>3 DEF client
      <4> QED BY <4>1, <4>2
    <3> QED BY <1>5, <3>1, <3>2
  <2>3. view'.runId # Null /\ view'.snapshot = Null => \E d \in WantedCalls' : d.kind = "hydrate"
    BY <1>2, <1>5 DEF client
  <2> QED BY <2>1, <2>2, <2>3 DEF HasAnswer
<1>8. NeverStranded'
  <2>1. LiveSources' = LiveSources /\ view' = view
    BY DEF LiveSources, client
  <2>2. WantedCalls' = {} <=> WantedCalls = {}
    BY <1>5
  <2>3. (\E d \in WantedCalls : d.kind = "create") => \E d \in WantedCalls' : d.kind = "create"
    BY <1>2, <1>5
  <2>4. (\E d \in calls : d.kind \in Controls) => \E d \in calls' : d.kind \in Controls
    BY <1>2, <1>3
  <2> QED BY <2>1, <2>2, <2>3, <2>4 DEF ClientInv, NeverStranded
<1> QED BY <1>4, <1>6, <1>7, <1>8, TwoPartsNext DEF CallInv

\* A server that logs and answers nothing keeps the invariant.
LEMMA NothingAnswered ==
  ASSUME ClientInv, LogStep, UNCHANGED <<client, calls>>
  PROVE  ClientInv'
<1>1. PageInv'
  BY TwoParts, LogAlone
<1>2. AnswersHold'
  BY AnswersStay DEF AnswersHold, client, HasAnswer, StatusOf
<1>3. WantedCalls' = WantedCalls /\ LiveSources' = LiveSources
  BY DEF WantedCalls, IsWanted, LiveSources, client
<1>4. OneRequestIsWanted' /\ NeverStranded'
  BY <1>3 DEF ClientInv, OneRequestIsWanted, NeverStranded, client, HasAnswer
<1> QED BY <1>1, <1>2, <1>4, TwoPartsNext DEF CallInv

\* A run has a status.
LEMMA StatusIs ==
  ASSUME LogIsOrdered, NEW run \in DOMAIN log
  PROVE  StatusOf(run) \in RunStatuses /\ Len(log[run]) \in Nat
<1>1. log[run] \in Seq(EventsOf(run)) /\ Len(log[run]) \in Nat
  BY DEF LogIsOrdered
<1>2. CASE log[run] = <<>>
  BY <1>1, <1>2 DEF StatusOf, StatusAfter, RunStatuses, LiveStatuses, PausableStatuses
<1>3. CASE log[run] # <<>>
  <2>1. Len(log[run]) \in 1 .. Len(log[run])
    BY <1>1, <1>3, EmptySeq
  <2>2. log[run][Len(log[run])] \in EventsOf(run)
    BY <1>1, <2>1, ElementOfSeq
  <2> QED BY <1>1, <1>3, <2>2, EventShape DEF StatusOf, StatusAfter
<1> QED BY <1>2, <1>3

\* What the runs do keeps the invariant.
LEMMA RunGoesOn ==
  ASSUME ClientInv, ServerStep
  PROVE  ClientInv'
<1> USE DEF ClientInv
<1>1. PICK run \in DOMAIN log : Write(run) \/ Park(run) \/ Fail(run)
  BY DEF ServerStep
<1>2. StatusOf(run) \in RunStatuses /\ Len(log[run]) \in Nat
  BY StatusIs
<1>3. CASE Write(run)
  <2>1. ~isTerminalRunStatus(StatusOf(run))
    BY <1>3 DEF Write, isTerminalRunStatus, TerminalStatuses
  <2>2. [delta |-> <<Len(log[run]) + 1>>] \in [delta : Seq(Nat)]
    BY <1>2
  <2>3. LogStep
    BY <1>2, <1>3, <2>1, <2>2, SendExtends DEF Write
  <2> QED BY <1>3, <2>3, NothingAnswered DEF Write
<1>4. CASE Park(run)
  <2>1. ~isTerminalRunStatus(StatusOf(run)) /\ "PAUSED" \in RunStatuses
    BY <1>4 DEF Park, isTerminalRunStatus, TerminalStatuses, RunStatuses, LiveStatuses
  <2>2. LogStep
    BY <1>4, <2>1, SendExtends DEF Park, StatusEvents
  <2> QED BY <1>4, <2>2, NothingAnswered DEF Park
<1>5. CASE Fail(run)
  <2>1. LogStep
    BY <1>5, SendExtends DEF Fail, RunStatuses, TerminalStatuses
  <2> QED BY <1>5, <2>1, NothingAnswered DEF Fail
<1> QED BY <1>1, <1>3, <1>4, <1>5

\* Answers that change nothing of a run.
LEMMA Refusals ==
  ASSUME ClientInv, UNCHANGED <<log, client>>, NEW call \in calls,
         NEW a, a \in Answers, a # Null => "at" \notin DOMAIN a /\ "created" \notin DOMAIN a,
         a # Null /\ "status" \in DOMAIN a =>
           ~isTerminalRunStatus(a.status)
             \/ (call.run \in DOMAIN log /\ StatusOf(call.run) = "CANCELLED"),
         Answer(call, a)
  PROVE  ClientInv'
<1>1. LogStep
  BY DEF LogStep
<1>2. Fits(call, a)
  BY DEF Fits, StatusOf
<1> QED BY <1>1, <1>2, Answered

\* A request that is answered, or lost, keeps the invariant.
LEMMA ServerAnswers ==
  ASSUME ClientInv, NEW call \in calls, AnswerStep(call) \/ LoseCall(call)
  PROVE  ClientInv'
<1> USE DEF ClientInv
<1>1. call \in Requests /\ (call.kind \in RunCalls => call.run \in DOMAIN log)
  BY DEF AnswersHold
<1> DEFINE run == call.run
           status == StatusOf(call.run)
<1>2. call.run \in DOMAIN log => StatusOf(call.run) \in RunStatuses /\ Len(log[call.run]) \in Nat
  BY StatusIs
<1>3. CASE AnswerGetRun(call)
  <2>1. call.run \in DOMAIN log /\ LogStep
    BY <1>1, <1>3 DEF AnswerGetRun, Asked, RunCalls, LogStep
  <2> DEFINE a == [at |-> Len(log[call.run])]
  <2>2. Fits(call, a)
    BY <1>2, <1>3, <2>1 DEF Fits, Answers, AnswerGetRun
  <2> QED BY <1>3, <2>1, <2>2, Answered DEF AnswerGetRun
<1>4. CASE AnswerCreateRun(call)
  <2>1. CASE DOMAIN log = Runs
    <3>1. [code |-> "RUN_CAPACITY_REACHED"] \in Answers
      BY DEF Answers
    <3> QED BY <1>4, <2>1, <3>1, Refusals DEF AnswerCreateRun
  <2>2. CASE DOMAIN log # Runs
    <3> DEFINE new == CHOOSE r \in Runs : r \notin DOMAIN log
    <3>1. new \in Runs \ DOMAIN log
      BY <2>2 DEF LogIsOrdered
    <3> HIDE DEF new
    <3>2. log' = Put(log, new, <<>>) /\ Answer(call, [created |-> new])
      BY <1>4, <2>2 DEF AnswerCreateRun, new
    <3>3. LogStep /\ new \in DOMAIN log'
      BY <3>1, <3>2 DEF LogStep, Put
    <3>4. Fits(call, [created |-> new])
      BY <3>1, <3>3 DEF Fits, Answers
    <3> QED BY <1>4, <3>2, <3>3, <3>4, Answered DEF AnswerCreateRun
  <2> QED BY <2>1, <2>2
<1>5. CASE AnswerPause(call)
  <2>1. run \in DOMAIN log /\ status \in RunStatuses /\ UNCHANGED client
    BY <1>1, <1>2, <1>5 DEF AnswerPause, Asked, RunCalls
  <2>2. CASE /\ UNCHANGED log
             /\ \E a \in Answers :
                  /\ Answer(call, a)
                  /\ "at" \notin DOMAIN a /\ "created" \notin DOMAIN a
                  /\ "status" \in DOMAIN a => ~isTerminalRunStatus(a.status)
    BY <2>1, <2>2, Refusals
  <2>3. CASE /\ status \in PausableStatuses
             /\ Send(run, "pause_requested", "PAUSE_REQUESTED", [current |-> "PAUSE_REQUESTED"])
             /\ Answer(call, [status |-> "PAUSE_REQUESTED"])
    <3>1. /\ ~isTerminalRunStatus(status) /\ "PAUSE_REQUESTED" \in RunStatuses
          /\ ~isTerminalRunStatus("PAUSE_REQUESTED")
      BY <2>3 DEF isTerminalRunStatus, TerminalStatuses, PausableStatuses, RunStatuses, LiveStatuses
    <3>2. LogStep
      BY <2>1, <2>3, <3>1, SendExtends DEF StatusEvents
    <3>3. Fits(call, [status |-> "PAUSE_REQUESTED"])
      BY <3>1 DEF Fits, Answers
    <3> QED BY <2>1, <2>3, <3>2, <3>3, Answered
  <2>4. /\ [code |-> "RUN_TERMINAL"] \in Answers /\ [code |-> "RUN_NOT_PAUSABLE"] \in Answers
        /\ [status |-> status] \in Answers
        /\ status \in {"PAUSE_REQUESTED", "PAUSED"} => ~isTerminalRunStatus(status)
    BY <2>1 DEF Answers, isTerminalRunStatus, TerminalStatuses
  <2> QED BY <1>5, <2>2, <2>3, <2>4 DEF AnswerPause
<1>6. CASE AnswerResume(call)
  <2>1. run \in DOMAIN log /\ status \in RunStatuses /\ UNCHANGED client
    BY <1>1, <1>2, <1>6 DEF AnswerResume, Asked, RunCalls
  <2>2. CASE status # "PAUSED"
    <3>1. [code |-> "RUN_NOT_PAUSED"] \in Answers
      BY DEF Answers
    <3> QED BY <1>6, <2>1, <2>2, <3>1, Refusals DEF AnswerResume
  <2>3. CASE status = "PAUSED"
    <3>1. /\ ~isTerminalRunStatus(status) /\ "OPTIMIZING" \in RunStatuses
          /\ ~isTerminalRunStatus("OPTIMIZING")
      BY <2>3 DEF isTerminalRunStatus, TerminalStatuses, PausableStatuses, RunStatuses, LiveStatuses
    <3>2. /\ Send(run, "run_resumed", "OPTIMIZING", [current |-> "OPTIMIZING"])
          /\ Answer(call, [status |-> "OPTIMIZING"])
      BY <1>6, <2>3 DEF AnswerResume
    <3>3. LogStep
      BY <2>1, <3>1, <3>2, SendExtends DEF StatusEvents
    <3>4. Fits(call, [status |-> "OPTIMIZING"])
      BY <3>1 DEF Fits, Answers
    <3> QED BY <2>1, <3>2, <3>3, <3>4, Answered
  <2> QED BY <2>2, <2>3
<1>7. CASE AnswerCancel(call)
  <2>1. run \in DOMAIN log /\ status \in RunStatuses /\ UNCHANGED client
    BY <1>1, <1>2, <1>7 DEF AnswerCancel, Asked, RunCalls
  <2>2. CASE status = "CANCELLED"
    <3>1. [status |-> status] \in Answers
      BY <2>1 DEF Answers
    <3> QED BY <1>7, <2>1, <2>2, <3>1, Refusals DEF AnswerCancel
  <2>3. CASE status \in {"COMPLETED", "MAX_ITERATIONS_REACHED", "FAILED"}
    <3>1. [code |-> "RUN_TERMINAL"] \in Answers
      BY DEF Answers
    <3> QED BY <1>7, <2>1, <2>3, <3>1, Refusals DEF AnswerCancel
  <2>4. CASE status = "CANCEL_REQUESTED"
    <3>1. ~isTerminalRunStatus(status) /\ "CANCELLED" \in RunStatuses
      BY <2>4 DEF isTerminalRunStatus, TerminalStatuses, RunStatuses
    <3>2. /\ Send(run, "run_cancelled", "CANCELLED", [current |-> "CANCELLED"])
          /\ Answer(call, [status |-> "CANCELLED"])
      BY <1>7, <2>4 DEF AnswerCancel
    <3>3. LogStep /\ DOMAIN log' = DOMAIN log /\ StatusOf(run)' = "CANCELLED"
      BY <2>1, <3>1, <3>2, SendExtends DEF StatusEvents
    <3>4. Fits(call, [status |-> "CANCELLED"])
      BY <2>1, <3>1, <3>3 DEF Fits, Answers
    <3> QED BY <2>1, <3>2, <3>3, <3>4, Answered
  <2>5. CASE status \notin {"CANCELLED", "COMPLETED", "MAX_ITERATIONS_REACHED", "FAILED",
                            "CANCEL_REQUESTED"}
    <3>1. ~isTerminalRunStatus(status) /\ "CANCEL_REQUESTED" \in RunStatuses
      BY <2>5 DEF isTerminalRunStatus, TerminalStatuses, RunStatuses, LiveStatuses
    <3>2. /\ Send(run, "status_changed", "CANCEL_REQUESTED", [current |-> "CANCEL_REQUESTED"])
          /\ UNCHANGED calls
      BY <1>7, <2>5 DEF AnswerCancel
    <3>3. LogStep
      BY <2>1, <3>1, <3>2, SendExtends DEF StatusEvents
    <3> QED BY <2>1, <3>2, <3>3, NothingAnswered
  <2> QED BY <2>2, <2>3, <2>4, <2>5
<1>8. CASE LoseCall(call)
  <2>1. [code |-> "NETWORK_ERROR"] \in Answers
    BY DEF Answers
  <2> QED BY <1>8, <2>1, Refusals DEF LoseCall
<1> QED BY <1>3, <1>4, <1>5, <1>6, <1>7, <1>8 DEF AnswerStep

--------------------------------------------------------------------------------
(* What the actions of the reducer do to the fields the invariant speaks of. *)

IsView(v) == DOMAIN v = DOMAIN initialRunViewState

Keeps(v, w, fields) == \A field \in fields : w[field] = v[field]

Fields == {"runId", "snapshot", "status", "latestSequence", "drafts", "connection",
           "isCreating", "pendingControl"}

\* The view a page starts with.
LEMMA InitialView ==
  /\ IsView(initialRunViewState)
  /\ initialRunViewState.runId = Null /\ initialRunViewState.snapshot = Null
  /\ initialRunViewState.status = Null /\ initialRunViewState.latestSequence = 0
  /\ initialRunViewState.drafts = EmptyMap /\ initialRunViewState.connection = "idle"
  /\ initialRunViewState.isCreating = FALSE /\ initialRunViewState.pendingControl = Null
BY DEF IsView, initialRunViewState

\* A view has the fields its updates name.
LEMMA ViewHasFields ==
  ASSUME NEW v, IsView(v)
  PROVE  Fields \cup {"error"} \subseteq DOMAIN v
BY DEF IsView, initialRunViewState, Fields

\* What RUN_SELECTED leaves of a view.
LEMMA RunSelectedIs ==
  ASSUME NEW v, NEW run
  PROVE  /\ IsView(RunSelected(v, run)) /\ RunSelected(v, run).runId = run
         /\ RunSelected(v, run).snapshot = Null /\ RunSelected(v, run).latestSequence = 0
         /\ RunSelected(v, run).connection = "connecting"
         /\ RunSelected(v, run).isCreating \in BOOLEAN /\ ~RunSelected(v, run).isCreating
         /\ RunSelected(v, run).pendingControl = Null
BY DEF IsView, RunSelected, initialRunViewState

\* What CREATE_STARTED changes of a view.
LEMMA CreateStartedIs ==
  ASSUME NEW v
  PROVE  /\ IsView(CreateStarted(v)) /\ CreateStarted(v).runId = Null
         /\ CreateStarted(v).snapshot = Null /\ CreateStarted(v).latestSequence = 0
         /\ CreateStarted(v).connection = "idle"
         /\ CreateStarted(v).isCreating = TRUE /\ CreateStarted(v).pendingControl = Null
BY DEF IsView, CreateStarted, initialRunViewState

\* What CONNECTION_CHANGED changes of a view.
LEMMA ConnectionChangedIs ==
  ASSUME NEW v, IsView(v), NEW c
  PROVE  /\ IsView(ConnectionChanged(v, c)) /\ ConnectionChanged(v, c).connection = c
         /\ Keeps(v, ConnectionChanged(v, c), Fields \ {"connection"})
BY ViewHasFields DEF IsView, ConnectionChanged, Keeps, Fields

\* What ERROR changes of a view.
LEMMA ErroredIs ==
  ASSUME NEW v, IsView(v), NEW message
  PROVE  /\ IsView(Errored(v, message))
         /\ Errored(v, message).isCreating \in BOOLEAN /\ ~Errored(v, message).isCreating
         /\ Errored(v, message).pendingControl = Null
         /\ Keeps(v, Errored(v, message), Fields \ {"isCreating", "pendingControl"})
BY ViewHasFields DEF IsView, Errored, Keeps, Fields

\* What CLEAR_ERROR changes of a view.
LEMMA ClearErrorIs ==
  ASSUME NEW v, IsView(v)
  PROVE  IsView(ClearError(v)) /\ Keeps(v, ClearError(v), Fields)
BY ViewHasFields DEF IsView, ClearError, Keeps, Fields

\* What CONTROL_STARTED changes of a view.
LEMMA ControlStartedIs ==
  ASSUME NEW v, IsView(v), NEW control
  PROVE  /\ IsView(ControlStarted(v, control))
         /\ Keeps(v, ControlStarted(v, control), Fields \ {"pendingControl"})
BY ViewHasFields DEF IsView, ControlStarted, Keeps, Fields

\* What CONTROL_FINISHED changes of a view.
LEMMA ControlFinishedIs ==
  ASSUME NEW v, IsView(v)
  PROVE  /\ IsView(ControlFinished(v)) /\ ControlFinished(v).pendingControl = Null
         /\ Keeps(v, ControlFinished(v), Fields \ {"pendingControl"})
BY ViewHasFields DEF IsView, ControlFinished, Keeps, Fields

\* What STATUS_UPDATED changes of a view.
LEMMA StatusUpdatedIs ==
  ASSUME NEW v, IsView(v), NEW status
  PROVE  /\ IsView(StatusUpdated(v, status)) /\ StatusUpdated(v, status).status = status
         /\ Keeps(v, StatusUpdated(v, status), Fields \ {"status", "pendingControl"})
BY ViewHasFields DEF IsView, StatusUpdated, Keeps, Fields

\* What a snapshot of a run shows after n of its events.
LEMMA SnapshotIs ==
  ASSUME LogIsOrdered, NEW run \in DOMAIN log, NEW n \in 0 .. Len(log[run])
  PROVE  /\ SnapshotAt(run, n) # Null
         /\ SnapshotAt(run, n).status \in RunStatuses
         /\ isTerminalRunStatus(SnapshotAt(run, n).status) =>
              n = Len(log[run]) /\ isTerminalRunStatus(StatusOf(run))
<1> DEFINE p == Prefix(run, n)
           t == TextOf(p)
<1>1. /\ run \in Runs /\ log[run] \in Seq(EventsOf(run)) /\ Len(log[run]) \in Nat /\ n \in Nat
      /\ \A k \in 1 .. Len(log[run]) :
           isTerminalRunStatus(log[run][k].status) => k = Len(log[run])
  BY DEF LogIsOrdered
<1>2. /\ p \in Seq(EventsOf(run)) /\ Len(p) = n /\ \A k \in 1 .. n : p[k] = log[run][k]
      /\ p = <<>> <=> n = 0
  BY <1>1, PrefixIs DEF Prefix
<1>3. t \in Text
  <2>1. CASE EventsOf(run) = {}
    <3>1. p = <<>>
      <4>1. CASE n # 0
        <5>1. p[n] \in EventsOf(run)
          BY <1>1, <1>2, <4>1, ElementOfSeq
        <5> QED BY <2>1, <5>1
      <4> QED BY <1>2, <4>1
    <3>2. Deltas(p) = {} /\ Cardinality({}) = 0
      BY <3>1, FS_EmptySet DEF Deltas
    <3>3. t = <<>>
      BY <3>2 DEF TextOf, Selected
    <3> QED BY <3>3 DEF Text
  <2>2. CASE EventsOf(run) # {}
    BY <1>2, <2>2, TextGrows DEF Text
  <2> QED BY <2>1, <2>2
<1>4. StatusAfter(p) \in RunStatuses
  <2>1. CASE n = 0
    BY <1>2, <2>1 DEF StatusAfter, RunStatuses, LiveStatuses, PausableStatuses
  <2>2. CASE n # 0
    <3>1. p[n] \in EventsOf(run)
      BY <1>1, <1>2, <2>2, ElementOfSeq
    <3> QED BY <1>2, <2>2, <3>1, EventShape DEF StatusAfter
  <2> QED BY <2>1, <2>2
<1>5. SnapshotAt(run, n) \in Snapshots /\ SnapshotAt(run, n).status = StatusAfter(p)
  BY <1>1, <1>3, <1>4 DEF SnapshotAt, Snapshots
<1>6. ASSUME isTerminalRunStatus(StatusAfter(p))
      PROVE  n = Len(log[run]) /\ isTerminalRunStatus(StatusOf(run))
  <2>1. n # 0
    BY <1>2, <1>6 DEF StatusAfter, isTerminalRunStatus, TerminalStatuses
  <2>2. StatusAfter(p) = log[run][n].status /\ n \in 1 .. n /\ n \in 1 .. Len(log[run])
    BY <1>1, <1>2, <2>1 DEF StatusAfter
  <2>3. n = Len(log[run])
    BY <1>1, <1>6, <2>2
  <2>4. log[run] # <<>>
    BY <2>1, <2>3, EmptySeq
  <2> QED BY <1>6, <2>2, <2>3, <2>4 DEF StatusOf, StatusAfter
<1> QED BY <1>4, <1>5, <1>6, NullAssumption

\* The text a view has.
DraftText(v) == IF 1 \in DOMAIN v.drafts THEN v.drafts[1].content ELSE <<>>

\* Of the drafts there may be one only, still being written by its first attempt.
OneDraft(v) ==
  /\ DOMAIN v.drafts \subseteq {1}
  /\ 1 \in DOMAIN v.drafts => v.drafts[1].attempt = 1 /\ v.drafts[1].complete = FALSE

\* What SNAPSHOT_LOADED changes of a view.
LEMMA SnapshotLoadedIs ==
  ASSUME NEW v, IsView(v), NEW run, NEW n,
         NEW w, w = SnapshotLoaded(v, SnapshotAt(run, n))
  PROVE  /\ IsView(w) /\ w.runId = run /\ w.snapshot = SnapshotAt(run, n)
         /\ w.status = SnapshotAt(run, n).status /\ w.latestSequence = n
         /\ w.isCreating \in BOOLEAN /\ ~w.isCreating
         /\ w.pendingControl = Null /\ w.connection = v.connection
         /\ OneDraft(w) /\ DraftText(w) = TextOf(Prefix(run, n))
<1> DEFINE s == SnapshotAt(run, n)
           drafts == draftsFromSnapshot(s)
<1>1. /\ s.run_id = run /\ s.latest_event_sequence = n /\ s.versions = <<>>
      /\ s.current_prd = TextOf(Prefix(run, n)) /\ s.current_prd_attempt = 1
      /\ s.current_iteration = 1
  BY DEF SnapshotAt
<1> HIDE DEF s
<1>2. /\ IsView(w) /\ w.runId = s.run_id /\ w.snapshot = s /\ w.status = s.status
      /\ w.latestSequence = s.latest_event_sequence /\ w.isCreating = FALSE
      /\ w.pendingControl = Null /\ w.connection = v.connection /\ w.drafts = drafts
  <2> HIDE DEF drafts
  <2>1. w = SnapshotLoaded(v, s) /\ drafts = draftsFromSnapshot(s)
    BY DEF s, drafts
  <2> QED BY ZenonT(30), <2>1, ViewHasFields DEF SnapshotLoaded, IsView, Fields
<1>3. DOMAIN versionsFromSnapshot(s.versions) = {}
  <2>1. DOMAIN s.versions = {}
    BY <1>1
  <2> QED BY <2>1 DEF versionsFromSnapshot, FromEntries
<1>4. Last1(s.versions) = Null
  BY <1>1 DEF Last1
<1>5. IsUnfinishedDraft(s, versionsFromSnapshot(s.versions)) <=> s.current_prd # <<>>
  BY <1>1, <1>3, <1>4 DEF IsUnfinishedDraft
<1>6. CASE s.current_prd = <<>>
  <2>1. DOMAIN drafts = {}
    BY <1>3, <1>5, <1>6 DEF draftsFromSnapshot
  <2> QED BY <1>1, <1>2, <1>6, <2>1 DEF OneDraft, DraftText, s
<1>7. CASE s.current_prd # <<>>
  <2>1. /\ DOMAIN drafts = {1} /\ drafts[1].attempt = 1 /\ drafts[1].complete = FALSE
        /\ drafts[1].content = s.current_prd
    BY <1>1, <1>3, <1>5, <1>7 DEF draftsFromSnapshot, Put
  <2> QED BY <1>1, <1>2, <2>1 DEF OneDraft, DraftText, s
<1> QED BY <1>6, <1>7

\* An event the page counts.
LEMMA EventAppliedIs ==
  ASSUME NEW v, IsView(v), NEW run, NEW e \in EventsOf(run), SaysItsStatus(e),
         NEW w, w = applyEvent(v, e)
  PROVE  /\ IsView(w) /\ Keeps(v, w, {"runId", "snapshot", "isCreating", "pendingControl"})
         /\ w.latestSequence = e.sequence
         /\ w.connection = v.connection \/ e.event \in ENDINGS
         /\ e.event = "prd_delta" => w.status = v.status
         /\ e.event # "prd_delta" => w.status = e.status /\ w.drafts = v.drafts
         /\ e.event = "prd_delta" /\ OneDraft(v) =>
              OneDraft(w) /\ DraftText(w) = Append(DraftText(v), e.payload.delta)
<1> DEFINE next == [v EXCEPT !.latestSequence = e.sequence,
                             !.events = Logged(@, e), !.error = Null]
<1>1. /\ e.event \in StatusEvents \cup {"prd_delta", "run_failed"} /\ e.iteration = 1
      /\ e.status \in RunStatuses
      /\ e.event = "prd_delta" => DOMAIN e.payload = {"delta"}
      /\ e.event \in StatusEvents =>
           DOMAIN e.payload = {"current"} /\ e.payload.current = e.status
  BY EventShape DEF SaysItsStatus
<1>2. /\ IsView(next) /\ next.latestSequence = e.sequence
      /\ Keeps(v, next, Fields \ {"latestSequence"})
  BY ViewHasFields DEF IsView, Keeps, Fields, initialRunViewState
<1>3. Fields \cup {"error"} \subseteq DOMAIN next
  BY <1>2, ViewHasFields
<1> HIDE DEF next
<1>4. CASE e.event = "prd_delta"
  <2>1. numberPayload(e.payload, "version", e.iteration) = 1
        /\ numberPayload(e.payload, "attempt", 1) = 1
    BY <1>1, <1>4 DEF numberPayload, Sent
  <2>2. w = PrdDelta(next, 1, e.payload)
    BY <1>4, <2>1 DEF applyEvent, next
  <2>3. /\ IsView(w) /\ Keeps(next, w, Fields \ {"drafts"})
    BY <1>2, <1>3, <2>2 DEF PrdDelta, IsView, Keeps, Fields
  <2>4. ASSUME OneDraft(v)
        PROVE  OneDraft(w) /\ DraftText(w) = Append(DraftText(v), e.payload.delta)
    <3>1. next.drafts = v.drafts
      BY <1>2 DEF Keeps, Fields
    <3>2. w.drafts = Put(next.drafts, 1,
             [version |-> 1, attempt |-> 1,
              content |-> Append(IF 1 \in DOMAIN next.drafts THEN next.drafts[1].content
                                 ELSE <<>>, e.payload.delta), complete |-> FALSE])
      BY <1>2, <1>3, <2>1, <2>2, <2>4, <3>1 DEF PrdDelta, OneDraft, Fields
    <3>3. /\ DOMAIN w.drafts = {1} /\ w.drafts[1].attempt = 1 /\ w.drafts[1].complete = FALSE
          /\ w.drafts[1].content = Append(DraftText(v), e.payload.delta)
      BY <2>4, <3>1, <3>2 DEF Put, OneDraft, DraftText
    <3> QED BY <3>3 DEF OneDraft, DraftText
  <2> QED BY <1>2, <1>4, <2>3, <2>4 DEF Keeps, Fields
<1>5. CASE e.event = "run_failed"
  <2>1. w = RunFailed(next, e.payload)
    BY <1>5 DEF applyEvent, next
  <2>2. /\ IsView(w) /\ Keeps(next, w, Fields \ {"status", "connection"}) /\ w.status = "FAILED"
    BY <1>2, <1>3, <2>1 DEF RunFailed, IsView, Keeps, Fields
  <2> QED BY <1>2, <1>5, <2>2 DEF Keeps, Fields, SaysItsStatus, ENDINGS
<1>6. CASE e.event = "run_cancelled"
  <2>1. w = [next EXCEPT !.status = "CANCELLED", !.connection = "closed"]
    BY <1>6 DEF applyEvent, next
  <2>2. /\ IsView(w) /\ Keeps(next, w, Fields \ {"status", "connection"})
        /\ w.status = "CANCELLED"
    BY <1>2, <1>3, <2>1 DEF IsView, Keeps, Fields
  <2> QED BY <1>2, <1>6, <2>2 DEF Keeps, Fields, SaysItsStatus, ENDINGS
<1>7. CASE e.event \in StatusEvents \ {"run_cancelled"}
  <2>1. w = [next EXCEPT !.status = e.status]
    <3>1. CASE e.event \in {"status_changed", "pause_requested"}
      <4>1. w = StatusChanged(next, e.payload)
        BY <3>1 DEF applyEvent, next
      <4>2. Sent(e.payload, "current") /\ e.payload.current = e.status
        BY <1>1, <1>7, NullAssumption DEF Sent
      <4> QED BY <4>1, <4>2 DEF StatusChanged
    <3>2. CASE e.event = "run_paused"
      BY <3>2 DEF applyEvent, next, SaysItsStatus
    <3>3. CASE e.event = "run_resumed"
      BY <3>3 DEF applyEvent, next, SaysItsStatus
    <3> QED BY <1>7, <3>1, <3>2, <3>3 DEF StatusEvents
  <2>2. IsView(w) /\ Keeps(next, w, Fields \ {"status"}) /\ w.status = e.status
    BY <1>2, <1>3, <2>1 DEF IsView, Keeps, Fields
  <2>3. e.event # "prd_delta"
    BY <1>7 DEF StatusEvents
  <2> QED BY <1>2, <2>2, <2>3 DEF Keeps, Fields
<1> QED BY <1>1, <1>4, <1>5, <1>6, <1>7

--------------------------------------------------------------------------------
(* Sources. *)

SourcesOK(all) ==
  /\ IsFiniteSet(DOMAIN all) /\ DOMAIN all \subseteq Nat \ {0}
  /\ \A i \in DOMAIN all : all[i] \in EventSources /\ all[i].run \in DOMAIN log

Live(all) == {i \in DOMAIN all : all[i].state # "closed"}

\* Closing a source leaves the other live ones alone.
LEMMA ClosingIs ==
  ASSUME LogIsOrdered, NEW all, SourcesOK(all), NEW id \in {0} \cup DOMAIN all
  PROVE  SourcesOK(Closing(all, id)) /\ Live(Closing(all, id)) = Live(all) \ {id}
<1>1. CASE id = 0
  BY <1>1 DEF Closing, SourcesOK, Live
<1>2. CASE id # 0
  <2> DEFINE rest == {j \in DOMAIN all \ {id} : all[j].state # "closed"}
             closed == [all[id] EXCEPT !.state = "closed", !.errors = 0,
                                       !.sent = Len(log[all[id].run])]
             D == IF Buffering(closed) THEN rest \cup {id} ELSE rest
             c == [i \in D |-> IF i = id THEN closed ELSE all[i]]
  <2>1. Closing(all, id) = c
    BY <1>2 DEF Closing
  <2>2. id \in DOMAIN all /\ all[id] \in EventSources /\ all[id].run \in DOMAIN log
    BY <1>2 DEF SourcesOK
  <2>3. Len(log[all[id].run]) \in Nat
    BY <2>2 DEF LogIsOrdered
  <2>4. closed \in EventSources /\ closed.run \in DOMAIN log /\ closed.state = "closed"
    BY <2>2, <2>3 DEF EventSources
  <2>5. D \subseteq DOMAIN all /\ D \subseteq rest \cup {id} /\ rest \subseteq D
    BY <2>2
  <2>6. IsFiniteSet(D) /\ D \subseteq Nat \ {0}
    BY <2>5, FS_Subset DEF SourcesOK
  <2> HIDE DEF closed, D
  <2>7. \A i \in D : c[i] \in EventSources /\ c[i].run \in DOMAIN log
    BY <2>4, <2>5 DEF SourcesOK
  <2>8. Live(c) = Live(all) \ {id}
    BY <2>4, <2>5 DEF Live
  <2> QED BY <2>1, <2>6, <2>7, <2>8 DEF SourcesOK
<1> QED BY <1>1, <1>2

\* The id of a new source is free.
LEMMA FreshIdIs ==
  ASSUME NEW all, IsFiniteSet(DOMAIN all)
  PROVE  FreshId(all) \in Nat \ {0} /\ FreshId(all) \notin DOMAIN all
<1> DEFINE n == Cardinality(DOMAIN all)
<1>1. n \in Nat
  BY FS_CardinalityType
<1>2. \E i \in 1 .. n + 1 : i \notin DOMAIN all
  <2>1. SUFFICES ASSUME 1 .. n + 1 \subseteq DOMAIN all PROVE FALSE
    OBVIOUS
  <2>2. Cardinality(1 .. n + 1) = n + 1
    <3>1. ASSUME NEW m \in Nat PROVE Cardinality(1 .. m) = m
      BY FS_Interval
    <3>2. n + 1 \in Nat
      BY <1>1
    <3> HIDE DEF n
    <3> QED BY <3>1, <3>2
  <2>3. Cardinality(1 .. n + 1) <= n
    BY <2>1, FS_Subset
  <2> QED BY <1>1, <2>2, <2>3
<1>3. FreshId(all) \in 1 .. n + 1 /\ FreshId(all) \notin DOMAIN all
  BY <1>2 DEF FreshId
<1> QED BY <1>1, <1>3

\* connect leaves one live source, the new one.
LEMMA ConnectIs ==
  ASSUME LogIsOrdered, SourcesOK(sources), ref \in {0} \cup DOMAIN sources,
         Live(sources) \subseteq {ref}, session \in Nat,
         NEW run \in DOMAIN log, NEW n \in Nat, connect(run, n)
  PROVE  /\ SourcesOK(sources') /\ ref' \in Nat \ {0} /\ Live(sources') = {ref'}
         /\ sources'[ref'].run = run /\ sources'[ref'].session = session
         /\ sources'[ref'].state = "connecting" /\ sources'[ref'].cursor = n
<1> DEFINE closed == Closing(sources, ref)
           new == [run |-> run, session |-> session, state |-> "connecting", cursor |-> n,
                   sent |-> 0, errors |-> 0]
<1>1. SourcesOK(closed) /\ Live(closed) = {}
  BY ClosingIs
<1>2. ref' = FreshId(closed) /\ sources' = Put(closed, ref', new)
  BY DEF connect
<1>3. new \in EventSources /\ new.run \in DOMAIN log
  BY DEF EventSources, LogIsOrdered
<1> HIDE DEF closed
<1>4. ref' \in Nat \ {0} /\ ref' \notin DOMAIN closed
  BY <1>1, <1>2, FreshIdIs DEF SourcesOK
<1>5. /\ DOMAIN sources' = DOMAIN closed \cup {ref'} /\ sources'[ref'] = new
      /\ \A i \in DOMAIN closed : sources'[i] = closed[i]
  BY <1>2, <1>4 DEF Put
<1>6. IsFiniteSet(DOMAIN sources')
  BY <1>1, <1>5, FS_AddElement DEF SourcesOK
<1>7. SourcesOK(sources')
  BY <1>1, <1>3, <1>4, <1>5, <1>6 DEF SourcesOK
<1>8. Live(sources') = {ref'}
  BY <1>1, <1>5 DEF Live
<1> QED BY <1>4, <1>5, <1>7, <1>8

\* The sources of a state that has the invariant.
LEMMA SourcesNow ==
  ASSUME ClientInv
  PROVE  /\ SourcesOK(sources) /\ session \in Nat /\ ref \in {0} \cup DOMAIN sources
         /\ Live(sources) = LiveSources /\ Live(sources) \subseteq {ref}
         /\ ref = 0 <=> Live(sources) = {}
BY DEF ClientInv, SourcesTypeOK, SourcesOK, ConnectionIsTrue, OneLiveSource, LiveSources, Live

--------------------------------------------------------------------------------
(* What the parts of the invariant need of a step of the page. *)

\* A request that has just been made.
IsNewCall(call) ==
  /\ call.answer = Null /\ call.session = session'
  /\ call \in Requests /\ (call.kind \in RunCalls => call.run \in DOMAIN log)

\* The answers under way stay true of a log that stays.
LEMMA AnswersHoldNext ==
  ASSUME ClientInv, UNCHANGED log, session' \in Nat,
         \A call \in calls' : (call \in calls /\ session <= session') \/ IsNewCall(call)
  PROVE  AnswersHold'
<1>1. ASSUME NEW call \in calls'
      PROVE  /\ call \in Requests /\ call.session <= session'
             /\ call.kind \in RunCalls => call.run \in DOMAIN log
             /\ HasAnswer(call, "at") =>
                  call.run \in DOMAIN log /\ call.answer.at <= Len(log[call.run])
             /\ HasAnswer(call, "created") => call.answer.created \in DOMAIN log
             /\ HasAnswer(call, "status") /\ isTerminalRunStatus(call.answer.status) =>
                  call.run \in DOMAIN log /\ StatusOf(call.run) = "CANCELLED"
  <2>1. CASE call \in calls /\ session <= session'
    <3>1. /\ call \in Requests /\ call.session <= session /\ session \in Nat
          /\ call.session \in Nat
      BY <2>1 DEF ClientInv, AnswersHold, SourcesTypeOK, Requests
    <3>2. call.session <= session'
      BY <2>1, <3>1
    <3> QED BY <2>1, <3>1, <3>2 DEF ClientInv, AnswersHold
  <2>2. CASE IsNewCall(call)
    BY <2>2 DEF IsNewCall, HasAnswer
  <2> QED BY <1>1, <2>1, <2>2
<1> QED BY <1>1 DEF AnswersHold, HasAnswer, StatusOf

\* A page without a source and without a request has what it needs to offer a retry.
LEMMA NeverStrandedNext ==
  ASSUME ViewTypeOK', OneRequestIsWanted', ConnectionIsTrue',
         view'.connection \in {"connecting", "recovering"} =>
           LiveSources' # {} \/ WantedCalls' # {},
         view'.isCreating => \E call \in WantedCalls' : call.kind = "create",
         view'.pendingControl # Null => \E call \in calls' : call.kind \in Controls
  PROVE  NeverStranded'
<1>1. ASSUME view'.runId # Null, LiveSources' = {}, WantedCalls' = {}
      PROVE  isTerminalRunStatus(view'.status) \/ OffersRetry(view')
  <2>1. view'.snapshot # Null
    BY <1>1 DEF OneRequestIsWanted
  <2>2. view'.status \in RunStatuses
    BY <2>1 DEF ViewTypeOK
  <2>3. view'.connection # "open"
    BY <1>1 DEF ConnectionIsTrue, ConnectionIsShown, OneLiveSource
  <2> QED BY <1>1, <2>1, <2>2, <2>3, NullAssumption DEF OffersRetry, Screen
<1> QED BY <1>1 DEF NeverStranded

\* What the view shows of the run is as before.
LEMMA ShownStays ==
  ASSUME ClientInv, UNCHANGED log, IsView(view'),
         Keeps(view, view', {"runId", "snapshot", "latestSequence", "drafts"}),
         view'.status = view.status
           \/ (view'.status \in RunStatuses
                 /\ (isTerminalRunStatus(view'.status) => ~NobodyCancelled)),
         view'.connection \in {"idle", "connecting", "open", "recovering", "closed"},
         view'.isCreating \in BOOLEAN,
         ref' = 0 \/ (ref' = ref /\ sources'[ref].cursor = sources[ref].cursor)
  PROVE  ViewTypeOK' /\ PageKeepsUp' /\ PageIsAPrefix'
<1> USE DEF ClientInv
<1>1. /\ view'.runId = view.runId /\ view'.snapshot = view.snapshot
      /\ view'.latestSequence = view.latestSequence /\ view'.drafts = view.drafts
  BY DEF Keeps
<1>2. ViewTypeOK'
  BY <1>1 DEF ViewTypeOK, IsView
<1>3. NobodyCancelled' = NobodyCancelled /\ \A run : StatusOf(run)' = StatusOf(run)
  BY DEF NobodyCancelled, StatusOf
<1>4. PageKeepsUp'
  BY <1>1, <1>3 DEF PageKeepsUp, isTerminalRunStatus
<1>5. ShownText' = ShownText /\ Prefix(view.runId, view.latestSequence)' =
        Prefix(view.runId, view.latestSequence)
  BY <1>1 DEF ShownText, Prefix
<1>6. PageIsAPrefix'
  BY <1>1, <1>3, <1>5 DEF PageIsAPrefix, Prefix
<1> QED BY <1>2, <1>4, <1>6

--------------------------------------------------------------------------------
(* The connection after a step. *)

\* No source is left, and the page does not say there is.
LEMMA Disconnected ==
  ASSUME UNCHANGED log, SourcesOK(sources'), session' \in Nat, ref' = 0, Live(sources') = {},
         view'.connection # "open", url' = view'.runId
  PROVE  SourcesTypeOK' /\ ConnectionIsTrue' /\ LiveSources' = {}
BY DEF SourcesOK, Live, SourcesTypeOK, ConnectionIsTrue, OneLiveSource, ConnectionIsShown,
       UrlIsTheRun, LiveSources

\* The current source is the only one, and the page says what it is.
LEMMA Connected ==
  ASSUME UNCHANGED log, SourcesOK(sources'), session' \in Nat, ref' \in Nat \ {0},
         Live(sources') = {ref'},
         sources'[ref'].run = view'.runId, sources'[ref'].session = session',
         view'.connection \notin {"recovering", "closed"},
         view'.connection = "open" => sources'[ref'].state = "open", url' = view'.runId
  PROVE  SourcesTypeOK' /\ ConnectionIsTrue' /\ LiveSources' = {ref'}
<1>1. LiveSources' = {ref'}
  BY DEF Live, LiveSources
<1>2. SourcesTypeOK'
  BY DEF SourcesOK, SourcesTypeOK
<1>3. OneLiveSource'
  BY <1>1 DEF OneLiveSource
<1>4. ConnectionIsShown' /\ UrlIsTheRun'
  BY DEF ConnectionIsShown, UrlIsTheRun
<1> QED BY <1>1, <1>2, <1>3, <1>4 DEF ConnectionIsTrue

\* closeSource leaves no source alive.
LEMMA closeSourceIs ==
  ASSUME ClientInv, closeSource
  PROVE  ref' = 0 /\ SourcesOK(sources') /\ Live(sources') = {}
<1>1. SourcesOK(sources) /\ ref \in {0} \cup DOMAIN sources /\ Live(sources) \subseteq {ref}
  BY SourcesNow
<1>2. LogIsOrdered
  BY DEF ClientInv
<1>3. SourcesOK(Closing(sources, ref)) /\ Live(Closing(sources, ref)) = Live(sources) \ {ref}
  BY <1>1, <1>2, ClosingIs
<1> QED BY <1>1, <1>3 DEF closeSource

--------------------------------------------------------------------------------
(* The reader. *)

\* A page that starts anew: what was asked before is not wanted any more.
LEMMA NewSession ==
  ASSUME ClientInv, UNCHANGED log, session' \in Nat,
         NEW asked, \A c, d \in asked : c = d, asked \subseteq calls',
         \A c \in asked : IsNewCall(c) /\ c.kind \in {"hydrate", "create"},
         \A c \in calls' : c \in asked \/ (c \in calls /\ session < session'),
         ref' = 0, SourcesOK(sources'), Live(sources') = {},
         view'.connection # "open", url' = view'.runId,
         ViewTypeOK', PageKeepsUp', PageIsAPrefix',
         \A c \in asked : c.kind = "hydrate" => c.run = view'.runId,
         \A c \in asked : c.kind = "create" => view'.runId = Null /\ view'.connection = "idle",
         view'.runId # Null /\ view'.snapshot = Null => \E c \in asked : c.kind = "hydrate",
         view'.connection \in {"connecting", "recovering"} => asked # {},
         view'.isCreating => \E c \in asked : c.kind = "create",
         view'.pendingControl # Null => \E c \in calls' : c.kind \in Controls
  PROVE  ClientInv'
<1>1. SourcesTypeOK' /\ ConnectionIsTrue' /\ LiveSources' = {}
  BY Disconnected
<1>2. WantedCalls' = asked
  <2>1. \A c \in asked : c \in WantedCalls'
    BY DEF WantedCalls, IsWanted, IsNewCall
  <2>2. ASSUME NEW c \in calls', c \notin asked PROVE c.session # session'
    <3>1. c.session \in Nat /\ c.session <= session /\ session \in Nat
      BY <2>2 DEF ClientInv, AnswersHold, Requests, SourcesTypeOK
    <3> QED BY <2>2, <3>1
  <2> QED BY <2>1, <2>2 DEF WantedCalls, IsWanted
<1>3. OneRequestIsWanted'
  BY <1>2 DEF OneRequestIsWanted, IsNewCall, HasAnswer
<1>4. AnswersHold'
  <2>1. session \in Nat
    BY DEF ClientInv, SourcesTypeOK
  <2>2. \A c \in calls' : (c \in calls /\ session <= session') \/ IsNewCall(c)
    BY <2>1
  <2> QED BY <2>2, AnswersHoldNext
<1>5. NeverStranded'
  BY <1>1, <1>2, <1>3, NeverStrandedNext
<1>6. LogIsOrdered'
  BY DEF ClientInv, LogIsOrdered
<1> QED BY <1>1, <1>3, <1>4, <1>5, <1>6 DEF ClientInv

\* A page that shows nothing of a run yet is not wrong about it.
LEMMA BlankPage ==
  ASSUME LogIsOrdered, UNCHANGED log, IsView(view'), view'.snapshot = Null,
         view'.runId \in {Null} \cup DOMAIN log, view'.latestSequence = 0,
         view'.connection \in {"idle", "connecting"}, view'.isCreating \in BOOLEAN
  PROVE  ViewTypeOK' /\ PageKeepsUp' /\ PageIsAPrefix'
<1>1. \A run \in DOMAIN log : 0 <= Len(log[run])
  BY DEF LogIsOrdered
<1> QED BY <1>1 DEF ViewTypeOK, PageKeepsUp, PageIsAPrefix, IsView

\* Selecting a run keeps the invariant.
LEMMA selectRunKeeps ==
  ASSUME ClientInv, NEW run \in DOMAIN log, selectRun(run)
  PROVE  ClientInv'
<1> DEFINE c == Call("hydrate", run)
           asked == {c}
<1>1. /\ session \in Nat /\ session' = session + 1 /\ UNCHANGED log /\ url' = run
      /\ view' = RunSelected(view, run) /\ calls' = calls \cup {c} /\ LogIsOrdered
      /\ run \in Runs
  BY DEF selectRun, ClientInv, SourcesTypeOK, LogIsOrdered
<1>2. ref' = 0 /\ SourcesOK(sources') /\ Live(sources') = {}
  BY closeSourceIs DEF selectRun
<1>3. IsNewCall(c) /\ c.kind = "hydrate" /\ c.run = run
  BY <1>1 DEF Call, IsNewCall, Requests, RunCalls, Answers, Maybe
<1>4. /\ IsView(view') /\ view'.runId = run /\ view'.snapshot = Null
      /\ view'.latestSequence = 0 /\ view'.connection = "connecting"
      /\ view'.isCreating = FALSE /\ view'.pendingControl = Null
  BY <1>1, RunSelectedIs
<1>5. ViewTypeOK' /\ PageKeepsUp' /\ PageIsAPrefix'
  BY <1>1, <1>4, BlankPage
<1> HIDE DEF c
<1>6. /\ \A d \in asked : IsNewCall(d) /\ d.kind = "hydrate" /\ d.run = run
      /\ \A d, e \in asked : d = e
      /\ asked \subseteq calls' /\ asked # {} /\ \E d \in asked : d.kind = "hydrate"
      /\ \A d \in calls' : d \in asked \/ (d \in calls /\ session < session')
  BY <1>1, <1>3
<1> HIDE DEF asked
<1> QED BY <1>1, <1>2, <1>4, <1>5, <1>6, NewSession

\* Asking for a run keeps the invariant.
LEMMA createRunKeeps ==
  ASSUME ClientInv, createRun
  PROVE  ClientInv'
<1> DEFINE c == Call("create", Null)
           asked == {c}
<1>1. /\ session \in Nat /\ session' = session + 1 /\ UNCHANGED log /\ url' = url
      /\ view' = CreateStarted(view) /\ calls' = calls \cup {c} /\ LogIsOrdered
      /\ url = Null
  BY DEF createRun, ClientInv, SourcesTypeOK, Screen, ConnectionIsTrue, UrlIsTheRun
<1>2. ref' = 0 /\ SourcesOK(sources') /\ Live(sources') = {}
  BY closeSourceIs DEF createRun
<1>3. IsNewCall(c) /\ c.kind = "create"
  BY <1>1 DEF Call, IsNewCall, Requests, RunCalls, Answers, Maybe
<1>4. /\ IsView(view') /\ view'.runId = Null /\ view'.snapshot = Null
      /\ view'.latestSequence = 0 /\ view'.connection = "idle"
      /\ view'.isCreating = TRUE /\ view'.pendingControl = Null
  BY <1>1, CreateStartedIs
<1>5. ViewTypeOK' /\ PageKeepsUp' /\ PageIsAPrefix'
  BY <1>1, <1>4, BlankPage
<1> HIDE DEF c
<1>6. /\ \A d \in asked : IsNewCall(d) /\ d.kind = "create"
      /\ \A d, e \in asked : d = e
      /\ asked \subseteq calls' /\ asked # {} /\ \E d \in asked : d.kind = "create"
      /\ \A d \in calls' : d \in asked \/ (d \in calls /\ session < session')
  BY <1>1, <1>3
<1> HIDE DEF asked
<1> QED BY <1>1, <1>2, <1>4, <1>5, <1>6, NewSession

\* Leaving for a new run keeps the invariant.
LEMMA newRunKeeps ==
  ASSUME ClientInv, newRun
  PROVE  ClientInv'
<1> DEFINE asked == {}
<1>1. /\ session \in Nat /\ session' = session + 1 /\ UNCHANGED log /\ url' = Null
      /\ view' = initialRunViewState /\ calls' = calls /\ LogIsOrdered
  BY DEF newRun, ClientInv, SourcesTypeOK, Reset
<1>2. ref' = 0 /\ SourcesOK(sources') /\ Live(sources') = {}
  BY closeSourceIs DEF newRun
<1>3. /\ IsView(view') /\ view'.runId = Null /\ view'.snapshot = Null
      /\ view'.latestSequence = 0 /\ view'.connection = "idle"
      /\ view'.isCreating = FALSE /\ view'.pendingControl = Null
  BY <1>1, InitialView
<1>4. ViewTypeOK' /\ PageKeepsUp' /\ PageIsAPrefix'
  BY <1>1, <1>3, BlankPage
<1>5. /\ \A d \in asked : IsNewCall(d) /\ d.kind = "hydrate" /\ d.run = view'.runId
      /\ \A d, e \in asked : d = e
      /\ asked \subseteq calls'
      /\ \A d \in calls' : d \in asked \/ (d \in calls /\ session < session')
  BY <1>1
<1> HIDE DEF asked
<1> QED BY <1>1, <1>2, <1>3, <1>4, <1>5, NewSession

\* Opening the page again keeps the invariant.
LEMMA ReloadKeeps ==
  ASSUME ClientInv, Reload
  PROVE  ClientInv'
<1> DEFINE c == Call("hydrate", url)
           asked == IF url = Null THEN {} ELSE {c}
<1>1. /\ session' \in Nat /\ UNCHANGED log /\ url' = url /\ calls' = asked /\ LogIsOrdered
      /\ ref' = 0 /\ url \in {Null} \cup DOMAIN log /\ sources' = EmptyMap
      /\ view' = IF url = Null THEN initialRunViewState ELSE RunSelected(initialRunViewState, url)
  BY DEF Reload, MountWith, ClientInv, ViewTypeOK, ConnectionIsTrue, UrlIsTheRun
<1>2. SourcesOK(sources') /\ Live(sources') = {}
  BY <1>1, FS_EmptySet DEF SourcesOK, Live, EmptyMap
<1>3. url # Null => IsNewCall(c) /\ c.kind = "hydrate" /\ c.run = url
  BY <1>1 DEF Call, IsNewCall, Requests, RunCalls, Answers, Maybe, LogIsOrdered
<1>4. /\ IsView(view') /\ view'.runId = url /\ view'.snapshot = Null
      /\ view'.latestSequence = 0
      /\ view'.connection = IF url = Null THEN "idle" ELSE "connecting"
      /\ view'.isCreating = FALSE /\ view'.pendingControl = Null
  <2>1. CASE url = Null
    BY <1>1, <2>1, InitialView
  <2>2. CASE url # Null
    BY <1>1, <2>2, RunSelectedIs
  <2> QED BY <2>1, <2>2
<1>5. ViewTypeOK' /\ PageKeepsUp' /\ PageIsAPrefix'
  BY <1>1, <1>4, BlankPage
<1> HIDE DEF c
<1>6. \A d, e \in asked : d = e
  OBVIOUS
<1>7. \A d \in asked : IsNewCall(d) /\ d.kind = "hydrate" /\ d.run = url /\ url # Null
  BY <1>3
<1>8. url # Null => \E d \in asked : d.kind = "hydrate"
  BY <1>3
<1>9. asked \subseteq calls' /\ \A d \in calls' : d \in asked
  BY <1>1
<1>10. url # Null => asked # {}
  BY <1>8
<1> HIDE DEF asked
<1> QED BY <1>1, <1>2, <1>4, <1>5, <1>6, <1>7, <1>8, <1>9, <1>10, NewSession

\* Trying the connection again keeps the invariant.
LEMMA retryConnectionKeeps ==
  ASSUME ClientInv, retryConnection
  PROVE  ClientInv'
<1> DEFINE c == Call("hydrate", view.runId)
           asked == {c}
<1>1. /\ session \in Nat /\ session' = session + 1 /\ UNCHANGED log /\ url' = url
      /\ view' = ConnectionChanged(ClearError(view), "recovering") /\ calls' = calls \cup {c}
      /\ LogIsOrdered /\ url = view.runId /\ view.runId \in DOMAIN log
  BY DEF retryConnection, OffersRetry, Screen, ClientInv, SourcesTypeOK, ConnectionIsTrue,
         UrlIsTheRun, ViewTypeOK
<1>2. ref' = 0 /\ SourcesOK(sources') /\ Live(sources') = {}
  BY closeSourceIs DEF retryConnection
<1>3. IsNewCall(c) /\ c.kind = "hydrate" /\ c.run = view.runId
  BY <1>1 DEF Call, IsNewCall, Requests, RunCalls, Answers, Maybe, LogIsOrdered
<1>4. IsView(view)
  BY DEF ClientInv, ViewTypeOK, IsView
<1>5. /\ IsView(view') /\ view'.connection = "recovering"
      /\ Keeps(view, view', Fields \ {"connection"})
  <2>1. IsView(ClearError(view)) /\ Keeps(view, ClearError(view), Fields)
    BY <1>4, ClearErrorIs
  <2>2. /\ IsView(view') /\ view'.connection = "recovering"
        /\ Keeps(ClearError(view), view', Fields \ {"connection"})
    BY <1>1, <2>1, ConnectionChangedIs
  <2> QED BY <2>1, <2>2 DEF Keeps
<1>6. view.isCreating = FALSE
  <2>1. view.runId # Null
    BY <1>1, NullAssumption DEF LogIsOrdered
  <2> QED BY <2>1 DEF ClientInv, NeverStranded, OneRequestIsWanted, ViewTypeOK
<1>7. /\ view'.runId = view.runId /\ view'.snapshot = view.snapshot
      /\ view'.status = view.status /\ view'.isCreating = FALSE
      /\ view'.pendingControl = view.pendingControl
      /\ Keeps(view, view', {"runId", "snapshot", "latestSequence", "drafts"})
  BY <1>5, <1>6 DEF Keeps, Fields
<1>8. ViewTypeOK' /\ PageKeepsUp' /\ PageIsAPrefix'
  BY <1>1, <1>2, <1>5, <1>7, ShownStays
<1>9. view'.pendingControl # Null => \E d \in calls' : d.kind \in Controls
  BY <1>1, <1>7 DEF ClientInv, NeverStranded
<1> HIDE DEF c
<1>10. /\ \A d \in asked : IsNewCall(d) /\ d.kind = "hydrate" /\ d.run = view'.runId
       /\ \A d, e \in asked : d = e
       /\ asked \subseteq calls' /\ asked # {} /\ \E d \in asked : d.kind = "hydrate"
       /\ \A d \in calls' : d \in asked \/ (d \in calls /\ session < session')
  BY <1>1, <1>3, <1>7
<1> HIDE DEF asked
<1> QED BY <1>1, <1>2, <1>5, <1>7, <1>8, <1>9, <1>10, NewSession

--------------------------------------------------------------------------------
(* Steps within a session. *)

\* What is enough for the invariant after a step within a session.
LEMMA SameSession ==
  ASSUME ClientInv, UNCHANGED <<log, session>>,
         SourcesTypeOK', ConnectionIsTrue', ViewTypeOK', PageKeepsUp', PageIsAPrefix',
         OneRequestIsWanted',
         \A c \in calls' : c \in calls \/ IsNewCall(c),
         view'.connection \in {"connecting", "recovering"} =>
           LiveSources' # {} \/ WantedCalls' # {},
         view'.isCreating => \E c \in WantedCalls' : c.kind = "create",
         view'.pendingControl # Null => \E c \in calls' : c.kind \in Controls
  PROVE  ClientInv'
<1>1. session' \in Nat /\ session <= session'
  BY DEF ClientInv, SourcesTypeOK
<1>2. AnswersHold'
  BY <1>1, AnswersHoldNext
<1>3. NeverStranded'
  BY NeverStrandedNext
<1>4. LogIsOrdered'
  BY DEF ClientInv, LogIsOrdered
<1> QED BY <1>2, <1>3, <1>4 DEF ClientInv

\* What the page waits for is as before.
LEMMA WantedSame ==
  ASSUME ClientInv, WantedCalls' = WantedCalls,
         view'.runId = view.runId, view'.snapshot = view.snapshot,
         \/ WantedCalls = {}
         \/ /\ ref' = ref /\ view'.latestSequence = view.latestSequence
            /\ view'.connection = view.connection
  PROVE  OneRequestIsWanted'
BY DEF ClientInv, OneRequestIsWanted, HasAnswer

\* A page that has its snapshot may want nothing.
LEMMA NothingWanted ==
  ASSUME WantedCalls' = {}, view'.runId # Null => view'.snapshot # Null
  PROVE  OneRequestIsWanted'
BY DEF OneRequestIsWanted

\* With a source, the page shows a run and waits for nothing.
LEMMA WithSource ==
  ASSUME ClientInv, ref # 0
  PROVE  /\ ref \in DOMAIN sources /\ Live(sources) = {ref}
         /\ sources[ref] \in EventSources /\ sources[ref].session = session
         /\ sources[ref].run = view.runId /\ view.runId \in DOMAIN log /\ view.runId # Null
         /\ WantedCalls = {} /\ view.snapshot # Null /\ view.isCreating = FALSE
         /\ IsView(view) /\ url = view.runId /\ view.connection \notin {"recovering", "closed"}
<1>1. /\ ref \in DOMAIN sources /\ Live(sources) = {ref} /\ sources[ref].state # "closed"
      /\ sources[ref] \in EventSources /\ sources[ref].session = session
      /\ sources[ref].run = view.runId /\ view.runId \in DOMAIN log /\ url = view.runId
  BY DEF ClientInv, ConnectionIsTrue, OneLiveSource, UrlIsTheRun, LiveSources, Live, SourcesTypeOK
<1>2. view.runId # Null
  BY <1>1, NullAssumption DEF ClientInv, LogIsOrdered
<1>3. WantedCalls = {}
  BY DEF ClientInv, OneRequestIsWanted
<1>4. view.snapshot # Null
  BY <1>2, <1>3 DEF ClientInv, OneRequestIsWanted
<1>5. view.isCreating = FALSE
  BY <1>3 DEF ClientInv, NeverStranded, ViewTypeOK
<1>6. IsView(view)
  BY DEF ClientInv, ViewTypeOK, IsView
<1>7. view.connection \notin {"recovering", "closed"}
  BY <1>1 DEF ClientInv, ConnectionIsTrue, ConnectionIsShown, LiveSources
<1> QED BY <1>1, <1>2, <1>3, <1>4, <1>5, <1>6, <1>7

\* A source that is not closed is the current one.
LEMMA LiveIsCurrent ==
  ASSUME ClientInv, NEW i \in DOMAIN sources
  PROVE  /\ sources[i].state # "closed" => ref = i /\ ref # 0 /\ IsCurrentSource(i)
         /\ sources[i].state = "closed" => ref # i /\ ~IsCurrentSource(i)
BY DEF ClientInv, ConnectionIsTrue, OneLiveSource, LiveSources, IsCurrentSource, SourcesTypeOK

\* A connection that opens keeps the invariant.
LEMMA onopenKeeps ==
  ASSUME ClientInv, NEW i \in DOMAIN sources, onopen(i)
  PROVE  ClientInv'
<1>1. ref = i /\ ref # 0 /\ IsCurrentSource(i)
  BY LiveIsCurrent DEF onopen
<1>2. /\ sources' = [sources EXCEPT ![i].state = "open", ![i].errors = 0]
      /\ view' = ConnectionChanged(view, "open")
      /\ UNCHANGED <<log, url, session, ref, calls, spare>>
  BY <1>1 DEF onopen, IsCurrentSource
<1>3. /\ DOMAIN sources' = DOMAIN sources
      /\ sources'[i] = [sources[i] EXCEPT !.state = "open", !.errors = 0]
      /\ \A j \in DOMAIN sources \ {i} : sources'[j] = sources[j]
  BY <1>2
<1>4. /\ sources'[i] \in EventSources /\ sources'[i].state = "open"
      /\ sources'[i].run = sources[i].run /\ sources'[i].session = sources[i].session
      /\ sources'[i].cursor = sources[i].cursor
  <2>1. sources[i] \in EventSources
    BY <1>1, WithSource
  <2>2. ASSUME NEW r \in EventSources, NEW q, q = [r EXCEPT !.state = "open", !.errors = 0]
        PROVE  /\ q \in EventSources /\ q.state = "open"
               /\ q.run = r.run /\ q.session = r.session /\ q.cursor = r.cursor
    BY <2>2 DEF EventSources
  <2> QED BY <1>3, <2>1, <2>2
<1>5. SourcesOK(sources') /\ Live(sources') = {ref}
  <2>1. SourcesOK(sources) /\ Live(sources) = {i} /\ i # 0
    BY <1>1, SourcesNow, WithSource
  <2> QED BY <1>1, <1>3, <1>4, <2>1 DEF SourcesOK, Live
<1>6. /\ IsView(view') /\ view'.connection = "open"
      /\ Keeps(view, view', Fields \ {"connection"})
  BY <1>1, <1>2, WithSource, ConnectionChangedIs
<1>7. /\ view'.runId = view.runId /\ view'.snapshot = view.snapshot
      /\ view'.status = view.status /\ view'.isCreating = view.isCreating
      /\ view'.pendingControl = view.pendingControl
      /\ Keeps(view, view', {"runId", "snapshot", "latestSequence", "drafts"})
  BY <1>6 DEF Keeps, Fields
<1>8. session \in Nat /\ ref \in Nat \ {0}
  BY <1>1 DEF ClientInv, SourcesTypeOK
<1>9. SourcesTypeOK' /\ ConnectionIsTrue' /\ LiveSources' = {ref'}
  BY <1>1, <1>2, <1>4, <1>5, <1>6, <1>7, <1>8, WithSource, Connected
<1>10. ViewTypeOK' /\ PageKeepsUp' /\ PageIsAPrefix'
  BY <1>1, <1>2, <1>4, <1>6, <1>7, WithSource, ShownStays
<1>11. WantedCalls' = WantedCalls /\ WantedCalls = {}
  BY <1>1, <1>2, WithSource DEF WantedCalls, IsWanted
<1>12. OneRequestIsWanted'
  BY <1>7, <1>11, WantedSame
<1>13. view.pendingControl # Null => \E c \in calls : c.kind \in Controls
  BY DEF ClientInv, NeverStranded
<1> QED BY <1>1, <1>2, <1>6, <1>7, <1>9, <1>10, <1>12, <1>13, WithSource, SameSession

\* A connection that breaks keeps the invariant.
LEMMA onerrorKeeps ==
  ASSUME ClientInv, NEW i \in DOMAIN sources, NEW fatal \in BOOLEAN, onerror(i, fatal)
  PROVE  ClientInv'
<1>1. ref = i /\ ref # 0 /\ IsCurrentSource(i)
  BY LiveIsCurrent DEF onerror
<1> DEFINE errors == sources[i].errors + 1
<1>2. session \in Nat /\ ref \in Nat \ {0} /\ LogIsOrdered /\ UNCHANGED <<log, url, session>>
  BY <1>1 DEF ClientInv, SourcesTypeOK, onerror
<1>3. view.pendingControl # Null => \E c \in calls : c.kind \in Controls
  BY DEF ClientInv, NeverStranded
<1>4. CASE ~GivesUp(errors, fatal)
  <2>1. /\ sources' = [sources EXCEPT ![i].errors = errors, ![i].state = "connecting"]
        /\ view' = ConnectionChanged(view, "connecting") /\ UNCHANGED <<ref, calls>>
    BY <1>1, <1>4 DEF onerror, GivesUp
  <2>2. /\ DOMAIN sources' = DOMAIN sources
        /\ sources'[i] = [sources[i] EXCEPT !.errors = errors, !.state = "connecting"]
        /\ \A j \in DOMAIN sources \ {i} : sources'[j] = sources[j]
    BY <2>1
  <2>3. /\ sources'[i] \in EventSources /\ sources'[i].state = "connecting"
        /\ sources'[i].run = sources[i].run /\ sources'[i].session = sources[i].session
        /\ sources'[i].cursor = sources[i].cursor
    <3>1. sources[i] \in EventSources
      BY <1>1, WithSource
    <3>2. errors \in Nat
      BY <3>1 DEF EventSources
    <3> HIDE DEF errors
    <3> QED BY <2>2, <3>1, <3>2 DEF EventSources
  <2>4. SourcesOK(sources') /\ Live(sources') = {ref}
    <3>1. SourcesOK(sources) /\ Live(sources) = {i} /\ i # 0
      BY <1>1, SourcesNow, WithSource
    <3> QED BY <1>1, <1>2, <2>2, <2>3, <3>1 DEF SourcesOK, Live
  <2>5. /\ IsView(view') /\ view'.connection = "connecting"
        /\ Keeps(view, view', Fields \ {"connection"})
    BY <1>1, <2>1, WithSource, ConnectionChangedIs
  <2>6. /\ view'.runId = view.runId /\ view'.snapshot = view.snapshot
        /\ view'.status = view.status /\ view'.isCreating = view.isCreating
        /\ view'.pendingControl = view.pendingControl
        /\ Keeps(view, view', {"runId", "snapshot", "latestSequence", "drafts"})
    BY <2>5 DEF Keeps, Fields
  <2>7. SourcesTypeOK' /\ ConnectionIsTrue' /\ LiveSources' = {ref'}
    BY <1>1, <1>2, <2>1, <2>3, <2>4, <2>5, <2>6, WithSource, Connected
  <2>8. ViewTypeOK' /\ PageKeepsUp' /\ PageIsAPrefix'
    BY <1>1, <1>2, <2>1, <2>3, <2>5, <2>6, WithSource, ShownStays
  <2>9. WantedCalls' = WantedCalls /\ WantedCalls = {}
    BY <1>1, <1>2, <2>1, WithSource DEF WantedCalls, IsWanted
  <2>10. OneRequestIsWanted'
    BY <2>6, <2>9, WantedSame
  <2> QED BY <1>1, <1>2, <1>3, <2>1, <2>5, <2>6, <2>7, <2>8, <2>10, WithSource, SameSession
<1>5. CASE GivesUp(errors, fatal)
  <2> DEFINE c == [kind |-> "recover", run |-> sources[i].run, session |-> session,
                   answer |-> Null]
  <2>1. /\ sources' = Closing(sources, i) /\ ref' = 0
        /\ view' = ConnectionChanged(view, "recovering") /\ calls' = calls \cup {c}
    BY <1>1, <1>5 DEF onerror
  <2>2. SourcesOK(sources') /\ Live(sources') = {}
    BY <1>1, <1>2, <2>1, SourcesNow, WithSource, ClosingIs
  <2>3. /\ IsView(view') /\ view'.connection = "recovering"
        /\ Keeps(view, view', Fields \ {"connection"})
    BY <1>1, <2>1, WithSource, ConnectionChangedIs
  <2>4. /\ view'.runId = view.runId /\ view'.snapshot = view.snapshot
        /\ view'.status = view.status /\ view'.isCreating = view.isCreating
        /\ view'.pendingControl = view.pendingControl
        /\ Keeps(view, view', {"runId", "snapshot", "latestSequence", "drafts"})
    BY <2>3 DEF Keeps, Fields
  <2>5. SourcesTypeOK' /\ ConnectionIsTrue' /\ LiveSources' = {}
    BY <1>1, <1>2, <2>1, <2>2, <2>3, <2>4, WithSource, Disconnected
  <2>6. ViewTypeOK' /\ PageKeepsUp' /\ PageIsAPrefix'
    BY <1>1, <1>2, <2>1, <2>3, <2>4, WithSource, ShownStays
  <2>7. IsNewCall(c) /\ c.kind = "recover" /\ c.run = view.runId /\ c.answer = Null
    BY <1>1, <1>2, WithSource DEF IsNewCall, Requests, RunCalls, Answers, Maybe, LogIsOrdered
  <2> HIDE DEF c
  <2>8. WantedCalls' = {c}
    <3>1. WantedCalls = {}
      BY <1>1, WithSource
    <3> QED BY <1>2, <2>1, <2>7, <3>1 DEF WantedCalls, IsWanted, IsNewCall
  <2>9. OneRequestIsWanted'
    BY <1>1, <2>1, <2>4, <2>7, <2>8, WithSource DEF OneRequestIsWanted, HasAnswer
  <2> QED BY <1>1, <1>2, <1>3, <2>1, <2>3, <2>4, <2>5, <2>6, <2>7, <2>8, <2>9, WithSource, SameSession
<1> QED BY <1>4, <1>5

\* An event of the log.
LEMMA EventAt ==
  ASSUME LogIsOrdered, NEW run \in DOMAIN log, NEW n \in 1 .. Len(log[run])
  PROVE  /\ log[run][n] \in EventsOf(run) /\ log[run][n].sequence = n
         /\ SaysItsStatus(log[run][n])
         /\ isTerminalRunStatus(log[run][n].status) =>
              n = Len(log[run]) /\ StatusOf(run) = log[run][n].status
<1>1. log[run] \in Seq(EventsOf(run)) /\ Len(log[run]) \in Nat
  BY DEF LogIsOrdered
<1>2. log[run][n] \in EventsOf(run)
  BY <1>1, ElementOfSeq
<1>3. log[run] # <<>>
  BY <1>1, EmptySeq
<1> QED BY <1>2, <1>3 DEF LogIsOrdered, StatusOf, StatusAfter

\* The view after the next event of the current source.
LEMMA EventShown ==
  ASSUME ClientInv, ref # 0, NEW run, run = view.runId, NEW n, n = sources[ref].cursor,
         n < Len(log[run]), NEW e, e = log[run][n + 1], NEW w, w = EventReceived(view, e)
  PROVE  /\ IsView(w) /\ Keeps(view, w, {"runId", "snapshot", "isCreating", "pendingControl"})
         /\ w.latestSequence \in Nat /\ view.latestSequence <= w.latestSequence
         /\ w.latestSequence <= Len(log[run]) /\ w.status \in RunStatuses
         /\ w.connection = view.connection \/ e.event \in ENDINGS
         /\ NobodyCancelled =>
              /\ w.latestSequence = n + 1 /\ OneDraft(w)
              /\ DraftText(w) = TextOf(Prefix(run, n + 1))
              /\ isTerminalRunStatus(w.status) =>
                   n + 1 = Len(log[run]) /\ isTerminalRunStatus(StatusOf(run))
<1>1. /\ run \in DOMAIN log /\ run # Null /\ view.snapshot # Null /\ IsView(view) /\ n \in Nat
      /\ LogIsOrdered /\ log[run] \in Seq(EventsOf(run)) /\ Len(log[run]) \in Nat
  <2>1. /\ run \in DOMAIN log /\ run # Null /\ view.snapshot # Null /\ IsView(view)
        /\ sources[ref] \in EventSources
    BY WithSource
  <2>2. n \in Nat
    BY <2>1 DEF EventSources
  <2>3. LogIsOrdered
    BY DEF ClientInv
  <2> QED BY <2>1, <2>2, <2>3 DEF LogIsOrdered
<1>2. /\ view.latestSequence \in Nat /\ view.latestSequence <= Len(log[run])
      /\ view.status \in RunStatuses
  BY <1>1 DEF ClientInv, ViewTypeOK
<1>3. /\ e \in EventsOf(run) /\ e.sequence = n + 1 /\ SaysItsStatus(e) /\ e.status \in RunStatuses
      /\ isTerminalRunStatus(e.status) =>
           n + 1 = Len(log[run]) /\ isTerminalRunStatus(StatusOf(run))
  <2>1. n + 1 \in 1 .. Len(log[run])
    BY <1>1
  <2>2. e \in EventsOf(run)
    BY <1>1, <2>1, EventAt
  <2> QED BY <1>1, <2>1, <2>2, EventAt, EventShape
<1>4. CASE ~IsRelevant(view, e)
  <2>1. w = view
    BY <1>4 DEF EventReceived
  <2>2. ~NobodyCancelled
    <3>1. SUFFICES ASSUME NobodyCancelled PROVE FALSE
      OBVIOUS
    <3>2. /\ n = view.latestSequence
          /\ isTerminalRunStatus(view.status) => view.latestSequence = Len(log[run])
      BY <1>1, <3>1 DEF ClientInv, PageKeepsUp
    <3>3. ~isTerminalRunStatus(view.status)
      BY <1>1, <3>2
    <3>4. e.run_id = view.runId
      BY <1>3, EventShape
    <3> QED BY <1>1, <1>3, <1>4, <3>2, <3>3, <3>4 DEF IsRelevant
  <2> QED BY <1>1, <1>2, <2>1, <2>2 DEF Keeps
<1>5. CASE IsRelevant(view, e)
  <2>1. w = applyEvent(view, e) /\ n + 1 > view.latestSequence /\ ~isTerminalRunStatus(view.status)
    <3>1. view.status # Null
      BY <1>2, NullAssumption
    <3> QED BY <1>3, <1>5, <3>1 DEF EventReceived, IsRelevant
  <2>2. /\ IsView(w) /\ Keeps(view, w, {"runId", "snapshot", "isCreating", "pendingControl"})
        /\ w.latestSequence = n + 1
        /\ w.connection = view.connection \/ e.event \in ENDINGS
        /\ e.event = "prd_delta" => w.status = view.status
        /\ e.event # "prd_delta" => w.status = e.status /\ w.drafts = view.drafts
        /\ e.event = "prd_delta" /\ OneDraft(view) =>
             OneDraft(w) /\ DraftText(w) = Append(DraftText(view), e.payload.delta)
    <3>1. IsView(view) /\ e \in EventsOf(run) /\ SaysItsStatus(e) /\ w = applyEvent(view, e)
      BY <1>1, <1>3, <2>1
    <3>2. e.sequence = n + 1
      BY <1>3
    <3>3. /\ IsView(w) /\ Keeps(view, w, {"runId", "snapshot", "isCreating", "pendingControl"})
          /\ w.latestSequence = e.sequence
          /\ w.connection = view.connection \/ e.event \in ENDINGS
      BY ONLY <3>1, EventAppliedIs
    <3>4. /\ e.event = "prd_delta" => w.status = view.status
          /\ e.event # "prd_delta" => w.status = e.status /\ w.drafts = view.drafts
      BY ONLY <3>1, EventAppliedIs
    <3>5. e.event = "prd_delta" /\ OneDraft(view) =>
            OneDraft(w) /\ DraftText(w) = Append(DraftText(view), e.payload.delta)
      BY ONLY <3>1, EventAppliedIs
    <3> QED BY <3>2, <3>3, <3>4, <3>5
  <2>3. w.status \in RunStatuses /\ (isTerminalRunStatus(w.status) => w.status = e.status)
    BY <1>2, <1>3, <2>1, <2>2
  <2>4. ASSUME NobodyCancelled
        PROVE  OneDraft(w) /\ DraftText(w) = TextOf(Prefix(run, n + 1))
    <3>1. /\ n = view.latestSequence /\ OneDraft(view)
          /\ DraftText(view) = TextOf(Prefix(run, n))
      BY <1>1, <2>4 DEF ClientInv, PageKeepsUp, PageIsAPrefix, NobodyCancelled, OneDraft,
                        DraftText, ShownText
    <3>2. n \in 0 .. Len(log[run])
      BY <1>1
    <3>3. Prefix(run, n) \in Seq(EventsOf(run)) /\ Prefix(run, n + 1) = Append(Prefix(run, n), e)
      BY <1>1, <3>2, PrefixIs DEF Prefix
    <3> DEFINE p == Prefix(run, n)
    <3>6. /\ e.event = "prd_delta" =>
               TextOf(Prefix(run, n + 1)) = Append(TextOf(p), e.payload.delta)
          /\ e.event # "prd_delta" => TextOf(Prefix(run, n + 1)) = TextOf(p)
      <4>1. e \in EventsOf(run) /\ p \in Seq(EventsOf(run)) /\ Prefix(run, n + 1) = Append(p, e)
        BY <1>3, <3>3
      <4> HIDE DEF p
      <4> QED BY ONLY ZenonT(30), <4>1, TextGrows
    <3>4. CASE e.event = "prd_delta"
      BY <2>2, <3>1, <3>4, <3>6
    <3>5. CASE e.event # "prd_delta"
      BY <2>2, <3>1, <3>5, <3>6 DEF OneDraft, DraftText
    <3> QED BY <3>4, <3>5
  <2>5. isTerminalRunStatus(w.status) => n + 1 = Len(log[run]) /\ isTerminalRunStatus(StatusOf(run))
    BY <1>3, <2>3
  <2>6. /\ w.latestSequence \in Nat /\ view.latestSequence <= w.latestSequence
        /\ w.latestSequence <= Len(log[run]) /\ w.latestSequence = n + 1
    <3>1. n \in Nat /\ n < Len(log[run]) /\ Len(log[run]) \in Nat /\ w.latestSequence = n + 1
      BY <1>1, <2>2
    <3>2. view.latestSequence \in Nat /\ view.latestSequence < n + 1
      BY <1>2, <2>1
    <3> QED BY ONLY <3>1, <3>2
  <2> QED BY <2>2, <2>3, <2>4, <2>5, <2>6
<1> QED BY <1>4, <1>5

\* A message keeps the invariant.
LEMMA MessageKeeps ==
  ASSUME ClientInv, NEW i \in DOMAIN sources, Message(i)
  PROVE  ClientInv'
<1>1. ref = i /\ ref # 0 /\ IsCurrentSource(i) /\ sources[i].state = "open"
  BY LiveIsCurrent DEF Message
<1> DEFINE run == view.runId
           n == sources[i].cursor
           e == log[run][n + 1]
           w == EventReceived(view, e)
           read == [sources EXCEPT ![i].cursor = n + 1]
<1>2. /\ run \in DOMAIN log /\ sources[i] \in EventSources /\ n \in Nat /\ sources[i].run = run
      /\ sources[i].session = session /\ Live(sources) = {i} /\ i \in Nat \ {0}
      /\ WantedCalls = {} /\ view.snapshot # Null /\ view.isCreating = FALSE
      /\ run # Null /\ url = run /\ view.connection \notin {"recovering", "closed"}
  BY <1>1, WithSource DEF EventSources, ClientInv, SourcesTypeOK
<1>3. session \in Nat /\ LogIsOrdered /\ UNCHANGED <<log, url, session, calls>> /\ n < Len(log[run])
  BY <1>2 DEF ClientInv, SourcesTypeOK, Message, Receive
<1>4. /\ DOMAIN read = DOMAIN sources
      /\ read[i] \in EventSources /\ read[i].state = "open" /\ read[i].run = run
      /\ read[i].session = session /\ read[i].cursor = n + 1
      /\ \A j \in DOMAIN sources \ {i} : read[j] = sources[j]
  <2>1. ASSUME NEW r \in EventSources, NEW m \in Nat, NEW q, q = [r EXCEPT !.cursor = m]
        PROVE  /\ q \in EventSources /\ q.state = r.state /\ q.cursor = m
               /\ q.run = r.run /\ q.session = r.session
    BY <2>1 DEF EventSources
  <2>2. n + 1 \in Nat /\ read[i] = [sources[i] EXCEPT !.cursor = n + 1]
    BY <1>2
  <2> QED BY <1>1, <1>2, <2>1, <2>2
<1>5. SourcesOK(read) /\ Live(read) = {i}
  BY <1>1, <1>2, <1>4, SourcesNow DEF SourcesOK, Live
<1>6. /\ IsView(w) /\ Keeps(view, w, {"runId", "snapshot", "isCreating", "pendingControl"})
      /\ w.latestSequence \in Nat /\ view.latestSequence <= w.latestSequence
      /\ w.latestSequence <= Len(log[run]) /\ w.status \in RunStatuses
      /\ w.connection = view.connection \/ e.event \in ENDINGS
      /\ NobodyCancelled =>
           /\ w.latestSequence = n + 1 /\ OneDraft(w)
           /\ DraftText(w) = TextOf(Prefix(run, n + 1))
           /\ isTerminalRunStatus(w.status) =>
                n + 1 = Len(log[run]) /\ isTerminalRunStatus(StatusOf(run))
  BY <1>1, <1>3, EventShown
<1>7. \/ /\ e.event \in ENDINGS /\ view' = ConnectionChanged(w, "closed")
         /\ sources' = Closing(read, i) /\ ref' = 0
      \/ /\ e.event \notin ENDINGS /\ view' = w /\ sources' = read /\ ref' = i
  BY <1>1, <1>2 DEF Message, Receive
<1> HIDE DEF w, read, e
<1>8. /\ IsView(view') /\ view'.runId = run /\ view'.snapshot = view.snapshot
      /\ view'.isCreating = FALSE /\ view'.pendingControl = view.pendingControl
      /\ view'.latestSequence = w.latestSequence /\ view'.status = w.status
      /\ view'.drafts = w.drafts
      /\ view'.connection = IF e.event \in ENDINGS THEN "closed" ELSE view.connection
  <2>1. CASE e.event \in ENDINGS
    <3>1. view' = ConnectionChanged(w, "closed")
      BY <1>7, <2>1
    <3>2. /\ IsView(view') /\ view'.connection = "closed"
          /\ Keeps(w, view', Fields \ {"connection"})
      BY <1>6, <3>1, ConnectionChangedIs
    <3> QED BY <1>2, <1>6, <2>1, <3>2 DEF Keeps, Fields
  <2>2. CASE e.event \notin ENDINGS
    BY <1>2, <1>6, <1>7, <2>2 DEF Keeps
  <2> QED BY <2>1, <2>2
<1>9. SourcesTypeOK' /\ ConnectionIsTrue' /\ (e.event \notin ENDINGS => LiveSources' # {})
      /\ (ref' # 0 => ref' = i /\ sources'[i].cursor = n + 1)
  <2>1. CASE e.event \in ENDINGS
    <3>1. SourcesOK(sources') /\ Live(sources') = {}
      BY ZenonT(30), <1>1, <1>3, <1>4, <1>5, <1>7, <2>1, ClosingIs
    <3> QED BY <1>2, <1>3, <1>7, <1>8, <2>1, <3>1, Disconnected
  <2>2. CASE e.event \notin ENDINGS
    BY <1>2, <1>3, <1>4, <1>5, <1>7, <1>8, <2>2, Connected
  <2> QED BY <2>1, <2>2
<1>10. ViewTypeOK'
  <2>1. view.connection \in {"idle", "connecting", "open", "recovering", "closed"}
    BY DEF ClientInv, ViewTypeOK
  <2> QED BY <1>2, <1>3, <1>6, <1>8, <2>1 DEF ViewTypeOK, IsView
<1>11. NobodyCancelled' = NobodyCancelled /\ StatusOf(run)' = StatusOf(run)
  BY <1>3, <1>8 DEF NobodyCancelled, StatusOf
<1>12. PageKeepsUp'
  BY <1>3, <1>6, <1>8, <1>9, <1>11 DEF PageKeepsUp, OneDraft, StatusOf
<1>13. PageIsAPrefix'
  <2>1. SUFFICES ASSUME NobodyCancelled PROVE PageIsAPrefix'
    BY <1>11 DEF PageIsAPrefix, NobodyCancelled
  <2>2. ShownText' = DraftText(w)
    BY <1>8 DEF ShownText, DraftText
  <2>3. TextOf(Prefix(view.runId, view.latestSequence))' = TextOf(Prefix(run, n + 1))
    BY <1>3, <1>6, <1>8, <2>1 DEF Prefix
  <2> QED BY <1>3, <1>6, <1>8, <2>1, <2>2, <2>3 DEF PageIsAPrefix
<1>14. WantedCalls' = WantedCalls
  BY <1>3 DEF WantedCalls, IsWanted
<1>15. OneRequestIsWanted'
  BY <1>2, <1>8, <1>14, WantedSame
<1>16. view.pendingControl # Null => \E c \in calls : c.kind \in Controls
  BY DEF ClientInv, NeverStranded
<1> QED BY <1>3, <1>8, <1>9, <1>10, <1>12, <1>13, <1>15, <1>16, SameSession

\* What a closed source still delivers changes nothing but that source.
LEMMA LateMessageKeeps ==
  ASSUME ClientInv, NEW i \in DOMAIN sources, LateMessage(i)
  PROVE  ClientInv'
<1> DEFINE read == [sources EXCEPT ![i].cursor = sources[i].cursor + 1]
           D == {j \in DOMAIN read : read[j].state # "closed" \/ Buffering(read[j])}
<1>1. ref # i /\ sources[i].state = "closed" /\ sources' = Restrict(read, D)
      /\ UNCHANGED <<log, url, session, calls, view, ref>>
  BY LiveIsCurrent DEF LateMessage, Receive
<1>2. /\ SourcesOK(sources) /\ ref \in {0} \cup DOMAIN sources /\ Live(sources) = LiveSources
      /\ sources[i] \in EventSources /\ Live(sources) \subseteq {ref}
      /\ ref # 0 <=> Live(sources) # {}
  BY SourcesNow DEF SourcesOK
<1>3. /\ DOMAIN read = DOMAIN sources
      /\ read[i] \in EventSources /\ read[i].state = "closed" /\ read[i].run = sources[i].run
      /\ \A j \in DOMAIN sources \ {i} : read[j] = sources[j]
  <2>1. ASSUME NEW r \in EventSources, NEW m \in Nat, NEW q, q = [r EXCEPT !.cursor = m]
        PROVE  q \in EventSources /\ q.state = r.state /\ q.run = r.run
    BY <2>1 DEF EventSources
  <2>2. sources[i].cursor + 1 \in Nat
    BY <1>2 DEF EventSources
  <2>3. read[i] = [sources[i] EXCEPT !.cursor = sources[i].cursor + 1]
    OBVIOUS
  <2> QED BY <1>1, <1>2, <2>1, <2>2, <2>3
<1>4. D \subseteq DOMAIN sources /\ Live(sources) \subseteq D
  BY <1>1, <1>3 DEF Live
<1> HIDE DEF read, D
<1>5. DOMAIN sources' = D /\ \A j \in D : sources'[j] = read[j]
  BY <1>1, <1>3, <1>4 DEF Restrict
<1>6. IsFiniteSet(D)
  BY <1>2, <1>4, FS_Subset DEF SourcesOK
<1>7. SourcesOK(sources') /\ Live(sources') = Live(sources)
  BY <1>1, <1>2, <1>3, <1>4, <1>5, <1>6 DEF SourcesOK, Live
<1>8. ref # 0 => sources'[ref] = sources[ref]
  BY <1>1, <1>2, <1>3, <1>4, <1>5
<1>9. LiveSources' = LiveSources
  BY <1>2, <1>7 DEF Live, LiveSources
<1>10. SourcesTypeOK'
  BY <1>1, <1>7 DEF ClientInv, SourcesTypeOK, SourcesOK
<1>11. ConnectionIsTrue'
  BY <1>1, <1>8, <1>9 DEF ClientInv, ConnectionIsTrue, OneLiveSource, ConnectionIsShown, UrlIsTheRun
<1>12. ViewTypeOK' /\ PageKeepsUp' /\ PageIsAPrefix'
  BY <1>1, <1>8 DEF ClientInv, ViewTypeOK, PageKeepsUp, PageIsAPrefix, NobodyCancelled, StatusOf,
                    ShownText, Prefix
<1>13. WantedCalls' = WantedCalls
  BY <1>1 DEF WantedCalls, IsWanted
<1>14. OneRequestIsWanted'
  BY <1>1, <1>13, WantedSame
<1> QED BY <1>1, <1>9, <1>10, <1>11, <1>12, <1>13, <1>14, SameSession DEF ClientInv, NeverStranded

--------------------------------------------------------------------------------
(* Answers that arrive. *)

\* The requests for snapshots and runs are no controls.
LEMMA NoControl ==
  ASSUME NEW c, c.kind \in {"hydrate", "recover", "create"}
  PROVE  c.kind \notin Controls
BY ClientAssumption

\* The answer to a request of an earlier session is thrown away.
LEMMA NotWanted ==
  ASSUME ClientInv, NEW call \in calls, call.kind \in {"hydrate", "recover", "create"},
         ~IsWanted(call), Settle(call, {}), UNCHANGED <<log, client>>
  PROVE  ClientInv'
<1>1. calls' = calls \ {call} /\ UNCHANGED <<log, url, view, session, ref, sources>>
  BY DEF Settle, client
<1>2. WantedCalls' = WantedCalls /\ LiveSources' = LiveSources
  BY <1>1 DEF WantedCalls, IsWanted, LiveSources
<1>3. /\ SourcesTypeOK' /\ ConnectionIsTrue' /\ ViewTypeOK' /\ PageKeepsUp' /\ PageIsAPrefix'
  <2>1. LogStep
    BY <1>1 DEF LogStep
  <2>2. PageInv'
    BY <2>1, TwoParts, LogAlone
  <2> QED BY <2>2 DEF PageInv
<1>4. OneRequestIsWanted'
  BY <1>1, <1>2, WantedSame
<1>5. view.pendingControl # Null => \E c \in calls' : c.kind \in Controls
  BY <1>1, NoControl DEF ClientInv, NeverStranded
<1> QED BY <1>1, <1>2, <1>3, <1>4, <1>5, SameSession DEF ClientInv, NeverStranded

\* The answer the page waits for is the only one, and comes while there is no source.
LEMMA IsTheWanted ==
  ASSUME ClientInv, NEW call \in calls, call.kind \in {"hydrate", "recover", "create"},
         IsWanted(call), NEW more, Settle(call, more), UNCHANGED <<log, session>>
  PROVE  /\ WantedCalls = {call} /\ ref = 0 /\ LiveSources = {} /\ Live(sources) = {}
         /\ SourcesOK(sources) /\ session \in Nat /\ LogIsOrdered /\ IsView(view)
         /\ url = view.runId
         /\ WantedCalls' = {c \in more : c.session = session
                              /\ c.kind \in {"hydrate", "recover", "create"}}
         /\ calls' = (calls \ {call}) \cup more
         /\ view.pendingControl # Null => \E c \in calls' : c.kind \in Controls
         /\ call.kind = "hydrate" \/ view.runId = Null \/ view.snapshot # Null
<1>1. call \in WantedCalls
  BY DEF WantedCalls
<1>2. WantedCalls = {call}
  BY <1>1 DEF ClientInv, OneRequestIsWanted
<1>3. ref = 0
  BY <1>1 DEF ClientInv, OneRequestIsWanted
<1>4. SourcesOK(sources) /\ session \in Nat /\ Live(sources) = {} /\ LiveSources = {}
  BY <1>3, SourcesNow
<1>5. calls' = (calls \ {call}) \cup more
  BY DEF Settle
<1>6. WantedCalls' = {c \in more : c.session = session
                        /\ c.kind \in {"hydrate", "recover", "create"}}
  <2>1. \A c \in calls \ {call} : c \notin WantedCalls
    BY <1>2
  <2> QED BY <1>5, <2>1 DEF WantedCalls, IsWanted
<1>7. view.pendingControl # Null => \E c \in calls' : c.kind \in Controls
  BY <1>5, NoControl DEF ClientInv, NeverStranded
<1>8. call.kind = "hydrate" \/ view.runId = Null \/ view.snapshot # Null
  BY <1>2 DEF ClientInv, OneRequestIsWanted
<1>9. LogIsOrdered /\ IsView(view) /\ url = view.runId
  BY DEF ClientInv, ViewTypeOK, IsView, ConnectionIsTrue, UrlIsTheRun
<1> QED BY <1>2, <1>3, <1>4, <1>5, <1>6, <1>7, <1>8, <1>9

\* A snapshot that arrives keeps the invariant.
LEMMA SnapshotAnsweredKeeps ==
  ASSUME ClientInv, NEW call \in calls, SnapshotAnswered(call)
  PROVE  ClientInv'
<1>1. CASE ~IsWanted(call)
  BY <1>1, NotWanted DEF SnapshotAnswered, client
<1>2. CASE IsWanted(call)
  <2>1. PICK shown, seen : shown = call.run /\ seen = call.answer.at
    OBVIOUS
  <2>2. PICK snapshot : snapshot = SnapshotAt(shown, seen)
    OBVIOUS
  <2>3. PICK loaded : loaded = SnapshotLoaded(view, snapshot)
    OBVIOUS
  <2>4. /\ Settle(call, {}) /\ UNCHANGED <<log, url, session>>
        /\ call.kind \in {"hydrate", "recover"} /\ HasAnswer(call, "at")
    BY DEF SnapshotAnswered
  <2>5. /\ WantedCalls = {call} /\ ref = 0 /\ LiveSources = {} /\ Live(sources) = {}
        /\ SourcesOK(sources) /\ session \in Nat /\ LogIsOrdered /\ IsView(view)
        /\ url = view.runId /\ calls' = (calls \ {call}) \cup {}
        /\ WantedCalls' = {c \in {} : c.session = session
                             /\ c.kind \in {"hydrate", "recover", "create"}}
    BY <1>2, <2>4, IsTheWanted
  <2>6. WantedCalls' = {} /\ calls' \subseteq calls
    BY <2>5
  <2>7. /\ shown \in DOMAIN log /\ shown = view.runId /\ shown \in Runs /\ shown # Null
        /\ seen \in 0 .. Len(log[shown]) /\ seen \in Nat
    <3>1. call \in Requests /\ shown \in DOMAIN log /\ seen <= Len(log[shown])
      BY <2>4, <2>1 DEF ClientInv, AnswersHold
    <3>2. seen \in Nat
      BY <2>4, <2>1, <3>1 DEF Requests, Answers, HasAnswer
    <3>3. shown = view.runId
      BY <2>4, <2>5, <2>1 DEF ClientInv, OneRequestIsWanted
    <3>4. Len(log[shown]) \in Nat /\ shown \in Runs
      BY <2>5, <3>1, StatusIs DEF LogIsOrdered
    <3> QED BY <3>1, <3>2, <3>3, <3>4, NullAssumption
  <2>8. /\ snapshot # Null /\ snapshot.status \in RunStatuses
        /\ isTerminalRunStatus(snapshot.status) =>
             seen = Len(log[shown]) /\ isTerminalRunStatus(StatusOf(shown))
    BY <2>5, <2>7, <2>2, SnapshotIs
  <2>9. /\ IsView(loaded) /\ loaded.runId = shown /\ loaded.snapshot = snapshot
        /\ loaded.status = snapshot.status /\ loaded.latestSequence = seen
        /\ loaded.isCreating = FALSE /\ loaded.pendingControl = Null
        /\ OneDraft(loaded) /\ DraftText(loaded) = TextOf(Prefix(shown, seen))
    BY <2>5, <2>2, <2>3, SnapshotLoadedIs
  <2>10. snapshot.latest_event_sequence = seen
    BY <2>2 DEF SnapshotAt
  <2>11. \/ /\ isTerminalRunStatus(snapshot.status) /\ view' = ConnectionChanged(loaded, "closed")
           /\ UNCHANGED <<ref, sources>>
        \/ /\ ~isTerminalRunStatus(snapshot.status) /\ view' = ConnectionChanged(loaded, "connecting")
           /\ connect(shown, seen)
    BY <1>2, <2>10, <2>1, <2>2, <2>3 DEF SnapshotAnswered, ShowSnapshot
  <2>12. /\ IsView(view') /\ view'.runId = shown /\ view'.snapshot = snapshot /\ view'.status = snapshot.status
        /\ view'.latestSequence = seen /\ view'.isCreating = FALSE /\ view'.pendingControl = Null
        /\ view'.drafts = loaded.drafts
        /\ view'.connection = IF isTerminalRunStatus(snapshot.status) THEN "closed" ELSE "connecting"
    <3>1. \A c : /\ IsView(ConnectionChanged(loaded, c)) /\ ConnectionChanged(loaded, c).connection = c
                 /\ Keeps(loaded, ConnectionChanged(loaded, c), Fields \ {"connection"})
      BY <2>9, ConnectionChangedIs
    <3>2. /\ IsView(view') /\ Keeps(loaded, view', Fields \ {"connection"})
          /\ view'.connection = IF isTerminalRunStatus(snapshot.status) THEN "closed" ELSE "connecting"
      BY <2>11, <3>1
    <3> QED BY <2>9, <3>2 DEF Keeps, Fields
  <2>13. /\ SourcesTypeOK' /\ ConnectionIsTrue'
         /\ (~isTerminalRunStatus(snapshot.status) => LiveSources' # {})
         /\ (ref' # 0 => sources'[ref'].cursor = seen)
    <3>1. CASE isTerminalRunStatus(snapshot.status)
      BY <2>4, <2>5, <2>7, <2>11, <2>12, <3>1, Disconnected
    <3>2. CASE ~isTerminalRunStatus(snapshot.status)
      <4>1. connect(shown, seen)
        BY <2>11, <3>2
      <4>2. /\ SourcesOK(sources') /\ ref' \in Nat \ {0} /\ Live(sources') = {ref'}
            /\ sources'[ref'].run = shown /\ sources'[ref'].session = session
            /\ sources'[ref'].state = "connecting" /\ sources'[ref'].cursor = seen
        BY <2>5, <2>7, <4>1, ConnectIs
      <4> QED BY <2>4, <2>5, <2>7, <2>12, <3>2, <4>2, Connected
    <3> QED BY <3>1, <3>2
  <2>14. ViewTypeOK'
    <3>1. seen <= Len(log[shown])
      BY <2>5, <2>7, StatusIs
    <3> QED BY <2>4, <2>7, <2>8, <2>12, <3>1 DEF ViewTypeOK, IsView
  <2>15. PageKeepsUp'
    BY <2>4, <2>7, <2>8, <2>9, <2>12, <2>13 DEF PageKeepsUp, OneDraft, StatusOf
  <2>16. PageIsAPrefix'
    <3>1. ShownText' = DraftText(loaded)
      BY <2>12 DEF ShownText, DraftText
    <3>2. TextOf(Prefix(view.runId, view.latestSequence))' = TextOf(Prefix(shown, seen))
      BY <2>4, <2>12 DEF Prefix
    <3>3. seen <= Len(log[shown])
      BY <2>5, <2>7, StatusIs
    <3> QED BY <2>4, <2>9, <2>12, <3>1, <3>2, <3>3 DEF PageIsAPrefix
  <2>17. OneRequestIsWanted'
    BY <2>6, <2>8, <2>12, NothingWanted
  <2> QED BY <2>4, <2>6, <2>12, <2>13, <2>14, <2>15, <2>16, <2>17, SameSession
<1> QED BY <1>1, <1>2

\* A snapshot that cannot be had keeps the invariant.
LEMMA hydrateFailedKeeps ==
  ASSUME ClientInv, NEW call \in calls, hydrateFailed(call)
  PROVE  ClientInv'
<1>1. CASE ~IsWanted(call)
  BY <1>1, NotWanted DEF hydrateFailed, client
<1>2. CASE IsWanted(call)
  <2>1. /\ Settle(call, {}) /\ UNCHANGED <<log, session>> /\ closeSource /\ url' = Null
        /\ view' = Errored(initialRunViewState, localizedErrorMessage(call.answer.code))
        /\ call.kind = "hydrate"
    BY <1>2 DEF hydrateFailed, Reset
  <2>2. /\ session \in Nat /\ LogIsOrdered /\ calls' = (calls \ {call}) \cup {}
        /\ WantedCalls' = {c \in {} : c.session = session
                             /\ c.kind \in {"hydrate", "recover", "create"}}
    BY <1>2, <2>1, IsTheWanted
  <2>3. WantedCalls' = {} /\ calls' \subseteq calls
    BY <2>2
  <2>4. /\ IsView(view') /\ view'.runId = Null /\ view'.snapshot = Null
        /\ view'.latestSequence = 0 /\ view'.connection = "idle"
        /\ view'.isCreating = FALSE /\ view'.pendingControl = Null
    <3>1. /\ IsView(view') /\ view'.isCreating = FALSE /\ view'.pendingControl = Null
          /\ Keeps(initialRunViewState, view', Fields \ {"isCreating", "pendingControl"})
      BY <2>1, InitialView, ErroredIs
    <3> QED BY <3>1, InitialView DEF Keeps, Fields
  <2>5. ref' = 0 /\ SourcesOK(sources') /\ Live(sources') = {}
    BY <2>1, closeSourceIs
  <2>6. SourcesTypeOK' /\ ConnectionIsTrue' /\ LiveSources' = {}
    BY <2>1, <2>2, <2>4, <2>5, Disconnected
  <2>7. ViewTypeOK' /\ PageKeepsUp' /\ PageIsAPrefix'
    BY <2>1, <2>2, <2>4, BlankPage
  <2>8. OneRequestIsWanted'
    BY <2>3, <2>4, NothingWanted
  <2> QED BY <2>1, <2>3, <2>4, <2>6, <2>7, <2>8, SameSession
<1> QED BY <1>1, <1>2

\* A recovery that fails keeps the invariant.
LEMMA recoverFailedKeeps ==
  ASSUME ClientInv, NEW call \in calls, recoverFailed(call)
  PROVE  ClientInv'
<1>1. CASE ~IsWanted(call)
  BY <1>1, NotWanted DEF recoverFailed, client
<1>2. CASE IsWanted(call)
  <2> DEFINE w == Errored(view, localizedErrorMessage(call.answer.code))
  <2>1. /\ Settle(call, {}) /\ UNCHANGED <<log, url, session, ref, sources>>
        /\ view' = ConnectionChanged(w, "closed") /\ call.kind = "recover"
    BY <1>2 DEF recoverFailed
  <2>2. /\ session \in Nat /\ LogIsOrdered /\ calls' = (calls \ {call}) \cup {}
        /\ ref = 0 /\ SourcesOK(sources) /\ Live(sources) = {} /\ url = view.runId
        /\ view.runId = Null \/ view.snapshot # Null
        /\ IsView(view)
        /\ WantedCalls' = {c \in {} : c.session = session
                             /\ c.kind \in {"hydrate", "recover", "create"}}
    BY <1>2, <2>1, IsTheWanted
  <2>3. WantedCalls' = {} /\ calls' \subseteq calls
    BY <2>2
  <2>4. /\ IsView(w) /\ w.isCreating = FALSE /\ w.pendingControl = Null
        /\ Keeps(view, w, Fields \ {"isCreating", "pendingControl"})
    BY <2>2, ErroredIs
  <2> HIDE DEF w
  <2>5. /\ IsView(view') /\ view'.connection = "closed"
        /\ Keeps(w, view', Fields \ {"connection"})
    BY <2>1, <2>4, ConnectionChangedIs
  <2>6. /\ view'.isCreating = FALSE /\ view'.pendingControl = Null /\ view'.runId = view.runId
        /\ view'.snapshot = view.snapshot /\ view'.status = view.status
        /\ Keeps(view, view', {"runId", "snapshot", "latestSequence", "drafts"})
    BY <2>4, <2>5 DEF Keeps, Fields
  <2>7. SourcesTypeOK' /\ ConnectionIsTrue' /\ LiveSources' = {}
    BY <2>1, <2>2, <2>5, <2>6, Disconnected
  <2>8. ViewTypeOK' /\ PageKeepsUp' /\ PageIsAPrefix'
    BY <2>1, <2>2, <2>5, <2>6, ShownStays
  <2>9. OneRequestIsWanted'
    BY <2>2, <2>3, <2>6, NothingWanted
  <2> QED BY <2>1, <2>3, <2>5, <2>6, <2>7, <2>8, <2>9, SameSession
<1> QED BY <1>1, <1>2

\* The number of a new run keeps the invariant.
LEMMA createRunAnsweredKeeps ==
  ASSUME ClientInv, NEW call \in calls, createRunAnswered(call)
  PROVE  ClientInv'
<1>1. CASE ~IsWanted(call)
  BY <1>1, NotWanted DEF createRunAnswered, client
<1>2. CASE IsWanted(call)
  <2>1. PICK created : created = call.answer.created
    OBVIOUS
  <2>2. PICK c : c = Call("hydrate", created)
    OBVIOUS
  <2>3. /\ Settle(call, {c}) /\ UNCHANGED <<log, session, ref, sources>>
        /\ url' = created /\ view' = RunSelected(view, created) /\ call.kind = "create"
        /\ HasAnswer(call, "created")
    BY <1>2, <2>1, <2>2 DEF createRunAnswered
  <2> DEFINE more == {c}
  <2>4. /\ session \in Nat /\ LogIsOrdered /\ calls' = (calls \ {call}) \cup more
        /\ ref = 0 /\ SourcesOK(sources) /\ Live(sources) = {}
        /\ WantedCalls' = {d \in more : d.session = session
                             /\ d.kind \in {"hydrate", "recover", "create"}}
    <3>1. Settle(call, more)
      BY <2>3
    <3> HIDE DEF more
    <3> QED BY <1>2, <2>3, <3>1, IsTheWanted
  <2>5. created \in DOMAIN log /\ created \in Runs
    BY <2>3, <2>4, <2>1 DEF ClientInv, AnswersHold, LogIsOrdered
  <2>6. IsNewCall(c) /\ c.kind = "hydrate" /\ c.run = created /\ c.session = session /\ c.answer = Null
    BY <2>3, <2>4, <2>5, <2>2 DEF Call, IsNewCall, Requests, RunCalls, Answers, Maybe
  <2>7. WantedCalls' = {c} /\ \A d \in calls' : d \in calls \/ IsNewCall(d)
    BY <2>4, <2>6
  <2>8. /\ IsView(view') /\ view'.runId = created /\ view'.snapshot = Null
        /\ view'.latestSequence = 0 /\ view'.connection = "connecting"
        /\ view'.isCreating = FALSE /\ view'.pendingControl = Null
    BY <2>3, RunSelectedIs
  <2>9. SourcesTypeOK' /\ ConnectionIsTrue' /\ LiveSources' = {}
    BY <2>3, <2>4, <2>8, Disconnected
  <2>10. ViewTypeOK' /\ PageKeepsUp' /\ PageIsAPrefix'
    BY <2>3, <2>4, <2>5, <2>8, BlankPage
  <2>11. OneRequestIsWanted'
    BY <2>3, <2>4, <2>6, <2>7, <2>8 DEF OneRequestIsWanted, HasAnswer
  <2> QED BY <2>3, <2>7, <2>8, <2>9, <2>10, <2>11, SameSession
<1> QED BY <1>1, <1>2

\* A run that cannot be had keeps the invariant.
LEMMA createRunFailedKeeps ==
  ASSUME ClientInv, NEW call \in calls, createRunFailed(call)
  PROVE  ClientInv'
<1>1. CASE ~IsWanted(call)
  BY <1>1, NotWanted DEF createRunFailed, client
<1>2. CASE IsWanted(call)
  <2>1. /\ Settle(call, {}) /\ UNCHANGED <<log, session, ref, sources>> /\ url' = Null
        /\ view' = Errored(view, localizedErrorMessage(call.answer.code)) /\ call.kind = "create"
    BY <1>2 DEF createRunFailed
  <2>2. /\ session \in Nat /\ LogIsOrdered /\ calls' = (calls \ {call}) \cup {}
        /\ ref = 0 /\ SourcesOK(sources) /\ Live(sources) = {} /\ WantedCalls = {call}
        /\ IsView(view)
        /\ WantedCalls' = {c \in {} : c.session = session
                             /\ c.kind \in {"hydrate", "recover", "create"}}
    BY <1>2, <2>1, IsTheWanted
  <2>3. WantedCalls' = {} /\ calls' \subseteq calls
    BY <2>2
  <2>4. view.runId = Null /\ view.connection = "idle"
    BY <2>1, <2>2 DEF ClientInv, OneRequestIsWanted
  <2>5. /\ IsView(view') /\ view'.isCreating = FALSE /\ view'.pendingControl = Null
        /\ Keeps(view, view', Fields \ {"isCreating", "pendingControl"})
    BY <2>1, <2>2, ErroredIs
  <2>6. /\ view'.runId = Null /\ view'.snapshot = view.snapshot /\ view'.status = view.status
        /\ view'.connection = "idle"
        /\ Keeps(view, view', {"runId", "snapshot", "latestSequence", "drafts"})
    BY <2>4, <2>5 DEF Keeps, Fields
  <2>7. SourcesTypeOK' /\ ConnectionIsTrue' /\ LiveSources' = {}
    BY <2>1, <2>2, <2>6, Disconnected
  <2>8. ViewTypeOK' /\ PageKeepsUp' /\ PageIsAPrefix'
    BY <2>1, <2>2, <2>5, <2>6, ShownStays
  <2>9. OneRequestIsWanted'
    BY <2>3, <2>6, NothingWanted
  <2> QED BY <2>1, <2>3, <2>5, <2>6, <2>7, <2>8, <2>9, SameSession
<1> QED BY <1>1, <1>2

\* The answer to a control keeps the invariant.
LEMMA runControlAnsweredKeeps ==
  ASSUME ClientInv, NEW call \in calls, runControlAnswered(call)
  PROVE  ClientInv'
<1> DEFINE w == IF HasAnswer(call, "status") THEN StatusUpdated(view, call.answer.status)
                ELSE Errored(view, localizedErrorMessage(call.answer.code))
<1>1. /\ calls' = (calls \ {call}) \cup {} /\ UNCHANGED <<log, url, session, ref, sources>>
      /\ view' = ControlFinished(w) /\ call.kind \in {"pause", "resume", "cancel"}
  BY DEF runControlAnswered, Settle
<1>2. IsView(view) /\ call \in Requests
  BY DEF ClientInv, ViewTypeOK, IsView, AnswersHold
<1>3. /\ IsView(w) /\ Keeps(view, w, Fields \ {"status", "isCreating", "pendingControl"})
      /\ w.isCreating = view.isCreating \/ w.isCreating = FALSE
      /\ w.status = view.status
           \/ (w.status \in RunStatuses
                 /\ (isTerminalRunStatus(w.status) => ~NobodyCancelled))
  <2>1. CASE HasAnswer(call, "status")
    <3>1. w = StatusUpdated(view, call.answer.status)
      BY <2>1
    <3>2. /\ call.answer.status \in RunStatuses
          /\ isTerminalRunStatus(call.answer.status) => ~NobodyCancelled
      <4>1. call.answer.status \in RunStatuses
        BY <1>2, <2>1 DEF Requests, Answers, HasAnswer
      <4> QED BY <2>1, <4>1 DEF ClientInv, AnswersHold, NobodyCancelled
    <3>3. /\ IsView(w) /\ w.status = call.answer.status
          /\ Keeps(view, w, Fields \ {"status", "pendingControl"})
      BY <1>2, <3>1, StatusUpdatedIs
    <3> HIDE DEF w
    <3> QED BY <3>2, <3>3 DEF Keeps, Fields
  <2>2. CASE ~HasAnswer(call, "status")
    <3>1. w = Errored(view, localizedErrorMessage(call.answer.code))
      BY <2>2
    <3>2. /\ IsView(w) /\ w.isCreating = FALSE
          /\ Keeps(view, w, Fields \ {"isCreating", "pendingControl"})
      BY <1>2, <3>1, ErroredIs
    <3> HIDE DEF w
    <3> QED BY <3>2 DEF Keeps, Fields
  <2> QED BY <2>1, <2>2
<1> HIDE DEF w
<1>4. /\ IsView(view') /\ view'.pendingControl = Null
      /\ Keeps(w, view', Fields \ {"pendingControl"})
  BY <1>1, <1>3, ControlFinishedIs
<1>5. /\ view'.runId = view.runId /\ view'.snapshot = view.snapshot
      /\ view'.status = w.status /\ view'.connection = view.connection
      /\ view'.isCreating = view.isCreating \/ view'.isCreating = FALSE
      /\ view'.latestSequence = view.latestSequence
      /\ Keeps(view, view', {"runId", "snapshot", "latestSequence", "drafts"})
  BY <1>3, <1>4 DEF Keeps, Fields
<1>6. WantedCalls' = WantedCalls /\ LiveSources' = LiveSources /\ calls' \subseteq calls
  BY <1>1 DEF WantedCalls, IsWanted, LiveSources
<1>7. SourcesTypeOK' /\ ConnectionIsTrue'
  BY <1>1, <1>5, <1>6 DEF ClientInv, SourcesTypeOK, ConnectionIsTrue, OneLiveSource,
                          ConnectionIsShown, UrlIsTheRun
<1>8. ViewTypeOK' /\ PageKeepsUp' /\ PageIsAPrefix'
  <2>1. /\ view.connection \in {"idle", "connecting", "open", "recovering", "closed"}
        /\ view.isCreating \in BOOLEAN
    BY DEF ClientInv, ViewTypeOK
  <2> QED BY <1>1, <1>3, <1>4, <1>5, <2>1, ShownStays
<1>9. OneRequestIsWanted'
  BY <1>1, <1>5, <1>6, WantedSame
<1>10. /\ view'.connection \in {"connecting", "recovering"} =>
            LiveSources' # {} \/ WantedCalls' # {}
       /\ view'.isCreating => \E c \in WantedCalls' : c.kind = "create"
  BY <1>5, <1>6 DEF ClientInv, NeverStranded
<1> QED BY <1>1, <1>4, <1>6, <1>7, <1>8, <1>9, <1>10, SameSession

\* A control that is asked for keeps the invariant.
LEMMA runControlKeeps ==
  ASSUME ClientInv, NEW control \in Controls, runControl(control)
  PROVE  ClientInv'
<1> DEFINE c == Call(control, view.runId)
<1>1. /\ UNCHANGED <<log, url, session, ref, sources>> /\ calls' = calls \cup {c}
      /\ view' = ControlStarted(view, control) /\ Screen(view) = "workspace"
  BY DEF runControl
<1>2. IsView(view) /\ session \in Nat /\ LogIsOrdered
  BY DEF ClientInv, ViewTypeOK, IsView, SourcesTypeOK
<1>3. view.runId \in DOMAIN log /\ view.runId \in Runs
  BY <1>1, <1>2 DEF ClientInv, ViewTypeOK, Screen, LogIsOrdered
<1>4. control \in {"pause", "resume", "cancel"}
  BY ClientAssumption
<1>5. IsNewCall(c) /\ c.kind = control
  BY <1>1, <1>2, <1>3, <1>4 DEF Call, IsNewCall, Requests, RunCalls, Answers, Maybe
<1> HIDE DEF c
<1>6. /\ IsView(view') /\ Keeps(view, view', Fields \ {"pendingControl"})
  BY <1>1, <1>2, ControlStartedIs
<1>7. /\ view'.runId = view.runId /\ view'.snapshot = view.snapshot
      /\ view'.status = view.status /\ view'.connection = view.connection
      /\ view'.isCreating = view.isCreating
      /\ view'.latestSequence = view.latestSequence
      /\ Keeps(view, view', {"runId", "snapshot", "latestSequence", "drafts"})
  BY <1>6 DEF Keeps, Fields
<1>8. WantedCalls' = WantedCalls /\ LiveSources' = LiveSources
  BY <1>1, <1>4, <1>5 DEF WantedCalls, IsWanted, LiveSources
<1>9. SourcesTypeOK' /\ ConnectionIsTrue'
  BY <1>1, <1>7, <1>8 DEF ClientInv, SourcesTypeOK, ConnectionIsTrue, OneLiveSource,
                          ConnectionIsShown, UrlIsTheRun
<1>10. ViewTypeOK' /\ PageKeepsUp' /\ PageIsAPrefix'
  <2>1. /\ view.connection \in {"idle", "connecting", "open", "recovering", "closed"}
        /\ view.isCreating \in BOOLEAN
    BY DEF ClientInv, ViewTypeOK
  <2> QED BY <1>1, <1>6, <1>7, <2>1, ShownStays
<1>11. OneRequestIsWanted'
  BY <1>1, <1>7, <1>8, WantedSame
<1>12. /\ view'.connection \in {"connecting", "recovering"} =>
            LiveSources' # {} \/ WantedCalls' # {}
       /\ view'.isCreating => \E d \in WantedCalls' : d.kind = "create"
  BY <1>7, <1>8 DEF ClientInv, NeverStranded
<1>13. /\ \E d \in calls' : d.kind \in Controls
       /\ \A d \in calls' : d \in calls \/ IsNewCall(d)
  BY <1>1, <1>5
<1> QED BY <1>1, <1>9, <1>10, <1>11, <1>12, <1>13, SameSession

--------------------------------------------------------------------------------
(* The theorems. *)

\* A page that has just been loaded has the invariant.
LEMMA InitHolds == Init => ClientInv
<1> SUFFICES ASSUME Init PROVE ClientInv
  OBVIOUS
<1> DEFINE first == CHOOSE run \in Runs : TRUE
<1>1. first \in Runs /\ Runs # {} /\ Null \notin Runs
  BY NullAssumption
<1>2. /\ DOMAIN log = {first} /\ log[first] = <<>> /\ url \in {Null, first}
      /\ ref = 0 /\ sources = EmptyMap
  BY DEF Init
<1>3. url = Null => session = 0 /\ view = initialRunViewState /\ calls = {}
  BY DEF Init
<1>4. url # Null =>
        /\ session = 1 /\ view = RunSelected(initialRunViewState, url)
        /\ calls = {[kind |-> "hydrate", run |-> url, session |-> 1, answer |-> Null]}
  BY DEF Init
<1> HIDE DEF first
<1>5. /\ IsView(view) /\ view.runId = url /\ view.snapshot = Null /\ view.latestSequence = 0
      /\ view.isCreating \in BOOLEAN /\ ~view.isCreating /\ view.pendingControl = Null
      /\ view.connection \in {"idle", "connecting"}
      /\ view.connection = "connecting" => url # Null
  <2>1. CASE url = Null
    BY <1>3, <2>1, InitialView
  <2>2. CASE url # Null
    BY <1>4, <2>2, RunSelectedIs
  <2> QED BY <2>1, <2>2
<1>6. LogIsOrdered
  BY <1>1, <1>2 DEF LogIsOrdered
<1>7. session \in Nat
  BY <1>3, <1>4
<1>8. /\ \A call \in calls : /\ call \in Requests /\ call.session = session
                             /\ call.kind = "hydrate" /\ call.answer = Null
                             /\ call.run = url /\ url # Null
      /\ \A c, d \in calls : c = d
      /\ url # Null => calls # {}
  <2>1. CASE url = Null
    BY <1>3, <2>1
  <2>2. CASE url # Null
    <3>1. url \in Maybe(Runs) /\ 1 \in Nat /\ Null \in Answers
      BY <1>1, <1>2, <2>2 DEF Maybe, Answers
    <3>2. [kind |-> "hydrate", run |-> url, session |-> 1, answer |-> Null] \in Requests
      BY <3>1 DEF Requests, RunCalls
    <3> QED BY <1>4, <2>2, <3>2
  <2> QED BY <2>1, <2>2
<1>9. WantedCalls = calls
  BY <1>8 DEF WantedCalls, IsWanted
<1>10. AnswersHold
  BY <1>2, <1>7, <1>8 DEF AnswersHold, HasAnswer, RunCalls
<1>11. SourcesTypeOK /\ LiveSources = {}
  BY <1>2, <1>7, FS_EmptySet DEF SourcesTypeOK, LiveSources, EmptyMap
<1>12. ViewTypeOK
  <2>1. url # Null => view.latestSequence <= Len(log[url])
    BY <1>2, <1>5
  <2> QED BY <1>2, <1>5, <2>1 DEF ViewTypeOK, IsView
<1>13. OneRequestIsWanted
  BY <1>2, <1>5, <1>8, <1>9 DEF OneRequestIsWanted, HasAnswer
<1>14. ConnectionIsTrue
  BY <1>2, <1>5, <1>11 DEF ConnectionIsTrue, OneLiveSource, ConnectionIsShown, UrlIsTheRun
<1>15. view.runId # Null => WantedCalls # {}
  BY <1>5, <1>8, <1>9
<1>16. NeverStranded
  BY <1>5, <1>15 DEF NeverStranded
<1>17. PageKeepsUp /\ PageIsAPrefix
  BY <1>5 DEF PageKeepsUp, PageIsAPrefix
<1> QED BY <1>6, <1>10, <1>11, <1>12, <1>13, <1>14, <1>16, <1>17 DEF ClientInv

\* Every step keeps the invariant.
LEMMA StepKeeps == ClientInv /\ [Next]_vars => ClientInv'
<1> SUFFICES ASSUME ClientInv, [Next]_vars PROVE ClientInv'
  OBVIOUS
<1>1. CASE ServerStep
  BY <1>1, RunGoesOn
<1>2. ASSUME NEW call \in calls, AnswerStep(call) \/ LoseCall(call)
      PROVE  ClientInv'
  BY <1>2, ServerAnswers
<1>3. ASSUME NEW call \in calls, SettleStep(call)
      PROVE  ClientInv'
  BY <1>3, SnapshotAnsweredKeeps, hydrateFailedKeeps, recoverFailedKeeps,
     createRunAnsweredKeeps, createRunFailedKeeps, runControlAnsweredKeeps DEF SettleStep
<1>4. ASSUME NEW i \in DOMAIN sources,
             \/ onopen(i) \/ Message(i) \/ LateMessage(i)
             \/ \E fatal \in BOOLEAN : onerror(i, fatal)
      PROVE  ClientInv'
  BY <1>4, onopenKeeps, MessageKeeps, LateMessageKeeps, onerrorKeeps
<1>5. CASE ReaderStep
  BY <1>5, selectRunKeeps, createRunKeeps, retryConnectionKeeps, newRunKeeps, ReloadKeeps,
     runControlKeeps DEF ReaderStep
<1>6. CASE UNCHANGED vars
  BY <1>6, NothingAnswered DEF vars, client, LogStep
<1> QED BY <1>1, <1>2, <1>3, <1>4, <1>5, <1>6 DEF Next

\* The page, its requests, its sources and the runs' logs always fit together.
THEOREM ClientInvariance == Spec => []ClientInv
<1>1. Init => ClientInv
  BY InitHolds
<1>2. ClientInv /\ [Next]_vars => ClientInv'
  BY StepKeeps
<1> QED BY <1>1, <1>2, PTL DEF Spec

\* The page has one live EventSource at most, of the run it shows, says of its
\* connection what is so, and has that run in its address: however many sessions,
\* recoveries and retries overlapped.
THEOREM ConnectionTrue == Spec => []ConnectionIsTrue
<1>1. ClientInv => ConnectionIsTrue
  BY DEF ClientInv
<1> QED BY <1>1, ClientInvariance, PTL

\* As long as no run was cancelled, the page shows the text of its run up to the last
\* event it counts: no snapshot, reconnection or late event doubles or drops a piece.
THEOREM PageIsPrefix == Spec => []PageIsAPrefix
<1>1. ClientInv => PageIsAPrefix
  BY DEF ClientInv
<1> QED BY <1>1, ClientInvariance, PTL

\* The page never waits for what nobody will send: it has a source, a request it wants
\* the answer of, the end of its run, or a button to connect again.
THEOREM NotStranded == Spec => []NeverStranded
<1>1. ClientInv => NeverStranded
  BY DEF ClientInv
<1> QED BY <1>1, ClientInvariance, PTL

--------------------------------------------------------------------------------
(* No step takes events back. *)

NotOlder ==
  view.snapshot # Null /\ view'.snapshot # Null /\ view'.runId = view.runId
    => view'.latestSequence >= view.latestSequence

\* A step that does not touch what the page counts.
LEMMA SameCount ==
  ASSUME ClientInv,
         \/ view' = view
         \/ view'.snapshot = Null
         \/ IsView(view') /\ Keeps(view, view', {"latestSequence"})
  PROVE  NotOlder
BY DEF ClientInv, ViewTypeOK, Keeps, NotOlder

\* A snapshot never takes the page back.
LEMMA SnapshotNotOlder ==
  ASSUME ClientInv, NEW call \in calls, SnapshotAnswered(call)
  PROVE  NotOlder
<1>1. CASE ~IsWanted(call)
  BY <1>1, SameCount DEF SnapshotAnswered
<1>2. CASE IsWanted(call)
  <2>1. PICK loaded : loaded = SnapshotLoaded(view, SnapshotAt(call.run, call.answer.at))
    OBVIOUS
  <2>2. IsView(loaded) /\ loaded.latestSequence = call.answer.at
    BY <2>1, SnapshotLoadedIs DEF ClientInv, ViewTypeOK, IsView
  <2>3. \E c : view' = ConnectionChanged(loaded, c)
    BY <1>2, <2>1 DEF SnapshotAnswered, ShowSnapshot
  <2>4. view'.latestSequence = call.answer.at
    BY <2>2, <2>3, ConnectionChangedIs DEF Keeps, Fields
  <2>5. call \in WantedCalls /\ HasAnswer(call, "at") /\ call.kind \in {"hydrate", "recover"}
    BY <1>2 DEF SnapshotAnswered, WantedCalls
  <2>6. view.latestSequence <= call.answer.at
    BY <2>5 DEF ClientInv, OneRequestIsWanted
  <2>7. view.latestSequence \in Nat /\ call.run \in DOMAIN log /\ call.answer.at <= Len(log[call.run])
    BY <2>5 DEF ClientInv, ViewTypeOK, AnswersHold
  <2> QED BY <2>4, <2>6, <2>7 DEF NotOlder
<1> QED BY <1>1, <1>2

\* A message never takes the page back.
LEMMA MessageNotOlder ==
  ASSUME ClientInv, NEW i \in DOMAIN sources, Message(i) \/ LateMessage(i)
  PROVE  NotOlder
<1>1. CASE ~IsCurrentSource(i)
  BY <1>1, SameCount DEF Message, LateMessage, Receive
<1>2. CASE IsCurrentSource(i)
  <2>1. ref = i /\ ref # 0 /\ sources[i].run = view.runId
    BY <1>2 DEF IsCurrentSource, ClientInv, SourcesTypeOK, ConnectionIsTrue, OneLiveSource
  <2>2. PICK e, w : /\ e = log[view.runId][sources[ref].cursor + 1] /\ w = EventReceived(view, e)
    OBVIOUS
  <2>3. /\ sources[ref].cursor < Len(log[view.runId])
        /\ view' = w \/ view' = ConnectionChanged(w, "closed")
    BY <1>2, <2>1, <2>2 DEF Message, LateMessage, Receive
  <2>4. /\ IsView(w) /\ w.latestSequence \in Nat /\ view.latestSequence <= w.latestSequence
    BY <2>1, <2>2, <2>3, EventShown
  <2>5. view'.latestSequence = w.latestSequence
    BY <2>3, <2>4, ConnectionChangedIs DEF Keeps, Fields
  <2> QED BY <2>4, <2>5 DEF NotOlder, ClientInv, ViewTypeOK
<1> QED BY <1>1, <1>2

\* A request that ends never takes the page back.
LEMMA SettledNotOlder ==
  ASSUME ClientInv, NEW call \in calls, SettleStep(call)
  PROVE  NotOlder
<1>1. IsView(view)
  BY DEF ClientInv, ViewTypeOK, IsView
<1>2. CASE SnapshotAnswered(call)
  BY <1>2, SnapshotNotOlder
<1>3. CASE hydrateFailed(call)
  <2>1. \/ view' = view
        \/ \E m : view' = Errored(initialRunViewState, m)
    BY <1>3 DEF hydrateFailed, Reset
  <2>2. ASSUME NEW m, view' = Errored(initialRunViewState, m) PROVE view'.snapshot = Null
    BY <2>2, InitialView, ErroredIs DEF Keeps, Fields
  <2> QED BY <2>1, <2>2, SameCount
<1>4. CASE recoverFailed(call)
  <2>1. \/ view' = view
        \/ \E m : view' = ConnectionChanged(Errored(view, m), "closed")
    BY <1>4 DEF recoverFailed
  <2>2. ASSUME NEW m, view' = ConnectionChanged(Errored(view, m), "closed")
        PROVE  IsView(view') /\ Keeps(view, view', {"latestSequence"})
    BY <1>1, <2>2, ErroredIs, ConnectionChangedIs DEF Keeps, Fields
  <2> QED BY <2>1, <2>2, SameCount
<1>5. CASE createRunAnswered(call)
  BY <1>5, RunSelectedIs, SameCount DEF createRunAnswered
<1>6. CASE createRunFailed(call)
  <2>1. \/ view' = view
        \/ \E m : view' = Errored(view, m)
    BY <1>6 DEF createRunFailed
  <2>2. ASSUME NEW m, view' = Errored(view, m)
        PROVE  IsView(view') /\ Keeps(view, view', {"latestSequence"})
    BY <1>1, <2>2, ErroredIs DEF Keeps, Fields
  <2> QED BY <2>1, <2>2, SameCount
<1>7. CASE runControlAnswered(call)
  <2>1. PICK w : /\ view' = ControlFinished(w)
                 /\ \/ \E s : w = StatusUpdated(view, s)
                    \/ \E m : w = Errored(view, m)
    BY <1>7 DEF runControlAnswered
  <2>2. IsView(w) /\ Keeps(view, w, {"latestSequence"})
    BY <1>1, <2>1, StatusUpdatedIs, ErroredIs DEF Keeps, Fields
  <2>3. IsView(view') /\ Keeps(view, view', {"latestSequence"})
    BY <2>1, <2>2, ControlFinishedIs DEF Keeps, Fields
  <2> QED BY <2>3, SameCount
<1> QED BY <1>2, <1>3, <1>4, <1>5, <1>6, <1>7 DEF SettleStep

\* No step takes the page back.
LEMMA StepNotOlder == ClientInv /\ [Next]_vars => NotOlder
<1> SUFFICES ASSUME ClientInv, [Next]_vars PROVE NotOlder
  OBVIOUS
<1>1. IsView(view)
  BY DEF ClientInv, ViewTypeOK, IsView
<1>2. CASE ServerStep \/ UNCHANGED vars
  BY <1>2, SameCount DEF ServerStep, Write, Park, Fail, client, vars
<1>3. ASSUME NEW call \in calls, AnswerStep(call) \/ LoseCall(call)
      PROVE  NotOlder
  BY <1>3, SameCount DEF AnswerStep, AnswerGetRun, AnswerCreateRun, AnswerPause, AnswerResume,
                         AnswerCancel, LoseCall, client
<1>4. ASSUME NEW call \in calls, SettleStep(call)
      PROVE  NotOlder
  BY <1>4, SettledNotOlder
<1>5. ASSUME NEW i \in DOMAIN sources, onopen(i)
      PROVE  NotOlder
  <2>1. view' = view \/ view' = ConnectionChanged(view, "open")
    BY <1>5 DEF onopen
  <2> QED BY <1>1, <2>1, ConnectionChangedIs, SameCount DEF Keeps, Fields
<1>6. ASSUME NEW i \in DOMAIN sources, Message(i) \/ LateMessage(i)
      PROVE  NotOlder
  BY <1>6, MessageNotOlder
<1>7. ASSUME NEW i \in DOMAIN sources, NEW fatal \in BOOLEAN, onerror(i, fatal)
      PROVE  NotOlder
  <2>1. view' = view \/ \E c : view' = ConnectionChanged(view, c)
    BY <1>7 DEF onerror
  <2> QED BY <1>1, <2>1, ConnectionChangedIs, SameCount DEF Keeps, Fields
<1>8. CASE ReaderStep
  <2>1. ASSUME NEW run, selectRun(run) PROVE NotOlder
    BY <2>1, RunSelectedIs, SameCount DEF selectRun
  <2>2. CASE createRun
    BY <2>2, CreateStartedIs, SameCount DEF createRun
  <2>3. CASE retryConnection
    <3>1. view' = ConnectionChanged(ClearError(view), "recovering")
      BY <2>3 DEF retryConnection
    <3>2. IsView(view') /\ Keeps(view, view', {"latestSequence"})
      BY <1>1, <3>1, ClearErrorIs, ConnectionChangedIs DEF Keeps, Fields
    <3> QED BY <3>2, SameCount
  <2>4. CASE newRun
    BY <2>4, InitialView, SameCount DEF newRun, Reset
  <2>5. CASE Reload
    BY <2>5, InitialView, RunSelectedIs, SameCount DEF Reload, MountWith
  <2>6. ASSUME NEW control, runControl(control) PROVE NotOlder
    <3>1. view' = ControlStarted(view, control)
      BY <2>6 DEF runControl
    <3> QED BY <1>1, <3>1, ControlStartedIs, SameCount DEF Keeps, Fields
  <2> QED BY <1>8, <2>1, <2>2, <2>3, <2>4, <2>5, <2>6 DEF ReaderStep
<1> QED BY <1>2, <1>3, <1>4, <1>5, <1>6, <1>7, <1>8 DEF Next

\* While a run stays on the screen, the page never counts fewer of its events than it
\* did: neither an answer of an earlier session nor a closed source's late event is
\* applied, and the snapshot of a recovery is newer than the page.
THEOREM NeverOlder == Spec => NoRewind
<1>1. ClientInv /\ [Next]_vars =>
        [view.snapshot # Null /\ view'.snapshot # Null /\ view'.runId = view.runId
           => view'.latestSequence >= view.latestSequence]_vars
  BY StepNotOlder DEF NotOlder
<1> QED BY <1>1, ClientInvariance, PTL DEF Spec, NoRewind

================================================================================
