--------------------------- MODULE EventLogInvariant ----------------------------
(***************************************************************************)
(* The inductive invariant of EventLog.  A client misses nothing because   *)
(* three stretches of the log meet without a gap: what it has handled,     *)
(* what is on its wire, and what its subscription is about to yield; and   *)
(* because the hot buffer is always the newest end of the log.             *)
(***************************************************************************)
EXTENDS EventLog

\* Where the subscription of a client stands: behind the last message on the wire.
WireEnd(c) == IF wire[c] = <<>> THEN lastId[c] ELSE wire[c][Len(wire[c])]

\* Nobody is served without a process, nor without a connection; a subscription
\* yields as long as something is left to yield.
ServersFitConnections ==
  \A c \in Clients :
    /\ life = "down" \/ conn[c] # "open" => server[c] = "none"
    /\ conn[c] # "open" => wire[c] = <<>>
    /\ server[c] = "yield" <=> pending[c] # {}
    /\ server[c] # "none" => cursor[c] = WireEnd(c)
    /\ conn[c] \in {"connecting", "open"} => errors[c] < MaxNativeRetries
    /\ after[c] <= lastId[c]

\* The numbering is ahead of everything stored, and until a restart of everything
\* there is.
CounterIsAhead ==
  /\ life # "down" => rows \cup hot \subseteq 1..counter
  /\ life # "down" /\ restarts = 0 =>
       /\ run.seq <= counter /\ endAt <= counter
       /\ \A c \in Clients : /\ lastId[c] <= counter
                             /\ \A i \in 1..Len(wire[c]) : wire[c][i] <= counter
                             /\ pending[c] \subseteq 1..counter

\* No row is missing from the buffer behind its oldest event.
BufferIsTheNewest == \A h \in hot, s \in rows : s >= h => s \in hot

\* What is on the wire goes up, and what is yet to be yielded lies behind it.
WireIsOrdered ==
  \A c \in Clients :
    /\ \A i \in 1..Len(wire[c]) : lastId[c] < wire[c][i]
    /\ \A i, j \in 1..Len(wire[c]) : i < j => wire[c][i] < wire[c][j]
    /\ \A s \in pending[c] : cursor[c] < s

\* No row is missing between what was handled, what is on the wire, and what is yet
\* to be yielded.
StreamHasNoGap ==
  \A c \in Clients, s \in rows :
    /\ after[c] < s /\ s <= lastId[c] => s \in got[c]
    /\ \A i \in 1..Len(wire[c]) :
         lastId[c] < s /\ s <= wire[c][i] => \E j \in 1..i : wire[c][j] = s
    /\ \A p \in pending[c] : cursor[c] < s /\ s <= p => s \in pending[c]

\* What is stored of the run is never ahead of what the process knows of it, and as
\* long as no write fails it lacks nothing but the latest events.  Until a restart
\* the process knows whether the run has ended.
StoreFollows ==
  /\ saved.seq <= run.seq
  /\ faults = 0 => saved.status = run.status
  /\ life # "down" /\ restarts = 0 =>
       /\ faults = 0 => run.seq = counter
       /\ run.status = Ended <=> endAt # 0

LogInv ==
  /\ TypeOK
  /\ ServersFitConnections
  /\ CounterIsAhead
  /\ BufferIsTheNewest
  /\ WireIsOrdered
  /\ StreamHasNoGap
  /\ StoreFollows
  /\ DatabaseIsCoherent
  /\ NobodySleepsOnNews

================================================================================
