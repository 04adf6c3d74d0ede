----------------------------- MODULE EventStream -----------------------------
(***************************************************************************)
(* One run's event stream of the v2 reference host (events.ts streamRun,     *)
(* runs.ts stream) and a client that follows it: the backlog after its       *)
(* Last-Event-ID, then live events, one frame each or gathered in batches,   *)
(* with a snapshot frame after each event in values mode.  The connection    *)
(* breaks at any point, and what was on its way is lost.                     *)
(*                                                                           *)
(* A sequence is an event's index from 0.  Frames are kept as the set of     *)
(* sequences they carry; a snapshot frame carries none.                      *)
(***************************************************************************)
EXTENDS Integers, Sequences, FiniteSetsExt

CONSTANTS Requests,  \* how a stream is asked for: [modes, buffered]
          MaxEvents, \* bound: events of the run
          MaxDrops   \* bound: times the connection breaks

ASSUME StreamAssumption ==
  /\ Requests \subseteq [modes : SUBSET {"updates", "values", "messages", "debug"}, buffered : BOOLEAN]
  /\ MaxEvents \in Nat /\ MaxDrops \in Nat

VARIABLES log,    \* the run's events, by kind
          req,    \* what the client asks for, on every connection
          conn,   \* the host's end of the connection and what is on its way
          client, \* where the client is, its Last-Event-ID, the events it got
          drops

vars == <<log, req, conn, client, drops>>

---------------------------------------------------------------------------
(* Events.  A kind is what the stream tells apart: output.chunk, the types    *)
(* that only debug shows, node.suspended, the run's terminal event, the rest. *)

Kinds == {"step", "chunk", "note", "suspended", "end"}

Over == log # <<>> /\ log[Len(log)] = "end"

\* The events some requested mode shows.
Admitted(kind) ==
  \/ "debug" \in req.modes
  \/ req.modes \cap {"updates", "values"} # {} /\ kind \in {"step", "suspended", "end"}
  \/ "messages" \in req.modes /\ kind = "chunk"

---------------------------------------------------------------------------
(* The host's end *)

Gone == [open |-> FALSE, batch |-> {}, timer |-> FALSE, delivered |-> -1, out |-> <<>>]

Frame(id, events) == [id |-> id, events |-> events, close |-> FALSE]

Close == [id |-> -1, events |-> {}, close |-> TRUE]

WriteFrame(c, id, events) ==
  IF c.open THEN [c EXCEPT !.out = Append(@, Frame(id, events))] ELSE c

\* The batch goes out under the sequence of its last event.
Flush(c) ==
  IF c.batch = {} THEN c
  ELSE [WriteFrame(c, Max(c.batch), c.batch) EXCEPT !.batch = {}, !.timer = FALSE]

End(c) ==
  IF c.open THEN [Flush(c) EXCEPT !.open = FALSE, !.out = Append(@, Close)] ELSE c

\* The batch has its timer.
Armed(c) == [c EXCEPT !.timer = TRUE]

\* One event of a kind goes through the connection.
Emit(c, s, kind) ==
  LET gathered == [c EXCEPT !.batch = @ \cup {s}]
      sent == IF ~req.buffered THEN WriteFrame(c, s, {s})
              ELSE IF kind \in {"suspended", "end"} THEN Flush(gathered)
              ELSE Armed(gathered)
      shown == IF "values" \in req.modes THEN WriteFrame(sent, s, {}) ELSE sent
  IN  IF ~Admitted(kind) THEN c
      ELSE IF kind = "end" THEN End(shown) ELSE shown

\* Where the backlog after last begins.
BacklogFrom(last) == last + 1

\* streamRun: the backlog after last, then the end if the run is over, else live.
Open(last) ==
  LET fresh == [Gone EXCEPT !.open = TRUE, !.delivered = last]
      first == IF "values" \in req.modes /\ last >= 0 THEN WriteFrame(fresh, last, {}) ELSE fresh
      from == BacklogFrom(last)
      upTo[n \in -1..Len(log) - 1] ==
        IF n < from THEN first
        ELSE IF upTo[n - 1].open THEN Emit([upTo[n - 1] EXCEPT !.delivered = n], n, log[n + 1])
        ELSE upTo[n - 1]
  IN  IF Over THEN End(upTo[Len(log) - 1]) ELSE upTo[Len(log) - 1]

\* onEvent: what the backlog did not bring.
Live(c, s, kind) ==
  IF c.open /\ s > c.delivered THEN Emit([c EXCEPT !.delivered = s], s, kind) ELSE c

---------------------------------------------------------------------------
(* Steps *)

Init ==
  /\ log = <<>> /\ req \in Requests
  /\ conn = Gone /\ client = [at |-> "off", last |-> -1, got |-> {}]
  /\ drops = 0

\* The executor appends an event: the terminal one is the last.
AppendEvent(kind) ==
  /\ ~Over /\ Len(log) < MaxEvents
  /\ log' = Append(log, kind)
  /\ conn' = Live(conn, Len(log), kind)
  /\ UNCHANGED <<req, client, drops>>

\* The client asks for what comes after the last id it saw.
Connect ==
  /\ client.at = "off"
  /\ conn' = Open(client.last)
  /\ client' = [client EXCEPT !.at = "on"]
  /\ UNCHANGED <<log, req, drops>>

\* A wrong form: a batch of one waits for a second event.
FlushTimerOfTwo ==
  /\ conn.open /\ conn.timer /\ Cardinality(conn.batch) > 1
  /\ conn' = Flush(conn)
  /\ UNCHANGED <<log, req, client, drops>>

\* bufferMs after the first event of a batch.
FlushTimer ==
  /\ conn.open /\ conn.timer
  /\ conn' = Flush(conn)
  /\ UNCHANGED <<log, req, client, drops>>

\* The next frame arrives, or the host's end of the stream.
Receive ==
  /\ conn.out # <<>>
  /\ LET frame == Head(conn.out)
     IN  client' = IF frame.close THEN [client EXCEPT !.at = "ended"]
                   ELSE [client EXCEPT !.last = frame.id, !.got = @ \cup frame.events]
  /\ conn' = [conn EXCEPT !.out = Tail(@)]
  /\ UNCHANGED <<log, req, drops>>

\* The connection breaks, or the host's process dies: the log stays.
Drop ==
  /\ client.at = "on" /\ drops < MaxDrops
  /\ drops' = drops + 1
  /\ conn' = Gone /\ client' = [client EXCEPT !.at = "off"]
  /\ UNCHANGED <<log, req>>

Next == (\E kind \in Kinds : AppendEvent(kind)) \/ Connect \/ FlushTimer \/ Receive \/ Drop

---------------------------------------------------------------------------
(* What is promised *)

Shown == {s \in 0..Len(log) - 1 : Admitted(log[s + 1])}

\* A connection whose events are not gathered while snapshots go out at once.
Apart == ~(req.buffered /\ "values" \in req.modes)

\* What is appended reaches the client, however it is gathered and whatever breaks.
EveryEventArrives == \A s \in 0..MaxEvents - 1 : s \in Shown /\ Apart ~> s \in client.got

=============================================================================
