-------------------------------- MODULE Streams --------------------------------
(* A streamed call: the proxy's producer task reads the upstream into a    *)
(* channel of one chunk (proxy.rs), the response body drains it through    *)
(* the end-of-stream guard (sse.rs) and the completed event (lib.rs), and  *)
(* the connection writes it out under a deadline (write_timeout.rs).  What *)
(* is logged of the call is appended by a blocking thread: the call waits  *)
(* for it, and the append outlives a call that is dropped meanwhile.       *)
(* A chunk is one lexical element of SSE.                                  *)
EXTENDS Integers, Sequences, SequencesExt

CONSTANTS
  Modes,     \* "data": ends with data [DONE]; "event": with event message_stop
  MaxLen     \* bound of the upstream's stream

ASSUME StreamsAssumption == Modes \subseteq {"data", "event"} /\ MaxLen \in Nat

\* The field with the terminal value, the field with another one, any other
\* field or comment, a byte order mark, line ends.
Chunks == {"done", "field", "other", "bom", "cr", "lf"}

VARIABLES
  call,       \* where the handler, then the response body, stands
  mode,
  events,     \* what the event log has of the call
  writer,     \* the thread that appends to it: idle, what it appends, its answer
  sent,       \* what the upstream sent
  eof,        \* the upstream ended its stream
  producer,   \* where the producer task stands
  chunk,      \* what it holds
  queue,      \* the channel
  terminal,   \* oneshot: how the producer ended
  drained,    \* oneshot: the body has seen the end of the channel
  marker,     \* the guard's parser
  writing,    \* what the connection is writing
  written     \* what the client got

wire == <<sent, eof, producer, chunk, queue, terminal>>
streamVars == <<call, mode, events, writer, wire, drained, marker, writing, written>>

-----------------------------------------------------------------------------
(* The guard (sse.rs), one element at a time.                              *)

Blank == [line |-> <<>>, value |-> "none", afterCr |-> FALSE, done |-> FALSE, first |-> TRUE]

\* What the fields of an event amount to: data is joined with newlines, of
\* the event names the last one counts.
Value(value, line) ==
  IF line = <<"done">> /\ (mode = "event" \/ value = "none") THEN "done" ELSE "other"

LineEnded(m) ==
  LET line == IF m.first /\ m.line # <<>> /\ m.line[1] = "bom" THEN Tail(m.line) ELSE m.line
      after == [m EXCEPT !.line = <<>>, !.first = FALSE]
  IN  IF line = <<>> THEN [after EXCEPT !.done = (m.value = "done"), !.value = "none"]
      ELSE IF line[1] \in {"done", "field"} THEN [after EXCEPT !.value = Value(m.value, line)]
      ELSE after

Fed(m, c) ==
  IF m.done THEN m
  ELSE IF c = "lf" /\ m.afterCr THEN [m EXCEPT !.afterCr = FALSE]
  ELSE LET n == [m EXCEPT !.afterCr = (c = "cr")]
       IN  IF c \in {"cr", "lf"} THEN LineEnded(n) ELSE [n EXCEPT !.line = Append(@, c)]

-----------------------------------------------------------------------------
StreamInit ==
  /\ call = "new" /\ mode \in Modes /\ events = <<>> /\ writer = "idle"
  /\ sent = <<>> /\ eof = FALSE
  /\ producer = "none" /\ chunk = <<>> /\ queue = <<>>
  /\ terminal = "pending" /\ drained = FALSE
  /\ marker = Blank /\ writing = <<>> /\ written = <<>>

BodyAlive == call \in {"streaming", "closing"}

\* The handler, or the body, goes on to where it waits or ends next.
Proceeds(to) ==
  /\ call' = to
  /\ UNCHANGED <<mode, events, wire, drained, marker, writing, written>>

\* The thread has appended the event, or could not; the one that waits for it
\* is told, if it is still there.
EventAppended ==
  /\ writer \in {"dispatched", "success", "failure"}
  /\ \/ writer' = "ok" /\ events' = Append(events, writer)
     \/ writer' = "failed" /\ UNCHANGED events
  /\ UNCHANGED <<call, mode, wire, drained, marker, writing, written>>

Heard == writer \in {"ok", "failed"} /\ writer' = "idle"

\* A permit and the breaker's tickets, and the dispatched event is on its
\* way; or a refusal.
Open ==
  /\ call = "new"
  /\ \/ Proceeds("observing") /\ writer' = "dispatched"
     \/ Proceeds("refused") /\ UNCHANGED writer

\* The request is sent once the dispatched event is logged; if it is not,
\* the call ends here.
Observe ==
  /\ call = "observing" /\ Heard
  /\ Proceeds(IF writer = "ok" THEN "sending" ELSE "refused")

\* No 2xx within the header timeout: the permit is back, the failure is to be
\* logged before the caller is answered, with it or with the log's failure.
NoStream == call = "sending" /\ Proceeds("refusing") /\ writer' = "failure"
NoStreamTold == call = "refusing" /\ Heard /\ Proceeds("refused")

\* A 2xx: the producer is spawned and the body handed to the connection.
Stream ==
  /\ call = "sending"
  /\ call' = "streaming" /\ producer' = "reading"
  /\ UNCHANGED <<mode, events, writer, sent, eof, chunk, queue, terminal, drained, marker,
                 writing, written>>

-----------------------------------------------------------------------------
(* The producer.                                                           *)

RestOfCall == <<call, mode, events, writer, drained, marker, writing, written>>

Stops(how) ==
  /\ producer' = "done" /\ terminal' = how /\ chunk' = <<>>
  /\ UNCHANGED <<sent, eof, queue, RestOfCall>>

Read(c) ==
  /\ producer = "reading" /\ Len(sent) < MaxLen
  /\ sent' = Append(sent, c) /\ chunk' = <<c>> /\ producer' = "reserving"
  /\ UNCHANGED <<eof, queue, terminal, RestOfCall>>

\* The upstream's end: the channel is closed, the body still has to drain it.
ReadEof ==
  /\ producer = "reading"
  /\ eof' = TRUE /\ producer' = "draining"
  /\ UNCHANGED <<sent, chunk, queue, terminal, RestOfCall>>

\* The upstream broke off, or was silent for the idle timeout.
MutReadFailed ==
  /\ producer = "reading"
  /\ producer' = "draining"
  /\ UNCHANGED <<sent, eof, chunk, queue, terminal, RestOfCall>>
ReadFailed == producer = "reading" /\ Stops("error")

Push ==
  /\ producer = "reserving" /\ queue = <<>> /\ BodyAlive
  /\ queue' = chunk /\ chunk' = <<>> /\ producer' = "reading"
  /\ UNCHANGED <<sent, eof, terminal, RestOfCall>>

\* The body takes nothing for the idle timeout.
PushTimeout == producer = "reserving" /\ queue # <<>> /\ Stops("error")

\* Downstream has seen the end too, or does not in time.
Drain ==
  /\ producer = "draining"
  /\ IF drained THEN Stops("ok") ELSE Stops("error")

Abandoned ==
  /\ producer \in {"reading", "reserving", "draining"} /\ ~BodyAlive
  /\ Stops("dropped")

-----------------------------------------------------------------------------
(* The body, polled while the connection has nothing to write.             *)

Receive ==
  /\ call = "streaming" /\ writing = <<>> /\ queue # <<>>
  /\ writing' = queue /\ queue' = <<>>
  /\ marker' = Fed(marker, Head(queue))
  /\ UNCHANGED <<call, mode, events, writer, sent, eof, producer, chunk, terminal, drained,
                 written>>

EndOfChannel ==
  /\ call = "streaming" /\ writing = <<>> /\ queue = <<>>
  /\ producer \in {"draining", "done"}
  /\ call' = "closing" /\ drained' = TRUE
  /\ UNCHANGED <<mode, events, writer, wire, marker, writing, written>>

\* The producer's end reaches the body, which lets its permit go, and the
\* guard, which wants a complete last event too.  What the guard says is
\* logged first.
EndsWell == terminal \in {"ok", "dropped"} /\ marker.done

MutFinish ==
  /\ call = "closing" /\ terminal # "pending"
  /\ IF EndsWell THEN Proceeds("ended") /\ writer' = "success"
                 ELSE Proceeds("failed") /\ writer' = "failure"
Finish ==
  /\ call = "closing" /\ terminal # "pending"
  /\ IF EndsWell THEN Proceeds("succeeding") /\ writer' = "success"
                 ELSE Proceeds("failing") /\ writer' = "failure"

\* Then the client gets its end: a clean one only if that was logged.
FinishTold ==
  /\ call \in {"succeeding", "failing"} /\ Heard
  /\ Proceeds(IF call = "succeeding" /\ writer = "ok" THEN "ended" ELSE "failed")

-----------------------------------------------------------------------------
(* The connection.                                                         *)

Flush ==
  /\ writing # <<>>
  /\ written' = written \o writing /\ writing' = <<>>
  /\ UNCHANGED <<call, mode, events, writer, wire, drained, marker>>

\* The client is gone, or takes nothing until the write deadline: the
\* connection and the handler or the body with it are dropped; the thread
\* goes on.
Disconnect ==
  /\ call \in {"observing", "sending", "refusing", "streaming", "closing", "succeeding",
               "failing"}
  /\ call' = "dropped" /\ writing' = <<>> /\ queue' = <<>>
  /\ UNCHANGED <<mode, events, writer, sent, eof, producer, chunk, terminal, drained, marker,
                 written>>

Producer ==
  \/ \E c \in Chunks : Read(c)
  \/ ReadEof \/ ReadFailed \/ Push \/ PushTimeout \/ Drain \/ Abandoned
Body ==
  \/ Observe \/ NoStream \/ NoStreamTold \/ Stream
  \/ Receive \/ EndOfChannel \/ Finish \/ FinishTold
Connection == Flush \/ Disconnect

StreamNext == Open \/ Producer \/ Body \/ Connection \/ EventAppended

StreamSpec == StreamInit /\ [][StreamNext]_streamVars

\* The producer's waits all have the idle timeout, the call the header
\* timeout, a blocked write its deadline, an append the database's busy
\* timeout; a ready task is polled.
Fairness ==
  /\ WF_streamVars(Producer)
  /\ WF_streamVars(Body)
  /\ WF_streamVars(EventAppended)
  /\ WF_streamVars(writing # <<>> /\ Connection)

FairStreamSpec == StreamSpec /\ Fairness

-----------------------------------------------------------------------------
(* Properties *)

\* The shape of the call, the channel and the parser.
StreamTypeOK ==
  /\ call \in {"new", "observing", "sending", "refusing", "streaming", "closing",
               "succeeding", "failing", "ended", "failed", "refused", "dropped"}
  /\ mode \in Modes
  /\ events \in Seq({"dispatched", "success", "failure"})
  /\ writer \in {"idle", "dispatched", "success", "failure", "ok", "failed"}
  /\ sent \in Seq(Chunks) /\ eof \in BOOLEAN
  /\ producer \in {"none", "reading", "reserving", "draining", "done"}
  /\ terminal \in {"pending", "ok", "error", "dropped"} /\ drained \in BOOLEAN
  /\ \A s \in {chunk, queue, writing} : s \in Seq(Chunks) /\ Len(s) <= 1
  /\ written \in Seq(Chunks)
  /\ marker \in [line : Seq(Chunks), value : {"none", "done", "other"}, afterCr : BOOLEAN,
                 done : BOOLEAN, first : BOOLEAN]

\* SSE by its definition.  A line end is a CR, an LF or a CRLF; an event is
\* a run of lines that an empty line ends.
IsEnd(s, i) ==
  s[i] = "cr" \/ (s[i] = "lf" /\ ~(i > 1 /\ s[i-1] = "cr"))
Starts(s, i) ==          \* where the line that ends at i starts
  LET before == {j + 1 : j \in {j \in 1 .. i - 1 : s[j] \in {"cr", "lf"}}} \cup {1}
  IN  CHOOSE j \in before : \A h \in before : h <= j
Line(s, i) ==
  LET l == SubSeq(s, Starts(s, i), i - 1)
  IN  IF Starts(s, i) = 1 /\ l # <<>> /\ l[1] = "bom" THEN Tail(l) ELSE l

Terminated(s) ==
  LET ends == {i \in DOMAIN s : IsEnd(s, i)}
      fields(from, to) == {i \in ends : /\ from < i /\ i < to
                                        /\ Line(s, i) # <<>>
                                        /\ Line(s, i)[1] \in {"done", "field"}}
  IN  \E last \in ends : \E from \in {0} \cup ends :
        /\ from < last /\ Line(s, last) = <<>>
        /\ from # 0 => Line(s, from) = <<>>
        /\ \A i \in ends : from < i /\ i < last => Line(s, i) # <<>>
        /\ fields(from, last) # {}
        /\ IF mode = "data" THEN \A i \in fields(from, last) : /\ Line(s, i) = <<"done">>
                                                             /\ fields(from, last) = {i}
           ELSE \E i \in fields(from, last) : /\ Line(s, i) = <<"done">>
                                              /\ \A j \in fields(from, last) : j <= i

\* The guard's parser, which keeps a line and a flag, finds the end of the
\* stream exactly where SSE has it, whatever the line ends and the chunks.
MarkerExact == call # "dropped" => (marker.done <=> Terminated(written \o writing))

\* A clean end tells the truth: the upstream ended its stream, every byte of
\* it was written in order, and the last event was complete.
NoSilentTruncation ==
  /\ call = "ended" => eof /\ written = sent /\ Terminated(sent)
  /\ IsPrefix(written, sent)
  /\ BodyAlive /\ producer # "done" => written \o writing \o queue \o chunk = sent

\* lib.rs:3106-3125, 3188-3253: the log has at most one completed event, after
\* the dispatched one, and only of a call that is over or waits for nothing
\* else; a client that sees a clean end can find the success in the log, and
\* no caller is refused or cut off with a success; and the completed event is
\* true, also when the client left before it was told: a success had the whole
\* stream with its last event, a failure did not end so.
EventsMatch ==
  /\ events \in {<<>>, <<"dispatched">>, <<"dispatched", "success">>, <<"dispatched", "failure">>}
  /\ call = "ended" => events = <<"dispatched", "success">>
  /\ events = <<"dispatched", "success">> =>
       /\ call \in {"succeeding", "ended", "dropped"}
       /\ eof /\ written = sent /\ Terminated(sent)
  /\ events = <<"dispatched", "failure">> =>
       /\ call \in {"refusing", "refused", "failing", "failed", "dropped"}
       /\ ~(terminal = "ok" /\ Terminated(sent))

\* The permit is held by the handler, the producer, the body and every
\* chunk on its way out; all of them let it go, even with an upstream that
\* is silent and a client that stops reading.
PermitHeld ==
  \/ call \in {"observing", "sending", "streaming", "closing"}
  \/ producer \in {"reading", "reserving", "draining"}
  \/ writing # <<>>
\* sse.rs:28-150, proxy.rs:1834: the end that the guard finds is the stream's,
\* and a client that sees a clean end has all of it.
CleanEndsTrue == StreamTypeOK /\ MarkerExact /\ NoSilentTruncation
=============================================================================
