------------------------------ MODULE SseStream ------------------------------
(***************************************************************************)
(* Reading a stream of server-sent events (internal/protocols/sse.go):     *)
(* limits, lines, and the events they add up to.                           *)
(*                                                                         *)
(* A line is its field, the value of the field, its size with its end, and *)
(* whether a byte order mark stands before it.  A stream is its lines and  *)
(* how it ends: after a line, inside the last one, or by an error.         *)
(***************************************************************************)
EXTENDS Integers, Sequences, FiniteSets, SequencesExt, FiniteSetsExt, Question

CONSTANTS
  HardEvents, HardBytes,                         \* what can be asked for
  DefaultEvents, DefaultBytes, DefaultEventBytes \* and what is taken for zero

-----------------------------------------------------------------------------
(* Limits *)

OrDefault(asked, default) == IF asked = 0 THEN default ELSE asked

\* normalizeSSELimits
NormalizeLimits(asked) ==
  [events |-> OrDefault(asked.events, DefaultEvents),
   response |-> OrDefault(asked.response, DefaultBytes),
   event |-> OrDefault(asked.event, DefaultEventBytes)]

LimitsRefused(limits) ==
  \/ limits.events \notin 1..HardEvents
  \/ limits.response \notin 1..HardBytes
  \/ limits.event \notin 1..limits.response

-----------------------------------------------------------------------------
(* Lines *)

Line(field, value, size) == [field |-> field, value |-> value, size |-> size, mark |-> FALSE]

NewReader ==
  [events |-> <<>>, total |-> 0, bytes |-> 0, data |-> <<>>, name |-> "", id |-> "",
   retry |-> <<>>, error |-> "", lines |-> 0]

\* Mutant: a blank line without data leaves the event as it is.
DispatchOnlyData(reader) ==
  IF reader.data = <<>> THEN reader
  ELSE [reader EXCEPT
          !.events = Append(@, [event |-> IF reader.name = "" THEN "message" ELSE reader.name,
                                id |-> reader.id, data |-> reader.data, retry |-> reader.retry]),
          !.data = <<>>, !.name = "", !.bytes = 0]

\* An event ends; without data there is none.  The ID and the time to retry last.
Dispatch(reader) ==
  IF reader.data = <<>> THEN [reader EXCEPT !.name = "", !.bytes = 0]
  ELSE [reader EXCEPT
          !.events = Append(@, [event |-> IF reader.name = "" THEN "message" ELSE reader.name,
                                id |-> reader.id, data |-> reader.data, retry |-> reader.retry]),
          !.data = <<>>, !.name = "", !.bytes = 0]

\* The mark is dropped before the first line; later it makes the field another one.
FieldOf(reader, line) == IF line.mark /\ reader.lines > 1 THEN "other" ELSE line.field

\* What a line does.  An ID with a zero byte and a time that is no number, or too
\* large a one, are ignored.
ReadField(reader, line) ==
  LET field == FieldOf(reader, line)
  IN  CASE field = "blank" -> Dispatch(reader)
        [] field = "event" -> [reader EXCEPT !.name = line.value]
        [] field = "data" -> [reader EXCEPT !.data = Append(@, line.value)]
        [] field = "id" /\ line.value # "nul" -> [reader EXCEPT !.id = line.value]
        [] field = "retry" /\ line.value \in {"0", "7"} -> [reader EXCEPT !.retry = <<line.value>>]
        [] OTHER -> reader

\* One line within what is left of the response and of the event.
ReadLine(reader, line, limits) ==
  LET counted == [reader EXCEPT !.total = @ + line.size, !.bytes = @ + line.size,
                                !.lines = @ + 1]
      responseLeft == limits.response - reader.total
      eventLeft == limits.event - reader.bytes
  IN  IF line.size > Min({responseLeft, eventLeft})
        THEN [counted EXCEPT !.error = IF responseLeft <= eventLeft THEN "response" ELSE "event"]
      ELSE ReadField(counted, line)

-----------------------------------------------------------------------------
(* The stream *)

\* The end of the input is read as a line without characters unless the last line
\* has no end; what was begun is then dispatched.  A broken stream dispatches it
\* only if it breaks between two lines.
EndOfStream(reader, stream) ==
  LET last == IF stream.inLine THEN reader ELSE Dispatch(reader)
  IN  IF stream.broken THEN [last EXCEPT !.error = "broken"] ELSE Dispatch(last)

\* parseSSE.  The context is asked before each line.
ParseSSE(stream, limits, canceledAt) ==
  LET Done(reader) == reader.error # "" \/ Len(reader.events) >= limits.events
      Step(reader, i) ==
        IF Done(reader) THEN reader
        ELSE IF canceledAt = i THEN [reader EXCEPT !.error = "canceled"]
        ELSE ReadLine(reader, stream.lines[i], limits)
      all == FoldLeft(Step, NewReader, [i \in DOMAIN stream.lines |-> i])
      asks == ~stream.inLine \/ stream.lines = <<>>
  IN  IF Done(all) THEN all
      ELSE IF asks /\ canceledAt = Len(stream.lines) + 1 THEN [all EXCEPT !.error = "canceled"]
      ELSE EndOfStream(all, stream)

\* ReadSSE: limits, the answer to the request, and the stream.
ReadSSE(request, answer) ==
  LET limits == NormalizeLimits(request.limits)
      Refused(error) == [NewReader EXCEPT !.error = error]
  IN  IF LimitsRefused(limits) THEN Refused("invalid")
      ELSE IF answer.status \notin 200..299 THEN Refused("status")
      ELSE IF ~answer.eventStream THEN Refused("content_type")
      ELSE ParseSSE(answer.stream, limits, request.canceledAt)

-----------------------------------------------------------------------------
(* Properties *)

\* What is read of a stream is said by its blank lines alone: each that ends a block
\* with data is an event with all data of the block, the last name in the block and
\* the last valid ID and time of the whole stream; reading stops at the first line
\* that is too much for the response or its block, with the events before it, and is
\* no error once there are as many events as asked for.  What the end leaves over is
\* an event too, unless the stream breaks inside a line (sse.go:240).
StreamExact ==
  Asks("stream") =>
    LET answer == question.stream.answer
        request == question.stream.request
        limits == NormalizeLimits(request.limits)
        result == ReadSSE(request, answer)
        stream == answer.stream
        lines == stream.lines
        length == Len(lines)
        At(i) == IF lines[i].mark /\ i > 1 THEN "other" ELSE lines[i].field
        Fields(field, from, to) ==
          SetToSortSeq({i \in from..to : At(i) = field}, LAMBDA i, j : i < j)
        ValuesOf(field, from, to) ==
          [k \in DOMAIN Fields(field, from, to) |-> lines[Fields(field, from, to)[k]].value]
        LastOf(values, none) == IF values = <<>> THEN none ELSE values[Len(values)]
        Bytes(from, to) == FoldLeft(LAMBDA n, i : n + lines[i].size, 0,
                                    [k \in 1..to - from + 1 |-> from + k - 1])
        BlockOf(i) == Max({0} \cup {b \in 1..i - 1 : At(b) = "blank"}) + 1
        TooMuch(i) == Bytes(1, i) > limits.response \/ Bytes(BlockOf(i), i) > limits.event
        HasData(i) == Fields("data", BlockOf(i), i) # <<>>
        EventAt(i) ==
          LET name == LastOf(ValuesOf("event", BlockOf(i), i), "")
              retries == SelectSeq(ValuesOf("retry", 1, i), LAMBDA v : v \in {"0", "7"})
          IN  [event |-> IF name = "" THEN "message" ELSE name,
               id |-> LastOf(SelectSeq(ValuesOf("id", 1, i), LAMBDA v : v # "nul"), ""),
               data |-> ValuesOf("data", BlockOf(i), i),
               retry |-> IF retries = <<>> THEN <<>> ELSE <<LastOf(retries, "")>>]
        ends == SetToSortSeq({i \in 1..length : At(i) = "blank" /\ HasData(i)}, LAMBDA i, j : i < j)
        stop == Min({length + 1} \cup {i \in 1..length : TooMuch(i) \/ i = request.canceledAt})
        before == SelectSeq(ends, LAMBDA i : i < stop)
        enough == Len(before) >= limits.events
        left == length > 0 /\ At(length) # "blank" /\ HasData(length) /\ (~stream.broken \/ ~stream.inLine)
        canceled == ~(stream.inLine /\ lines # <<>>) /\ request.canceledAt = length + 1
        accepted == ~LimitsRefused(limits) /\ answer.status = 200 /\ answer.eventStream
    IN  IF ~accepted THEN result.error \in {"invalid", "status", "content_type"} /\ result.events = <<>>
        ELSE /\ result.events =
                  [k \in 1..Min({Len(before), limits.events}) |-> EventAt(before[k])]
                    \o (IF stop <= length \/ enough \/ canceled \/ ~left THEN <<>>
                        ELSE <<EventAt(length)>>)
             /\ result.error =
                  CASE enough -> ""
                    [] ~enough /\ stop <= length /\ stop = request.canceledAt -> "canceled"
                    [] ~enough /\ stop <= length /\ stop # request.canceledAt ->
                         IF limits.response - Bytes(1, stop - 1)
                              <= limits.event - Bytes(BlockOf(stop), stop - 1)
                           THEN "response" ELSE "event"
                    [] ~enough /\ stop = length + 1 ->
                         IF canceled THEN "canceled" ELSE IF stream.broken THEN "broken" ELSE ""
=============================================================================
