------------------------------ MODULE Framing -------------------------------
(***************************************************************************)
(* What arrives in reads of any size: the body of an HTTP message          *)
(* (wire-http1 body.rs BodyDecoder) and the events of a stream (wire-sse   *)
(* parse.rs SseParser), with what encode.rs writes for the same parser at  *)
(* the other end.  Each keeps what it has not finished between two reads;  *)
(* the references below see the whole input at once.                       *)
(*                                                                         *)
(* Bytes are tokens: "CR" and "LF", the two halves of a byte-order mark,   *)
(* ":", " ", ";", digits, the words "data" and "event", and "x" for any    *)
(* other.                                                                  *)
(***************************************************************************)
EXTENDS Naturals, Sequences, FiniteSets, SequencesExt, FiniteSetsExt

CONSTANTS
  WireScenes,     \* what is sent: see WireSceneType
  MaxRead,        \* tokens one read brings at most
  max_buffer_bytes, max_event_bytes, max_field_name_bytes,
  max_chunk_line_bytes, max_trailer_bytes, max_body_bytes

VARIABLES
  ws,      \* the scene
  fed,     \* every token read so far
  unread,    \* of the last read, what is not looked at yet
  sse,     \* SseParser, and the events handed on
  body     \* BodyDecoder, and the payload handed on

wireVars == <<ws, fed, unread, sse, body>>

\* A stream or a body: the one given, or any of some tokens.  said: the events
\* encode.rs was asked to write.
WireSceneType(s) ==
  /\ s.kind \in {"sse", "none", "fixed", "chunked", "close"}
  /\ s.longest \in Nat /\ s.length \in Nat
ASSUME WireAssumption == \A s \in WireScenes : WireSceneType(s)

Ending == {"CR", "LF"}
NoEvent == [event |-> <<>>, data |-> <<>>]

(***************************************************************************)
(* encode.rs                                                               *)
(***************************************************************************)
InOrder(S) == [i \in 1..Cardinality(S) |-> CHOOSE n \in S : Cardinality({m \in S : m <= n}) = i]

\* The text between line ends, each of them CR, LF or both.
LineEnds(text) == {i \in DOMAIN text : text[i] = "CR" \/ (text[i] = "LF" /\ ~(i > 1 /\ text[i - 1] = "CR"))}
Resumes(text, e) == IF e < Len(text) /\ text[e] = "CR" /\ text[e + 1] = "LF" THEN e + 2 ELSE e + 1
Lines(text) ==
  LET ends == InOrder(LineEnds(text))
      start(i) == IF i = 1 THEN 1 ELSE Resumes(text, ends[i - 1])
  IN  [i \in 1..(Len(ends) + 1) |->
         SubSeq(text, start(i), IF i > Len(ends) THEN Len(text) ELSE ends[i] - 1)]

write_data_lines(data) ==
  FlattenSeq([i \in DOMAIN Lines(data) |-> <<"data", ":", " ">> \o Lines(data)[i] \o <<"LF">>])
encode_event(event, data) ==
  <<"event", ":", " ">> \o [i \in DOMAIN event |-> IF event[i] \in Ending THEN " " ELSE event[i]]
    \o <<"LF">> \o write_data_lines(data) \o <<"LF">>

\* body.rs, for chunks of one or two bytes.
encode_chunk(data) == <<IF Len(data) = 1 THEN "1" ELSE "2", "CR", "LF">> \o data \o <<"CR", "LF">>
encode_last_chunk == <<"0", "CR", "LF", "CR", "LF">>

-----------------------------------------------------------------------------

WireInit ==
  /\ ws \in WireScenes
  /\ fed = <<>> /\ unread = <<>>
  /\ sse = [line_buf |-> <<>>, pending |-> <<>>, current |-> NoEvent, saw_data |-> FALSE, pending_cr |-> FALSE,
            bom_pending |-> TRUE, failed |-> "none", out |-> <<>>]
  /\ body = [state |-> CASE ws.kind = "fixed" -> "Fixed" [] ws.kind = "chunked" -> "ChunkSize"
                         [] ws.kind = "close" -> "UntilClose" [] OTHER -> "Done",
             remaining |-> IF ws.kind = "fixed" THEN ws.length ELSE 0,
             line_buf |-> <<>>, trailer_bytes |-> 0, error |-> "none", out |-> <<>>, used |-> 0]

Streaming == ws.kind = "sse"
Halted == sse.failed # "none" \/ body.error # "none" \/ (~Streaming /\ body.state = "Done")

\* One read, once the last has been looked at.
Read ==
  /\ unread = <<>> /\ ~Halted /\ (Streaming => sse.pending = <<>>)
  /\ \E n \in 1..MaxRead :
       /\ Len(fed) + n <= IF ws.sent # <<>> THEN Len(ws.sent) ELSE ws.longest
       /\ \E bytes \in (IF ws.sent # <<>> THEN {SubSeq(ws.sent, Len(fed) + 1, Len(fed) + n)} ELSE [1..n -> ws.tokens]) :
            unread' = bytes /\ fed' = fed \o bytes
  /\ UNCHANGED <<ws, sse, body>>

(***************************************************************************)
(* SseParser                                                               *)
(***************************************************************************)
UTF8_BOM == <<"B1", "B2">>
IsUtf8(text) == \A i \in DOMAIN text : /\ text[i] = "B1" => i < Len(text) /\ text[i + 1] = "B2"
                                       /\ text[i] = "B2" => i > 1 /\ text[i - 1] = "B1"
Colon(line) == SelectInSeq(line, LAMBDA t : t = ":")
Field(line) ==
  IF Colon(line) = 0 THEN [name |-> line, value |-> <<>>]
  ELSE LET rest == SubSeq(line, Colon(line) + 1, Len(line))
       IN  [name |-> SubSeq(line, 1, Colon(line) - 1),
            value |-> IF rest # <<>> /\ Head(rest) = " " THEN Tail(rest) ELSE rest]

\* finish_line, on the parser as the line end found it.
finish_line(p) ==
  LET line == p.line_buf
      q == [p EXCEPT !.bom_pending = FALSE, !.line_buf = <<>>]
  IN  CASE ~IsUtf8(line) -> [q EXCEPT !.failed = "InvalidUtf8"]
        [] line = <<>> -> [q EXCEPT !.pending = Append(@, [kind |-> "Blank"])]
        [] line # <<>> /\ Head(line) = ":" -> [q EXCEPT !.pending = Append(@, [kind |-> "Comment"])]
        [] OTHER -> IF Len(Field(line).name) > max_field_name_bytes THEN [q EXCEPT !.failed = "FieldNameTooLong"]
                    ELSE [q EXCEPT !.pending = Append(@, [kind |-> "Field"] @@ Field(line))]

\* A byte of text.
PushText(p, byte) ==
  LET line == Append(p.line_buf, byte)
  IN  IF Len(p.line_buf) >= max_buffer_bytes THEN [p EXCEPT !.failed = "LineTooLong"]
      ELSE [p EXCEPT !.line_buf = IF p.bom_pending /\ line = UTF8_BOM THEN <<>> ELSE line,
                     !.bom_pending = @ /\ line # UTF8_BOM /\ IsPrefix(line, UTF8_BOM)]

\* Mutant: a CR ends a line and is forgotten, so that its LF ends another.
push_Forgets(p, byte) == IF byte \in Ending THEN finish_line(p) ELSE PushText(p, byte)

\* push, one byte.
push(p, byte) ==
  LET q == [p EXCEPT !.pending_cr = FALSE]
  IN  IF p.pending_cr /\ byte = "LF" THEN q
      ELSE IF byte \in Ending THEN [finish_line(q) EXCEPT !.pending_cr = byte = "CR"]
      ELSE PushText(q, byte)

Push ==
  /\ Streaming /\ unread # <<>> /\ sse.failed = "none"
  /\ sse' = push(sse, Head(unread)) /\ unread' = Tail(unread)
  /\ UNCHANGED <<ws, fed, body>>

\* next_event, one line; drain, when the read has been pushed.
next_event(p) ==
  LET line == Head(p.pending)
      q == [p EXCEPT !.pending = Tail(@)]
      joined == p.current.data \o (IF p.saw_data THEN <<"LF">> ELSE <<>>) \o line.value
  IN  CASE line.kind = "Comment" -> q
        [] line.kind = "Blank" ->
             [q EXCEPT !.current = NoEvent, !.saw_data = FALSE,
                       !.out = IF p.saw_data THEN Append(@, p.current) ELSE @]
        [] line.kind = "Field" /\ line.name = <<"data">> ->
             IF Len(joined) > max_event_bytes THEN [q EXCEPT !.failed = "EventTooLarge"]
             ELSE [q EXCEPT !.current.data = joined, !.saw_data = TRUE]
        [] line.kind = "Field" /\ line.name = <<"event">> -> [q EXCEPT !.current.event = line.value]
        [] OTHER -> q

DrainEvents ==
  /\ Streaming /\ unread = <<>> /\ sse.failed = "none" /\ sse.pending # <<>>
  /\ sse' = next_event(sse)
  /\ UNCHANGED <<ws, fed, unread, body>>

(***************************************************************************)
(* BodyDecoder                                                             *)
(***************************************************************************)
Digit == [d \in {"0", "1", "2"} |-> CASE d = "0" -> 0 [] d = "1" -> 1 [] OTHER -> 2]
MAX_SIZE_DIGITS == 2

\* parse_chunk_size: digits, and an extension nobody reads.  Sixteen digits in
\* the code, as many as 64 bits hold.
SizeDigits(line) ==
  LET semi == SelectInSeq(line, LAMBDA t : t = ";") IN IF semi = 0 THEN line ELSE SubSeq(line, 1, semi - 1)
IsChunkSize(line) ==
  /\ SizeDigits(line) # <<>> /\ Len(SizeDigits(line)) <= MAX_SIZE_DIGITS
  /\ \A i \in DOMAIN SizeDigits(line) : SizeDigits(line)[i] \in DOMAIN Digit
  /\ "CR" \notin Range(line)
parse_chunk_size(line) == FoldLeft(LAMBDA n, d : 16 * n + Digit[d], 0, SizeDigits(line))

Fails(d, why) == [d EXCEPT !.error = why]

\* take_line, one byte, and what the state makes of a line when it is whole.
TakesLine(d, byte, max_len, Whole(_, _)) ==
  LET e == [d EXCEPT !.used = @ + 1]
  IN  IF byte = "LF"
      THEN IF d.line_buf # <<>> /\ Last(d.line_buf) = "CR"
           THEN Whole([e EXCEPT !.line_buf = <<>>], Front(d.line_buf))
           ELSE Fails(e, "Line")
      ELSE IF Len(d.line_buf) >= Max({max_len, 2}) + 2 THEN Fails(e, "Line")
      ELSE [e EXCEPT !.line_buf = Append(@, byte)]

\* emit.
emit(d, bytes) ==
  IF Len(d.out) + Len(bytes) > max_body_bytes THEN Fails(d, "BodyTooLarge")
  ELSE [d EXCEPT !.out = @ \o bytes, !.used = @ + Len(bytes)]

\* One turn of decode's loop on what is unread: the decoder after it.
Taken(d) == SubSeq(unread, 1, Min({d.remaining, Len(unread)}))
Emits(d, then) ==
  LET e == emit(d, Taken(d))
      n == d.remaining - Len(Taken(d))
  IN  IF e.error # "none" THEN e ELSE [e EXCEPT !.remaining = n, !.state = IF n = 0 THEN then ELSE @]

SizeLine(d, line) ==
  IF ~IsChunkSize(line) THEN Fails(d, "InvalidChunkSize")
  ELSE [d EXCEPT !.remaining = parse_chunk_size(line),
                 !.state = IF parse_chunk_size(line) = 0 THEN "Trailer" ELSE "ChunkData"]
CrlfLine(d, line) == IF line # <<>> THEN Fails(d, "InvalidChunkTerminator") ELSE [d EXCEPT !.state = "ChunkSize"]
IsTrailer(line) == LET name == SubSeq(line, 1, Colon(line) - 1)
                   IN  Colon(line) > 1 /\ Range(name) \cap {"CR", " ", ";"} = {} /\ "CR" \notin Range(line)
TrailerLine(d, line) ==
  LET e == [d EXCEPT !.trailer_bytes = @ + Len(line) + 2]
  IN  IF e.trailer_bytes > max_trailer_bytes THEN Fails(e, "InvalidTrailer")
      ELSE IF line = <<>> THEN [e EXCEPT !.state = "Done"]
      ELSE IF ~IsTrailer(line) THEN Fails(e, "InvalidTrailer") ELSE e

decode(d) ==
  CASE d.state = "Fixed" -> IF d.remaining = 0 THEN [d EXCEPT !.state = "Done"] ELSE Emits(d, "Done")
    [] d.state = "UntilClose" -> emit(d, unread)
    [] d.state = "ChunkData" -> Emits(d, "ChunkDataCrlf")
    [] d.state = "ChunkSize" -> TakesLine(d, Head(unread), max_chunk_line_bytes, SizeLine)
    [] d.state = "ChunkDataCrlf" -> TakesLine(d, Head(unread), 2, CrlfLine)
    [] d.state = "Trailer" -> TakesLine(d, Head(unread), max_trailer_bytes, TrailerLine)

Decode ==
  /\ ~Streaming /\ ~Halted
  /\ unread # <<>> \/ (body.state = "Fixed" /\ body.remaining = 0)
  /\ body' = decode(body)
  /\ unread' = SubSeq(unread, body'.used - body.used + 1, Len(unread))
  /\ UNCHANGED <<ws, fed, sse>>

\* finish: the peer closed.
Finish ==
  /\ ~Streaming /\ ~Halted /\ unread = <<>>
  /\ body' = IF body.state = "UntilClose" THEN [body EXCEPT !.state = "Done"] ELSE Fails(body, "UnexpectedEof")
  /\ UNCHANGED <<ws, fed, unread, sse>>

WireNext == Read \/ Push \/ DrainEvents \/ Decode \/ Finish
WireSpec == WireInit /\ [][WireNext]_wireVars

-----------------------------------------------------------------------------
(* What the whole input says. *)

\* The lines of a stream that are whole, without its byte-order mark.
Whole(text) ==
  LET bare == IF IsPrefix(UTF8_BOM, text) THEN SubSeq(text, 3, Len(text)) ELSE text
  IN  [ended |-> Front(Lines(bare)), tail |-> Last(Lines(bare))]

IsData(line) == line # <<>> /\ Field(line).name = <<"data">>
Named(line) == line # <<>> /\ Field(line).name = <<"event">>

\* An event is what stands between two blank lines, if any of it is data.
EventAt(lines, from, to) ==
  LET data == SelectSeq(SubSeq(lines, from, to), IsData)
      names == SelectSeq(SubSeq(lines, from, to), Named)
      text == FlattenSeq([i \in DOMAIN data |-> <<"LF">> \o Field(data[i]).value])
  IN  IF data = <<>> THEN <<>>
      ELSE <<[event |-> IF names = <<>> THEN <<>> ELSE Field(Last(names)).value, data |-> Tail(text)]>>
EventsOf(text) ==
  LET lines == Whole(text).ended
      blanks == <<0>> \o InOrder({i \in DOMAIN lines : lines[i] = <<>>})
  IN  FlattenSeq([i \in 1..(Len(blanks) - 1) |-> EventAt(lines, blanks[i] + 1, blanks[i + 1] - 1)])

\* A line, or an event, that no parser may pass over.
Offends(text) ==
  LET all == Whole(text)
      bad(line) == ~IsUtf8(line) \/ (line # <<>> /\ Head(line) # ":" /\ Len(Field(line).name) > max_field_name_bytes)
  IN  \/ \E i \in DOMAIN all.ended : bad(all.ended[i]) \/ Len(all.ended[i]) > max_buffer_bytes
      \/ Len(all.tail) > max_buffer_bytes

\* The chunks of a body, from position i, with the payload before it.
RECURSIVE Chunks(_, _, _)
Chunks(text, i, payload) ==
  LET More(p) == [verdict |-> "more", out |-> p, used |-> Len(text)]
      Bad(p) == [verdict |-> "bad", out |-> p, used |-> Len(text)]
      lfs == {j \in DOMAIN text : j >= i /\ text[j] = "LF"}
      lf == Min(lfs)
      line == SubSeq(text, i, lf - 2)
      size == parse_chunk_size(line)
      got == SubSeq(text, lf + 1, Min({lf + size, Len(text)}))
      after == lf + size + 1
      trailer == SubSeq(text, lf + 1, Len(text))
      over == {j \in 2..Len(trailer) : trailer[j - 1] = "CR" /\ trailer[j] = "LF"
                                       /\ (j = 2 \/ trailer[j - 2] = "LF")}
  IN  IF lfs = {} THEN More(payload)
      ELSE IF lf = i \/ text[lf - 1] # "CR" \/ ~IsChunkSize(line) THEN Bad(payload)
      ELSE IF size = 0
           THEN IF over = {} THEN More(payload)
                ELSE [verdict |-> "done", out |-> payload, used |-> lf + Min(over)]
      ELSE IF after > Len(text) THEN More(payload \o got)
      ELSE IF text[after] # "CR" \/ (after < Len(text) /\ text[after + 1] # "LF") THEN Bad(payload \o got)
      ELSE Chunks(text, after + 2, payload \o got)

\* Where reads end makes no difference.  The events handed on are those of the
\* whole stream, and a stream the parser gives up on holds an offence; of what
\* encode.rs writes nothing is lost or split, whatever the text.  The payload
\* handed on is that of the whole body, the decoder is done exactly when the
\* body is, and has then taken not a byte of what follows.
FramingExact ==
  /\ Streaming /\ unread = <<>> /\ sse.pending = <<>> /\ sse.failed = "none" =>
       sse.out = EventsOf(fed) /\ ~Offends(fed)
  /\ sse.failed # "none" => /\ sse.failed = "EventTooLarge" \/ Offends(fed)
                            /\ IsPrefix(sse.out, EventsOf(fed))
  /\ ws.said # <<>> /\ fed = ws.sent /\ unread = <<>> /\ sse.pending = <<>> =>
       /\ Len(sse.out) = Len(ws.said)
       /\ \A i \in DOMAIN ws.said : Lines(sse.out[i].data) = Lines(ws.said[i].data)
  /\ ws.kind = "chunked" =>
       LET said == Chunks(SubSeq(fed, 1, body.used), 1, <<>>)
       IN  /\ body.error # "BodyTooLarge" => body.out = said.out
           /\ body.state = "Done" <=> said.verdict = "done" /\ body.error = "none"
           /\ body.state = "Done" => said.used = body.used
           /\ body.error = "none" /\ unread = <<>> => body.used = Len(fed)
  /\ ws.kind = "fixed" => /\ body.out = SubSeq(fed, 1, body.used)
                          /\ body.state = "Done" => body.used = ws.length
  /\ Len(body.out) <= max_body_bytes /\ Len(body.line_buf) <= max_trailer_bytes + 2

=============================================================================
