------------------------------- MODULE Stream -------------------------------
(***************************************************************************)
(* One streamed answer, from the provider's event stream to the client's   *)
(* (adapters/{openai,anthropic}.rs, router/dispatch.rs stream_events,      *)
(* core/event.rs, router/protocol/{openai,anthropic}.rs and StreamSink in  *)
(* router/routes.rs).  A provider speaks one of three dialects; what it    *)
(* says is decoded into canonical events; they are delivered one by one to *)
(* the sink, which renders them in the dialect the client speaks.  An      *)
(* attempt that fails before any output may be followed by another through *)
(* the same sink.                                                          *)
(*                                                                         *)
(* Every fragment carries the attempt and the position it was read at, so  *)
(* that what arrives can be compared with what was said.  Beside the       *)
(* renderer the module keeps the accumulator a client that did not ask to  *)
(* stream is answered from: the same events, assembled by the router.      *)
(* Identifiers, model names and the layout of a frame are left out; the    *)
(* frames that are always written together are one frame here.             *)
(***************************************************************************)
EXTENDS Naturals, Sequences, FiniteSets, SequencesExt, FiniteSetsExt

CONSTANTS
  StreamScenes,  \* see StreamSceneType
  MaxWire        \* bound: events read, in all attempts together

Tools == {0, 1}  \* positions of tool calls

\* A provider's dialect and the client's; whether the client's key has a
\* finite budget; how many attempts the pipeline may make, which is one
\* without an idempotency key; what the provider may say, and how it may end.
StreamSceneType ==
  [upstream : {"chat", "responses", "anthropic"}, client : {"chat", "responses", "anthropic"},
   budgeted : BOOLEAN, max_tries : Nat \ {0}, wire : SUBSET [kind : STRING, tool : Tools],
   ends : SUBSET {"close", "broken", "malformed", "gone", "unfunded"}]

ASSUME StreamAssumption == StreamScenes \subseteq StreamSceneType

VARIABLES
  sc,         \* the scene
  at,         \* "admit", "reading", "ok", "failed", "over"
  tries, read,  \* attempts so far, events read so far
  inbox,      \* decoded, not yet delivered
  saw_output, ended,  \* of this attempt
  collected,  \* the usage reports of this attempt
  renderer,   \* the client dialect's renderer, see Renderer
  sink,       \* "withheld" (the head is not out), "open", "closed", "402"
  frames,     \* what the client was sent
  acc,        \* ResponseAccumulator, see Accumulator
  canon,      \* the canonical events delivered
  metered     \* the usage the request is charged for: <<>> or <<usage>>

streamVars == <<sc, at, tries, read, inbox, saw_output, ended, collected, renderer, sink,
                frames, acc, canon, metered>>

(***************************************************************************)
(* Canonical events and usage (core/event.rs)                              *)
(***************************************************************************)
Start == [type |-> "start"]
TextDelta(f) == [type |-> "text", frag |-> f]
ReasoningDelta(f) == [type |-> "reasoning", frag |-> f]
\* named: the fragment brings the call's identifier and name; args: <<>> or
\* one fragment of its arguments.
ToolCallDelta(i, named, args) == [type |-> "tool", tool |-> i, named |-> named, args |-> args]
Usage(u) == [type |-> "usage", usage |-> u]
Finish(reason) == [type |-> "finish", reason |-> reason]

\* Mutant: a tool call's fragment is not output.
is_semantic_output_Text(e) == e.type \in {"text", "reasoning"}

is_semantic_output(e) == e.type \in {"text", "reasoning", "tool"}

Reported(i, o) == [input |-> i, output |-> o, source |-> "reported"]
output_only(o) == [input |-> 0, output |-> o, source |-> "output"]

\* CanonicalUsage::merge, of two provider reports.
merge(u, v) ==
  LET source == IF "reported" \in {u.source, v.source} THEN "reported" ELSE "output"
      input(w) == IF w.source = "reported" THEN w.input ELSE 0
  IN  [input |-> Max({input(u), input(v)}), output |-> Max({u.output, v.output}),
       source |-> source]

\* Two lists of at most one report.
merge_usage(have, u) == IF have = <<>> THEN <<u>> ELSE <<merge(have[1], u)>>

\* UsageView: a count that was not reported is null, here <<>>.
UsageView(have) ==
  [input |-> IF have = <<>> \/ have[1].source = "output" THEN <<>> ELSE <<have[1].input>>,
   output |-> IF have = <<>> THEN <<>> ELSE <<have[1].output>>]

(***************************************************************************)
(* The decoders: what one event of a provider says.  A finish is one of    *)
(* three reasons; the third is a word the router does not know.            *)
(***************************************************************************)
Reasons == {"stop", "length", "unrecognized"}
\* The token counts grow along a stream; the input is the attempt's own.
Out == read + 1
In == 10 * tries
Frag == <<tries, read + 1>>

\* The Chat Completions dialect: no start, usage after the finish or with it.
decode_stream_event(w) ==
  CASE w.kind = "text" -> <<TextDelta(Frag)>>
    [] w.kind = "reasoning" -> <<ReasoningDelta(Frag)>>
    [] w.kind = "head" -> <<ToolCallDelta(w.tool, TRUE, <<>>)>>
    [] w.kind = "args" -> <<ToolCallDelta(w.tool, FALSE, <<Frag>>)>>
    [] w.kind \in Reasons -> <<Finish(w.kind)>>
    [] w.kind = "stop_usage" -> <<Finish("stop"), Usage(Reported(In, Out))>>
    [] w.kind = "usage" -> <<Usage(Reported(In, Out))>>
    [] OTHER -> <<>>

\* The Responses dialect: a start, and a last event with usage and reason.
decode_responses_stream_event(w) ==
  CASE w.kind = "start" -> <<Start>>
    [] w.kind = "text" -> <<TextDelta(Frag)>>
    [] w.kind = "reasoning" -> <<ReasoningDelta(Frag)>>
    [] w.kind = "head" -> <<ToolCallDelta(w.tool, TRUE, <<>>)>>
    [] w.kind = "args" -> <<ToolCallDelta(w.tool, FALSE, <<Frag>>)>>
    [] w.kind \in Reasons -> <<Finish(w.kind)>>
    [] w.kind = "stop_usage" -> <<Usage(Reported(In, Out)), Finish("stop")>>
    [] OTHER -> <<>>

\* The Messages dialect: input tokens at the start, output tokens at the end.
decode_messages_stream_event(w) ==
  CASE w.kind = "start" -> <<Start, Usage(Reported(In, Out))>>
    [] w.kind = "text" -> <<TextDelta(Frag)>>
    [] w.kind = "reasoning" -> <<ReasoningDelta(Frag)>>
    [] w.kind = "head" -> <<ToolCallDelta(w.tool, TRUE, <<>>)>>
    [] w.kind = "args" -> <<ToolCallDelta(w.tool, FALSE, <<Frag>>)>>
    [] w.kind \in Reasons -> <<Finish(w.kind)>>
    [] w.kind = "usage" -> <<Usage(output_only(Out))>>
    [] w.kind = "stop_usage" -> <<Usage(output_only(Out)), Finish("stop")>>
    [] OTHER -> <<>>

Decoded(w) ==
  CASE sc.upstream = "chat" -> decode_stream_event(w)
    [] sc.upstream = "responses" -> decode_responses_stream_event(w)
    [] sc.upstream = "anthropic" -> decode_messages_stream_event(w)

\* Adapter::usage_from_events: the last report, or all of them merged.
usage_from_events ==
  CASE collected = <<>> -> <<>>
    [] sc.upstream = "anthropic" -> <<FoldLeft(merge, collected[1], collected)>>
    [] OTHER -> <<Last(collected)>>

(***************************************************************************)
(* ResponseAccumulator                                                     *)
(***************************************************************************)
\* calls: in the order they were first heard of.
Accumulator == [text |-> <<>>, reasoning |-> <<>>, calls |-> <<>>, usage |-> <<>>, finish |-> "none"]

\* The position of the call, or of the one that would be added.
Slot(calls, i) == Cardinality({k \in DOMAIN calls : \A j \in 1..k : calls[j].tool # i}) + 1

push(a, e) ==
  CASE e.type = "text" -> [a EXCEPT !.text = Append(@, e.frag)]
    [] e.type = "reasoning" -> [a EXCEPT !.reasoning = Append(@, e.frag)]
    [] e.type = "tool" ->
         LET k == Slot(a.calls, e.tool)
             calls == IF k <= Len(a.calls) THEN a.calls
                      ELSE Append(a.calls, [tool |-> e.tool, named |-> FALSE, args |-> <<>>])
         IN  [a EXCEPT !.calls = [calls EXCEPT ![k].named = @ \/ e.named,
                                               ![k].args = @ \o e.args]]
    [] e.type = "usage" -> [a EXCEPT !.usage = merge_usage(@, e.usage)]
    [] e.type = "finish" -> [a EXCEPT !.finish = e.reason]
    [] OTHER -> a

(***************************************************************************)
(* The renderers.  x is a renderer and the frames it has put out so far.   *)
(***************************************************************************)
\* started: message_start or response.created is out; open: <<>> or the open
\* block or item; next: the index the next one gets; seen: tool calls that
\* had a block; items: what the closed items held; finish: the reason, once
\* heard, after which no content is rendered.
Renderer == [started |-> FALSE, open |-> <<>>, next |-> 0, seen |-> {}, items |-> <<>>,
             usage |-> <<>>, finish |-> "none", stopped |-> FALSE]

Emit(x, f) == [x EXCEPT !.out = Append(@, f)]

\* A block is a text, a thinking, or the call at one position.
Kind(e) == [of |-> e.type, tool |-> IF e.type = "tool" THEN e.tool ELSE 0]
Named(e) == e.type = "tool" /\ e.named
Body(e) == IF e.type = "tool" THEN e.args ELSE <<e.frag>>
OpenIs(st, kind) == st.open # <<>> /\ st.open[1].kind = kind

\* ensure_started, ensure_created
ensure_started(x) ==
  IF x.st.started THEN x ELSE Emit([x EXCEPT !.st.started = TRUE], [type |-> "start"])

\* close_block; close_open also keeps the item for the last frame.  (The
\* Messages renderer keeps neither bodies nor items, and its frames show none.)
close_open(x) ==
  IF x.st.open = <<>> THEN x
  ELSE Emit([x EXCEPT !.st.open = <<>>, !.st.items = Append(@, x.st.open[1])],
            [type |-> "close", index |-> x.st.open[1].index])

\* Mutant: an open block of another kind is left open.
enter_block_NoClose(x, e) ==
  IF OpenIs(x.st, Kind(e)) THEN x
  ELSE LET y == x
           b == [index |-> y.st.next, kind |-> Kind(e), named |-> Named(e), body |-> <<>>]
       IN  Emit([y EXCEPT !.st.open = <<b>>, !.st.next = @ + 1],
                [type |-> "open", index |-> b.index, kind |-> b.kind.of, named |-> b.named])

\* enter_block: the event's block is the open one, whichever
\* was before.
enter_block(x, e) ==
  IF OpenIs(x.st, Kind(e)) THEN x
  ELSE LET y == close_open(x)
           b == [index |-> y.st.next, kind |-> Kind(e), named |-> Named(e), body |-> <<>>]
       IN  Emit([y EXCEPT !.st.open = <<b>>, !.st.next = @ + 1],
                [type |-> "open", index |-> b.index, kind |-> b.kind.of, named |-> b.named])

\* The Responses renderer's: an item is a block that keeps what was written.
ensure_item(x, e) == enter_block(x, e)

\* The fragment itself; a call's empty one is not written.
Write(x, e) ==
  IF Body(e) = <<>> THEN x
  ELSE Emit([x EXCEPT !.st.open[1].body = @ \o Body(e)],
            [type |-> "delta", index |-> x.st.open[1].index, body |-> Body(e)])

fail(x) == Emit([x EXCEPT !.st.stopped = TRUE], [type |-> "error"])

\* The reason in the client's own words.
anthropic_str(reason) ==
  CASE reason = "length" -> "max_tokens"
    [] reason = "unrecognized" -> "stop_sequence"
    [] OTHER -> "end_turn"
status_for(reason) ==
  CASE reason = "length" -> "max_output_tokens"
    [] reason = "unrecognized" -> "incomplete"
    [] OTHER -> "completed"
openai_str(reason) == IF reason = "length" THEN "length" ELSE "stop"

Spelled(client, reason) ==
  CASE client = "anthropic" -> anthropic_str(reason)
    [] client = "responses" -> status_for(reason)
    [] client = "chat" -> openai_str(reason)

\* message_delta and message_stop; the terminal frame repeats the output.
message_delta(st) ==
  [type |-> "end", reason |-> anthropic_str(st.finish), usage |-> UsageView(st.usage)]
response_object(st) ==
  [type |-> "end", reason |-> status_for(st.finish), usage |-> UsageView(st.usage),
   items |-> [i \in DOMAIN st.items |-> st.items[i].body]]
close_message(x) == Emit([x EXCEPT !.st.stopped = TRUE], message_delta(x.st))

\* anthropic::StreamRenderer::render.  The closing frame waits for the usage
\* that follows a finish; a call's block that was closed cannot be reopened.
render_messages(st, e) ==
  LET x == [st |-> st, out |-> <<>>]
      s == ensure_started(x)
  IN  CASE st.stopped -> x
        [] ~st.stopped /\ st.finish # "none" ->
             IF e.type = "usage"
             THEN close_message([x EXCEPT !.st.usage = merge_usage(@, e.usage)])
             ELSE x
        [] OTHER ->
             CASE e.type = "start" -> s
               [] e.type \in {"text", "reasoning"} -> Write(enter_block(s, e), e)
               [] e.type = "tool" ->
                    IF OpenIs(st, Kind(e)) THEN Write(s, e)
                    ELSE IF e.tool \in st.seen THEN fail(s)
                    ELSE Write(enter_block([s EXCEPT !.st.seen = @ \cup {e.tool}], e), e)
               [] e.type = "usage" -> [s EXCEPT !.st.usage = merge_usage(@, e.usage)]
               [] e.type = "finish" -> [close_open(s) EXCEPT !.st.finish = e.reason]

\* openai::ResponsesStreamState::render.  The last frame is finish's.
render_responses(st, e) ==
  LET x == [st |-> st, out |-> <<>>]
      s == ensure_started(x)
  IN  CASE st.stopped -> x
        [] ~st.stopped /\ e.type \in {"text", "reasoning", "tool"} ->
             IF st.finish # "none" THEN x ELSE Write(ensure_item(s, e), e)
        [] OTHER ->
             CASE e.type = "start" -> s
               [] e.type = "usage" -> [x EXCEPT !.st.usage = <<e.usage>>]
               [] e.type = "finish" -> [close_open(s) EXCEPT !.st.finish = e.reason]

\* openai::render_chat_chunk: one chunk an event.
render_chat_chunk(e) ==
  CASE e.type = "start" -> [type |-> "start"]
    [] e.type \in {"text", "reasoning"} -> [type |-> e.type, body |-> <<e.frag>>]
    [] e.type = "tool" -> [type |-> "tool", tool |-> e.tool, named |-> e.named, body |-> e.args]
    [] e.type = "usage" -> [type |-> "usage", usage |-> UsageView(<<e.usage>>)]
    [] e.type = "finish" -> [type |-> "finish", reason |-> Spelled("chat", e.reason)]

Rendered(e) ==
  CASE sc.client = "anthropic" -> render_messages(renderer, e)
    [] sc.client = "responses" -> render_responses(renderer, e)
    [] sc.client = "chat" -> [st |-> renderer, out |-> <<render_chat_chunk(e)>>]

\* finish: a renderer that has not heard a reason gives the ordinary one.
Given(st) == IF st.finish = "none" THEN [st EXCEPT !.finish = "stop"] ELSE st
finish_messages(st) ==
  IF st.stopped THEN <<>> ELSE close_message(close_open([st |-> Given(st), out |-> <<>>])).out
finish_responses(st) ==
  IF st.stopped THEN <<>>
  ELSE LET x == close_open(ensure_started([st |-> Given(st), out |-> <<>>]))
       IN  Append(x.out, response_object(x.st))

\* StreamSink::finish, after a success.
Closing(client, st) ==
  CASE client = "anthropic" -> finish_messages(st)
    [] client = "responses" -> finish_responses(st)
    [] client = "chat" -> <<[type |-> "done"]>>

\* StreamSink::emit_error
Refused(client, st) ==
  IF client = "chat" THEN <<[type |-> "error"], [type |-> "done"]>>
  ELSE IF st.stopped THEN <<>> ELSE <<[type |-> "error"]>>

-----------------------------------------------------------------------------

StreamInit ==
  /\ sc \in StreamScenes
  /\ at = "admit" /\ tries = 0 /\ read = 0 /\ inbox = <<>>
  /\ saw_output = FALSE /\ ended = FALSE /\ collected = <<>>
  /\ renderer = Renderer /\ frames = <<>> /\ acc = Accumulator /\ canon = <<>> /\ metered = <<>>
  /\ sink = IF sc.budgeted THEN "withheld" ELSE "open"

\* The pipeline has reserved for an attempt: a withheld head goes out.
Admit ==
  /\ at = "admit"
  /\ at' = "reading" /\ tries' = tries + 1
  /\ saw_output' = FALSE /\ ended' = FALSE /\ collected' = <<>>
  /\ sink' = IF sink = "withheld" THEN "open" ELSE sink
  /\ UNCHANGED <<sc, read, inbox, renderer, frames, acc, canon, metered>>

\* The key's budget does not cover the attempt: 402 while nothing is out, an
\* error in the stream afterwards.
Unfunded ==
  /\ at = "admit" /\ sc.budgeted /\ "unfunded" \in sc.ends
  /\ IF sink = "withheld" THEN at' = "over" /\ sink' = "402" ELSE at' = "failed" /\ UNCHANGED sink
  /\ UNCHANGED <<sc, tries, read, inbox, saw_output, ended, collected, renderer, frames, acc, canon, metered>>

\* The attempt has failed; cause is the phase the code gives it.  Only an
\* attempt without output is followed by another, if the request may be sent
\* again.
Failed(after_output) ==
  /\ at' = IF ~after_output /\ tries < sc.max_tries THEN "admit" ELSE "failed"
  /\ inbox' = <<>>

Reading == at = "reading" /\ inbox = <<>>

\* stream_events: one event of the provider's.
Read(w) ==
  /\ Reading /\ read < MaxWire /\ w \in sc.wire /\ w.kind \notin {"done", "error"}
  /\ read' = read + 1
  /\ inbox' = Decoded(w)
  /\ UNCHANGED <<sc, at, tries, saw_output, ended, collected, renderer, sink, frames, acc, canon, metered>>

\* The sentinel of the Chat dialect ends the answer, whatever came before.
Sentinel(w) ==
  /\ Reading /\ w \in sc.wire /\ w.kind = "done"
  /\ at' = "ok" /\ metered' = usage_from_events
  /\ UNCHANGED <<sc, tries, read, inbox, saw_output, ended, collected, renderer, sink, frames, acc, canon>>

\* An error event, a broken connection, a deadline.
Breaks(w) ==
  /\ Reading
  /\ (w \in sc.wire /\ w.kind = "error") \/ "broken" \in sc.ends
  /\ Failed(saw_output)
  /\ UNCHANGED <<sc, tries, read, saw_output, ended, collected, renderer, sink, frames, acc, canon, metered>>

\* Text that is no event stream is held to be after output, whatever was.
Malformed ==
  /\ Reading /\ "malformed" \in sc.ends
  /\ Failed(TRUE)
  /\ UNCHANGED <<sc, tries, read, saw_output, ended, collected, renderer, sink, frames, acc, canon, metered>>

\* stream_end: the body is over, which is a success only if the provider
\* said that the answer is.
stream_end ==
  /\ Reading /\ "close" \in sc.ends
  /\ IF ended
     THEN at' = "ok" /\ metered' = usage_from_events /\ UNCHANGED inbox
     ELSE Failed(saw_output) /\ UNCHANGED metered
  /\ UNCHANGED <<sc, tries, read, saw_output, ended, collected, renderer, sink, frames, acc, canon>>

\* deliver: the next decoded event is rendered and written.  The write may
\* find the client gone, which ends the attempt for good.
Deliver ==
  /\ at = "reading" /\ inbox # <<>>
  /\ LET e == Head(inbox)
         x == Rendered(e)
     IN  /\ saw_output' = (saw_output \/ is_semantic_output(e))
         /\ ended' = (ended \/ e.type = "finish")
         /\ renderer' = x.st
         /\ canon' = Append(canon, e) /\ acc' = push(acc, e)
         /\ \/ /\ frames' = frames \o x.out /\ inbox' = Tail(inbox)
               /\ collected' = IF e.type = "usage" THEN Append(collected, e.usage) ELSE collected
               /\ UNCHANGED <<at, sink>>
            \/ /\ "gone" \in sc.ends /\ x.out # <<>>
               /\ sink' = "closed" /\ at' = "failed" /\ inbox' = <<>>
               /\ UNCHANGED <<frames, collected>>
  /\ UNCHANGED <<sc, tries, read, metered>>

\* routes.rs stream, after the pipeline: the ending, or the error.  A head
\* still withheld is written with it.
Close ==
  /\ at \in {"ok", "failed"}
  /\ at' = "over"
  /\ IF sink = "closed" THEN UNCHANGED <<frames, sink>>
     ELSE /\ frames' = frames \o (IF at = "ok" THEN Closing(sc.client, renderer)
                                               ELSE Refused(sc.client, renderer))
          /\ sink' = "open"
  /\ UNCHANGED <<sc, tries, read, inbox, saw_output, ended, collected, renderer, acc, canon, metered>>

StreamNext ==
  \/ Admit \/ Unfunded \/ Malformed \/ stream_end \/ Deliver \/ Close
  \/ \E w \in sc.wire : Read(w) \/ Sentinel(w) \/ Breaks(w)

StreamSpec == StreamInit /\ [][StreamNext]_streamVars

(***************************************************************************)
(* Properties.  The client's reading of what it was sent:                  *)
(***************************************************************************)
Blocks == sc.client # "chat"
Before(i, type) == Cardinality({j \in 1..(i - 1) : frames[j].type = type})
\* What a content frame belongs to: a chunk says it itself, a delta by the
\* index of its block.
KindAt(i) ==
  CASE frames[i].type \in {"text", "reasoning", "tool"} -> frames[i].type
    [] frames[i].type = "delta" ->
         frames[CHOOSE j \in DOMAIN frames :
                  frames[j].type = "open" /\ frames[j].index = frames[i].index].kind
    [] OTHER -> "none"
Joined(Test(_)) == FlattenSeq([i \in DOMAIN frames |-> IF Test(i) THEN frames[i].body ELSE <<>>])
Heard(kind) == Joined(LAMBDA i : KindAt(i) = kind)

\* The calls: a block each, or by the position the chunks name.
HeardCalls ==
  IF Blocks
  THEN {[named |-> frames[j].named,
         args |-> Joined(LAMBDA i : frames[i].type = "delta" /\ frames[i].index = frames[j].index)] :
        j \in {k \in DOMAIN frames : frames[k].type = "open" /\ frames[k].kind = "tool"}}
  ELSE {[named |-> \E k \in DOMAIN frames : frames[k].type = "tool" /\ frames[k].tool = t /\ frames[k].named,
         args |-> Joined(LAMBDA i : frames[i].type = "tool" /\ frames[i].tool = t)] :
        t \in {frames[k].tool : k \in {j \in DOMAIN frames : frames[j].type = "tool"}}}
SaidCalls == {[named |-> acc.calls[k].named, args |-> acc.calls[k].args] : k \in DOMAIN acc.calls}

Lasting(type) == \E i \in DOMAIN frames : frames[i].type = type
Ended == IF Blocks THEN "end" ELSE "finish"
HeardReason == {frames[i].reason : i \in {j \in DOMAIN frames : frames[j].type = Ended}}

\* What the client was sent is a stream its SDK accepts, at every moment and
\* whatever the provider said in whatever order: one start, before anything
\* else; blocks numbered from zero, one open at a time, each closed before
\* the next and before the end, every delta inside its own; one ending, or
\* one error, and nothing behind it; and a stream that is over has it.  (A
\* Messages stream whose provider said nothing but its sentinel ends without
\* having started.)
FramesWellFormed ==
  /\ \A i \in DOMAIN frames :
       LET f == frames[i]
       IN  /\ f.type = "start" /\ Blocks => i = 1
           /\ i = 1 /\ Blocks /\ canon # <<>> => f.type \in {"start", "error"}
           /\ f.type = "open" => f.index = Before(i, "open") /\ f.index = Before(i, "close")
           /\ f.type \in {"delta", "close"} =>
                f.index + 1 = Before(i, "open") /\ f.index = Before(i, "close")
           /\ f.type = "end" => Before(i, "open") = Before(i, "close")
           /\ f.type = "done" \/ (Blocks /\ f.type \in {"end", "error"}) => i = Len(frames)
  /\ at = "over" /\ sink = "open" =>
       frames # <<>> /\ Last(frames).type \in (IF Blocks THEN {"end", "error"} ELSE {"done"})
  /\ sink \in {"withheld", "402"} => frames = <<>>

\* A provider that keeps to its own protocol: a call is named first and its
\* fragments come together, one finish, and only a usage report behind it.
Orderly ==
  /\ \A i, k \in DOMAIN canon : i < k /\ canon[i].type = "tool" /\ canon[k].type = "tool"
                                  /\ canon[i].tool = canon[k].tool =>
       /\ ~canon[k].named
       /\ \A j \in i..k : canon[j].type \in {"text", "reasoning", "tool"} =>
            canon[j].type = "tool" /\ canon[j].tool = canon[i].tool
  /\ \A i \in DOMAIN canon : canon[i].type = "finish" =>
       Len(canon) <= i + 1 /\ (Len(canon) = i + 1 => canon[i + 1].type = "usage")

\* A client that streams gets the answer a client that does not is given
\* from the same events.  Whatever the provider does, its text is a beginning
\* of that text; and a stream that ended well from an orderly provider has
\* all of it, every call with its name and arguments, the reason, and in a
\* Messages stream the usage.
AnswerKept ==
  /\ IsPrefix(Heard("text"), acc.text)
  /\ IsPrefix(Heard("reasoning"), acc.reasoning)
  /\ at = "over" /\ sink = "open" /\ Orderly /\ ~Lasting("error") =>
       /\ acc.finish # "none" \/ sc.upstream = "chat"
       /\ Heard("text") = acc.text /\ Heard("reasoning") = acc.reasoning
       /\ HeardCalls = SaidCalls
       /\ acc.finish # "none" => HeardReason = {Spelled(sc.client, acc.finish)}
       /\ sc.client = "anthropic" => Last(frames).usage = UsageView(acc.usage)
       /\ sc.client = "responses" =>
            FlattenSeq(Last(frames).items) = Joined(LAMBDA i : frames[i].type = "delta")

\* What a client that streams is sent is a stream its SDK accepts, and says
\* what a client that does not stream is told.
StreamFaithful == FramesWellFormed /\ AnswerKept

\* No answer is spliced from two attempts: whatever fails when, all the
\* client ever reads comes from one attempt, the last one made.
OneVoice ==
  \A i \in DOMAIN frames : KindAt(i) # "none" =>
    \A k \in DOMAIN frames[i].body : frames[i].body[k][1] = tries

=============================================================================
