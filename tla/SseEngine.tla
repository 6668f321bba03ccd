------------------------------ MODULE SseEngine ------------------------------
(***************************************************************************)
(* The SSE engine of src/engine.rs.  A response body arrives in chunks cut *)
(* anywhere; drain_feed parses the complete frames as they come and keeps  *)
(* the tail, drain_finish flushes it, and stream_response parses a whole   *)
(* body in one pass.                                                       *)
(*                                                                         *)
(* A byte is a tuple.  The line prefix "data:" is one byte, a JSON event   *)
(* is one byte, and a character of two bytes is a lead and a continuation. *)
(* A text delta is the sequence of its characters, and a usage object maps *)
(* the buckets it reports, at least one, to their counts.                  *)
(***************************************************************************)
EXTENDS Integers, Sequences, FiniteSets, SequencesExt, TLC

CONSTANTS
    Stream      \* [protocol, body, reply] of the responses

ASSUME StreamAssumption == \A s \in Stream : s.body \in Seq(ToSet(s.body))

LF   == <<"LF">>
CR   == <<"CR">>
Data == <<"data:">>
Lead == <<"lead">>
Cont == <<"cont">>
Done == <<"[DONE]">>
Open(i, name)       == <<"open", i, name>>     \* content_block_start of a tool
Arg(i, a)           == <<"arg", i, a>>         \* input_json_delta
Close(i)            == <<"close", i>>          \* content_block_stop
Item(name, a)       == <<"item", name, a>>     \* a finished function_call item
Chunk(i, name, a)   == <<"chunk", i, name, a>> \* a chat tool_calls chunk
Usage(u)            == <<"usage", u>>          \* a usage object
ErrorFrame          == <<"error">>

VARIABLES
    stream,
    pos,        \* bytes of the body received
    tail, acc    \* drain_feed's tail and accumulator

sseVars == <<stream, pos, tail, acc>>

NoTool == <<>>

Accum == [text |-> <<>>, error |-> FALSE, frameErrors |-> 0,
          tools |-> <<>>, pending |-> NoTool, chatTools |-> <<>>, usage |-> <<>>]

SseInit ==
    /\ stream \in Stream
    /\ pos = 0 /\ tail = <<>> /\ acc = Accum

-----------------------------------------------------------------------------
(* Bytes to frames.                                                        *)

\* String::from_utf8_lossy: a character, or a replacement for a stray byte.
Paired(bytes, i) ==
    /\ i \in DOMAIN bytes /\ i + 1 \in DOMAIN bytes
    /\ bytes[i] = Lead /\ bytes[i + 1] = Cont
DecodeAt(bytes, i) ==
    CASE Paired(bytes, i)     -> <<<<"char">>>>
      [] Paired(bytes, i - 1) -> <<>>
      [] ~Paired(bytes, i) /\ ~Paired(bytes, i - 1) ->
           IF bytes[i] \in {Lead, Cont} THEN <<<<"fffd">>>> ELSE <<bytes[i]>>
Decode(bytes) ==
    LET text[i \in 0 .. Len(bytes)] ==
          IF i = 0 THEN <<>> ELSE text[i - 1] \o DecodeAt(bytes, i)
    IN  text[Len(bytes)]

StripCr(line) == IF line # <<>> /\ Last(line) = CR THEN Front(line) ELSE line

\* collect_frames in the middle of its text: the frames found, the payload of the
\* open one (a tuple of at most one) and what was read of the line.
NoFrames == [out |-> <<>>, data |-> <<>>, line |-> <<>>]

\* A data line starts the payload or is joined to it; other lines are ignored.
AddData(data, line) ==
    IF line[1] # Data THEN data
    ELSE IF data = <<>> THEN <<Tail(line)>>
    ELSE <<data[1] \o <<LF>> \o Tail(line)>>

\* The end of a line: a blank one ends the frame.
TakeLine(st) ==
    LET line == StripCr(st.line)
    IN  IF line = <<>> THEN [out |-> st.out \o st.data, data |-> <<>>, line |-> <<>>]
        ELSE [out |-> st.out, data |-> AddData(st.data, line), line |-> <<>>]

\* split('\n').
TakeChar(st, c) ==
    IF c = LF THEN TakeLine(st)
    ELSE [out |-> st.out, data |-> st.data, line |-> Append(st.line, c)]

\* The text ends its last line, and the frame that is open.
CollectFrames(text) ==
    LET st[i \in 0 .. Len(text)] ==
          IF i = 0 THEN NoFrames ELSE TakeChar(st[i - 1], text[i])
        end == TakeLine(st[Len(text)])
    IN  end.out \o end.data

\* sse_data_frames.
Frames(bytes) == CollectFrames(Decode(bytes))

\* last_frame_boundary: the end of the last blank line, 0 for none.
BoundaryAfterLine(body) ==
    Max({0} \cup {i \in DOMAIN body : body[i] = LF})
BoundaryLfOnly(body) ==
    Max({0} \cup {i \in DOMAIN body : i > 1 /\ body[i] = LF /\ body[i - 1] = LF})
FrameEnd(body, i) ==
    /\ body[i] = LF
    /\ \/ i > 1 /\ body[i - 1] = LF
       \/ i > 2 /\ body[i - 1] = CR /\ body[i - 2] = LF
LastFrameBoundary(body) == Max({0} \cup {i \in DOMAIN body : FrameEnd(body, i)})

-----------------------------------------------------------------------------
(* Frames to a turn.                                                       *)

Trim(data) == LET ink == {i \in DOMAIN data : data[i] \notin {LF, CR}}
              IN  IF ink = {} THEN <<>> ELSE SubSeq(data, Min(ink), Max(ink))

TextByte == {<<"x">>, <<"char">>, <<"fffd">>}
Skipped(payload) == payload = <<>> \/ payload = <<Done>>
IsText(payload)  == ToSet(payload) \subseteq TextByte
IsEvent(payload) ==
    Len(payload) = 1 /\ (payload[1] = ErrorFrame \/ Len(payload[1]) > 1)

Call(name, args) == [name |-> name, args |-> args]

\* Opening a tool closes the one still pending.
ToolOpenOverwrites(a, e) == [a EXCEPT !.pending = [index |-> e[2], call |-> Call(e[3], <<>>)]]
ToolOpen(a, e) ==
    [a EXCEPT !.tools = IF a.pending = NoTool THEN @ ELSE Append(@, a.pending.call),
              !.pending = [index |-> e[2], call |-> Call(e[3], <<>>)]]

ToolArg(a, e) ==
    IF a.pending # NoTool /\ a.pending.index = e[2]
      THEN [a EXCEPT !.pending.call.args = Append(@, e[3])] ELSE a

ToolClose(a, e) ==
    IF a.pending # NoTool /\ a.pending.index = e[2]
      THEN [a EXCEPT !.tools = Append(@, a.pending.call), !.pending = NoTool] ELSE a

ToolDone(a, e) == [a EXCEPT !.tools = Append(@, Call(e[2], <<e[3]>>))]

\* Chat chunks are gathered by index; the first name wins.
ToolChunk(a, e) ==
    LET known == {k \in DOMAIN a.chatTools : a.chatTools[k].index = e[2]}
        list  == IF known # {} THEN a.chatTools
                 ELSE Append(a.chatTools, [index |-> e[2], call |-> Call("", <<>>)])
        k     == IF known # {} THEN Min(known) ELSE Len(list)
    IN  [a EXCEPT !.chatTools =
           [list EXCEPT ![k].call.name = IF @ = "" THEN e[3] ELSE @,
                        ![k].call.args = Append(@, e[4])]]

\* apply_sse_rule: the descriptor's rules are the events of its protocol.
ApplySseRule(a, protocol, e) ==
    CASE protocol = "anthropic" /\ e[1] = "open"  -> ToolOpen(a, e)
      [] protocol = "anthropic" /\ e[1] = "arg"   -> ToolArg(a, e)
      [] protocol = "anthropic" /\ e[1] = "close" -> ToolClose(a, e)
      [] protocol = "responses" /\ e[1] = "item"  -> ToolDone(a, e)
      [] protocol = "chat" /\ e[1] = "chunk"      -> ToolChunk(a, e)
      [] OTHER                                    -> a

\* usage_from_obj: where the details are counted inside the input they are taken
\* out of it, so that the buckets do not overlap.
SaturatingSub(a, b) == IF a > b THEN a - b ELSE 0
UsageFromObj(protocol, u) ==
    LET Count(b) == IF b \in DOMAIN u THEN u[b] ELSE 0
    IN  IF protocol = "anthropic" \/ "input" \notin DOMAIN u THEN u
        ELSE [u EXCEPT !["input"] = SaturatingSub(SaturatingSub(@, Count("cached")),
                                                  Count("written"))]

\* merge_usage: a later report of a bucket replaces an earlier one.
MergeUsageReplaces(cur, next) == next
MergeUsage(cur, next) ==
    [b \in DOMAIN cur \cup DOMAIN next |-> IF b \in DOMAIN next THEN next[b] ELSE cur[b]]

ErrorMarker(protocol, e) == protocol \in {"anthropic", "responses"} /\ e = ErrorFrame

FeedFrame(a, protocol, data) ==
    LET payload == Trim(data)
    IN  CASE Skipped(payload) -> a
          [] ~Skipped(payload) /\ IsText(payload) -> [a EXCEPT !.text = @ \o payload]
          [] ~Skipped(payload) /\ IsEvent(payload) ->
               LET e == payload[1]
               IN  [ApplySseRule([a EXCEPT !.error = @ \/ ErrorMarker(protocol, e)],
                                 protocol, e)
                    EXCEPT !.usage = IF e[1] # "usage" THEN @
                                     ELSE MergeUsage(@, UsageFromObj(protocol, e[2]))]
          [] OTHER -> [a EXCEPT !.frameErrors = @ + 1]

FeedAll(a, protocol, frames) ==
    LET st[k \in 0 .. Len(frames)] ==
          IF k = 0 THEN a ELSE FeedFrame(st[k - 1], protocol, frames[k])
    IN  st[Len(frames)]

FinishInArrivalOrder(a, protocol) ==
    [text |-> a.text, error |-> a.error, frameErrors |-> a.frameErrors, usage |-> a.usage,
     tools |-> a.tools \o (IF a.pending = NoTool THEN <<>> ELSE <<a.pending.call>>)
                 \o (IF protocol # "chat" THEN <<>>
                     ELSE [k \in DOMAIN a.chatTools |-> a.chatTools[k].call])]

\* finish_accum: the pending tool, then the chat tools in the order of their index.
FinishAccum(a, protocol) ==
    LET chat == SortSeq(a.chatTools, LAMBDA s, t : s.index < t.index)
    IN  [text |-> a.text, error |-> a.error, frameErrors |-> a.frameErrors,
         usage |-> a.usage,
         tools |-> a.tools
                     \o (IF a.pending = NoTool THEN <<>> ELSE <<a.pending.call>>)
                     \o (IF protocol # "chat" THEN <<>>
                         ELSE [k \in DOMAIN chat |-> chat[k].call])]

StreamResponse(protocol, body) ==
    FinishAccum(FeedAll(Accum, protocol, Frames(body)), protocol)

-----------------------------------------------------------------------------
(* The drain.                                                              *)

DrainFinish ==
    FinishAccum(FeedAll(acc, stream.protocol, Frames(tail)), stream.protocol)

\* A chunk of n bytes arrives: drain_feed.
DrainFeed(n) ==
    LET joined == tail \o SubSeq(stream.body, pos + 1, pos + n)
        cut    == LastFrameBoundary(joined)
    IN  /\ pos + n <= Len(stream.body)
        /\ pos' = pos + n
        /\ acc' = FeedAll(acc, stream.protocol, Frames(SubSeq(joined, 1, cut)))
        /\ tail' = SubSeq(joined, cut + 1, Len(joined))
        /\ UNCHANGED stream

SseNext == \E n \in 1 .. Len(stream.body) : DrainFeed(n)

SseSpec == SseInit /\ [][SseNext]_sseVars

-----------------------------------------------------------------------------
(* Properties.                                                             *)

Received == SubSeq(stream.body, 1, pos)

\* drain_finish: "the outcome equals stream_response on the same concatenated
\* body", wherever the chunks were cut and whenever the stream breaks off.
DrainEqualsWhole == DrainFinish = StreamResponse(stream.protocol, Received)

\* The drain retains a partial frame, never a complete one: what is kept does
\* not grow with the length of the stream.
TailIsOneFrame ==
    \A i, j \in DOMAIN tail :
      i < j /\ tail[i] = LF /\ tail[j] = LF => StripCr(SubSeq(tail, i + 1, j - 1)) # <<>>

\* The payloads of frames, and the events among them.
Payloads(frames) == [k \in DOMAIN frames |-> Trim(frames[k])]
EventOf(payload, type) == IsEvent(payload) /\ payload[1][1] = type
EventsOf(payloads, type) == {k \in DOMAIN payloads : EventOf(payloads[k], type)}

\* The start of any tool ends the one that frame k opened, and so does its stop.
EndsTool(payloads, k, m) ==
    \/ EventOf(payloads[m], "open")
    \/ EventOf(payloads[m], "close") /\ payloads[m][1][2] = payloads[k][1][2]

\* The frames with arguments of the tool that frame k opened.
ArgsOf(payloads, k) ==
    {j \in EventsOf(payloads, "arg") :
       /\ j > k /\ payloads[j][1][2] = payloads[k][1][2]
       /\ \A m \in k + 1 .. j : ~EndsTool(payloads, k, m)}

\* The sequence of the members of a set of numbers, in their order.
InOrder(S) == {s \in [1 .. Cardinality(S) -> S] : \A i, j \in DOMAIN s : i < j => s[i] < s[j]}

\* Every tool call an anthropic stream opens is reported once, in order, with
\* its own arguments, also when the stream breaks off in the middle of it.
ToolsAssembled ==
    stream.protocol = "anthropic" =>
      LET payloads == Payloads(Frames(Received))
          tools == DrainFinish.tools
      IN  \E opens \in InOrder(EventsOf(payloads, "open")) :
            /\ Len(tools) = Len(opens)
            /\ \A n \in DOMAIN opens :
                 /\ tools[n].name = payloads[opens[n]][1][3]
                 /\ \E args \in InOrder(ArgsOf(payloads, opens[n])) :
                      tools[n].args = [i \in DOMAIN args |-> payloads[args[i]][1][3]]

\* What a frame reports.
Reported(payloads, k) == payloads[k][1][2]

\* Every bucket the frames of a response reported is in its usage, with the
\* count of the last frame that reported it: the input an anthropic stream
\* reports at its start survives the output it reports at its end.
UsageComplete ==
    LET payloads == Payloads(Frames(Received))
        Reporting(b) == {k \in EventsOf(payloads, "usage") : b \in DOMAIN Reported(payloads, k)}
        usage == DrainFinish.usage
    IN  /\ DOMAIN usage = UNION {DOMAIN Reported(payloads, k) : k \in EventsOf(payloads, "usage")}
        /\ \A b \in DOMAIN usage :
             usage[b] = UsageFromObj(stream.protocol,
                                     Reported(payloads, Max(Reporting(b))))[b]
=============================================================================
