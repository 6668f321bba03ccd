----------------------------- MODULE ReplyAtRest -----------------------------
(***************************************************************************)
(* One reply of a model, read by two code paths: as a stream by SseEngine, *)
(* or as a whole JSON body by nonstreaming of src/engine.rs with the       *)
(* readers of each protocol's descriptor.                                  *)
(*                                                                         *)
(* A reply is a sequence of text and tool blocks and a usage object.  A    *)
(* tool's arguments are the members of its JSON object in the order the    *)
(* model wrote them, at least one.                                         *)
(***************************************************************************)
EXTENDS SseEngine

TextBlock(chars)       == [kind |-> "text", text |-> chars]
ToolBlock(name, args)  == [kind |-> "tool", name |-> name, args |-> args]
Reply(protocol, blocks, usage) ==
    [protocol |-> protocol, blocks |-> blocks, usage |-> usage]

OfKind(blocks, kind) == SelectSeq(blocks, LAMBDA b : b.kind = kind)

-----------------------------------------------------------------------------
(* The body at rest.                                                       *)

\* join("\n").
Joined(texts) ==
    FlattenSeq([k \in DOMAIN texts |-> (IF k = 1 THEN <<>> ELSE <<LF>>) \o texts[k].text])

\* content_text: the text of a chat message is one string; the texts of anthropic
\* blocks are put on lines of their own, and tool blocks have none.
ContentText(reply) == Joined(OfKind(reply.blocks, "text"))

\* responses_final_output: the output_text blocks of every item.
ResponsesFinalOutput(reply) == Joined(OfKind(reply.blocks, "text"))

FinalOutput(reply) ==
    IF reply.protocol = "responses" THEN ResponsesFinalOutput(reply) ELSE ContentText(reply)

\* nonstreaming_tools of anthropic: the input is a JSON value, printed with its
\* members sorted; of responses and chat: the arguments are a string.
AnthropicTool(b) == Call(b.name, SortSeq(b.args, LAMBDA m, n : m < n))
ResponsesTool(b) == Call(b.name, b.args)
ChatTool(b)      == Call(b.name, b.args)

NonstreamingTools(reply) ==
    LET calls == OfKind(reply.blocks, "tool")
        Tool(b) == CASE reply.protocol = "anthropic" -> AnthropicTool(b)
                     [] reply.protocol = "responses" -> ResponsesTool(b)
                     [] reply.protocol = "chat"      -> ChatTool(b)
    IN  [k \in DOMAIN calls |-> Tool(calls[k])]

\* usage_from_nonstreaming: one object at the top of the body, or none.
UsageFromNonstreaming(reply) == UsageFromObj(reply.protocol, reply.usage)

Nonstreaming(reply) ==
    [text |-> FinalOutput(reply), tools |-> NonstreamingTools(reply),
     usage |-> UsageFromNonstreaming(reply)]

-----------------------------------------------------------------------------
(* The same reply as the payloads of a stream: what the upstream sends.    *)

Bytes(c) == IF c = <<"char">> THEN <<Lead, Cont>> ELSE <<c>>
Deltas(chars) == [k \in DOMAIN chars |-> Bytes(chars[k])]

Parts(usage, buckets) ==
    LET kept == DOMAIN usage \cap buckets
    IN  IF kept = {} THEN <<>> ELSE <<<<Usage([b \in kept |-> usage[b]])>>>>

\* Anthropic: one content block after the other; the output is counted last.
AnthropicPayloads(reply) ==
    LET Block(k) ==
          LET b == reply.blocks[k]
          IN  IF b.kind = "text" THEN Deltas(b.text)
              ELSE <<<<Open(k, b.name)>>>>
                     \o [i \in DOMAIN b.args |-> <<Arg(k, b.args[i])>>] \o <<<<Close(k)>>>>
    IN  Parts(reply.usage, {"input", "cached", "written"})
          \o FlattenSeq([k \in DOMAIN reply.blocks |-> Block(k)])
          \o Parts(reply.usage, {"output"})

\* Responses: text deltas, finished items, and the usage at completion.
ResponsesPayloads(reply) ==
    LET Block(k) == LET b == reply.blocks[k]
                    IN  IF b.kind = "text" THEN Deltas(b.text)
                        ELSE <<<<Item(b.name, b.args[1])>>>>
    IN  FlattenSeq([k \in DOMAIN reply.blocks |-> Block(k)])
          \o Parts(reply.usage, DOMAIN reply.usage)

\* Chat: the chunks of the calls come in any order that keeps each call's own;
\* the name comes with every chunk or with the first.
ChatPayloads(reply) ==
    LET calls  == OfKind(reply.blocks, "tool")
        pieces == UNION {{<<k, i>> : i \in DOMAIN calls[k].args} : k \in DOMAIN calls}
        orders == {o \in [1 .. Cardinality(pieces) -> pieces] :
                     /\ \A p \in pieces : \E n \in DOMAIN o : o[n] = p
                     /\ \A m, n \in DOMAIN o : m < n /\ o[m][1] = o[n][1] => o[m][2] < o[n][2]}
        Payload(p, resent) ==
            <<Chunk(p[1] - 1, IF p[2] = 1 \/ resent THEN calls[p[1]].name ELSE "",
                    calls[p[1]].args[p[2]])>>
    IN  {FlattenSeq([k \in DOMAIN OfKind(reply.blocks, "text") |->
                       Deltas(OfKind(reply.blocks, "text")[k].text)])
           \o [n \in DOMAIN o |-> Payload(o[n], resent)]
           \o Parts(reply.usage, DOMAIN reply.usage) \o <<<<Done>>>> :
         o \in orders, resent \in BOOLEAN}

Streamings(reply) ==
    CASE reply.protocol = "anthropic" -> {AnthropicPayloads(reply)}
      [] reply.protocol = "responses" -> {ResponsesPayloads(reply)}
      [] reply.protocol = "chat"      -> ChatPayloads(reply)

-----------------------------------------------------------------------------
(* Property.                                                               *)

NoReply == [protocol |-> "none"]

Unbroken(text) == SelectSeq(text, LAMBDA c : c # LF)
SameCall(c, d) == /\ c.name = d.name
                  /\ SortSeq(c.args, LAMBDA m, n : m < n) = SortSeq(d.args, LAMBDA m, n : m < n)

\* "the descriptor's extractor mirrors the streaming strategies": a reply leaves
\* the same text up to line breaks between blocks, the same calls in the same
\* order with the same arguments, and the same usage, whether the client asked
\* for a stream or for a whole body, and however the stream was chunked.
RestEqualsStream ==
    stream.reply # NoReply /\ pos = Len(stream.body) =>
      LET streamed == DrainFinish
          whole    == Nonstreaming(stream.reply)
      IN  /\ Unbroken(streamed.text) = Unbroken(whole.text)
          /\ Len(streamed.tools) = Len(whole.tools)
          /\ \A k \in DOMAIN whole.tools : SameCall(streamed.tools[k], whole.tools[k])
          /\ streamed.usage = whole.usage
          /\ streamed.frameErrors = 0
=============================================================================
