---- MODULE MCSseEngine ----
(* SseEngine on short arbitrary bodies, on streams of a few whole frames, and on
   the streams of whole replies. *)
EXTENDS ReplyAtRest

\* Every body of five bytes: delimiters, a data line, and a split character.
Arbitrary == [protocol : {"responses"},
              body : [1 .. 5 -> {LF, CR, Data, Lead, Cont}], reply : {NoReply}]

Ends == {<<LF, LF>>, <<CR, LF, CR, LF>>}
Framed(payloads, end) == FlattenSeq([k \in DOMAIN payloads |-> <<Data>> \o payloads[k] \o end])

\* Three frames of a protocol, in any order, with either delimiter.
Of(protocol, payloads) ==
    {[protocol |-> protocol, body |-> Framed(p, end), reply |-> NoReply] : p \in [1 .. 3 -> payloads], end \in Ends}

Whole == Of("anthropic", {<<Open(0, "f")>>, <<Open(1, "g")>>, <<Arg(0, 1)>>, <<Arg(1, 2)>>,
                          <<Close(0)>>, <<ErrorFrame>>, <<Lead, Cont>>,
                          <<Usage([input |-> 5, cached |-> 2])>>, <<Usage([output |-> 3])>>})
    \cup Of("chat", {<<Chunk(1, "f", 1)>>, <<Chunk(0, "", 2)>>, <<Chunk(0, "g", 3)>>, <<Done>>,
                     <<Usage([input |-> 4, cached |-> 3, written |-> 2, output |-> 1])>>,
                     <<<<"x">>, LF, Data>>})
    \cup Of("responses", {<<Item("f", 1)>>, <<ErrorFrame>>, <<LF, Data, Item("g", 2)>>,
                          <<Usage([input |-> 4, cached |-> 1])>>})

Texts == {TextBlock(<<>>), TextBlock(<<<<"x">>, <<"char">>>>)}
Calls(args) == {ToolBlock("f", a) : a \in args} \cup {ToolBlock("g", a) : a \in args}
Usages == {<<>>, [input |-> 4, cached |-> 1, written |-> 2, output |-> 3], [output |-> 0]}
Pairs(blocks) == UNION {[1 .. n -> blocks] : n \in 0 .. 2}

\* Every reply of up to two blocks; a chat message has one text and its calls.
Replies ==
    {Reply("anthropic", b, u) : b \in Pairs(Texts \cup Calls({<<2, 1>>, <<1>>})), u \in Usages}
    \cup {Reply("responses", b, u) : b \in Pairs(Texts \cup Calls({<<1>>})), u \in Usages}
    \cup {Reply("chat", <<t>> \o b, u) : t \in Texts, b \in Pairs(Calls({<<2, 1>>, <<1>>})), u \in Usages}

OfReplies ==
    UNION {{[protocol |-> r.protocol, body |-> Framed(p, <<LF, LF>>), reply |-> r] :
              p \in Streamings(r)} : r \in Replies}

MCStream == Arbitrary \cup Whole \cup OfReplies
=============================
