------------------------------- MODULE WsTurn -------------------------------
(***************************************************************************)
(* The turns of an upgraded connection: WsFrameParser and WsTurnState of   *)
(* atg-protocol/src/openai/live.rs under the body filters of src/lib.rs.   *)
(* The bytes of both directions pass through the gateway in chunks cut     *)
(* anywhere; each direction has a frame parser, and one turn state is fed  *)
(* by both.                                                                *)
(*                                                                         *)
(* Every byte can be read as the first byte of a header (its op) and as    *)
(* the second (form, len, masked), as happens when parsing resumes in the  *)
(* middle of a frame.  A length above Short takes two more header bytes,   *)
(* one above Medium eight, and a mask four.  Unmasking restores a payload. *)
(* The endpoints are external: a client masks its frames and asks for a    *)
(* response only when it has seen the previous one end; the server answers *)
(* what it was asked for, with other events at any time.                   *)
(***************************************************************************)
EXTENDS Integers, Sequences, FiniteSets

CONSTANTS
    Turns,       \* responses the client asks for
    MaxEvents,   \* bound on the events of one response, and on the others
    PayloadLen,  \* direction -> payload lengths
    Short, Medium,   \* the longest payloads of the first two forms: 125, 65535
    Cap          \* values of server.max_ws_frame_payload; 0 is unlimited

ASSUME WsAssumption ==
    /\ Turns \in Nat /\ MaxEvents \in Nat
    /\ PayloadLen["client"] \cup PayloadLen["server"] \subseteq Nat \ {0}
    /\ Short \in Nat /\ Medium \in Nat /\ Short <= Medium
    /\ Cap \subseteq Nat

Direction == {"client", "server"}
None == 0   \* no turn

VARIABLES
    cap,
    wire,       \* bytes sent that the gateway has not seen yet
    buf,        \* the parsers' buffers
    turn,       \* WsTurnState, with Ctx.first_output_ns (the turn it was set in)
    records,    \* the records pushed
    asked, ended,   \* creates the client sent, responses it saw end
    known, said,    \* creates the server received; per turn, what it sent
    others,         \* other events the server sent
    seen, opened    \* history: others that passed, and how many when turn k opened

historyVars == <<seen, opened>>
vars == <<cap, wire, buf, turn, records, asked, ended, known, said, others, historyVars>>

NoTurn == [input |-> None, output |-> <<>>, tools |-> <<>>, rawResponse |-> <<>>,
           first |-> None]

Init ==
    /\ cap \in Cap
    /\ wire = [d \in Direction |-> <<>>] /\ buf = [d \in Direction |-> <<>>]
    /\ turn = NoTurn /\ records = <<>>
    /\ asked = 0 /\ ended = 0 /\ known = 0 /\ others = 0
    /\ said = [k \in 1 .. Turns |-> <<>>]
    /\ seen = 0 /\ opened = [k \in 1 .. Turns |-> 0]

-----------------------------------------------------------------------------
(* WsFrameParser::push.                                                    *)

\* A frame is refused by its declared length.
RefusedNever(len) == FALSE
Refused(len) == cap > 0 /\ len > cap

\* The bytes before the mask, and before the payload, by the second byte.
HeaderLen(b) == CASE b.form = "7 bits"  -> 2
                  [] b.form = "16 bits" -> 4
                  [] b.form = "64 bits" -> 10
PayloadStart(b) == HeaderLen(b) + (IF b.masked THEN 4 ELSE 0)

\* One turn of the parser's loop.
ParseFrame(st) ==
    LET b    == st.buf[2]
        end  == PayloadStart(b) + b.len
        Wait == [st EXCEPT !.stop = TRUE]
    IN  IF st.stop \/ Len(st.buf) < 2 THEN Wait
        ELSE IF Len(st.buf) < HeaderLen(b) THEN Wait
        ELSE IF Refused(b.len) THEN [Wait EXCEPT !.buf = <<>>]
        ELSE IF Len(st.buf) < end THEN Wait
        ELSE [buf  |-> SubSeq(st.buf, end + 1, Len(st.buf)),
              out  |-> IF st.buf[1].op = "text"
                         THEN Append(st.out, SubSeq(st.buf, PayloadStart(b) + 1, end))
                         ELSE st.out,
              stop |-> FALSE]

\* Every turn but the last takes a header's two bytes at least.
Parse(bytes) ==
    LET rounds == 1 + Len(bytes) \div 2
        st[i \in 0 .. rounds] ==
          IF i = 0 THEN [buf |-> bytes, out |-> <<>>, stop |-> FALSE]
          ELSE ParseFrame(st[i - 1])
    IN  st[rounds]

-----------------------------------------------------------------------------
(* WsTurnState.                                                            *)

\* The message a payload parses to: it does if it is one whole payload.
Garbage == [kind |-> "garbage", turn |-> None, n |-> 0]
Message(payload) ==
    IF payload # <<>> /\ Len(payload) = payload[1].of
         /\ \A i \in DOMAIN payload : payload[i].part = i /\ payload[i].msg = payload[1].msg
      THEN payload[1].msg ELSE Garbage

\* response.create opens a turn and forgets what was left of another.
OpenTurnKeepsRaw(t, k) == [t EXCEPT !.input = k, !.output = <<>>, !.tools = <<>>]
OpenTurn(t, k) ==
    [t EXCEPT !.input = k, !.output = <<>>, !.tools = <<>>, !.rawResponse = <<>>]

ApplyClientFrame(t, payload) ==
    LET m == Message(payload)
    IN  IF m.kind = "create" THEN OpenTurn(t, m.turn) ELSE t

\* response_body_filter and apply_server_frame; response.done takes the record.
ApplyServerFrame(st, payload) ==
    LET m == Message(payload)
        t == [st.turn EXCEPT
                !.first = IF st.turn.input # None /\ @ = None THEN st.turn.input ELSE @,
                !.rawResponse = Append(@, m)]
    IN  CASE m.kind = "item"  -> [st EXCEPT !.turn = [t EXCEPT !.tools = Append(@, m.n)]]
          [] m.kind = "delta" -> [st EXCEPT !.turn = [t EXCEPT !.output = Append(@, m.n)]]
          [] m.kind = "done"  -> [turn |-> NoTurn, records |-> Append(st.records, t)]
          [] OTHER            -> [st EXCEPT !.turn = t]

\* The frames one call completed, in their order.
ApplyClientFrames(t, payloads) ==
    LET st[i \in 0 .. Len(payloads)] ==
          IF i = 0 THEN t ELSE ApplyClientFrame(st[i - 1], payloads[i])
    IN  st[Len(payloads)]
ApplyServerFrames(before, payloads) ==
    LET st[i \in 0 .. Len(payloads)] ==
          IF i = 0 THEN before ELSE ApplyServerFrame(st[i - 1], payloads[i])
    IN  st[Len(payloads)]

-----------------------------------------------------------------------------
(* The endpoints.                                                          *)

Msg(kind, k, n) == [kind |-> kind, turn |-> k, n |-> n]

\* The second byte of a frame, in the form its length calls for.
LengthByte(d, len) ==
    [form |-> IF len <= Short THEN "7 bits" ELSE IF len <= Medium THEN "16 bits" ELSE "64 bits",
     len |-> len, masked |-> d = "client"]

\* The bytes of a text frame; the others read as a header are of a binary frame.
Encode(d, m, len) ==
    LET b2    == LengthByte(d, len)
        start == PayloadStart(b2)
        Byte(i) == [op |-> IF i = 1 THEN "text" ELSE "binary",
                    form |-> IF i = 2 THEN b2.form ELSE "7 bits",
                    len |-> IF i = 2 THEN len ELSE 1,
                    masked |-> i = 2 /\ b2.masked,
                    part |-> i - start, of |-> len, msg |-> m]
    IN  [i \in 1 .. start + len |-> Byte(i)]

Send(d, m) ==
    \E len \in PayloadLen[d] : wire' = [wire EXCEPT ![d] = @ \o Encode(d, m, len)]

ClientCreates ==
    /\ asked < Turns /\ asked = ended
    /\ asked' = asked + 1
    /\ Send("client", Msg("create", asked + 1, 0))
    /\ UNCHANGED <<cap, buf, turn, records, ended, known, said, others, historyVars>>

\* An event of the response the server is giving; kind "done" ends it.
ServerResponds(kind) ==
    LET k == known
        m == Msg(kind, k, Len(said[k]) + 1)
    IN  /\ known > 0
        /\ \A i \in DOMAIN said[k] : said[k][i].kind # "done"
        /\ kind = "done" \/ Len(said[k]) < MaxEvents
        /\ said' = [said EXCEPT ![k] = Append(@, m)]
        /\ Send("server", m)
        /\ UNCHANGED <<cap, buf, turn, records, asked, ended, known, others,
                       historyVars>>

ServerOther ==
    /\ others < MaxEvents
    /\ others' = others + 1
    /\ Send("server", Msg("other", None, others + 1))
    /\ UNCHANGED <<cap, buf, turn, records, asked, ended, known, said, historyVars>>

\* The messages whose last byte is among those that pass.
Passed(bytes, kind) == Cardinality({i \in DOMAIN bytes :
                          bytes[i].part = bytes[i].of /\ bytes[i].msg.kind = kind})

-----------------------------------------------------------------------------
(* n bytes pass through the gateway, which parses them before it forwards. *)

RequestBodyFilter(n) ==
    LET bytes  == SubSeq(wire["client"], 1, n)
        parsed == Parse(buf["client"] \o bytes)
    IN  /\ n <= Len(wire["client"])
        /\ wire' = [wire EXCEPT !["client"] = SubSeq(@, n + 1, Len(@))]
        /\ buf' = [buf EXCEPT !["client"] = parsed.buf]
        /\ turn' = ApplyClientFrames(turn, parsed.out)
        /\ known' = known + Passed(bytes, "create")
        /\ opened' = IF known' = known THEN opened ELSE [opened EXCEPT ![known'] = seen]
        /\ UNCHANGED <<cap, records, asked, ended, said, others, seen>>

ResponseBodyFilter(n) ==
    LET bytes  == SubSeq(wire["server"], 1, n)
        parsed == Parse(buf["server"] \o bytes)
        st     == ApplyServerFrames([turn |-> turn, records |-> records], parsed.out)
    IN  /\ n <= Len(wire["server"])
        /\ wire' = [wire EXCEPT !["server"] = SubSeq(@, n + 1, Len(@))]
        /\ buf' = [buf EXCEPT !["server"] = parsed.buf]
        /\ turn' = st.turn /\ records' = st.records
        /\ ended' = ended + Passed(bytes, "done")
        /\ seen' = seen + Passed(bytes, "other")
        /\ UNCHANGED <<cap, asked, known, said, others, opened>>

Next ==
    \/ ClientCreates \/ ServerOther
    \/ \E kind \in {"delta", "item", "done"} : ServerResponds(kind)
    \/ \E n \in 1 .. Len(wire["client"]) : RequestBodyFilter(n)
    \/ \E n \in 1 .. Len(wire["server"]) : ResponseBodyFilter(n)

Spec == Init /\ [][Next]_vars

-----------------------------------------------------------------------------
(* Properties.                                                             *)

\* The events of some kinds, in their order.
OfKind(events, kinds) ==
    LET kept[i \in 0 .. Len(events)] ==
          IF i = 0 THEN <<>>
          ELSE kept[i - 1] \o (IF events[i].kind \in kinds THEN <<events[i]>> ELSE <<>>)
    IN  kept[Len(events)]
Numbers(events) == [i \in DOMAIN events |-> events[i].n]

\* Without a cap every response the client saw end is one record, in order: the
\* request it answers, its own output and tools, and the events that passed
\* since the request, none of them of an earlier response.
TurnsPaired ==
    cap = 0 =>
      /\ Len(records) = ended
      /\ \A k \in DOMAIN records :
           /\ records[k].input = k /\ records[k].first = k
           /\ records[k].output = Numbers(OfKind(said[k], {"delta"}))
           /\ records[k].tools = Numbers(OfKind(said[k], {"item"}))
           /\ OfKind(records[k].rawResponse, {"delta", "item", "done"}) = said[k]
           /\ \A i \in DOMAIN records[k].rawResponse :
                LET m == records[k].rawResponse[i] IN m.kind = "other" => m.n > opened[k]

\* With a cap a parser never retains more than one unfinished frame whose payload
\* is within the cap, whatever lengths were declared and wherever parsing resumed.
BufferBounded ==
    cap > 0 => \A d \in Direction :
        Len(buf[d]) < 2 \/ Len(buf[d]) < PayloadStart(buf[d][2]) + cap
=============================================================================
