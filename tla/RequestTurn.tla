----------------------------- MODULE RequestTurn -----------------------------
(***************************************************************************)
(* One HTTP request through the gateway of src/lib.rs, from request_filter *)
(* to the turn record that logging() pushes.                               *)
(*                                                                         *)
(* With drain.on_cancel an identified path is served by the gateway's own  *)
(* relay(): it pumps the upstream's response to the client and, when the   *)
(* client disconnects, goes on consuming it (the drain) until it ends or   *)
(* the drain window elapses.  Every other request is pumped by pingora,    *)
(* which aborts on a disconnect and hands logging() a session error.       *)
(* Concurrently a configuration reload may change the capture cap.         *)
(*                                                                         *)
(* The response body is the bytes 1, 2, 3, ...; a buffer is the set of the *)
(* bytes it holds (bytes are only ever appended in order).  Time is        *)
(* abstracted: the drain window may elapse at any moment once it is open.  *)
(* Left out: WebSocket upgrades, the control endpoints, the failure of     *)
(* ResponseHeader::build (the status comes from a valid response) and a    *)
(* panic of the record assembly.                                           *)
(***************************************************************************)
EXTENDS Integers, Sequences, FiniteSets

CONSTANTS
    ChunkLen,     \* lengths of the chunks the upstream sends
    MaxBytes,     \* bound on the length of a response
    CapMax,       \* values of capture.max_bytes
    Continuation, \* the response's UTF-8 continuation bytes
    MaxReloads    \* bound on the reloads of the capture cap

ASSUME TurnAssumption ==
    /\ ChunkLen \subseteq Nat \ {0}
    /\ MaxBytes \in Nat
    /\ CapMax \subseteq Nat \ {0}
    /\ Continuation \subseteq 1 .. MaxBytes
    /\ MaxReloads \in Nat

Status == {0, 200, 404}   \* 0: no response arrived
ErrorClass == {"none", "proxy_error", "http_status", "protocol"}
\* The Error pingora passes to logging, if any, by its source; a downstream
\* one may carry the "during HTTP idle state" context.
SessionError == {"none", "upstream", "downstream", "downstream_idle"}

VARIABLES
    \* the request: fixed when it arrives
    matched,      \* what detect_path finds: "none", "loose" or "exact"
    onCancel,     \* drain.on_cancel in the request's snapshot
    traceOff,     \* trace.mode = off
    reqParses,    \* the request body carries a user turn
    \* Ctx
    respStatus, sse, respBuf, complete, clientDead, relayDone, timedOut,
    draining,     \* drain_acc is Some
    drainAcc,     \* the bytes fed to the SSE accumulator
    drainOverflow, relayError,
    \* locals and surroundings
    pc,
    deadline,     \* the drain window: "unset", "open" or "elapsed"
    got,          \* bytes received from the upstream
    json,         \* the bytes received are, all told, one JSON document
    errFrame,     \* the bytes received, all told, end in an SSE error frame
    sessionError, \* what pingora passes to logging
    cap, reloads, \* the capture cap and the reloads of it
    \* what the request leaves behind
    turnsTotal, records

requestVars == <<matched, onCancel, traceOff, reqParses>>
captureVars == <<respBuf, draining, drainAcc, drainOverflow, got>>
headVars    == <<respStatus, sse, json, errFrame>>
endVars     == <<complete, relayDone, timedOut, relayError, sessionError>>
capVars     == <<cap, reloads>>
outVars     == <<turnsTotal, records>>
vars == <<requestVars, captureVars, headVars, endVars, capVars, outVars,
          pc, clientDead, deadline>>

\* The request is relayed by the gateway itself.
Owned == onCancel /\ matched # "none"

\* new_ctx.
Init ==
    /\ matched \in {"none", "loose", "exact"}
    /\ onCancel \in BOOLEAN /\ traceOff \in BOOLEAN /\ reqParses \in BOOLEAN
    /\ respStatus = 0 /\ sse = FALSE /\ respBuf = {}
    /\ json \in BOOLEAN /\ errFrame \in BOOLEAN
    /\ complete = FALSE /\ clientDead = FALSE /\ relayDone = FALSE
    /\ timedOut = FALSE
    /\ draining = FALSE /\ drainAcc = {} /\ drainOverflow = 0
    /\ relayError = FALSE /\ sessionError = "none"
    /\ pc = "upload" /\ deadline = "unset" /\ got = 0
    /\ cap \in CapMax /\ reloads = 0
    /\ turnsTotal = 0 /\ records = {}

-----------------------------------------------------------------------------
(* Expressions of the code, each after the faulty form it is checked       *)
(* against.                                                                *)

\* The n bytes that follow those received so far.
Following(n) == (got + 1) .. (got + n)

\* drain_capture: the bytes of a chunk that still fit under the cap.
Taken(n) ==
    LET room == IF cap > Cardinality(respBuf) THEN cap - Cardinality(respBuf)
                                              ELSE 0
    IN  IF room < n THEN room ELSE n

\* drain_capture: the bytes of a chunk that are counted as dropped.
DroppedOnFull(n) == IF Taken(n) = 0 THEN n ELSE 0
Dropped(n) == n - Taken(n)

\* begin_drain seeds the accumulator, once, with all that was captured so far.
SeedNothing(captured) == drainAcc
Seed(captured) == IF sse /\ ~draining THEN captured ELSE drainAcc

\* A drain has an accumulator when the response is a stream.
Drains == draining \/ sse

\* A drained chunk is fed to the accumulator in full.
Fed(n) == IF sse \/ draining THEN drainAcc \cup Following(n) ELSE drainAcc

\* relay: the response ran to its end.
RanToEnd(endSeen, upstreamFailed) == endSeen /\ ~upstreamFailed

\* A drain read gives up when its deadline has passed; a deadline that was
\* never set is read as now.
DrainGivesUpNever == FALSE
DrainGivesUp == clientDead /\ deadline # "open"

\* classify_session_error.
ClassifyByStatus(e) ==
    CASE e = "downstream_idle"                    -> "IdleNoise"
      [] e = "downstream" /\ respStatus = 200     -> "IdleNoise"
      [] e = "downstream" /\ respStatus # 200     -> "ClientCancelled"
      [] e = "upstream"                           -> "ProxyError"
Classify(e) ==
    CASE e = "downstream_idle"                               -> "IdleNoise"
      [] e = "downstream" /\ complete /\ respStatus = 200    -> "IdleNoise"
      [] e = "downstream" /\ ~(complete /\ respStatus = 200) -> "ClientCancelled"
      [] e = "upstream"                                      -> "ProxyError"

\* The client was seen to disconnect in the middle of the turn.
Cancelled == clientDead \/ (sessionError # "none"
                             /\ Classify(sessionError) = "ClientCancelled")

\* http_error: a session error, else the relay's, else the status.
HttpError ==
    CASE sessionError # "none" -> IF Classify(sessionError) = "ProxyError"
                                    THEN "proxy_error" ELSE "none"
      [] sessionError = "none" /\ relayError  -> "proxy_error"
      [] sessionError = "none" /\ ~relayError -> IF respStatus >= 400
                                    THEN "http_status" ELSE "none"

\* error.or(http_error): a protocol error frame in what was parsed wins, also
\* when the stream broke after it.
ErrorOf(parsed) ==
    IF errFrame /\ got > 0 /\ parsed = 1 .. got THEN "protocol" ELSE HttpError

\* CaptureCap::bound: up to the cap, backed up to a character boundary; and
\* the truncation marker when bytes were cut.
BoundEnd ==
    LET nth(i) == CHOOSE b \in respBuf :
                     Cardinality({c \in respBuf : c <= b}) = i
        fits == {e \in 0 .. cap : e = 0 \/ nth(e + 1) \notin Continuation}
    IN  CHOOSE e \in fits : \A f \in fits : f <= e
Marker(original, captured) == [original |-> original, captured |-> captured]
Bound ==
    IF Cardinality(respBuf) <= cap
      THEN [bytes |-> respBuf, markers |-> <<>>]
      ELSE [bytes   |-> {b \in respBuf :
                          Cardinality({c \in respBuf : c <= b}) <= BoundEnd},
            markers |-> <<Marker(Cardinality(respBuf), BoundEnd)>>]

\* raw_response: a drain that overflowed the capture adds its own marker.
RawResponseUnmarked == Bound
RawResponse ==
    IF drainOverflow = 0 THEN Bound
    ELSE [Bound EXCEPT !.markers =
            Append(@, Marker(Cardinality(respBuf) + drainOverflow,
                             Cardinality(respBuf)))]

-----------------------------------------------------------------------------
(* The owned relay.                                                        *)

\* The request body is buffered in full before the upstream is called.
RelayUpload ==
    /\ Owned /\ pc = "upload"
    /\ \/ /\ pc' = "send"                       \* end of the body
          /\ UNCHANGED clientDead
       \/ /\ pc' = "log" /\ clientDead' = TRUE  \* the client aborted it
    /\ UNCHANGED <<requestVars, captureVars, headVars, endVars, capVars,
                   outVars, deadline>>

\* send fails: 502 to the client.
RelaySendFails ==
    /\ Owned /\ pc = "send"
    /\ relayError' = TRUE /\ relayDone' = TRUE
    /\ pc' = "log"
    /\ UNCHANGED <<requestVars, captureVars, headVars, complete, timedOut,
                   sessionError, capVars, outVars, clientDead, deadline>>

\* The end of relay(): the terminating write changes nothing.
RelayEnds(endSeen, upstreamFailed) ==
    /\ complete' = RanToEnd(endSeen, upstreamFailed)
    /\ relayDone' = TRUE
    /\ pc' = "log"

\* The response head arrives and is written to the client. A failed write
\* leaves the drain deadline unset. A 204, a 304 or the answer to a HEAD has
\* no body to pump.
RelayHead(status, isSse, noBody, written) ==
    /\ Owned /\ pc = "send"
    /\ respStatus' = status /\ sse' = isSse
    /\ clientDead' = ~written
    /\ IF noBody THEN RelayEnds(TRUE, FALSE)
                 ELSE pc' = "body" /\ UNCHANGED <<complete, relayDone>>
    /\ UNCHANGED <<requestVars, captureVars, json, errFrame, timedOut,
                   relayError, sessionError, capVars, outVars, deadline>>

\* begin_drain: the client is gone, seed the accumulator and open the window.
BeginDrain(captured) ==
    /\ clientDead' = TRUE
    /\ drainAcc' = Seed(captured)
    /\ draining' = Drains
    /\ deadline' = "open"

\* The liveness probe on the client's read half fails.
RelayProbe ==
    /\ Owned /\ pc = "body" /\ ~clientDead
    /\ BeginDrain(respBuf)
    /\ UNCHANGED <<requestVars, respBuf, drainOverflow, got, headVars,
                   endVars, capVars, outVars, pc>>

\* A chunk for a live client is captured, then written; the write may fail.
RelayChunk(n, written) ==
    /\ Owned /\ pc = "body" /\ ~clientDead
    /\ got + n <= MaxBytes
    /\ got' = got + n
    /\ respBuf' = respBuf \cup Following(n)
    /\ IF written THEN UNCHANGED <<clientDead, draining, drainAcc, deadline>>
                  ELSE BeginDrain(respBuf \cup Following(n))
    /\ UNCHANGED <<requestVars, drainOverflow, headVars, endVars, capVars,
                   outVars, pc>>

\* A chunk for a dead client: bounded capture, unbounded parse.
RelayDrainChunk(n) ==
    /\ Owned /\ pc = "body" /\ clientDead
    /\ got + n <= MaxBytes
    /\ got' = got + n
    /\ respBuf' = respBuf \cup Following(Taken(n))
    /\ drainOverflow' = drainOverflow + Dropped(n)
    /\ drainAcc' = Fed(n)
    /\ draining' = Drains
    /\ UNCHANGED <<requestVars, headVars, endVars, capVars, outVars, pc,
                   clientDead, deadline>>

RelayEnd ==
    /\ Owned /\ pc = "body"
    /\ RelayEnds(TRUE, FALSE)
    /\ UNCHANGED <<requestVars, captureVars, headVars, timedOut, relayError,
                   sessionError, capVars, outVars, clientDead, deadline>>

RelayUpstreamError ==
    /\ Owned /\ pc = "body"
    /\ relayError' = TRUE
    /\ RelayEnds(FALSE, TRUE)
    /\ UNCHANGED <<requestVars, captureVars, headVars, timedOut, sessionError,
                   capVars, outVars, clientDead, deadline>>

RelayDrainTimeout ==
    /\ Owned /\ pc = "body"
    /\ DrainGivesUp
    /\ timedOut' = TRUE
    /\ RelayEnds(FALSE, FALSE)
    /\ UNCHANGED <<requestVars, captureVars, headVars, relayError,
                   sessionError, capVars, outVars, clientDead, deadline>>

\* drain.timeout_secs have passed since begin_drain.
WindowElapses ==
    /\ pc = "body" /\ deadline = "open"
    /\ deadline' = "elapsed"
    /\ UNCHANGED <<requestVars, captureVars, headVars, endVars, capVars,
                   outVars, pc, clientDead>>

-----------------------------------------------------------------------------
(* The pingora pump and the hooks it calls.  An error ends the session and *)
(* reaches logging.                                                        *)

PumpEnds(error) ==
    /\ sessionError' = error
    /\ pc' = "log"

\* The request is forwarded; the client may abort it, the connect may fail.
PumpUpload ==
    /\ ~Owned /\ pc = "upload"
    /\ \/ pc' = "send" /\ UNCHANGED sessionError
       \/ PumpEnds("downstream")
       \/ PumpEnds("upstream")
    /\ UNCHANGED <<requestVars, captureVars, headVars, complete, relayDone,
                   timedOut, relayError, capVars, outVars, clientDead,
                   deadline>>

\* upstream_response_filter, then the head is written to the client.
PumpHead(status, isSse, written) ==
    /\ ~Owned /\ pc = "send"
    /\ respStatus' = status /\ sse' = isSse
    /\ IF written THEN pc' = "body" /\ UNCHANGED sessionError
                  ELSE PumpEnds("downstream")
    /\ UNCHANGED <<requestVars, captureVars, json, errFrame, complete,
                   relayDone, timedOut, relayError, capVars, outVars,
                   clientDead, deadline>>

\* response_body_filter on a chunk, then the chunk is written to the client.
PumpChunk(n, written) ==
    /\ ~Owned /\ pc = "body"
    /\ got + n <= MaxBytes
    /\ got' = got + n
    /\ respBuf' = IF traceOff THEN respBuf ELSE respBuf \cup Following(n)
    /\ IF written THEN UNCHANGED <<sessionError, pc>>
                  ELSE PumpEnds("downstream")
    /\ UNCHANGED <<requestVars, draining, drainAcc, drainOverflow, headVars, complete,
                   relayDone, timedOut, relayError, capVars, outVars,
                   clientDead, deadline>>

\* response_body_filter at the end of the stream; the session may still fail
\* on its last write or in the idle state that follows.
PumpEnd(error) ==
    /\ ~Owned /\ pc = "body"
    /\ complete' = TRUE
    /\ PumpEnds(error)
    /\ UNCHANGED <<requestVars, captureVars, headVars, relayDone, timedOut,
                   relayError, capVars, outVars, clientDead, deadline>>

\* The stream breaks: the upstream fails, or the probe of the client's read
\* half does. A FIN is a closed connection, a RST a read error with the idle
\* context.
PumpBreaks(error) ==
    /\ ~Owned /\ pc \in {"send", "body"}
    /\ PumpEnds(error)
    /\ UNCHANGED <<requestVars, captureVars, headVars, complete, relayDone,
                   timedOut, relayError, capVars, outVars, clientDead,
                   deadline>>

-----------------------------------------------------------------------------
(* logging.                                                                *)

Push(shape, error, parsed, raw) ==
    records' = records \cup
        {[shape |-> shape, error |-> error, parsed |-> parsed, raw |-> raw,
          cancelled |-> Cancelled, timedOut |-> timedOut]}

\* A loose match records only a 2xx response.
RecordAllowed == matched = "exact" \/ (matched = "loose" /\ respStatus = 200)

LogNothing ==
    /\ pc = "log" /\ ~RecordAllowed
    /\ pc' = "done"
    /\ UNCHANGED <<requestVars, captureVars, headVars, endVars, capVars,
                   outVars, clientDead, deadline>>

\* trace.mode = off: a shell record, nothing parsed.
LogShell ==
    /\ pc = "log" /\ RecordAllowed /\ traceOff
    /\ turnsTotal' = turnsTotal + 1
    /\ Push("shell", HttpError, {}, [bytes |-> {}, markers |-> <<>>])
    /\ pc' = "done"
    /\ UNCHANGED <<requestVars, captureVars, headVars, endVars, capVars,
                   clientDead, deadline>>

\* A stream: the accumulator of a drain, else the captured body, is parsed.
LogSse ==
    /\ pc = "log" /\ RecordAllowed /\ ~traceOff /\ sse
    /\ turnsTotal' = turnsTotal + 1
    /\ LET parsed == IF draining THEN drainAcc ELSE respBuf
       IN  Push("sse", ErrorOf(parsed), parsed, RawResponse)
    /\ pc' = "done"
    /\ UNCHANGED <<requestVars, captureVars, headVars, endVars, capVars,
                   clientDead, deadline>>

\* unpack_nonstreaming succeeds: the captured body is the whole document, also
\* when the connection broke after its last byte.
Unpacks == reqParses /\ json /\ got > 0 /\ respBuf = 1 .. got

\* What cannot be unpacked is still recorded when the turn failed or was
\* cancelled in the relay.
WorthRecordingOnError == HttpError # "none"
WorthRecording == HttpError # "none" \/ (relayDone /\ Cancelled)

LogWhole ==
    /\ pc = "log" /\ RecordAllowed /\ ~traceOff /\ ~sse
    /\ turnsTotal' = turnsTotal + 1
    /\ CASE Unpacks -> Push("unpacked", HttpError, respBuf, RawResponse)
         [] ~Unpacks /\ WorthRecording -> Push("minimal", HttpError, {}, RawResponse)
         [] ~Unpacks /\ ~WorthRecording -> UNCHANGED records
    /\ pc' = "done"
    /\ UNCHANGED <<requestVars, captureVars, headVars, endVars, capVars,
                   clientDead, deadline>>

-----------------------------------------------------------------------------
\* CaptureCap::set_max, from the reload path.
SetMax(max) ==
    /\ pc # "done" /\ reloads < MaxReloads
    /\ reloads' = reloads + 1
    /\ cap' = max
    /\ UNCHANGED <<requestVars, captureVars, headVars, endVars, outVars, pc,
                   clientDead, deadline>>

Relay ==
    \/ RelayUpload \/ RelaySendFails \/ RelayProbe \/ RelayEnd
    \/ RelayUpstreamError \/ RelayDrainTimeout \/ WindowElapses
    \/ \E s \in Status \ {0}, isSse, noBody, written \in BOOLEAN :
          RelayHead(s, isSse, noBody, written)
    \/ \E n \in ChunkLen, written \in BOOLEAN : RelayChunk(n, written)
    \/ \E n \in ChunkLen : RelayDrainChunk(n)

Pump ==
    \/ PumpUpload
    \/ \E s \in Status \ {0}, isSse, written \in BOOLEAN :
          PumpHead(s, isSse, written)
    \/ \E n \in ChunkLen, written \in BOOLEAN : PumpChunk(n, written)
    \/ \E e \in SessionError \ {"upstream"} : PumpEnd(e)
    \/ \E e \in SessionError \ {"none"} : PumpBreaks(e)

Logging == LogNothing \/ LogShell \/ LogSse \/ LogWhole

Finished == pc = "done" /\ UNCHANGED vars

Next == Relay \/ Pump \/ Logging \/ (\E c \in CapMax : SetMax(c)) \/ Finished

\* The task of a request runs whenever it can; the drain timer fires.  The
\* upstream and the client owe nothing.
FairSpec ==
    /\ Init /\ [][Next]_vars
    /\ WF_vars(WindowElapses) /\ WF_vars(RelayDrainTimeout) /\ WF_vars(Logging)

Spec == Init /\ [][Next]_vars

-----------------------------------------------------------------------------
(* Properties.                                                             *)

RecordType ==
    [shape : {"shell", "sse", "unpacked", "minimal"}, error : ErrorClass,
     parsed : SUBSET (1 .. MaxBytes), cancelled : BOOLEAN, timedOut : BOOLEAN,
     raw : [bytes : SUBSET (1 .. MaxBytes),
            markers : Seq([original : Nat, captured : Nat])]]

\* Every variable has its type: in particular the capture and the accumulator
\* hold only bytes the upstream has sent, and no drain runs for a live client.
TypeOK ==
    /\ matched \in {"none", "loose", "exact"}
    /\ onCancel \in BOOLEAN /\ traceOff \in BOOLEAN /\ reqParses \in BOOLEAN
    /\ sse \in BOOLEAN /\ json \in BOOLEAN /\ errFrame \in BOOLEAN
    /\ complete \in BOOLEAN /\ clientDead \in BOOLEAN /\ relayDone \in BOOLEAN
    /\ timedOut \in BOOLEAN /\ relayError \in BOOLEAN
    /\ pc \in {"upload", "send", "body", "log", "done"}
    /\ deadline \in {"unset", "open", "elapsed"}
    /\ respStatus \in Status /\ sessionError \in SessionError
    /\ got \in 0 .. MaxBytes
    /\ respBuf \subseteq 1 .. got
    /\ draining \in BOOLEAN /\ (draining => clientDead /\ sse)
    /\ drainAcc \subseteq 1 .. got
    /\ drainOverflow \in Nat
    /\ cap \in CapMax /\ reloads \in 0 .. MaxReloads
    /\ turnsTotal \in 0 .. 1
    /\ records \subseteq RecordType

\* drain_capture loses no count: in a relayed turn the captured bytes and the
\* counted overflow always add up to what the upstream sent.
BytesAccounted ==
    Owned => Cardinality(respBuf) + drainOverflow = got

\* "the incremental SSE accumulator keeps final_output/usage complete": the
\* record of a relayed stream is parsed from every byte that was received,
\* whenever the client died, however the chunks fell and whatever the cap was.
StreamParsedWhole ==
    \A r \in records : Owned /\ r.shape = "sse" => r.parsed = 1 .. got

\* The record says that something went wrong.
Marked(r) == r.cancelled \/ r.error # "none"

\* How a response that did not run to its end is recorded, to the last case: as
\* cancelled or as an error for every way it can have broken off, except that a
\* session error with the idle context leaves it unmarked unless the stream
\* itself reports an error.  That exception is against what the comments of
\* classify_session_error say: see TruncatedNeverClean.
TruncationMarkedUnlessIdle ==
    \A r \in records :
        ~complete => (Marked(r) <=> \/ sessionError # "downstream_idle"
                                    \/ r.error = "protocol")

\* A 2xx turn that ran to its end for a client nobody saw leave is recorded
\* neither as cancelled nor as a transport failure, whatever the teardown of
\* the session looked like.
DeliveredIsClean ==
    \A r \in records :
        complete /\ respStatus = 200 /\ ~clientDead
            => ~r.cancelled /\ r.error \in {"none", "protocol"}

\* Both: which teardowns of a session mark the turn, and which do not.
DisconnectClassified == TruncationMarkedUnlessIdle /\ DeliveredIsClean

\* A relayed turn on an exact path that failed, or that lost its client after
\* the upload, is never lost: it leaves a record that says so.  A path that only
\* matched loosely is recorded for a 2xx alone (RecordAllowed), by design.
FailedRelayRecorded ==
    pc = "done" /\ Owned /\ matched = "exact" /\ (relayDone /\ (clientDead \/ relayError))
        => \E r \in records : /\ clientDead => r.cancelled
                              /\ relayError => r.error # "none"

\* A raw response shorter than what the upstream sent ends in a marker that
\* tells the true original size.
TruncationTold ==
    \A r \in records :
        Owned /\ r.shape # "shell" /\ r.raw.bytes # 1 .. got
            => /\ r.raw.markers # <<>>
               /\ r.raw.markers[Len(r.raw.markers)].original = got

\* What strengthens BytesAccounted and StreamParsedWhole: nothing is received before
\* the head; a live client's response is captured whole; a drained stream is fed to
\* the accumulator whole, and one that has none yet has received nothing.
CaptureInv ==
    /\ pc \in {"upload", "send"} => got = 0 /\ ~draining
    /\ Owned /\ ~clientDead => respBuf = 1 .. got
    /\ Owned /\ sse => IF draining THEN drainAcc = 1 .. got
                                   ELSE clientDead => got = 0

\* What strengthens the others: how a request can have ended, and that its record
\* is the last thing it leaves.
EndInv ==
    /\ pc \notin {"log", "done"} => ~complete /\ ~relayError /\ sessionError = "none"
    /\ Owned \/ relayError => sessionError = "none"
    /\ clientDead => Owned
    /\ complete => ~relayError /\ sessionError # "upstream"
    /\ pc \in {"log", "done"} /\ ~complete
         => clientDead \/ relayError \/ sessionError # "none"
    /\ pc # "done" => records = {} /\ turnsTotal = 0

RecordInv == StreamParsedWhole /\ DisconnectClassified /\ FailedRelayRecorded
             /\ TruncationTold

\* A relay whose client is gone ends: the upstream ends, fails, or the window
\* elapses.
DrainEnds == clientDead ~> pc = "done"

-----------------------------------------------------------------------------
(* What comments of the repository say and the code does not do.           *)

\* drain_timed_out: the stream did not finish within the drain window.
WindowBeforeTimeout == timedOut => deadline = "elapsed"

\* response_complete: "a mid-body disconnect must not classify as idle", or
\* "truncated responses would launder into clean turns"; of the idle context,
\* "it cannot fire on a truncated response".  A response that broke off in its
\* body is never recorded as a clean turn.
TruncatedNeverClean ==
    \A r \in records : got > 0 /\ ~complete => Marked(r)

=============================================================================
