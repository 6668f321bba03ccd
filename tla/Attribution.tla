----------------------------- MODULE Attribution -----------------------------
(***************************************************************************)
(* What src/lib.rs makes of one request: request_filter answers it, relays *)
(* it or leaves it to the pump, and logging() reads off the finished       *)
(* request the protocol of its path, the harness that sent it, the session *)
(* it belongs to, the scope in which the prefix stitcher looks for one and *)
(* its header evidence.  The tables are those of atg-protocol and          *)
(* atg-harness; openai.live has no path and is not among them.             *)
(*                                                                         *)
(* A path is the sequence of its segments.  A mount that is filled carries *)
(* a session id of its own, named after it.  Readers trim what they read,  *)
(* so that a blank mount is an absent one; the forms of metadata.user_id   *)
(* that are not treated so have a value of their own.  An authorization is *)
(* a bearer token, a legacy user id names its account, and x-codex metadata*)
(* its installation.  Whether the turn is recorded at all is the matter of *)
(* RequestTurn, and how its session is stitched that of PrefixStitcher.    *)
(***************************************************************************)
EXTENDS Integers, Sequences, FiniteSets, SequencesExt, UpstreamTarget,
        HeaderEvidence

CONSTANTS
    Input,      \* [path, req, server, headers] of the requests
    Base,       \* the paths of base URLs
    Key         \* API keys; "" is none

\* The user agents that tell a harness, and any other.
UA == {"claude-cli/", "codex", "opencode/", "omp/", "other"}

\* A request: the mounts its headers and its body fill, the form of its
\* metadata.user_id, whether it has x-codex metadata, its credentials and the
\* length of its history.
Request ==
    [ua : UA, headers : SUBSET STRING, body : SUBSET STRING, userId : STRING,
     codex : BOOLEAN, parses : BOOLEAN, apiKey : STRING, authorization : STRING,
     messages : Nat, upgrade : BOOLEAN]

ASSUME InputAssumption ==
    \A i \in Input :
      /\ i.path \in Seq(STRING) /\ i.req \in Request
      /\ i.server.upstream \in Upstream /\ i.headers \in Seq(Header)

ASSUME BaseAssumption == Base \subseteq Seq(STRING)

VARIABLES
    path, req,
    server,     \* of the request's snapshot: upstream, sni and drain.on_cancel
    headers,    \* its headers, in their order, as HeaderEvidence sees them
    route,      \* what request_filter did with it
    turn        \* what logging read off the request

attributionVars == <<path, req, server, headers, route, turn>>

None == "none"
Unread == [protocol |-> None]
Unrouted == [by |-> None]

-----------------------------------------------------------------------------
(* Protocol tables.                                                        *)

Compatible(seq) == <<"compatible-mode">> \o seq

Anthropic ==
    [name |-> "anthropic.messages", prefixes |-> {<<"v1", "messages">>},
     loose |-> <<"messages">>,
     body |-> <<"session_id", "metadata.session_id">>,
     headers |-> <<"x-claude-code-session-id", "session-id", "session_id">>,
     stitch |-> TRUE]

Responses ==
    [name |-> "openai.responses",
     prefixes |-> {<<"v1", "responses">>, Compatible(<<"v1", "responses">>)},
     loose |-> <<"responses">>,
     body |-> <<"session_id", "conversation", "metadata.session_id",
                "client_metadata.session_id", "prompt_cache_key">>,
     headers |-> <<"session-id", "session_id", "x-claude-code-session-id",
                   "x-grok-conv-id">>,
     stitch |-> TRUE]

Chat ==
    [name |-> "openai.chat_completions",
     prefixes |-> {<<"v1", "chat">>, Compatible(<<"v1", "chat">>)},
     loose |-> <<"chat", "completions">>,
     body |-> <<"session_id", "metadata.session_id", "prompt_cache_key">>,
     headers |-> <<"session-id", "session_id", "x-claude-code-session-id">>,
     stitch |-> FALSE]

DESCRIPTORS == <<Anthropic, Responses, Chat>>

LOOSE_SUBRESOURCES == {"count_tokens"}

DetectByName(name) == CHOOSE d \in ToSet(DESCRIPTORS) : d.name = name

\* starts_with compares characters: the last segment may go on.
GoesOn(segment) == IF segment = "messagesx" THEN {"messages", segment} ELSE {segment}
StartsWith(p, prefix) ==
    /\ Len(p) >= Len(prefix)
    /\ \A i \in 1 .. Len(prefix) - 1 : p[i] = prefix[i]
    /\ prefix[Len(prefix)] \in GoesOn(p[Len(prefix)])

Detect(p) == SelectSeq(DESCRIPTORS, LAMBDA d : \E x \in d.prefixes : StartsWith(p, x))

\* What may follow a loose endpoint.
AnchoredAnywhere(tail) == TRUE
Anchored(tail) == tail = <<>> \/ Head(tail) \in LOOSE_SUBRESOURCES

\* The segments of a path that are not empty.
Segments(p) ==
    LET kept[i \in 0 .. Len(p)] ==
          IF i = 0 THEN <<>> ELSE kept[i - 1] \o (IF p[i] = "" THEN <<>> ELSE <<p[i]>>)
    IN  kept[Len(p)]

\* The windows of the path that are the endpoint.
LooseMatch(p, endpoint) ==
    LET segments == Segments(p)
        n == Len(endpoint)
    IN  \E start \in 0 .. Len(segments) - n :
          /\ SubSeq(segments, start + 1, start + n) = endpoint
          /\ Anchored(SubSeq(segments, start + n + 1, Len(segments)))

\* detect_path: an exact prefix, else the first table with a loose match.  No two
\* tables share a prefix.
DetectPath(p) ==
    LET loose == {i \in DOMAIN DESCRIPTORS : LooseMatch(p, DESCRIPTORS[i].loose)}
    IN  CASE Detect(p) # <<>>                -> [protocol |-> Detect(p)[1].name, loose |-> FALSE]
          [] Detect(p) = <<>> /\ loose # {}  ->
               [protocol |-> DESCRIPTORS[Min(loose)].name, loose |-> TRUE]
          [] Detect(p) = <<>> /\ loose = {}  -> [protocol |-> None, loose |-> FALSE]

-----------------------------------------------------------------------------
(* Harness tables.                                                         *)

\* Evidence is a user agent's prefix, a filled header or a shape of the body.
ClaudeCode ==
    [name |-> "claude-code", protocols |-> {"anthropic.messages"},
     identity |-> {<<"legacy", 3>>, <<"claude-cli/", 4>>}, mounts |-> <<>>]

Codex ==
    [name |-> "codex", protocols |-> {"openai.responses", "openai.live"},
     identity |-> {<<"x-codex", 4>>, <<"codex", 4>>}, mounts |-> <<>>]

Grok ==
    [name |-> "grok", protocols |-> {"openai.responses"},
     identity |-> {<<"x-grok-conv-id", 5>>}, mounts |-> <<>>]

Opencode ==
    [name |-> "opencode",
     protocols |-> {"openai.responses", "openai.chat_completions", "anthropic.messages"},
     identity |-> {<<"opencode/", 4>>, <<"x-opencode-session", 4>>},
     mounts |-> <<"x-session-id", "x-session-affinity", "x-opencode-session",
                  "x-conversation-id">>]

Omp ==
    [name |-> "omp",
     protocols |-> {"anthropic.messages", "openai.responses", "openai.chat_completions"},
     identity |-> {<<"omp/", 4>>}, mounts |-> <<>>]

HARNESSES == <<ClaudeCode, Codex, Grok, Opencode, Omp>>

\* The shapes of the claude-code dialect; an envelope or an object with a blank
\* session id has the shape, as has a metadata string with any user_id.
BodyShapes == {"envelope", "envelope blank", "legacy", "object", "object blank",
               "metadata string", "metadata string plain"}
HeaderShapes == {"x-claude-code-session-id"}

BodyEvidence(r) == IF ~r.parses THEN {}
                   ELSE {r.userId} \cup (IF r.codex THEN {"x-codex"} ELSE {})
Evidence(r) == {r.ua} \cup r.headers \cup BodyEvidence(r)

Strength(h, r) == LET hits == {id \in h.identity : id[1] \in Evidence(r)}
                  IN  Max({0} \cup {id[2] : id \in hits})

\* identify: the strongest identity evidence wins, then the order of the table.
Identify(protocol, r) ==
    LET top == Max({Strength(h, r) : h \in ToSet(HARNESSES)})
        candidates == SelectSeq(HARNESSES, LAMBDA h : top > 0 /\ Strength(h, r) = top)
        dialect == IF (BodyEvidence(r) \cap BodyShapes) \cup (r.headers \cap HeaderShapes) = {}
                     THEN None ELSE "claude-code"
    IN  [identity   |-> IF candidates = <<>> THEN None ELSE candidates[1].name,
         dialect    |-> dialect,
         candidates |-> [i \in DOMAIN candidates |-> candidates[i].name],
         anomaly    |-> candidates # <<>> /\ protocol \notin candidates[1].protocols]

HarnessLabel(facts) ==
    CASE facts.identity # None -> facts.identity
      [] facts.identity = None /\ facts.dialect # None -> "claude-code-compatible"
      [] facts.identity = None /\ facts.dialect = None -> None

\* enrich: the facts of the identity, or of the dialect's owner.
EnrichOf(facts, r) ==
    LET owner == IF facts.identity # None THEN facts.identity ELSE facts.dialect
    IN  CASE owner = "claude-code" /\ r.userId = "legacy" -> "cc_account"
          [] owner = "codex" /\ r.codex                   -> "codex_installation"
          [] OTHER                                        -> None

-----------------------------------------------------------------------------
(* The session of a request.                                               *)

Found(via, mount) == [via |-> via, mount |-> mount]
NoSession == Found(None, None)

\* read_source: the mount holds a string that is not blank (or, for a
\* conversation, an object with such an id).
Filled(mount, filled) == mount \in filled

\* The first of the mounts that is filled.
FirstFilled(via, mounts, filled) ==
    LET hits == SelectSeq(mounts, LAMBDA m : Filled(m, filled))
    IN  IF hits = <<>> THEN NoSession ELSE Found(via, hits[1])

\* metadata_user_id_session: an envelope with a session id, or a legacy composite.
UserIdSession(form) ==
    IF form \in {"envelope", "legacy"} THEN Found("body:harness", "metadata.user_id")
    ELSE NoSession

\* dialect_session reads an object without trimming it.
DialectSession(form) ==
    CASE form = "object"          -> Found("body:harness", "metadata.user_id")
      [] form = "object blank"    -> Found("body:harness", "blank")
      [] form = "metadata string" -> Found("body:harness", "metadata")
      [] OTHER                    -> UserIdSession(form)

\* session_from_body of the harness layer: keyed on the dialect's shapes.
SessionFromBodyOfOwner(facts, r) ==
    IF facts.identity = "claude-code" THEN DialectSession(r.userId) ELSE NoSession
SessionFromBody(facts, r) ==
    IF facts.dialect = "claude-code" THEN DialectSession(r.userId) ELSE NoSession

\* session_from_headers of the harness layer: only for an identified harness.
SessionFromHeaders(facts, r) ==
    LET own == SelectSeq(HARNESSES, LAMBDA h : h.name = facts.identity)
    IN  IF own = <<>> THEN NoSession
        ELSE FirstFilled("harness-header", own[1].mounts, r.headers)

OrElse(s, t) == IF s # NoSession THEN s ELSE t

\* turn_facts: the first of the four sources that has a session.
TurnFacts(protocol, r, facts) ==
    LET d == DetectByName(protocol)
    IN  IF ~r.parses THEN NoSession
        ELSE OrElse(FirstFilled("body", d.body, r.body),
               OrElse(SessionFromBody(facts, r),
                 OrElse(FirstFilled("header", d.headers, r.headers),
                        SessionFromHeaders(facts, r))))

\* The credential the record's fingerprint is made of: request_api_key_fp.
ApiKey(protocol, r) ==
    IF protocol = "anthropic.messages" THEN r.apiKey ELSE r.authorization

\* A session is stitched when none was found and the history shows continuity.
Stitched(protocol, r, session) ==
    /\ session = NoSession /\ r.parses
    /\ DetectByName(protocol).stitch /\ r.messages >= 2
StitchScope(r) == r.authorization

-----------------------------------------------------------------------------
Read(p, r) ==
    LET protocol == DetectPath(p).protocol
        facts    == Identify(protocol, r)
        session  == TurnFacts(protocol, r, facts)
    IN  [protocol |-> protocol, loose |-> DetectPath(p).loose,
         harness |-> HarnessLabel(facts), candidates |-> facts.candidates,
         anomaly |-> facts.anomaly, dialect |-> facts.dialect,
         enrich |-> IF r.parses THEN EnrichOf(facts, r) ELSE None,
         apiKey |-> ApiKey(protocol, r),
         session |-> IF Stitched(protocol, r, session) THEN Found("stitcher", None) ELSE session,
         scope |-> IF Stitched(protocol, r, session) THEN StitchScope(r) ELSE None,
         evidence |-> CollectHdrEvidence(headers)]

\* request_filter: the endpoints the gateway answers itself, which it matches
\* before anything else.
Control == {<<"__atg", "metrics">>, <<"__atg", "records">>, <<"__atg", "health">>,
            <<"__atg", "config">>}

\* Only a request of a known protocol that is no upgrade is relayed, and only when
\* disconnected turns are drained.
Relays(p, r) == server.onCancel /\ ~r.upgrade /\ DetectPath(p).protocol # None

Route(p, r) ==
    CASE p \in Control -> [by |-> "control"]
      [] p \notin Control /\ Relays(p, r) ->
           [by |-> "relay", to |-> RelayTarget(server.upstream, server.sni)]
      [] p \notin Control /\ ~Relays(p, r) ->
           [by |-> "pump", to |-> UpstreamPeer(server.upstream, server.sni)]

AttributionInit ==
    /\ \E i \in Input :
         path = i.path /\ req = i.req /\ server = i.server /\ headers = i.headers
    /\ ValidUpstream(server.upstream)
    /\ route = Unrouted /\ turn = Unread

RequestFilter ==
    /\ route = Unrouted
    /\ route' = Route(path, req)
    /\ UNCHANGED <<path, req, server, headers, turn>>

\* logging, for a path of a known protocol.
LogAttribution ==
    /\ route # Unrouted /\ turn = Unread /\ DetectPath(path).protocol # None
    /\ turn' = Read(path, req)
    /\ UNCHANGED <<path, req, server, headers, route>>

AttributionNext == RequestFilter \/ LogAttribution
AttributionSpec == AttributionInit /\ [][AttributionNext]_attributionVars

-----------------------------------------------------------------------------
(* Properties.                                                             *)

\* "Session extraction stays keyed on SHAPES (dialect), never on attribution":
\* had the client sent another user agent, the turn would be in the same
\* session; only the mounts gated on an identity may come or go, and they never
\* displace another source.
ExtractionIgnoresAttribution ==
    turn # Unread =>
      \A ua \in UA :
        LET other == Read(path, [req EXCEPT !.ua = ua]).session
        IN  \/ other = turn.session
            \/ /\ other.via \in {None, "stitcher", "harness-header"}
               /\ turn.session.via \in {None, "stitcher", "harness-header"}

\* A base URL in front of a loosely matched endpoint does not change the protocol
\* of the request, unless together they name a sub-resource or begin with the
\* exact prefix of a protocol.
BaseUrlIrrelevant ==
    turn # Unread /\ turn.loose =>
      \A base \in Base :
        \/ ToSet(base \o path) \cap LOOSE_SUBRESOURCES # {}
        \/ DetectPath(base \o path) = [protocol |-> turn.protocol, loose |-> TRUE]
        \/ Detect(base \o path) # <<>>

\* "fingerprint chains keyed by (credential scope, ...)": two turns are stitched
\* in one scope only when they carry the same API credential.
ScopeIsCredential ==
    turn # Unread /\ turn.scope # None =>
      \A k \in Key :
        LET other == Read(path, [req EXCEPT !.apiKey = k])
        IN  other.scope = turn.scope => other.apiKey = turn.apiKey

\* "pump parity": whichever of the two serves a request, it dials the same
\* address with the same TLS name, names the same host and asks for the same
\* path, for every upstream and SNI a file may hold; except that only the relay
\* keeps a base path, and that the relay cannot use an IPv6 literal in its URL:
\* as the upstream's host, or as the name it pins to it.
Names(header) ==
    <<header[1], IF header[2] = 0 THEN DefaultPort(ParseUpstream(server.upstream).scheme)
                 ELSE header[2]>>
TargetsAgree ==
    route.by = "relay" =>
      LET u == server.upstream
          pump == UpstreamPeer(u, server.sni)
      IN  (route.to.addr = pump.addr /\ route.to.tls = pump.tls
             /\ Names(route.to.header) = Names(pump.header)
             /\ route.to.prefix = pump.prefix)
          <=> u.base = "" /\ UrlParses(IF Pins(u, server.sni) THEN server.sni ELSE u.host)

\* What the headers kept cost together.
TotalCost(kept) ==
    LET sum[k \in 0 .. Len(kept)] == IF k = 0 THEN 0 ELSE sum[k - 1] + Cost(kept[k])
    IN  sum[Len(kept)]

\* "the entry/byte bounds drop the overflow (counted)": the evidence of a turn
\* holds no barred header and stays within both bounds, every other header is in
\* it or counted, and none was counted that still had room in the end.
EvidenceExact ==
    turn # Unread =>
      LET e == turn.evidence
          passed == {i \in DOMAIN headers : Passed(headers[i])}
          cost == TotalCost(e.kept)
      IN  /\ Len(e.kept) <= MaxEntries /\ cost <= Budget
          /\ \A k \in DOMAIN e.kept : ~e.kept[k].denied /\ e.kept[k].text
          /\ Len(e.kept) + e.dropped = Cardinality(passed)
          /\ \A i \in passed : \/ \E k \in DOMAIN e.kept : e.kept[k] = headers[i]
                               \/ ~HasRoom(e.kept, cost, headers[i])
=============================================================================
