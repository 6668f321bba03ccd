---- MODULE MCAttribution ----
(* Attribution on every short path, on requests that fill a few mounts, on *)
(* upstreams of every form and on short sequences of headers.              *)
EXTENDS Attribution

Mount == {"session-id", "session_id", "x-claude-code-session-id", "x-grok-conv-id",
          "x-session-id", "x-session-affinity", "x-opencode-session", "x-conversation-id"}
BodyMount == {"session_id", "conversation", "metadata.session_id",
              "client_metadata.session_id", "prompt_cache_key"}
Segment == {"", "v1", "messages", "messagesx", "responses", "chat", "completions",
            "count_tokens", "list"}

MCKey == {"", "key1", "key2"}
PathsUpTo(n) == UNION {[1 .. k -> Segment] : k \in 1 .. n}
MCBase == PathsUpTo(2)

\* Up to two headers and one generic body mount; a metadata string has no fields.
Requests ==
    {r \in [ua : UA, headers : {h \in SUBSET Mount : Cardinality(h) <= 2},
            body : {b \in SUBSET BodyMount : Cardinality(b) <= 1},
            userId : BodyShapes \cup {None, "plain"}, codex : {FALSE}, parses : {TRUE},
            apiKey : {"key1"}, authorization : {""}, messages : {2}, upgrade : {FALSE}] :
        r.userId \in {"metadata string", "metadata string plain"}
            => "metadata.session_id" \notin r.body}

\* The rest of a request, for a few of those.
Others ==
    [ua : UA, headers : {{}, {"x-claude-code-session-id"}, {"x-session-id"}}, body : {{}},
     userId : {None, "legacy"}, codex : BOOLEAN, parses : BOOLEAN,
     apiKey : MCKey, authorization : MCKey, messages : 0 .. 2, upgrade : {FALSE}]

Plain == [ua |-> "other", headers |-> {}, body |-> {}, userId |-> None, codex |-> FALSE,
          parses |-> TRUE, apiKey |-> "key1", authorization |-> "", messages |-> 2, upgrade |-> FALSE]

Endpoints == {<<"v1", "messages">>, <<"v1", "responses">>, <<"v1", "chat", "completions">>}
ControlPaths == {<<"__atg", s>> : s \in {"metrics", "records", "health", "config", "list"}}

\* Upstreams of every form, without an SNI, with the host's own name, with another and
\* with a literal.
H(kind, name) == [kind |-> kind, name |-> name]
MCHost == {H("name", "api"), H("v4", "1.2.3.4"), H("v6", "::1")}
MCPort == {80, 443, 8443, 70000}
Servers ==
    [upstream : Upstream, sni : {NoHost, H("name", "api"), H("name", "sni"), H("v6", "::2")},
     onCancel : BOOLEAN]
Default == [upstream |-> [scheme |-> "", host |-> H("v4", "1.2.3.4"), port |-> 80, base |-> ""],
            sni |-> NoHost, onCancel |-> FALSE]

\* Up to four headers: barred, unreadable, blank, of a long name, and of three costs.
Hdr(denied, text, name, value) ==
    [denied |-> denied, text |-> text, name |-> name, value |-> value]
Headers ==
    {Hdr(TRUE, TRUE, 1, 1), Hdr(FALSE, FALSE, 1, 1), Hdr(FALSE, TRUE, 1, 0),
     Hdr(FALSE, TRUE, 3, 1), Hdr(FALSE, TRUE, 1, 1), Hdr(FALSE, TRUE, 2, 1),
     Hdr(FALSE, TRUE, 2, 9)}
HeaderSeqs == UNION {[1 .. n -> Headers] : n \in 0 .. 4}

MCInput ==
    [path : PathsUpTo(3), req : {Plain}, server : {Default}, headers : {<<>>}]
    \cup [path : Endpoints, req : Requests \cup Others, server : {Default}, headers : {<<>>}]
    \cup [path : Endpoints \cup ControlPaths, req : {Plain, [Plain EXCEPT !.upgrade = TRUE]},
          server : Servers, headers : {<<>>}]
    \cup [path : {<<"v1", "messages">>}, req : {Plain}, server : {Default}, headers : HeaderSeqs]
==============================
