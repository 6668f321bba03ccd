--------------------------- MODULE UpstreamTarget ---------------------------
(***************************************************************************)
(* Where a request goes: server.upstream and server.sni, as src/config.rs  *)
(* accepts and parses them, and the two ways src/lib.rs turns them into a  *)
(* target.  The pump hands upstream_peer and the Host header to pingora;   *)
(* the owned relay builds a URL, and pins its name to the address when the *)
(* TLS name is not the upstream's host.                                    *)
(*                                                                         *)
(* An upstream is [scheme, host, port, base] as written; "" and 0 stand    *)
(* for a part that is not there.  A host is [kind, name], and the kind "v6"*)
(* is a literal with colons, which a URL must bracket.  Hosts resolve.     *)
(***************************************************************************)
EXTENDS Integers

CONSTANTS Host, Port     \* hosts, and ports that may be written; port 0 is none

NoHost == [kind |-> "name", name |-> ""]

Upstream == [scheme : {"", "http", "https"}, host : Host \cup {NoHost},
             port : Port \cup {0}, base : {"", "base"}]

MaxPort == 65535   \* u16::MAX

\* valid_upstream: a host, and a port that is in range when there is one.
ValidUpstream(u) == u.host # NoHost /\ u.port \in 0 .. MaxPort

DefaultPort(scheme) == IF scheme = "https" THEN 443 ELSE 80

\* parse_upstream.
ParseUpstream(u) ==
    LET scheme == IF u.scheme = "" THEN "http" ELSE u.scheme
    IN  [scheme |-> scheme, host |-> u.host, path |-> u.base,
         port |-> IF u.port = 0 THEN DefaultPort(scheme) ELSE u.port]

-----------------------------------------------------------------------------
\* A target: the address dialled, the TLS name (NoHost without TLS), the Host
\* header as a host and a port (0 when it names none) and the path prefix.
Target(addr, tls, header, prefix) ==
    [addr |-> addr, tls |-> tls, header |-> header, prefix |-> prefix]
Unreachable == Target(<<NoHost, 0>>, NoHost, <<NoHost, 0>>, "")

\* The TLS name of the pump: the override, if there is one.
TlsNameOfHost(host, sni) == host
TlsName(host, sni) == IF sni = NoHost THEN host ELSE sni

\* upstream_peer and upstream_request_filter: the address is bracketed where it
\* must be, the authority is sent as written, the base path is dropped.
UpstreamPeer(u, sni) ==
    LET p == ParseUpstream(u) IN
    Target(<<p.host, p.port>>,
           IF p.scheme = "https" THEN TlsName(p.host, sni) ELSE NoHost,
           IF sni = NoHost THEN <<u.host, u.port>> ELSE <<sni, 0>>, "")

\* sni_resolve_entry returns an entry: TLS with a name that is not the host's.
Pins(u, sni) ==
    ParseUpstream(u).scheme = "https" /\ sni # NoHost /\ sni # u.host

\* A URL's host may have colons only in brackets, which relay_target leaves out.
UrlParses(host) == host.kind # "v6"

\* relay_target and the request that relay builds.  Parsing the URL elides the
\* port that is its scheme's default.
RelayTarget(u, sni) ==
    LET p == ParseUpstream(u)
        urlHost == IF Pins(u, sni) THEN sni ELSE p.host
        urlPort == IF p.port = DefaultPort(p.scheme) THEN 0 ELSE p.port
    IN  IF ~UrlParses(urlHost) THEN Unreachable
        ELSE Target(<<p.host, p.port>>,
                    IF p.scheme = "https" THEN urlHost ELSE NoHost,
                    IF sni = NoHost THEN <<urlHost, urlPort>> ELSE <<sni, 0>>,
                    p.path)
=============================================================================
