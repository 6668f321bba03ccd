------------------------------- MODULE Serving -------------------------------
(***************************************************************************)
(* Requests that the owned relay serves while the configuration is         *)
(* reloaded: ConfigStore composed with relay_target of src/lib.rs, which   *)
(* picks the HTTP client of a request from its snapshot and shares one     *)
(* cached client between the requests that need the same pin.              *)
(*                                                                         *)
(* A client pinned to an address connects every name to that address; the  *)
(* plain client self.http has no pin.  The key of the cache is the pair    *)
(* (name, address); the name is the SNI of the snapshot.                   *)
(***************************************************************************)
EXTENDS ConfigStore

CONSTANTS
    UpstreamKey,    \* the hot key a snapshot's upstream and SNI are under
    Resolves,       \* upstream -> the (SNI name, address) entries that
                    \* sni_resolve_entry may return; none when no pin is needed
    Plain,          \* the client self.http, which is not pinned
    None

ASSUME ServingAssumption ==
    /\ UpstreamKey \in HotKey
    /\ \A c \in Config : c[UpstreamKey] \in 0 .. Len(Resolves)
    /\ \A u \in DOMAIN Resolves : Plain \notin Resolves[u] /\ None \notin Resolves[u]

VARIABLES
    pinned,     \* pinned_relay: the cached client and its key, or None
    rpc,        \* per request: where it is in relay_target
    key,        \* the entry it looks up, None when it needs no pin
    client      \* the client it is sent with: its pin, or Plain

relayVars == <<pinned, rpc, key, client>>
servingVars == <<vars, relayVars>>

Entries(r) == Resolves[snap[r].cfg[UpstreamKey]]

RelayInit ==
    /\ pinned = None
    /\ rpc = [r \in Request |-> "idle"]
    /\ key = [r \in Request |-> None]
    /\ client = [r \in Request |-> None]

-----------------------------------------------------------------------------
(* Expressions of the code, each after the faulty form it is checked       *)
(* against.                                                                *)

\* The client a request that built one goes on with: its own, whatever another
\* request stored meanwhile.
BuiltReread(c) == IF pinned = None THEN c ELSE pinned.client
Built(c) == c

\* The cached client may be used: name and address are both those of the key.
Hit(k) == pinned # None /\ pinned.key = k

-----------------------------------------------------------------------------
\* new_ctx, and the request is routed to the relay.
Accept(r) ==
    /\ NewCtx(r)
    /\ rpc' = [rpc EXCEPT ![r] = "target"]
    /\ UNCHANGED <<pinned, key, client>>

\* No pin is needed, or the host did not resolve: the plain client.
TargetPlain(r) ==
    /\ rpc[r] = "target" /\ pc # "down"
    /\ client' = [client EXCEPT ![r] = Plain]
    /\ rpc' = [rpc EXCEPT ![r] = "sent"]
    /\ UNCHANGED <<vars, pinned, key>>

\* The host resolves; the cache is looked up under its lock.
TargetPinned(r) ==
    /\ rpc[r] = "target" /\ pc # "down"
    /\ \E k \in Entries(r) :
         /\ key' = [key EXCEPT ![r] = k]
         /\ IF Hit(k)
              THEN /\ client' = [client EXCEPT ![r] = pinned.client]
                   /\ rpc' = [rpc EXCEPT ![r] = "sent"]
              ELSE rpc' = [rpc EXCEPT ![r] = "build"] /\ UNCHANGED client
    /\ UNCHANGED <<vars, pinned>>

\* The lock was released and the client built, or the plain one taken when the
\* builder failed; either is stored under the request's key, over whatever
\* another request stored meanwhile.
Store(r) ==
    /\ rpc[r] = "build" /\ pc # "down"
    /\ \E c \in {key[r], Plain} :
         /\ pinned' = [key |-> key[r], client |-> c]
         /\ client' = [client EXCEPT ![r] = Built(c)]
    /\ rpc' = [rpc EXCEPT ![r] = "sent"]
    /\ UNCHANGED <<vars, key>>

\* The response was relayed.
Finish(r) ==
    /\ rpc[r] = "sent"
    /\ DropCtx(r)
    /\ rpc' = [rpc EXCEPT ![r] = "idle"]
    /\ key' = [key EXCEPT ![r] = None]
    /\ client' = [client EXCEPT ![r] = None]
    /\ UNCHANGED pinned

\* A restart loses the cache, and the requests with it.
RestartServing ==
    /\ Restart
    /\ pinned' = None
    /\ rpc' = [r \in Request |-> "idle"]
    /\ key' = [r \in Request |-> None]
    /\ client' = [r \in Request |-> None]

Relay(r) == TargetPlain(r) \/ TargetPinned(r) \/ Store(r)

ServingInit == Init /\ RelayInit

ServingNext ==
    \/ /\ \/ \E f \in Config \cup {Unreadable} : EditFile(f)
          \/ Hangup \/ Service \/ ServiceStops
       /\ UNCHANGED relayVars
    \/ RestartServing
    \/ \E r \in Request : Accept(r) \/ Relay(r) \/ Finish(r)

\* The reload service is a task of the server's runtime: it runs whenever it can,
\* whatever the requests do.
ServingSpec ==
    /\ ServingInit /\ [][ServingNext]_servingVars
    /\ WF_servingVars(Service /\ UNCHANGED relayVars)

-----------------------------------------------------------------------------
(* Properties.                                                             *)

\* relay_target: whatever reloads happen between the snapshot, the lookup, the
\* build and the store, and whichever requests of other configurations race
\* them, a request is sent with the name and to the address that the upstream of
\* its OWN snapshot resolved to; the plain client is the one exception.
RelayPinned ==
    \A r \in Request : rpc[r] = "sent" /\ client[r] # Plain
        => client[r] = key[r] /\ client[r] \in Entries(r)

=============================================================================
