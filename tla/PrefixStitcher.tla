--------------------------- MODULE PrefixStitcher ---------------------------
(***************************************************************************)
(* The prefix stitcher of src/trace/prefix.rs: requests that carry no      *)
(* session id are assigned a synthetic one by matching their message       *)
(* history against the fingerprint chain last seen for the same credential *)
(* scope and head.                                                         *)
(*                                                                         *)
(* Request threads read the clock before they queue for the table's lock,  *)
(* so they may enter the critical section in any order of their times.     *)
(* The reload path stores the two limits one after the other, outside the  *)
(* lock, between any two steps of the critical section.  The process may   *)
(* restart with an empty table.                                            *)
(*                                                                         *)
(* A fingerprint stands for its message (SHA-256 without collisions), a    *)
(* key for (scope, fingerprints of the first two messages), and a history  *)
(* for the messages after those two.                                       *)
(***************************************************************************)
EXTENDS Integers, Sequences, FiniteSets, SequencesExt

CONSTANTS
    Key,            \* (credential scope, head) pairs
    History,        \* message histories: sequences of messages after the head
    Thread,         \* request threads
    Absent,         \* no chain in the table
    Capacity,       \* values of stitch.capacity
    Ttl,            \* values of stitch.ttl_ms
    SweepInterval,  \* SWEEP_INTERVAL_MS
    MaxTime,        \* bound on the clock
    MaxSessions,    \* bound on the sessions issued before the last arrivals
    MaxReloads,     \* bound on the calls of set_limits
    MaxRestarts     \* bound on the restarts

ASSUME StitchAssumption ==
    /\ IsFiniteSet(Key)
    /\ Capacity \subseteq Nat \ {0}
    /\ Ttl \subseteq Nat \ {0}
    /\ SweepInterval \in Nat \ {0}
    /\ MaxTime \in Nat /\ MaxSessions \in Nat
    /\ MaxReloads \in Nat /\ MaxRestarts \in Nat

SessionId == [salt : Nat, nonce : Nat]
ChainState == [chain : History, session : SessionId, lastUsed : Nat]

ASSUME AbsentAssumption == Absent \notin ChainState

VARIABLES
    states,         \* the table: [Key -> ChainState or Absent]
    capacity, ttl,  \* the hot limits
    nextNonce,
    salt,           \* of this process
    expired, evicted,
    lastSweep, sweeps,
    clock,          \* the monotonic clock
    newTtl,         \* the ttl a reload between its two stores will store
    reloads,
    pc, req,        \* per thread: where it is, and its request
    bound,          \* the capacity the eviction loop under way has read, else 0
    found,          \* history: what that loop found
    issued,         \* history: the latest request of every session ever returned
    marks           \* history: the sessions returned with a breakpoint mark

limitVars   == <<capacity, ttl, newTtl, reloads>>
counterVars == <<expired, evicted, lastSweep, sweeps>>
sessionVars == <<nextNonce, salt, issued, marks>>
loopVars    == <<bound, found>>
vars == <<states, limitVars, counterVars, sessionVars, loopVars, clock, pc, req>>

Request == [key : Key, fps : History, now : Nat]
Table == [Key -> ChainState \cup {Absent}]
Empty == [k \in Key |-> Absent]
Live == {k \in Key : states[k] # Absent}

\* No eviction loop is under way.
NoLoop == [table |-> Empty, evicted |-> 0]
\* The chains that the loop under way has removed.
Gone == {k \in Key : found.table[k] # Absent /\ states[k] = Absent}

\* with_limits: an empty table.
Init ==
    /\ states = Empty
    /\ capacity \in Capacity /\ ttl \in Ttl
    /\ newTtl = 0 /\ reloads = 0
    /\ nextNonce = 0 /\ salt = 0
    /\ expired = 0 /\ evicted = 0
    /\ lastSweep = 0 /\ sweeps = 0
    /\ clock = 0
    /\ pc = [t \in Thread |-> "idle"]
    /\ req = [t \in Thread |-> Absent]
    /\ bound = 0 /\ found = NoLoop
    /\ issued = {} /\ marks = {}

-----------------------------------------------------------------------------
(* Expressions of the code, each after the faulty form it is checked       *)
(* against.                                                                *)

\* new_session_id hashes salt, seed and nonce; salt and nonce tell any two
\* calls apart, so the seed is left out.
NewSessionIdUnsalted == [salt |-> 0, nonce |-> nextNonce]
NewSessionId == [salt |-> salt, nonce |-> nextNonce]

\* Instant::duration_since saturates: a time taken before last_used has age 0.
Age(k, now) ==
    IF now >= states[k].lastUsed THEN now - states[k].lastUsed ELSE 0

\* The sweep cadence, on the request's own (possibly late) time.
SweepDue(now) == now - lastSweep >= SweepInterval

\* The lookup's own expiry check.
DeadOnLookupNever(k, now) == FALSE
DeadOnLookup(k, now) == k \in Live /\ Age(k, now) >= ttl

\* Prefix extension: the stored chain is a prefix of the request's history.
Extends(k, fps) == IsPrefix(states[k].chain, fps)

\* The condition of the eviction loop, tested before every removal; the faulty
\* form is that of an `if`.
FullOnce == Cardinality(Live) >= bound /\ Gone = {}
Full == Cardinality(Live) >= bound

\* min_by_key on last_used: any of the least recently used chains.
LruAny == Live
LruKeys == {k \in Live : \A j \in Live : states[k].lastUsed <= states[j].lastUsed}

-----------------------------------------------------------------------------
(* assign, on a request thread.                                            *)

\* The mutex of the table is held by a thread in its critical section.
Inside == {"lookup", "insert", "evict"}
Locked == \E t \in Thread : pc[t] \in Inside

\* Fingerprints and the time are taken before the lock.
Arrive(t) ==
    /\ pc[t] = "idle" /\ Cardinality(issued) < MaxSessions
    /\ \E k \in Key, f \in History :
         req' = [req EXCEPT ![t] = [key |-> k, fps |-> f, now |-> clock]]
    /\ pc' = [pc EXCEPT ![t] = "waiting"]
    /\ UNCHANGED <<states, limitVars, counterVars, sessionVars, loopVars, clock>>

\* The lock is taken; the amortized sweep drops every expired chain.
Sweep(t) ==
    /\ pc[t] = "waiting" /\ ~Locked
    /\ pc' = [pc EXCEPT ![t] = "lookup"]
    /\ LET now  == req[t].now
           dead == {k \in Live : Age(k, now) >= ttl}
       IN  IF SweepDue(now)
             THEN /\ states' = [k \in Key |-> IF k \in dead THEN Absent ELSE states[k]]
                  /\ expired' = expired + Cardinality(dead)
                  /\ lastSweep' = now
                  /\ sweeps' = sweeps + 1
             ELSE UNCHANGED <<states, expired, lastSweep, sweeps>>
    /\ UNCHANGED <<limitVars, sessionVars, evicted, loopVars, clock, req>>

\* The table entry of k after a request with history fps at time now.
Entry(k, id, t) ==
    states' = [states EXCEPT ![k] = [chain |-> req[t].fps, session |-> id,
                                     lastUsed |-> req[t].now]]

\* A request of a new session is recorded and its nonce is spent.
IssueKeepsNonce(t, id) ==
    /\ UNCHANGED nextNonce
    /\ issued' = issued \cup {[id |-> id, key |-> req[t].key, fps |-> req[t].fps]}
Issue(t, id) ==
    /\ nextNonce' = nextNonce + 1
    /\ issued' = issued \cup {[id |-> id, key |-> req[t].key, fps |-> req[t].fps]}

\* The lock is released and the session returned.
Return(t) ==
    /\ pc' = [pc EXCEPT ![t] = "idle"]
    /\ req' = [req EXCEPT ![t] = Absent]

\* A live chain that is a prefix of the request: same session.
Extend(t) ==
    LET k  == req[t].key
        id == states[k].session
    IN  /\ pc[t] = "lookup" /\ k \in Live /\ ~DeadOnLookup(k, req[t].now)
        /\ Extends(k, req[t].fps)
        /\ Entry(k, id, t)
        /\ issued' = {e \in issued : e.id # id}
                       \cup {[id |-> id, key |-> k, fps |-> req[t].fps]}
        /\ Return(t)
        /\ UNCHANGED <<limitVars, counterVars, nextNonce, salt, marks, loopVars,
                       clock>>

\* Same head, divergent or shortened history: a new segment with a mark.
Break(t) ==
    LET k  == req[t].key
        id == NewSessionId
    IN  /\ pc[t] = "lookup" /\ k \in Live /\ ~DeadOnLookup(k, req[t].now)
        /\ ~Extends(k, req[t].fps)
        /\ Entry(k, id, t)
        /\ Issue(t, id)
        /\ marks' = marks \cup {id}
        /\ Return(t)
        /\ UNCHANGED <<limitVars, counterVars, salt, loopVars, clock>>

\* No chain, or one that expired (removed here): go on to insert.
Miss(t) ==
    LET k == req[t].key
    IN  /\ pc[t] = "lookup"
        /\ k \notin Live \/ DeadOnLookup(k, req[t].now)
        /\ states' = [states EXCEPT ![k] = Absent]
        /\ pc' = [pc EXCEPT ![t] = "insert"]
        /\ UNCHANGED <<limitVars, counterVars, sessionVars, loopVars, clock, req>>

\* The capacity is read once, before the loop.
ReadCapacity(t) ==
    /\ pc[t] = "insert"
    /\ pc' = [pc EXCEPT ![t] = "evict"]
    /\ bound' = capacity
    /\ found' = [table |-> states, evicted |-> evicted]
    /\ UNCHANGED <<states, limitVars, counterVars, sessionVars, clock, req>>

\* One round of the loop: the table is full, one chain makes room.
Evict(t) ==
    /\ pc[t] = "evict" /\ Full
    /\ \E k \in LruKeys : states' = [states EXCEPT ![k] = Absent]
    /\ evicted' = evicted + 1
    /\ UNCHANGED <<limitVars, expired, lastSweep, sweeps, sessionVars, loopVars,
                   clock, pc, req>>

\* The loop is over: a new chain is inserted, without a mark.
Insert(t) ==
    LET id == NewSessionId
    IN  /\ pc[t] = "evict" /\ ~Full
        /\ Entry(req[t].key, id, t)
        /\ Issue(t, id)
        /\ Return(t)
        /\ bound' = 0 /\ found' = NoLoop
        /\ UNCHANGED <<limitVars, counterVars, salt, marks, clock>>

Assign(t) == \/ Arrive(t) \/ Sweep(t) \/ Extend(t) \/ Break(t) \/ Miss(t)
             \/ ReadCapacity(t) \/ Evict(t) \/ Insert(t)

-----------------------------------------------------------------------------
(* The environment.                                                        *)

\* set_limits stores the capacity, then the ttl.
SetCapacity ==
    /\ newTtl = 0 /\ reloads < MaxReloads
    /\ capacity' \in Capacity /\ newTtl' \in Ttl
    /\ reloads' = reloads + 1
    /\ UNCHANGED <<ttl, states, counterVars, sessionVars, loopVars, clock, pc,
                   req>>

SetTtl ==
    /\ newTtl # 0
    /\ ttl' = newTtl /\ newTtl' = 0
    /\ UNCHANGED <<capacity, reloads, states, counterVars, sessionVars, loopVars,
                   clock, pc, req>>

Tick ==
    /\ clock < MaxTime
    /\ clock' = clock + 1
    /\ UNCHANGED <<states, limitVars, counterVars, sessionVars, loopVars, pc, req>>

\* A restarted process has an empty table, fresh counters and another salt;
\* the traces already exported under the old ids remain.
Restart ==
    /\ salt < MaxRestarts
    /\ salt' = salt + 1
    /\ states' = Empty
    /\ bound' = 0 /\ found' = NoLoop
    /\ nextNonce' = 0 /\ clock' = 0
    /\ expired' = 0 /\ evicted' = 0
    /\ lastSweep' = 0 /\ sweeps' = 0
    /\ capacity' \in Capacity /\ ttl' \in Ttl /\ newTtl' = 0
    /\ pc' = [t \in Thread |-> "idle"]
    /\ req' = [t \in Thread |-> Absent]
    /\ UNCHANGED <<reloads, issued, marks>>

Next ==
    \/ \E t \in Thread : Assign(t)
    \/ SetCapacity \/ SetTtl \/ Tick \/ Restart

Spec == Init /\ [][Next]_vars

-----------------------------------------------------------------------------
(* Properties.                                                             *)

\* The types of the state.
TypeOK ==
    /\ states \in Table
    /\ bound \in Capacity \cup {0}
    /\ found \in [table : Table, evicted : Nat]
    /\ capacity \in Capacity /\ ttl \in Ttl /\ newTtl \in Ttl \cup {0}
    /\ reloads \in 0..MaxReloads
    /\ nextNonce \in Nat /\ salt \in 0..MaxRestarts
    /\ expired \in Nat /\ evicted \in Nat
    /\ lastSweep \in Nat /\ sweeps \in Nat /\ clock \in 0..MaxTime
    /\ pc \in [Thread -> {"idle", "waiting"} \cup Inside]
    /\ req \in [Thread -> Request \cup {Absent}]
    /\ issued \subseteq [id : SessionId, key : Key, fps : History]
    /\ marks \subseteq SessionId

\* A session id is one trajectory: it is never returned for two (scope, head)
\* keys, nor issued twice, across expiry, eviction, breakpoints and restarts.
SessionIsOneTrajectory ==
    \A e, f \in issued : e.id = f.id => e = f

\* A live chain carries the session of its own key, at the history last
\* returned under it: the next request is matched against that one.
LiveChainIsLatest ==
    \A k \in Live :
        [id |-> states[k].session, key |-> k, fps |-> states[k].chain] \in issued

\* "A reopened chain (after eviction/TTL) never silently merges with its former
\* trajectory": the stitcher is the map of SessionMap.  Whatever the order of
\* threads, times and limits, ids are fresh across restarts, a session is only
\* ever extended, a retry stays in it, a mark means a diverged history, and a
\* session that no chain carries is never carried again.
Sessions == INSTANCE SessionMap WITH
    open <- {[id |-> states[k].session, key |-> k, fps |-> states[k].chain] : k \in Live}
ImplementsSessions == Sessions!Spec

\* "An expired chain is never extended": when a session continues, its chain
\* was younger than the current ttl at the request's time.
ExpiredNeverExtended ==
    [][\A k \in Live \cap Live', t \in Thread :
          pc[t] = "lookup" /\ pc'[t] = "idle" /\ req[t].key = k
            /\ states'[k].session = states[k].session
          => Age(k, req[t].now) < ttl]_vars

\* "The bound holds after the next insert": when the table grows, it is within
\* the capacity that was read, also after a reload shrank it by several chains
\* or moved it again while the loop ran; since the loop began it has removed,
\* and counted, no more chains than that takes, and none that was used more
\* recently than one it kept.
EvictionExact ==
    [][~(Live' \subseteq Live) =>
         /\ Cardinality(Live') <= bound
         /\ Gone # {} => Cardinality(Live') = bound
         /\ evicted' = found.evicted + Cardinality(Gone)
         /\ \A k \in Gone, j \in Live :
              found.table[k].lastUsed <= states[j].lastUsed]_vars

\* What strengthens SessionIsOneTrajectory: ids of this process carry its salt
\* and a nonce already spent, and live chains belong to this process.
NonceInv ==
    \A e \in issued : /\ e.id.salt <= salt
                      /\ e.id.salt = salt => e.id.nonce < nextNonce

\* The lock: one thread is inside, it has a request, and from its miss to its
\* insert the table has no chain of its key.
LockInv ==
    /\ \A t \in Thread : pc[t] # "idle" => req[t] \in Request
    /\ \A t, u \in Thread :
         {pc[t], pc[u]} \subseteq Inside => t = u
    /\ \A t \in Thread : pc[t] \in {"insert", "evict"} => req[t].key \notin Live

\* What strengthens EvictionExact, round by round: the chains the loop has not
\* removed are as it found them and none is staler than one it has removed;
\* the removed ones are counted; and the last of them left a table that was
\* full before it.
EvictInv ==
    \A t \in Thread : pc[t] = "evict" =>
        /\ bound \in Capacity
        /\ \A k \in Live : states[k] = found.table[k]
        /\ evicted = found.evicted + Cardinality(Gone)
        /\ Gone # {} => Cardinality(Live) + 1 >= bound
        /\ \A k \in Gone, j \in Live :
             found.table[k].lastUsed <= states[j].lastUsed

SessionInv == TypeOK /\ LockInv /\ SessionIsOneTrajectory /\ LiveChainIsLatest
              /\ NonceInv /\ EvictInv

=============================================================================
