------------------------ MODULE PrefixStitcherProofs ------------------------
(***************************************************************************)
(* Proofs about PrefixStitcher for every finite set of keys, all histories,*)
(* any number of threads, every set of positive capacities and ttls, and   *)
(* any number of reloads and restarts.                                     *)
(***************************************************************************)
EXTENDS PrefixStitcher, FiniteSetTheorems, TLAPS

USE DEF NewSessionId, Inside

\* Any set of keys is finite, so that what a sweep or an eviction removes can be
\* counted.
LEMMA KeysFinite ==
    ASSUME NEW S \in SUBSET Key
    PROVE  IsFiniteSet(S) /\ Cardinality(S) \in Nat
  BY StitchAssumption, FS_Subset, FS_CardinalityType

-----------------------------------------------------------------------------
(* The invariant, one lemma for each action that can disturb it.           *)

LEMMA InitInv == Init => SessionInv
  <1>. SUFFICES ASSUME Init PROVE SessionInv
    OBVIOUS
  <1>1. TypeOK
    BY StitchAssumption DEF Init, TypeOK, Table, Empty, NoLoop
  <1>2. Live = {}
    BY DEF Init, Live, Empty
  <1>. QED BY <1>1, <1>2 DEF Init, SessionInv, LockInv, SessionIsOneTrajectory,
                  LiveChainIsLatest, NonceInv, EvictInv

LEMMA ArriveInv ==
    ASSUME SessionInv, NEW t \in Thread, Arrive(t)
    PROVE  SessionInv'
  <1>. USE DEF SessionInv, Arrive, limitVars, counterVars, sessionVars, loopVars
  <1>1. TypeOK'
    BY DEF TypeOK, Table, Request
  <1>2. LockInv'
    BY <1>1 DEF LockInv, TypeOK, Request, Live
  <1>3. EvictInv'
    BY DEF EvictInv, TypeOK, Live, Gone
  <1>. QED BY <1>1, <1>2, <1>3 DEF SessionIsOneTrajectory, LiveChainIsLatest, NonceInv,
                  Live

LEMMA SweepInv ==
    ASSUME SessionInv, NEW t \in Thread, Sweep(t)
    PROVE  SessionInv'
  <1>. USE DEF SessionInv, limitVars, sessionVars, loopVars
  <1>0. req[t] \in Request
    BY DEF Sweep, LockInv, TypeOK
  <1>1. /\ TypeOK' /\ Live' \subseteq Live
        /\ \A k \in Live' : states'[k] = states[k]
    <2>. DEFINE dead == {k \in Live : Age(k, req[t].now) >= ttl}
    <2>0. Cardinality(dead) \in Nat
      BY KeysFinite DEF Live
    <2>1. CASE SweepDue(req[t].now)
      <3>. HIDE DEF dead
      <3>1. states' = [k \in Key |-> IF k \in dead THEN Absent ELSE states[k]]
            /\ expired' = expired + Cardinality(dead)
        BY <2>1 DEF Sweep, dead
      <3>. QED BY <1>0, <2>0, <2>1, <3>1 DEF Sweep, TypeOK, Table, Request, Live
    <2>2. CASE ~SweepDue(req[t].now)
      BY <2>2 DEF Sweep, TypeOK, Table, Live
    <2>. QED BY <2>1, <2>2
  <1>2. LockInv'
    BY <1>1 DEF Sweep, LockInv, TypeOK, Locked
  <1>3. EvictInv'
    <2>1. \A u \in Thread : pc'[u] # "evict"
      BY DEF Sweep, Locked, TypeOK
    <2>. QED BY <2>1 DEF EvictInv
  <1>. QED BY <1>1, <1>2, <1>3 DEF Sweep, SessionIsOneTrajectory, LiveChainIsLatest,
                  NonceInv

\* What a request that returns from its lookup or insert finds and leaves: its
\* entry is the one of its key, and no other key loses or changes its own.
LEMMA LookupKey ==
    ASSUME SessionInv, NEW t \in Thread, pc[t] \in Inside
    PROVE  /\ req[t].key \in Key /\ req[t].fps \in History /\ req[t].now \in Nat
           /\ \A k \in Live : states[k] \in ChainState
           /\ \A u \in Thread \ {t} : pc[u] \notin Inside
  BY DEF SessionInv, LockInv, TypeOK, Table, Request, Live

\* A thread that leaves the lock leaves no loop behind.
LEMMA ReturnEndsLoop ==
    ASSUME SessionInv, NEW t \in Thread, pc[t] \in Inside, Return(t)
    PROVE  EvictInv'
  <1>1. \A u \in Thread : pc'[u] # "evict"
    BY LookupKey DEF Return, SessionInv, TypeOK
  <1>. QED BY <1>1 DEF EvictInv

\* An id made of this process' salt and its next nonce was never returned before.
LEMMA FreshId ==
    ASSUME SessionInv
    PROVE  NewSessionId \in SessionId /\ \A e \in issued : e.id # NewSessionId
  <1>1. NewSessionId \in SessionId
    BY StitchAssumption DEF SessionInv, TypeOK, SessionId
  <1>2. ASSUME NEW e \in issued PROVE e.id # NewSessionId
    <2>1. e.id.salt = salt => e.id.nonce < nextNonce
      BY DEF SessionInv, NonceInv
    <2>2. nextNonce \in Nat
      BY DEF SessionInv, TypeOK
    <2>. QED BY <2>1, <2>2
  <1>. QED BY <1>1, <1>2

LEMMA ExtendInv ==
    ASSUME SessionInv, NEW t \in Thread, Extend(t)
    PROVE  SessionInv'
  <1>. DEFINE k == req[t].key
              id == states[k].session
              new == [id |-> id, key |-> k, fps |-> req[t].fps]
  <1>. USE DEF limitVars, counterVars, loopVars
  <1>0. /\ k \in Key /\ k \in Live /\ states[k] \in ChainState
        /\ req[t].fps \in History /\ req[t].now \in Nat
        /\ \A u \in Thread \ {t} : pc[u] \notin Inside
        /\ [id |-> id, key |-> k, fps |-> states[k].chain] \in issued
    BY LookupKey DEF Extend, SessionInv, LiveChainIsLatest
  <1>1. /\ states' = [states EXCEPT ![k] = [chain |-> req[t].fps, session |-> id,
                                            lastUsed |-> req[t].now]]
        /\ issued' = {e \in issued : e.id # id} \cup {new}
        /\ pc' = [pc EXCEPT ![t] = "idle"] /\ req' = [req EXCEPT ![t] = Absent]
        /\ UNCHANGED <<limitVars, counterVars, nextNonce, salt, marks, loopVars, clock>>
    BY DEF Extend, Entry, Return
  <1>2. TypeOK'
    <2>1. states' \in Table
      BY <1>0, <1>1 DEF SessionInv, TypeOK, Table, ChainState
    <2>2. issued' \subseteq [id : SessionId, key : Key, fps : History]
      BY <1>0, <1>1 DEF SessionInv, TypeOK, ChainState
    <2>. QED BY <1>1, <2>1, <2>2 DEF SessionInv, TypeOK
  <1>3. Live' = Live
    BY <1>0, <1>1, AbsentAssumption DEF Live, ChainState, SessionInv, TypeOK, Table
  <1>4. LockInv'
    BY <1>0, <1>1, <1>3 DEF SessionInv, LockInv, TypeOK
  <1>5. SessionIsOneTrajectory'
    BY <1>1 DEF SessionInv, SessionIsOneTrajectory
  <1>6. LiveChainIsLatest'
    <2>. SUFFICES ASSUME NEW j \in Live
                  PROVE  [id |-> states'[j].session, key |-> j,
                          fps |-> states'[j].chain] \in issued'
      BY <1>3 DEF LiveChainIsLatest
    <2>1. CASE j = k
      BY <1>0, <1>1, <2>1 DEF SessionInv, TypeOK, Table
    <2>2. CASE j # k
      <3>. DEFINE old == [id |-> states[j].session, key |-> j, fps |-> states[j].chain]
      <3>1. old \in issued /\ states'[j] = states[j]
        BY <1>1, <2>2 DEF SessionInv, LiveChainIsLatest, TypeOK, Table, Live
      <3>2. old.id # id
        BY <1>0, <2>2, <3>1 DEF SessionInv, SessionIsOneTrajectory
      <3>. QED BY <1>1, <3>1, <3>2
    <2>. QED BY <2>1, <2>2
  <1>7. NonceInv'
    BY <1>0, <1>1 DEF SessionInv, NonceInv
  <1>8. EvictInv'
    BY ReturnEndsLoop DEF Extend
  <1>. QED BY <1>2, <1>4, <1>5, <1>6, <1>7, <1>8 DEF SessionInv

\* A chain under a fresh id, in place of what its key had.
LEMMA IssueInv ==
    ASSUME SessionInv, NEW t \in Thread, pc[t] \in Inside,
           Entry(req[t].key, NewSessionId, t),
           Issue(t, NewSessionId), Return(t), marks' \subseteq marks \cup {NewSessionId},
           bound' \in Capacity \cup {0}, found' \in [table : Table, evicted : Nat],
           UNCHANGED <<limitVars, counterVars, salt, clock>>
    PROVE  /\ SessionInv' /\ Live' = Live \cup {req[t].key}
           /\ \A j \in Live \ {req[t].key} : states'[j] = states[j]
           /\ states'[req[t].key] = [chain |-> req[t].fps, session |-> NewSessionId,
                                     lastUsed |-> req[t].now]
  <1>. DEFINE k == req[t].key
              new == [id |-> NewSessionId, key |-> k, fps |-> req[t].fps]
              entry == [chain |-> req[t].fps, session |-> NewSessionId,
                        lastUsed |-> req[t].now]
  <1>. USE DEF limitVars, counterVars
  <1>0. /\ k \in Key /\ req[t].fps \in History /\ req[t].now \in Nat
        /\ \A u \in Thread \ {t} : pc[u] \notin Inside
        /\ NewSessionId \in SessionId /\ \A e \in issued : e.id # NewSessionId
    BY LookupKey, FreshId
  <1>1. /\ issued' = issued \cup {new} /\ nextNonce' = nextNonce + 1
        /\ pc' = [pc EXCEPT ![t] = "idle"] /\ req' = [req EXCEPT ![t] = Absent]
        /\ states' = [states EXCEPT ![k] = entry]
    BY DEF Issue, Return, Entry
  <1>2. TypeOK'
    <2>1. states' \in Table
      BY <1>0, <1>1 DEF SessionInv, TypeOK, Table, ChainState
    <2>2. issued' \subseteq [id : SessionId, key : Key, fps : History]
      BY <1>0, <1>1 DEF SessionInv, TypeOK
    <2>. QED BY <1>0, <1>1, <2>1, <2>2 DEF SessionInv, TypeOK
  <1>3. /\ Live' = Live \cup {k} /\ states'[k] = entry
        /\ \A j \in Live \ {k} : states'[j] = states[j]
    BY <1>0, <1>1, AbsentAssumption DEF Live, ChainState, SessionInv, TypeOK, Table
  <1>4. LockInv'
    BY <1>0, <1>1 DEF SessionInv, LockInv, TypeOK
  <1>5. SessionIsOneTrajectory'
    BY <1>0, <1>1 DEF SessionInv, SessionIsOneTrajectory
  <1>6. LiveChainIsLatest'
    BY <1>0, <1>1, <1>3 DEF SessionInv, LiveChainIsLatest
  <1>7. NonceInv'
    BY <1>1, StitchAssumption DEF SessionInv, NonceInv, TypeOK, SessionId
  <1>8. EvictInv'
    BY ReturnEndsLoop
  <1>. QED BY <1>2, <1>3, <1>4, <1>5, <1>6, <1>7, <1>8 DEF SessionInv

LEMMA BreakInv ==
    ASSUME SessionInv, NEW t \in Thread, Break(t)
    PROVE  SessionInv' /\ Live' = Live
  <1>1. /\ pc[t] \in Inside /\ req[t].key \in Live
        /\ Entry(req[t].key, NewSessionId, t)
        /\ Issue(t, NewSessionId) /\ Return(t) /\ marks' = marks \cup {NewSessionId}
        /\ bound' \in Capacity \cup {0} /\ found' \in [table : Table, evicted : Nat]
        /\ UNCHANGED <<limitVars, counterVars, salt, clock>>
    BY DEF Break, loopVars, SessionInv, TypeOK
  <1>2. SessionInv' /\ Live' = Live \cup {req[t].key}
    BY <1>1, IssueInv
  <1>. QED BY <1>1, <1>2

LEMMA MissInv ==
    ASSUME SessionInv, NEW t \in Thread, Miss(t)
    PROVE  SessionInv' /\ Live' = Live \ {req[t].key}
  <1>. USE DEF SessionInv, Miss, limitVars, counterVars, sessionVars, loopVars
  <1>0. /\ req[t].key \in Key
        /\ \A u \in Thread \ {t} : pc[u] \notin Inside
    BY LookupKey
  <1>1. TypeOK'
    BY DEF TypeOK, Table
  <1>2. Live' = Live \ {req[t].key} /\ \A k \in Live' : states'[k] = states[k]
    BY <1>0, AbsentAssumption DEF Live, TypeOK, Table
  <1>3. LockInv'
    BY <1>0, <1>2 DEF LockInv, TypeOK
  <1>4. EvictInv'
    <2>1. \A u \in Thread : pc'[u] # "evict"
      BY <1>0 DEF TypeOK
    <2>. QED BY <2>1 DEF EvictInv
  <1>. QED BY <1>1, <1>2, <1>3, <1>4
           DEF SessionIsOneTrajectory, LiveChainIsLatest, NonceInv

\* The loop begins: nothing is gone yet.
LEMMA ReadCapacityInv ==
    ASSUME SessionInv, NEW t \in Thread, ReadCapacity(t)
    PROVE  SessionInv' /\ UNCHANGED <<states, evicted, sessionVars>>
  <1>. USE DEF SessionInv, ReadCapacity, limitVars, counterVars, sessionVars
  <1>0. \A u \in Thread \ {t} : pc[u] \notin Inside
    BY LookupKey
  <1>1. TypeOK'
    BY DEF TypeOK
  <1>2. LockInv'
    BY <1>0 DEF LockInv, TypeOK, Live
  <1>3. Gone' = {} /\ Cardinality({}) = 0
    BY FS_EmptySet DEF Gone
  <1>4. EvictInv'
    BY <1>3 DEF EvictInv, TypeOK, Live
  <1>. QED BY <1>1, <1>2, <1>4 DEF SessionIsOneTrajectory, LiveChainIsLatest, NonceInv,
                  Live

\* A round of the loop: one of the least recently used chains is gone, and counted.
LEMMA EvictRound ==
    ASSUME SessionInv, NEW t \in Thread, Evict(t)
    PROVE  /\ SessionInv' /\ Live' \subseteq Live
           /\ \A j \in Live' : states'[j] = states[j]
  <1>. USE DEF limitVars, sessionVars, loopVars
  <1>1. PICK k \in LruKeys : states' = [states EXCEPT ![k] = Absent]
    BY DEF Evict
  <1>2. /\ k \in Key /\ k \in Live
        /\ \A j \in Live : states[k].lastUsed <= states[j].lastUsed
    BY DEF LruKeys, Live
  <1>3. /\ Live' = Live \ {k} /\ \A j \in Live' : states'[j] = states[j]
    BY <1>1, <1>2 DEF Live, SessionInv, TypeOK, Table
  <1>4. /\ pc[t] = "evict" /\ evicted' = evicted + 1
        /\ \A u \in Thread \ {t} : pc[u] \notin Inside
        /\ UNCHANGED <<bound, found, pc>>
    BY LookupKey DEF Evict
  <1>5. TypeOK'
    <2>1. states' \in Table
      BY <1>1 DEF SessionInv, TypeOK, Table
    <2>2. evicted' \in Nat
      BY <1>4 DEF SessionInv, TypeOK
    <2>. QED BY <2>1, <2>2 DEF Evict, SessionInv, TypeOK
  <1>6. LockInv'
    BY <1>3 DEF Evict, SessionInv, LockInv
  <1>7. EvictInv'
    <2>1. /\ bound \in Capacity
          /\ \A j \in Live : states[j] = found.table[j]
          /\ evicted = found.evicted + Cardinality(Gone)
          /\ \A g \in Gone, j \in Live : found.table[g].lastUsed <= states[j].lastUsed
      BY <1>4 DEF SessionInv, EvictInv
    <2>2. k \notin Gone /\ Gone' = Gone \cup {k}
      BY <1>1, <1>2, <1>4, <2>1 DEF Gone, Live, SessionInv, TypeOK, Table
    <2>3. /\ IsFiniteSet(Gone) /\ IsFiniteSet(Live)
          /\ Cardinality(Gone) \in Nat /\ Cardinality(Live) \in Nat
      BY KeysFinite DEF Gone, Live
    <2>4. Cardinality(Gone') = Cardinality(Gone) + 1
      BY <2>2, <2>3, FS_AddElement
    <2>5. Cardinality(Live') + 1 = Cardinality(Live)
      <3>1. Cardinality(Live \ {k}) = Cardinality(Live) - 1
        BY <1>2, <2>3, FS_RemoveElement
      <3>. QED BY <1>3, <2>3, <3>1
    <2>6. Cardinality(Live') + 1 >= bound
      BY <2>5 DEF Evict, Full
    <2>7. evicted' = found.evicted + Cardinality(Gone')
      <3>1. found.evicted \in Nat
        BY DEF SessionInv, TypeOK
      <3>. QED BY <1>4, <2>1, <2>3, <2>4, <3>1
    <2>8. \A g \in Gone', j \in Live' : found.table[g].lastUsed <= states'[j].lastUsed
      BY <1>2, <1>3, <2>1, <2>2
    <2>9. \A j \in Live' : states'[j] = found.table[j]
      BY <1>3, <2>1
    <2>. QED BY <1>4, <2>1, <2>6, <2>7, <2>8, <2>9 DEF EvictInv
  <1>8. UNCHANGED <<issued, salt, nextNonce>>
    BY DEF Evict
  <1>9. SessionIsOneTrajectory' /\ LiveChainIsLatest' /\ NonceInv'
    BY <1>3, <1>8 DEF SessionInv, SessionIsOneTrajectory, LiveChainIsLatest, NonceInv
  <1>. QED BY <1>3, <1>5, <1>6, <1>7, <1>9 DEF SessionInv

LEMMA InsertInv ==
    ASSUME SessionInv, NEW t \in Thread, Insert(t)
    PROVE  /\ SessionInv' /\ Live' = Live \cup {req[t].key}
           /\ \A j \in Live \ {req[t].key} : states'[j] = states[j]
           /\ states'[req[t].key] = [chain |-> req[t].fps, session |-> NewSessionId,
                                     lastUsed |-> req[t].now]
  <1>1. NoLoop \in [table : Table, evicted : Nat]
    BY DEF NoLoop, Empty, Table
  <1>2. /\ pc[t] \in Inside /\ Entry(req[t].key, NewSessionId, t)
        /\ Issue(t, NewSessionId) /\ Return(t) /\ marks' \subseteq marks \cup {NewSessionId}
        /\ bound' \in Capacity \cup {0} /\ found' \in [table : Table, evicted : Nat]
        /\ UNCHANGED <<limitVars, counterVars, salt, clock>>
    BY <1>1 DEF Insert
  <1>. QED BY <1>2, IssueInv

\* The reload stores its limits, the clock advances: the table is left alone.
LEMMA EnvironmentInv ==
    ASSUME SessionInv, SetCapacity \/ SetTtl \/ Tick
    PROVE  SessionInv' /\ UNCHANGED <<states, evicted, pc, sessionVars>>
  <1>. USE DEF SetCapacity, SetTtl, Tick, limitVars, counterVars, sessionVars, loopVars
  <1>1. TypeOK'
    BY StitchAssumption DEF SessionInv, TypeOK
  <1>2. UNCHANGED <<states, evicted, pc, req, sessionVars, loopVars>>
    OBVIOUS
  <1>3. EvictInv'
    BY <1>2 DEF SessionInv, EvictInv, Live, Gone
  <1>. QED BY <1>1, <1>2, <1>3 DEF SessionInv, LockInv, SessionIsOneTrajectory,
                  LiveChainIsLatest, NonceInv, Live

LEMMA RestartInv ==
    ASSUME SessionInv, Restart
    PROVE  SessionInv' /\ Live' = {}
  <1>. USE DEF SessionInv, Restart
  <1>1. TypeOK'
    BY StitchAssumption DEF TypeOK, Table, Empty, NoLoop
  <1>2. Live' = {}
    BY DEF Live, Empty
  <1>3. NonceInv'
    BY StitchAssumption DEF NonceInv, TypeOK, SessionId
  <1>. QED BY <1>1, <1>2, <1>3 DEF LockInv, SessionIsOneTrajectory, LiveChainIsLatest,
                  EvictInv

LEMMA StutterInv == SessionInv /\ UNCHANGED vars => SessionInv'
  <1>. SUFFICES ASSUME SessionInv, UNCHANGED vars PROVE SessionInv'
    OBVIOUS
  <1>. USE DEF SessionInv, vars, limitVars, counterVars, sessionVars, loopVars
  <1>1. TypeOK'
    BY DEF TypeOK
  <1>2. LockInv' /\ SessionIsOneTrajectory' /\ LiveChainIsLatest' /\ NonceInv'
    BY DEF LockInv, SessionIsOneTrajectory, LiveChainIsLatest, NonceInv, Live
  <1>3. EvictInv'
    BY DEF EvictInv, Live, Gone
  <1>. QED BY <1>1, <1>2, <1>3

LEMMA StepInv == SessionInv /\ [Next]_vars => SessionInv'
  <1>. SUFFICES ASSUME SessionInv, [Next]_vars PROVE SessionInv'
    OBVIOUS
  <1>1. ASSUME NEW t \in Thread, Assign(t) PROVE SessionInv'
    BY <1>1, ArriveInv, SweepInv, ExtendInv, BreakInv, MissInv, ReadCapacityInv,
       EvictRound, InsertInv DEF Assign
  <1>. QED BY <1>1, EnvironmentInv, RestartInv, StutterInv DEF Next

\* A session id names one trajectory of one key, across threads, expiry, eviction,
\* breakpoints, reloads of the limits and restarts of the process.
THEOREM OneTrajectory == Spec => []SessionInv
  BY InitInv, StepInv, PTL DEF Spec

-----------------------------------------------------------------------------
(* What a step may never do.                                               *)

LEMMA StepNeverExtendsExpired ==
    SessionInv /\ [Next]_vars =>
       [\A k \in Live \cap Live', t \in Thread :
          pc[t] = "lookup" /\ pc'[t] = "idle" /\ req[t].key = k
            /\ states'[k].session = states[k].session
          => Age(k, req[t].now) < ttl]_vars
  <1>. SUFFICES ASSUME SessionInv, Next,
                       NEW k \in Live \cap Live', NEW t \in Thread,
                       pc[t] = "lookup", pc'[t] = "idle", req[t].key = k,
                       states'[k].session = states[k].session
                PROVE  Age(k, req[t].now) < ttl
    OBVIOUS
  <1>0. /\ states[k] \in ChainState /\ req[t].now \in Nat /\ k \in Key
        /\ Age(k, req[t].now) \in Int /\ ttl \in Int
    BY LookupKey, StitchAssumption DEF Age, ChainState, SessionInv, TypeOK
  <1>1. CASE Extend(t)
    BY <1>0, <1>1 DEF Extend, DeadOnLookup
  <1>2. CASE Break(t)
    <2>1. states[k].session # NewSessionId
      BY FreshId DEF SessionInv, LiveChainIsLatest
    <2>. QED BY <1>0, <1>2, <2>1 DEF Break, Entry, SessionInv, TypeOK, Table
  <1>3. ASSUME NEW u \in Thread, Assign(u), u # t PROVE FALSE
    BY <1>3 DEF Assign, Arrive, Sweep, Extend, Break, Miss, ReadCapacity, Evict, Insert,
                Return, SessionInv, TypeOK
  <1>4. CASE Arrive(t) \/ Sweep(t) \/ Miss(t) \/ ReadCapacity(t) \/ Evict(t) \/ Insert(t)
    BY <1>4 DEF Arrive, Sweep, Miss, ReadCapacity, Evict, Insert, SessionInv, TypeOK
  <1>5. CASE SetCapacity \/ SetTtl \/ Tick
    BY <1>5 DEF SetCapacity, SetTtl, Tick
  <1>6. CASE Restart
    BY <1>6, RestartInv
  <1>. QED BY <1>1, <1>2, <1>3, <1>4, <1>5, <1>6 DEF Next, Assign

\* An expired chain is never extended, although a sweep may leave it in the table,
\* times may reach the lock out of order and the ttl may change under a lookup.
THEOREM NeverExtendsExpired == Spec => ExpiredNeverExtended
  BY OneTrajectory, StepNeverExtendsExpired, PTL DEF Spec, ExpiredNeverExtended

\* What the rounds of the loop add up to when it is over.
LEMMA InsertFits ==
    ASSUME SessionInv, NEW t \in Thread, Insert(t)
    PROVE  /\ Cardinality(Live') <= bound
           /\ Gone # {} => Cardinality(Live') = bound
           /\ evicted' = found.evicted + Cardinality(Gone)
           /\ \A k \in Gone, j \in Live :
                found.table[k].lastUsed <= states[j].lastUsed
  <1>1. Live' = Live \cup {req[t].key} /\ req[t].key \notin Live
    BY InsertInv DEF SessionInv, LockInv, Insert
  <1>2. IsFiniteSet(Live) /\ Cardinality(Live) \in Nat
    BY KeysFinite DEF Live
  <1>3. Cardinality(Live') = Cardinality(Live) + 1
    BY <1>1, <1>2, FS_AddElement
  <1>4. /\ pc[t] = "evict" /\ ~(Cardinality(Live) >= bound)
        /\ evicted' = evicted
    BY DEF Insert, Full, counterVars
  <1>5. /\ bound \in Capacity
        /\ evicted = found.evicted + Cardinality(Gone)
        /\ Gone # {} => Cardinality(Live) + 1 >= bound
        /\ \A k \in Gone, j \in Live : found.table[k].lastUsed <= states[j].lastUsed
    BY <1>4 DEF SessionInv, EvictInv
  <1>6. bound \in Nat
    BY <1>5, StitchAssumption
  <1>. QED BY <1>2, <1>3, <1>4, <1>5, <1>6

\* Nothing else makes the table grow.
LEMMA OnlyInsertGrows ==
    ASSUME SessionInv, [Next]_vars, ~(Live' \subseteq Live)
    PROVE  \E t \in Thread : Insert(t)
  <1>. SUFFICES ASSUME ~(\E t \in Thread : Insert(t)) PROVE Live' \subseteq Live
    OBVIOUS
  <1>1. ASSUME NEW t \in Thread, Assign(t) PROVE Live' \subseteq Live
    <2>1. CASE Arrive(t) \/ ReadCapacity(t)
      BY <2>1 DEF Arrive, ReadCapacity, Live
    <2>2. CASE Sweep(t)
      BY <2>2 DEF Sweep, Live
    <2>3. CASE Extend(t)
      BY <2>3 DEF Extend, Entry, Live, SessionInv, TypeOK, Table
    <2>4. CASE Break(t) \/ Miss(t) \/ Evict(t)
      BY <2>4, BreakInv, MissInv, EvictRound
    <2>. QED BY <1>1, <2>1, <2>2, <2>3, <2>4 DEF Assign
  <1>2. CASE SetCapacity \/ SetTtl \/ Tick
    BY <1>2, EnvironmentInv DEF Live
  <1>3. CASE Restart
    BY <1>3, RestartInv
  <1>4. CASE UNCHANGED vars
    BY <1>4 DEF vars, Live
  <1>. QED BY <1>1, <1>2, <1>3, <1>4 DEF Next

LEMMA StepEvicts ==
    SessionInv /\ [Next]_vars =>
      [~(Live' \subseteq Live) =>
         /\ Cardinality(Live') <= bound
         /\ Gone # {} => Cardinality(Live') = bound
         /\ evicted' = found.evicted + Cardinality(Gone)
         /\ \A k \in Gone, j \in Live :
              found.table[k].lastUsed <= states[j].lastUsed]_vars
  BY InsertFits, OnlyInsertGrows

\* When the table grows it is within the capacity the loop read, also after a reload
\* shrank it by any number of chains, and the rounds of the loop have removed and
\* counted no more chains than that takes, and none fresher than one they kept.
THEOREM EvictsExactly == Spec => EvictionExact
  BY OneTrajectory, StepEvicts, PTL DEF Spec, EvictionExact

-----------------------------------------------------------------------------
(* The stitcher implements SessionMap: the live chains are its open        *)
(* sessions.                                                               *)

OpenSession(k) == [id |-> states[k].session, key |-> k, fps |-> states[k].chain]
Open == {[id |-> states[k].session, key |-> k, fps |-> states[k].chain] : k \in Live}

\* The chains that a step drops are closed.
LEMMA DropCloses ==
    ASSUME Live' \subseteq Live, \A k \in Live' : states'[k] = states[k]
    PROVE  Open' \subseteq Open
  BY DEF Open

LEMMA ExtendContinues ==
    ASSUME SessionInv, NEW t \in Thread, Extend(t)
    PROVE  Sessions!Next
  <1>. DEFINE k == req[t].key
              f == OpenSession(k)
              e == [id |-> states[k].session, key |-> k, fps |-> req[t].fps]
  <1>0. k \in Key /\ k \in Live /\ IsPrefix(states[k].chain, req[t].fps)
        /\ states[k] \in ChainState
    BY LookupKey DEF Extend, Extends
  <1>1. /\ states' = [states EXCEPT ![k] = [chain |-> req[t].fps,
                                            session |-> states[k].session,
                                            lastUsed |-> req[t].now]]
        /\ issued' = {x \in issued : x.id # states[k].session} \cup {e}
        /\ marks' = marks
    BY DEF Extend, Entry
  <1>2. Live' = Live
    BY <1>0, <1>1, LookupKey, AbsentAssumption
       DEF Extend, Live, ChainState, SessionInv, TypeOK
  <1>3. f \in Open /\ f \in issued
    BY <1>0 DEF OpenSession, Open, SessionInv, LiveChainIsLatest
  <1>4. issued' = (issued \ {f}) \cup {e}
    BY <1>1, <1>3 DEF OpenSession, SessionInv, SessionIsOneTrajectory
  <1>5. Open' = (Open \ {f}) \cup {e}
    <2>1. \A j \in Live : states'[j] = IF j = k
                THEN [chain |-> req[t].fps, session |-> states[k].session,
                      lastUsed |-> req[t].now] ELSE states[j]
      BY <1>1 DEF Live, SessionInv, TypeOK, Table
    <2>. QED BY <1>0, <1>2, <2>1 DEF Open, OpenSession
  <1>6. f.id = e.id /\ f.key = e.key /\ Sessions!IsPrefix(f.fps, e.fps)
    BY <1>0 DEF OpenSession, IsPrefix, Sessions!IsPrefix
  <1>7. e \in issued'
    BY <1>1
  <1>. QED BY <1>1, <1>3, <1>4, <1>5, <1>6, <1>7 DEF Sessions!Next, Sessions!Continue, Open

LEMMA BreakDiverges ==
    ASSUME SessionInv, NEW t \in Thread, Break(t)
    PROVE  Sessions!Next
  <1>. DEFINE k == req[t].key
              f == OpenSession(k)
              e == [id |-> NewSessionId, key |-> k, fps |-> req[t].fps]
  <1>0. k \in Live /\ ~IsPrefix(states[k].chain, req[t].fps)
    BY DEF Break, Extends
  <1>1. /\ states' = [states EXCEPT ![k] = [chain |-> req[t].fps,
                                            session |-> NewSessionId,
                                            lastUsed |-> req[t].now]]
        /\ issued' = issued \cup {e}
        /\ marks' = marks \cup {e.id}
    BY DEF Break, Entry, Issue
  <1>2. Live' = Live
    BY BreakInv
  <1>3. f \in Open
    BY <1>0 DEF OpenSession, Open
  <1>4. e.id \notin {x.id : x \in issued}
    BY FreshId
  <1>5. Open' = (Open \ {f}) \cup {e}
    <2>1. \A j \in Live : states'[j] = IF j = k
                THEN [chain |-> req[t].fps, session |-> NewSessionId,
                      lastUsed |-> req[t].now] ELSE states[j]
      BY <1>1 DEF Live, SessionInv, TypeOK, Table
    <2>. QED BY <1>0, <1>2, <2>1 DEF Open, OpenSession
  <1>6. f.key = e.key /\ ~Sessions!IsPrefix(f.fps, e.fps)
    BY <1>0 DEF OpenSession, IsPrefix, Sessions!IsPrefix
  <1>7. e \in issued'
    BY <1>1
  <1>. QED BY <1>1, <1>3, <1>4, <1>5, <1>6, <1>7
           DEF Sessions!Next, Sessions!Diverge, Sessions!Joins, Open

LEMMA InsertBegins ==
    ASSUME SessionInv, NEW t \in Thread, Insert(t)
    PROVE  Sessions!Next
  <1>. DEFINE k == req[t].key
              e == [id |-> NewSessionId, key |-> k, fps |-> req[t].fps]
  <1>0. k \in Key /\ k \notin Live
    BY LookupKey DEF SessionInv, LockInv, Insert
  <1>1. /\ Live' = Live \cup {k}
        /\ \A j \in Live : states'[j] = states[j]
        /\ states'[k].session = NewSessionId /\ states'[k].chain = req[t].fps
    <2>1. /\ Live' = Live \cup {k}
          /\ \A j \in Live \ {k} : states'[j] = states[j]
          /\ states'[k] = [chain |-> req[t].fps, session |-> NewSessionId,
                           lastUsed |-> req[t].now]
      BY InsertInv
    <2>2. Live \ {k} = Live
      BY <1>0
    <2>. QED BY <2>1, <2>2
  <1>2. /\ issued' = issued \cup {e} /\ marks' = marks
        /\ e.id \notin {x.id : x \in issued}
    BY FreshId DEF Insert, Issue
  <1>3. Open' = (Open \ {}) \cup {e}
    BY <1>0, <1>1 DEF Open
  <1>4. \A f \in Open : f.key # e.key
    BY <1>0 DEF Open
  <1>5. e \in issued'
    BY <1>2
  <1>. QED BY <1>2, <1>3, <1>4, <1>5
           DEF Sessions!Next, Sessions!Begin, Sessions!Joins, Open

\* Every step of the stitcher is one of the map, or changes nothing it shows.
LEMMA StepMaps ==
    SessionInv /\ [Next]_vars => [Sessions!Next]_(Sessions!mapVars)
  <1>. SUFFICES ASSUME SessionInv, [Next]_vars
                PROVE  Sessions!Next \/ UNCHANGED <<issued, Open, marks>>
    BY DEF Sessions!mapVars, Open
  <1>. USE DEF Sessions!Next, Sessions!Close, Open
  <1>1. ASSUME Open' \subseteq Open, UNCHANGED <<issued, marks>>
        PROVE  Sessions!Next
    BY <1>1
  <1>2. ASSUME NEW t \in Thread, Assign(t)
        PROVE  Sessions!Next \/ UNCHANGED <<issued, Open, marks>>
    <2>1. CASE Arrive(t)
      BY <2>1 DEF Arrive, Live, sessionVars
    <2>2. CASE Sweep(t)
      <3>1. Live' \subseteq Live /\ \A k \in Live' : states'[k] = states[k]
        BY <2>2 DEF Sweep, Live, SessionInv, TypeOK
      <3>2. UNCHANGED <<issued, marks>>
        BY <2>2 DEF Sweep, sessionVars
      <3>. QED BY <1>1, <3>1, <3>2, DropCloses
    <2>3. CASE Miss(t)
      <3>1. Live' \subseteq Live /\ \A k \in Live' : states'[k] = states[k]
        BY <2>3, MissInv DEF Miss, Live, SessionInv, TypeOK
      <3>2. UNCHANGED <<issued, marks>>
        BY <2>3 DEF Miss, sessionVars
      <3>. QED BY <1>1, <3>1, <3>2, DropCloses
    <2>4. CASE ReadCapacity(t)
      BY <2>4, ReadCapacityInv DEF Live, sessionVars
    <2>5. CASE Evict(t)
      <3>1. Live' \subseteq Live /\ \A k \in Live' : states'[k] = states[k]
        BY <2>5, EvictRound
      <3>2. UNCHANGED <<issued, marks>>
        BY <2>5 DEF Evict, sessionVars
      <3>. QED BY <1>1, <3>1, <3>2, DropCloses
    <2>. QED BY <1>2, <2>1, <2>2, <2>3, <2>4, <2>5, ExtendContinues, BreakDiverges, InsertBegins
             DEF Assign
  <1>3. CASE SetCapacity \/ SetTtl \/ Tick
    BY <1>3, EnvironmentInv DEF Live, sessionVars
  <1>4. CASE Restart
    <2>1. Live' = {} /\ UNCHANGED <<issued, marks>>
      BY <1>4, RestartInv DEF Restart
    <2>. QED BY <1>1, <2>1
  <1>5. CASE UNCHANGED vars
    BY <1>5 DEF vars, sessionVars, Live
  <1>. QED BY <1>2, <1>3, <1>4, <1>5 DEF Next

\* The stitcher implements the session map for every instance: a reopened chain
\* never merges with its former trajectory, a session is only ever extended, and
\* a mark means a diverged history.
THEOREM Implements == Spec => ImplementsSessions
  <1>1. Init => Sessions!Init
    BY DEF Init, Sessions!Init, Live, Empty
  <1>. QED BY <1>1, OneTrajectory, StepMaps, PTL
           DEF Spec, ImplementsSessions, Sessions!Spec
=============================================================================
