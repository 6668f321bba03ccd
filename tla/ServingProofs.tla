---------------------------- MODULE ServingProofs ----------------------------
(***************************************************************************)
(* Proofs about Serving, the hot reload of ConfigStore under the requests  *)
(* the owned relay serves, for every set of keys, every order in which the *)
(* hook seeds its components, any number of requests and every bound on    *)
(* edits, signals and restarts.                                            *)
(*                                                                         *)
(* ComponentsFollow alone is not inductive: it says nothing while the hook *)
(* runs.  HookInv adds what it has done so far, and so ties the last       *)
(* component it seeds to the snapshot that was swapped in.  RelayPinned    *)
(* needs what the cache may hold (CacheInv) and what a request that builds *)
(* its client has looked up (LookupInv).                                   *)
(***************************************************************************)
EXTENDS Serving, TLAPS

\* While the hook runs, the snapshot is what reload() loaded, and the components
\* before `step` already run with it.
HookInv ==
    pc = "apply" =>
        /\ inner.cfg = loaded
        /\ \A i \in 1 .. Len(ApplyOrder) :
             i < step => component[ApplyOrder[i]] = loaded[ApplyOrder[i]]

ReloadInv == TypeOK /\ RestartRequiredExact /\ ComponentsFollow /\ HookInv

\* Every request has its place in the relay's state.
RelayTypeOK ==
    /\ DOMAIN snap = Request /\ DOMAIN key = Request /\ DOMAIN client = Request
    /\ rpc \in [Request -> {"idle", "target", "build", "sent"}]

\* The cached client is the one of its key, or the plain one a failed build left.
CacheInv == pinned # None => pinned.client \in {pinned.key, Plain}

\* A request that builds its client looked up an entry of its own upstream.
LookupInv == \A r \in Request : rpc[r] = "build" => key[r] \in Entries(r)

RelayInv == RelayTypeOK /\ CacheInv /\ LookupInv /\ RelayPinned

-----------------------------------------------------------------------------
(* The reload service.                                                     *)

LEMMA BootsFacts ==
    ASSUME NEW f \in Config
    PROVE  /\ Boots(f).inner.cfg = f /\ Boots(f).inner.generation = 1
           /\ Boots(f).inner.restartRequired = {}
           /\ DOMAIN Boots(f).structural = StructuralKey
           /\ \A k \in StructuralKey : Boots(f).structural[k] = f[k]
           /\ DOMAIN Boots(f).component = Component
           /\ \A k \in Component : Boots(f).component[k] = f[k]
  BY DEF Boots, Snapshot

LEMMA ApplyOrderFacts ==
    /\ Len(ApplyOrder) \in Nat /\ DOMAIN ApplyOrder = 1 .. Len(ApplyOrder)
    /\ Component = {ApplyOrder[i] : i \in 1 .. Len(ApplyOrder)}
  BY ConfigAssumption DEF Component

LEMMA ReloadInit == Init => ReloadInv
  <1>. SUFFICES ASSUME Init PROVE ReloadInv
    OBVIOUS
  <1>. USE BootsFacts, ApplyOrderFacts, ConfigAssumption
  <1>1. TypeOK
    <2>1. /\ inner.cfg = file /\ inner.generation = 1 /\ inner.restartRequired = {}
          /\ DOMAIN structural = StructuralKey /\ DOMAIN component = Component
      BY DEF Init
    <2>2. hup \in BOOLEAN
      BY Zenon DEF Init
    <2>. QED BY <2>1, <2>2 DEF Init, TypeOK
  <1>2. RestartRequiredExact
    BY DEF Init, RestartRequiredExact
  <1>. QED BY <1>1, <1>2 DEF Init, ReloadInv, ComponentsFollow, HookInv

\* The file, its editor, the signal and the requests leave what the reload relates
\* alone; only the place of the service may move, to one that promises less.
LEMMA OutsideInv ==
    ASSUME ReloadInv,
           UNCHANGED <<inner, reloadFailures, structural, component, current, loaded, step>>,
           pc' \in {pc, "down", "stopped"}, pc' = "stopped" => pc \in {"select", "stopped"},
           file' \in Config \cup {Unreadable}, writes' \in 0 .. MaxWrites,
           hup' \in BOOLEAN, hangups' \in 0 .. MaxHangups, restarts' \in 0 .. MaxRestarts
    PROVE  ReloadInv'
  BY DEF ReloadInv, TypeOK, RestartRequiredExact, ComponentsFollow, HookInv

LEMMA EditInv ==
    ASSUME ReloadInv, NEW f \in Config \cup {Unreadable}, EditFile(f)
    PROVE  ReloadInv'
  BY OutsideInv, ConfigAssumption DEF EditFile, serviceVars, ReloadInv, TypeOK

LEMMA HangupInv == ReloadInv /\ Hangup => ReloadInv'
  <1>. SUFFICES ASSUME ReloadInv, Hangup PROVE ReloadInv'
    OBVIOUS
  <1>1. hup' \in BOOLEAN
    BY Zenon DEF Hangup, ReloadInv, TypeOK
  <1>2. /\ hangups' \in 0 .. MaxHangups /\ writes' \in 0 .. MaxWrites
        /\ restarts' \in 0 .. MaxRestarts /\ file' \in Config \cup {Unreadable}
        /\ pc' \in {pc, "down"}
    BY ConfigAssumption DEF Hangup, ReloadInv, TypeOK
  <1>. QED BY <1>1, <1>2, OutsideInv DEF Hangup

LEMMA StopsInv == ReloadInv /\ ServiceStops => ReloadInv'
  BY OutsideInv DEF ServiceStops, ReloadInv, TypeOK

LEMMA NewCtxInv ==
    ASSUME ReloadInv, NEW r \in Request, NewCtx(r) \/ DropCtx(r)
    PROVE  ReloadInv'
  BY OutsideInv DEF NewCtx, DropCtx, serviceVars, ReloadInv, TypeOK

LEMMA StutterInv == ReloadInv /\ UNCHANGED vars => ReloadInv'
  BY OutsideInv DEF vars, serviceVars, ReloadInv, TypeOK

LEMMA RestartInv == ReloadInv /\ Restart => ReloadInv'
  <1>. SUFFICES ASSUME ReloadInv, Restart PROVE ReloadInv'
    OBVIOUS
  <1>0. /\ restarts' \in 0 .. MaxRestarts /\ hup' = FALSE
        /\ UNCHANGED <<file, writes, hangups>>
        /\ file \in Config \cup {Unreadable} /\ writes \in 0 .. MaxWrites
        /\ hangups \in 0 .. MaxHangups
    BY ConfigAssumption DEF Restart, ReloadInv, TypeOK
  <1>1. CASE /\ pc' = "down"
             /\ UNCHANGED <<inner, structural, component, reloadFailures, current,
                            loaded, step>>
    BY <1>0, <1>1, OutsideInv
  <1>2. CASE /\ Loads(file)
             /\ inner' = Boots(file).inner
             /\ structural' = Boots(file).structural
             /\ component' = Boots(file).component
             /\ reloadFailures' = 0
             /\ current' = inner' /\ loaded' = file /\ step' = 1
             /\ pc' = "boot"
    <2>1. file \in Config
      BY <1>0, <1>2 DEF Loads
    <2>. USE <2>1, <1>0, <1>2, BootsFacts, ApplyOrderFacts
    <2>2. TypeOK'
      <3>1. /\ inner'.cfg = file /\ inner'.generation = 1 /\ inner'.restartRequired = {}
            /\ DOMAIN structural' = StructuralKey /\ DOMAIN component' = Component
        OBVIOUS
      <3>2. hup' \in BOOLEAN
        BY Zenon
      <3>. QED BY <3>1, <3>2 DEF TypeOK
    <2>3. RestartRequiredExact'
      BY DEF RestartRequiredExact
    <2>. QED BY <2>2, <2>3 DEF ReloadInv, ComponentsFollow, HookInv
  <1>. QED BY <1>1, <1>2 DEF Restart

LEMMA ServiceInv == ReloadInv /\ Service => ReloadInv'
  <1>. SUFFICES ASSUME ReloadInv, Service PROVE ReloadInv'
    OBVIOUS
  <1>. USE ApplyOrderFacts, ConfigAssumption DEF ReloadInv
  <1>1. CASE ServiceStarts
    BY <1>1 DEF ServiceStarts, TypeOK, RestartRequiredExact, ComponentsFollow, HookInv
  <1>2. CASE ServiceRecv
    BY <1>2 DEF ServiceRecv, TypeOK, RestartRequiredExact, ComponentsFollow, HookInv
  <1>3. CASE ReloadFails
    BY <1>3 DEF ReloadFails, TypeOK, RestartRequiredExact, ComponentsFollow, HookInv
  <1>4. CASE ReloadLoads
    BY <1>4 DEF ReloadLoads, Loads, TypeOK, RestartRequiredExact, ComponentsFollow, HookInv
  <1>5. CASE ReloadSwaps
    <2>1. /\ inner'.cfg = loaded /\ inner'.generation = current.generation + 1
          /\ inner'.restartRequired = {k \in StructuralKey : structural[k] # loaded[k]}
      BY <1>5 DEF ReloadSwaps, Snapshot, Successor, RestartRequired
    <2>2. TypeOK'
      BY <1>5, <2>1 DEF ReloadSwaps, TypeOK
    <2>3. RestartRequiredExact'
      BY <1>5, <2>1 DEF ReloadSwaps, RestartRequiredExact
    <2>4. ComponentsFollow' /\ HookInv'
      BY <1>5, <2>1 DEF ReloadSwaps, ComponentsFollow, HookInv
    <2>. QED BY <2>2, <2>3, <2>4
  <1>6. CASE ReloadApplies
    <2>1. TypeOK' /\ RestartRequiredExact' /\ ComponentsFollow'
      BY <1>6 DEF ReloadApplies, TypeOK, RestartRequiredExact, ComponentsFollow
    <2>2. HookInv'
      <3>1. /\ step \in 1 .. Len(ApplyOrder) /\ step' = step + 1
            /\ UNCHANGED <<inner, loaded>> /\ inner.cfg = loaded
            /\ DOMAIN component = Component
        BY <1>6 DEF ReloadApplies, TypeOK, HookInv
      <3>2. ASSUME NEW i \in 1 .. Len(ApplyOrder), i < step'
            PROVE  component'[ApplyOrder[i]] = loaded'[ApplyOrder[i]]
        <4>0. ApplyOrder[i] \in Component /\ ApplyOrder[step] \in Component
          BY <3>1
        <4>1. CASE ApplyOrder[i] = ApplyOrder[step]
          BY <1>6, <3>1, <4>0, <4>1 DEF ReloadApplies, Seeded
        <4>2. CASE ApplyOrder[i] # ApplyOrder[step]
          <5>1. i < step
            BY <3>1, <3>2, <4>2
          <5>. QED BY <1>6, <3>1, <4>0, <4>2, <5>1 DEF ReloadApplies, HookInv
        <4>. QED BY <4>1, <4>2
      <3>. QED BY <3>1, <3>2 DEF HookInv
    <2>. QED BY <2>1, <2>2
  <1>7. CASE ReloadReturns
    <2>1. \A k \in Component : component[k] = inner.cfg[k]
      <3>. SUFFICES ASSUME NEW i \in 1 .. Len(ApplyOrder)
                    PROVE  component[ApplyOrder[i]] = inner.cfg[ApplyOrder[i]]
        OBVIOUS
      <3>1. i < step
        BY <1>7 DEF ReloadReturns, TypeOK
      <3>. QED BY <1>7, <3>1 DEF ReloadReturns, HookInv
    <2>. QED
      BY <1>7, <2>1 DEF ReloadReturns, Pending, TypeOK, RestartRequiredExact,
                        ComponentsFollow, HookInv
  <1>. QED BY <1>1, <1>2, <1>3, <1>4, <1>5, <1>6, <1>7 DEF Service

-----------------------------------------------------------------------------
(* The relay.                                                              *)

LEMMA RelayInitInv == ServingInit => RelayInv
  BY DEF ServingInit, Init, RelayInit, RelayInv, RelayTypeOK, CacheInv, LookupInv, RelayPinned

\* The service, the file and the signal do not touch a request or the cache.
LEMMA RelayOutside == RelayInv /\ UNCHANGED <<relayVars, snap>> => RelayInv'
  BY DEF relayVars, RelayInv, RelayTypeOK, CacheInv, LookupInv, RelayPinned, Entries

LEMMA RelayStep ==
    ASSUME RelayInv, NEW r \in Request, Accept(r) \/ Relay(r) \/ Finish(r)
    PROVE  RelayInv'
  <1>. USE DEF RelayInv, RelayTypeOK, CacheInv, LookupInv, RelayPinned, Entries
  <1>1. CASE Accept(r)
    BY <1>1 DEF Accept, NewCtx
  <1>2. CASE TargetPlain(r)
    BY <1>2 DEF TargetPlain, vars
  <1>3. CASE TargetPinned(r)
    <2>1. PICK k \in Entries(r) :
            /\ key' = [key EXCEPT ![r] = k]
            /\ IF Hit(k)
                 THEN /\ client' = [client EXCEPT ![r] = pinned.client]
                      /\ rpc' = [rpc EXCEPT ![r] = "sent"]
                 ELSE rpc' = [rpc EXCEPT ![r] = "build"] /\ UNCHANGED client
      BY <1>3 DEF TargetPinned
    <2>2. UNCHANGED <<snap, pinned>>
      BY <1>3 DEF TargetPinned, vars
    <2>3. CASE Hit(k)
      <3>1. pinned.client \in {k, Plain}
        BY <2>3 DEF Hit
      <3>. QED BY <2>1, <2>2, <2>3, <3>1
    <2>4. CASE ~Hit(k)
      BY <2>1, <2>2, <2>4
    <2>. QED BY <2>3, <2>4
  <1>4. CASE Store(r)
    <2>1. PICK c \in {key[r], Plain} :
            /\ pinned' = [key |-> key[r], client |-> c]
            /\ client' = [client EXCEPT ![r] = Built(c)]
      BY <1>4 DEF Store
    <2>2. /\ rpc[r] = "build" /\ rpc' = [rpc EXCEPT ![r] = "sent"]
          /\ UNCHANGED <<snap, key>>
      BY <1>4 DEF Store, vars
    <2>. QED BY <2>1, <2>2 DEF Built
  <1>5. CASE Finish(r)
    BY <1>5 DEF Finish, DropCtx
  <1>. QED BY <1>1, <1>2, <1>3, <1>4, <1>5 DEF Relay

LEMMA RestartRelay == RelayInv /\ RestartServing => RelayInv'
  BY DEF RestartServing, Restart, RelayInv, RelayTypeOK, CacheInv, LookupInv, RelayPinned

-----------------------------------------------------------------------------
LEMMA ServingStep ==
    ReloadInv /\ RelayInv /\ [ServingNext]_servingVars => ReloadInv' /\ RelayInv'
  <1>. SUFFICES ASSUME ReloadInv, RelayInv, [ServingNext]_servingVars
                PROVE  ReloadInv' /\ RelayInv'
    OBVIOUS
  <1>1. CASE /\ \/ \E f \in Config \cup {Unreadable} : EditFile(f)
                \/ Hangup \/ Service \/ ServiceStops
             /\ UNCHANGED relayVars
    <2>1. ReloadInv'
      BY <1>1, EditInv, HangupInv, ServiceInv, StopsInv
    <2>2. UNCHANGED snap
      BY <1>1 DEF EditFile, Hangup, ServiceStops, Service, ServiceStarts, ServiceRecv,
                  ReloadFails, ReloadLoads, ReloadSwaps, ReloadApplies, ReloadReturns
    <2>. QED BY <1>1, <2>1, <2>2, RelayOutside
  <1>2. CASE RestartServing
    BY <1>2, RestartInv, RestartRelay DEF RestartServing
  <1>3. CASE \E r \in Request : Accept(r) \/ Relay(r) \/ Finish(r)
    <2>1. PICK r \in Request : Accept(r) \/ Relay(r) \/ Finish(r)
      BY <1>3
    <2>2. NewCtx(r) \/ DropCtx(r) \/ UNCHANGED vars
      BY <2>1 DEF Accept, Relay, Finish, TargetPlain, TargetPinned, Store
    <2>. QED BY <2>1, <2>2, NewCtxInv, StutterInv, RelayStep
  <1>4. CASE UNCHANGED servingVars
    BY <1>4, StutterInv, RelayOutside DEF servingVars, vars
  <1>. QED BY <1>1, <1>2, <1>3, <1>4 DEF ServingNext

LEMMA ServingInv == ServingSpec => [](ReloadInv /\ RelayInv)
  <1>1. ServingInit => ReloadInv /\ RelayInv
    BY ReloadInit, RelayInitInv DEF ServingInit
  <1>. QED BY <1>1, ServingStep, PTL DEF ServingSpec

\* Every variable of the store and its service keeps its type.
THEOREM ServingTyped == ServingSpec => []TypeOK
  BY ServingInv, PTL DEF ReloadInv

\* ConfigStore::reload reports exactly the structural keys whose file value is not
\* the running one, after any number of reloads and restarts.
THEOREM ReportsExactly == ServingSpec => []RestartRequiredExact
  BY ServingInv, PTL DEF ReloadInv

\* Outside a reload every component runs with the current snapshot's values.
THEOREM ComponentsCarrySnapshot == ServingSpec => []ComponentsFollow
  BY ServingInv, PTL DEF ReloadInv

\* relay_target never sends a request with a pin that its own snapshot's upstream
\* did not resolve to.
THEOREM PinnedToOwnUpstream == ServingSpec => []RelayPinned
  BY ServingInv, PTL DEF RelayInv
=============================================================================
