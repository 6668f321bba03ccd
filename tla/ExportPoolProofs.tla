-------------------------- MODULE ExportPoolProofs --------------------------
(***************************************************************************)
(* Proofs about ExportPool for every set of records, every queue and batch *)
(* size, every set of widths and any number of reloads.                    *)
(***************************************************************************)
EXTENDS ExportPool, FiniteSetTheorems, TLAPS

USE DEF HasRoom, AfterRecv, QueuedDelta, StillOwed, DueOnTick, BatchLen,
        TargetLocked, PoolJoined, BookingDrop

\* Any set of records is finite, so its size is a number that can be booked.
LEMMA RecordsFinite ==
    ASSUME NEW S \in SUBSET Record
    PROVE  IsFiniteSet(S) /\ Cardinality(S) \in Nat
  BY ExportAssumption, FS_Subset, FS_CardinalityType

-----------------------------------------------------------------------------
(* Type correctness.                                                       *)

LEMMA InitTypeOK == Init => TypeOK
  <1>. SUFFICES ASSUME Init PROVE TypeOK
    OBVIOUS
  <1>1. NoBatch \in [recs : SUBSET Record, target : Target, gen : Nat, client : Nat]
    BY DEF NoBatch, Target
  <1>2. enabled \in BOOLEAN
    BY DEF Init
  <1>3. newTarget \in Target /\ queue \in Seq(Record) /\ Len(queue) <= QueueCapacity
    BY ExportAssumption DEF Init, Target
  <1>4. maxInflight \in Nat /\ 0 \in 0..MaxReloads /\ pool \in SUBSET Task
    BY ExportAssumption DEF Init
  <1>5. /\ targetGen \in Nat /\ client \in Nat
        /\ semaDelta \in Int /\ gap \in Int /\ avail \in Nat
        /\ pendingForget \in Nat /\ reloads \in 0..MaxReloads
        /\ exported \in Nat /\ failed \in Nat /\ dropped \in Nat
        /\ panicked \in Nat /\ inflight \in Int
    BY <1>4 DEF Init
  <1>6. closed \in BOOLEAN /\ due \in BOOLEAN /\ tail \in BOOLEAN
    BY DEF Init
  <1>. QED BY <1>1, <1>2, <1>3, <1>4, <1>5, <1>6 DEF Init, TypeOK

LEMMA SubmitTypeOK ==
    ASSUME TypeOK, NEW r \in Record, SubmitCheck(r) \/ TrySend(r)
    PROVE  TypeOK'
  <1>1. CASE SubmitCheck(r)
    BY <1>1 DEF SubmitCheck, TypeOK, reloadVars, healthVars, batcherVars
  <1>2. CASE TrySend(r)
    <2>0. queue \in Seq(Record) /\ Len(queue) <= QueueCapacity
          /\ dropped \in Nat /\ QueueCapacity \in Nat
      BY ExportAssumption DEF TypeOK
    <2>1. queue' \in Seq(Record) /\ Len(queue') <= QueueCapacity /\ dropped' \in Nat
      <3>1. CASE bpc # "dead" /\ Len(queue) < QueueCapacity
        BY <1>2, <2>0, <3>1 DEF TrySend
      <3>2. CASE ~(bpc # "dead" /\ Len(queue) < QueueCapacity)
        BY <1>2, <2>0, <3>2 DEF TrySend
      <3>. QED BY <3>1, <3>2
    <2>. QED BY <1>2, <2>1 DEF TrySend, TypeOK, reloadVars, batcherVars
  <1>. QED BY <1>1, <1>2

LEMMA ReloadTypeOK == ASSUME TypeOK, Reload PROVE TypeOK'
  <1>. USE DEF healthVars, producerVars, batcherVars, TypeOK
  <1>1. CASE ApplySwap   BY <1>1, ExportAssumption DEF ApplySwap
  <1>2. CASE ApplyClient BY <1>2 DEF ApplyClient
  <1>3. CASE ApplyEnable
    <2>1. enabled' \in BOOLEAN BY <1>3 DEF ApplyEnable
    <2>. QED BY <1>3, <2>1 DEF ApplyEnable
  <1>4. CASE ApplyWidth  BY <1>4, ExportAssumption DEF ApplyWidth
  <1>5. CASE ApplyDelta  BY <1>5 DEF ApplyDelta
  <1>. QED BY <1>1, <1>2, <1>3, <1>4, <1>5 DEF Reload

LEMMA BatcherTypeOK == ASSUME TypeOK, Batcher PROVE TypeOK'
  <1>. USE DEF healthVars, producerVars, reloadVars, TypeOK
  <1>1. CASE Recv
    <2>1. /\ Head(queue) \in Record
          /\ Tail(queue) \in Seq(Record) /\ Len(Tail(queue)) <= QueueCapacity
      BY <1>1, ExportAssumption DEF Recv
    <2>. QED BY <1>1, <2>1 DEF Recv
  <1>2. CASE Tick       BY <1>2 DEF Tick
  <1>3. CASE RecvClosed BY <1>3 DEF RecvClosed
  <1>4. CASE TakeDelta  BY <1>4 DEF TakeDelta
  <1>5. CASE Forget     BY <1>5 DEF Forget
  <1>6. CASE LoadTarget BY <1>6, RecordsFinite DEF LoadTarget, AfterBatch
  <1>7. CASE LoadClient BY <1>7 DEF LoadClient
  <1>8. CASE DispatchBatch
    BY <1>8, ExportAssumption DEF DispatchBatch, AfterBatch, NoBatch, Target, Task
  <1>9. CASE Join       BY <1>9 DEF Join
  <1>. QED BY <1>1, <1>2, <1>3, <1>4, <1>5, <1>6, <1>7, <1>8, <1>9 DEF Batcher

\* Moving a task to another pc keeps the pool a set of tasks.
LEMMA AdvanceType ==
    ASSUME pool \in SUBSET Task, NEW t \in pool,
           NEW pc \in {"send", "booked", "logging", "release"}, Advance(t, pc)
    PROVE  pool' \in SUBSET Task
  <1>1. [t EXCEPT !.pc = pc] \in Task
    BY DEF Task
  <1>. QED BY <1>1 DEF Advance

LEMMA FlushTypeOK == ASSUME TypeOK, NEW t \in pool, Flush(t) PROVE TypeOK'
  <1>. USE DEF healthVars, producerVars, reloadVars, batcherVars, TypeOK
  <1>0. Cardinality(t.recs) \in Nat
    BY RecordsFinite DEF Task
  <1>1. CASE FlushExported(t)  BY <1>0, <1>1, AdvanceType DEF FlushExported
  <1>2. CASE FlushFailed(t)    BY <1>0, <1>2, AdvanceType DEF FlushFailed
  <1>3. CASE FlushCompleted(t) BY <1>3, AdvanceType DEF FlushCompleted
  <1>4. CASE FlushPanicked(t)  BY <1>0, <1>4, AdvanceType DEF FlushPanicked
  <1>5. CASE ReleasePermit(t)  BY <1>5 DEF ReleasePermit
  <1>. QED BY <1>1, <1>2, <1>3, <1>4, <1>5 DEF Flush

\* A step that changes no variable changes no state function.
LEMMA StutterTypeOK == TypeOK /\ UNCHANGED vars => TypeOK'
  BY DEF TypeOK, vars, reloadVars, healthVars, producerVars, batcherVars

\* Type correctness, for every instance of the exporter: the channel never
\* exceeds its capacity and no counter or permit count becomes negative.
THEOREM TypeCorrect == Spec => []TypeOK
  <1>1. TypeOK /\ [Next]_vars => TypeOK'
    <2>. SUFFICES ASSUME TypeOK, [Next]_vars PROVE TypeOK'
      OBVIOUS
    <2>1. CASE \E r \in Record : SubmitCheck(r) \/ TrySend(r)
      BY <2>1, SubmitTypeOK
    <2>2. CASE Close
      BY <2>2 DEF Close, TypeOK, reloadVars, healthVars, producerVars, batcherVars
    <2>3. CASE Reload  BY <2>3, ReloadTypeOK
    <2>4. CASE Batcher BY <2>4, BatcherTypeOK
    <2>5. CASE \E t \in pool : Flush(t) BY <2>5, FlushTypeOK
    <2>6. CASE Stopped \/ UNCHANGED vars
      BY <2>6, StutterTypeOK DEF Stopped
    <2>. QED BY <2>1, <2>2, <2>3, <2>4, <2>5, <2>6 DEF Next
  <1>. QED BY <1>1, InitTypeOK, PTL DEF Spec

-----------------------------------------------------------------------------
(* Facts about the channel and the pool.                                   *)

LEMMA AppendRange ==
    ASSUME NEW s \in Seq(Record), NEW r \in Record
    PROVE  Range(Append(s, r)) = Range(s) \cup {r}
  <1>. DEFINE a == Append(s, r)
  <1>1. /\ DOMAIN s = 1..Len(s) /\ Len(s) \in Nat
        /\ DOMAIN a = 1..(Len(s) + 1)
        /\ \A i \in 1..Len(s) : a[i] = s[i]
        /\ a[Len(s) + 1] = r
    OBVIOUS
  <1>. HIDE DEF a
  <1>2. Range(s) \cup {r} \subseteq Range(a)
    BY <1>1 DEF Range
  <1>3. Range(a) \subseteq Range(s) \cup {r}
    <2>. SUFFICES ASSUME NEW i \in DOMAIN a PROVE a[i] \in Range(s) \cup {r}
      BY DEF Range
    <2>1. i \in 1..Len(s) \/ i = Len(s) + 1
      BY <1>1
    <2>. QED BY <1>1, <2>1 DEF Range
  <1>. QED BY <1>2, <1>3 DEF a

LEMMA AppendDistinct ==
    ASSUME NEW s \in Seq(Record), NEW r \in Record, r \notin Range(s),
           \A i, j \in 1..Len(s) : i # j => s[i] # s[j]
    PROVE  \A i, j \in 1..Len(Append(s, r)) :
               i # j => Append(s, r)[i] # Append(s, r)[j]
  BY DEF Range

LEMMA TailRange ==
    ASSUME NEW s \in Seq(Record), s # <<>>,
           \A i, j \in 1..Len(s) : i # j => s[i] # s[j]
    PROVE  /\ Head(s) \in Range(s)
           /\ Range(Tail(s)) = Range(s) \ {Head(s)}
           /\ \A i, j \in 1..Len(Tail(s)) : i # j => Tail(s)[i] # Tail(s)[j]
  <1>1. /\ Len(s) \in Nat /\ Len(s) >= 1
        /\ Head(s) = s[1]
        /\ Tail(s) \in Seq(Record)
        /\ Len(Tail(s)) = Len(s) - 1
        /\ \A i \in 1..Len(Tail(s)) : Tail(s)[i] = s[i + 1]
    OBVIOUS
  <1>2. Head(s) \in Range(s)
    BY <1>1 DEF Range
  <1>3. \A i, j \in 1..Len(Tail(s)) : i # j => Tail(s)[i] # Tail(s)[j]
    BY <1>1
  <1>4. ASSUME NEW x \in Range(Tail(s)) PROVE x \in Range(s) \ {Head(s)}
    <2>1. PICK i \in 1..Len(Tail(s)) : x = Tail(s)[i]
      BY <1>1 DEF Range
    <2>2. i + 1 \in 1..Len(s) /\ i + 1 # 1 /\ x = s[i + 1]
      BY <1>1, <2>1
    <2>. QED BY <1>1, <2>2 DEF Range
  <1>5. ASSUME NEW x \in Range(s), x # Head(s) PROVE x \in Range(Tail(s))
    <2>1. PICK i \in 1..Len(s) : x = s[i]
      BY <1>1 DEF Range
    <2>2. i # 1
      BY <1>1, <1>5, <2>1
    <2>3. i - 1 \in 1..Len(Tail(s)) /\ x = Tail(s)[i - 1]
      BY <1>1, <2>1, <2>2
    <2>4. DOMAIN Tail(s) = 1..Len(Tail(s))
      BY <1>1
    <2>. QED BY <2>3, <2>4 DEF Range
  <1>. QED BY <1>2, <1>3, <1>4, <1>5

\* The record sets of a pool are disjoint and nonempty, so a task that changes
\* its pc cannot coincide with another task.
LEMMA AdvanceFresh ==
    ASSUME TypeOK, OnePlace, HeldWasOffered, NEW t \in pool, NEW pc
    PROVE  /\ [t EXCEPT !.pc = pc].recs = t.recs
           /\ [t EXCEPT !.pc = pc].gen = t.gen
           /\ [t EXCEPT !.pc = pc].client = t.client
           /\ [t EXCEPT !.pc = pc].pc = pc
           /\ [t EXCEPT !.pc = pc] \notin pool \ {t}
  <1>. DEFINE u == [t EXCEPT !.pc = pc]
  <1>1. t \in Task
    BY DEF TypeOK
  <1>2. u.recs = t.recs /\ u.gen = t.gen /\ u.client = t.client /\ u.pc = pc
    BY <1>1 DEF Task
  <1>3. t.recs # {} /\ (u \in pool /\ u # t => u.recs \cap t.recs = {})
    BY DEF OnePlace, HeldWasOffered
  <1>. QED BY <1>2, <1>3

-----------------------------------------------------------------------------
(* OnePlace, with HeldWasOffered, is inductive.                            *)

Placed == OnePlace /\ HeldWasOffered

LEMMA InitPlaced == Init => Placed
  BY DEF Init, Placed, OnePlace, HeldWasOffered, NoBatch, Range

LEMMA SubmitPlaced ==
    ASSUME TypeOK, Placed, NEW r \in Record, SubmitCheck(r) \/ TrySend(r)
    PROVE  Placed'
  <1>. USE DEF Placed, OnePlace, HeldWasOffered, reloadVars, batcherVars
  <1>1. CASE SubmitCheck(r)
    BY <1>1 DEF SubmitCheck
  <1>2. CASE TrySend(r)
    <2>1. r \notin offered /\ r \notin Range(queue)
      BY <1>2 DEF TrySend
    <2>2. CASE queue' = Append(queue, r)
      <3>1. queue \in Seq(Record)
        BY DEF TypeOK
      <3>2. Range(queue') = Range(queue) \cup {r}
        BY <2>2, <3>1, AppendRange
      <3>3. \A i, j \in 1..Len(queue') : i # j => queue'[i] # queue'[j]
        BY <2>1, <2>2, <3>1, AppendDistinct
      <3>. QED BY <1>2, <2>1, <3>2, <3>3 DEF TrySend
    <2>3. CASE queue' = queue
      BY <1>2, <2>3 DEF TrySend
    <2>. QED BY <1>2, <2>2, <2>3 DEF TrySend
  <1>. QED BY <1>1, <1>2

LEMMA ReloadPlaced == ASSUME Placed, Reload PROVE Placed'
  BY DEF Placed, OnePlace, HeldWasOffered, producerVars, batcherVars, Reload,
         ApplySwap, ApplyClient, ApplyEnable, ApplyWidth, ApplyDelta

LEMMA BatcherPlaced == ASSUME TypeOK, Placed, Batcher PROVE Placed'
  <1>. USE DEF Placed, OnePlace, HeldWasOffered, producerVars
  <1>1. CASE Recv
    <2>1. /\ Head(queue) \in Range(queue)
          /\ Range(queue') = Range(queue) \ {Head(queue)}
          /\ \A i, j \in 1..Len(queue') : i # j => queue'[i] # queue'[j]
      BY <1>1, TailRange DEF Recv, TypeOK
    <2>. QED BY <1>1, <2>1 DEF Recv
  <1>2. CASE Tick       BY <1>2 DEF Tick
  <1>3. CASE RecvClosed BY <1>3 DEF RecvClosed
  <1>4. CASE TakeDelta  BY <1>4 DEF TakeDelta
  <1>5. CASE Forget     BY <1>5 DEF Forget
  <1>6. CASE LoadTarget BY <1>6 DEF LoadTarget, AfterBatch, NoBatch
  <1>7. CASE LoadClient BY <1>7 DEF LoadClient, TypeOK
  <1>8. CASE DispatchBatch
    <2>. DEFINE n == [recs |-> batch.recs, target |-> batch.target,
                      gen |-> batch.gen, client |-> batch.client, pc |-> "send"]
    <2>1. n.recs = batch.recs /\ NoBatch.recs = {}
      BY DEF NoBatch
    <2>2. pool' = pool \cup {n} /\ batch' = NoBatch /\ bpc' \in {"join", "recv"}
          /\ batch.recs # {}
          /\ UNCHANGED <<queue, buf, sending, offered>>
      BY <1>8 DEF DispatchBatch, AfterBatch
    <2>3. \A t, u \in pool' : t # u => t.recs \cap u.recs = {}
      BY <2>1, <2>2
    <2>4. \A t \in pool' : /\ t.recs \subseteq offered /\ t.recs # {}
                            /\ t.recs \cap (Range(queue) \cup buf) = {}
      BY <2>1, <2>2
    <2>. HIDE DEF n
    <2>. QED BY <2>1, <2>2, <2>3, <2>4
  <1>9. CASE Join       BY <1>9 DEF Join
  <1>. QED BY <1>1, <1>2, <1>3, <1>4, <1>5, <1>6, <1>7, <1>8, <1>9 DEF Batcher

LEMMA FlushPlaced ==
    ASSUME TypeOK, Placed, NEW t \in pool, Flush(t)
    PROVE  Placed'
  <1>1. ASSUME NEW pc, Advance(t, pc),
               UNCHANGED <<queue, buf, batch, bpc, sending, offered>>
        PROVE  Placed'
    <2>. DEFINE u == [t EXCEPT !.pc = pc]
    <2>1. u.recs = t.recs /\ pool' = (pool \ {t}) \cup {u}
      BY <1>1, AdvanceFresh DEF Advance, Placed
    <2>. HIDE DEF u
    <2>. QED BY <1>1, <2>1 DEF Placed, OnePlace, HeldWasOffered
  <1>2. CASE ReleasePermit(t)
    BY <1>2 DEF ReleasePermit, Placed, OnePlace, HeldWasOffered, producerVars,
                batcherVars
  <1>. QED BY <1>1, <1>2 DEF Flush, FlushExported, FlushFailed, FlushCompleted,
              FlushPanicked, producerVars, batcherVars

LEMMA PlacedStep ==
    ASSUME TypeOK, Placed, [Next]_vars
    PROVE  Placed'
  <1>1. CASE \E r \in Record : SubmitCheck(r) \/ TrySend(r)
    BY <1>1, SubmitPlaced
  <1>2. CASE Close
    BY <1>2 DEF Close, Placed, OnePlace, HeldWasOffered, producerVars, batcherVars
  <1>3. CASE Reload  BY <1>3, ReloadPlaced
  <1>4. CASE Batcher BY <1>4, BatcherPlaced
  <1>5. CASE \E t \in pool : Flush(t) BY <1>5, FlushPlaced
  <1>6. CASE Stopped \/ UNCHANGED vars
    BY <1>6 DEF Stopped, vars, Placed, OnePlace, HeldWasOffered, producerVars,
                batcherVars
  <1>. QED BY <1>1, <1>2, <1>3, <1>4, <1>5, <1>6 DEF Next

\* Placed holds throughout: the later proofs use it with TypeOK.
LEMMA PlacedHolds == Spec => [](TypeOK /\ Placed)
  <1>1. TypeOK /\ Placed /\ [Next]_vars => Placed'
    BY PlacedStep
  <1>. QED BY <1>1, InitPlaced, TypeCorrect, PTL DEF Spec

\* A record the exporter holds is in one place only: whatever interleaving of
\* producers, reloads, the batcher and the flush tasks, none is posted twice.
THEOREM OnePlaceHolds == Spec => []OnePlace
  <1>1. Placed => OnePlace
    BY DEF Placed
  <1>. QED BY <1>1, PlacedHolds, PTL

-----------------------------------------------------------------------------
(* Permits.                                                                *)

\* A task that changes its pc neither joins nor leaves the pool.
LEMMA AdvanceCardinality ==
    ASSUME TypeOK, Placed, IsFiniteSet(pool), NEW t \in pool, NEW pc,
           Advance(t, pc)
    PROVE  IsFiniteSet(pool') /\ Cardinality(pool') = Cardinality(pool)
  <1>. DEFINE u == [t EXCEPT !.pc = pc]
  <1>1. u \notin pool \ {t}
    BY AdvanceFresh DEF Placed
  <1>2. /\ IsFiniteSet(pool \ {t})
        /\ Cardinality(pool \ {t}) = Cardinality(pool) - 1
    BY FS_RemoveElement
  <1>3. /\ IsFiniteSet((pool \ {t}) \cup {u})
        /\ Cardinality((pool \ {t}) \cup {u}) = Cardinality(pool \ {t}) + 1
    BY <1>1, <1>2, FS_AddElement
  <1>4. Cardinality(pool) \in Nat
    BY FS_CardinalityType
  <1>. QED BY <1>2, <1>3, <1>4 DEF Advance

LEMMA InitPermits == Init => PermitInv
  <1>. SUFFICES ASSUME Init PROVE PermitInv
    OBVIOUS
  <1>1. IsFiniteSet(pool) /\ Cardinality(pool) = 0
    BY FS_EmptySet DEF Init
  <1>2. maxInflight \in Nat /\ maxInflight >= 1
    BY ExportAssumption DEF Init
  <1>. QED BY <1>1, <1>2 DEF Init, PermitInv, PermitAccounting, Permits

LEMMA StepPermits ==
    ASSUME TypeOK, Placed, PermitInv, [Next]_vars
    PROVE  PermitInv'
  <1>0. Cardinality(pool) \in Nat
    BY FS_CardinalityType DEF PermitInv
  <1>. DEFINE pv == <<maxInflight, semaDelta, gap, apc, avail, pendingForget>>
  <1>a. ASSUME UNCHANGED <<pv, pool>> PROVE PermitInv'
    BY <1>a DEF PermitInv, PermitAccounting, Permits
  <1>b. /\ avail \in Nat /\ pendingForget \in Nat /\ semaDelta \in Int
        /\ gap \in Int /\ maxInflight \in Nat /\ newWidth \in Nat
        /\ newWidth >= 1
    BY ExportAssumption DEF TypeOK
  <1>1. CASE \E r \in Record : SubmitCheck(r) \/ TrySend(r)
    BY <1>1, <1>a DEF SubmitCheck, TrySend, reloadVars, batcherVars
  <1>2. CASE Close
    BY <1>2, <1>a DEF Close, reloadVars, batcherVars
  <1>3. CASE Reload
    <2>1. CASE ApplySwap \/ ApplyClient \/ ApplyEnable
      BY <2>1 DEF ApplySwap, ApplyClient, ApplyEnable, batcherVars,
                  PermitInv, PermitAccounting, Permits
    <2>2. CASE ApplyWidth
      BY <1>0, <1>b, <2>2 DEF ApplyWidth, batcherVars, PermitInv,
                              PermitAccounting, Permits
    <2>3. CASE ApplyDelta
      BY <1>0, <1>b, <2>3, ExportAssumption
      DEF ApplyDelta, batcherVars, PermitInv, PermitAccounting, Permits, TypeOK
    <2>. QED BY <1>3, <2>1, <2>2, <2>3 DEF Reload
  <1>4. CASE Batcher
    <2>1. CASE Recv \/ Tick \/ RecvClosed \/ LoadTarget \/ LoadClient \/ Join
      BY <2>1, <1>a DEF Recv, Tick, RecvClosed, LoadTarget, LoadClient, Join,
                        reloadVars
    <2>2. CASE TakeDelta
      BY <1>0, <1>b, <2>2 DEF TakeDelta, reloadVars, PermitInv,
                              PermitAccounting, Permits
    <2>3. CASE Forget
      BY <1>0, <1>b, <2>3 DEF Forget, reloadVars, PermitInv,
                              PermitAccounting, Permits
    <2>4. CASE DispatchBatch
      <3>. DEFINE n == [recs |-> batch.recs, target |-> batch.target,
                        gen |-> batch.gen, client |-> batch.client, pc |-> "send"]
      <3>1. n.recs = batch.recs /\ batch.recs # {}
        BY <2>4 DEF DispatchBatch, Placed, HeldWasOffered
      <3>2. \A t \in pool : t.recs \cap batch.recs = {}
        BY DEF Placed, OnePlace
      <3>3. n \notin pool
        BY <3>1, <3>2
      <3>4. pool' = pool \cup {n}
        BY <2>4 DEF DispatchBatch
      <3>5. IsFiniteSet(pool') /\ Cardinality(pool') = Cardinality(pool) + 1
        BY <3>3, <3>4, FS_AddElement DEF PermitInv
      <3>. QED BY <1>0, <1>b, <2>4, <3>5
               DEF DispatchBatch, reloadVars, PermitInv, PermitAccounting, Permits
    <2>. QED BY <1>4, <2>1, <2>2, <2>3, <2>4 DEF Batcher
  <1>5. CASE \E t \in pool : Flush(t)
    <2>. PICK t \in pool : Flush(t)
      BY <1>5
    <2>1. ASSUME NEW pc, Advance(t, pc), UNCHANGED pv PROVE PermitInv'
      BY <2>1, AdvanceCardinality DEF PermitInv, PermitAccounting, Permits
    <2>2. CASE ReleasePermit(t)
      <3>1. IsFiniteSet(pool') /\ Cardinality(pool') = Cardinality(pool) - 1
        BY <2>2, FS_RemoveElement DEF ReleasePermit, PermitInv
      <3>. QED BY <1>0, <1>b, <2>2, <3>1
               DEF ReleasePermit, reloadVars, batcherVars, PermitInv,
                   PermitAccounting, Permits
    <2>. QED BY <2>1, <2>2 DEF Flush, FlushExported, FlushFailed,
             FlushCompleted, FlushPanicked, reloadVars, batcherVars
  <1>6. CASE Stopped \/ UNCHANGED vars
    BY <1>6, <1>a DEF Stopped, vars, reloadVars, batcherVars
  <1>. QED BY <1>1, <1>2, <1>3, <1>4, <1>5, <1>6 DEF Next

LEMMA PermitsHold == Spec => [](TypeOK /\ Placed /\ PermitInv)
  <1>1. TypeOK /\ Placed /\ PermitInv /\ [Next]_vars => PermitInv'
    BY StepPermits
  <1>. QED BY <1>1, InitPermits, PlacedHolds, PTL DEF Spec

\* The semaphore, the owed permits and the queued delta always add up to the
\* configured width: no sequence of reloads and flushes strands the pool at a
\* wrong width.
THEOREM PermitsAccounted == Spec => []PermitAccounting
  <1>1. PermitInv => PermitAccounting
    BY DEF PermitInv
  <1>. QED BY <1>1, PermitsHold, PTL

\* Some permit always exists, so a shrink can never wedge the batcher.
THEOREM NeverWedged == Spec => []PoolNeverWedged
  <1>1. TypeOK /\ PermitInv => PoolNeverWedged
    <2>. SUFFICES ASSUME TypeOK, PermitInv PROVE PoolNeverWedged
      OBVIOUS
    <2>1. Cardinality(pool) \in Nat
      BY FS_CardinalityType DEF PermitInv
    <2>. QED BY <2>1 DEF TypeOK, PermitInv, PoolNeverWedged, Permits
  <1>. QED BY <1>1, PermitsHold, PTL

-----------------------------------------------------------------------------
(* Conservation.                                                           *)

\* Pending is a finite set of offered records.
LEMMA PendingFinite ==
    ASSUME TypeOK, Placed
    PROVE  /\ Pending \subseteq offered /\ IsFiniteSet(Pending)
           /\ Cardinality(Pending) \in Nat
           /\ IsFiniteSet(offered) /\ Cardinality(offered) \in Nat
  <1>1. Pending \subseteq offered
    BY DEF Pending, InSend, Placed, HeldWasOffered
  <1>2. offered \in SUBSET Record
    BY DEF TypeOK
  <1>. QED BY <1>1, <1>2, RecordsFinite

\* Booking a set of pending records takes exactly that many out of Pending.
LEMMA BookedLeavePending ==
    ASSUME TypeOK, Placed, NEW B, B \subseteq Pending
    PROVE  Cardinality(Pending \ B) = Cardinality(Pending) - Cardinality(B)
  <1>1. IsFiniteSet(Pending)
    BY PendingFinite
  <1>2. Cardinality(Pending \ B) = Cardinality(Pending) - Cardinality(Pending \cap B)
    BY <1>1, FS_Difference
  <1>3. Pending \cap B = B
    OBVIOUS
  <1>. QED BY <1>2, <1>3

LEMMA BookedBalance ==
    ASSUME NEW o \in Nat, NEW p \in Nat, NEW b \in Nat, NEW q,
           NEW e \in Nat, NEW f \in Nat, NEW d \in Nat,
           NEW e1 \in Nat, NEW f1 \in Nat, NEW d1 \in Nat,
           o = p + e + f + d, q = p - b, e1 + f1 + d1 = e + f + d + b
    PROVE  o = q + e1 + f1 + d1
  OBVIOUS

\* What a step does to the abstract sink: an action of TurnSink, or nothing.
SinkStep == Sink!Next \/ UNCHANGED <<offered, Pending, exported, failed, dropped>>

LEMMA SinkCardinality ==
    ASSUME NEW S PROVE Sink!Cardinality(S) = Cardinality(S)
  BY DEF Sink!Cardinality, Cardinality

LEMMA StepSink ==
    ASSUME ~StderrMayFail, TypeOK, Placed, [Next]_vars
    PROVE  SinkStep
  <1>. DEFINE counts == <<exported, failed, dropped, offered>>
  <1>a. ASSUME Pending' = Pending, UNCHANGED counts PROVE SinkStep
    BY <1>a DEF SinkStep
  <1>b. ASSUME NEW B, B # {}, B \subseteq Pending, Pending' = Pending \ B,
               offered' = offered,
               \/ exported' = exported + Cardinality(B) /\ UNCHANGED <<failed, dropped>>
               \/ failed' = failed + Cardinality(B) /\ UNCHANGED <<exported, dropped>>
               \/ dropped' = dropped + Cardinality(B) /\ UNCHANGED <<exported, failed>>
        PROVE  SinkStep
    <2>1. Sink!Book(B)
      BY <1>b, SinkCardinality DEF Sink!Book
    <2>2. B \in SUBSET Pending
      BY <1>b
    <2>. QED BY <2>1, <2>2 DEF SinkStep, Sink!Next
  <1>1. ASSUME NEW r \in Record, SubmitCheck(r) PROVE SinkStep
    BY <1>1, <1>a DEF SubmitCheck, Pending, InSend, batcherVars, healthVars
  <1>2. ASSUME NEW r \in Record, TrySend(r) PROVE SinkStep
    <2>1. /\ r \notin offered /\ offered' = offered \cup {r}
          /\ exported' = exported /\ failed' = failed
      BY <1>2 DEF TrySend, Placed, HeldWasOffered
    <2>2. CASE queue' = Append(queue, r) /\ dropped' = dropped
      <3>1. Range(queue') = Range(queue) \cup {r}
        BY <2>2, AppendRange DEF TypeOK
      <3>2. Pending' = Pending \cup {r}
        BY <1>2, <3>1 DEF TrySend, Pending, InSend, batcherVars
      <3>. QED BY <2>1, <2>2, <3>2 DEF SinkStep, Sink!Next, Sink!Offer
    <2>3. CASE queue' = queue /\ dropped' = dropped + 1
      <3>1. Pending' = Pending
        BY <1>2, <2>3 DEF TrySend, Pending, InSend, batcherVars
      <3>. QED BY <2>1, <2>3, <3>1 DEF SinkStep, Sink!Next, Sink!Offer
    <2>. QED BY <1>2, <2>2, <2>3 DEF TrySend
  <1>3. CASE Close \/ Reload
    BY <1>3, <1>a DEF Close, Reload, ApplySwap, ApplyClient, ApplyEnable,
       ApplyWidth, ApplyDelta, Pending, InSend, batcherVars, healthVars,
       producerVars
  <1>4. CASE Batcher
    <2>. USE DEF healthVars, producerVars
    <2>1. CASE Recv
      <3>1. /\ Head(queue) \in Range(queue)
            /\ Range(queue') = Range(queue) \ {Head(queue)}
        BY <2>1, TailRange DEF Recv, TypeOK, Placed, OnePlace
      <3>2. Pending' = Pending
        BY <2>1, <3>1 DEF Recv, Pending, InSend
      <3>. QED BY <1>a, <2>1, <3>2 DEF Recv
    <2>2. CASE Tick \/ RecvClosed \/ TakeDelta \/ Forget \/ Join
      BY <1>a, <2>2 DEF Tick, RecvClosed, TakeDelta, Forget, Join, Pending, InSend
    <2>3. CASE LoadTarget
      <3>1. batch.recs = {} /\ buf \subseteq Pending
        BY <2>3 DEF LoadTarget, Pending, Placed, HeldWasOffered, NoBatch
      <3>2. CASE target = NoTarget
        <4>1. buf # {}
          BY <2>3 DEF LoadTarget, Placed, HeldWasOffered
        <4>2. Pending' = Pending \ buf
          BY <2>3, <3>1, <3>2
          DEF LoadTarget, Pending, InSend, Placed, OnePlace
        <4>. QED BY <1>b, <2>3, <3>1, <3>2, <4>1, <4>2 DEF LoadTarget
      <3>3. CASE target # NoTarget
        <4>1. batch'.recs = buf /\ buf' = {}
          BY <2>3, <3>3 DEF LoadTarget
        <4>2. Pending' = Pending
          BY <2>3, <3>1, <4>1 DEF LoadTarget, Pending, InSend
        <4>. QED BY <1>a, <2>3, <3>3, <4>2 DEF LoadTarget
      <3>. QED BY <3>2, <3>3
    <2>4. CASE LoadClient
      <3>1. batch'.recs = batch.recs
        BY <2>4 DEF LoadClient, TypeOK
      <3>. QED BY <1>a, <2>4, <3>1 DEF LoadClient, Pending, InSend
    <2>5. CASE DispatchBatch
      <3>. DEFINE n == [recs |-> batch.recs, target |-> batch.target,
                        gen |-> batch.gen, client |-> batch.client, pc |-> "send"]
      <3>1. /\ n.recs = batch.recs /\ n.pc = "send" /\ pool' = pool \cup {n}
            /\ batch'.recs = {}
        BY <2>5 DEF DispatchBatch, NoBatch
      <3>. HIDE DEF n
      <3>2. InSend' = InSend \cup {n}
        BY <3>1 DEF InSend
      <3>3. Pending' = Pending
        BY <2>5, <3>1, <3>2 DEF DispatchBatch, Pending
      <3>. QED BY <1>a, <2>5, <3>3 DEF DispatchBatch
    <2>. QED BY <1>4, <2>1, <2>2, <2>3, <2>4, <2>5 DEF Batcher
  <1>5. ASSUME NEW t \in pool, Flush(t) PROVE SinkStep
    <2>1. t.recs # {}
      BY DEF Placed, HeldWasOffered
    <2>2. ASSUME NEW pc, pc # "send", Advance(t, pc), t.pc = "send",
                 UNCHANGED <<queue, buf, batch>>
          PROVE  t.recs \subseteq Pending /\ Pending' = Pending \ t.recs
      <3>. DEFINE u == [t EXCEPT !.pc = pc]
      <3>1. pool' = (pool \ {t}) \cup {u} /\ u.pc = pc
        BY <2>2, AdvanceFresh DEF Advance, Placed
      <3>. HIDE DEF u
      <3>2. InSend' = InSend \ {t}
        BY <2>2, <3>1 DEF InSend
      <3>3. t \in InSend
        BY <2>2 DEF InSend
      <3>4. \A v \in InSend \ {t} : v.recs \cap t.recs = {}
        BY DEF InSend, Placed, OnePlace
      <3>5. t.recs \cap (Range(queue) \cup buf \cup batch.recs) = {}
        BY DEF Placed, OnePlace
      <3>. QED BY <2>2, <3>2, <3>3, <3>4, <3>5 DEF Pending
    <2>3. ASSUME InSend' = InSend, UNCHANGED <<queue, buf, batch, counts>>
          PROVE  SinkStep
      BY <1>a, <2>3 DEF Pending
    <2>4. CASE FlushExported(t)
      BY <1>b, <2>1, <2>2, <2>4
      DEF FlushExported, batcherVars, producerVars
    <2>5. CASE FlushFailed(t)
      BY <1>b, <2>1, <2>2, <2>5
      DEF FlushFailed, batcherVars, producerVars
    <2>6. CASE FlushPanicked(t)
      BY <1>b, <2>1, <2>2, <2>6
      DEF FlushPanicked, batcherVars, producerVars
    <2>7. CASE FlushCompleted(t)
      <3>. DEFINE u == [t EXCEPT !.pc = "release"]
      <3>1. pool' = (pool \ {t}) \cup {u} /\ u.pc = "release"
        BY <2>7, AdvanceFresh DEF FlushCompleted, Advance, Placed
      <3>. HIDE DEF u
      <3>2. InSend' = InSend
        BY <2>7, <3>1 DEF FlushCompleted, InSend
      <3>. QED BY <2>3, <2>7, <3>2 DEF FlushCompleted, batcherVars, producerVars
    <2>8. CASE ReleasePermit(t)
      <3>1. InSend' = InSend
        BY <2>8 DEF ReleasePermit, InSend
      <3>. QED BY <2>3, <2>8, <3>1
               DEF ReleasePermit, batcherVars, producerVars, healthVars
    <2>. QED BY <1>5, <2>4, <2>5, <2>6, <2>7, <2>8 DEF Flush
  <1>6. CASE Stopped \/ UNCHANGED vars
    BY <1>6, <1>a DEF Stopped, vars, Pending, InSend, batcherVars, healthVars,
                      producerVars
  <1>. QED BY <1>1, <1>2, <1>3, <1>4, <1>5, <1>6 DEF Next

\* A step of the sink keeps the balance.
LEMMA StepConserves ==
    ASSUME TypeOK, Placed, Conservation, SinkStep, TypeOK', Placed'
    PROVE  Conservation'
  <1>0. /\ exported \in Nat /\ failed \in Nat /\ dropped \in Nat
        /\ exported' \in Nat /\ failed' \in Nat /\ dropped' \in Nat
        /\ Cardinality(Pending) \in Nat /\ Cardinality(offered) \in Nat
    BY PendingFinite DEF TypeOK
  <1>1. Cardinality(offered) = Cardinality(Pending) + exported + failed + dropped
    BY DEF Conservation
  <1>2. ASSUME NEW r \in Record, Sink!Offer(r) PROVE Conservation'
    <2>1. r \notin offered /\ r \notin Pending
      BY <1>2, PendingFinite DEF Sink!Offer
    <2>2. /\ Cardinality(offered') = Cardinality(offered) + 1
          /\ Cardinality(Pending \cup {r}) = Cardinality(Pending) + 1
          /\ exported' = exported /\ failed' = failed
      BY <1>2, <2>1, PendingFinite, FS_AddElement DEF Sink!Offer
    <2>3. CASE Pending' = Pending \cup {r} /\ dropped' = dropped
      BY <1>0, <1>1, <2>2, <2>3 DEF Conservation
    <2>4. CASE dropped' = dropped + 1 /\ Pending' = Pending
      <3>1. Cardinality(offered') = Cardinality(Pending) + exported + failed + (dropped + 1)
        BY <1>0, <1>1, <2>2
      <3>. QED BY <2>2, <2>4, <3>1 DEF Conservation
    <2>. QED BY <1>2, <2>3, <2>4 DEF Sink!Offer
  <1>3. ASSUME NEW B \in SUBSET Pending, Sink!Book(B) PROVE Conservation'
    <2>1. Cardinality(Pending') = Cardinality(Pending) - Cardinality(B)
      BY <1>3, BookedLeavePending DEF Sink!Book
    <2>2. Cardinality(B) \in Nat
      BY PendingFinite, RecordsFinite DEF TypeOK
    <2>3. exported' + failed' + dropped' = exported + failed + dropped + Cardinality(B)
      BY <1>0, <1>3, <2>2, SinkCardinality DEF Sink!Book
    <2>4. Cardinality(offered)
            = Cardinality(Pending') + exported' + failed' + dropped'
      BY <1>0, <1>1, <2>1, <2>2, <2>3, BookedBalance
    <2>. QED BY <1>3, <2>4 DEF Sink!Book, Conservation
  <1>4. CASE UNCHANGED <<offered, Pending, exported, failed, dropped>>
    BY <1>4 DEF Conservation
  <1>. QED BY <1>2, <1>3, <1>4 DEF SinkStep, Sink!Next

LEMMA InitSink == Init => Sink!Init /\ Conservation
  <1>. SUFFICES ASSUME Init PROVE Sink!Init /\ Conservation
    OBVIOUS
  <1>1. Pending = {} /\ offered = {}
    BY DEF Init, Pending, InSend, NoBatch, Range
  <1>2. Cardinality({}) = 0
    BY FS_EmptySet
  <1>. QED BY <1>1, <1>2 DEF Init, Conservation, Sink!Init

\* The exporter implements the accounted sink for every instance, as long as
\* reporting a failed batch on stderr cannot itself panic: whatever the channel,
\* the batcher, the pool and the reloads do, a record handed over is taken or lost
\* at once, and what is taken is booked once, with its batch.
THEOREM SinkImplemented == ASSUME ~StderrMayFail PROVE Spec => ImplementsSink
  <1>1. TypeOK /\ Placed /\ [Next]_vars => [Sink!Next]_(Sink!sinkVars)
    BY StepSink DEF SinkStep, Sink!sinkVars
  <1>. QED BY <1>1, InitSink, PlacedHolds, PTL DEF Spec, ImplementsSink, Sink!Spec

\* Every record handed to the channel is held or was counted exactly once, under
\* the same condition.
THEOREM Conserved == ASSUME ~StderrMayFail PROVE Spec => []Conservation
  <1>1. TypeOK /\ Placed /\ Conservation /\ [Next]_vars /\ TypeOK' /\ Placed' => Conservation'
    BY StepSink, StepConserves
  <1>. QED BY <1>1, InitSink, PlacedHolds, PTL DEF Spec

-----------------------------------------------------------------------------
(* Targets and clients.                                                    *)

LEMMA StepClient ==
    ASSUME TypeOK, Placed, ClientInv, [Next]_vars
    PROVE  ClientInv'
  <1>. USE DEF ClientInv, ClientNotOlderThanTarget
  <1>0. client \in Nat /\ targetGen \in Nat
    BY DEF TypeOK
  <1>1. CASE \E r \in Record : SubmitCheck(r) \/ TrySend(r)
    BY <1>1 DEF SubmitCheck, TrySend, reloadVars, batcherVars
  <1>2. CASE Close
    BY <1>2 DEF Close, reloadVars, batcherVars
  <1>3. CASE Reload
    <2>1. CASE ApplySwap   BY <1>0, <2>1 DEF ApplySwap, batcherVars
    <2>2. CASE ApplyClient
      BY <1>0, <2>2 DEF ApplyClient, batcherVars, TypeOK
    <2>3. CASE ApplyEnable \/ ApplyWidth \/ ApplyDelta
      BY <2>3 DEF ApplyEnable, ApplyWidth, ApplyDelta, batcherVars
    <2>. QED BY <1>3, <2>1, <2>2, <2>3 DEF Reload
  <1>4. CASE Batcher
    <2>1. CASE Recv \/ Tick \/ RecvClosed \/ TakeDelta \/ Forget \/ Join
      BY <2>1 DEF Recv, Tick, RecvClosed, TakeDelta, Forget, Join, reloadVars
    <2>2. CASE LoadTarget
      BY <1>0, <2>2 DEF LoadTarget, AfterBatch, reloadVars
    <2>3. CASE LoadClient
      BY <1>0, <2>3 DEF LoadClient, reloadVars, TypeOK
    <2>4. CASE DispatchBatch
      BY <2>4 DEF DispatchBatch, AfterBatch, reloadVars
    <2>. QED BY <1>4, <2>1, <2>2, <2>3, <2>4 DEF Batcher
  <1>5. CASE \E t \in pool : Flush(t)
    <2>. PICK t \in pool : Flush(t)
      BY <1>5
    <2>1. ASSUME NEW pc, Advance(t, pc), UNCHANGED <<client, targetGen, apc, bpc, batch>>
          PROVE  ClientInv'
      <3>. DEFINE u == [t EXCEPT !.pc = pc]
      <3>1. pool' = (pool \ {t}) \cup {u} /\ u.gen = t.gen /\ u.client = t.client
        BY <2>1, AdvanceFresh DEF Advance, Placed
      <3>. HIDE DEF u
      <3>. QED BY <2>1, <3>1
    <2>2. CASE ReleasePermit(t)
      BY <2>2 DEF ReleasePermit, reloadVars, batcherVars
    <2>. QED BY <2>1, <2>2 DEF Flush, FlushExported, FlushFailed,
             FlushCompleted, FlushPanicked, reloadVars, batcherVars
  <1>6. CASE Stopped \/ UNCHANGED vars
    BY <1>6 DEF Stopped, vars, reloadVars, batcherVars
  <1>. QED BY <1>1, <1>2, <1>3, <1>4, <1>5, <1>6 DEF Next

\* However a reload interleaves with the batcher's two loads, a batch is never
\* posted through a client built for an earlier target than its own.
THEOREM ClientFresh == Spec => []ClientNotOlderThanTarget
  <1>1. Init => ClientInv
    BY DEF Init, ClientInv, ClientNotOlderThanTarget
  <1>2. TypeOK /\ Placed /\ ClientInv /\ [Next]_vars => ClientInv'
    BY StepClient
  <1>3. ClientInv => ClientNotOlderThanTarget
    BY DEF ClientInv
  <1>. QED BY <1>1, <1>2, <1>3, PlacedHolds, PTL DEF Spec

-----------------------------------------------------------------------------
(* The inflight gauge and shutdown.                                        *)

Bracket == {t \in pool : t.pc # "release"}

LEMMA StepGauge ==
    ASSUME TypeOK, Placed, PermitInv, InflightGauge, [Next]_vars
    PROVE  InflightGauge'
  <1>0. /\ IsFiniteSet(Bracket) /\ Cardinality(Bracket) \in Nat
        /\ inflight = Cardinality(Bracket) /\ inflight \in Int
    BY FS_Subset, FS_CardinalityType
    DEF Bracket, PermitInv, InflightGauge, TypeOK
  <1>a. ASSUME Bracket' = Bracket, inflight' = inflight PROVE InflightGauge'
    BY <1>a DEF Bracket, InflightGauge
  <1>1. CASE (\E r \in Record : SubmitCheck(r) \/ TrySend(r)) \/ Close \/ Reload
    BY <1>1, <1>a DEF SubmitCheck, TrySend, Close, Reload, ApplySwap, ApplyClient,
       ApplyEnable, ApplyWidth, ApplyDelta, healthVars, Bracket
  <1>2. CASE Batcher
    <2>1. CASE DispatchBatch
      <3>. DEFINE n == [recs |-> batch.recs, target |-> batch.target,
                        gen |-> batch.gen, client |-> batch.client, pc |-> "send"]
      <3>1. n.recs = batch.recs /\ batch.recs # {} /\ n.pc = "send"
        BY <2>1 DEF DispatchBatch, Placed, HeldWasOffered
      <3>2. \A t \in pool : t.recs \cap batch.recs = {}
        BY DEF Placed, OnePlace
      <3>3. pool' = pool \cup {n} /\ inflight' = inflight + 1
        BY <2>1 DEF DispatchBatch
      <3>. HIDE DEF n
      <3>4. n \notin Bracket /\ Bracket' = Bracket \cup {n}
        BY <3>1, <3>2, <3>3 DEF Bracket
      <3>5. Cardinality(Bracket') = Cardinality(Bracket) + 1
        BY <1>0, <3>4, FS_AddElement
      <3>. QED BY <1>0, <3>3, <3>5 DEF Bracket, InflightGauge
    <2>2. CASE Recv \/ Tick \/ RecvClosed \/ TakeDelta \/ Forget \/ LoadTarget
               \/ LoadClient \/ Join
      BY <1>a, <2>2 DEF Recv, Tick, RecvClosed, TakeDelta, Forget, LoadTarget,
         LoadClient, Join, healthVars, Bracket
    <2>. QED BY <1>2, <2>1, <2>2 DEF Batcher
  <1>3. CASE \E t \in pool : Flush(t)
    <2>. PICK t \in pool : Flush(t)
      BY <1>3
    <2>1. ASSUME NEW pc, Advance(t, pc)
          PROVE  \E u : /\ u \notin pool \ {t} /\ u.pc = pc
                        /\ pool' = (pool \ {t}) \cup {u}
      <3>. WITNESS [t EXCEPT !.pc = pc]
      <3>. QED BY <2>1, AdvanceFresh DEF Advance, Placed
    <2>2. CASE FlushExported(t) \/ FlushFailed(t)
      <3>1. PICK u : /\ u \notin pool \ {t} /\ u.pc \in {"booked", "logging"}
                     /\ pool' = (pool \ {t}) \cup {u}
        BY <2>1, <2>2 DEF FlushExported, FlushFailed
      <3>2. t.pc = "send" /\ inflight' = inflight
        BY <2>2 DEF FlushExported, FlushFailed
      <3>3. t \in Bracket /\ u \notin Bracket \ {t}
            /\ Bracket' = (Bracket \ {t}) \cup {u}
        BY <3>1, <3>2 DEF Bracket
      <3>4. IsFiniteSet(Bracket \ {t})
            /\ Cardinality(Bracket \ {t}) = Cardinality(Bracket) - 1
        BY <1>0, <3>3, FS_RemoveElement
      <3>5. Cardinality(Bracket') = Cardinality(Bracket \ {t}) + 1
        BY <3>3, <3>4, FS_AddElement
      <3>. QED BY <1>0, <3>2, <3>4, <3>5 DEF Bracket, InflightGauge
    <2>3. CASE FlushCompleted(t) \/ FlushPanicked(t)
      <3>1. PICK u : /\ u.pc = "release" /\ pool' = (pool \ {t}) \cup {u}
        BY <2>1, <2>3 DEF FlushCompleted, FlushPanicked
      <3>2. t.pc # "release" /\ inflight' = inflight - 1
        BY <2>3 DEF FlushCompleted, FlushPanicked
      <3>3. t \in Bracket /\ Bracket' = Bracket \ {t}
        BY <3>1, <3>2 DEF Bracket
      <3>4. Cardinality(Bracket') = Cardinality(Bracket) - 1
        BY <1>0, <3>3, FS_RemoveElement
      <3>. QED BY <1>0, <3>2, <3>4 DEF Bracket, InflightGauge
    <2>4. CASE ReleasePermit(t)
      BY <1>a, <2>4 DEF ReleasePermit, healthVars, Bracket
    <2>. QED BY <2>2, <2>3, <2>4 DEF Flush
  <1>4. CASE Stopped \/ UNCHANGED vars
    BY <1>4, <1>a DEF Stopped, vars, healthVars, Bracket
  <1>. QED BY <1>1, <1>2, <1>3, <1>4 DEF Next

\* The gauge counts the flushes inside their booking bracket, panics included,
\* so it never underflows and never exceeds the permits that exist.
THEOREM GaugeExact == Spec => []InflightGauge
  <1>1. Init => InflightGauge
    <2>. SUFFICES ASSUME Init PROVE InflightGauge
      OBVIOUS
    <2>1. {t \in pool : t.pc # "release"} = {}
      BY DEF Init
    <2>. QED BY <2>1, FS_EmptySet DEF Init, InflightGauge
  <1>2. TypeOK /\ Placed /\ PermitInv /\ InflightGauge /\ [Next]_vars
          => InflightGauge'
    BY StepGauge
  <1>. QED BY <1>1, <1>2, PermitsHold, PTL DEF Spec

LEMMA StepShutdown ==
    ASSUME TypeOK, Placed, ShutdownInv, [Next]_vars
    PROVE  ShutdownInv'
  <1>. USE DEF ShutdownInv
  <1>1. CASE \E r \in Record : SubmitCheck(r) \/ TrySend(r)
    BY <1>1 DEF SubmitCheck, TrySend, reloadVars, batcherVars
  <1>2. CASE Close
    BY <1>2 DEF Close, reloadVars, batcherVars, producerVars
  <1>3. CASE Reload
    BY <1>3 DEF Reload, ApplySwap, ApplyClient, ApplyEnable, ApplyWidth,
       ApplyDelta, batcherVars, producerVars
  <1>4. CASE Batcher
    <2>. USE DEF producerVars
    <2>1. CASE Recv          BY <2>1 DEF Recv
    <2>2. CASE Tick          BY <2>2 DEF Tick
    <2>3. CASE RecvClosed    BY <2>3 DEF RecvClosed
    <2>4. CASE TakeDelta     BY <2>4 DEF TakeDelta
    <2>5. CASE Forget        BY <2>5 DEF Forget
    <2>6. CASE LoadTarget    BY <2>6 DEF LoadTarget, AfterBatch
    <2>7. CASE LoadClient    BY <2>7 DEF LoadClient
    <2>8. CASE DispatchBatch
      BY <2>8 DEF DispatchBatch, AfterBatch, Placed, HeldWasOffered
    <2>9. CASE Join          BY <2>9 DEF Join
    <2>. QED BY <1>4, <2>1, <2>2, <2>3, <2>4, <2>5, <2>6, <2>7, <2>8, <2>9
             DEF Batcher
  <1>5. CASE \E t \in pool : Flush(t)
    BY <1>5 DEF Flush, FlushExported, FlushFailed, FlushCompleted, FlushPanicked,
       ReleasePermit, Advance, batcherVars, producerVars
  <1>6. CASE Stopped \/ UNCHANGED vars
    BY <1>6 DEF Stopped, vars, batcherVars, producerVars
  <1>. QED BY <1>1, <1>2, <1>3, <1>4, <1>5, <1>6 DEF Next

\* When export_loop returns, every record the channel accepted has been booked
\* and no flush is running.
THEOREM ShutdownComplete == Spec => []ShutdownShipsEverything
  <1>1. Init => ShutdownInv
    BY DEF Init, ShutdownInv
  <1>2. TypeOK /\ Placed /\ ShutdownInv /\ [Next]_vars => ShutdownInv'
    BY StepShutdown
  <1>3. Placed /\ ShutdownInv /\ InflightGauge => ShutdownShipsEverything
    <2>. SUFFICES ASSUME Placed, ShutdownInv, InflightGauge, bpc = "done"
                  PROVE  Pending = {} /\ pool = {} /\ inflight = 0
      BY DEF ShutdownShipsEverything
    <2>1. pool = {} /\ queue = <<>> /\ buf = {}
      BY DEF ShutdownInv
    <2>2. batch.recs = {} /\ Range(queue) = {}
      BY <2>1 DEF Placed, HeldWasOffered, NoBatch, Range
    <2>3. Pending = {}
      BY <2>1, <2>2 DEF Pending, InSend
    <2>4. {t \in pool : t.pc # "release"} = {}
      BY <2>1
    <2>. QED BY <2>1, <2>3, <2>4, FS_EmptySet DEF InflightGauge
  <1>. QED BY <1>1, <1>2, <1>3, PlacedHolds, GaugeExact, PTL DEF Spec
=============================================================================
