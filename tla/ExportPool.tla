----------------------------- MODULE ExportPool -----------------------------
(***************************************************************************)
(* The OTLP exporter of src/trace/export.rs: request threads submit turn   *)
(* records into a bounded channel, ONE batcher task coalesces them into    *)
(* batches, and a pool of flush tasks, bounded by a semaphore, posts the   *)
(* batches.  A configuration reload (apply_target) concurrently swaps the  *)
(* flush target and the pool width.                                        *)
(*                                                                         *)
(* Every atomic access of a shared cell is a step of its own, so the       *)
(* reload, the producers, the batcher and the flush tasks interleave as    *)
(* they do in the program.  Wall-clock time is abstracted: a timer that    *)
(* may or may not have elapsed is a choice.                                *)
(***************************************************************************)
EXTENDS Integers, Sequences, FiniteSets, Functions

CONSTANTS
    Record,          \* turn records, each submitted at most once
    Endpoint,        \* (endpoint, auth header) pairs a configuration may name
    NoTarget,        \* no endpoint: export is disabled
    QueueCapacity,   \* QUEUE_CAPACITY
    BatchMax,        \* BATCH_MAX
    Width,           \* effective values of export.max_inflight
    MaxReloads,      \* bound on the number of reloads
    StderrMayFail    \* may eprintln! panic on a write error?

ASSUME ExportAssumption ==
    /\ IsFiniteSet(Record)
    /\ NoTarget \notin Endpoint
    /\ QueueCapacity \in Nat \ {0}
    /\ BatchMax \in Nat \ {0}
    /\ Width \subseteq Nat \ {0}
    /\ MaxReloads \in Nat
    /\ StderrMayFail \in BOOLEAN

Target == Endpoint \cup {NoTarget}

VARIABLES
    \* shared with the reload path
    enabled,         \* Exporter.enabled
    target,          \* Exporter.target
    targetGen,       \* generation of target, counts its swaps
    client,          \* Exporter.client, named by the generation it was built for
    maxInflight,     \* Exporter.max_inflight
    semaDelta,       \* Exporter.sema_delta
    avail,           \* free permits of the semaphore
    \* health counters
    exported, failed, dropped, panicked, inflight,
    \* producers and the channel
    sending,         \* records between the enabled check and try_send
    refused,         \* records submitted while disabled: not queued, not counted
    offered,         \* records on which try_send was called
    queue,           \* the channel
    closed,          \* every Sender is gone
    \* the reload in progress
    apc, newTarget, newWidth, gap, reloads,
    \* the batcher task
    bpc, buf, due, tail, pendingForget, batch,
    \* the flush tasks
    pool

healthVars   == <<exported, failed, dropped, panicked, inflight>>
producerVars == <<sending, refused, offered>>
reloadVars   == <<enabled, target, targetGen, client, maxInflight,
                  apc, newTarget, newWidth, gap, reloads>>
batcherVars  == <<bpc, buf, due, tail, pendingForget, batch>>
vars == <<reloadVars, semaDelta, avail, healthVars, producerVars, queue,
          closed, batcherVars, pool>>

NoBatch == [recs |-> {}, target |-> NoTarget, gen |-> 0, client |-> 0]

\* Exporter::start. The batcher thread may die at startup (the runtime build
\* is an expect); its Receiver is dropped with it.
Init ==
    /\ target \in Target
    /\ enabled = (target # NoTarget)
    /\ targetGen = 0 /\ client = 0
    /\ maxInflight \in Width
    /\ avail = maxInflight
    /\ semaDelta = 0
    /\ exported = 0 /\ failed = 0 /\ dropped = 0 /\ panicked = 0 /\ inflight = 0
    /\ sending = {} /\ refused = {} /\ offered = {}
    /\ queue = <<>> /\ closed = FALSE
    /\ apc = "idle" /\ newTarget = NoTarget /\ newWidth = maxInflight
    /\ gap = 0 /\ reloads = 0
    /\ bpc \in {"recv", "dead"}
    /\ buf = {} /\ due = FALSE /\ tail = FALSE /\ pendingForget = 0
    /\ batch = NoBatch
    /\ pool = {}

-----------------------------------------------------------------------------
(* Expressions of the code, each after the faulty form it is checked       *)
(* against.                                                                *)

\* try_send finds room in the channel.
HasRoom == bpc # "dead" /\ Len(queue) < QueueCapacity

\* What is left in the channel when recv has returned the head.
AfterRecvKept == queue
AfterRecv == Tail(queue)

\* sema_delta.fetch_add: deltas accumulate until the batcher drains them.
QueuedDelta == semaDelta + gap

\* What a shrink still owes after forget_permits returned n.
StillOwedNothing(n) == 0
StillOwed(n) == pendingForget - n

\* After the receive timed out, BATCH_INTERVAL has passed since the last flush.
DueOnTickNever == FALSE
DueOnTick == TRUE

\* A batch is booked by its number of records.
BatchLenOne(recs) == 1
BatchLen(recs) == Cardinality(recs)

\* apply_target swaps target and client under the write lock of target.
TargetLockedNever == FALSE
TargetLocked == apc = "client"

\* The join at shutdown has nothing left to wait for.
PoolJoinedAtOnce == TRUE
PoolJoined == pool = {}

-----------------------------------------------------------------------------
(* Producers: Exporter::submit, on the request threads.                    *)

\* The enabled check: a disabled exporter ignores the record.
SubmitCheck(r) ==
    /\ ~closed
    /\ r \notin sending \cup refused \cup offered
    /\ IF enabled THEN /\ sending' = sending \cup {r}
                       /\ UNCHANGED refused
                  ELSE /\ refused' = refused \cup {r}
                       /\ UNCHANGED sending
    /\ UNCHANGED <<offered, reloadVars, semaDelta, avail, healthVars, queue,
                   closed, batcherVars, pool>>

\* try_send: Full, and Closed when the batcher thread is gone, count as dropped.
TrySend(r) ==
    /\ r \in sending
    /\ sending' = sending \ {r}
    /\ offered' = offered \cup {r}
    /\ IF HasRoom
         THEN /\ queue' = Append(queue, r)
              /\ UNCHANGED dropped
         ELSE /\ dropped' = dropped + 1
              /\ UNCHANGED queue
    /\ UNCHANGED <<refused, reloadVars, semaDelta, avail, exported, failed,
                   panicked, inflight, closed, batcherVars, pool>>

\* The last clone of the Exporter, and with it the last Sender, is dropped.
Close ==
    /\ ~closed /\ apc = "idle" /\ sending = {}
    /\ closed' = TRUE
    /\ UNCHANGED <<reloadVars, semaDelta, avail, healthVars, producerVars,
                   queue, batcherVars, pool>>

-----------------------------------------------------------------------------
(* The reload path: Exporter::apply_target, one call at a time (the SIGHUP *)
(* service applies reloads in sequence).                                   *)

\* build_target, then the write lock of target: compare and swap.
ApplySwap ==
    /\ apc = "idle" /\ ~closed /\ reloads < MaxReloads
    /\ \E t \in Target, w \in Width :
         /\ newTarget' = t
         /\ newWidth' = w
         /\ target' = t
         /\ IF t # target THEN /\ targetGen' = targetGen + 1
                               /\ apc' = "client"
                          ELSE /\ UNCHANGED targetGen
                               /\ apc' = "enable"
    /\ reloads' = reloads + 1
    /\ UNCHANGED <<enabled, client, maxInflight, gap, semaDelta, avail,
                   healthVars, producerVars, queue, closed, batcherVars, pool>>

\* Still under the write lock of target: a fresh client for the new target.
ApplyClient ==
    /\ apc = "client"
    /\ client' = targetGen
    /\ apc' = "enable"
    /\ UNCHANGED <<enabled, target, targetGen, maxInflight, newTarget, newWidth,
                   gap, reloads, semaDelta, avail, healthVars, producerVars,
                   queue, closed, batcherVars, pool>>

ApplyEnable ==
    /\ apc = "enable"
    /\ enabled' = (newTarget # NoTarget)
    /\ apc' = "width"
    /\ UNCHANGED <<target, targetGen, client, maxInflight, newTarget, newWidth,
                   gap, reloads, semaDelta, avail, healthVars, producerVars,
                   queue, closed, batcherVars, pool>>

\* max_inflight.swap: the reported width moves before the delta is queued.
ApplyWidth ==
    /\ apc = "width"
    /\ maxInflight' = newWidth
    /\ gap' = newWidth - maxInflight
    /\ apc' = "delta"
    /\ UNCHANGED <<enabled, target, targetGen, client, newTarget, newWidth,
                   reloads, semaDelta, avail, healthVars, producerVars, queue,
                   closed, batcherVars, pool>>

ApplyDelta ==
    /\ apc = "delta"
    /\ semaDelta' = QueuedDelta
    /\ gap' = 0
    /\ apc' = "idle"
    /\ UNCHANGED <<enabled, target, targetGen, client, maxInflight, newTarget,
                   newWidth, reloads, avail, healthVars, producerVars, queue,
                   closed, batcherVars, pool>>

Reload == ApplySwap \/ ApplyClient \/ ApplyEnable \/ ApplyWidth \/ ApplyDelta

-----------------------------------------------------------------------------
(* The batcher: export_loop and dispatch_batch.                            *)

\* recv returned a record; whether BATCH_INTERVAL has passed since the last
\* flush is up to the clock.
Recv ==
    /\ bpc = "recv" /\ queue # <<>>
    /\ buf' = buf \cup {Head(queue)}
    /\ queue' = AfterRecv
    /\ due' \in BOOLEAN
    /\ bpc' = "delta"
    /\ UNCHANGED <<tail, pendingForget, batch, reloadVars, semaDelta, avail,
                   healthVars, producerVars, closed, pool>>

\* The timeout fired on an empty channel: BATCH_INTERVAL has passed.
Tick ==
    /\ bpc = "recv" /\ queue = <<>> /\ ~closed
    /\ due' = DueOnTick
    /\ bpc' = "delta"
    /\ UNCHANGED <<buf, tail, pendingForget, batch, reloadVars, semaDelta,
                   avail, healthVars, producerVars, queue, closed, pool>>

\* The channel is closed and drained: ship the tail, then join the pool.
RecvClosed ==
    /\ bpc = "recv" /\ queue = <<>> /\ closed
    /\ tail' = TRUE
    /\ bpc' = IF buf = {} THEN "join" ELSE "load"
    /\ UNCHANGED <<buf, due, pendingForget, batch, reloadVars, semaDelta,
                   avail, healthVars, producerVars, queue, closed, pool>>

\* sema_delta.swap(0): a grow adds permits at once, a shrink is owed.
TakeDelta ==
    /\ bpc = "delta"
    /\ semaDelta' = 0
    /\ avail' = avail + (IF semaDelta > 0 THEN semaDelta ELSE 0)
    /\ pendingForget' = pendingForget + (IF semaDelta < 0 THEN -semaDelta ELSE 0)
    /\ bpc' = "forget"
    /\ UNCHANGED <<buf, due, tail, batch, reloadVars, healthVars, producerVars,
                   queue, closed, pool>>

\* forget_permits takes the free permits only; the rest is retried on the
\* next pass.  Then the loop goes on receiving or flushes.
Forget ==
    /\ bpc = "forget"
    /\ LET n == IF pendingForget < avail THEN pendingForget ELSE avail
       IN  avail' = avail - n /\ pendingForget' = StillOwed(n)
    /\ bpc' = IF buf = {} \/ (~due /\ Cardinality(buf) < BatchMax)
                THEN "recv" ELSE "load"
    /\ UNCHANGED <<buf, due, tail, batch, reloadVars, semaDelta, healthVars,
                   producerVars, queue, closed, pool>>

AfterBatch == IF tail THEN "join" ELSE "recv"

\* One load of target per batch; without one the batch is dropped, counted.
LoadTarget ==
    /\ bpc = "load" /\ ~TargetLocked
    /\ buf' = {}
    /\ IF target = NoTarget
         THEN /\ dropped' = dropped + BatchLen(buf)
              /\ bpc' = AfterBatch
              /\ UNCHANGED batch
         ELSE /\ batch' = [recs |-> buf, target |-> target, gen |-> targetGen,
                           client |-> 0]
              /\ bpc' = "client"
              /\ UNCHANGED dropped
    /\ UNCHANGED <<due, tail, pendingForget, reloadVars, semaDelta, avail,
                   exported, failed, panicked, inflight, producerVars, queue,
                   closed, pool>>

LoadClient ==
    /\ bpc = "client"
    /\ batch' = [batch EXCEPT !.client = client]
    /\ bpc' = "acquire"
    /\ UNCHANGED <<buf, due, tail, pendingForget, reloadVars, semaDelta, avail,
                   healthVars, producerVars, queue, closed, pool>>

\* Park until a permit is free, raise the gauge, spawn the flush task.
DispatchBatch ==
    /\ bpc = "acquire" /\ avail > 0
    /\ avail' = avail - 1
    /\ inflight' = inflight + 1
    /\ pool' = pool \cup {[recs |-> batch.recs, target |-> batch.target,
                           gen |-> batch.gen, client |-> batch.client,
                           pc |-> "send"]}
    /\ batch' = NoBatch
    /\ bpc' = AfterBatch
    /\ UNCHANGED <<buf, due, tail, pendingForget, reloadVars, semaDelta,
                   exported, failed, dropped, panicked, producerVars, queue,
                   closed>>

\* Shutdown waits for every flush in flight.
Join ==
    /\ bpc = "join" /\ PoolJoined
    /\ bpc' = "done"
    /\ UNCHANGED <<buf, due, tail, pendingForget, batch, reloadVars, semaDelta,
                   avail, healthVars, producerVars, queue, closed, pool>>

Batcher == \/ Recv \/ Tick \/ RecvClosed \/ TakeDelta \/ Forget
           \/ LoadTarget \/ LoadClient \/ DispatchBatch \/ Join

-----------------------------------------------------------------------------
(* The flush tasks: flush_batch inside the FlushBooking bracket.           *)

Advance(t, pc) == pool' = (pool \ {t}) \cup {[t EXCEPT !.pc = pc]}

\* A 2xx answer.
FlushExported(t) ==
    /\ t.pc = "send"
    /\ exported' = exported + BatchLen(t.recs)
    /\ Advance(t, "booked")
    /\ UNCHANGED <<failed, dropped, panicked, inflight, reloadVars, semaDelta,
                   avail, producerVars, queue, closed, batcherVars>>

\* Any other answer or error: booked, then reported on stderr.
FlushFailed(t) ==
    /\ t.pc = "send"
    /\ failed' = failed + BatchLen(t.recs)
    /\ Advance(t, "logging")
    /\ UNCHANGED <<exported, dropped, panicked, inflight, reloadVars,
                   semaDelta, avail, producerVars, queue, closed, batcherVars>>

\* FlushBooking::drop lowers the gauge and books a batch that did not complete.
BookingDropEarlyReturn(t, completed) ==
    IF completed
      THEN UNCHANGED <<inflight, failed, panicked>>
      ELSE /\ inflight' = inflight - 1
           /\ failed' = failed + BatchLen(t.recs)
           /\ panicked' = panicked + 1

BookingDrop(t, completed) ==
    /\ inflight' = inflight - 1
    /\ IF completed THEN UNCHANGED <<failed, panicked>>
                    ELSE /\ failed' = failed + BatchLen(t.recs)
                         /\ panicked' = panicked + 1

\* The end of the task: completed = true, and the booking is dropped.
FlushCompleted(t) ==
    /\ t.pc \in {"booked", "logging"}
    /\ BookingDrop(t, TRUE)
    /\ Advance(t, "release")
    /\ UNCHANGED <<exported, dropped, reloadVars, semaDelta, avail,
                   producerVars, queue, closed, batcherVars>>

\* A panic drops the booking while unwinding: before the request was answered,
\* or in the eprintln! that reports a failed batch.
FlushPanicked(t) ==
    /\ t.pc = "send" \/ (t.pc = "logging" /\ StderrMayFail)
    /\ BookingDrop(t, FALSE)
    /\ Advance(t, "release")
    /\ UNCHANGED <<exported, dropped, reloadVars, semaDelta, avail,
                   producerVars, queue, closed, batcherVars>>

\* The permit is dropped after the booking, on both paths.
ReleasePermit(t) ==
    /\ t.pc = "release"
    /\ avail' = avail + 1
    /\ pool' = pool \ {t}
    /\ UNCHANGED <<reloadVars, semaDelta, healthVars, producerVars, queue,
                   closed, batcherVars>>

Flush(t) == \/ FlushExported(t) \/ FlushFailed(t) \/ FlushCompleted(t)
            \/ FlushPanicked(t) \/ ReleasePermit(t)

-----------------------------------------------------------------------------

\* Everything is shut down, or will never start: the process stays as it is.
Stopped ==
    /\ closed /\ bpc \in {"done", "dead"}
    /\ UNCHANGED vars

Next ==
    \/ \E r \in Record : SubmitCheck(r) \/ TrySend(r)
    \/ Close
    \/ Reload
    \/ Batcher
    \/ \E t \in pool : Flush(t)
    \/ Stopped

\* The batcher and the flush tasks are scheduled by the export runtime, each
\* flush ends by the client's 5 s timeout, and threads inside submit and
\* apply_target run on.  Nobody has to submit, reload or shut down.
Fairness ==
    /\ WF_vars(\E r \in Record : TrySend(r))
    /\ WF_vars(ApplyClient \/ ApplyEnable \/ ApplyWidth \/ ApplyDelta)
    /\ WF_vars(Batcher)
    /\ WF_vars(\E t \in pool : Flush(t))

Spec == Init /\ [][Next]_vars
FairSpec == Spec /\ Fairness

-----------------------------------------------------------------------------
(* Properties.                                                             *)

\* Records accepted by the channel whose fate is not yet booked.
InSend == {t \in pool : t.pc = "send"}
Pending == Range(queue) \cup buf \cup batch.recs \cup UNION {t.recs : t \in InSend}

\* Permits that exist: the free ones and one per flush task.
Permits == avail + Cardinality(pool)

Task == [recs : SUBSET Record, target : Target, gen : Nat, client : Nat,
         pc : {"send", "booked", "logging", "release"}]

\* The types of the state, among them the bounds of the channel and the buffer.
TypeOK ==
    /\ target \in Target /\ newTarget \in Target /\ enabled \in BOOLEAN
    /\ targetGen \in Nat /\ client \in Nat
    /\ maxInflight \in Width /\ newWidth \in Width
    /\ semaDelta \in Int /\ gap \in Int /\ avail \in Nat
    /\ pendingForget \in Nat /\ reloads \in 0..MaxReloads
    /\ exported \in Nat /\ failed \in Nat /\ dropped \in Nat
    /\ panicked \in Nat /\ inflight \in Int
    /\ sending \in SUBSET Record /\ refused \in SUBSET Record
    /\ offered \in SUBSET Record
    /\ queue \in Seq(Record) /\ Len(queue) <= QueueCapacity
    /\ closed \in BOOLEAN /\ due \in BOOLEAN /\ tail \in BOOLEAN
    /\ apc \in {"idle", "client", "enable", "width", "delta"}
    /\ bpc \in {"recv", "delta", "forget", "load", "client", "acquire",
                "join", "done", "dead"}
    /\ buf \in SUBSET Record
    /\ batch \in [recs : SUBSET Record, target : Target, gen : Nat, client : Nat]
    /\ pool \in SUBSET Task

\* Conservation (tests/export_pool.rs, "conservation"): every record handed to
\* try_send is waiting in exactly the places the exporter keeps records, or was
\* counted once as exported, failed or dropped.
Conservation ==
    Cardinality(offered) = Cardinality(Pending) + exported + failed + dropped

\* The exporter is the accounted sink of TurnSink: whatever the channel, the
\* batcher, the pool and the reloads do, a record handed over is taken or lost
\* at once, and what is taken is booked exactly once, with its batch.
Sink == INSTANCE TurnSink WITH held <- Pending
ImplementsSink == Sink!Spec

\* The permits that exist, less those a shrink still owes, plus the delta the
\* batcher has not taken, are the configured width, except while a reload is
\* between max_inflight.swap and sema_delta.fetch_add.
PermitAccounting ==
    Permits - pendingForget + semaDelta + gap = maxInflight

\* No shrink can take the last permit: a batcher parked on acquire is waiting
\* for a flush that holds a permit, never for nobody.
PoolNeverWedged == Permits >= 1

\* The inflight gauge counts the flush tasks that have not left their booking
\* bracket, so it never exceeds the permits that exist and never underflows.
InflightGauge ==
    inflight = Cardinality({t \in pool : t.pc # "release"})

\* "One client per endpoint generation": a batch, parked or in flight, is
\* never posted to a target through a client built for an earlier target.
ClientNotOlderThanTarget ==
    /\ \A t \in pool : t.client >= t.gen
    /\ bpc = "acquire" => batch.client >= batch.gen

\* A finished shutdown has shipped or booked everything the channel accepted
\* and left no flush running.
ShutdownShipsEverything ==
    bpc = "done" => Pending = {} /\ pool = {} /\ inflight = 0

\* Every record the exporter holds is in one place: at most once in the
\* channel, or in the buffer, in the batch being dispatched, or in one flush
\* task; no record is posted twice.
OnePlace ==
    /\ \A i, j \in 1..Len(queue) : i # j => queue[i] # queue[j]
    /\ Range(queue) \cap (buf \cup batch.recs) = {} /\ buf \cap batch.recs = {}
    /\ \A t \in pool : t.recs \cap (Range(queue) \cup buf \cup batch.recs) = {}
    /\ \A t, u \in pool : t # u => t.recs \cap u.recs = {}

\* What strengthens OnePlace to an inductive invariant: only records handed to
\* try_send are held, and a batch is never empty.
HeldWasOffered ==
    /\ sending \cap offered = {}
    /\ Range(queue) \cup buf \cup batch.recs \subseteq offered
    /\ \A t \in pool : t.recs \subseteq offered /\ t.recs # {}
    /\ IF bpc \in {"client", "acquire"} THEN batch.recs # {} /\ buf = {}
                                       ELSE batch = NoBatch
    /\ bpc = "load" => buf # {}

\* What strengthens PermitAccounting and PoolNeverWedged: only a reload in its
\* last step has a gap, and every width the batcher has seen or is about to
\* see is at least one.
PermitInv ==
    /\ IsFiniteSet(pool)
    /\ PermitAccounting
    /\ gap # 0 => apc = "delta"
    /\ Permits - pendingForget >= 1
    /\ Permits - pendingForget + semaDelta >= 1

\* What strengthens ClientNotOlderThanTarget: the client lags the target only
\* under the write lock, where no batch can load the target.
ClientInv ==
    /\ client <= targetGen
    /\ ~TargetLocked => client = targetGen
    /\ bpc = "client" => client >= batch.gen
    /\ ClientNotOlderThanTarget

\* What strengthens ShutdownShipsEverything: nothing is sent into a closed
\* channel, and the tail is taken from an empty one.
ShutdownInv ==
    /\ closed => sending = {}
    /\ tail => closed /\ queue = <<>>
    /\ bpc \in {"join", "done"} => tail /\ buf = {}
    /\ bpc = "done" => pool = {}

\* Every record the channel accepts is eventually exported, failed or dropped.
EveryRecordBooked == \A r \in Record : r \in Pending ~> r \notin Pending

\* Once reloads stop, the semaphore reaches the configured width, however many
\* permits were held when it shrank, unless the exporter was shut down first.
WidthConverges == <>[](closed \/ bpc = "dead" \/ Permits = maxInflight)

=============================================================================
