---------------------------- MODULE RequestGauges ----------------------------
(***************************************************************************)
(* The request gauges of src/lib.rs (enter_request, mark_upstream_head,    *)
(* exit_request) and a stage histogram of src/metrics.rs, updated by       *)
(* concurrent requests with relaxed atomics and read by a scrape.  Each    *)
(* atomic access is a step.  A latency is the index of its bucket; an      *)
(* index above the last bucket is beyond every bound.                      *)
(***************************************************************************)
EXTENDS Integers, Sequences, FiniteSets

CONSTANTS
    Request,      \* requests, each of which enters once
    Buckets       \* BUCKETS

ASSUME GaugesAssumption ==
    /\ IsFiniteSet(Request)
    /\ Buckets \in Nat \ {0}

Slot == 1 .. Buckets

VARIABLES
    inflight, awaiting, highWater,
    counts, count, sum,  \* a Histogram; sum counts the terms added to sum_ns
    pc, inFlight, head,  \* per request: place, enter_request's in_flight, and
                         \* whether upstream_head_ns is set
    rpc, cumulative, total, \* a scrape: the slot it reads next, its buckets, +Inf
    peak                 \* history: the largest value of inflight

gaugeVars == <<inflight, awaiting, highWater, peak>>
histVars  == <<counts, count, sum>>
scrapeVars == <<rpc, cumulative, total>>
reqVars   == <<pc, inFlight, head>>
vars == <<gaugeVars, histVars, scrapeVars, reqVars>>

Init ==
    /\ inflight = 0 /\ awaiting = 0 /\ highWater = 0 /\ peak = 0
    /\ counts = [s \in Slot |-> 0] /\ count = 0 /\ sum = 0
    /\ pc = [r \in Request |-> "new"]
    /\ inFlight = [r \in Request |-> 0]
    /\ head = [r \in Request |-> FALSE]
    /\ rpc = 1 /\ cumulative = <<>> /\ total = 0

-----------------------------------------------------------------------------
(* Expressions of the code, each after the faulty form it is checked       *)
(* against.                                                                *)

\* fetch_add returned the value before; in_flight is the one after.
InFlight == inflight + 1

\* fetch_max.
HighWaterStored(r) == inFlight[r]
HighWater(r) == IF inFlight[r] > highWater THEN inFlight[r] ELSE highWater

\* try_update with saturating_sub.
Decremented(gauge) == IF gauge > 0 THEN gauge - 1 ELSE 0

\* The awaiting slot is released once: here unless the head was seen.
ReleasesOnExitAlways(r) == TRUE
ReleasesOnExit(r) == ~head[r]

\* The bucket of a latency is the first whose bound is not below it.
CountedInSlots(latency) == [s \in Slot |-> counts[s] + (IF latency <= s THEN 1 ELSE 0)]
Counted(latency) == [s \in Slot |-> counts[s] + (IF latency = s THEN 1 ELSE 0)]

Go(r, place) == pc' = [pc EXCEPT ![r] = place]

-----------------------------------------------------------------------------
(* enter_request.                                                          *)

EnterInflight(r) ==
    /\ pc[r] = "new"
    /\ inFlight' = [inFlight EXCEPT ![r] = InFlight]
    /\ inflight' = inflight + 1
    /\ peak' = IF inflight' > peak THEN inflight' ELSE peak
    /\ Go(r, "entering")
    /\ UNCHANGED <<awaiting, highWater, histVars, scrapeVars, head>>

EnterAwaiting(r) ==
    /\ pc[r] = "entering"
    /\ awaiting' = awaiting + 1
    /\ Go(r, "entered")
    /\ UNCHANGED <<inflight, highWater, peak, histVars, scrapeVars, inFlight, head>>

EnterHighWater(r) ==
    /\ pc[r] = "entered"
    /\ highWater' = HighWater(r)
    /\ Go(r, "active")
    /\ UNCHANGED <<inflight, awaiting, peak, histVars, scrapeVars, inFlight, head>>

\* mark_upstream_head, latched: later heads change nothing.
MarkUpstreamHead(r) ==
    /\ pc[r] = "active" /\ ~head[r]
    /\ head' = [head EXCEPT ![r] = TRUE]
    /\ awaiting' = Decremented(awaiting)
    /\ UNCHANGED <<inflight, highWater, peak, histVars, scrapeVars, pc, inFlight>>

-----------------------------------------------------------------------------
(* exit_request.                                                           *)

ExitInflight(r) ==
    /\ pc[r] = "active"
    /\ inflight' = Decremented(inflight)
    /\ Go(r, "leaving")
    /\ UNCHANGED <<awaiting, highWater, peak, histVars, scrapeVars, inFlight, head>>

\* The head never arrived: its awaiting slot is released. An identified path
\* then observes the stage, if the request reached it, and makes a turn; other
\* requests are done.
ExitAwaiting(r) ==
    /\ pc[r] = "leaving"
    /\ awaiting' = IF ReleasesOnExit(r) THEN Decremented(awaiting) ELSE awaiting
    /\ \E place \in {"observe", "turn", "done"} : Go(r, place)
    /\ UNCHANGED <<inflight, highWater, peak, histVars, scrapeVars, inFlight, head>>

\* Histogram::observe: the slot, if there is one, then count, then sum_ns.
ObserveSlot(r, latency) ==
    /\ pc[r] = "observe"
    /\ counts' = Counted(latency)
    /\ Go(r, "count")
    /\ UNCHANGED <<gaugeVars, count, sum, scrapeVars, inFlight, head>>

ObserveCount(r) ==
    /\ pc[r] = "count"
    /\ count' = count + 1
    /\ Go(r, "sum")
    /\ UNCHANGED <<gaugeVars, counts, sum, scrapeVars, inFlight, head>>

ObserveSum(r) ==
    /\ pc[r] = "sum"
    /\ sum' = sum + 1
    /\ Go(r, "turn")
    /\ UNCHANGED <<gaugeVars, counts, count, scrapeVars, inFlight, head>>

-----------------------------------------------------------------------------
(* Histogram::render: the slots in order, then the count.                  *)

RenderSlot ==
    /\ rpc \in Slot
    /\ cumulative' = Append(cumulative,
                            counts[rpc] + IF rpc = 1 THEN 0 ELSE cumulative[rpc - 1])
    /\ rpc' = rpc + 1
    /\ UNCHANGED <<gaugeVars, histVars, reqVars, total>>

RenderTotal ==
    /\ rpc = Buckets + 1
    /\ total' = count
    /\ rpc' = rpc + 1
    /\ UNCHANGED <<gaugeVars, histVars, reqVars, cumulative>>

\* The next scrape starts afresh.
RenderAgain ==
    /\ rpc = Buckets + 2
    /\ rpc' = 1 /\ cumulative' = <<>> /\ total' = 0
    /\ UNCHANGED <<gaugeVars, histVars, reqVars>>

Gauges ==
    \E r \in Request :
        \/ EnterInflight(r) \/ EnterAwaiting(r) \/ EnterHighWater(r)
        \/ MarkUpstreamHead(r) \/ ExitInflight(r) \/ ExitAwaiting(r)
        \/ \E latency \in 1 .. Buckets + 1 : ObserveSlot(r, latency)
        \/ ObserveCount(r) \/ ObserveSum(r)

Render == RenderSlot \/ RenderTotal \/ RenderAgain

Next == Gauges \/ Render

Spec == Init /\ [][Next]_vars

-----------------------------------------------------------------------------
(* Properties.                                                             *)

At(places) == {r \in Request : pc[r] \in places}

\* Every variable has its type.
TypeOK ==
    /\ {inflight, awaiting, highWater, peak, count, sum, total} \subseteq Nat
    /\ counts \in [Slot -> Nat]
    /\ pc \in [Request -> {"new", "entering", "entered", "active", "frame",
                           "leaving", "observe", "count", "sum", "turn",
                           "total", "push", "submit", "done"}]
    /\ inFlight \in [Request -> 0 .. Cardinality(Request)]
    /\ head \in [Request -> BOOLEAN]
    /\ rpc \in 1 .. Buckets + 2 /\ cumulative \in Seq(Nat)

\* The gauges count the requests they stand for, at every moment: no saturating
\* subtraction ever hides a missing or a double decrement.
GaugesExact ==
    /\ inflight = Cardinality(At({"entering", "entered", "active", "frame"}))
    /\ awaiting = Cardinality({r \in At({"entered", "active", "frame", "leaving"}) :
                                  ~head[r]})

\* inflight_high_water: the largest number of requests that were ever inside,
\* as soon as no request is still entering, although requests that enter and
\* leave at the same time store their own values in any order.
HighWaterExact ==
    /\ highWater <= peak
    /\ At({"entering", "entered"}) = {} => highWater = peak

\* A scrape that runs between the slot and the count of an observation renders a
\* finite bucket above +Inf, by no more than the observations then under way.
ScrapeErrorBounded ==
    [][rpc = Buckets + 1 /\ rpc' # rpc
         => cumulative[Buckets] <= total' + Cardinality(At({"count"}))]_vars
=============================================================================
