--------------------------- MODULE RecordingProofs ---------------------------
(***************************************************************************)
(* Proofs about Recording, the request gauges and the tail of a turn under *)
(* concurrent scrapes, for every finite set of requests, any of which may  *)
(* be upgraded, and every number of buckets.                               *)
(*                                                                         *)
(* The invariant has three parts, each kept by every step: GaugeInv for    *)
(* the gauges, ScrapeInv for the histogram, and TurnInv for the counters   *)
(* of turns and records.                                                   *)
(***************************************************************************)
EXTENDS Recording, FiniteSetTheorems, TLAPS

Place == {"new", "entering", "entered", "active", "frame", "leaving", "observe",
          "count", "sum", "turn", "total", "push", "submit", "done"}

\* The requests that the two gauges stand for.
Inside == At({"entering", "entered", "active", "frame"})
Waiting == {r \in At({"entered", "active", "frame", "leaving"}) : ~head[r]}

GaugeTypeOK ==
    /\ inflight \in Nat /\ awaiting \in Nat /\ highWater \in Nat /\ peak \in Nat
    /\ pc \in [Request -> Place]
    /\ inFlight \in [Request -> 0 .. Cardinality(Request)]
    /\ head \in [Request -> BOOLEAN]

\* No head before the request is active.
HeadInv == \A r \in Request : head[r] => pc[r] \notin {"new", "entering", "entered"}

\* The largest value is stored, or some request that saw it has yet to store it.
PeakInv ==
    /\ highWater <= peak
    /\ \A r \in Request : inFlight[r] <= peak
    /\ \/ highWater = peak
       \/ \E r \in At({"entering", "entered"}) : inFlight[r] = peak

GaugeInv == GaugeTypeOK /\ HeadInv /\ PeakInv /\ GaugesExact

-----------------------------------------------------------------------------
(* The gauges.                                                             *)

\* Any set of requests is finite and counted.
LEMMA Finite ==
    ASSUME NEW S \in SUBSET Request
    PROVE  IsFiniteSet(S) /\ Cardinality(S) \in Nat /\ Cardinality(S) <= Cardinality(Request)
  BY GaugesAssumption, FS_Subset, FS_CardinalityType

LEMMA InitGauges == Init => GaugeInv
  <1>. SUFFICES ASSUME Init PROVE GaugeInv
    OBVIOUS
  <1>1. Cardinality(Request) \in Nat
    BY GaugesAssumption, FS_CardinalityType
  <1>2. Inside = {} /\ Waiting = {}
    BY DEF Init, Inside, Waiting, At
  <1>3. GaugesExact
    BY <1>2, FS_EmptySet DEF Init, GaugesExact, Inside, Waiting
  <1>4. head \in [Request -> BOOLEAN]
    BY Zenon DEF Init
  <1>. QED BY <1>1, <1>3, <1>4 DEF Init, GaugeInv, GaugeTypeOK, HeadInv, PeakInv, Place

\* A step that moves a request between places that the gauges do not tell apart.
LEMMA ElsewhereInv ==
    ASSUME GaugeInv, NEW r \in Request, NEW place \in Place, Go(r, place),
           UNCHANGED <<gaugeVars, inFlight, head>>,
           \/ /\ pc[r] \in {"observe", "count", "sum", "turn", "total", "push", "submit"}
              /\ place \in {"observe", "count", "sum", "turn", "total", "push", "submit", "done"}
           \/ pc[r] \in {"active", "frame"} /\ place \in {"active", "frame"}
    PROVE  GaugeInv'
  <1>. USE DEF GaugeInv, gaugeVars
  <1>1. GaugeTypeOK'
    BY DEF GaugeTypeOK, Go
  <1>2. HeadInv'
    BY DEF GaugeTypeOK, HeadInv, Go
  <1>3. At({"entering", "entered"})' = At({"entering", "entered"})
    BY DEF GaugeTypeOK, Go, At
  <1>4. PeakInv'
    BY <1>3 DEF PeakInv
  <1>5. Inside' = Inside /\ Waiting' = Waiting
    BY DEF GaugeTypeOK, Go, At, Inside, Waiting
  <1>6. GaugesExact'
    BY <1>5 DEF GaugesExact, Inside, Waiting
  <1>. QED BY <1>1, <1>2, <1>4, <1>6

LEMMA EnterInflightInv ==
    ASSUME GaugeInv, NEW r \in Request, EnterInflight(r)
    PROVE  GaugeInv'
  <1>. USE DEF GaugeInv
  <1>1. /\ Inside' = Inside \cup {r} /\ r \notin Inside /\ Waiting' = Waiting
        /\ Inside \in SUBSET Request /\ Inside' \in SUBSET Request
    BY DEF GaugeTypeOK, EnterInflight, Go, At, Inside, Waiting
  <1>2. inflight = Cardinality(Inside) /\ awaiting = Cardinality(Waiting)
    BY DEF GaugesExact, Inside, Waiting
  <1>3. Cardinality(Inside') = Cardinality(Inside) + 1
    BY <1>1, Finite, FS_AddElement
  <1>4. GaugesExact'
    BY <1>1, <1>2, <1>3 DEF EnterInflight, GaugesExact, Inside, Waiting
  <1>5. inflight + 1 \in 0 .. Cardinality(Request)
    BY <1>1, <1>2, <1>3, Finite DEF GaugeTypeOK
  <1>6. GaugeTypeOK'
    BY <1>5 DEF GaugeTypeOK, EnterInflight, InFlight, Go, Place
  <1>7. HeadInv'
    BY DEF GaugeTypeOK, HeadInv, EnterInflight, Go
  <1>8. PeakInv'
    <2>1. /\ inFlight'[r] = inflight + 1 /\ pc'[r] = "entering"
          /\ \A q \in Request : q # r => inFlight'[q] = inFlight[q] /\ pc'[q] = pc[q]
          /\ pc[r] = "new" /\ highWater' = highWater
          /\ peak' = IF inflight + 1 > peak THEN inflight + 1 ELSE peak
      BY DEF GaugeTypeOK, EnterInflight, InFlight, Go
    <2>2. peak \in Nat /\ inflight \in Nat /\ highWater \in Nat /\ highWater <= peak
      BY DEF GaugeTypeOK, PeakInv
    <2>3. ASSUME NEW q \in Request PROVE inFlight'[q] <= peak'
      BY <2>1, <2>2, <1>5 DEF GaugeTypeOK, PeakInv
    <2>4. CASE inflight + 1 > peak
      BY <2>1, <2>2, <2>3, <2>4 DEF PeakInv, At
    <2>5. CASE ~(inflight + 1 > peak)
      BY <2>1, <2>2, <2>3, <2>5 DEF PeakInv, At
    <2>. QED BY <2>4, <2>5
  <1>. QED BY <1>4, <1>6, <1>7, <1>8

LEMMA EnterAwaitingInv ==
    ASSUME GaugeInv, NEW r \in Request, EnterAwaiting(r)
    PROVE  GaugeInv'
  <1>. USE DEF GaugeInv
  <1>0. pc[r] = "entering" /\ ~head[r]
    BY DEF EnterAwaiting, HeadInv
  <1>1. /\ Waiting' = Waiting \cup {r} /\ r \notin Waiting /\ Inside' = Inside
        /\ Waiting \in SUBSET Request
    BY <1>0 DEF GaugeTypeOK, EnterAwaiting, Go, At, Inside, Waiting
  <1>2. inflight = Cardinality(Inside) /\ awaiting = Cardinality(Waiting)
    BY DEF GaugesExact, Inside, Waiting
  <1>3. Cardinality(Waiting') = Cardinality(Waiting) + 1
    BY <1>1, Finite, FS_AddElement
  <1>4. GaugesExact'
    BY <1>1, <1>2, <1>3 DEF EnterAwaiting, GaugesExact, Inside, Waiting
  <1>5. GaugeTypeOK'
    BY DEF GaugeTypeOK, EnterAwaiting, Go, Place
  <1>6. HeadInv'
    BY <1>0 DEF GaugeTypeOK, HeadInv, EnterAwaiting, Go
  <1>7. At({"entering", "entered"})' = At({"entering", "entered"})
    BY DEF GaugeTypeOK, EnterAwaiting, Go, At
  <1>8. PeakInv'
    BY <1>7 DEF PeakInv, EnterAwaiting
  <1>. QED BY <1>4, <1>5, <1>6, <1>8

LEMMA EnterHighWaterInv ==
    ASSUME GaugeInv, NEW r \in Request, EnterHighWater(r)
    PROVE  GaugeInv'
  <1>. USE DEF GaugeInv
  <1>0. pc[r] = "entered"
    BY DEF EnterHighWater
  <1>1. Waiting' = Waiting /\ Inside' = Inside
    BY <1>0 DEF GaugeTypeOK, EnterHighWater, Go, At, Inside, Waiting
  <1>2. GaugesExact'
    BY <1>1 DEF EnterHighWater, GaugesExact, Inside, Waiting
  <1>3. inFlight[r] \in Nat /\ highWater \in Nat /\ peak \in Nat
    BY Finite DEF GaugeTypeOK
  <1>4. GaugeTypeOK'
    BY <1>3 DEF GaugeTypeOK, EnterHighWater, HighWater, Go, Place
  <1>5. HeadInv'
    BY DEF GaugeTypeOK, HeadInv, EnterHighWater, Go
  <1>6. /\ UNCHANGED <<peak, inFlight>>
        /\ highWater' = IF inFlight[r] > highWater THEN inFlight[r] ELSE highWater
        /\ \A q \in Request : q # r => pc'[q] = pc[q]
    BY DEF GaugeTypeOK, EnterHighWater, HighWater, Go
  <1>7. highWater <= peak /\ inFlight[r] <= peak
    BY DEF PeakInv
  <1>8. PeakInv'
    <2>1. CASE highWater = peak
      BY <1>3, <1>6, <1>7, <2>1 DEF PeakInv
    <2>2. CASE inFlight[r] = peak
      BY <1>3, <1>6, <1>7, <2>2 DEF PeakInv
    <2>3. CASE highWater # peak /\ inFlight[r] # peak
      <3>1. PICK q \in At({"entering", "entered"}) : inFlight[q] = peak
        BY <2>3 DEF PeakInv
      <3>2. q \in At({"entering", "entered"})'
        BY <1>6, <2>3, <3>1 DEF At
      <3>. QED BY <1>3, <1>6, <1>7, <3>1, <3>2 DEF PeakInv
    <2>. QED BY <2>1, <2>2, <2>3
  <1>. QED BY <1>2, <1>4, <1>5, <1>8

\* The awaiting slot of a request is given back, once.
LEMMA MarkUpstreamHeadInv ==
    ASSUME GaugeInv, NEW r \in Request, MarkUpstreamHead(r)
    PROVE  GaugeInv'
  <1>. USE DEF GaugeInv
  <1>0. pc[r] = "active" /\ ~head[r] /\ head'[r]
        /\ \A q \in Request : q # r => head'[q] = head[q]
    BY DEF GaugeTypeOK, MarkUpstreamHead
  <1>1. /\ Waiting' = Waiting \ {r} /\ r \in Waiting /\ Inside' = Inside
        /\ Waiting \in SUBSET Request
    BY <1>0 DEF MarkUpstreamHead, At, Inside, Waiting
  <1>2. inflight = Cardinality(Inside) /\ awaiting = Cardinality(Waiting)
    BY DEF GaugesExact, Inside, Waiting
  <1>3. Cardinality(Waiting') = Cardinality(Waiting) - 1 /\ Cardinality(Waiting') \in Nat
    BY <1>1, Finite, FS_RemoveElement
  <1>4. GaugesExact'
    BY <1>1, <1>2, <1>3 DEF GaugeTypeOK, MarkUpstreamHead, Decremented, GaugesExact,
                            Inside, Waiting
  <1>5. head' \in [Request -> BOOLEAN]
    BY Zenon DEF GaugeTypeOK, MarkUpstreamHead
  <1>6. GaugeTypeOK'
    BY <1>5 DEF GaugeTypeOK, MarkUpstreamHead, Decremented
  <1>7. HeadInv'
    BY <1>0 DEF HeadInv, MarkUpstreamHead
  <1>8. PeakInv'
    BY DEF PeakInv, MarkUpstreamHead, At
  <1>. QED BY <1>4, <1>6, <1>7, <1>8

LEMMA ExitInflightInv ==
    ASSUME GaugeInv, NEW r \in Request, ExitInflight(r)
    PROVE  GaugeInv'
  <1>. USE DEF GaugeInv
  <1>1. /\ Inside' = Inside \ {r} /\ r \in Inside /\ Waiting' = Waiting
        /\ Inside \in SUBSET Request
    BY DEF GaugeTypeOK, ExitInflight, Go, At, Inside, Waiting
  <1>2. inflight = Cardinality(Inside) /\ awaiting = Cardinality(Waiting)
    BY DEF GaugesExact, Inside, Waiting
  <1>3. Cardinality(Inside') = Cardinality(Inside) - 1 /\ Cardinality(Inside') \in Nat
    BY <1>1, Finite, FS_RemoveElement
  <1>4. GaugesExact'
    BY <1>1, <1>2, <1>3 DEF GaugeTypeOK, ExitInflight, Decremented, GaugesExact,
                            Inside, Waiting
  <1>5. GaugeTypeOK'
    BY DEF GaugeTypeOK, ExitInflight, Decremented, Go, Place
  <1>6. HeadInv'
    BY DEF GaugeTypeOK, HeadInv, ExitInflight, Go
  <1>7. At({"entering", "entered"})' = At({"entering", "entered"})
    BY DEF GaugeTypeOK, ExitInflight, Go, At
  <1>8. PeakInv'
    BY <1>7 DEF PeakInv, ExitInflight
  <1>. QED BY <1>4, <1>5, <1>6, <1>8

LEMMA ExitAwaitingInv ==
    ASSUME GaugeInv, NEW r \in Request, ExitAwaiting(r)
    PROVE  GaugeInv'
  <1>. USE DEF GaugeInv
  <1>0. PICK place \in {"observe", "turn", "done"} : Go(r, place)
    BY DEF ExitAwaiting
  <1>1. /\ Waiting' = Waiting \ {r} /\ (r \in Waiting <=> ~head[r])
        /\ Inside' = Inside /\ Waiting \in SUBSET Request
    BY <1>0 DEF GaugeTypeOK, ExitAwaiting, Go, At, Inside, Waiting
  <1>2. inflight = Cardinality(Inside) /\ awaiting = Cardinality(Waiting)
    BY DEF GaugesExact, Inside, Waiting
  <1>3. /\ Cardinality(Waiting') = IF r \in Waiting THEN Cardinality(Waiting) - 1
                                                    ELSE Cardinality(Waiting)
        /\ Cardinality(Waiting') \in Nat
    BY <1>1, Finite, FS_RemoveElement
  <1>4. awaiting' = Cardinality(Waiting')
    BY <1>1, <1>2, <1>3 DEF GaugeTypeOK, ExitAwaiting, ReleasesOnExit, Decremented
  <1>5. GaugesExact'
    BY <1>1, <1>2, <1>4 DEF ExitAwaiting, GaugesExact, Inside, Waiting
  <1>6. GaugeTypeOK'
    BY <1>0, <1>3, <1>4 DEF GaugeTypeOK, ExitAwaiting, Go, Place
  <1>7. HeadInv'
    BY <1>0 DEF GaugeTypeOK, HeadInv, ExitAwaiting, Go
  <1>8. At({"entering", "entered"})' = At({"entering", "entered"})
    BY <1>0 DEF GaugeTypeOK, ExitAwaiting, Go, At
  <1>9. PeakInv'
    BY <1>8 DEF PeakInv, ExitAwaiting
  <1>. QED BY <1>5, <1>6, <1>7, <1>9

\* A step of which the gauges see nothing.
LEMMA GaugesUnseen ==
    GaugeInv /\ UNCHANGED <<gaugeVars, reqVars>> => GaugeInv'
  <1>. SUFFICES ASSUME GaugeInv, UNCHANGED <<gaugeVars, reqVars>> PROVE GaugeInv'
    OBVIOUS
  <1>. QED BY DEF gaugeVars, reqVars, GaugeInv, GaugeTypeOK, HeadInv, PeakInv, GaugesExact, At

\* The steps after exit_request and of a connection: they keep the gauges.
LEMMA TurnMoves ==
    ASSUME NEW r \in Request,
           \/ TurnAssembles(r) \/ TurnCounted(r) \/ TurnStored(r) \/ TurnSubmitted(r)
           \/ WsStored(r) \/ WsSubmitted(r)
    PROVE  /\ UNCHANGED requestVars
           /\ \E place \in Place :
                /\ Go(r, place)
                /\ \/ pc[r] \in {"turn", "total", "push", "submit"}
                      /\ place \in {"total", "push", "submit", "done"}
                   \/ pc[r] \in {"active", "frame"} /\ place \in {"active", "frame"}
  BY DEF TurnAssembles, TurnBegins, TurnCounted, TurnStored, TurnSubmitted, WsStored,
         WsSubmitted, Place

LEMMA GaugesStep == GaugeInv /\ [RecordingNext]_recordingVars => GaugeInv'
  <1>. SUFFICES ASSUME GaugeInv, [RecordingNext]_recordingVars PROVE GaugeInv'
    OBVIOUS
  <1>1. CASE Gauges
    <2>1. PICK r \in Request :
            \/ EnterInflight(r) \/ EnterAwaiting(r) \/ EnterHighWater(r)
            \/ MarkUpstreamHead(r) \/ ExitInflight(r) \/ ExitAwaiting(r)
            \/ \E latency \in 1 .. Buckets + 1 : ObserveSlot(r, latency)
            \/ ObserveCount(r) \/ ObserveSum(r)
      BY <1>1 DEF Gauges
    <2>2. CASE \/ \E latency \in 1 .. Buckets + 1 : ObserveSlot(r, latency)
               \/ ObserveCount(r) \/ ObserveSum(r)
      <3>1. PICK place \in {"count", "sum", "turn"} :
              /\ Go(r, place) /\ pc[r] \in {"observe", "count", "sum"}
              /\ UNCHANGED <<gaugeVars, inFlight, head>>
        BY <2>2 DEF ObserveSlot, ObserveCount, ObserveSum
      <3>. QED BY <3>1, ElsewhereInv DEF Place
    <2>. QED
      BY <2>1, <2>2, EnterInflightInv, EnterAwaitingInv, EnterHighWaterInv,
         MarkUpstreamHeadInv, ExitInflightInv, ExitAwaitingInv
  <1>2. CASE \E r \in Request :
               \/ TurnAssembles(r) \/ TurnCounted(r) \/ TurnStored(r) \/ TurnSubmitted(r)
               \/ WsStored(r) \/ WsSubmitted(r)
    BY <1>2, TurnMoves, ElsewhereInv DEF requestVars
  <1>3. CASE Export \/ ReadExporter \/ ReadTurns \/ UNCHANGED recordingVars
    BY <1>3, GaugesUnseen DEF Export, ReadExporter, ReadTurns, recordingVars, vars
  <1>4. CASE ReadHistograms
    BY <1>4, GaugesUnseen DEF ReadHistograms, Render, RenderSlot, RenderTotal, RenderAgain
  <1>. QED BY <1>1, <1>2, <1>3, <1>4 DEF RecordingNext

-----------------------------------------------------------------------------
(* The histogram and its scrape.                                           *)

\* P sums the slots of the histogram.
Sums(P) ==
    /\ P \in [0 .. Buckets -> Nat] /\ P[0] = 0
    /\ \A s \in Slot : P[s] = P[s - 1] + counts[s]

ScrapeTypeOK ==
    /\ counts \in [Slot -> Nat] /\ count \in Nat /\ sum \in Nat /\ total \in Nat
    /\ rpc \in 1 .. Buckets + 2 /\ cumulative \in Seq(Nat)
    /\ Len(cumulative) = IF rpc = Buckets + 2 THEN Buckets ELSE rpc - 1

Observed == count + Cardinality(At({"count"}))

\* No more is in the slots than was observed, and a bucket that was rendered is
\* not above the sum of the slots up to it.
SumsInv ==
    \E P : /\ Sums(P)
           /\ P[Buckets] <= Observed
           /\ \A s \in 1 .. Len(cumulative) : cumulative[s] <= P[s]

ScrapeInv == ScrapeTypeOK /\ SumsInv

LEMMA ObservedNat == ScrapeTypeOK => Observed \in Nat
  BY Finite DEF ScrapeTypeOK, Observed, At

LEMMA InitScrape == Init => ScrapeInv
  <1>. SUFFICES ASSUME Init PROVE ScrapeInv
    OBVIOUS
  <1>. USE GaugesAssumption DEF Slot
  <1>1. ScrapeTypeOK
    BY DEF Init, ScrapeTypeOK
  <1>. DEFINE P == [s \in 0 .. Buckets |-> 0]
  <1>2. Sums(P)
    BY DEF Init, Sums
  <1>3. P[Buckets] = 0
    OBVIOUS
  <1>. HIDE DEF P
  <1>4. Observed \in Nat
    BY <1>1, ObservedNat
  <1>. QED BY <1>1, <1>2, <1>3, <1>4 DEF ScrapeInv, SumsInv, Init

\* A step that leaves the histogram and the scrape alone, and no fewer requests
\* between the slot and the count.
LEMMA ScrapeUnseen ==
    ASSUME ScrapeInv, UNCHANGED <<histVars, scrapeVars>>, At({"count"})' = At({"count"})
    PROVE  ScrapeInv'
  BY DEF ScrapeInv, ScrapeTypeOK, SumsInv, Sums, Observed, histVars, scrapeVars

LEMMA ObserveSlotScrape ==
    ASSUME ScrapeInv, GaugeInv, NEW r \in Request, NEW latency \in 1 .. Buckets + 1,
           ObserveSlot(r, latency)
    PROVE  ScrapeInv'
  <1>. USE GaugesAssumption DEF Slot
  <1>1. PICK P : /\ Sums(P)
                 /\ P[Buckets] <= Observed
                 /\ \A s \in 1 .. Len(cumulative) : cumulative[s] <= P[s]
    BY DEF ScrapeInv, SumsInv
  <1>. DEFINE Q == [s \in 0 .. Buckets |-> P[s] + IF latency <= s THEN 1 ELSE 0]
  <1>2. ScrapeTypeOK'
    BY DEF ScrapeInv, ScrapeTypeOK, ObserveSlot, Counted, scrapeVars
  <1>3. Sums(Q)'
    <2>1. P \in [0 .. Buckets -> Nat] /\ P[0] = 0 /\ counts \in [Slot -> Nat]
      BY <1>1 DEF Sums, ScrapeInv, ScrapeTypeOK
    <2>2. Q \in [0 .. Buckets -> Nat] /\ Q[0] = 0
      BY <2>1
    <2>3. ASSUME NEW s \in Slot PROVE Q[s] = Q[s - 1] + counts'[s]
      <3>1. P[s] = P[s - 1] + counts[s] /\ P[s - 1] \in Nat /\ counts[s] \in Nat
        BY <1>1, <2>1 DEF Sums
      <3>2. counts'[s] = counts[s] + IF latency = s THEN 1 ELSE 0
        BY DEF ObserveSlot, Counted
      <3>3. /\ Q[s] = P[s] + IF latency <= s THEN 1 ELSE 0
            /\ Q[s - 1] = P[s - 1] + IF latency <= s - 1 THEN 1 ELSE 0
        OBVIOUS
      <3>. HIDE DEF Q
      <3>. QED BY <3>1, <3>2, <3>3
    <2>. HIDE DEF Q
    <2>. QED BY <2>2, <2>3 DEF Sums
  <1>4. Observed' = Observed + 1 /\ Observed \in Nat
    <2>1. /\ At({"count"})' = At({"count"}) \cup {r} /\ r \notin At({"count"})
          /\ At({"count"}) \in SUBSET Request
      BY DEF ObserveSlot, Go, At, GaugeInv, GaugeTypeOK
    <2>2. Cardinality(At({"count"})') = Cardinality(At({"count"})) + 1
      BY <2>1, Finite, FS_AddElement
    <2>3. count' = count /\ count \in Nat /\ Cardinality(At({"count"})) \in Nat
      BY <2>1, Finite DEF ObserveSlot, ScrapeInv, ScrapeTypeOK
    <2>. QED BY <2>2, <2>3 DEF Observed
  <1>5. Q[Buckets] <= Observed'
    BY <1>1, <1>4 DEF Sums
  <1>6. ASSUME NEW s \in 1 .. Len(cumulative') PROVE cumulative'[s] <= Q[s]
    <2>1. s \in 1 .. Len(cumulative) /\ cumulative' = cumulative /\ s \in 0 .. Buckets
      BY DEF ObserveSlot, scrapeVars, ScrapeInv, ScrapeTypeOK
    <2>2. cumulative \in Seq(Nat) /\ P \in [0 .. Buckets -> Nat]
      BY <1>1 DEF Sums, ScrapeInv, ScrapeTypeOK
    <2>3. cumulative[s] <= P[s] /\ P[s] \in Nat /\ cumulative[s] \in Nat
      BY <1>1, <2>1, <2>2
    <2>. QED BY <2>1, <2>3
  <1>. HIDE DEF Q
  <1>. QED BY <1>2, <1>3, <1>5, <1>6 DEF ScrapeInv, SumsInv

LEMMA ObserveCountScrape ==
    ASSUME ScrapeInv, GaugeInv, NEW r \in Request, ObserveCount(r)
    PROVE  ScrapeInv'
  <1>1. /\ At({"count"})' = At({"count"}) \ {r} /\ r \in At({"count"})
        /\ At({"count"}) \in SUBSET Request
    BY DEF ObserveCount, Go, At, GaugeInv, GaugeTypeOK
  <1>2. Cardinality(At({"count"})') = Cardinality(At({"count"})) - 1
    BY <1>1, Finite, FS_RemoveElement
  <1>3. Observed' = Observed
    BY <1>1, <1>2, Finite DEF Observed, ObserveCount, ScrapeInv, ScrapeTypeOK
  <1>4. ScrapeTypeOK'
    BY DEF ScrapeInv, ScrapeTypeOK, ObserveCount, scrapeVars
  <1>. QED BY <1>3, <1>4 DEF ScrapeInv, SumsInv, Sums, ObserveCount, scrapeVars

LEMMA RenderScrape == ScrapeInv /\ Render => ScrapeInv'
  <1>. SUFFICES ASSUME ScrapeInv, Render PROVE ScrapeInv'
    OBVIOUS
  <1>. USE GaugesAssumption DEF Slot
  <1>1. PICK P : /\ Sums(P)
                 /\ P[Buckets] <= Observed
                 /\ \A s \in 1 .. Len(cumulative) : cumulative[s] <= P[s]
    BY DEF ScrapeInv, SumsInv
  <1>2. UNCHANGED <<histVars, reqVars>>
    BY DEF Render, RenderSlot, RenderTotal, RenderAgain
  <1>3. Sums(P)' /\ Observed' = Observed
    BY <1>1, <1>2 DEF histVars, reqVars, Sums, Observed, At
  <1>4. CASE RenderSlot
    <2>0. /\ rpc \in Slot /\ rpc' = rpc + 1 /\ Len(cumulative) = rpc - 1
          /\ cumulative \in Seq(Nat)
      BY <1>4 DEF RenderSlot, ScrapeInv, ScrapeTypeOK
    <2>. DEFINE v == counts[rpc] + IF rpc = 1 THEN 0 ELSE cumulative[rpc - 1]
    <2>1. v \in Nat /\ v <= P[rpc]
      <3>1. counts[rpc] \in Nat /\ P[rpc] = P[rpc - 1] + counts[rpc] /\ P[rpc - 1] \in Nat
        BY <1>1, <2>0 DEF Sums, ScrapeInv, ScrapeTypeOK
      <3>2. CASE rpc = 1
        BY <3>1, <3>2
      <3>3. CASE rpc # 1
        <4>1. cumulative[rpc - 1] \in Nat /\ cumulative[rpc - 1] <= P[rpc - 1]
          BY <1>1, <2>0, <3>3
        <4>. QED BY <3>1, <3>3, <4>1
      <3>. QED BY <3>2, <3>3
    <2>2. cumulative' = Append(cumulative, v)
      BY <1>4 DEF RenderSlot
    <2>. HIDE DEF v
    <2>3. /\ cumulative' \in Seq(Nat) /\ Len(cumulative') = rpc
          /\ \A s \in 1 .. Len(cumulative') : cumulative'[s] <= P[s]
      BY <1>1, <2>0, <2>1, <2>2
    <2>4. ScrapeTypeOK'
      BY <1>2, <1>4, <2>0, <2>3 DEF RenderSlot, ScrapeInv, ScrapeTypeOK, histVars
    <2>. QED BY <1>1, <1>3, <2>3, <2>4 DEF ScrapeInv, SumsInv
  <1>5. CASE RenderTotal
    <2>1. ScrapeTypeOK'
      BY <1>2, <1>5 DEF RenderTotal, ScrapeInv, ScrapeTypeOK, histVars
    <2>. QED BY <1>1, <1>3, <1>5, <2>1 DEF RenderTotal, ScrapeInv, SumsInv
  <1>6. CASE RenderAgain
    <2>1. ScrapeTypeOK'
      BY <1>2, <1>6 DEF RenderAgain, ScrapeInv, ScrapeTypeOK, histVars
    <2>. QED BY <1>1, <1>3, <1>6, <2>1 DEF RenderAgain, ScrapeInv, SumsInv
  <1>. QED BY <1>4, <1>5, <1>6 DEF Render

\* A move between places other than "count".
LEMMA NotCounting ==
    ASSUME GaugeInv, NEW r \in Request, NEW place \in Place, Go(r, place),
           pc[r] # "count", place # "count"
    PROVE  At({"count"})' = At({"count"})
  BY DEF GaugeInv, GaugeTypeOK, Go, At

LEMMA ScrapeStep ==
    GaugeInv /\ ScrapeInv /\ [RecordingNext]_recordingVars => ScrapeInv'
  <1>. SUFFICES ASSUME GaugeInv, ScrapeInv, [RecordingNext]_recordingVars PROVE ScrapeInv'
    OBVIOUS
  <1>1. CASE Gauges
    <2>1. PICK r \in Request :
            \/ EnterInflight(r) \/ EnterAwaiting(r) \/ EnterHighWater(r)
            \/ MarkUpstreamHead(r) \/ ExitInflight(r) \/ ExitAwaiting(r)
            \/ \E latency \in 1 .. Buckets + 1 : ObserveSlot(r, latency)
            \/ ObserveCount(r) \/ ObserveSum(r)
      BY <1>1 DEF Gauges
    <2>2. CASE MarkUpstreamHead(r)
      BY <2>2, ScrapeUnseen DEF MarkUpstreamHead, At
    <2>3. CASE ObserveSum(r)
      <3>1. At({"count"})' = At({"count"})
        BY <2>3, NotCounting DEF ObserveSum, Place
      <3>2. UNCHANGED <<counts, count, rpc, cumulative, total>> /\ sum' = sum + 1
        BY <2>3 DEF ObserveSum, scrapeVars
      <3>3. ScrapeTypeOK'
        BY <3>2 DEF ScrapeInv, ScrapeTypeOK
      <3>4. SumsInv'
        BY <3>1, <3>2 DEF ScrapeInv, SumsInv, Sums, Observed
      <3>. QED BY <3>3, <3>4 DEF ScrapeInv
    <2>4. CASE \/ EnterInflight(r) \/ EnterAwaiting(r) \/ EnterHighWater(r)
               \/ ExitInflight(r) \/ ExitAwaiting(r)
      <3>1. UNCHANGED <<histVars, scrapeVars>> /\ pc[r] # "count"
        BY <2>4 DEF EnterInflight, EnterAwaiting, EnterHighWater, ExitInflight, ExitAwaiting
      <3>2. \E place \in Place : Go(r, place) /\ place # "count"
        BY <2>4 DEF EnterInflight, EnterAwaiting, EnterHighWater, ExitInflight, ExitAwaiting,
                    Place
      <3>. QED BY <3>1, <3>2, NotCounting, ScrapeUnseen
    <2>. QED BY <2>1, <2>2, <2>3, <2>4, ObserveSlotScrape, ObserveCountScrape
  <1>2. CASE \E r \in Request :
               \/ TurnAssembles(r) \/ TurnCounted(r) \/ TurnStored(r) \/ TurnSubmitted(r)
               \/ WsStored(r) \/ WsSubmitted(r)
    BY <1>2, TurnMoves, NotCounting, ScrapeUnseen DEF requestVars
  <1>3. CASE Export \/ ReadExporter \/ ReadTurns \/ UNCHANGED recordingVars
    BY <1>3, ScrapeUnseen DEF Export, ReadExporter, ReadTurns, recordingVars, vars, reqVars, At
  <1>4. CASE ReadHistograms
    BY <1>4, RenderScrape DEF ReadHistograms
  <1>. QED BY <1>1, <1>2, <1>3, <1>4 DEF RecordingNext

-----------------------------------------------------------------------------
(* The counters of turns and records.                                      *)

SinkRecord == Request \X {"http", "ws"}

\* The records of requests whose turn was counted and that are on their way to the
\* exporter or have reached it, and those of connections that have.
CountedTurns ==
    {w \in Request \X {"http"} : pc[w[1]] \in {"push", "submit"} \/ w \in offered}
FromSockets == {w \in offered : w[2] = "ws"}

\* Everything offered is held or was booked once.
SinkInv ==
    /\ offered \in SUBSET SinkRecord /\ held \in SUBSET offered
    /\ exported \in Nat /\ failed \in Nat /\ dropped \in Nat
    /\ Cardinality(offered) = Cardinality(held) + exported + failed + dropped

\* A record of a request is offered last, when its turn has been counted.
OfferInv ==
    /\ turnsTotal \in Nat
    /\ \A r \in Request : <<r, "http">> \in offered => pc[r] = "done"
    /\ Cardinality(CountedTurns) <= turnsTotal

\* A scrape has read no more than there now is.
ReadInv ==
    /\ booked \in Nat /\ cpc \in 1 .. 5
    /\ cpc \in {1, 5} => booked = 0
    /\ cpc = 2 => booked <= exported
    /\ cpc = 3 => booked <= exported + failed
    /\ cpc = 4 => booked <= exported + failed + dropped

TurnInv == SinkInv /\ OfferInv /\ ReadInv

LEMMA FiniteRecords ==
    ASSUME NEW S \in SUBSET SinkRecord
    PROVE  IsFiniteSet(S) /\ Cardinality(S) \in Nat
  <1>1. IsFiniteSet({"http", "ws"})
    <2>1. IsFiniteSet({"http"})
      BY FS_Singleton
    <2>2. IsFiniteSet({"http"} \cup {"ws"})
      BY <2>1, FS_AddElement
    <2>3. {"http"} \cup {"ws"} = {"http", "ws"}
      OBVIOUS
    <2>. QED BY <2>2, <2>3
  <1>2. IsFiniteSet(SinkRecord)
    BY <1>1, GaugesAssumption, FS_Product DEF SinkRecord
  <1>. QED BY <1>2, FS_Subset, FS_CardinalityType

LEMMA InitTurns == RecordingInit => TurnInv
  <1>. SUFFICES ASSUME RecordingInit PROVE TurnInv
    OBVIOUS
  <1>1. CountedTurns = {}
    BY DEF RecordingInit, Init, Sink!Init, CountedTurns
  <1>. QED BY <1>1, FS_EmptySet DEF RecordingInit, Sink!Init, TurnInv, SinkInv, OfferInv, ReadInv

\* What the exporter's counters may do: grow.
CountersGrow == exported' >= exported /\ failed' >= failed /\ dropped' >= dropped

LEMMA OfferSink ==
    ASSUME SinkInv, NEW w \in SinkRecord, Sink!Offer(w)
    PROVE  SinkInv' /\ CountersGrow
  <1>1. /\ w \notin offered /\ offered' = offered \cup {w} /\ w \notin held
        /\ held \in SUBSET SinkRecord /\ UNCHANGED <<exported, failed>>
    BY DEF SinkInv, Sink!Offer
  <1>2. /\ Cardinality(offered') = Cardinality(offered) + 1 /\ Cardinality(offered) \in Nat
        /\ Cardinality(held \cup {w}) = Cardinality(held) + 1 /\ Cardinality(held) \in Nat
    BY <1>1, FiniteRecords, FS_AddElement DEF SinkInv
  <1>3. CASE held' = held \cup {w} /\ UNCHANGED dropped
    BY <1>1, <1>2, <1>3 DEF SinkInv, CountersGrow
  <1>4. CASE dropped' = dropped + 1 /\ UNCHANGED held
    BY <1>1, <1>2, <1>4 DEF SinkInv, CountersGrow
  <1>. QED BY <1>3, <1>4 DEF Sink!Offer

LEMMA SinkCardinality ==
    ASSUME NEW S PROVE Sink!Cardinality(S) = Cardinality(S)
  BY DEF Sink!Cardinality, Cardinality

LEMMA BookSink ==
    ASSUME SinkInv, NEW S \in SUBSET held, Sink!Book(S)
    PROVE  SinkInv' /\ CountersGrow
  <1>1. /\ S \in SUBSET SinkRecord /\ held \in SUBSET SinkRecord /\ held \ S \in SUBSET offered
        /\ held' = held \ S /\ UNCHANGED offered
    BY DEF SinkInv, Sink!Book
  <1>2. /\ Cardinality(held) = Cardinality(held \ S) + Cardinality(S)
        /\ Cardinality(S) \in Nat /\ Cardinality(held \ S) \in Nat
    <2>1. /\ IsFiniteSet(S) /\ Cardinality(S) \in Nat /\ IsFiniteSet(held)
          /\ IsFiniteSet(held \ S) /\ Cardinality(held \ S) \in Nat
      BY <1>1, FiniteRecords
    <2>2. held \cap S = S
      OBVIOUS
    <2>3. Cardinality(held \ S) = Cardinality(held) - Cardinality(S)
      BY <2>1, <2>2, FS_Difference
    <2>. QED BY <2>1, <2>3, FS_CardinalityType
  <1>3. CASE exported' = exported + Cardinality(S) /\ UNCHANGED <<failed, dropped>>
    BY <1>1, <1>2, <1>3 DEF SinkInv, CountersGrow
  <1>4. CASE failed' = failed + Cardinality(S) /\ UNCHANGED <<exported, dropped>>
    BY <1>1, <1>2, <1>4 DEF SinkInv, CountersGrow
  <1>5. CASE dropped' = dropped + Cardinality(S) /\ UNCHANGED <<exported, failed>>
    BY <1>1, <1>2, <1>5 DEF SinkInv, CountersGrow
  <1>6. Sink!Cardinality(S) = Cardinality(S)
    BY SinkCardinality
  <1>. QED BY <1>3, <1>4, <1>5, <1>6 DEF Sink!Book

LEMMA StillSink == SinkInv /\ UNCHANGED sinkVars => SinkInv' /\ CountersGrow
  BY DEF sinkVars, SinkInv, CountersGrow

\* Counters that grow stay above what was read of them.
LEMMA GrownRead == SinkInv /\ SinkInv' /\ CountersGrow /\ ReadInv /\ UNCHANGED readVars => ReadInv'
  <1>. SUFFICES ASSUME SinkInv, SinkInv', CountersGrow, ReadInv, UNCHANGED readVars
                PROVE  ReadInv'
    OBVIOUS
  <1>1. /\ exported \in Nat /\ failed \in Nat /\ dropped \in Nat /\ booked \in Nat
        /\ exported' \in Nat /\ failed' \in Nat /\ dropped' \in Nat
        /\ booked' = booked /\ cpc' = cpc
    BY DEF SinkInv, ReadInv, readVars
  <1>2. exported' >= exported /\ failed' >= failed /\ dropped' >= dropped
    BY DEF CountersGrow
  <1>3. /\ cpc = 2 => booked <= exported'
        /\ cpc = 3 => booked <= exported' + failed'
        /\ cpc = 4 => booked <= exported' + failed' + dropped'
    <2>1. ASSUME NEW a \in Nat, NEW b \in Nat, NEW c \in Nat, NEW d \in Nat,
                 c >= a, d >= b
          PROVE  a + b \in Nat /\ c + d \in Nat /\ c + d >= a + b
      BY <2>1
    <2>2. /\ cpc = 2 => booked <= exported
          /\ cpc = 3 => booked <= exported + failed
          /\ cpc = 4 => booked <= exported + failed + dropped
      BY DEF ReadInv
    <2>3. /\ exported + failed \in Nat /\ exported' + failed' \in Nat
          /\ exported' + failed' >= exported + failed
      BY <1>1, <1>2, <2>1
    <2>4. /\ exported + failed + dropped \in Nat /\ exported' + failed' + dropped' \in Nat
          /\ exported' + failed' + dropped' >= exported + failed + dropped
      BY <1>1, <1>2, <2>1, <2>3
    <2>5. ASSUME NEW a \in Nat, NEW c \in Nat, c >= a, booked <= a PROVE booked <= c
      BY <1>1, <2>5
    <2>. QED BY <1>1, <1>2, <2>2, <2>3, <2>4, <2>5
  <1>. QED BY <1>1, <1>3 DEF ReadInv

\* A move of a request, with nothing offered, that does not enter the counted places.
LEMMA StillOffers ==
    ASSUME OfferInv, SinkInv, GaugeInv, UNCHANGED <<turnsTotal, offered>>,
           \/ UNCHANGED pc
           \/ \E r \in Request : \E place \in Place :
                /\ Go(r, place) /\ pc[r] # "done"
                /\ place \in {"push", "submit"} => pc[r] \in {"push", "submit"}
    PROVE  OfferInv'
  <1>1. CountedTurns' \in SUBSET CountedTurns /\ CountedTurns \in SUBSET SinkRecord
    BY DEF CountedTurns, SinkRecord, GaugeInv, GaugeTypeOK, Go
  <1>2. /\ IsFiniteSet(CountedTurns) /\ Cardinality(CountedTurns) \in Nat
        /\ Cardinality(CountedTurns') \in Nat
    BY <1>1, FiniteRecords
  <1>3. Cardinality(CountedTurns') <= Cardinality(CountedTurns)
    BY <1>1, <1>2, FS_Subset
  <1>4. \A r \in Request : <<r, "http">> \in offered => pc'[r] = "done"
    BY DEF OfferInv, GaugeInv, GaugeTypeOK, Go
  <1>. QED BY <1>2, <1>3, <1>4 DEF OfferInv

LEMMA CountsTurn ==
    ASSUME TurnInv, GaugeInv, NEW r \in Request, TurnCounted(r)
    PROVE  TurnInv'
  <1>0. SinkInv' /\ ReadInv'
    BY StillSink, GrownRead DEF TurnCounted, TurnInv
  <1>1. PICK place \in {"push", "done"} : Go(r, place)
    BY DEF TurnCounted
  <1>. DEFINE w == <<r, "http">>
  <1>2. /\ CountedTurns' \in SUBSET (CountedTurns \cup {w})
        /\ CountedTurns \cup {w} \in SUBSET SinkRecord
    BY <1>1 DEF CountedTurns, SinkRecord, GaugeInv, GaugeTypeOK, Go, TurnCounted, sinkVars
  <1>3. /\ IsFiniteSet(CountedTurns) /\ IsFiniteSet(CountedTurns \cup {w})
        /\ Cardinality(CountedTurns) \in Nat
        /\ Cardinality(CountedTurns \cup {w}) \in Nat /\ Cardinality(CountedTurns') \in Nat
    <2>1. CountedTurns \in SUBSET SinkRecord /\ CountedTurns' \in SUBSET SinkRecord
      BY <1>2
    <2>. HIDE DEF w
    <2>. QED BY <1>2, <2>1, FiniteRecords
  <1>4. Cardinality(CountedTurns') <= Cardinality(CountedTurns) + 1
    <2>. HIDE DEF w
    <2>1. Cardinality(CountedTurns') <= Cardinality(CountedTurns \cup {w})
      BY <1>2, <1>3, FS_Subset
    <2>2. Cardinality(CountedTurns \cup {w}) <= Cardinality(CountedTurns) + 1
      BY <1>3, FS_AddElement
    <2>. QED BY <1>3, <2>1, <2>2
  <1>5. \A q \in Request : <<q, "http">> \in offered' => pc'[q] = "done"
    BY <1>1 DEF TurnInv, OfferInv, GaugeInv, GaugeTypeOK, Go, TurnCounted, sinkVars
  <1>6. turnsTotal' \in Nat /\ Cardinality(CountedTurns') <= turnsTotal'
    BY <1>3, <1>4 DEF TurnCounted, TurnInv, OfferInv
  <1>. QED BY <1>0, <1>5, <1>6 DEF TurnInv, OfferInv

\* push_record hands the record of a counted turn over, or with export disabled
\* does not.
LEMMA SubmitsTurn ==
    ASSUME TurnInv, GaugeInv, NEW r \in Request, TurnSubmitted(r)
    PROVE  TurnInv'
  <1>. DEFINE w == <<r, "http">>
  <1>1. w \in SinkRecord
    BY DEF SinkRecord
  <1>2. Sink!Offer(w) \/ UNCHANGED sinkVars
    BY DEF TurnSubmitted
  <1>3. SinkInv' /\ CountersGrow
    <2>. HIDE DEF w
    <2>. QED BY <1>1, <1>2, OfferSink, StillSink DEF TurnInv
  <1>4. ReadInv'
    BY <1>3, GrownRead DEF TurnInv, TurnSubmitted
  <1>5. offered' \in {offered, offered \cup {w}}
    <2>. HIDE DEF w
    <2>. QED BY <1>2 DEF Sink!Offer, sinkVars
  <1>6. CountedTurns' \in SUBSET CountedTurns /\ CountedTurns \in SUBSET SinkRecord
    BY <1>5 DEF CountedTurns, SinkRecord, GaugeInv, GaugeTypeOK, Go, TurnSubmitted
  <1>7. /\ IsFiniteSet(CountedTurns) /\ Cardinality(CountedTurns) \in Nat
        /\ Cardinality(CountedTurns') \in Nat
    BY <1>6, FiniteRecords
  <1>8. Cardinality(CountedTurns') <= Cardinality(CountedTurns)
    BY <1>6, <1>7, FS_Subset
  <1>9. \A q \in Request : <<q, "http">> \in offered' => pc'[q] = "done"
    BY <1>5 DEF TurnInv, OfferInv, GaugeInv, GaugeTypeOK, Go, TurnSubmitted
  <1>. QED BY <1>3, <1>4, <1>7, <1>8, <1>9 DEF TurnInv, OfferInv, TurnSubmitted

\* A connection's record is not a counted turn.
LEMMA SubmitsFrame ==
    ASSUME TurnInv, GaugeInv, NEW r \in Request, WsSubmitted(r)
    PROVE  TurnInv'
  <1>. DEFINE w == <<r, "ws">>
  <1>1. w \in SinkRecord
    BY DEF SinkRecord
  <1>2. Sink!Offer(w) \/ UNCHANGED sinkVars
    BY DEF WsSubmitted
  <1>3. SinkInv' /\ CountersGrow
    <2>. HIDE DEF w
    <2>. QED BY <1>1, <1>2, OfferSink, StillSink DEF TurnInv
  <1>4. ReadInv'
    BY <1>3, GrownRead DEF TurnInv, WsSubmitted
  <1>5. offered' \in {offered, offered \cup {w}}
    <2>. HIDE DEF w
    <2>. QED BY <1>2 DEF Sink!Offer, sinkVars
  <1>6. \A q \in Request : <<q, "http">> \in offered' <=> <<q, "http">> \in offered
    BY <1>5
  <1>7. CountedTurns' = CountedTurns
    BY <1>6 DEF CountedTurns, GaugeInv, GaugeTypeOK, Go, WsSubmitted
  <1>8. \A q \in Request : <<q, "http">> \in offered' => pc'[q] = "done"
    BY <1>6 DEF TurnInv, OfferInv, GaugeInv, GaugeTypeOK, Go, WsSubmitted
  <1>. QED BY <1>3, <1>4, <1>7, <1>8 DEF TurnInv, OfferInv, WsSubmitted

LEMMA ReadsExporter == TurnInv /\ ReadExporter => TurnInv'
  <1>. SUFFICES ASSUME TurnInv, ReadExporter PROVE TurnInv'
    OBVIOUS
  <1>1. SinkInv' /\ OfferInv'
    BY StillSink DEF TurnInv, ReadExporter, sinkVars, OfferInv, CountedTurns, vars, reqVars
  <1>2. /\ booked \in Nat /\ cpc \in 1 .. 5 /\ exported \in Nat /\ failed \in Nat
        /\ dropped \in Nat /\ UNCHANGED <<exported, failed, dropped>> /\ cpc' = cpc + 1
    BY DEF TurnInv, SinkInv, ReadInv, ReadExporter, sinkVars
  <1>3. Counter[1] = "exported" /\ Counter[2] = "failed" /\ Counter[3] = "dropped"
        /\ Counter[4] = "turns_total" /\ Counter[5] = "histograms"
    BY DEF Counter
  <1>4. \/ cpc = 1 /\ booked' = booked + exported
        \/ cpc = 2 /\ booked' = booked + failed
        \/ cpc = 3 /\ booked' = booked + dropped
    <2>1. cpc \in {1, 2, 3}
      BY <1>2, <1>3 DEF ReadExporter
    <2>2. CASE cpc = 1
      BY <1>3, <2>2 DEF ReadExporter
    <2>3. CASE cpc = 2
      BY <1>3, <2>3 DEF ReadExporter
    <2>4. CASE cpc = 3
      BY <1>3, <2>4 DEF ReadExporter
    <2>. QED BY <2>1, <2>2, <2>3, <2>4
  <1>5. ReadInv'
    BY <1>2, <1>4 DEF TurnInv, ReadInv
  <1>. QED BY <1>1, <1>5 DEF TurnInv

LEMMA TurnsStep == GaugeInv /\ TurnInv /\ [RecordingNext]_recordingVars => TurnInv'
  <1>. SUFFICES ASSUME GaugeInv, TurnInv, [RecordingNext]_recordingVars PROVE TurnInv'
    OBVIOUS
  <1>1. CASE Gauges /\ UNCHANGED turnVars
    <2>1. UNCHANGED <<turnsTotal, sinkVars, readVars, offered>>
      BY <1>1 DEF turnVars, sinkVars
    <2>2. PICK r \in Request :
            \/ EnterInflight(r) \/ EnterAwaiting(r) \/ EnterHighWater(r)
            \/ MarkUpstreamHead(r) \/ ExitInflight(r) \/ ExitAwaiting(r)
            \/ \E latency \in 1 .. Buckets + 1 : ObserveSlot(r, latency)
            \/ ObserveCount(r) \/ ObserveSum(r)
      BY <1>1 DEF Gauges
    <2>3. \/ UNCHANGED pc
          \/ \E place \in Place :
               Go(r, place) /\ pc[r] # "done" /\ place \notin {"push", "submit"}
      BY <2>2 DEF EnterInflight, EnterAwaiting, EnterHighWater, MarkUpstreamHead,
                  ExitInflight, ExitAwaiting, ObserveSlot, ObserveCount, ObserveSum, Place
    <2>4. OfferInv'
      BY <2>1, <2>3, StillOffers DEF TurnInv
    <2>. QED BY <2>1, <2>4, StillSink, GrownRead DEF TurnInv
  <1>2. CASE \E r \in Request : TurnAssembles(r) \/ TurnStored(r) \/ WsStored(r)
    <2>1. PICK r \in Request : TurnAssembles(r) \/ TurnStored(r) \/ WsStored(r)
      BY <1>2
    <2>2. UNCHANGED <<turnsTotal, sinkVars, readVars, offered>>
      BY <2>1 DEF TurnAssembles, TurnStored, WsStored, turnVars, sinkVars
    <2>3. \E place \in Place :
            /\ Go(r, place) /\ pc[r] # "done"
            /\ place \in {"push", "submit"} => pc[r] \in {"push", "submit"}
      BY <2>1 DEF TurnAssembles, TurnBegins, TurnStored, WsStored, Place
    <2>4. OfferInv'
      BY <2>2, <2>3, StillOffers DEF TurnInv
    <2>. QED BY <2>2, <2>4, StillSink, GrownRead DEF TurnInv
  <1>3. CASE \E r \in Request : TurnCounted(r) \/ TurnSubmitted(r) \/ WsSubmitted(r)
    BY <1>3, CountsTurn, SubmitsTurn, SubmitsFrame
  <1>4. CASE Export
    <2>1. PICK S \in SUBSET held : Sink!Book(S)
      BY <1>4 DEF Export
    <2>2. SinkInv' /\ CountersGrow
      BY <2>1, BookSink DEF TurnInv
    <2>3. UNCHANGED <<turnsTotal, offered, pc, readVars>>
      BY <1>4, <2>1 DEF Export, Sink!Book, vars, reqVars
    <2>. QED BY <2>2, <2>3, StillOffers, GrownRead DEF TurnInv
  <1>5. CASE ReadExporter
    BY <1>5, ReadsExporter
  <1>6. CASE ReadTurns \/ ReadHistograms
    <2>1. UNCHANGED <<turnsTotal, sinkVars, offered, pc>>
      BY <1>6 DEF ReadTurns, ReadHistograms, Render, RenderSlot, RenderTotal, RenderAgain,
                  vars, reqVars, sinkVars
    <2>2. Counter[1] = "exported" /\ Counter[2] = "failed" /\ Counter[3] = "dropped"
          /\ Counter[4] = "turns_total" /\ Counter[5] = "histograms"
      BY DEF Counter
    <2>3. ReadInv'
      BY <1>6, <2>2 DEF TurnInv, ReadInv, ReadTurns, ReadHistograms
    <2>. QED BY <2>1, <2>3, StillSink, StillOffers DEF TurnInv
  <1>7. CASE UNCHANGED recordingVars
    <2>1. UNCHANGED <<turnsTotal, sinkVars, offered, pc, readVars>>
      BY <1>7 DEF recordingVars, turnVars, vars, reqVars, sinkVars
    <2>. QED BY <2>1, StillSink, StillOffers, GrownRead DEF TurnInv
  <1>. QED BY <1>1, <1>2, <1>3, <1>4, <1>5, <1>6, <1>7 DEF RecordingNext

-----------------------------------------------------------------------------
LEMMA RecordingInvariant == RecordingSpec => [](GaugeInv /\ ScrapeInv /\ TurnInv)
  <1>1. RecordingInit => GaugeInv /\ ScrapeInv /\ TurnInv
    BY InitGauges, InitScrape, InitTurns DEF RecordingInit
  <1>. QED BY <1>1, GaugesStep, ScrapeStep, TurnsStep, PTL DEF RecordingSpec

\* Every variable of the gauges, the histogram and the scrape keeps its type.
THEOREM GaugesTyped == RecordingSpec => []TypeOK
  <1>1. GaugeInv /\ ScrapeInv => TypeOK
    BY DEF GaugeInv, GaugeTypeOK, ScrapeInv, ScrapeTypeOK, TypeOK, Place
  <1>. QED BY <1>1, RecordingInvariant, PTL

\* The in-flight and awaiting gauges are exact at every moment, for any number of
\* concurrent requests: try_update never saturates.
THEOREM GaugesAlwaysExact == RecordingSpec => []GaugesExact
  BY RecordingInvariant, PTL DEF GaugeInv

\* inflight_high_water misses no peak, in whatever order requests store theirs.
THEOREM HighWaterAlwaysExact == RecordingSpec => []HighWaterExact
  <1>1. GaugeInv => HighWaterExact
    BY DEF GaugeInv, PeakInv, HighWaterExact
  <1>. QED BY <1>1, RecordingInvariant, PTL

\* The +Inf bucket of a scrape falls short of the finite ones by no more than the
\* observations under way when it is read, however long the scrape took.
THEOREM ScrapeBounded == RecordingSpec => ScrapeErrorBounded
  <1>1. ASSUME GaugeInv, ScrapeInv, [RecordingNext]_recordingVars,
               rpc = Buckets + 1, rpc' # rpc
        PROVE  cumulative[Buckets] <= total' + Cardinality(At({"count"}))
    <2>. USE GaugesAssumption
    <2>1. RenderTotal
      <3>1. ReadHistograms
        BY <1>1 DEF RecordingNext, Gauges, EnterInflight, EnterAwaiting, EnterHighWater,
                    MarkUpstreamHead, ExitInflight, ExitAwaiting, ObserveSlot, ObserveCount,
                    ObserveSum, TurnAssembles, TurnCounted, TurnStored, TurnSubmitted, WsStored,
                    WsSubmitted, Export, ReadExporter, ReadTurns, recordingVars, requestVars,
                    vars, scrapeVars
      <3>. QED BY <1>1, <3>1 DEF ReadHistograms, Render, RenderSlot, RenderAgain, Slot
    <2>2. PICK P : /\ Sums(P)
                   /\ P[Buckets] <= Observed
                   /\ \A s \in 1 .. Len(cumulative) : cumulative[s] <= P[s]
      BY <1>1 DEF ScrapeInv, SumsInv
    <2>3. Len(cumulative) = Buckets /\ cumulative \in Seq(Nat)
      BY <1>1 DEF ScrapeInv, ScrapeTypeOK
    <2>4. Observed \in Nat /\ P[Buckets] \in Nat
      BY <1>1, <2>2, ObservedNat DEF ScrapeInv, Sums
    <2>5. cumulative[Buckets] \in Nat /\ cumulative[Buckets] <= P[Buckets]
      BY <2>2, <2>3
    <2>6. Observed = total' + Cardinality(At({"count"}))
      BY <2>1 DEF RenderTotal, Observed
    <2>. QED BY <2>2, <2>4, <2>5, <2>6
  <1>2. GaugeInv /\ ScrapeInv /\ [RecordingNext]_recordingVars
          => [rpc = Buckets + 1 /\ rpc' # rpc
                => cumulative[Buckets] <= total' + Cardinality(At({"count"}))]_vars
    BY <1>1
  <1>. QED BY <1>2, RecordingInvariant, PTL DEF RecordingSpec, ScrapeErrorBounded

\* A scrape never sees more records exported, failed and dropped than turns were
\* counted, but for those of connections.
THEOREM BookedNeverAhead == RecordingSpec => BookedWithinTurns
  <1>1. ASSUME TurnInv, cpc = 4
        PROVE  booked <= turnsTotal + Cardinality(FromSockets)
    <2>. DEFINE http == {w \in offered : w[2] = "http"}
    <2>1. /\ offered = http \cup FromSockets /\ http \cap FromSockets = {}
          /\ http \in SUBSET SinkRecord /\ FromSockets \in SUBSET SinkRecord
          /\ http \in SUBSET CountedTurns /\ CountedTurns \in SUBSET SinkRecord
      BY <1>1 DEF TurnInv, SinkInv, SinkRecord, FromSockets, CountedTurns
    <2>. HIDE DEF http
    <2>2. /\ IsFiniteSet(http) /\ Cardinality(http) \in Nat
          /\ IsFiniteSet(FromSockets) /\ Cardinality(FromSockets) \in Nat
          /\ IsFiniteSet(CountedTurns) /\ Cardinality(CountedTurns) \in Nat
          /\ Cardinality(held) \in Nat
      BY <1>1, <2>1, FiniteRecords DEF TurnInv, SinkInv
    <2>3. Cardinality(offered) = Cardinality(http) + Cardinality(FromSockets)
      <3>1. Cardinality(http \cap FromSockets) = 0
        BY <2>1, FS_EmptySet
      <3>2. Cardinality(http \cup FromSockets)
              = Cardinality(http) + Cardinality(FromSockets) - Cardinality(http \cap FromSockets)
        BY <2>2, FS_Union
      <3>. QED BY <2>1, <2>2, <3>1, <3>2
    <2>4. Cardinality(http) <= Cardinality(CountedTurns)
      BY <2>1, <2>2, FS_Subset
    <2>5. /\ booked \in Nat /\ turnsTotal \in Nat /\ exported \in Nat /\ failed \in Nat
          /\ dropped \in Nat /\ booked <= exported + failed + dropped
          /\ Cardinality(CountedTurns) <= turnsTotal
          /\ Cardinality(offered) = Cardinality(held) + exported + failed + dropped
      BY <1>1 DEF TurnInv, SinkInv, OfferInv, ReadInv
    <2>. QED BY <2>2, <2>3, <2>4, <2>5
  <1>2. TurnInv /\ Counter[cpc] = "turns_total" => cpc = 4
    BY DEF TurnInv, ReadInv, Counter
  <1>3. TurnInv => [Counter[cpc] = "turns_total" /\ cpc' # cpc
                      => booked <= turnsTotal + Cardinality({w \in offered : w[2] = "ws"})
                   ]_recordingVars
    BY <1>1, <1>2 DEF FromSockets
  <1>. QED BY <1>3, RecordingInvariant, PTL DEF BookedWithinTurns
=============================================================================
