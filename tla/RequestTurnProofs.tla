-------------------------- MODULE RequestTurnProofs --------------------------
(***************************************************************************)
(* Proofs about one request.  How it is relayed, drained and recorded, for *)
(* responses of every length, however they are cut into chunks, every set  *)
(* of caps and any number of reloads of the cap (RequestTurn); and what it *)
(* is read as, for every path, request, upstream and sequence of headers   *)
(* (Attribution).  The two specifications have no variable in common; they *)
(* share this module because they are about the same request.              *)
(***************************************************************************)
EXTENDS RequestTurn, Attribution, SequenceTheorems, FiniteSetTheorems, DataInduction

USE DEF Owned, Status, SessionError

-----------------------------------------------------------------------------
(* Captured bytes.                                                         *)

\* The bytes captured can be counted; there are no more of them than were sent.
LEMMA Captured ==
    ASSUME TypeOK
    PROVE  /\ IsFiniteSet(respBuf) /\ Cardinality(respBuf) \in Nat
           /\ Cardinality(respBuf) = got => respBuf = 1 .. got
  <1>1. got \in Nat /\ respBuf \in SUBSET (1 .. got)
    BY TurnAssumption DEF TypeOK
  <1>2. IsFiniteSet(1 .. got) /\ Cardinality(1 .. got) = got
    BY <1>1, FS_Interval
  <1>. QED BY <1>1, <1>2, FS_Subset, FS_CardinalityType

\* Bytes that follow those received are appended one for one.
LEMMA FollowingAppended ==
    ASSUME TypeOK, NEW n \in Nat
    PROVE  /\ Cardinality(respBuf \cup Following(n)) = Cardinality(respBuf) + n
           /\ (1 .. got) \cup Following(n) = 1 .. (got + n)
  <1>0. got \in Nat /\ respBuf \subseteq 1 .. got
    BY TurnAssumption DEF TypeOK
  <1>1. IsFiniteSet(Following(n)) /\ Cardinality(Following(n)) = n
    BY <1>0, FS_Interval DEF Following
  <1>2. respBuf \cap Following(n) = {}
    BY <1>0 DEF Following
  <1>3. Cardinality(respBuf \cup Following(n)) = Cardinality(respBuf) + n
    <2>1. Cardinality(respBuf \cup Following(n))
            = Cardinality(respBuf) + Cardinality(Following(n))
                - Cardinality(respBuf \cap Following(n))
      BY <1>1, Captured, FS_Union
    <2>2. Cardinality(respBuf \cap Following(n)) = 0
      BY <1>2, FS_EmptySet
    <2>. QED BY <1>1, <2>1, <2>2, Captured
  <1>4. (1 .. got) \cup Following(n) = 1 .. (got + n)
    BY <1>0 DEF Following
  <1>. QED BY <1>3, <1>4, Captured

\* What drain_capture keeps of a chunk and what it counts make up the chunk.
LEMMA TakenBounded ==
    ASSUME TypeOK, NEW n \in Nat
    PROVE  Taken(n) \in 0 .. n /\ Dropped(n) = n - Taken(n)
  <1>1. cap \in Nat
    BY TurnAssumption DEF TypeOK
  <1>. QED BY <1>1, Captured DEF Taken, Dropped

\* The end of a bounded body is a length up to the cap.
LEMMA BoundEndType ==
    ASSUME cap \in Nat
    PROVE  BoundEnd \in 0 .. cap
  <1>. DEFINE nth(i) == CHOOSE b \in respBuf :
                           Cardinality({c \in respBuf : c <= b}) = i
              fits == {e \in 0 .. cap : e = 0 \/ nth(e + 1) \notin Continuation}
  <1>1. fits \in SUBSET (0 .. cap) /\ 0 \in fits
    OBVIOUS
  <1>. HIDE DEF fits
  <1>2. \E e \in fits : \A f \in fits : f <= e
    <2>1. fits \in SUBSET Nat /\ fits # {} /\ \A e \in fits : e <= cap
      BY <1>1
    <2>. QED BY <2>1, GreatestNat
  <1>3. (CHOOSE e \in fits : \A f \in fits : f <= e) \in fits
    BY <1>2
  <1>. QED BY <1>1, <1>3 DEF BoundEnd, fits

\* The raw response of a record.
LEMMA RawType ==
    ASSUME TypeOK
    PROVE  RawResponse \in [bytes : SUBSET (1 .. MaxBytes),
                            markers : Seq([original : Nat, captured : Nat])]
  <1>0. cap \in Nat /\ respBuf \subseteq 1 .. MaxBytes /\ drainOverflow \in Nat
    BY TurnAssumption DEF TypeOK
  <1>. DEFINE M == [original : Nat, captured : Nat]
  <1>1. Bound \in [bytes : SUBSET (1 .. MaxBytes), markers : Seq(M)]
    <2>1. CASE Cardinality(respBuf) <= cap
      BY <1>0, <2>1 DEF Bound
    <2>2. CASE ~(Cardinality(respBuf) <= cap)
      <3>1. Marker(Cardinality(respBuf), BoundEnd) \in M
        BY <1>0, Captured, BoundEndType DEF Marker
      <3>2. <<Marker(Cardinality(respBuf), BoundEnd)>> \in Seq(M)
        BY <3>1
      <3>. DEFINE kept == {b \in respBuf :
                            Cardinality({c \in respBuf : c <= b}) <= BoundEnd}
      <3>3. kept \in SUBSET (1 .. MaxBytes)
        BY <1>0
      <3>4. Bound = [bytes   |-> kept,
                     markers |-> <<Marker(Cardinality(respBuf), BoundEnd)>>]
        BY <2>2 DEF Bound
      <3>. HIDE DEF kept, M
      <3>. QED BY <3>2, <3>3, <3>4
    <2>. QED BY <2>1, <2>2
  <1>2. CASE drainOverflow = 0
    BY <1>1, <1>2 DEF RawResponse
  <1>3. CASE drainOverflow # 0
    <2>1. Marker(Cardinality(respBuf) + drainOverflow, Cardinality(respBuf)) \in M
      BY <1>0, Captured DEF Marker
    <2>2. Append(Bound.markers, Marker(Cardinality(respBuf) + drainOverflow,
                                       Cardinality(respBuf))) \in Seq(M)
      BY <1>1, <2>1
    <2>. QED BY <1>1, <1>3, <2>2 DEF RawResponse
  <1>. QED BY <1>2, <1>3

-----------------------------------------------------------------------------
(* The steps before the record, one lemma for the relay and one for the    *)
(* pump.                                                                   *)

\* The type invariant in two parts, as the flags and the other variables are
\* reasoned about apart.
FlagsOK ==
    /\ onCancel \in BOOLEAN /\ traceOff \in BOOLEAN /\ reqParses \in BOOLEAN
    /\ sse \in BOOLEAN /\ json \in BOOLEAN /\ errFrame \in BOOLEAN
    /\ complete \in BOOLEAN /\ clientDead \in BOOLEAN /\ relayDone \in BOOLEAN
    /\ timedOut \in BOOLEAN /\ relayError \in BOOLEAN
    /\ draining \in BOOLEAN /\ (draining => clientDead /\ sse)
DataOK ==
    /\ matched \in {"none", "loose", "exact"}
    /\ pc \in {"upload", "send", "body", "log", "done"}
    /\ deadline \in {"unset", "open", "elapsed"}
    /\ respStatus \in Status /\ sessionError \in SessionError
    /\ got \in 0 .. MaxBytes
    /\ respBuf \subseteq 1 .. got
    /\ drainAcc \subseteq 1 .. got
    /\ drainOverflow \in Nat
    /\ cap \in CapMax /\ reloads \in 0 .. MaxReloads
    /\ turnsTotal \in 0 .. 1
    /\ records \subseteq RecordType

LEMMA TypeParts == TypeOK <=> FlagsOK /\ DataOK
  BY Zenon DEF TypeOK, FlagsOK, DataOK

\* What holds before logging; the records add RecordInv.
TurnInv == TypeOK /\ BytesAccounted /\ CaptureInv /\ EndInv

LEMMA InitInv == Init => TurnInv /\ pc # "done"
  <1>. SUFFICES ASSUME Init PROVE TurnInv /\ pc # "done"
    OBVIOUS
  <1>1. TypeOK
    <2>1. /\ onCancel \in BOOLEAN /\ traceOff \in BOOLEAN /\ reqParses \in BOOLEAN
          /\ json \in BOOLEAN /\ errFrame \in BOOLEAN
      BY DEF Init
    <2>2. 0 \in 0 .. MaxBytes /\ 0 \in 0 .. MaxReloads
      BY TurnAssumption
    <2>3. /\ sse = FALSE /\ complete = FALSE /\ clientDead = FALSE /\ relayDone = FALSE
          /\ timedOut = FALSE /\ draining = FALSE /\ relayError = FALSE
      BY DEF Init
    <2>4. FlagsOK
      BY <2>1, <2>3, Zenon DEF FlagsOK
    <2>5. DataOK
      BY <2>2 DEF Init, DataOK
    <2>. QED BY <2>4, <2>5, TypeParts
  <1>2. BytesAccounted
    BY FS_EmptySet DEF Init, BytesAccounted
  <1>. QED BY <1>1, <1>2 DEF Init, TurnInv, CaptureInv, EndInv

LEMMA RelayInv ==
    ASSUME TurnInv, Relay
    PROVE  TurnInv' /\ pc' # "done" /\ pc # "done"
  <1>. USE DEF TurnInv, requestVars, captureVars, headVars, endVars, capVars, outVars
  <1>0. /\ got \in Nat /\ drainOverflow \in Nat /\ MaxBytes \in Nat
        /\ respBuf \subseteq 1 .. got /\ Cardinality(respBuf) \in Nat
        /\ ChunkLen \subseteq Nat
    BY Captured, TurnAssumption DEF TypeOK
  <1>1. CASE RelayUpload
    <2>1. \/ pc' = "send" /\ clientDead' = clientDead
          \/ pc' = "log" /\ clientDead' = TRUE
      BY <1>1 DEF RelayUpload
    <2>2. TypeOK'
      <3>1. FlagsOK'
        BY <1>1, <2>1, TypeParts DEF RelayUpload, FlagsOK, CaptureInv
      <3>2. DataOK'
        BY <1>1, <2>1, TypeParts DEF RelayUpload, DataOK
      <3>. QED BY <3>1, <3>2, TypeParts, PTL
    <2>3. CaptureInv' /\ BytesAccounted'
      BY <1>1, <2>1 DEF RelayUpload, TypeOK, BytesAccounted, CaptureInv
    <2>4. EndInv'
      BY <1>1, <2>1 DEF RelayUpload, EndInv
    <2>. QED BY <1>1, <2>1, <2>2, <2>3, <2>4 DEF RelayUpload
  <1>2. CASE RelaySendFails
    BY <1>2 DEF RelaySendFails, TypeOK, BytesAccounted, CaptureInv, EndInv
  <1>3. CASE RelayProbe
    BY <1>0, <1>3 DEF RelayProbe, BeginDrain, Seed, Drains, TypeOK, BytesAccounted,
                      CaptureInv, EndInv
  <1>4. CASE RelayEnd
    <2>1. complete' = TRUE /\ relayDone' = TRUE /\ pc' = "log" /\ pc = "body"
      BY <1>4 DEF RelayEnd, RelayEnds, RanToEnd
    <2>. QED BY <1>4, <2>1 DEF RelayEnd, TypeOK, BytesAccounted, CaptureInv, EndInv
  <1>5. CASE RelayUpstreamError
    BY <1>5 DEF RelayUpstreamError, RelayEnds, RanToEnd, TypeOK, BytesAccounted,
                CaptureInv, EndInv
  <1>6. CASE RelayDrainTimeout
    BY <1>6 DEF RelayDrainTimeout, DrainGivesUp, RelayEnds, RanToEnd, TypeOK,
                BytesAccounted, CaptureInv, EndInv
  <1>7. CASE WindowElapses
    BY <1>7 DEF WindowElapses, TypeOK, BytesAccounted, CaptureInv, EndInv
  <1>8. ASSUME NEW s \in Status \ {0}, NEW isSse \in BOOLEAN, NEW noBody \in BOOLEAN,
               NEW written \in BOOLEAN, RelayHead(s, isSse, noBody, written)
        PROVE  TurnInv' /\ pc' # "done" /\ pc # "done"
    <2>1. /\ pc = "send" /\ sse' = isSse /\ respStatus' = s
          /\ clientDead' = IF written THEN FALSE ELSE TRUE
          /\ \/ pc' = "log" /\ complete' = TRUE /\ relayDone' = TRUE
             \/ pc' = "body" /\ complete' = complete /\ relayDone' = relayDone
      BY <1>8 DEF RelayHead, RelayEnds, RanToEnd
    <2>2. TypeOK'
      <3>1. FlagsOK'
        BY <1>8, <2>1, TypeParts DEF RelayHead, FlagsOK, CaptureInv
      <3>2. DataOK'
        BY <1>8, <2>1, TypeParts DEF RelayHead, DataOK
      <3>. QED BY <3>1, <3>2, TypeParts, PTL
    <2>3. CaptureInv' /\ BytesAccounted'
      <3>1. got = 0 /\ draining = FALSE /\ respBuf = {}
        BY <1>0, <2>1 DEF CaptureInv, TypeOK
      <3>. QED BY <1>8, <2>1, <3>1 DEF RelayHead, BytesAccounted, CaptureInv
    <2>4. EndInv'
      BY <1>8, <2>1 DEF RelayHead, EndInv
    <2>. QED BY <2>1, <2>2, <2>3, <2>4
  <1>9. ASSUME NEW n \in ChunkLen, NEW written \in BOOLEAN, RelayChunk(n, written)
        PROVE  TurnInv' /\ pc' # "done" /\ pc # "done"
    <2>1. n \in Nat /\ got' = got + n /\ got + n <= MaxBytes
      BY <1>0, <1>9 DEF RelayChunk
    <2>2. /\ respBuf' = 1 .. got'
          /\ Cardinality(respBuf') = Cardinality(respBuf) + n
      BY <1>9, <2>1, FollowingAppended DEF RelayChunk, CaptureInv
    <2>3. /\ respBuf' = respBuf \cup Following(n)
          /\ drainAcc' \subseteq 1 .. got' /\ draining' \in BOOLEAN
          /\ draining' => clientDead' /\ sse' /\ drainAcc' = respBuf'
          /\ sse' /\ ~draining' => ~clientDead'
          /\ deadline' \in {"unset", "open", "elapsed"} /\ clientDead' \in BOOLEAN
      <3>0. /\ respBuf' = respBuf \cup Following(n) /\ sse' = sse /\ clientDead = FALSE
            /\ draining = FALSE
        BY <1>9 DEF RelayChunk, TypeOK
      <3>1. CASE written
        <4>1. UNCHANGED <<clientDead, draining, drainAcc, deadline>>
          BY <1>9, <3>1 DEF RelayChunk
        <4>2. drainAcc \subseteq 1 .. got'
          BY <1>0, <2>1 DEF TypeOK
        <4>. QED BY <3>0, <4>1, <4>2 DEF TypeOK
      <3>2. CASE ~written
        <4>1. /\ clientDead' = TRUE /\ deadline' = "open"
              /\ draining' = (IF sse THEN TRUE ELSE FALSE)
              /\ drainAcc' = IF sse THEN respBuf' ELSE drainAcc
          BY <1>9, <3>0, <3>2 DEF RelayChunk, BeginDrain, Seed, Drains, TypeOK
        <4>2. drainAcc \subseteq 1 .. got'
          BY <1>0, <2>1 DEF TypeOK
        <4>. QED BY <2>2, <3>0, <4>1, <4>2 DEF TypeOK
      <3>. QED BY <3>1, <3>2
    <2>4. TypeOK'
      BY <1>0, <1>9, <2>1, <2>2, <2>3 DEF RelayChunk, TypeOK
    <2>5. CaptureInv' /\ BytesAccounted'
      <3>0. /\ UNCHANGED <<onCancel, matched, drainOverflow>> /\ sse' = sse
            /\ onCancel /\ matched # "none" /\ pc' = "body"
        BY <1>9 DEF RelayChunk
      <3>1. BytesAccounted'
        <4>1. Cardinality(respBuf) + drainOverflow = got
          BY <3>0 DEF BytesAccounted
        <4>2. Cardinality(respBuf') + drainOverflow = got'
          BY <1>0, <2>1, <2>2, <4>1
        <4>. QED BY <3>0, <4>2 DEF BytesAccounted
      <3>2. CaptureInv'
        BY <2>2, <2>3, <3>0 DEF CaptureInv
      <3>. QED BY <3>1, <3>2
    <2>. QED BY <1>9, <2>4, <2>5 DEF RelayChunk, EndInv
  <1>10. ASSUME NEW n \in ChunkLen, RelayDrainChunk(n)
         PROVE  TurnInv' /\ pc' # "done" /\ pc # "done"
    <2>1. n \in Nat /\ got' = got + n /\ got + n <= MaxBytes
      BY <1>0, <1>10 DEF RelayDrainChunk
    <2>2. /\ Taken(n) \in 0 .. n
          /\ Cardinality(respBuf') = Cardinality(respBuf) + Taken(n)
          /\ drainOverflow' = drainOverflow + (n - Taken(n))
          /\ respBuf' \subseteq 1 .. got'
      <3>1. Taken(n) \in 0 .. n /\ Dropped(n) = n - Taken(n)
        BY <2>1, TakenBounded
      <3>2. Cardinality(respBuf') = Cardinality(respBuf) + Taken(n)
        BY <1>10, <3>1, FollowingAppended DEF RelayDrainChunk
      <3>3. respBuf' \subseteq 1 .. got'
        <4>1. Following(Taken(n)) \subseteq 1 .. got' /\ 1 .. got \subseteq 1 .. got'
          BY <1>0, <2>1, <3>1 DEF Following
        <4>. QED BY <1>0, <1>10, <4>1 DEF RelayDrainChunk
      <3>4. drainOverflow' = drainOverflow + (n - Taken(n))
        BY <1>10, <3>1 DEF RelayDrainChunk
      <3>. QED BY <3>1, <3>2, <3>3, <3>4
    <2>3. /\ drainAcc' \subseteq 1 .. got' /\ draining' \in BOOLEAN
          /\ draining' => clientDead' /\ sse'
          /\ sse' => draining' /\ drainAcc' = 1 .. got'
      <3>1. sse => drainAcc \cup Following(n) = 1 .. (got + n)
        <4>1. ASSUME sse PROVE drainAcc = 1 .. got
          <5>1. CASE draining
            BY <1>10, <4>1, <5>1 DEF RelayDrainChunk, CaptureInv
          <5>2. CASE ~draining
            <6>1. got = 0
              BY <1>10, <4>1, <5>2 DEF RelayDrainChunk, CaptureInv
            <6>. QED BY <6>1 DEF TypeOK
          <5>. QED BY <5>1, <5>2
        <4>. QED BY <2>1, <4>1, FollowingAppended
      <3>2. sse => drainAcc' = drainAcc \cup Following(n)
        BY <1>10 DEF RelayDrainChunk, Fed
      <3>3. ~sse => drainAcc' = drainAcc
        BY <1>10 DEF RelayDrainChunk, Fed, TypeOK
      <3>4. drainAcc' \subseteq 1 .. got'
        <4>1. drainAcc \subseteq 1 .. got /\ 1 .. got \subseteq 1 .. got'
          BY <1>0, <2>1 DEF TypeOK
        <4>. QED BY <2>1, <3>1, <3>2, <3>3, <4>1
      <3>. QED BY <1>10, <2>1, <3>1, <3>2, <3>4 DEF RelayDrainChunk, Drains, TypeOK
    <2>4. TypeOK'
      BY <1>0, <1>10, <2>1, <2>2, <2>3 DEF RelayDrainChunk, TypeOK
    <2>5. CaptureInv' /\ BytesAccounted'
      <3>0. /\ UNCHANGED <<onCancel, matched, clientDead>>
            /\ onCancel /\ matched # "none" /\ pc' = "body" /\ clientDead
        BY <1>10 DEF RelayDrainChunk
      <3>1. BytesAccounted'
        <4>1. Cardinality(respBuf) + drainOverflow = got
          BY <3>0 DEF BytesAccounted
        <4>2. Cardinality(respBuf') + drainOverflow' = got'
          BY <1>0, <2>1, <2>2, <4>1
        <4>. QED BY <3>0, <4>2 DEF BytesAccounted
      <3>2. CaptureInv'
        BY <2>3, <3>0 DEF CaptureInv
      <3>. QED BY <3>1, <3>2
    <2>. QED BY <1>10, <2>4, <2>5 DEF RelayDrainChunk, EndInv
  <1>. QED BY <1>1, <1>2, <1>3, <1>4, <1>5, <1>6, <1>7, <1>8, <1>9, <1>10 DEF Relay

LEMMA PumpInv ==
    ASSUME TurnInv, Pump
    PROVE  TurnInv' /\ pc' # "done" /\ pc # "done"
  <1>. USE DEF TurnInv, PumpEnds, requestVars, captureVars, headVars, endVars, capVars,
               outVars
  <1>0. /\ got \in Nat /\ MaxBytes \in Nat /\ ChunkLen \subseteq Nat
        /\ respBuf \subseteq 1 .. got
    BY TurnAssumption DEF TypeOK
  <1>1. CASE PumpUpload
    BY <1>1 DEF PumpUpload, TypeOK, BytesAccounted, CaptureInv, EndInv
  <1>2. ASSUME NEW s \in Status \ {0}, NEW isSse \in BOOLEAN, NEW written \in BOOLEAN,
               PumpHead(s, isSse, written)
        PROVE  TurnInv' /\ pc' # "done" /\ pc # "done"
    BY <1>2 DEF PumpHead, TypeOK, BytesAccounted, CaptureInv, EndInv
  <1>3. ASSUME NEW n \in ChunkLen, NEW written \in BOOLEAN, PumpChunk(n, written)
        PROVE  TurnInv' /\ pc' # "done" /\ pc # "done"
    <2>1. /\ n \in Nat /\ got' = got + n /\ got + n <= MaxBytes
          /\ respBuf' \subseteq 1 .. got'
      BY <1>0, <1>3 DEF PumpChunk, Following
    <2>. QED BY <1>0, <1>3, <2>1 DEF PumpChunk, TypeOK, BytesAccounted, CaptureInv, EndInv
  <1>4. ASSUME NEW e \in SessionError \ {"upstream"}, PumpEnd(e)
        PROVE  TurnInv' /\ pc' # "done" /\ pc # "done"
    BY <1>4 DEF PumpEnd, TypeOK, BytesAccounted, CaptureInv, EndInv
  <1>5. ASSUME NEW e \in SessionError \ {"none"}, PumpBreaks(e)
        PROVE  TurnInv' /\ pc' # "done" /\ pc # "done"
    BY <1>5 DEF PumpBreaks, TypeOK, BytesAccounted, CaptureInv, EndInv
  <1>. QED BY <1>1, <1>2, <1>3, <1>4, <1>5 DEF Pump

-----------------------------------------------------------------------------
(* The record.                                                             *)

\* classify_session_error and http_error tell apart how the request ended.
LEMMA EndClassified ==
    ASSUME TurnInv, pc = "log"
    PROVE  /\ HttpError \in ErrorClass /\ Cancelled \in BOOLEAN
           /\ HttpError # "protocol"
           /\ ~complete => (Cancelled \/ HttpError # "none"
                             <=> sessionError # "downstream_idle")
           /\ complete /\ respStatus = 200 /\ ~clientDead
                => ~Cancelled /\ HttpError = "none"
           /\ clientDead => Cancelled
           /\ Owned /\ relayError => HttpError # "none"
  <1>. USE DEF TurnInv, HttpError, Cancelled, Classify
  <1>1. /\ sessionError \in {"none", "upstream", "downstream", "downstream_idle"}
        /\ respStatus \in {0, 200, 404}
    BY DEF TypeOK
  <1>2. CASE sessionError = "none"
    BY <1>1, <1>2 DEF EndInv, TypeOK, ErrorClass
  <1>3. CASE sessionError = "upstream"
    BY <1>1, <1>3 DEF EndInv, TypeOK, ErrorClass
  <1>4. CASE sessionError = "downstream"
    BY <1>1, <1>4 DEF EndInv, TypeOK, ErrorClass
  <1>5. CASE sessionError = "downstream_idle"
    BY <1>1, <1>5 DEF EndInv, TypeOK, ErrorClass
  <1>. QED BY <1>1, <1>2, <1>3, <1>4, <1>5

\* A relayed stream has been fed whole to the accumulator, or captured whole.
LEMMA StreamWhole ==
    ASSUME TurnInv, Owned, sse
    PROVE  (IF draining THEN drainAcc ELSE respBuf) = 1 .. got
  <1>1. CASE draining
    BY <1>1 DEF TurnInv, CaptureInv
  <1>2. CASE ~draining /\ clientDead
    <2>1. got = 0
      BY <1>2 DEF TurnInv, CaptureInv
    <2>2. respBuf \subseteq 1 .. got
      BY DEF TurnInv, TypeOK
    <2>. QED BY <1>2, <2>1, <2>2
  <1>3. CASE ~draining /\ ~clientDead
    BY <1>3 DEF TurnInv, CaptureInv
  <1>. QED BY <1>1, <1>2, <1>3

\* A raw response that is cut short says so, with the size that was received.
LEMMA RawMarked ==
    ASSUME TurnInv, Owned, RawResponse.bytes # 1 .. got
    PROVE  /\ RawResponse.markers # <<>>
           /\ RawResponse.markers[Len(RawResponse.markers)].original = got
  <1>. DEFINE n == Cardinality(respBuf)
  <1>0. /\ n \in Nat /\ drainOverflow \in Nat /\ n + drainOverflow = got
        /\ n = got => respBuf = 1 .. got
    BY Captured DEF TurnInv, BytesAccounted, TypeOK
  <1>1. CASE drainOverflow = 0
    <2>1. RawResponse = Bound /\ n = got /\ respBuf = 1 .. got
      BY <1>0, <1>1 DEF RawResponse
    <2>2. ~(n <= cap)
      BY <2>1 DEF Bound
    <2>3. Bound.markers = <<Marker(n, BoundEnd)>>
      BY <2>2 DEF Bound
    <2>. QED BY <2>1, <2>3 DEF Marker
  <1>2. CASE drainOverflow # 0
    <2>. DEFINE m == Marker(n + drainOverflow, n)
    <2>1. Bound.markers \in Seq([original : Nat, captured : Nat])
      <3>1. CASE n <= cap
        BY <3>1 DEF Bound
      <3>2. CASE ~(n <= cap)
        <4>1. Bound.markers = <<Marker(n, BoundEnd)>>
          BY <3>2 DEF Bound
        <4>2. Marker(n, BoundEnd) \in [original : Nat, captured : Nat]
          BY <1>0, BoundEndType, TurnAssumption DEF Marker, TurnInv, TypeOK
        <4>. QED BY <4>1, <4>2
      <3>. QED BY <3>1, <3>2
    <2>2. m \in [original : Nat, captured : Nat] /\ m.original = got
      BY <1>0 DEF Marker
    <2>3. RawResponse.markers = Append(Bound.markers, m)
      BY <1>2 DEF RawResponse, Bound
    <2>. HIDE DEF m
    <2>. QED BY <2>1, <2>2, <2>3
  <1>. QED BY <1>1, <1>2

\* A record that is pushed tells the truth about the request.
LEMMA PushInv ==
    ASSUME TurnInv, pc = "log",
           NEW shape \in {"shell", "sse", "unpacked", "minimal"},
           NEW error, error \in {HttpError, "protocol"},
           NEW parsed \in SUBSET (1 .. MaxBytes),
           Owned /\ shape = "sse" => parsed = 1 .. got,
           NEW raw \in [bytes : SUBSET (1 .. MaxBytes),
                        markers : Seq([original : Nat, captured : Nat])],
           shape # "shell" => raw = RawResponse,
           Push(shape, error, parsed, raw),
           turnsTotal' = turnsTotal + 1, pc' = "done",
           UNCHANGED <<requestVars, captureVars, headVars, endVars, capVars,
                       clientDead, deadline>>
    PROVE  TurnInv' /\ RecordInv'
  <1>. DEFINE r == [shape |-> shape, error |-> error, parsed |-> parsed, raw |-> raw,
                    cancelled |-> Cancelled, timedOut |-> timedOut]
  <1>. USE DEF requestVars, captureVars, headVars, endVars, capVars
  <1>0. records' = {r} /\ turnsTotal' = 1
    BY DEF Push, TurnInv, EndInv
  <1>1. r \in RecordType
    <2>1. error \in ErrorClass /\ Cancelled \in BOOLEAN
      BY EndClassified DEF ErrorClass
    <2>2. timedOut \in BOOLEAN
      BY DEF TurnInv, TypeOK
    <2>. QED BY <2>1, <2>2 DEF RecordType
  <1>2. TypeOK'
    <2>1. FlagsOK'
      BY TypeParts, Zenon DEF TurnInv, FlagsOK
    <2>2. DataOK'
      BY <1>0, <1>1, TypeParts DEF TurnInv, DataOK
    <2>. QED BY <2>1, <2>2, TypeParts, PTL
  <1>3. BytesAccounted' /\ CaptureInv' /\ EndInv'
    BY DEF TurnInv, BytesAccounted, CaptureInv, EndInv
  <1>4. StreamParsedWhole'
    BY <1>0 DEF StreamParsedWhole
  <1>5. DisconnectClassified'
    BY <1>0, EndClassified DEF DisconnectClassified, TruncationMarkedUnlessIdle, Marked,
                                  DeliveredIsClean
  <1>6. FailedRelayRecorded'
    BY <1>0, EndClassified DEF FailedRelayRecorded
  <1>7. TruncationTold'
    BY <1>0, RawMarked DEF TruncationTold
  <1>. QED BY <1>2, <1>3, <1>4, <1>5, <1>6, <1>7 DEF TurnInv, RecordInv

\* A request that leaves no record: none was due.
LEMMA NoRecordInv ==
    ASSUME TurnInv, pc = "log", records' = records,
           turnsTotal' \in {turnsTotal, turnsTotal + 1}, pc' = "done",
           ~(Owned /\ matched = "exact" /\ relayDone /\ (clientDead \/ relayError)),
           UNCHANGED <<requestVars, captureVars, headVars, endVars, capVars,
                       clientDead, deadline>>
    PROVE  TurnInv' /\ RecordInv'
  <1>. USE DEF requestVars, captureVars, headVars, endVars, capVars
  <1>0. records' = {} /\ records = {} /\ turnsTotal' \in 0 .. 1
    BY DEF TurnInv, EndInv
  <1>1. TypeOK'
    <2>1. FlagsOK'
      BY TypeParts, Zenon DEF TurnInv, FlagsOK
    <2>2. DataOK'
      BY <1>0, TypeParts DEF TurnInv, DataOK
    <2>. QED BY <2>1, <2>2, TypeParts, PTL
  <1>2. BytesAccounted' /\ CaptureInv' /\ EndInv'
    BY DEF TurnInv, BytesAccounted, CaptureInv, EndInv
  <1>3. RecordInv'
    BY <1>0 DEF RecordInv, StreamParsedWhole, DisconnectClassified, TruncationMarkedUnlessIdle,
                DeliveredIsClean, FailedRelayRecorded, TruncationTold
  <1>. QED BY <1>1, <1>2, <1>3 DEF TurnInv

LEMMA LoggingInv ==
    ASSUME TurnInv, Logging
    PROVE  TurnInv' /\ RecordInv'
  <1>. DEFINE Raw == [bytes : SUBSET (1 .. MaxBytes),
                      markers : Seq([original : Nat, captured : Nat])]
  <1>0. /\ RawResponse \in Raw /\ [bytes |-> {}, markers |-> <<>>] \in Raw
        /\ respBuf \in SUBSET (1 .. MaxBytes) /\ drainAcc \in SUBSET (1 .. MaxBytes)
        /\ {} \in SUBSET (1 .. MaxBytes)
    BY RawType, TurnAssumption DEF TurnInv, TypeOK
  <1>1. CASE LogNothing
    BY <1>1, NoRecordInv DEF LogNothing, RecordAllowed, outVars
  <1>2. CASE LogShell
    BY <1>0, <1>2, PushInv DEF LogShell
  <1>3. CASE LogSse
    <2>. DEFINE parsed == IF draining THEN drainAcc ELSE respBuf
    <2>1. /\ parsed \in SUBSET (1 .. MaxBytes)
          /\ Owned => parsed = 1 .. got
      BY <1>0, <1>3, StreamWhole DEF LogSse
    <2>2. ErrorOf(parsed) \in {HttpError, "protocol"}
      BY DEF ErrorOf
    <2>3. /\ pc = "log" /\ Push("sse", ErrorOf(parsed), parsed, RawResponse)
          /\ turnsTotal' = turnsTotal + 1 /\ pc' = "done"
          /\ UNCHANGED <<requestVars, captureVars, headVars, endVars, capVars,
                         clientDead, deadline>>
      BY <1>3 DEF LogSse
    <2>. HIDE DEF parsed
    <2>. QED BY <1>0, <2>1, <2>2, <2>3, PushInv
  <1>4. CASE LogWhole
    <2>0. /\ pc = "log" /\ turnsTotal' = turnsTotal + 1 /\ pc' = "done"
          /\ UNCHANGED <<requestVars, captureVars, headVars, endVars, capVars,
                         clientDead, deadline>>
      BY <1>4 DEF LogWhole
    <2>1. CASE Unpacks
      <3>1. Push("unpacked", HttpError, respBuf, RawResponse)
        BY <1>4, <2>1 DEF LogWhole
      <3>. QED BY <1>0, <2>0, <3>1, PushInv
    <2>2. CASE ~Unpacks /\ WorthRecording
      <3>1. Push("minimal", HttpError, {}, RawResponse)
        BY <1>4, <2>2 DEF LogWhole
      <3>. QED BY <1>0, <2>0, <3>1, PushInv
    <2>3. CASE ~Unpacks /\ ~WorthRecording
      <3>1. records' = records
        BY <1>4, <2>3 DEF LogWhole
      <3>2. ~(Owned /\ matched = "exact" /\ relayDone /\ (clientDead \/ relayError))
        BY <2>0, <2>3, EndClassified DEF WorthRecording
      <3>. QED BY <2>0, <3>1, <3>2, NoRecordInv
    <2>. QED BY <2>1, <2>2, <2>3
  <1>. QED BY <1>1, <1>2, <1>3, <1>4 DEF Logging

\* A reload of the cap changes nothing that was captured.
LEMMA SetMaxInv ==
    ASSUME TurnInv, NEW c \in CapMax, SetMax(c)
    PROVE  TurnInv' /\ pc' # "done"
  <1>. USE DEF TurnInv, SetMax, requestVars, captureVars, headVars, endVars, outVars
  <1>1. FlagsOK'
    BY TypeParts, Zenon DEF FlagsOK
  <1>2. DataOK'
    BY TypeParts, TurnAssumption DEF DataOK
  <1>3. TypeOK'
    BY <1>1, <1>2, TypeParts, PTL
  <1>. QED BY <1>3 DEF BytesAccounted, CaptureInv, EndInv

\* Before its record there is nothing a request could have told wrong.
LEMMA NotDoneYet == TurnInv /\ pc # "done" => RecordInv
  BY DEF TurnInv, EndInv, RecordInv, StreamParsedWhole, DisconnectClassified,
         TruncationMarkedUnlessIdle, DeliveredIsClean, FailedRelayRecorded, TruncationTold

LEMMA StepInv == TurnInv /\ RecordInv /\ [Next]_vars => TurnInv' /\ RecordInv'
  <1>. SUFFICES ASSUME TurnInv, RecordInv, [Next]_vars
                PROVE  TurnInv' /\ RecordInv'
    OBVIOUS
  <1>0. TurnInv' /\ pc' # "done" => RecordInv'
    BY DEF TurnInv, EndInv, RecordInv, StreamParsedWhole, DisconnectClassified,
           TruncationMarkedUnlessIdle, DeliveredIsClean, FailedRelayRecorded, TruncationTold
  <1>1. CASE Relay
    BY <1>0, <1>1, RelayInv
  <1>2. CASE Pump
    BY <1>0, <1>2, PumpInv
  <1>3. CASE Logging
    BY <1>3, LoggingInv
  <1>4. CASE \E c \in CapMax : SetMax(c)
    BY <1>0, <1>4, SetMaxInv
  <1>5. CASE UNCHANGED vars
    <2>1. UNCHANGED <<requestVars, captureVars, headVars, endVars, capVars, outVars,
                      pc, clientDead, deadline>>
      BY <1>5 DEF vars
    <2>. USE DEF requestVars, captureVars, headVars, endVars, capVars, outVars
    <2>2. FlagsOK'
      BY <2>1, TypeParts, Zenon DEF TurnInv, FlagsOK
    <2>3. DataOK'
      BY <2>1, TypeParts DEF TurnInv, DataOK
    <2>4. TypeOK'
      BY <2>2, <2>3, TypeParts, PTL
    <2>5. BytesAccounted' /\ CaptureInv' /\ EndInv'
      BY <2>1 DEF TurnInv, BytesAccounted, CaptureInv, EndInv
    <2>6. StreamParsedWhole' /\ FailedRelayRecorded' /\ TruncationTold'
      BY <2>1 DEF RecordInv, StreamParsedWhole, FailedRelayRecorded, TruncationTold
    <2>7. DisconnectClassified'
      BY <2>1 DEF RecordInv, DisconnectClassified, TruncationMarkedUnlessIdle, Marked,
                                  DeliveredIsClean
    <2>. QED BY <2>4, <2>5, <2>6, <2>7 DEF TurnInv, RecordInv
  <1>. QED BY <1>1, <1>2, <1>3, <1>4, <1>5 DEF Next, Finished

LEMMA InvHolds == Spec => [](TurnInv /\ RecordInv)
  BY InitInv, NotDoneYet, StepInv, PTL DEF Spec

-----------------------------------------------------------------------------

\* Every variable keeps its type.
THEOREM TypeCorrect == Spec => []TypeOK
  BY InvHolds, PTL DEF TurnInv

\* drain_capture loses no count, however the chunks fall and the cap changes.
THEOREM AllBytesAccounted == Spec => []BytesAccounted
  BY InvHolds, PTL DEF TurnInv

\* The record of a relayed stream is parsed from every byte received, whenever the
\* client left and whatever the cap was.
THEOREM ParsedWhole == Spec => []StreamParsedWhole
  BY InvHolds, PTL DEF RecordInv

\* A truncated response is recorded without a mark exactly when the session error
\* carries the idle context and the stream reports no error of its own; a delivered
\* one is never recorded as a failure.
THEOREM Classified == Spec => []DisconnectClassified
  BY InvHolds, PTL DEF RecordInv

\* A relayed turn that failed or lost its client leaves a record that says so.
THEOREM FailureRecorded == Spec => []FailedRelayRecorded
  BY InvHolds, PTL DEF RecordInv

\* A raw response that was cut short ends in a marker with its true size.
THEOREM TruncationMarkedTrue == Spec => []TruncationTold
  BY InvHolds, PTL DEF RecordInv
-----------------------------------------------------------------------------
(* What a request is read as.                                              *)

\* The request is one of the inputs, and what was made of it is a function of it.
ReadInv ==
    /\ path \in Seq(STRING) /\ req \in Request
    /\ server.upstream \in Upstream /\ ValidUpstream(server.upstream)
    /\ headers \in Seq(Header)
    /\ route # Unrouted => route = Route(path, req)
    /\ turn # Unread => turn = Read(path, req)

LEMMA InitRead == AttributionInit => ReadInv
  <1>. SUFFICES ASSUME AttributionInit PROVE ReadInv
    OBVIOUS
  <1>1. PICK i \in Input : path = i.path /\ req = i.req /\ server = i.server /\ headers = i.headers
    BY DEF AttributionInit
  <1>2. /\ i.path \in Seq(STRING) /\ i.req \in Request
        /\ i.server.upstream \in Upstream /\ i.headers \in Seq(Header)
    BY InputAssumption
  <1>3. route = Unrouted /\ turn = Unread /\ ValidUpstream(server.upstream)
    BY DEF AttributionInit
  <1>. QED BY <1>1, <1>2, <1>3, Zenon DEF ReadInv

LEMMA StepRead == ReadInv /\ [AttributionNext]_attributionVars => ReadInv'
  <1>. SUFFICES ASSUME ReadInv, [AttributionNext]_attributionVars PROVE ReadInv'
    OBVIOUS
  <1>1. path' = path /\ req' = req /\ server' = server /\ headers' = headers
    BY DEF AttributionNext, RequestFilter, LogAttribution, attributionVars
  <1>2. Route(path, req)' = Route(path, req) /\ Read(path, req)' = Read(path, req)
    BY <1>1, Zenon DEF Route, Read, Relays
  <1>3. route' # Unrouted => route' = Route(path, req)
    BY DEF AttributionNext, RequestFilter, LogAttribution, attributionVars, ReadInv
  <1>4. turn' # Unread => turn' = Read(path, req)
    BY DEF AttributionNext, RequestFilter, LogAttribution, attributionVars, ReadInv
  <1>. QED BY <1>1, <1>2, <1>3, <1>4, Zenon DEF ReadInv

LEMMA ReadInvariant == AttributionSpec => []ReadInv
  BY InitRead, StepRead, PTL DEF AttributionSpec

-----------------------------------------------------------------------------
(* The session.                                                            *)

LEMMA FirstFilledVia ==
    ASSUME NEW via, NEW mounts, NEW filled
    PROVE  LET s == FirstFilled(via, mounts, filled)
           IN  s = NoSession \/ s.via = via
  BY DEF FirstFilled, Found

\* "Session extraction stays keyed on SHAPES (dialect), never on attribution":
\* for every request, another user agent leaves the turn in the same session, or
\* moves it among the sources that come last.
THEOREM ExtractionAlwaysIgnoresAttribution == AttributionSpec => []ExtractionIgnoresAttribution
  <1>1. ReadInv => ExtractionIgnoresAttribution
    <2>. SUFFICES ASSUME ReadInv, turn # Unread, NEW ua \in UA
                  PROVE  LET other == Read(path, [req EXCEPT !.ua = ua]).session
                         IN  \/ other = turn.session
                             \/ /\ other.via \in {None, "stitcher", "harness-header"}
                                /\ turn.session.via \in {None, "stitcher", "harness-header"}
      BY DEF ExtractionIgnoresAttribution
    <2>. DEFINE r == [req EXCEPT !.ua = ua]
                protocol == DetectPath(path).protocol
                d == DetectByName(protocol)
                Session(q) == TurnFacts(protocol, q, Identify(protocol, q))
                Final(q) == IF Stitched(protocol, q, Session(q)) THEN Found("stitcher", None)
                            ELSE Session(q)
                late == {None, "stitcher", "harness-header"}
    <2>1. /\ r.headers = req.headers /\ r.body = req.body /\ r.userId = req.userId
          /\ r.codex = req.codex /\ r.parses = req.parses /\ r.messages = req.messages
      BY DEF ReadInv, Request
    <2>2. turn.session = Final(req) /\ Read(path, r).session = Final(r)
      <3>1. ASSUME NEW q PROVE Read(path, q).session = Final(q)
        BY DEF Read
      <3>2. turn = Read(path, req)
        BY DEF ReadInv
      <3>. QED BY <3>1, <3>2, Zenon
    <2>. HIDE DEF r
    \* The first three sources are the same for both.
    <2>. DEFINE one == FirstFilled("body", d.body, req.body)
                two(q) == SessionFromBody(Identify(protocol, q), q)
                three == FirstFilled("header", d.headers, req.headers)
                four(q) == SessionFromHeaders(Identify(protocol, q), q)
    <2>3. two(r) = two(req)
      <3>1. BodyEvidence(r) = BodyEvidence(req)
        BY <2>1 DEF BodyEvidence
      <3>2. Identify(protocol, r).dialect = Identify(protocol, req).dialect
        BY <2>1, <3>1 DEF Identify
      <3>. QED BY <2>1, <3>2, Zenon DEF SessionFromBody
    <2>4. ASSUME NEW q, q.parses = req.parses, q.body = req.body, q.headers = req.headers
          PROVE  Session(q) = IF ~req.parses THEN NoSession
                              ELSE OrElse(one, OrElse(two(q), OrElse(three, four(q))))
      BY <2>4, Zenon DEF TurnFacts
    <2>5. ASSUME NEW q PROVE four(q) = NoSession \/ four(q).via = "harness-header"
      BY FirstFilledVia, Zenon DEF SessionFromHeaders
    <2>6. NoSession.via = None /\ Found("stitcher", None).via = "stitcher"
      BY DEF NoSession, Found
    <2>7. \/ Session(r) = Session(req)
          \/ Session(r).via \in late /\ Session(req).via \in late
      <3>. HIDE DEF one, two, three, four, Session, d, protocol
      <3>1. /\ Session(r) = IF ~req.parses THEN NoSession
                            ELSE OrElse(one, OrElse(two(r), OrElse(three, four(r))))
            /\ Session(req) = IF ~req.parses THEN NoSession
                              ELSE OrElse(one, OrElse(two(req), OrElse(three, four(req))))
        BY <2>1, <2>4
      <3>. QED BY <2>3, <2>5, <2>6, <3>1, Zenon DEF OrElse
    <2>8. ASSUME Session(r) = Session(req) PROVE Final(r) = Final(req)
      BY <2>1, <2>8, Zenon DEF Stitched
    <2>9. ASSUME NEW q, Session(q).via \in late PROVE Final(q).via \in late
      <3>. HIDE DEF Session
      <3>. QED BY <2>6, <2>9
    <2>10. Final(r) = Final(req) \/ (Final(r).via \in late /\ Final(req).via \in late)
      <3>. HIDE DEF Session, Final, late
      <3>. QED BY <2>7, <2>8, <2>9, Zenon
    <2>. QED BY <2>2, <2>10, Zenon DEF r
  <1>. QED BY <1>1, ReadInvariant, PTL

-----------------------------------------------------------------------------
(* The target.                                                             *)

LEMMA Ports ==
    ASSUME NEW u \in Upstream, ValidUpstream(u)
    PROVE  LET p == ParseUpstream(u)
           IN  /\ p.scheme \in {"http", "https"} /\ p.host = u.host /\ p.path = u.base
               /\ p.port # 0 /\ DefaultPort(p.scheme) # 0
               /\ p.port = IF u.port = 0 THEN DefaultPort(p.scheme) ELSE u.port
  <1>. DEFINE p == ParseUpstream(u)
              s == IF u.scheme = "" THEN "http" ELSE u.scheme
  <1>1. u.scheme \in {"", "http", "https"}
    BY DEF Upstream
  <1>2. s \in {"http", "https"}
    BY <1>1
  <1>. HIDE DEF s
  <1>3. DefaultPort(s) # 0
    BY DEF DefaultPort
  <1>4. /\ p.scheme = s /\ p.host = u.host /\ p.path = u.base
        /\ p.port = IF u.port = 0 THEN DefaultPort(s) ELSE u.port
    BY DEF ParseUpstream, s
  <1>. HIDE DEF p
  <1>5. p.port # 0
    BY <1>3, <1>4
  <1>. QED BY <1>2, <1>3, <1>4, <1>5 DEF p

\* The two ways agree on a target when the relay can build its URL and there is no
\* base path.
LEMMA TargetsMatch ==
    ASSUME NEW u \in Upstream, ValidUpstream(u), NEW sni
    PROVE  LET pump  == UpstreamPeer(u, sni)
               relay == RelayTarget(u, sni)
               Port0(h) == IF h[2] = 0 THEN DefaultPort(ParseUpstream(u).scheme) ELSE h[2]
           IN  (/\ relay.addr = pump.addr /\ relay.tls = pump.tls
                /\ relay.header[1] = pump.header[1] /\ Port0(relay.header) = Port0(pump.header)
                /\ relay.prefix = pump.prefix)
               <=> u.base = "" /\ UrlParses(IF Pins(u, sni) THEN sni ELSE u.host)
  <1>. DEFINE p == ParseUpstream(u)
              pump  == UpstreamPeer(u, sni)
              relay == RelayTarget(u, sni)
              name == IF Pins(u, sni) THEN sni ELSE u.host
              default == DefaultPort(p.scheme)
              Port0(h) == IF h[2] = 0 THEN default ELSE h[2]
              Agree == /\ relay.addr = pump.addr /\ relay.tls = pump.tls
                       /\ relay.header[1] = pump.header[1]
                       /\ Port0(relay.header) = Port0(pump.header)
                       /\ relay.prefix = pump.prefix
  <1>. SUFFICES Agree <=> u.base = "" /\ UrlParses(name)
    OBVIOUS
  <1>. HIDE DEF Agree
  <1>1. /\ p.scheme \in {"http", "https"} /\ p.host = u.host /\ p.path = u.base
        /\ p.port # 0 /\ default # 0 /\ p.port = IF u.port = 0 THEN default ELSE u.port
    BY Ports
  <1>2. Pins(u, sni) <=> p.scheme = "https" /\ sni # NoHost /\ sni # u.host
    BY DEF Pins
  <1>. HIDE DEF p, default
  <1>3. /\ pump.addr = <<u.host, p.port>> /\ pump.prefix = ""
        /\ pump.tls = IF p.scheme = "https" THEN TlsName(u.host, sni) ELSE NoHost
        /\ pump.header = IF sni = NoHost THEN <<u.host, u.port>> ELSE <<sni, 0>>
    BY <1>1 DEF UpstreamPeer, Target, p
  <1>4. CASE ~UrlParses(name)
    <2>1. relay.addr = <<NoHost, 0>>
      BY <1>1, <1>4 DEF RelayTarget, Unreachable, Target, p
    <2>2. u.host # NoHost
      BY DEF ValidUpstream
    <2>. HIDE DEF relay, pump, name
    <2>3. relay.addr # pump.addr
      <3>1. pump.addr = <<u.host, p.port>>
        BY <1>3
      <3>2. ASSUME NEW h, NEW k, h # NoHost PROVE <<h, k>> # <<NoHost, 0>>
        BY <3>2
      <3>. QED BY <2>1, <2>2, <3>1, <3>2, Zenon
    <2>. QED BY <1>4, <2>3, Zenon DEF Agree
  <1>5. CASE UrlParses(name)
    <2>. DEFINE urlPort == IF p.port = default THEN 0 ELSE p.port
    <2>1. /\ relay.addr = <<u.host, p.port>> /\ relay.prefix = u.base
          /\ relay.tls = IF p.scheme = "https" THEN name ELSE NoHost
          /\ relay.header = IF sni = NoHost THEN <<name, urlPort>> ELSE <<sni, 0>>
      BY <1>1, <1>5 DEF RelayTarget, Target, p, default
    <2>2. relay.tls = pump.tls
      BY <1>2, <1>3, <2>1 DEF TlsName
    <2>3. relay.header[1] = pump.header[1] /\ Port0(relay.header) = Port0(pump.header)
      <3>1. CASE sni = NoHost
        <4>1. name = u.host
          BY <1>2, <3>1
        <4>. HIDE DEF name
        <4>2. relay.header[1] = name /\ relay.header[2] = urlPort
          BY <2>1, <3>1
        <4>3. pump.header[1] = u.host /\ pump.header[2] = u.port
          <5>1. pump.header = <<u.host, u.port>>
            BY <1>3, <3>1, Zenon
          <5>. HIDE DEF pump
          <5>. QED BY <5>1
        <4>. HIDE DEF relay, pump
        <4>4. Port0(relay.header) = p.port
          BY <1>1, <4>2
        <4>5. Port0(pump.header) = p.port
          BY <1>1, <4>3
        <4>. QED BY <4>1, <4>2, <4>3, <4>4, <4>5
      <3>2. CASE sni # NoHost
        BY <1>3, <2>1, <3>2
      <3>. QED BY <3>1, <3>2
    <2>. HIDE DEF relay, pump, name, Port0
    <2>4. relay.addr = pump.addr /\ (relay.prefix = pump.prefix <=> u.base = "")
      BY <1>3, <2>1
    <2>. QED BY <1>5, <2>2, <2>3, <2>4, Zenon DEF Agree
  <1>. QED BY <1>4, <1>5

\* "pump parity": for every upstream and SNI, the relay and the pump reach the
\* same target, but for a base path and for a literal in the relay's URL.
THEOREM TargetsAlwaysAgree == AttributionSpec => []TargetsAgree
  <1>1. ReadInv => TargetsAgree
    <2>. SUFFICES ASSUME ReadInv, route.by = "relay" PROVE TargetsAgree
      BY DEF TargetsAgree
    <2>. DEFINE u == server.upstream
                sni == server.sni
    <2>1. u \in Upstream /\ ValidUpstream(u)
      BY DEF ReadInv
    <2>2. route.to = RelayTarget(u, sni)
      <3>1. route = Route(path, req)
        BY DEF ReadInv, Unrouted, None
      <3>2. CASE path \in Control
        BY <3>1, <3>2 DEF Route
      <3>3. CASE path \notin Control /\ Relays(path, req)
        BY <3>1, <3>3 DEF Route
      <3>4. CASE path \notin Control /\ ~Relays(path, req)
        BY <3>1, <3>4 DEF Route
      <3>. QED BY <3>2, <3>3, <3>4
    <2>. DEFINE pump  == UpstreamPeer(u, sni)
                relay == RelayTarget(u, sni)
                Port0(h) == IF h[2] = 0 THEN DefaultPort(ParseUpstream(u).scheme) ELSE h[2]
    <2>3. (/\ relay.addr = pump.addr /\ relay.tls = pump.tls
           /\ relay.header[1] = pump.header[1] /\ Port0(relay.header) = Port0(pump.header)
           /\ relay.prefix = pump.prefix)
          <=> u.base = "" /\ UrlParses(IF Pins(u, sni) THEN sni ELSE u.host)
      BY <2>1, TargetsMatch
    <2>4. ASSUME NEW g, NEW h
          PROVE  Names(g) = Names(h) <=> g[1] = h[1] /\ Port0(g) = Port0(h)
      BY DEF Names
    <2>. HIDE DEF pump, relay, Port0
    <2>5. Names(relay.header) = Names(pump.header) <=>
            relay.header[1] = pump.header[1] /\ Port0(relay.header) = Port0(pump.header)
      BY <2>4
    <2>6. (/\ relay.addr = pump.addr /\ relay.tls = pump.tls
           /\ Names(relay.header) = Names(pump.header) /\ relay.prefix = pump.prefix)
          <=> u.base = "" /\ UrlParses(IF Pins(u, sni) THEN sni ELSE u.host)
      BY <2>3, <2>5, Zenon
    <2>. QED BY <2>2, <2>6, Zenon DEF TargetsAgree, pump, relay
  <1>. QED BY <1>1, ReadInvariant, PTL

-----------------------------------------------------------------------------
(* The header evidence.                                                    *)

Costs(s) == [k \in 1 .. Len(s) |-> Cost(s[k])]

LEMMA CostType == \A h \in Header : Cost(h) \in Nat
  <1>. SUFFICES ASSUME NEW h \in Header PROVE Cost(h) \in Nat
    OBVIOUS
  <1>1. h.name \in Nat /\ h.value \in Nat /\ ValueCap \in Nat
    BY EvidenceAssumption DEF Header
  <1>. QED BY <1>1 DEF Cost, Truncated

LEMMA CostsType ==
    ASSUME NEW s \in Seq(Header)
    PROVE  Costs(s) \in [1 .. Len(s) -> Nat] /\ Len(s) \in Nat
  <1>1. \A i \in 1 .. Len(s) : s[i] \in Header
    OBVIOUS
  <1>2. \A i \in 1 .. Len(s) : Cost(s[i]) \in Nat
    BY <1>1, CostType
  <1>. QED BY <1>2 DEF Costs

LEMMA TotalIsSum ==
    ASSUME NEW s \in Seq(Header), NEW f, PartialSums(f, Costs(s), Len(s))
    PROVE  TotalCost(s) = f[Len(s)]
  <1>. DEFINE n == Len(s)
              E(a) == a = [k \in 0 .. n |-> IF k = 0 THEN 0 ELSE a[k - 1] + Cost(s[k])]
              sum == CHOOSE a : E(a)
  <1>1. n \in Nat /\ Costs(s) \in [1 .. n -> Nat]
    BY CostsType
  <1>2. \A i \in 1 .. n : Costs(s)[i] = Cost(s[i])
    BY DEF Costs
  <1>3. E(f)
    BY <1>1, <1>2 DEF PartialSums
  <1>4. E(sum)
    BY <1>3, Zenon
  <1>5. TotalCost(s) = sum[n]
    BY Zenon DEF TotalCost
  <1>. HIDE DEF sum
  <1>6. sum[0] = 0 /\ \A i \in 1 .. n : sum[i] = sum[i - 1] + Costs(s)[i]
    BY <1>1, <1>2, <1>4
  <1>7. sum[n] = f[n]
    BY <1>1, <1>6, SumsUnique
  <1>. QED BY <1>5, <1>7

LEMMA TotalOfNothing == TotalCost(<<>>) = 0
  <1>1. <<>> \in Seq(Header) /\ Len(<<>>) = 0
    OBVIOUS
  <1>2. PICK f : PartialSums(f, Costs(<<>>), 0)
    BY <1>1, CostsType, SumsExist
  <1>3. TotalCost(<<>>) = f[0]
    BY <1>1, <1>2, TotalIsSum
  <1>. QED BY <1>2, <1>3 DEF PartialSums

LEMMA TotalAppend ==
    ASSUME NEW s \in Seq(Header), NEW h \in Header
    PROVE  TotalCost(Append(s, h)) = TotalCost(s) + Cost(h) /\ TotalCost(s) \in Nat
  <1>. DEFINE t == Append(s, h)
              n == Len(s)
  <1>1. /\ t \in Seq(Header) /\ Len(t) = n + 1 /\ n \in Nat /\ t[n + 1] = h
        /\ \A i \in 1 .. n : t[i] = s[i]
    OBVIOUS
  <1>2. /\ \A i \in 1 .. n : Costs(t)[i] = Costs(s)[i]
        /\ Costs(t)[n + 1] = Cost(h) /\ Cost(h) \in Nat
    <2>. HIDE DEF t
    <2>1. n + 1 \in 1 .. Len(t)
      BY <1>1
    <2>2. ASSUME NEW i \in 1 .. n PROVE Costs(t)[i] = Costs(s)[i]
      BY <1>1 DEF Costs
    <2>. QED BY <1>1, <2>1, <2>2, CostType DEF Costs
  <1>. HIDE DEF t
  <1>3. PICK f : PartialSums(f, Costs(t), n + 1)
    BY <1>1, CostsType, SumsExist
  <1>. DEFINE g == [i \in 0 .. n |-> f[i]]
  <1>4. PartialSums(g, Costs(s), n)
    <2>1. g \in [0 .. n -> Nat] /\ g[0] = 0
      BY <1>1, <1>3 DEF PartialSums
    <2>2. ASSUME NEW i \in 1 .. n PROVE g[i] = g[i - 1] + Costs(s)[i]
      BY <1>1, <1>2, <1>3 DEF PartialSums
    <2>. HIDE DEF g
    <2>. QED BY <2>1, <2>2 DEF PartialSums
  <1>5. g[n] = f[n] /\ f[n + 1] = f[n] + Cost(h) /\ f[n] \in Nat
    BY <1>1, <1>2, <1>3 DEF PartialSums
  <1>. HIDE DEF g
  <1>6. TotalCost(t) = f[n + 1] /\ TotalCost(s) = g[n]
    BY <1>1, <1>3, <1>4, TotalIsSum
  <1>. QED BY <1>5, <1>6 DEF t

\* The loop after n headers.
PassedUpTo(all, n) == {i \in 1 .. n : Passed(all[i])}
Gathered(e, all, n) ==
    /\ e \in [kept : Seq(Header), used : Nat, dropped : Nat]
    /\ Len(e.kept) <= MaxEntries /\ e.used <= Budget /\ e.used = TotalCost(e.kept)
    /\ \A k \in 1 .. Len(e.kept) : ~e.kept[k].denied /\ e.kept[k].text
    /\ Len(e.kept) + e.dropped = Cardinality(PassedUpTo(all, n))
    /\ \A i \in PassedUpTo(all, n) : \/ \E k \in 1 .. Len(e.kept) : e.kept[k] = all[i]
                                     \/ ~HasRoom(e.kept, e.used, all[i])

LEMMA PassedStep ==
    ASSUME NEW all, NEW n \in Nat
    PROVE  /\ Cardinality(PassedUpTo(all, n)) \in Nat
           /\ Passed(all[n + 1]) =>
                /\ PassedUpTo(all, n + 1) = PassedUpTo(all, n) \cup {n + 1}
                /\ Cardinality(PassedUpTo(all, n + 1)) = Cardinality(PassedUpTo(all, n)) + 1
           /\ ~Passed(all[n + 1]) => PassedUpTo(all, n + 1) = PassedUpTo(all, n)
  <1>. DEFINE S == PassedUpTo(all, n)
  <1>1. S \subseteq 1 .. n /\ n + 1 \notin S
    BY DEF PassedUpTo
  <1>2. 1 .. n + 1 = (1 .. n) \cup {n + 1}
    OBVIOUS
  <1>3. /\ Passed(all[n + 1]) => PassedUpTo(all, n + 1) = S \cup {n + 1}
        /\ ~Passed(all[n + 1]) => PassedUpTo(all, n + 1) = S
    BY <1>2, Zenon DEF PassedUpTo
  <1>4. IsFiniteSet(1 .. n)
    BY FS_Interval
  <1>5. IsFiniteSet(S)
    BY <1>1, <1>4, FS_Subset
  <1>. HIDE DEF S
  <1>6. Cardinality(S) \in Nat /\ Cardinality(S \cup {n + 1}) = Cardinality(S) + 1
    BY <1>1, <1>5, FS_CardinalityType, FS_AddElement
  <1>. QED BY <1>3, <1>6, Zenon DEF S

LEMMA CollectedStep ==
    ASSUME NEW all \in Seq(Header), NEW n \in Nat, n + 1 <= Len(all), NEW e, Gathered(e, all, n)
    PROVE  Gathered(Collected(e, all[n + 1]), all, n + 1)
  <1>. DEFINE h == all[n + 1]
              kept == e.kept
              used == e.used
  <1>1. /\ e \in [kept : Seq(Header), used : Nat, dropped : Nat]
        /\ kept \in Seq(Header) /\ used \in Nat /\ e.dropped \in Nat /\ Len(kept) \in Nat
    BY DEF Gathered
  <1>2. Cost(h) \in Nat /\ h \in Header /\ h.name \in Nat
    <2>1. h \in Header
      OBVIOUS
    <2>. HIDE DEF h
    <2>. QED BY <2>1, CostType DEF Header
  <1>3. CASE ~Passed(h)
    <2>1. Collected(e, h) = e
      BY <1>3 DEF Collected
    <2>2. PassedUpTo(all, n + 1) = PassedUpTo(all, n)
      BY <1>3, PassedStep
    <2>. QED BY <2>1, <2>2, Zenon DEF Gathered
  <1>4. CASE Passed(h) /\ ~HasRoom(kept, used, h)
    <2>. DEFINE f == Collected(e, h)
    <2>1. f = [e EXCEPT !.dropped = e.dropped + 1]
      BY <1>4 DEF Collected
    <2>. HIDE DEF f, h
    <2>2. /\ f \in [kept : Seq(Header), used : Nat, dropped : Nat]
          /\ f.kept = kept /\ f.used = used /\ f.dropped = e.dropped + 1
      BY <1>1, <2>1
    <2>3. /\ PassedUpTo(all, n + 1) = PassedUpTo(all, n) \cup {n + 1}
          /\ Cardinality(PassedUpTo(all, n + 1)) = Cardinality(PassedUpTo(all, n)) + 1
      BY <1>4, PassedStep DEF h
    <2>4. Len(f.kept) + f.dropped = Cardinality(PassedUpTo(all, n + 1))
      <3>1. Len(kept) + e.dropped = Cardinality(PassedUpTo(all, n))
        BY DEF Gathered
      <3>. HIDE DEF kept
      <3>. QED BY <1>1, <2>2, <2>3, <3>1
    <2>5. ASSUME NEW i \in PassedUpTo(all, n + 1)
          PROVE  \/ \E k \in 1 .. Len(kept) : kept[k] = all[i]
                 \/ ~HasRoom(kept, used, all[i])
      <3>1. CASE i = n + 1
        BY <1>4, <3>1 DEF h
      <3>2. CASE i \in PassedUpTo(all, n)
        BY <3>2, Zenon DEF Gathered
      <3>. QED BY <2>3, <3>1, <3>2
    <2>6. /\ Len(kept) <= MaxEntries /\ used <= Budget /\ used = TotalCost(kept)
          /\ \A k \in 1 .. Len(kept) : ~kept[k].denied /\ kept[k].text
      BY Zenon DEF Gathered
    <2>7. Gathered(f, all, n + 1)
      <3>. HIDE DEF kept, used
      <3>. QED BY <2>2, <2>4, <2>5, <2>6, Zenon DEF Gathered
    <2>. QED BY <2>7 DEF f, h
  <1>5. CASE Passed(h) /\ HasRoom(kept, used, h)
    <2>. DEFINE f == Collected(e, h)
                more == Append(kept, h)
    <2>1. f = [e EXCEPT !.kept = more, !.used = used + Cost(h)]
      BY <1>5 DEF Collected
    <2>2. /\ more \in Seq(Header) /\ Len(more) = Len(kept) + 1 /\ more[Len(kept) + 1] = h
          /\ \A k \in 1 .. Len(kept) : more[k] = kept[k]
      <3>. HIDE DEF h, kept
      <3>. QED BY <1>1, <1>2, AppendProperties
    <2>. HIDE DEF f, h, more
    <2>3. /\ f \in [kept : Seq(Header), used : Nat, dropped : Nat]
          /\ f.kept = more /\ f.used = used + Cost(h) /\ f.dropped = e.dropped
      <3>. DEFINE c == used + Cost(h)
      <3>1. c \in Nat /\ f = [e EXCEPT !.kept = more, !.used = c]
        BY <1>1, <1>2, <2>1
      <3>. HIDE DEF c
      <3>2. f \in [kept : Seq(Header), used : Nat, dropped : Nat]
        BY <1>1, <2>2, <3>1
      <3>3. f.kept = more /\ f.used = c /\ f.dropped = e.dropped
        BY <1>1, <3>1
      <3>. QED BY <3>2, <3>3 DEF c
    <2>4. /\ PassedUpTo(all, n + 1) = PassedUpTo(all, n) \cup {n + 1}
          /\ Cardinality(PassedUpTo(all, n + 1)) = Cardinality(PassedUpTo(all, n)) + 1
      BY <1>5, PassedStep DEF h
    <2>5. h.name <= NameCap /\ Len(kept) < MaxEntries /\ used + Cost(h) <= Budget
      BY <1>5, Zenon DEF HasRoom
    <2>6. ~h.denied /\ h.text
      <3>1. NameCap \in Nat /\ ~(h.name > NameCap)
        BY <1>2, <2>5, EvidenceAssumption
      <3>. QED BY <1>5, <3>1, Zenon DEF Passed
    <2>7. /\ Len(kept) <= MaxEntries /\ used <= Budget /\ used = TotalCost(kept)
          /\ \A k \in 1 .. Len(kept) : ~kept[k].denied /\ kept[k].text
          /\ Len(kept) + e.dropped = Cardinality(PassedUpTo(all, n))
          /\ \A i \in PassedUpTo(all, n) : \/ \E k \in 1 .. Len(kept) : kept[k] = all[i]
                                           \/ ~HasRoom(kept, used, all[i])
      BY Zenon DEF Gathered
    <2>8. used + Cost(h) = TotalCost(more)
      BY <1>1, <1>2, <2>7, TotalAppend DEF more
    <2>. HIDE DEF kept, used
    <2>9. Len(more) <= MaxEntries
      BY <1>1, <2>2, <2>5, EvidenceAssumption
    <2>10. Len(more) + e.dropped = Cardinality(PassedUpTo(all, n + 1))
      BY <1>1, <2>2, <2>4, <2>7
    <2>11. ASSUME NEW k \in 1 .. Len(more) PROVE ~more[k].denied /\ more[k].text
      <3>1. CASE k = Len(kept) + 1
        BY <2>2, <2>6, <3>1, Zenon
      <3>2. CASE k # Len(kept) + 1
        <4>1. k \in 1 .. Len(kept)
          BY <1>1, <2>2, <3>2
        <4>. QED BY <2>2, <2>7, <4>1, Zenon
      <3>. QED BY <3>1, <3>2
    <2>12. ASSUME NEW i \in PassedUpTo(all, n + 1)
           PROVE  \/ \E k \in 1 .. Len(more) : more[k] = all[i]
                  \/ ~HasRoom(more, used + Cost(h), all[i])
      <3>1. CASE i = n + 1
        <4>1. Len(kept) + 1 \in 1 .. Len(more)
          BY <1>1, <2>2
        <4>. QED BY <2>2, <3>1, <4>1 DEF h
      <3>2. CASE i \in PassedUpTo(all, n)
        <4>1. CASE \E k \in 1 .. Len(kept) : kept[k] = all[i]
          <5>1. \A k \in 1 .. Len(kept) : k \in 1 .. Len(more)
            BY <1>1, <2>2
          <5>. QED BY <2>2, <4>1, <5>1
        \* What had no room has none when more is kept.
        <4>2. CASE ~HasRoom(kept, used, all[i])
          <5>. DEFINE x == all[i]
          <5>1. SUFFICES ASSUME HasRoom(more, used + Cost(h), x) PROVE HasRoom(kept, used, x)
            BY <4>2
          <5>2. x.name <= NameCap /\ Len(more) < MaxEntries /\ (used + Cost(h)) + Cost(x) <= Budget
            BY <5>1, Zenon DEF HasRoom
          <5>. HIDE DEF x
          <5>3. Len(kept) < MaxEntries
            BY <2>5
          <5>4. used + Cost(x) <= Budget
            <6>1. x \in Header
              BY <3>2 DEF PassedUpTo, x
            <6>2. Cost(x) \in Nat
              BY <6>1, CostType
            <6>. QED BY <1>1, <1>2, <5>2, <6>2, EvidenceAssumption
          <5>. QED BY <5>2, <5>3, <5>4, Zenon DEF HasRoom
        <4>. QED BY <2>7, <3>2, <4>1, <4>2, Zenon
      <3>. QED BY <2>4, <3>1, <3>2
    <2>13. Gathered(f, all, n + 1)
      BY <2>3, <2>5, <2>8, <2>9, <2>10, <2>11, <2>12, Zenon DEF Gathered
    <2>. QED BY <2>13 DEF f, h
  <1>. QED BY <1>3, <1>4, <1>5

\* f holds the states of the loop over the first n headers.
Collecting(f, all, n) ==
    /\ f = [i \in 0 .. n |-> f[i]] /\ f[0] = NoEvidence
    /\ \A i \in 1 .. n : f[i] = Collected(f[i - 1], all[i])

LEMMA CollectingExists ==
    ASSUME NEW all, NEW n \in Nat
    PROVE  \E f : Collecting(f, all, n)
  <1>. DEFINE S == {m \in Nat : \E f : Collecting(f, all, m)}
  <1>1. 0 \in S
    <2>. DEFINE f == [i \in 0 .. 0 |-> NoEvidence]
    <2>1. f = [i \in 0 .. 0 |-> f[i]] /\ f[0] = NoEvidence
      OBVIOUS
    <2>2. Collecting(f, all, 0)
      BY <2>1 DEF Collecting
    <2>. QED BY <2>2
  <1>2. ASSUME NEW m \in S PROVE m + 1 \in S
    <2>1. PICK f : Collecting(f, all, m)
      OBVIOUS
    <2>. DEFINE x == Collected(f[m], all[m + 1])
                g == [i \in 0 .. m + 1 |-> IF i = m + 1 THEN x ELSE f[i]]
    <2>. HIDE DEF x
    <2>2. /\ m \in Nat /\ f[0] = NoEvidence
          /\ \A i \in 1 .. m : f[i] = Collected(f[i - 1], all[i])
      BY <2>1 DEF Collecting
    <2>3. g = [i \in 0 .. m + 1 |-> g[i]] /\ g[0] = NoEvidence
      BY <2>2
    <2>4. ASSUME NEW i \in 1 .. m + 1 PROVE g[i] = Collected(g[i - 1], all[i])
      <3>1. g[i - 1] = f[i - 1]
        BY <2>2
      <3>2. CASE i = m + 1
        <4>1. g[i] = x /\ i - 1 = m
          BY <2>2, <3>2
        <4>. HIDE DEF g
        <4>. QED BY <3>1, <3>2, <4>1 DEF x
      <3>3. CASE i # m + 1
        <4>1. g[i] = f[i] /\ i \in 1 .. m
          BY <2>2, <3>3
        <4>. HIDE DEF g
        <4>. QED BY <2>2, <3>1, <4>1
      <3>. QED BY <3>2, <3>3
    <2>. HIDE DEF g
    <2>5. Collecting(g, all, m + 1)
      BY <2>3, <2>4 DEF Collecting
    <2>. QED BY <2>2, <2>5
  <1>. HIDE DEF S
  <1>3. S = Nat
    BY <1>1, <1>2, SetInduction DEF S
  <1>. QED BY <1>3 DEF S

LEMMA CollectedAll ==
    ASSUME NEW all \in Seq(Header)
    PROVE  Gathered(CollectHdrEvidence(all), all, Len(all))
  <1>. DEFINE n == Len(all)
              E(f) == f = [i \in 0 .. n |-> IF i = 0 THEN NoEvidence
                                            ELSE Collected(f[i - 1], all[i])]
              st == CHOOSE f : E(f)
  <1>0. n \in Nat
    OBVIOUS
  <1>1. CollectHdrEvidence(all) = st[n]
    BY DEF CollectHdrEvidence
  <1>. HIDE DEF n
  <1>2. PICK f : Collecting(f, all, n)
    BY <1>0, CollectingExists
  <1>3. E(f)
    <2>1. ASSUME NEW i \in 0 .. n
          PROVE  f[i] = IF i = 0 THEN NoEvidence ELSE Collected(f[i - 1], all[i])
      <3>1. CASE i = 0
        BY <1>2, <3>1, Zenon DEF Collecting
      <3>2. CASE i # 0
        <4>1. i \in 1 .. n
          BY <1>0, <3>2
        <4>. QED BY <1>2, <3>2, <4>1, Zenon DEF Collecting
      <3>. QED BY <3>1, <3>2
    <2>. QED BY <1>2, <2>1 DEF Collecting
  <1>4. E(st)
    BY <1>3, Zenon
  <1>. HIDE DEF st
  <1>. DEFINE S == {k \in Nat : k <= n => Gathered(st[k], all, k)}
  <1>5. 0 \in S
    <2>1. st[0] = NoEvidence
      BY <1>0, <1>4
    <2>2. /\ NoEvidence \in [kept : Seq(Header), used : Nat, dropped : Nat]
          /\ NoEvidence.kept = <<>> /\ NoEvidence.used = 0 /\ NoEvidence.dropped = 0
      BY DEF NoEvidence
    <2>3. PassedUpTo(all, 0) = {} /\ Cardinality({}) = 0
      BY FS_EmptySet DEF PassedUpTo
    <2>4. Len(<<>>) = 0 /\ 0 <= MaxEntries /\ 0 <= Budget
      BY EvidenceAssumption
    <2>5. Gathered(NoEvidence, all, 0)
      <3>. DEFINE e == NoEvidence
      <3>. HIDE DEF e
      <3>1. /\ e \in [kept : Seq(Header), used : Nat, dropped : Nat]
            /\ e.kept = <<>> /\ e.used = 0 /\ e.dropped = 0
        BY <2>2 DEF e
      <3>2. Len(e.kept) + e.dropped = 0 /\ 1 .. Len(e.kept) = {}
        BY <2>4, <3>1
      <3>3. Len(e.kept) <= MaxEntries /\ e.used <= Budget /\ e.used = TotalCost(e.kept)
        BY <2>4, <3>1, TotalOfNothing
      <3>4. Gathered(e, all, 0)
        BY <2>3, <3>1, <3>2, <3>3, Zenon DEF Gathered
      <3>. QED BY <3>4 DEF e
    <2>. QED BY <2>1, <2>5
  <1>6. ASSUME NEW k \in S PROVE k + 1 \in S
    <2>. SUFFICES ASSUME k + 1 <= n PROVE Gathered(st[k + 1], all, k + 1)
      OBVIOUS
    <2>1. k \in Nat /\ k + 1 \in 0 .. n /\ k + 1 # 0 /\ (k + 1) - 1 = k /\ Gathered(st[k], all, k)
      BY <1>0
    <2>2. st[k + 1] = IF k + 1 = 0 THEN NoEvidence ELSE Collected(st[(k + 1) - 1], all[k + 1])
      BY <1>4, <2>1, Zenon
    <2>3. st[k + 1] = Collected(st[k], all[k + 1])
      BY <2>1, <2>2
    <2>4. Gathered(Collected(st[k], all[k + 1]), all, k + 1)
      BY <2>1, CollectedStep DEF n
    <2>. QED BY <2>3, <2>4
  <1>. HIDE DEF S
  <1>7. S = Nat
    BY <1>5, <1>6, SetInduction DEF S
  <1>8. Gathered(st[n], all, n)
    BY <1>0, <1>7 DEF S
  <1>. QED BY <1>1, <1>8 DEF n

\* "the entry/byte bounds drop the overflow (counted)": for every sequence of
\* headers and all bounds, the evidence keeps both bounds, holds no barred header,
\* and every other header is kept or counted, none counted that still had room.
THEOREM EvidenceAlwaysExact == AttributionSpec => []EvidenceExact
  <1>1. ReadInv => EvidenceExact
    <2>. SUFFICES ASSUME ReadInv, turn # Unread PROVE EvidenceExact
      BY DEF EvidenceExact
    <2>. DEFINE e == turn.evidence
                n == Len(headers)
    <2>1. e = CollectHdrEvidence(headers)
      <3>1. turn = Read(path, req)
        BY DEF ReadInv
      <3>2. Read(path, req).evidence = CollectHdrEvidence(headers)
        BY DEF Read
      <3>. QED BY <3>1, <3>2
    <2>2. headers \in Seq(Header) /\ DOMAIN headers = 1 .. n
      BY DEF ReadInv
    <2>3. Gathered(e, headers, n)
      BY <2>1, <2>2, CollectedAll
    <2>. HIDE DEF e, n
    <2>4. DOMAIN e.kept = 1 .. Len(e.kept)
      BY <2>3 DEF Gathered
    <2>5. {i \in DOMAIN headers : Passed(headers[i])} = PassedUpTo(headers, n)
      BY <2>2, Zenon DEF PassedUpTo
    <2>. QED BY <2>3, <2>4, <2>5, Zenon DEF EvidenceExact, Gathered, e
  <1>. QED BY <1>1, ReadInvariant, PTL

-----------------------------------------------------------------------------
(* The segments of a path.                                                 *)

\* f keeps the segments of the first n, one by one.
Piece(p, i) == IF p[i] = "" THEN <<>> ELSE <<p[i]>>
Keeping(f, p, n) ==
    /\ f = [i \in 0 .. n |-> f[i]] /\ f[0] = <<>>
    /\ \A i \in 1 .. n : f[i] = f[i - 1] \o Piece(p, i)

LEMMA PieceType ==
    ASSUME NEW B, NEW p, NEW i, p[i] \in B
    PROVE  Piece(p, i) \in Seq(B)
  <1>1. ASSUME NEW x \in B PROVE <<>> \in Seq(B) /\ <<x>> \in Seq(B)
    OBVIOUS
  <1>2. <<>> \in Seq(B) /\ <<p[i]>> \in Seq(B)
    BY <1>1
  <1>. QED BY <1>2, Zenon DEF Piece

LEMMA KeepingExists ==
    ASSUME NEW p, NEW n \in Nat
    PROVE  \E f : Keeping(f, p, n)
  <1>. DEFINE S == {m \in Nat : \E f : Keeping(f, p, m)}
  <1>1. 0 \in S
    <2>. DEFINE f == [i \in 0 .. 0 |-> <<>>]
    <2>1. f = [i \in 0 .. 0 |-> f[i]] /\ f[0] = <<>>
      OBVIOUS
    <2>2. Keeping(f, p, 0)
      BY <2>1 DEF Keeping
    <2>. QED BY <2>2
  <1>2. ASSUME NEW m \in S PROVE m + 1 \in S
    <2>1. PICK f : Keeping(f, p, m)
      OBVIOUS
    <2>. DEFINE x == f[m] \o Piece(p, m + 1)
                g == [i \in 0 .. m + 1 |-> IF i = m + 1 THEN x ELSE f[i]]
    <2>. HIDE DEF x
    <2>2. m \in Nat /\ f[0] = <<>> /\ \A i \in 1 .. m : f[i] = f[i - 1] \o Piece(p, i)
      BY <2>1 DEF Keeping
    <2>3. g = [i \in 0 .. m + 1 |-> g[i]] /\ g[0] = <<>>
      BY <2>2
    <2>4. ASSUME NEW i \in 1 .. m + 1 PROVE g[i] = g[i - 1] \o Piece(p, i)
      <3>1. g[i - 1] = f[i - 1]
        BY <2>2
      <3>2. CASE i = m + 1
        <4>1. g[i] = x /\ i - 1 = m
          BY <2>2, <3>2
        <4>. HIDE DEF g
        <4>. QED BY <3>1, <3>2, <4>1 DEF x
      <3>3. CASE i # m + 1
        <4>1. g[i] = f[i] /\ i \in 1 .. m
          BY <2>2, <3>3
        <4>. HIDE DEF g
        <4>. QED BY <2>2, <3>1, <4>1
      <3>. QED BY <3>2, <3>3
    <2>. HIDE DEF g
    <2>5. Keeping(g, p, m + 1)
      BY <2>3, <2>4 DEF Keeping
    <2>. QED BY <2>2, <2>5
  <1>. HIDE DEF S
  <1>3. S = Nat
    BY <1>1, <1>2, SetInduction DEF S
  <1>. QED BY <1>3 DEF S

LEMMA SegmentSteps ==
    ASSUME NEW p, Len(p) \in Nat
    PROVE  \E f : Keeping(f, p, Len(p)) /\ Segments(p) = f[Len(p)]
  <1>. DEFINE n == Len(p)
              E(f) == f = [i \in 0 .. n |-> IF i = 0 THEN <<>>
                             ELSE f[i - 1] \o (IF p[i] = "" THEN <<>> ELSE <<p[i]>>)]
              st == CHOOSE f : E(f)
  <1>1. Segments(p) = st[n]
    BY DEF Segments
  <1>2. PICK f : Keeping(f, p, n)
    BY KeepingExists
  <1>3. E(f)
    <2>1. ASSUME NEW i \in 0 .. n
          PROVE  f[i] = IF i = 0 THEN <<>>
                        ELSE f[i - 1] \o (IF p[i] = "" THEN <<>> ELSE <<p[i]>>)
      <3>1. CASE i = 0
        BY <1>2, <3>1, Zenon DEF Keeping
      <3>2. CASE i # 0
        <4>1. i \in 1 .. n
          BY <3>2
        <4>. QED BY <1>2, <3>2, <4>1, Zenon DEF Keeping, Piece
      <3>. QED BY <3>1, <3>2
    <2>. QED BY <1>2, <2>1, Zenon DEF Keeping
  <1>4. E(st)
    BY <1>3, Zenon
  <1>. HIDE DEF st
  <1>5. st[0] = <<>> /\ \A i \in 1 .. n : st[i] = st[i - 1] \o Piece(p, i)
    <2>1. st[0] = <<>>
      <3>1. 0 \in 0 .. n
        OBVIOUS
      <3>. QED BY <1>4, <3>1, Zenon
    <2>2. ASSUME NEW i \in 1 .. n PROVE st[i] = st[i - 1] \o Piece(p, i)
      <3>1. i \in 0 .. n /\ i # 0
        OBVIOUS
      <3>2. st[i] = IF i = 0 THEN <<>>
                    ELSE st[i - 1] \o (IF p[i] = "" THEN <<>> ELSE <<p[i]>>)
        BY <1>4, <3>1, Zenon
      <3>. QED BY <3>1, <3>2, Zenon DEF Piece
    <2>. QED BY <2>1, <2>2
  <1>6. st = [i \in 0 .. n |-> st[i]]
    BY <1>4, Zenon
  <1>7. Keeping(st, p, n)
    BY <1>5, <1>6 DEF Keeping
  <1>. QED BY <1>1, <1>7

LEMMA KeepingType ==
    ASSUME NEW B, NEW p \in Seq(B), NEW f, Keeping(f, p, Len(p))
    PROVE  \A k \in 0 .. Len(p) : f[k] \in Seq(B)
  <1>. DEFINE n == Len(p)
              S == {k \in Nat : k <= n => f[k] \in Seq(B)}
  <1>1. n \in Nat
    OBVIOUS
  <1>2. 0 \in S
    BY DEF Keeping
  <1>3. ASSUME NEW k \in S PROVE k + 1 \in S
    <2>. SUFFICES ASSUME k + 1 <= n PROVE f[k + 1] \in Seq(B)
      OBVIOUS
    <2>1. k + 1 \in 1 .. n /\ (k + 1) - 1 = k /\ f[k] \in Seq(B)
      BY <1>1
    <2>2. f[k + 1] = f[(k + 1) - 1] \o Piece(p, k + 1)
      BY <2>1, Zenon DEF Keeping
    <2>3. Piece(p, k + 1) \in Seq(B)
      BY <2>1, PieceType
    <2>. QED BY <2>1, <2>2, <2>3, ConcatProperties
  <1>. HIDE DEF S
  <1>4. S = Nat
    BY <1>2, <1>3, SetInduction DEF S
  <1>. QED BY <1>1, <1>4 DEF S

LEMMA SegmentsType ==
    ASSUME NEW B, NEW p \in Seq(B)
    PROVE  Segments(p) \in Seq(B)
  <1>1. Len(p) \in Nat /\ Len(p) \in 0 .. Len(p)
    OBVIOUS
  <1>2. PICK f : Keeping(f, p, Len(p)) /\ Segments(p) = f[Len(p)]
    BY <1>1, SegmentSteps
  <1>. QED BY <1>1, <1>2, KeepingType

LEMMA SegmentsConcat ==
    ASSUME NEW B, NEW a \in Seq(B), NEW b \in Seq(B)
    PROVE  Segments(a \o b) = Segments(a) \o Segments(b)
  <1>. DEFINE r == a \o b
              m == Len(a)
              n == Len(b)
  <1>1. /\ m \in Nat /\ n \in Nat /\ r \in Seq(B) /\ Len(r) = m + n
        /\ \A i \in 1 .. m : r[i] = a[i]
    OBVIOUS
  <1>2. ASSUME NEW i \in 1 .. n PROVE r[m + i] = b[i]
    OBVIOUS
  <1>. HIDE DEF r, m, n
  <1>3. PICK f : Keeping(f, r, m + n) /\ Segments(r) = f[m + n]
    BY <1>1, SegmentSteps
  <1>4. PICK g : Keeping(g, a, m) /\ Segments(a) = g[m]
    BY <1>1, SegmentSteps DEF m
  <1>5. PICK h : Keeping(h, b, n) /\ Segments(b) = h[n]
    BY <1>1, SegmentSteps DEF n
  <1>6. f[m] = g[m]
    <2>. DEFINE S == {k \in Nat : k <= m => f[k] = g[k]}
    <2>1. 0 \in S
      BY <1>3, <1>4 DEF Keeping
    <2>2. ASSUME NEW k \in S PROVE k + 1 \in S
      <3>. SUFFICES ASSUME k + 1 <= m PROVE f[k + 1] = g[k + 1]
        OBVIOUS
      <3>1. k + 1 \in 1 .. m /\ k + 1 \in 1 .. m + n /\ (k + 1) - 1 = k /\ f[k] = g[k]
        BY <1>1
      <3>2. f[k + 1] = f[(k + 1) - 1] \o Piece(r, k + 1)
        BY <1>3, <3>1, Zenon DEF Keeping
      <3>3. g[k + 1] = g[(k + 1) - 1] \o Piece(a, k + 1)
        BY <1>4, <3>1, Zenon DEF Keeping
      <3>4. Piece(r, k + 1) = Piece(a, k + 1)
        BY <1>1, <3>1, Zenon DEF Piece
      <3>. QED BY <3>1, <3>2, <3>3, <3>4, Zenon
    <2>. HIDE DEF S
    <2>3. S = Nat
      BY <2>1, <2>2, SetInduction DEF S
    <2>. QED BY <1>1, <2>3 DEF S
  <1>7. g[m] \in Seq(B) /\ \A k \in 0 .. n : h[k] \in Seq(B)
    <2>1. m \in 0 .. m
      BY <1>1
    <2>2. \A k \in 0 .. m : g[k] \in Seq(B)
      BY <1>4, KeepingType DEF m
    <2>3. \A k \in 0 .. n : h[k] \in Seq(B)
      BY <1>5, KeepingType DEF n
    <2>. QED BY <2>1, <2>2, <2>3
  <1>8. f[m + n] = g[m] \o h[n]
    <2>. DEFINE P(k) == f[m + k] = g[m] \o h[k]
                S == {k \in Nat : k <= n => P(k)}
    <2>1. 0 \in S
      <3>1. h[0] = <<>> /\ m + 0 = m
        BY <1>1, <1>5 DEF Keeping
      <3>2. P(0)
        BY <1>6, <1>7, <3>1
      <3>. HIDE DEF P
      <3>. QED BY <3>2
    <2>2. ASSUME NEW k \in S PROVE k + 1 \in S
      <3>. HIDE DEF P
      <3>. SUFFICES ASSUME k + 1 <= n PROVE P(k + 1)
        OBVIOUS
      <3>0. k \in Nat /\ P(k)
        BY <1>1
      <3>1. /\ k + 1 \in 1 .. n /\ m + (k + 1) \in 1 .. m + n /\ (k + 1) - 1 = k
            /\ (m + (k + 1)) - 1 = m + k /\ k \in 0 .. n
        BY <1>1, <3>0
      <3>2. f[m + (k + 1)] = f[(m + (k + 1)) - 1] \o Piece(r, m + (k + 1))
        BY <1>3, <3>1, Zenon DEF Keeping
      <3>3. h[k + 1] = h[(k + 1) - 1] \o Piece(b, k + 1)
        BY <1>5, <3>1, Zenon DEF Keeping
      <3>4. Piece(r, m + (k + 1)) = Piece(b, k + 1) /\ Piece(b, k + 1) \in Seq(B)
        <4>1. r[m + (k + 1)] = b[k + 1] /\ b[k + 1] \in B
          BY <1>2, <3>1 DEF n
        <4>2. Piece(r, m + (k + 1)) = Piece(b, k + 1)
          BY <4>1, Zenon DEF Piece
        <4>. QED BY <4>1, <4>2, PieceType
      <3>5. f[m + (k + 1)] = (g[m] \o h[k]) \o Piece(b, k + 1)
        BY <3>0, <3>1, <3>2, <3>4, Zenon DEF P
      <3>6. h[k + 1] = h[k] \o Piece(b, k + 1)
        BY <3>1, <3>3, Zenon
      <3>7. ASSUME NEW x \in Seq(B), NEW y \in Seq(B), NEW z \in Seq(B)
            PROVE  (x \o y) \o z = x \o (y \o z)
        BY ConcatAssociative
      <3>8. (g[m] \o h[k]) \o Piece(b, k + 1) = g[m] \o (h[k] \o Piece(b, k + 1))
        BY <1>7, <3>1, <3>4, <3>7
      <3>. QED BY <3>5, <3>6, <3>8, Zenon DEF P
    <2>. HIDE DEF S, P
    <2>3. S = Nat
      BY <2>1, <2>2, SetInduction DEF S
    <2>4. P(n)
      BY <1>1, <2>3 DEF S
    <2>. QED BY <2>4 DEF P
  <1>. QED BY <1>3, <1>4, <1>5, <1>8 DEF r

-----------------------------------------------------------------------------
(* A path that names no sub-resource is matched loosely where it ends with *)
(* an endpoint, and no two endpoints end alike.                            *)

EndsWith(s, e) ==
    /\ Len(e) <= Len(s)
    /\ \A k \in 1 .. Len(e) : s[(Len(s) - Len(e)) + k] = e[k]

LEMMA LooseAtEnd ==
    ASSUME NEW B, B \cap LOOSE_SUBRESOURCES = {}, NEW p \in Seq(B), NEW E, NEW e \in Seq(E)
    PROVE  LooseMatch(p, e) <=> EndsWith(Segments(p), e)
  <1>. DEFINE s == Segments(p)
              n == Len(e)
              m == Len(s)
  <1>1. s \in Seq(B)
    BY SegmentsType
  <1>. HIDE DEF s
  <1>2. m \in Nat /\ n \in Nat
    BY <1>1
  <1>3. LooseMatch(p, e) <=>
          \E start \in 0 .. m - n : /\ SubSeq(s, start + 1, start + n) = e
                                    /\ Anchored(SubSeq(s, start + n + 1, m))
    BY DEF LooseMatch, s
  <1>4. ASSUME NEW start \in 0 .. m - n, SubSeq(s, start + 1, start + n) = e,
               Anchored(SubSeq(s, start + n + 1, m))
        PROVE  EndsWith(s, e)
    <2>. DEFINE t == SubSeq(s, start + n + 1, m)
    <2>1. start \in Nat /\ start + n <= m
      BY <1>2
    <2>2. start + n = m
      <3>. SUFFICES ASSUME start + n < m PROVE FALSE
        BY <1>2, <2>1
      <3>1. start + n + 1 \in 1 .. m
        BY <1>2, <2>1
      <3>2. t # <<>> /\ Head(t) = s[start + n + 1]
        <4>. DEFINE a == start + n + 1
        <4>1. a \in 1 .. m /\ m \in 1 .. m /\ a <= m /\ (a + 1) - 1 = a
          BY <1>2, <3>1
        <4>. HIDE DEF a
        <4>2. SubSeq(s, a, m) # <<>> /\ Head(SubSeq(s, a, m)) = s[a]
          <5>1. /\ Len(SubSeq(s, a, m)) = (m - a) + 1
                /\ SubSeq(s, a, m) \in Seq(B)
            BY <1>1, <1>2, <4>1
          <5>2. SubSeq(s, a, m)[1] = s[a]
            BY <1>1, <1>2, <4>1
          <5>3. SubSeq(s, a, m) # <<>>
            <6>1. ASSUME NEW u \in Seq(B), Len(u) = (m - a) + 1 PROVE u # <<>>
              <7>1. Len(u) >= 1
                BY <1>2, <4>1, <6>1
              <7>. QED BY <7>1
            <6>. QED BY <5>1, <6>1, Zenon
          <5>. QED BY <5>1, <5>2, <5>3
        <4>. QED BY <4>2 DEF a
      <3>3. s[start + n + 1] \in B
        BY <1>1, <3>1
      <3>. QED BY <1>4, <3>2, <3>3 DEF Anchored
    <2>3. ASSUME NEW k \in 1 .. n PROVE s[(m - n) + k] = e[k]
      <3>1. start = m - n
        BY <1>2, <2>1, <2>2
      <3>2. SubSeq(s, start + 1, start + n)[k] = s[start + k]
        BY <1>1, <1>2, <2>1
      <3>. QED BY <1>4, <3>1, <3>2
    <2>4. n <= m
      BY <1>2, <2>1
    <2>. QED BY <2>3, <2>4 DEF EndsWith
  <1>5. ASSUME EndsWith(s, e)
        PROVE  \E start \in 0 .. m - n : /\ SubSeq(s, start + 1, start + n) = e
                                         /\ Anchored(SubSeq(s, start + n + 1, m))
    <2>. DEFINE start == m - n
    <2>1. n <= m /\ start \in Nat /\ start \in 0 .. m - n /\ start + n = m
      BY <1>2, <1>5 DEF EndsWith
    <2>2. \A k \in 1 .. n : s[start + k] = e[k]
      BY <1>5 DEF EndsWith
    <2>. HIDE DEF start
    <2>3. SubSeq(s, start + 1, start + n) = e
      <3>. DEFINE t == SubSeq(s, start + 1, start + n)
      <3>1. /\ t \in Seq(B) /\ Len(t) = n
            /\ \A k \in 1 .. n : t[k] = s[start + k]
        BY <1>1, <1>2, <2>1
      <3>. HIDE DEF t
      <3>2. \A k \in 1 .. Len(t) : t[k] = e[k]
        BY <2>2, <3>1
      <3>3. t = e
        BY <3>1, <3>2, SeqEqual
      <3>. QED BY <3>3 DEF t
    <2>4. SubSeq(s, start + n + 1, m) = <<>>
      BY <1>1, <1>2, <2>1
    <2>. QED BY <2>1, <2>3, <2>4 DEF Anchored
  <1>. QED BY <1>3, <1>4, <1>5 DEF s

\* A prefix of a path does not change what it ends with.
LEMMA EndsWithConcat ==
    ASSUME NEW B, NEW a \in Seq(B), NEW s \in Seq(B), NEW E, NEW e \in Seq(E), EndsWith(s, e)
    PROVE  EndsWith(a \o s, e)
  <1>. DEFINE l == Len(a)
              m == Len(s)
              n == Len(e)
              r == a \o s
  <1>1. l \in Nat /\ m \in Nat /\ n \in Nat /\ Len(r) = l + m
    OBVIOUS
  <1>2. ASSUME NEW i \in 1 .. m PROVE r[l + i] = s[i]
    OBVIOUS
  <1>3. n <= m /\ \A k \in 1 .. n : s[(m - n) + k] = e[k]
    BY DEF EndsWith
  <1>. HIDE DEF l, m, n, r
  <1>4. ASSUME NEW k \in 1 .. n PROVE r[((l + m) - n) + k] = e[k]
    <2>1. (m - n) + k \in 1 .. m /\ ((l + m) - n) + k = l + ((m - n) + k)
      BY <1>1, <1>3
    <2>. QED BY <1>2, <1>3, <2>1
  <1>5. n <= l + m
    BY <1>1, <1>3
  <1>6. EndsWith(r, e)
    <2>1. Len(e) <= Len(r)
      BY <1>1, <1>5 DEF n
    <2>2. ASSUME NEW k \in 1 .. Len(e) PROVE r[(Len(r) - Len(e)) + k] = e[k]
      BY <1>1, <1>4 DEF n
    <2>. QED BY <2>1, <2>2 DEF EndsWith
  <1>. QED BY <1>6 DEF r

\* The segments of the endpoints, and which of them is the last of each.
Word == {"messages", "responses", "chat", "completions"}
EndOf == <<"messages", "responses", "completions">>

LEMMA Tuple1 ==
    ASSUME NEW B, NEW x \in B
    PROVE  <<x>> \in Seq(B) /\ Len(<<x>>) = 1 /\ <<x>>[1] = x
  OBVIOUS

LEMMA Tuple2 ==
    ASSUME NEW B, NEW x \in B, NEW y \in B
    PROVE  <<x, y>> \in Seq(B) /\ Len(<<x, y>>) = 2 /\ <<x, y>>[2] = y
  OBVIOUS

LEMMA Endpoints3 ==
    ASSUME NEW i \in DOMAIN DESCRIPTORS
    PROVE  /\ i \in {1, 2, 3}
           /\ DESCRIPTORS[i].loose \in Seq(Word)
           /\ Len(DESCRIPTORS[i].loose) \in Nat \ {0}
           /\ DESCRIPTORS[i].loose[Len(DESCRIPTORS[i].loose)] = EndOf[i]
  <1>. DEFINE Fine(e, k) == e \in Seq(Word) /\ Len(e) \in Nat \ {0} /\ e[Len(e)] = EndOf[k]
  <1>1. i \in {1, 2, 3}
    BY DEF DESCRIPTORS
  <1>2. /\ DESCRIPTORS[1] = Anthropic /\ DESCRIPTORS[2] = Responses /\ DESCRIPTORS[3] = Chat
    BY DEF DESCRIPTORS
  <1>3. /\ Anthropic.loose = <<"messages">> /\ Responses.loose = <<"responses">>
        /\ Chat.loose = <<"chat", "completions">>
    BY DEF Anthropic, Responses, Chat
  <1>4. EndOf[1] = "messages" /\ EndOf[2] = "responses" /\ EndOf[3] = "completions"
    BY DEF EndOf
  <1>5. /\ "messages" \in Word /\ "responses" \in Word
        /\ "chat" \in Word /\ "completions" \in Word
    BY DEF Word
  <1>6. ASSUME NEW x \in Word, NEW k, EndOf[k] = x PROVE Fine(<<x>>, k)
    <2>1. <<x>> \in Seq(Word) /\ Len(<<x>>) = 1 /\ <<x>>[1] = x
      BY Tuple1
    <2>2. 1 \in Nat \ {0}
      OBVIOUS
    <2>. QED BY <1>6, <2>1, <2>2, Zenon
  <1>7. ASSUME NEW x \in Word, NEW y \in Word, NEW k, EndOf[k] = y
        PROVE  Fine(<<x, y>>, k)
    <2>1. <<x, y>> \in Seq(Word) /\ Len(<<x, y>>) = 2 /\ <<x, y>>[2] = y
      BY Tuple2
    <2>2. 2 \in Nat \ {0}
      OBVIOUS
    <2>. QED BY <1>7, <2>1, <2>2, Zenon
  <1>. HIDE DEF Fine
  <1>8. Fine(Anthropic.loose, 1)
    BY <1>3, <1>4, <1>5, <1>6, Zenon
  <1>9. Fine(Responses.loose, 2)
    BY <1>3, <1>4, <1>5, <1>6, Zenon
  <1>10. Fine(Chat.loose, 3)
    BY <1>3, <1>4, <1>5, <1>7, Zenon
  <1>11. Fine(DESCRIPTORS[i].loose, i)
    BY <1>1, <1>2, <1>8, <1>9, <1>10, Zenon
  <1>. QED BY <1>1, <1>11, Zenon DEF Fine

\* A path ends with one endpoint at most.
LEMMA OneEndpoint ==
    ASSUME NEW s, NEW i \in DOMAIN DESCRIPTORS, NEW j \in DOMAIN DESCRIPTORS,
           Len(s) \in Nat,
           EndsWith(s, DESCRIPTORS[i].loose), EndsWith(s, DESCRIPTORS[j].loose)
    PROVE  i = j
  <1>1. ASSUME NEW k \in DOMAIN DESCRIPTORS, EndsWith(s, DESCRIPTORS[k].loose)
        PROVE  s[Len(s)] = EndOf[k]
    <2>. DEFINE e == DESCRIPTORS[k].loose
                n == Len(e)
    <2>1. n \in Nat \ {0} /\ e[n] = EndOf[k]
      BY Endpoints3
    <2>2. \A x \in 1 .. n : s[(Len(s) - n) + x] = e[x]
      BY <1>1 DEF EndsWith
    <2>. HIDE DEF e, n
    <2>3. n \in 1 .. n /\ (Len(s) - n) + n = Len(s)
      BY <2>1
    <2>. QED BY <2>1, <2>2, <2>3
  <1>2. EndOf[i] = EndOf[j]
    BY <1>1, Zenon
  <1>3. i \in {1, 2, 3} /\ j \in {1, 2, 3}
    BY Endpoints3
  <1>. QED BY <1>2, <1>3 DEF EndOf

\* The tables that match a path loosely.
LooseAt(p) == {i \in DOMAIN DESCRIPTORS : LooseMatch(p, DESCRIPTORS[i].loose)}

LEMMA DetectedLoosely ==
    ASSUME NEW p
    PROVE  /\ DetectPath(p).loose => /\ Detect(p) = <<>> /\ LooseAt(p) # {}
                                     /\ DetectPath(p).protocol = DESCRIPTORS[Min(LooseAt(p))].name
           /\ Detect(p) = <<>> /\ LooseAt(p) # {} =>
                DetectPath(p) = [protocol |-> DESCRIPTORS[Min(LooseAt(p))].name, loose |-> TRUE]
  <1>1. DetectPath(p) =
          CASE Detect(p) # <<>>                     -> [protocol |-> Detect(p)[1].name, loose |-> FALSE]
            [] Detect(p) = <<>> /\ LooseAt(p) # {}  ->
                 [protocol |-> DESCRIPTORS[Min(LooseAt(p))].name, loose |-> TRUE]
            [] Detect(p) = <<>> /\ LooseAt(p) = {}  -> [protocol |-> None, loose |-> FALSE]
    BY Zenon DEF DetectPath, LooseAt
  <1>2. CASE Detect(p) # <<>>
    <2>1. DetectPath(p) = [protocol |-> Detect(p)[1].name, loose |-> FALSE]
      BY <1>1, <1>2, Zenon
    <2>. QED BY <1>2, <2>1
  <1>3. CASE Detect(p) = <<>> /\ LooseAt(p) # {}
    <2>1. DetectPath(p) = [protocol |-> DESCRIPTORS[Min(LooseAt(p))].name, loose |-> TRUE]
      BY <1>1, <1>3, Zenon
    <2>. QED BY <1>3, <2>1
  <1>4. CASE Detect(p) = <<>> /\ LooseAt(p) = {}
    <2>1. DetectPath(p) = [protocol |-> None, loose |-> FALSE]
      BY <1>1, <1>4, Zenon
    <2>. QED BY <1>4, <2>1
  <1>. QED BY <1>2, <1>3, <1>4, Zenon

\* On a path that names no sub-resource, a table that matches it matches it behind
\* any base path too, and is the only one that does.
LEMMA LooseBehindBase ==
    ASSUME NEW B, B \cap LOOSE_SUBRESOURCES = {}, NEW a \in Seq(B), NEW p \in Seq(B),
           LooseAt(p) # {}
    PROVE  LooseAt(a \o p) = LooseAt(p)
  <1>1. ASSUME NEW q \in Seq(B), NEW i \in DOMAIN DESCRIPTORS
        PROVE  i \in LooseAt(q) <=> EndsWith(Segments(q), DESCRIPTORS[i].loose)
    <2>1. DESCRIPTORS[i].loose \in Seq(Word)
      BY Endpoints3
    <2>. QED BY <2>1, LooseAtEnd, Zenon DEF LooseAt
  <1>2. /\ a \o p \in Seq(B) /\ Segments(a) \in Seq(B) /\ Segments(p) \in Seq(B)
        /\ Segments(a \o p) = Segments(a) \o Segments(p)
    BY ConcatProperties, SegmentsType, SegmentsConcat
  <1>3. PICK i \in LooseAt(p) : TRUE
    OBVIOUS
  <1>4. i \in DOMAIN DESCRIPTORS
    BY <1>3, Zenon DEF LooseAt
  <1>5. EndsWith(Segments(p), DESCRIPTORS[i].loose) /\ DESCRIPTORS[i].loose \in Seq(Word)
    BY <1>1, <1>3, <1>4, Endpoints3
  <1>6. EndsWith(Segments(a \o p), DESCRIPTORS[i].loose)
    BY <1>2, <1>5, EndsWithConcat, Zenon
  <1>7. ASSUME NEW q \in Seq(B), EndsWith(Segments(q), DESCRIPTORS[i].loose)
        PROVE  LooseAt(q) = {i}
    <2>1. i \in LooseAt(q)
      BY <1>1, <1>4, <1>7, Zenon
    <2>2. ASSUME NEW j \in LooseAt(q) PROVE j = i
      <3>1. j \in DOMAIN DESCRIPTORS
        BY Zenon DEF LooseAt
      <3>2. EndsWith(Segments(q), DESCRIPTORS[j].loose)
        BY <1>1, <3>1, Zenon
      <3>3. Len(Segments(q)) \in Nat
        BY SegmentsType
      <3>. QED BY <1>4, <1>7, <3>1, <3>2, <3>3, OneEndpoint, Zenon
    <2>. QED BY <2>1, <2>2, Zenon
  <1>. QED BY <1>2, <1>5, <1>6, <1>7, Zenon

\* A path is a sequence over the set of its segments.
LEMMA OwnSegments ==
    ASSUME NEW B, NEW p \in Seq(B)
    PROVE  p \in Seq(ToSet(p)) /\ \A i \in 1 .. Len(p) : p[i] \in ToSet(p)
  <1>1. \A i \in 1 .. Len(p) : p[i] \in ToSet(p)
    BY DEF ToSet
  <1>2. p = [i \in 1 .. Len(p) |-> p[i]] /\ Len(p) \in Nat
    OBVIOUS
  <1>. HIDE DEF ToSet
  <1>. QED BY <1>1, <1>2

\* A base URL in front of a loosely matched endpoint never changes the protocol of
\* a request, for every path and every base path: the endpoint is what the path
\* ends with, and no two of them end alike.
THEOREM BaseUrlAlwaysIrrelevant == AttributionSpec => []BaseUrlIrrelevant
  <1>1. ReadInv => BaseUrlIrrelevant
    <2>. SUFFICES ASSUME ReadInv, turn # Unread, turn.loose, NEW base \in Base,
                         ToSet(base \o path) \cap LOOSE_SUBRESOURCES = {},
                         Detect(base \o path) = <<>>
                  PROVE  DetectPath(base \o path) = [protocol |-> turn.protocol, loose |-> TRUE]
      BY Zenon DEF BaseUrlIrrelevant
    <2>. DEFINE B == ToSet(base \o path)
    <2>1. turn.loose = DetectPath(path).loose /\ turn.protocol = DetectPath(path).protocol
      <3>1. turn = Read(path, req)
        BY DEF ReadInv
      <3>2. /\ Read(path, req).loose = DetectPath(path).loose
            /\ Read(path, req).protocol = DetectPath(path).protocol
        BY DEF Read
      <3>. QED BY <3>1, <3>2, Zenon
    <2>2. base \in Seq(STRING) /\ path \in Seq(STRING)
      BY BaseAssumption DEF ReadInv
    <2>3. base \in Seq(B) /\ path \in Seq(B)
      <3>1. ASSUME NEW E, NEW a \in Seq(E), NEW p \in Seq(E)
            PROVE  a \in Seq(ToSet(a \o p)) /\ p \in Seq(ToSet(a \o p))
        <4>. DEFINE r == a \o p
                    T == ToSet(r)
        <4>1. r \in Seq(E) /\ Len(r) = Len(a) + Len(p)
          OBVIOUS
        <4>2. \A i \in 1 .. Len(a) + Len(p) : r[i] \in T
          <5>. HIDE DEF r
          <5>. QED BY <4>1, OwnSegments
        <4>3. ASSUME NEW i \in 1 .. Len(a) PROVE a[i] \in T
          <5>1. r[i] = a[i] /\ i \in 1 .. Len(a) + Len(p)
            OBVIOUS
          <5>. HIDE DEF r, T
          <5>. QED BY <4>2, <5>1
        <4>4. ASSUME NEW i \in 1 .. Len(p) PROVE p[i] \in T
          <5>1. r[Len(a) + i] = p[i] /\ Len(a) + i \in 1 .. Len(a) + Len(p)
            OBVIOUS
          <5>. HIDE DEF r, T
          <5>. QED BY <4>2, <5>1
        <4>. HIDE DEF T
        <4>5. ASSUME NEW s \in Seq(E), \A i \in 1 .. Len(s) : s[i] \in T PROVE s \in Seq(T)
          <5>1. s = [i \in 1 .. Len(s) |-> s[i]] /\ Len(s) \in Nat
            OBVIOUS
          <5>. QED BY <4>5, <5>1
        <4>6. a \in Seq(T) /\ p \in Seq(T)
          <5>. HIDE DEF r
          <5>. QED BY <4>3, <4>4, <4>5, Zenon
        <4>. QED BY <4>6, Zenon DEF T
      <3>. QED BY <2>2, <3>1, Zenon
    <2>4. /\ LooseAt(path) # {}
          /\ DetectPath(path).protocol = DESCRIPTORS[Min(LooseAt(path))].name
      BY <2>1, DetectedLoosely, Zenon
    <2>. HIDE DEF B
    <2>5. B \cap LOOSE_SUBRESOURCES = {}
      BY Zenon DEF B
    <2>6. LooseAt(base \o path) = LooseAt(path)
      BY <2>3, <2>4, <2>5, LooseBehindBase, Zenon
    <2>. QED BY <2>1, <2>4, <2>6, DetectedLoosely, Zenon
  <1>. QED BY <1>1, ReadInvariant, PTL
=============================================================================
