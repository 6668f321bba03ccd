------------------------------ MODULE Recording ------------------------------
(***************************************************************************)
(* The tail of a turn and the scrape that reports it: RequestGauges        *)
(* composed with the exporter, of which only what TurnSink promises is     *)
(* used (ExportPool implements it).  A request that has left the gauges    *)
(* counts its turn, stores its record and hands it over (logging and       *)
(* push_record of src/lib.rs); /__atg/health and /__atg/metrics read the   *)
(* counters one after another meanwhile.                                   *)
(***************************************************************************)
EXTENDS RequestGauges

CONSTANT Upgraded        \* the requests that become WebSocket connections

ASSUME RecordingAssumption == Upgraded \subseteq Request

VARIABLES
    turnsTotal,          \* turns_total
    stored,              \* records the store was given
    offered, held, exported, failed, dropped,  \* the exporter: see TurnSink
    cpc, booked          \* a scrape: the counter it reads next, and the sum of
                         \* the exporter's counters it has read

\* A record is named by its request and by the path it took: a connection makes
\* records of its own, here one, besides the one its request may leave.
Sink == INSTANCE TurnSink WITH Record <- Request \X {"http", "ws"}

sinkVars == <<offered, held, exported, failed, dropped>>
readVars == <<cpc, booked>>
turnVars == <<turnsTotal, stored, sinkVars, readVars>>
recordingVars == <<vars, turnVars>>

\* What RequestGauges keeps, but for the places.
requestVars == <<gaugeVars, histVars, scrapeVars, inFlight, head>>

Counter == <<"exported", "failed", "dropped", "turns_total", "histograms">>

RecordingInit ==
    /\ Init /\ Sink!Init
    /\ turnsTotal = 0 /\ stored = {}
    /\ cpc = 1 /\ booked = 0

-----------------------------------------------------------------------------
(* Expressions of the code, each after the faulty form it is checked       *)
(* against.                                                                *)

\* Where a turn goes first: it is counted before its record is assembled.
TurnBeginsAtPush == "push"
TurnBegins == "total"

-----------------------------------------------------------------------------
(* logging, after exit_request, and push_record.                           *)

\* The assembly begins; a loose match without success, and a panic before the
\* count, make no turn.
TurnAssembles(r) ==
    /\ pc[r] = "turn"
    /\ \E place \in {TurnBegins, "done"} : Go(r, place)
    /\ UNCHANGED <<requestVars, turnVars>>

\* turns_total is incremented; a body that yields no record, and a panic, end
\* the turn here.
TurnCounted(r) ==
    /\ pc[r] = "total"
    /\ turnsTotal' = turnsTotal + 1
    /\ \E place \in {"push", "done"} : Go(r, place)
    /\ UNCHANGED <<requestVars, stored, sinkVars, readVars>>

TurnStored(r) ==
    /\ pc[r] = "push"
    /\ stored' = stored \cup {<<r, "http">>}
    /\ Go(r, "submit")
    /\ UNCHANGED <<requestVars, turnsTotal, sinkVars, readVars>>

\* submit; with export disabled it does nothing.
TurnSubmitted(r) ==
    /\ pc[r] = "submit"
    /\ Sink!Offer(<<r, "http">>) \/ UNCHANGED sinkVars
    /\ Go(r, "done")
    /\ UNCHANGED <<requestVars, turnsTotal, stored, readVars>>

\* A turn of an open connection: the same push_record, within the filter of one
\* frame, and no count.
WsStored(r) ==
    /\ r \in Upgraded /\ pc[r] = "active" /\ head[r] /\ <<r, "ws">> \notin stored
    /\ stored' = stored \cup {<<r, "ws">>}
    /\ Go(r, "frame")
    /\ UNCHANGED <<requestVars, turnsTotal, sinkVars, readVars>>

WsSubmitted(r) ==
    /\ pc[r] = "frame"
    /\ Sink!Offer(<<r, "ws">>) \/ UNCHANGED sinkVars
    /\ Go(r, "active")
    /\ UNCHANGED <<requestVars, turnsTotal, stored, readVars>>

\* The exporter meanwhile.
Export ==
    /\ \E S \in SUBSET held : Sink!Book(S)
    /\ UNCHANGED <<vars, turnsTotal, stored, readVars>>

-----------------------------------------------------------------------------
(* render_metrics and the health document: the exporter's counters, then   *)
(* turns_total, then (metrics only) the histograms.                        *)

ReadExporter ==
    /\ Counter[cpc] \in {"exported", "failed", "dropped"}
    /\ booked' = booked + CASE Counter[cpc] = "exported" -> exported
                            [] Counter[cpc] = "failed"   -> failed
                            [] Counter[cpc] = "dropped"  -> dropped
    /\ cpc' = cpc + 1
    /\ UNCHANGED <<vars, turnsTotal, stored, sinkVars>>

ReadTurns ==
    /\ Counter[cpc] = "turns_total"
    /\ booked' = 0
    /\ cpc' = cpc + 1
    /\ UNCHANGED <<vars, turnsTotal, stored, sinkVars>>

ReadHistograms ==
    /\ Counter[cpc] = "histograms"
    /\ Render
    /\ cpc' = IF rpc' = 1 THEN 1 ELSE cpc
    /\ UNCHANGED <<turnsTotal, stored, sinkVars, booked>>

RecordingNext ==
    \/ Gauges /\ UNCHANGED turnVars
    \/ \E r \in Request :
        \/ TurnAssembles(r) \/ TurnCounted(r) \/ TurnStored(r) \/ TurnSubmitted(r)
        \/ WsStored(r) \/ WsSubmitted(r)
    \/ Export
    \/ ReadExporter \/ ReadTurns \/ ReadHistograms

RecordingSpec == RecordingInit /\ [][RecordingNext]_recordingVars

-----------------------------------------------------------------------------
(* Properties.                                                             *)

\* The health document and the metrics never report more records exported,
\* failed and dropped than turns, but for those of connections, although the
\* counters are read one by one while turns are counted, stored, handed over and
\* booked.
BookedWithinTurns ==
    [][Counter[cpc] = "turns_total" /\ cpc' # cpc
         => booked <= turnsTotal + Cardinality({w \in offered : w[2] = "ws"})]_recordingVars
=============================================================================
