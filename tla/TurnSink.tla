------------------------------ MODULE TurnSink ------------------------------
(***************************************************************************)
(* What the exporter of src/trace/export.rs promises the request path,     *)
(* without the channel, the batches, the pool and the reloads: a record    *)
(* that is handed over is held or lost at once, what is held is booked     *)
(* exactly once, and nothing that is lost goes uncounted.  ExportPool      *)
(* implements it; Recording builds on it.                                  *)
(***************************************************************************)
EXTENDS Integers, FiniteSets

CONSTANT Record      \* turn records

VARIABLES
    offered,         \* records handed over
    held,            \* records whose fate is open
    exported, failed, dropped    \* ExportHealth

sinkVars == <<offered, held, exported, failed, dropped>>

Init ==
    /\ offered = {} /\ held = {}
    /\ exported = 0 /\ failed = 0 /\ dropped = 0

\* submit: the record is taken over, or lost and counted.
Offer(r) ==
    /\ r \notin offered
    /\ offered' = offered \cup {r}
    /\ \/ /\ held' = held \cup {r}
          /\ UNCHANGED dropped
       \/ /\ dropped' = dropped + 1
          /\ UNCHANGED held
    /\ UNCHANGED <<exported, failed>>

\* A batch of held records meets its fate, all of it the same one.
Book(S) ==
    /\ S # {} /\ S \subseteq held
    /\ held' = held \ S
    /\ \/ exported' = exported + Cardinality(S) /\ UNCHANGED <<failed, dropped>>
       \/ failed' = failed + Cardinality(S) /\ UNCHANGED <<exported, dropped>>
       \/ dropped' = dropped + Cardinality(S) /\ UNCHANGED <<exported, failed>>
    /\ UNCHANGED offered

Next ==
    \/ \E r \in Record : Offer(r)
    \/ \E S \in SUBSET held : Book(S)

Spec == Init /\ [][Next]_sinkVars
=============================================================================
