--------------------------- MODULE HeaderEvidence ---------------------------
(***************************************************************************)
(* The request headers a turn record keeps as evidence:                    *)
(* collect_hdr_evidence of src/lib.rs.  A header is [denied, text, name,   *)
(* value]: whether the deny list or a marker bars its name, whether its    *)
(* value can be read as text, and the lengths of its name and of its       *)
(* trimmed value.                                                          *)
(***************************************************************************)
EXTENDS Integers, Sequences

CONSTANTS
    NameCap,      \* HDR_NAME_CAP
    ValueCap,     \* HDR_VALUE_CAP
    MaxEntries,   \* HDR_EVIDENCE_MAX_ENTRIES
    Budget        \* HDR_EVIDENCE_BUDGET

ASSUME EvidenceAssumption ==
    {NameCap, ValueCap, MaxEntries, Budget} \subseteq Nat \ {0}

Header == [denied : BOOLEAN, text : BOOLEAN, name : Nat, value : Nat]

\* truncate_header_value.
Truncated(value) == IF value > ValueCap THEN ValueCap ELSE value

Cost(h) == h.name + Truncated(h.value)

\* Barred, unreadable and blank headers are left out and not counted.
Passed(h) == ~h.denied /\ (h.name > NameCap \/ (h.text /\ h.value > 0))

\* The header is within the bounds that are left.
HasRoomForValue(kept, used, h) ==
    h.name <= NameCap /\ Len(kept) < MaxEntries /\ used + Truncated(h.value) <= Budget
HasRoom(kept, used, h) ==
    h.name <= NameCap /\ Len(kept) < MaxEntries /\ used + Cost(h) <= Budget

\* One turn of the loop: what does not fit is counted, and the loop goes on.
Collected(acc, h) ==
    CASE ~Passed(h) -> acc
      [] Passed(h) /\ ~HasRoom(acc.kept, acc.used, h) ->
           [acc EXCEPT !.dropped = @ + 1]
      [] Passed(h) /\ HasRoom(acc.kept, acc.used, h) ->
           [acc EXCEPT !.kept = Append(@, h), !.used = @ + Cost(h)]

NoEvidence == [kept |-> <<>>, used |-> 0, dropped |-> 0]
CollectHdrEvidence(all) ==
    LET st[i \in 0 .. Len(all)] ==
          IF i = 0 THEN NoEvidence ELSE Collected(st[i - 1], all[i])
    IN  st[Len(all)]
=============================================================================
