----------------------------- MODULE TraceStore -----------------------------
(***************************************************************************)
(* The in-process record store of src/trace/store.rs: a queue of the       *)
(* newest turn records under a record budget and a byte budget, both of    *)
(* which a reload may change.  push, set_caps and snapshot_bounded run     *)
(* under one mutex; the eviction loop of push is modelled step by step, so *)
(* that the running byte count is checked against the records themselves.  *)
(* A client of /__atg/records pulls the store page by page while records   *)
(* come and go.  A record is its number and its estimated size.            *)
(***************************************************************************)
EXTENDS Integers, Sequences, FiniteSets, SequencesExt

CONSTANTS
    Size,         \* estimated sizes of records
    RecordCap,    \* values of store.max_records
    ByteCap,      \* values of store.max_bytes
    MaxPushes,    \* bound on the records pushed
    MaxReloads,   \* bound on the calls of set_caps
    Limit,        \* page sizes a client asks for
    MaxPulls      \* bound on the pulls a client makes of the whole store

ASSUME StoreAssumption ==
    /\ Size \subseteq Nat
    /\ RecordCap \subseteq Nat \ {0}
    /\ ByteCap \subseteq Nat \ {0}
    /\ MaxPushes \in Nat /\ MaxReloads \in Nat
    /\ Limit \subseteq Nat /\ MaxPulls \in Nat

VARIABLES
    deque, estimatedBytes, dropped, maxRecords, maxBytes,
    pushing,      \* push holds the lock and evicts
    size,         \* its record's estimated size
    reloads,
    limit, offset, seen,  \* a client: its page size, the next offset it asks
                          \* for, the records it has been served
    pulls,        \* pulls begun; 0 .. MaxPulls
    pulling,      \* one is under way
    present,      \* history: the records held when the pull began
    pushed,       \* history: every record ever pushed
    before        \* history: the deque when the last push began

pullVars == <<limit, offset, seen, pulls, pulling, present>>
vars == <<deque, estimatedBytes, dropped, maxRecords, maxBytes, pushing,
          size, reloads, pullVars, pushed, before>>

\* with_caps.
Init ==
    /\ deque = <<>> /\ estimatedBytes = 0 /\ dropped = 0
    /\ maxRecords \in RecordCap /\ maxBytes \in ByteCap
    /\ pushing = FALSE /\ size = 0
    /\ reloads = 0
    /\ limit = 0 /\ offset = 0 /\ seen = {} /\ pulls = 0 /\ pulling = FALSE
    /\ present = {}
    /\ pushed = <<>> /\ before = <<>>

-----------------------------------------------------------------------------
(* Expressions of the code, each after the faulty form it is checked       *)
(* against.                                                                *)

\* The loop condition of push.
OverBudgetEagerly == Len(deque) >= maxRecords \/ estimatedBytes + size >= maxBytes
OverBudget == Len(deque) >= maxRecords \/ estimatedBytes + size > maxBytes

\* The byte count after the record at the front is gone (saturating_sub).
BytesAfterPop ==
    IF estimatedBytes >= Head(deque).size THEN estimatedBytes - Head(deque).size
                                          ELSE 0

\* What is left of the queue after pop_front.
AfterPopNewest == SubSeq(deque, 1, Len(deque) - 1)
AfterPop == Tail(deque)

\* snapshot_bounded: the window [start, end) from the newest end; limit 0
\* means no limit.
Saturating(a, b) == IF a > b THEN a - b ELSE 0
SnapshotOldest(n, skip) ==
    LET end == skip + (IF n = 0 THEN Len(deque) ELSE n)
    IN  SubSeq(deque, skip + 1, IF end > Len(deque) THEN Len(deque) ELSE end)
SnapshotBounded(n, skip) ==
    LET total == Len(deque)
        end   == Saturating(total, skip)
        start == Saturating(end, IF n = 0 THEN total ELSE n)
    IN  SubSeq(deque, start + 1, end)

-----------------------------------------------------------------------------
\* push takes the lock.
PushBegin(s) ==
    /\ ~pushing /\ Len(pushed) < MaxPushes
    /\ pushing' = TRUE /\ size' = s
    /\ before' = deque
    /\ UNCHANGED <<deque, estimatedBytes, dropped, maxRecords, maxBytes,
                   reloads, pullVars, pushed>>

\* One turn of the loop: the oldest record is dropped, and counted.
PopFront ==
    /\ pushing /\ OverBudget /\ deque # <<>>
    /\ estimatedBytes' = BytesAfterPop
    /\ deque' = AfterPop
    /\ dropped' = dropped + 1
    /\ UNCHANGED <<maxRecords, maxBytes, pushing, size, reloads, pullVars, pushed,
                   before>>

\* The record fits, or nothing is left to drop: it is appended.
PushBack ==
    /\ pushing /\ (~OverBudget \/ deque = <<>>)
    /\ LET record == [id |-> Len(pushed) + 1, size |-> size]
       IN  /\ deque' = Append(deque, record)
           /\ pushed' = Append(pushed, record)
    /\ estimatedBytes' = estimatedBytes + size
    /\ pushing' = FALSE
    /\ UNCHANGED <<dropped, maxRecords, maxBytes, size, reloads, pullVars, before>>

\* set_caps: nothing is dropped before the next push.
SetCaps(records, bytes) ==
    /\ ~pushing /\ reloads < MaxReloads
    /\ maxRecords' = records /\ maxBytes' = bytes
    /\ reloads' = reloads + 1
    /\ UNCHANGED <<deque, estimatedBytes, dropped, pushing, size, pullVars,
                   pushed, before>>

\* A client begins to pull the store, newest page first.
PullBegin(n) ==
    /\ ~pulling /\ pulls < MaxPulls
    /\ pulling' = TRUE /\ pulls' = pulls + 1
    /\ limit' = n /\ offset' = 0 /\ seen' = {}
    /\ present' = ToSet(deque)
    /\ UNCHANGED <<deque, estimatedBytes, dropped, maxRecords, maxBytes, pushing,
                   size, reloads, pushed, before>>

\* A request of /__atg/records: the next page, which ends the pull when it is not
\* full or has no limit.
PullPage ==
    LET page == SnapshotBounded(limit, offset) IN
    /\ pulling /\ ~pushing
    /\ seen' = seen \cup ToSet(page)
    /\ offset' = offset + limit
    /\ pulling' = (limit # 0 /\ Len(page) = limit)
    /\ UNCHANGED <<deque, estimatedBytes, dropped, maxRecords, maxBytes, pushing,
                   size, reloads, limit, pulls, present, pushed, before>>

\* Nobody holds the lock.
Idle == ~pushing /\ UNCHANGED vars

Next ==
    \/ \E s \in Size : PushBegin(s)
    \/ PopFront \/ PushBack \/ Idle
    \/ \E n \in Limit : PullBegin(n)
    \/ PullPage
    \/ \E r \in RecordCap, b \in ByteCap : SetCaps(r, b)

Spec == Init /\ [][Next]_vars

-----------------------------------------------------------------------------
(* Properties.                                                             *)

Record == [id : Nat \ {0}, size : Size]

\* Every variable has its type.
TypeOK ==
    /\ deque \in Seq(Record) /\ pushed \in Seq(Record) /\ before \in Seq(Record)
    /\ estimatedBytes \in Nat /\ dropped \in Nat
    /\ maxRecords \in RecordCap /\ maxBytes \in ByteCap
    /\ pushing \in BOOLEAN /\ size \in Size \cup {0}
    /\ reloads \in 0 .. MaxReloads
    /\ limit \in Limit \cup {0} /\ pulls \in 0 .. MaxPulls /\ pulling \in BOOLEAN
    /\ offset \in Nat /\ seen \subseteq Record /\ present \subseteq Record

\* The size of a sequence of records.
Bytes(records) ==
    LET sum[i \in 0 .. Len(records)] ==
            IF i = 0 THEN 0 ELSE sum[i - 1] + records[i].size
    IN  sum[Len(records)]

\* The running byte count is the size of the records held: no eviction, over
\* any sequence of pushes and reloads, makes it drift or saturate.
BytesExact == estimatedBytes = Bytes(deque)

\* "Every drop is counted": the store holds the newest records, without a gap,
\* and dropped counts all the others.
KeepsNewest == deque = SubSeq(pushed, dropped + 1, Len(pushed))

\* Both: what is held is the newest suffix of what was pushed, measured exactly.
StoreExact == BytesExact /\ KeepsNewest

\* A push keeps as much as the budgets allow: the longest run of newest records
\* that fits both, and the new record alone if it does not fit.
Fits(records) == Len(records) <= maxRecords /\ Bytes(records) <= maxBytes
PushKeepsLongestFit ==
    [][pushing /\ ~pushing' =>
        LET all   == Append(before, pushed'[Len(pushed')])
            from(i) == SubSeq(all, i, Len(all))
            fit   == {i \in 1 .. Len(all) : Fits(from(i))}
            first == IF fit = {} THEN Len(all)
                     ELSE CHOOSE i \in fit : \A j \in fit : i <= j
        IN  deque' = from(first)]_vars

\* "windows the NEWEST end": a client that pulls the store page by page, while
\* records are pushed and the oldest are dropped between its requests, is served
\* every record that was there when it began and still is when it ends.
PullMissesNothing ==
    [][pulling /\ ~pulling' => present \cap ToSet(deque) \subseteq seen']_vars

=============================================================================
