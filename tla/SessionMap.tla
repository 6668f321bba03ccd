----------------------------- MODULE SessionMap -----------------------------
(***************************************************************************)
(* What the prefix stitcher of src/trace/prefix.rs promises, without the   *)
(* table, its lock, the clock, the limits and the restarts: a session id   *)
(* names one trajectory of one (scope, head) key.  A trajectory grows by   *)
(* extension while it is open, it may be closed at any time, and a closed  *)
(* one is never reopened.  PrefixStitcher implements it.                   *)
(***************************************************************************)
EXTENDS Sequences, SequencesExt

VARIABLES
    issued,     \* [id, key, fps]: every session returned, at its latest history
    open,       \* those that may still be extended
    marks       \* the ids returned with a breakpoint mark

mapVars == <<issued, open, marks>>

Init == issued = {} /\ open = {} /\ marks = {}

\* A session that was never returned before joins, in place of others.
Joins(e, others) ==
    /\ e.id \notin {f.id : f \in issued}
    /\ issued' = issued \cup {e}
    /\ open' = (open \ others) \cup {e}

\* A history of a key that has no open session.
Begin(e) ==
    /\ \A f \in open : f.key # e.key
    /\ Joins(e, {})
    /\ UNCHANGED marks

\* A history that diverges from the open one of its key, or is shorter.
Diverge(e) ==
    /\ \E f \in open : /\ f.key = e.key /\ ~IsPrefix(f.fps, e.fps)
                       /\ Joins(e, {f})
    /\ marks' = marks \cup {e.id}

\* A history that extends, or repeats, the open one of its key.
Continue(e) ==
    /\ \E f \in open : /\ f.id = e.id /\ f.key = e.key /\ IsPrefix(f.fps, e.fps)
                       /\ issued' = (issued \ {f}) \cup {e}
                       /\ open' = (open \ {f}) \cup {e}
    /\ UNCHANGED marks

\* Expiry, eviction, a restart.
Close ==
    /\ open' \in SUBSET open
    /\ UNCHANGED <<issued, marks>>

Next == Close \/ \E e \in issued' : Begin(e) \/ Diverge(e) \/ Continue(e)

Spec == Init /\ [][Next]_mapVars
=============================================================================
