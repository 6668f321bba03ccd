---- MODULE MCTraceStore ----
(* TraceStore on a small instance; the store is full when it stops. *)
EXTENDS TraceStore
=============================
