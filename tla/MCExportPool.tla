---------------------------- MODULE MCExportPool ----------------------------
(* ExportPool on a small instance: two records, a channel of one slot and  *)
(* batches of at most two.  Liveness is checked, so no symmetry is used.   *)
EXTENDS ExportPool
=============================================================================
