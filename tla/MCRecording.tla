---- MODULE MCRecording ----
(* Recording on a small instance. *)
EXTENDS Recording
============================
