---- MODULE MCRequestTurn ----
(* RequestTurn on a small instance. *)
EXTENDS RequestTurn

\* The second and the fourth byte continue a character.
MCContinuation == {2, 4}
==============================
