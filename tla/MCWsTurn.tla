---- MODULE MCWsTurn ----
(* WsTurn with payloads of each form: a server's of the first two, a client's of
   the last. *)
EXTENDS WsTurn

MCPayloadLen == [client |-> {3}, server |-> {1, 2}]
=========================
