---- MODULE MCServing ----
(* Serving on a small instance: two of the components, a hot key read   *)
(* from the snapshot only, one structural key, and two upstreams of the *)
(* same SNI name at different addresses.                                *)
EXTENDS Serving

MCHotKey == {"capture", "stitch", "upstream"}
MCStructuralKey == {"listen"}
MCApplyOrder == <<"capture", "stitch">>

\* The startup configuration, a change of everything, and a file that is not valid.
Conf(v) == [k \in MCHotKey \cup MCStructuralKey |-> v]
MCConfig == {Conf(1), Conf(2), [Conf(2) EXCEPT !["stitch"] = 0]}

MCResolves == <<{<<"sni", "a1">>}, {<<"sni", "a2">>}>>
==============================
