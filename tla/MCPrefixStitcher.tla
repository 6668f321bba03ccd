-------------------------- MODULE MCPrefixStitcher --------------------------
(* Small instances of PrefixStitcher for TLC.                              *)
EXTENDS PrefixStitcher

CONSTANTS a, b
\* Histories after the head: empty, and two that extend it and diverge.
ShortHistories == {<<>>, <<a>>, <<b>>}

Symmetry == Permutations(Key) \cup Permutations(Thread)
=============================================================================
