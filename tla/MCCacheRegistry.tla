--------------------------- MODULE MCCacheRegistry ---------------------------
(* Small instances of CacheRegistry for TLC: a table the size cap counts    *)
(* and one it does not, payloads of ten bytes, and retentions short enough  *)
(* to bite.                                                                 *)
EXTENDS CacheRegistry, TLC

CONSTANTS k1, k2, v1

MCTableOrder == <<"parse", "symbols">>
MCSizedOrder == <<"parse">>
MCBytes == [v \in Value \cup {Legacy} |-> 10]
MCTtl == [k \in Key |-> IF k = k1 THEN 0 ELSE 1]
MCCap == [k \in Key |-> IF k = k1 THEN 5 ELSE 100]

Symmetry == Permutations(Thread) \cup Permutations(Store)
=============================================================================
