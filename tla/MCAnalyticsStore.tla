--------------------------- MODULE MCAnalyticsStore ---------------------------
(* Small instance of AnalyticsStore for TLC. *)
EXTENDS AnalyticsStore, TLC

Fuel(peak, total) == [fuel |-> peak, total |-> total]

(* No JSON; a JSON array; a file with one call; a file with two, a hotspot  *)
(* and an event.                                                            *)
Garbage == [form |-> "garbage", calls |-> <<>>, hotspots |-> 0, events |-> 0]
Value == [form |-> "value", calls |-> <<>>, hotspots |-> 0, events |-> 0]
Plain == [form |-> "object", calls |-> <<Fuel(1, 0)>>, hotspots |-> 0, events |-> 0]
Hot == [form |-> "object", calls |-> <<Fuel(2, 3), Fuel(1, 0)>>, hotspots |-> 1, events |-> 1]

MCBatch == {<<Garbage>>, <<Value>>, <<Plain, Garbage, Hot>>}

Symmetry == Permutations(Thread) \cup Permutations(Store)
=============================================================================
