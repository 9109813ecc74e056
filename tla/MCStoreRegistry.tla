--------------------------- MODULE MCStoreRegistry ---------------------------
(* Small instance of StoreRegistry for TLC. *)
EXTENDS StoreRegistry, TLC

Symmetry == Permutations(Thread) \cup Permutations(Key) \cup Permutations(Store)
=============================================================================
