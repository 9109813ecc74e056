---------------------------- MODULE MCLiveReview ----------------------------
(* Small instance of LiveReview for TLC.                                    *)
EXTENDS LiveReview, TLC

CONSTANTS py, xml, policy, a, b, n

MCKind == (a :> "text") @@ (b :> "text") @@ (n :> "nul")
MCLanguage == (py :> "python") @@ (xml :> "wasm") @@ (policy :> "wasm")
MCRules == (a :> "rules") @@ (b :> "none") @@ (n :> "offspec")
MCBase == (py :> a) @@ (xml :> Absent) @@ (policy :> a)
MCSimilar == {<<a, b>>, <<a, n>>, <<n, b>>}

MCRequest ==
  {[mode |-> "tree", guarded |-> TRUE], [mode |-> "staged", guarded |-> FALSE],
   [mode |-> "between", guarded |-> TRUE], [mode |-> "certified", guarded |-> FALSE]}
  \cup {[mode |-> "single", guarded |-> TRUE, path |-> p, content |-> b] : p \in Path}

Symmetry == Permutations(Dialects)
=============================================================================
