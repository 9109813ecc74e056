---------------------------- MODULE MCParserCache ----------------------------
(* Small instance of ParserCache for TLC: a free and a guarded component.   *)
EXTENDS ParserCache, TLC

CONSTANTS plain, guarded

(* Budgets: 1 is a small one, 9 unlimited, 2 the threshold. *)
Source(p, candidate, needs, hostError) ==
  [kind |-> "source", path |-> p, candidate |-> candidate, needs |-> needs,
   hostError |-> hostError]

Equal == [kind |-> "equal"]
Foreign == [kind |-> "foreign"]

MCRequest ==
  {[floor |-> 3, files |-> <<Source(plain, 3, <<1, 3, 2>>, "none"),
                             Source(plain, 4, <<1, 2, 5>>, "old")>>],
   [floor |-> 9, files |-> <<Source(plain, 3, <<1, 3, 2>>, "new")>>],
   [floor |-> 1, files |-> <<Source(guarded, 4, <<1, 1, 2>>, "none"), Equal, Foreign>>]}

Symmetry == Permutations(Thread)
=============================================================================
