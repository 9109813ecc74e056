---------------------------- MODULE TreeMatching ----------------------------
(****************************************************************************)
(* compute_matching_with_diagnostics_indexed: which node of the new tree    *)
(* is which node of the old one.  The phases run in order over one growing  *)
(* and twice pruned list of pairs; a phase with a loop visits its old nodes *)
(* one at a time, and what it pairs depends on what is paired so far.       *)
(*                                                                          *)
(* Pairs are a set: the code's Vec is only ever searched by id.  A          *)
(* min_by_key is the choice of the least key, whose last component is the   *)
(* id, so every choice below is of one node.                                *)
(****************************************************************************)
EXTENDS SemanticTree

CONSTANTS
  Trees,        \* what the parser makes of the versions of a file
  MinHeight,    \* config.min_height
  Similarity    \* config.min_similarity, as a fraction [num |-> n, den |-> d]

(* A tree is a finite function on paths, and an operator is a leaf of it.   *)
ASSUME TreeAssumption ==
  \A T \in Trees :
    /\ DOMAIN T \subseteq Seq(Nat) /\ IsFiniteSet(DOMAIN T)
    /\ Root \in DOMAIN T
    /\ \A n \in DOMAIN T : IsOperator(T[n]) => Descendants(T, n) = {}

(* The digest of a node is of the types in its subtree, place by place.     *)
ASSUME HashAssumption ==
  \A T, U \in Trees : \A n \in DOMAIN T, m \in DOMAIN U :
    SameHash(T, n, U, m) =>
      \A d \in Descendants(T, n) \cup {n} :
        m \o From(d, n) \in DOMAIN U /\ T[d].type = U[m \o From(d, n)].type

VARIABLES
  O, N,         \* the old tree and the new one
  phase,        \* the phase that runs
  todo,         \* the old nodes its loop has still to visit
  pairs,        \* the matches so far
  renamedCalls  \* renamed_call_statements, computed before bottom-up

vars == <<O, N, phase, todo, pairs, renamedCalls>>

OldNode == DOMAIN O
NewNode == DOMAIN N

Phases == {"entities", "renames", "topdown", "root", "labels", "operators",
           "bottomup", "statements", "entityops", "bind", "matched"}

TypeOK ==
  /\ phase \in Phases
  /\ todo \in SUBSET OldNode
  /\ pairs \in SUBSET (OldNode \X NewNode)
  /\ renamedCalls \in SUBSET (OldNode \X NewNode)
  /\ todo # {} => phase \in {"entities", "topdown", "labels", "bottomup"}
  /\ phase \in {"entities", "topdown", "labels", "bottomup"} =>
       \A n \in todo : \A p \in pairs : p[1] # n

-----------------------------------------------------------------------------
MatchedOld(M) == {p[1] : p \in M}
MatchedNew(M) == {p[2] : p \in M}

FreeOld(M) == OldNode \ MatchedOld(M)
FreeNew(M) == NewNode \ MatchedNew(M)

(* seed_descendant_pairs: the two subtrees are walked in step, and the      *)
(* nodes met at the same place are paired when both are still free.         *)
Seeded(M, o, n) ==
  M \cup {<<o, n>>}
    \cup {p \in Descendants(O, o) \X Descendants(N, n) :
            /\ From(p[1], o) = From(p[2], n)
            /\ p[1] \in FreeOld(M) /\ p[2] \in FreeNew(M)
            /\ O[p[1]].type = N[p[2]].type}

-----------------------------------------------------------------------------
(****************************************************************************)
(* Distances the min_by_keys are made of.                                   *)
(****************************************************************************)
Gap(a, b) == IF a < b THEN b - a ELSE a - b
Far == 1000   \* usize::MAX

LineGap(o, n) == Gap(O[o].line, N[n].line)
ColGap(o, n) == Gap(O[o].col, N[n].col)

(* same_parent_leaf_slot_distance *)
SlotGap(o, n) ==
  IF /\ IsLeaf(O, o) /\ IsLeaf(N, n)
     /\ O[o].type = N[n].type /\ O[o].label = N[n].label
     /\ o # Root /\ n # Root
     /\ Parent(o) = Parent(n)
     /\ O[Parent(o)].type = N[Parent(n)].type /\ O[Parent(o)].label = N[Parent(n)].label
  THEN Gap(Slot(o), Slot(n))
  ELSE Far

Elsewhere(o, n) ==
  IF SlotGap(o, n) # Far /\ LineGap(o, n) = 0 /\ ColGap(o, n) = 0 THEN 0 ELSE 1

Distance(o, n) ==
  <<LineGap(o, n), Elsewhere(o, n), SlotGap(o, n), ColGap(o, n)>> \o n

-----------------------------------------------------------------------------
(****************************************************************************)
(* The gates of the approximate phases.                                     *)
(****************************************************************************)

(* label_match_parent_compatible *)
ParentCompatible(o, n) ==
  O[o].type \in {"function_definition", "async_function_def", "class_definition"} =>
    \A p \in EffectiveParent(O, o), q \in EffectiveParent(N, n) :
      O[p].type = N[q].type /\ O[p].label = N[q].label

(* generic_anchored, and the scope gate of bottom_up_match: same-named or   *)
(* already matched enclosing entities.                                      *)
SameScope(M, o, n) ==
  LET E == EnclosingEntity(O, o)
      F == EnclosingEntity(N, n)
  IN \/ E = {} /\ F = {}
     \/ \E e \in E, f \in F : O[e].label = N[f].label \/ <<e, f>> \in M

(* argument_owner_compatible *)
OwnerCompatible(M, o, n) ==
  O[o].type = "argument_list" =>
    \/ o = Root /\ n = Root
    \/ o # Root /\ n # Root /\ <<Parent(o), Parent(n)>> \in M

(* call_role_compatible *)
CallRoleCompatible(M, o, n) ==
  O[o].type = "call" =>
    \A p \in EffectiveParent(O, o), q \in EffectiveParent(N, n) :
      IF p \in MatchedOld(M) THEN <<p, q>> \in M
      ELSE q \notin MatchedNew(M) /\ O[p].type = N[q].type

-----------------------------------------------------------------------------
(****************************************************************************)
(* Phases.  Visit takes the next node of the loop; the loop skips the nodes *)
(* that were paired since it began.                                         *)
(****************************************************************************)
Init ==
  /\ \E T, U \in Trees : O = T /\ N = U
  /\ phase = "entities"
  /\ todo = {n \in OldNode : IsNamedEntity(O[n])}
  /\ pairs = {}
  /\ renamedCalls = {}

(* Mutant: the loop goes on to nodes that a seed has paired meanwhile. *)
VisitAll(o, M) ==
  /\ pairs' = M
  /\ todo' = todo \ {o}
  /\ UNCHANGED <<O, N, phase, renamedCalls>>

Visit(o, M) ==
  /\ pairs' = M
  /\ todo' = (todo \ {o}) \ MatchedOld(M)
  /\ UNCHANGED <<O, N, phase, renamedCalls>>

Enter(next, M, loop) ==
  /\ phase' = next
  /\ pairs' = M
  /\ todo' = loop
  /\ UNCHANGED <<O, N>>

-----------------------------------------------------------------------------
(* entity_first_match: by id, type and label, else by hash, else by label;  *)
(* the closest line wins.                                                   *)
EntityFits(o) ==
  LET open == {n \in FreeNew(pairs) :
                 /\ IsNamedEntity(N[n]) /\ N[n].type = O[o].type
                 /\ ParentCompatible(o, n)}
      exactId == {n \in open : n = o /\ N[n].label = O[o].label}
      structural == {n \in open : SameHash(O, o, N, n)}
      labelled == {n \in open : N[n].label = O[o].label}
  IN CASE exactId # {} -> exactId
       [] exactId = {} /\ structural # {} -> structural
       [] OTHER -> labelled

ClosestEntity(o) ==
  LET fits == EntityFits(o)
      key(n) == <<LineGap(o, n)>> \o n
  IN {n \in fits : \A m \in fits : m = n \/ Before(key(n), key(m))}

MatchEntity ==
  /\ phase = "entities"
  /\ \E o \in First(todo) :
       LET closest == ClosestEntity(o)
       IN \/ \E n \in closest :
               Visit(o, IF SameHash(O, o, N, n) THEN Seeded(pairs, o, n)
                                                ELSE pairs \cup {<<o, n>>})
          \/ closest = {} /\ Visit(o, pairs)

EntitiesDone ==
  /\ phase = "entities" /\ todo = {}
  /\ Enter("renames", pairs, {})
  /\ UNCHANGED renamedCalls

-----------------------------------------------------------------------------
(* seed_renamed_callables.  The source text of a node is its leaves.        *)
Signature(T, n) ==
  First({c \in Children(T, n) : T[c].type = "parameters"})

IsItsName(T, n, c) == T[c].type = "identifier" /\ T[c].label = T[n].label

(* The children a body is compared by: all but those that are the name.     *)
Body(T, n) ==
  [k \in {Slot(c) : c \in {c \in Children(T, n) : ~IsItsName(T, n, c)}} |-> T[Append(n, k)].hash]

BodyNodes(T, n) ==
  LET kids == {c \in Children(T, n) \ Signature(T, n) : ~IsItsName(T, n, c)}
  IN {m \in Descendants(T, n) : SubSeq(m, 1, Len(n) + 1) \in kids}

Token(T, m) == <<T[m].type, T[m].label>>

Renaming(o, n) ==
  /\ O[o].type = N[n].type /\ O[o].type \in FunctionLike
  /\ O[o].label # N[n].label

(* threshold.max(0.5) *)
Half == [num |-> 1, den |-> 2]
Continuity == IF 2 * Similarity.num > Similarity.den THEN Similarity ELSE Half

(* How many tokens two sets of nodes have in common.                        *)
TokensOf(T, S) == {Token(T, m) : m \in S}
Occurrences(T, S, k) == Cardinality({m \in S : Token(T, m) = k})
InCommon(T, A, U, B) ==
  MapThenSumSet(LAMBDA k : Min({Occurrences(T, A, k), Occurrences(U, B, k)}),
                TokensOf(T, A) \cap TokensOf(U, B))

(* similarity >= bound: same signature, bodies of comparable size with a    *)
(* concrete token in common, and enough of all their tokens (a Jaccard      *)
(* index).                                                                  *)
SimilarBy(bound, o, n) ==
  LET A == BodyNodes(O, o)
      B == BodyNodes(N, n)
      common == InCommon(O, A, N, B)
      all == Cardinality(A) + Cardinality(B)
  IN /\ Renaming(o, n)
     /\ \E s \in Signature(O, o), t \in Signature(N, n) : SameHash(O, s, N, t)
     /\ A # {} /\ B # {}
     /\ Max({Cardinality(A), Cardinality(B)}) <= 2 * Min({Cardinality(A), Cardinality(B)})
     /\ \E k \in TokensOf(O, A) \cap TokensOf(N, B) : k[2] # k[1]
     /\ common * bound.den >= bound.num * (all - common)

(* exact_source_rename: the texts differ by the one occurrence of the name. *)
NameLeaves(T, n) ==
  {From(m, n) : m \in {m \in Descendants(T, n) : IsLeaf(T, m) /\ T[m].label = T[n].label}}
TextBut(T, n) ==
  LET names == NameLeaves(T, n)
  IN [q \in {From(m, n) : m \in Descendants(T, n)} |->
        IF q \in names \/ ~IsLeaf(T, n \o q) THEN "" ELSE T[n \o q].label]

ExactRename(o, n) ==
  /\ Renaming(o, n)
  /\ Cardinality(NameLeaves(O, o)) = 1
  /\ NameLeaves(O, o) = NameLeaves(N, n)
  /\ TextBut(O, o) = TextBut(N, n)

SameBody(o, n) == ExactRename(o, n) \/ Body(O, o) = Body(N, n)

RenameCandidates ==
  LET functions(T, S) == {n \in S : T[n].type \in FunctionLike}
      near == {p \in functions(O, FreeOld(pairs)) \X functions(N, FreeNew(pairs)) :
                 /\ Renaming(p[1], p[2])
                 /\ ScopePath(O, p[1]) = ScopePath(N, p[2])
                 /\ ParentCompatible(p[1], p[2])
                 /\ ExactRename(p[1], p[2]) \/ SimilarBy(Continuity, p[1], p[2])}
      exact == {p \in near : SameBody(p[1], p[2])}
  IN {p \in near : p \in exact \/ \A e \in exact : e[1] # p[1] /\ e[2] # p[2]}

(* Mutant: the first candidates are taken, unique or not. *)
AnyRenames == RenameCandidates

(* A rename is believed when it is the only one at both of its ends. *)
Renames ==
  LET C == RenameCandidates
  IN {p \in C : \A q \in C : q[1] = p[1] \/ q[2] = p[2] => q = p}

SeedRenames ==
  /\ phase = "renames"
  /\ \E M \in {pairs \cup Renames} :
       Enter("topdown", M, {n \in FreeOld(M) : O[n].height >= MinHeight})
  /\ UNCHANGED renamedCalls

-----------------------------------------------------------------------------
(* top_down_match_with_existing: tallest subtrees first, an equal one       *)
(* anywhere in the new tree, the closest wins.                              *)
Tallest(S) ==
  First({n \in S : \A m \in S : O[m].height <= O[n].height})

ClosestCopy(o) ==
  LET fits == {n \in FreeNew(pairs) : SameHash(O, o, N, n)}
  IN {n \in fits : \A m \in fits : m = n \/ Before(Distance(o, n), Distance(o, m))}

MatchTopDown ==
  /\ phase = "topdown"
  /\ \E o \in Tallest(todo) :
       LET copy == ClosestCopy(o)
       IN \/ \E n \in copy : Visit(o, Seeded(pairs, o, n))
          \/ copy = {} /\ Visit(o, pairs)

TopDownDone ==
  /\ phase = "topdown" /\ todo = {}
  /\ Enter("root", pairs, {})
  /\ UNCHANGED renamedCalls

(* The roots are paired when they are alike and still free. *)
PairRoots ==
  /\ phase = "root"
  /\ LET free == Root \in FreeOld(pairs) /\ Root \in FreeNew(pairs)
         M == IF O[Root].type = N[Root].type /\ free THEN pairs \cup {<<Root, Root>>} ELSE pairs
     IN Enter("labels", M, FreeOld(M) \ {Root})
  /\ UNCHANGED renamedCalls

-----------------------------------------------------------------------------
(* label_match.  A call alone in its statement is paired with the call      *)
(* alone in the partner statement, and its callee with that one's.          *)
Calls(T, p) == {c \in Children(T, p) : T[c].type = "call"}

CallSlot(o) ==
  {n \in FreeNew(pairs) :
     /\ O[o].type = "call" /\ n # Root
     /\ <<Parent(o), Parent(n)>> \in pairs
     /\ O[Parent(o)].type \in CallStatement /\ N[Parent(n)].type = O[Parent(o)].type
     /\ Calls(O, Parent(o)) = {o} /\ Calls(N, Parent(n)) = {n}}

Callees(o, n) ==
  {p \in Children(O, o) \X Children(N, n) :
     /\ Slot(p[1]) = 1 /\ Slot(p[2]) = 1
     /\ O[p[1]].type = "identifier" /\ N[p[2]].type = "identifier"
     /\ p[1] \in FreeOld(pairs) /\ p[2] \in FreeNew(pairs)}

(* Mutant: the gate of issue #31 is not there. *)
LabelFitsAnywhere(o) ==
  {n \in FreeNew(pairs) \ {Root} :
     /\ N[n].type = O[o].type /\ N[n].label = O[o].label
     /\ ParentCompatible(o, n)
     /\ OwnerCompatible(pairs, o, n) /\ CallRoleCompatible(pairs, o, n)}

LabelFits(o) ==
  {n \in FreeNew(pairs) \ {Root} :
     /\ N[n].type = O[o].type /\ N[n].label = O[o].label
     /\ ParentCompatible(o, n)
     /\ IsNamedEntity(O[o]) \/ SameScope(pairs, o, n)
     /\ OwnerCompatible(pairs, o, n) /\ CallRoleCompatible(pairs, o, n)}

ClosestLabel(o) ==
  LET fits == LabelFits(o)
      adrift(n) == IF <<Parent(o), Parent(n)>> \in pairs THEN 0 ELSE 1
      key(n) == <<adrift(n)>> \o Distance(o, n)
  IN {n \in fits : \A m \in fits : m = n \/ Before(key(n), key(m))}

MatchLabel ==
  /\ phase = "labels"
  /\ \E o \in First(todo) :
       LET slot == CallSlot(o)
           closest == ClosestLabel(o)
       IN \/ \E n \in slot : Visit(o, pairs \cup {<<o, n>>} \cup Callees(o, n))
          \/ slot = {} /\ \E n \in closest : Visit(o, pairs \cup {<<o, n>>})
          \/ slot = {} /\ closest = {} /\ Visit(o, pairs)

LabelsDone ==
  /\ phase = "labels" /\ todo = {}
  /\ Enter("operators", pairs, {})
  /\ UNCHANGED renamedCalls

-----------------------------------------------------------------------------
(* Mutant: the operators paired by their text stay paired. *)
WithOperators(M) == M

(* without_operator_pairs *)
WithoutOperators(M) == {p \in M : ~IsOperator(O[p[1]]) /\ ~IsOperator(N[p[2]])}

(* Statements whose call was renamed in place, by the evidence so far. *)
RenamedCalls(M) ==
  {q \in M :
     /\ O[q[1]].type \in CallStatement /\ O[q[1]].type = N[q[2]].type
     /\ \E p \in M :
          /\ O[p[1]].type = "call" /\ O[p[1]].label # N[p[2]].label
          /\ q[1] \in EffectiveParent(O, p[1]) /\ q[2] \in EffectiveParent(N, p[2])}

DropOperators ==
  /\ phase = "operators"
  /\ LET M == WithoutOperators(pairs)
     IN /\ Enter("bottomup", M, {n \in FreeOld(M) : ~IsLeaf(O, n)})
        /\ renamedCalls' = RenamedCalls(M)

-----------------------------------------------------------------------------
(* bottom_up_match: the inner node of the same type with the most paired    *)
(* descendants in common (a Dice coefficient), if above the threshold; the  *)
(* first of the best in preorder.                                           *)
Common(o, n) ==
  Cardinality({p \in pairs : Below(p[1], o) /\ Below(p[2], n)})
Total(o, n) == Cardinality(Descendants(O, o)) + Cardinality(Descendants(N, n))

BottomUpFits(o) ==
  {n \in FreeNew(pairs) :
     /\ ~IsLeaf(N, n) /\ N[n].type = O[o].type
     /\ IsNamedEntity(O[o]) => O[o].label = N[n].label /\ ParentCompatible(o, n)
     /\ OwnerCompatible(pairs, o, n) /\ CallRoleCompatible(pairs, o, n)
     /\ SameScope(pairs, o, n)
     /\ 2 * Common(o, n) * Similarity.den > Similarity.num * Total(o, n)}

MostAlike(o) ==
  LET fits == BottomUpFits(o)
      worse(m, n) == Common(o, m) * Total(o, n) < Common(o, n) * Total(o, m)
  IN First({n \in fits : \A m \in fits : ~worse(n, m)})

MatchBottomUp ==
  /\ phase = "bottomup"
  /\ \E o \in First(todo) :
       LET alike == MostAlike(o)
       IN \/ \E n \in alike : Visit(o, pairs \cup {<<o, n>>})
          \/ alike = {} /\ Visit(o, pairs)

BottomUpDone ==
  /\ phase = "bottomup" /\ todo = {}
  /\ Enter("statements", pairs, {})
  /\ UNCHANGED renamedCalls

-----------------------------------------------------------------------------
(* prune_cross_statement_leaf_pairs: statements that name different callees *)
(* do not correspond, nor does what lies directly in them; and a leaf stays *)
(* paired with its like only inside statements that correspond.             *)
FirstCallee(T, n) ==
  {T[m].label : m \in First({m \in Descendants(T, n) \cup {n} : T[m].type \in CalleeName})}

Incoherent(M) ==
  {p \in M :
     /\ O[p[1]].type \in Statement /\ N[p[2]].type = O[p[1]].type
     /\ ~IsLeaf(O, p[1]) /\ ~IsLeaf(N, p[2])
     /\ p \notin renamedCalls
     /\ \E c \in FirstCallee(O, p[1]), d \in FirstCallee(N, p[2]) : c # d}

(* Mutant: a leaf in no statement has no statement to agree on. *)
CoherentInStatements(M, p) ==
  LET S == EnclosingStatement(O, p[1])
      T == EnclosingStatement(N, p[2])
  IN /\ p \notin Incoherent(M)
     /\ (S \X T) \cap Incoherent(M) = {}
     /\ IsLeaf(O, p[1]) => \E s \in S, t \in T : <<s, t>> \in M

StatementCoherent(M, p) ==
  LET S == EnclosingStatement(O, p[1])
      T == EnclosingStatement(N, p[2])
      likeLeaves == IsLeaf(O, p[1]) /\ O[p[1]].label = N[p[2]].label
  IN /\ p \notin Incoherent(M)
     /\ (S \X T) \cap Incoherent(M) = {}
     /\ likeLeaves => (S = {} /\ T = {}) \/ \E s \in S, t \in T : <<s, t>> \in M

PruneStatements ==
  /\ phase = "statements"
  /\ Enter("entityops", {p \in pairs : StatementCoherent(pairs, p)}, {})
  /\ UNCHANGED renamedCalls

(* prune_cross_entity_operator_pairs, with operator_pair_anchor. *)
OperatorAnchor(T, n) ==
  IF EnclosingEntity(T, n) # {} THEN EnclosingEntity(T, n)
  ELSE Innermost({m \in Ancestors(T, n) : T[m].label # T[m].type})

AnchoredAlike(M, p) ==
  O[p[1]].type \in OperatorBearing /\ N[p[2]].type \in OperatorBearing =>
    \A a \in OperatorAnchor(O, p[1]), b \in OperatorAnchor(N, p[2]) :
      a \in MatchedOld(M) => <<a, b>> \in M

PruneOperators ==
  /\ phase = "entityops"
  /\ Enter("bind", {p \in pairs : AnchoredAlike(pairs, p)}, {})
  /\ UNCHANGED renamedCalls

(* bind_operator_leaves: the k-th operator of a node and of its partner. *)
Operators(T, n) == {c \in Children(T, n) : IsOperator(T[c])}
Ordinal(S, c) == Cardinality({d \in S : Before(d, c)})

Bound(M) ==
  UNION {{q \in Operators(O, p[1]) \X Operators(N, p[2]) :
            Ordinal(Operators(O, p[1]), q[1]) = Ordinal(Operators(N, p[2]), q[2])} : p \in M}

BindOperators ==
  /\ phase = "bind"
  /\ LET M == WithoutOperators(pairs) IN Enter("matched", M \cup Bound(M), {})
  /\ UNCHANGED renamedCalls

(* The matching is handed to the edit script. *)
Matched == phase = "matched" /\ UNCHANGED vars

Next ==
  \/ MatchEntity \/ EntitiesDone
  \/ SeedRenames
  \/ MatchTopDown \/ TopDownDone
  \/ PairRoots
  \/ MatchLabel \/ LabelsDone
  \/ DropOperators
  \/ MatchBottomUp \/ BottomUpDone
  \/ PruneStatements \/ PruneOperators \/ BindOperators
  \/ Matched

Spec == Init /\ [][Next]_vars

-----------------------------------------------------------------------------
(****************************************************************************)
(* Properties.                                                              *)
(****************************************************************************)

(* No phase pairs a node twice, whichever phases met it before: the seeds   *)
(* that zip two subtrees, the callee rule and the binding of operators all  *)
(* add pairs other than the one the loop is at.                             *)
OneToOne == \A p, q \in pairs : p[1] = q[1] <=> p[2] = q[2]

(* Only nodes of one type correspond, in every phase.                       *)
SameTypes == \A p \in pairs : O[p[1]].type = N[p[2]].type

(* "every `+` hashes alike": an operator has no identity but its parent's.  *)
(* In the matching that is handed on, operators are paired exactly as their *)
(* parents are, also when a prune has taken the parents' pair.              *)
OperatorsFollowParents ==
  phase = "matched" =>
    \A p \in pairs : IsOperator(O[p[1]]) => <<Parent(p[1]), Parent(p[2])>> \in pairs

(* The two nodes lie in equal subtrees that correspond, at the same place.  *)
InEqualSubtrees(M, p) ==
  \E q \in M :
    /\ SameHash(O, q[1], N, q[2])
    /\ p = q \/ (Below(p[1], q[1]) /\ Below(p[2], q[2]))
    /\ From(p[1], q[1]) = From(p[2], q[2])

InScope(M, p) ==
  \/ IsNamedEntity(O[p[1]])
  \/ SameScope(M, p[1], p[2])
  \/ InEqualSubtrees(M, p)

(* "the internals of a DELETED function label-matched the internals of an   *)
(* unrelated ADDED function" (issue #31): what is inside an entity is never *)
(* paired with what is inside another one, unless it was recognised as an   *)
(* unchanged subtree that moved.  The prunes at the end may then take the   *)
(* pair of the entities back and leave those of what is in them.            *)
InternalsStayInScope ==
  phase \notin {"entityops", "bind", "matched"} => \A p \in pairs : InScope(pairs, p)

=============================================================================
