----------------------------- MODULE EditScript -----------------------------
(****************************************************************************)
(* generate_edit_script_with_diagnostics_indexed: the operations a finished *)
(* matching stands for, in the order the code derives them.  The recovery   *)
(* of literals edited inside a moved subtree is left out: the trees here    *)
(* have no literal tokens, without which it does nothing.                   *)
(****************************************************************************)
EXTENDS TreeMatching

(* Children are numbered from 1 on without a gap. *)
ASSUME SlotAssumption ==
  \A T \in Trees : \A n \in DOMAIN T \ {Root} :
    /\ Parent(n) \in DOMAIN T
    /\ Slot(n) >= 1 /\ \A i \in 1..Slot(n) : Append(Parent(n), i) \in DOMAIN T

(* One grammar makes all versions of a file, and its start symbol is that   *)
(* of the root alone, and no operator.  No node is higher than the root.    *)
ASSUME RootAssumption ==
  /\ \A T, U \in Trees : T[Root].type = U[Root].type
  /\ \A T \in Trees :
       /\ \A n \in DOMAIN T : T[n].type = T[Root].type => n = Root
       /\ ~IsOperator(T[Root])
       /\ T[Root].height \in Nat
       /\ \A n \in DOMAIN T : T[n].height \in 0..T[Root].height

(* Trees of the same nodes, and no others, have the same digests.           *)
ASSUME DigestAssumption ==
  \A T, U \in Trees :
    LET alike == /\ DOMAIN T = DOMAIN U
                 /\ \A n \in DOMAIN T : T[n].type = U[n].type /\ T[n].label = U[n].label
    IN /\ SameHash(T, Root, U, Root) <=> alike
       /\ alike => \A n \in DOMAIN T : SameHash(T, n, U, n)

UnmatchedOld == FreeOld(pairs)
UnmatchedNew == FreeNew(pairs)

(* The node's container is matched to the container of its partner.         *)
SameContainer(p) == <<Parent(p[1]), Parent(p[2])>> \in pairs

SameEffectiveParent(p) ==
  \E q \in EffectiveParent(O, p[1]), r \in EffectiveParent(N, p[2]) : <<q, r>> \in pairs

Inner(p) == p[1] # Root /\ p[2] # Root

Moves == {p \in pairs : Inner(p) /\ ~SameContainer(p) /\ ~SameEffectiveParent(p)}

MovedOld == UNION {Descendants(O, p[1]) : p \in Moves}
MovedNew == UNION {Descendants(N, p[2]) : p \in Moves}

(* Mutant: the entity is hidden with what goes with it. *)
GoneEntities ==
  UNION {Descendants(O, n) \cup {n} : n \in {n \in UnmatchedOld : IsNamedEntity(O[n])}}

(* unmatched_named_entity_descendant_ids: they go with the entity.          *)
GoneWithEntity ==
  UNION {Descendants(O, n) : n \in {n \in UnmatchedOld : IsNamedEntity(O[n])}}
(* Mutant: it carries what is below any new node, and the node. *)
CameWithNode == UNION {Descendants(N, n) \cup {n} : n \in UnmatchedNew}

CameWithEntity ==
  UNION {Descendants(N, n) : n \in {n \in UnmatchedNew : IsNamedEntity(N[n])}}

Deletes ==
  {n \in UnmatchedOld \ (MovedOld \cup GoneWithEntity) :
     ~(IsOperator(O[n]) /\ n # Root /\ Parent(n) \in UnmatchedOld)}

Inserts ==
  {n \in UnmatchedNew \ (MovedNew \cup CameWithEntity) :
     ~(IsOperator(N[n]) /\ n # Root /\ Parent(n) \in UnmatchedNew)}

(* should_report_structural_update *)
ReportsStructure ==
  {"if_statement", "elif_clause", "else_clause", "for_statement", "while_statement",
   "try_statement", "except_clause", "with_statement", "return_statement", "assignment",
   "augmented_assignment", "expression_statement", "call", "binary_operator"}

Updates ==
  {p \in pairs :
     \/ O[p[1]].label # N[p[2]].label
     \/ ~SameHash(O, p[1], N, p[2]) /\ O[p[1]].type \in ReportsStructure}

(* Mutant: order is compared among siblings of one label. *)
SurvivingAlike(p) ==
  {q \in pairs : Inner(q) /\ Parent(q[1]) = Parent(p[1]) /\ Parent(q[2]) = Parent(p[2])
                 /\ O[q[1]].label = O[p[1]].label}

(* Order is compared among the siblings that stay siblings.                 *)
Surviving(p) ==
  {q \in pairs : Inner(q) /\ Parent(q[1]) = Parent(p[1]) /\ Parent(q[2]) = Parent(p[2])}

Reorders ==
  {p \in pairs :
     /\ Inner(p) /\ SameContainer(p)
     /\ p[1] \notin MovedOld /\ p[2] \notin MovedNew
     /\ LET S == Surviving(p)
        IN Ordinal({q[1] : q \in S}, p[1]) # Ordinal({q[2] : q \in S}, p[2])}

EmptyScript ==
  Moves = {} /\ Deletes = {} /\ Inserts = {} /\ Updates = {} /\ Reorders = {}

-----------------------------------------------------------------------------
(****************************************************************************)
(* Properties of the script of a finished matching.                         *)
(****************************************************************************)
Finished == phase = "matched"
SameTrees == SameHash(O, Root, N, Root)
Undecorated == \A n \in OldNode : O[n].type # Wrapper

(* "When the trees DIFFER, suppression reduced a real semantic delta to     *)
(* zero": before any suppression, trees that differ give some edit.         *)
DeltaIsNeverEmpty == Finished /\ EmptyScript => SameTrees

(* Two versions give no edit at all exactly when their trees are equal,     *)
(* however the matcher's phases share the work between them.  With          *)
(* decorators, whose wrappers the script looks through, they may differ.    *)
EmptyExactlyForEqualTrees == Finished /\ Undecorated => (EmptyScript <=> SameTrees)

Subtrees(T, S) == UNION {Descendants(T, n) \cup {n} : n \in S}
Kinds(T) == {Token(T, n) : n \in DOMAIN T}
Of(T, k) == {n \in DOMAIN T : Token(T, n) = k}

(* The kinds of nodes T has more of than U, none of which is shown.         *)
Hidden(T, U, kinds, shown) ==
  {k \in kinds : Of(T, k) \cap shown = {} /\ Cardinality(Of(T, k)) > Cardinality(Of(U, k))}

(* Code that is gone never vanishes from the diff, and new code never slips *)
(* in: when the old version has more nodes of a type and label than the new *)
(* one, an edit shows one of them, as deleted, moved or updated, itself or  *)
(* with the subtree it is in; and the other way round.                      *)
ChangesAreShown ==
  Finished =>
    /\ Hidden(O, N, Kinds(O), Subtrees(O, Deletes \cup MatchedOld(Moves)) \cup MatchedOld(Updates)) = {}
    /\ Hidden(N, O, Kinds(N), Subtrees(N, Inserts \cup MatchedNew(Moves)) \cup MatchedNew(Updates)) = {}
=============================================================================
