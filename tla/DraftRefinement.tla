--------------------------- MODULE DraftRefinement ---------------------------
(****************************************************************************)
(* refine_candidate_drafts: the edit script becomes drafts, and a chain of  *)
(* passes promotes drafts (an edit is recognised as one of another kind)    *)
(* and suppresses drafts (an edit is believed to be told by another).  Each *)
(* pass reads the drafts the passes before it left, so each is an operator  *)
(* on a set of drafts; what one relied upon a later one may take away.      *)
(*                                                                          *)
(* Drafts are a set: their order matters to one pass alone, which says so.  *)
(* promote_same_id_named_line_moves is left out: where ids are child slots  *)
(* two entities that keep their ids keep their order.  So are descriptions, *)
(* confidence, the annotations and the final sort.  The language is Python, *)
(* which has no statement profile.                                          *)
(****************************************************************************)
EXTENDS EditScript

VARIABLES
  stage,    \* how far the diff is: "script", "drafted", "refined", "final"
  drafts    \* the drafts so far

draftVars == <<vars, stage, drafts>>

(* A draft has the old node and the new one, each {} for None.              *)
Draft(kind, old, new) == [kind |-> kind, old |-> old, new |-> new]
Pairing(kind, p) == Draft(kind, {p[1]}, {p[2]})
Deletion(n) == Draft("DELETION", {n}, {})
Addition(n) == Draft("ADDITION", {}, {n})

OfKind(D, kind) == {d \in D : d.kind = kind}
OldOf(D) == UNION {d.old : d \in D}
NewOf(D) == UNION {d.new : d \in D}

DeletedNodes(D) == OldOf(OfKind(D, "DELETION"))
AddedNodes(D) == NewOf(OfKind(D, "ADDITION"))
Modified(D) == OfKind(D, "MODIFICATION")

(* edit_op_to_draft *)
ScriptDrafts ==
  {Pairing("MOVE", p) : p \in Moves} \cup {Pairing("MODIFICATION", p) : p \in Updates}
    \cup {Pairing("REORDER", p) : p \in Reorders}
    \cup {Deletion(n) : n \in Deletes} \cup {Addition(n) : n \in Inserts}

-----------------------------------------------------------------------------
(* promote_rename_updates: a modified function that kept its body is a      *)
(* rename, and the edit of its own name is part of it.                      *)
NamePairs(R) ==
  UNION {{c \in Children(O, p[1]) \X Children(N, p[2]) :
            IsItsName(O, p[1], c[1]) /\ IsItsName(N, p[2], c[2])} :
         p \in UNION {d.old \X d.new : d \in R}}

RenameUpdates(D) ==
  LET R == {d \in Modified(D) : \E o \in d.old, n \in d.new : ExactRename(o, n) \/ SimilarBy(Half, o, n)}
      names == NamePairs(R)
      promoted == {[d EXCEPT !.kind = "REFACTORING"] : d \in R}
  IN {d \in (D \ R) \cup promoted :
        d.old \cap MatchedOld(names) = {} /\ d.new \cap MatchedNew(names) = {}}

-----------------------------------------------------------------------------
(* promote_matched_parent_statement_updates: the only removed and the only  *)
(* added child of one type, or of any type, below partners are one edit.    *)
OfType(T, S, type) == {n \in S : T[n].type = type}

ChildrenIn(T, p, S) == {n \in S \ {Root} : Parent(n) = p /\ ~IsNamedEntity(T[n])}

EditedInPlace(D) ==
  UNION {LET gone == ChildrenIn(O, p[1], DeletedNodes(D))
             came == ChildrenIn(N, p[2], AddedNodes(D))
             alike(q) == LET t == O[q[1]].type
                         IN /\ t = N[q[2]].type /\ t # "identifier"
                            /\ OfType(O, gone, t) = {q[1]} /\ OfType(N, came, t) = {q[2]}
             lonely(q) == O[q[1]].type # N[q[2]].type /\ gone = {q[1]} /\ came = {q[2]}
         IN {q \in gone \X came : alike(q) \/ lonely(q)} : p \in pairs}

ParentStatements(D) ==
  LET E == EditedInPlace(D)
  IN (D \ ({Deletion(q[1]) : q \in E} \cup {Addition(q[2]) : q \in E}))
       \cup {Pairing("MODIFICATION", q) : q \in E}

-----------------------------------------------------------------------------
(* promote_same_id_named_renames: an entity other than a function that      *)
(* stands where another one stood and differs from it in its name alone.    *)
(* Names are upper-case letters here, so a label mentions one when it is    *)
(* one, and a digest never does.                                            *)
BodyShape(T, n, names) ==
  LET kept(c) == T[c].type # "identifier" /\ T[c].label \notin names
      body == SelectSeq(SetToSortSeq(Children(T, n), Before), kept)
  IN [i \in DOMAIN body |-> T[body[i]].hash]

BodyIsUnchanged(o, n) ==
  LET names == {O[o].label, N[n].label} IN BodyShape(O, o, names) = BodyShape(N, n, names)

LooksCompatible(o, n) ==
  \/ O[o].line = N[n].line
  \/ \E m \in Descendants(O, o) \cap Descendants(N, n) : Token(O, m) = Token(N, m)

Renamed(n) ==
  /\ IsNamedEntity(O[n]) /\ O[n].type \notin FunctionLike
  /\ N[n].type = O[n].type /\ N[n].label # O[n].label
  /\ LooksCompatible(n, n)
  /\ BodyIsUnchanged(n, n)

SameIdNamedRenames(D) ==
  LET R == {n \in DeletedNodes(D) \cap AddedNodes(D) : Renamed(n) /\ Pairing("MOVE", <<n, n>>) \notin D}
  IN (D \ ({Deletion(n) : n \in R} \cup {Addition(n) : n \in R}))
       \cup {Pairing("REFACTORING", <<n, n>>) : n \in R}

-----------------------------------------------------------------------------
(* promote_imported_function_variable_renames: a function makes way for an  *)
(* import, its first parameter for the imported name.  Names are of one     *)
(* length, and the last of the longest is the last.                         *)
LastOf(S) == {n \in S : \A m \in S : m = n \/ Before(m, n)}
Names(T, n) == OfType(T, Descendants(T, n) \cup {n}, "identifier")

FirstParameter(o) ==
  UNION {First(Names(O, c)) : c \in First(OfType(O, Children(O, o), "parameters"))}

ImportedName(D, label) ==
  UNION {LET called == {m \in Names(N, i) : N[m].label = label}
         IN LastOf(IF called # {} THEN called ELSE Names(N, i)) :
         i \in LastOf({i \in OfType(N, AddedNodes(D), "import_from_statement") : Names(N, i) # {}})}

ImportedRenames(D) ==
  LET replaced == UNION {FirstParameter(o) \X ImportedName(D, O[o].label) :
                           o \in OfType(O, DeletedNodes(D), "function_definition")}
  IN D \cup {Pairing("REFACTORING", p) : p \in {p \in replaced : O[p[1]].label # N[p[2]].label}}

-----------------------------------------------------------------------------
(* promote_label_updates_inside_moved_entities: an identifier of a moved    *)
(* entity that kept its id and not its label; when there is none, the       *)
(* leaves in step, each told at the innermost pair of like named nodes      *)
(* around it.                                                               *)
LabelEdits(D, p) ==
  {q \in Descendants(O, p[1]) \X Descendants(N, p[2]) :
     /\ q[1] = q[2] /\ O[q[1]].type = "identifier" /\ N[q[2]].type = "identifier"
     /\ O[q[1]].label # N[q[2]].label
     /\ Pairing("MODIFICATION", q) \notin D}

Leaves(T, n) == SetToSortSeq({m \in Descendants(T, n) \cup {n} : IsLeaf(T, m)}, Before)

Anchor(p, leaf) ==
  LET inner(q) == O[q[1]].type = N[q[2]].type /\ O[q[1]].label = N[q[2]].label
                    /\ (IsNamedEntity(O[q[1]]) \/ O[q[1]].type = "identifier")
      at(k) == <<SubSeq(leaf[1], 1, Len(p[1]) + k), SubSeq(leaf[2], 1, Len(p[2]) + k)>>
      good == {k \in 1..Min({Len(leaf[1]) - Len(p[1]), Len(leaf[2]) - Len(p[2])}) : inner(at(k))}
  IN IF good = {} THEN leaf ELSE at(Max(good))

LeafEdits(D, p, found) ==
  LET old == Leaves(O, p[1])
      new == Leaves(N, p[2])
      edited == {i \in DOMAIN old : /\ O[old[i]].type = N[new[i]].type
                                    /\ O[old[i]].label # N[new[i]].label}
      at == [i \in edited |-> Anchor(p, <<old[i], new[i]>>)]
      told == {i \in edited : Pairing("MODIFICATION", at[i]) \notin D
                                /\ at[i][1] \notin MatchedOld(found)}
  IN IF Len(old) # Len(new) THEN {}
     ELSE {at[i] : i \in {i \in told : \A j \in told : j < i => at[j][1] # at[i][1]}}

MovedEntities(D) == {p \in pairs : Pairing("MOVE", p) \in D /\ IsNamedEntity(O[p[1]])}

(* The moves are taken in this order.                                       *)
InsideMoves(D, order) ==
  LET recovered(found, p) ==
        found \cup (IF LabelEdits(D, p) # {} \/ SameHash(O, p[1], N, p[2]) THEN LabelEdits(D, p)
                    ELSE LeafEdits(D, p, found))
  IN D \cup {Pairing("MODIFICATION", q) : q \in FoldLeft(recovered, {}, order)}

-----------------------------------------------------------------------------
(* Mutant: an added entity of the same type is enough. *)
SameTypeDeletes(D) ==
  LET added == {N[n].type : n \in {n \in AddedNodes(D) : IsNamedEntity(N[n])}}
  IN {Deletion(n) : n \in {n \in DeletedNodes(D) : IsNamedEntity(O[n]) /\ O[n].type \in added}}

(* suppress_same_label_function_delete_for_addition: the entity was added   *)
(* anew elsewhere.                                                          *)
SameLabelDeletes(D) ==
  LET added == {Token(N, n) : n \in {n \in AddedNodes(D) : IsNamedEntity(N[n])}}
  IN {Deletion(n) : n \in {n \in DeletedNodes(D) : IsNamedEntity(O[n]) /\ Token(O, n) \in added}}

-----------------------------------------------------------------------------
(* suppress_descendant_noise: what is inside a removed, added or moved      *)
(* subtree is told by it; but a node that leaves a removed one is a move.   *)
Roots(T, S) == {n \in S : T[n].type # "module"}

Inside(S, roots) == \E n \in S, r \in roots : Below(n, r)

DescendantNoise(D) ==
  LET gone == Roots(O, DeletedNodes(D))
      came == Roots(N, AddedNodes(D))
      movedFrom == Roots(O, OldOf(OfKind(D, "MOVE")))
      movedTo == Roots(N, NewOf(OfKind(D, "MOVE")))
      ridesAlong(d) ==
        CASE d.kind = "DELETION" -> Inside(d.old, gone \cup movedFrom)
          [] d.kind = "ADDITION" -> Inside(d.new, came \cup movedTo)
          [] d.kind \in {"MOVE", "REORDER"} -> Inside(d.old, movedFrom) \/ Inside(d.new, came \cup movedTo)
          [] OTHER -> FALSE
  IN {d \in D : ridesAlong(d)}

-----------------------------------------------------------------------------
(* suppress_candidate_move_noise *)
MoveNoise == {"module", "block", "expression_statement", "return_statement", "identifier", "call"}

NoisyMoves(D) ==
  {d \in OfKind(D, "MOVE") :
     \E o \in d.old, n \in d.new :
       \/ Pairing("MODIFICATION", <<o, n>>) \in D
       \/ ~Inside({o}, DeletedNodes(D)) /\ Len(o) = Len(n) /\ O[o].type \in MoveNoise}

-----------------------------------------------------------------------------
(* suppress_child_modifications_under_preferred_parent *)
PreferredParent == {"if_statement", "binary_operator"}
Preferred(d) == \E o \in d.old : O[o].type \in PreferredParent
ChangesName(d) ==
  \E o \in d.old, n \in d.new :
    O[o].type = "identifier" /\ N[n].type = "identifier" /\ O[o].label # N[n].label

ChildNoise(D) ==
  LET P == {d \in Modified(D) : Preferred(d)}
      told(d) == Inside(d.old, OldOf(P)) \/ Inside(d.new, NewOf(P))
  IN {d \in Modified(D) : told(d) /\ ~ChangesName(d) /\ ~Preferred(d)}

-----------------------------------------------------------------------------
(* suppress_parent_modifications: a modified leaf gives way to the modified *)
(* entity around it, then whatever is modified to what is modified in it.   *)
LeafOnly(d) == (\A o \in d.old : IsLeaf(O, o)) /\ (\A n \in d.new : IsLeaf(N, n))

ParentNoise(D) ==
  LET anchors == {d \in Modified(D) : \E o \in d.old : IsNamedEntity(O[o])}
      leaves == {d \in Modified(D) : LeafOnly(d) /\ \E a \in anchors \ {d} :
                                        Inside(d.old, a.old) \/ Inside(d.new, a.new)}
      M == Modified(D) \ leaves
      around(d) == Inside(OldOf(M), d.old) \/ Inside(NewOf(M), d.new)
  IN leaves \cup {d \in M : around(d)}

-----------------------------------------------------------------------------
(* suppress_candidate_container_noise: a bare block or module goes unless   *)
(* it alone tells of some token.                                            *)
(* Mutant: a bare container tells of nothing (issue #57). *)
ContentfulNever(T, n) == {}

Contentful(T, n) == {m \in Descendants(T, n) : IsLeaf(T, m) /\ T[m].label # T[m].type}

ContainerNoise(D) ==
  LET old == {d \in OfKind(D, "DELETION") : \E o \in d.old : O[o].type \in {"module", "block"}}
      new == {d \in OfKind(D, "ADDITION") : \E n \in d.new : N[n].type \in {"module", "block"}}
      others == D \ (old \cup new)
      toldOld == MatchedOld(pairs) \cup Subtrees(O, OldOf(others))
      toldNew == MatchedNew(pairs) \cup Subtrees(N, NewOf(others))
  IN {d \in old : \A o \in d.old : Contentful(O, o) \subseteq toldOld}
       \cup {d \in new : \A n \in d.new : Contentful(N, n) \subseteq toldNew}

-----------------------------------------------------------------------------
RefinementInit ==
  /\ Init
  /\ stage = "script"
  /\ drafts = {}

(* The matcher at work, and at rest when it is done. *)
Match == Next /\ UNCHANGED <<stage, drafts>>

Take(from, to, D) ==
  /\ stage = from
  /\ stage' = to
  /\ drafts' = D
  /\ UNCHANGED vars

DeriveScript == phase = "matched" /\ Take("script", "drafted", ScriptDrafts)

RefinePromotions(D) == ImportedRenames(SameIdNamedRenames(ParentStatements(RenameUpdates(D))))

RefineSuppressions(D) ==
  LET D1 == D \ SameLabelDeletes(D)
      D2 == D1 \ DescendantNoise(D1)
      D3 == D2 \ NoisyMoves(D2)
      D4 == D3 \ ChildNoise(D3)
      D5 == D4 \ ParentNoise(D4)
  IN D5 \ ContainerNoise(D5)

(* The moves come in the order of the matching, which is not kept: any.     *)
Refine ==
  LET D == RefinePromotions(drafts)
  IN \E order \in SetToSeqs(MovedEntities(D)) :
       Take("drafted", "refined", RefineSuppressions(InsideMoves(D, order)))

RefinementNext == Match \/ DeriveScript \/ Refine

-----------------------------------------------------------------------------
(****************************************************************************)
(* Properties of the drafts after the last pass.                            *)
(****************************************************************************)
Refined == stage = "refined"

Tokens(T) == {Token(T, m) : m \in {m \in DOMAIN T : IsLeaf(T, m) /\ T[m].label # T[m].type}}

(* No body stands where another definition's stood: with such an exchange   *)
(* the moves of both bodies count as reorders and nothing tells of it.      *)
BodiesStay == \A p \in Moves : O[p[1]].type = "block" => Len(p[1]) # Len(p[2])

(* Whatever the passes promote, fold and drop, a token the old version has  *)
(* more often than the new one is in the old part of some draft, and a      *)
(* token the new version has more often in the new part of one.             *)
ChangesStayTold ==
  Refined /\ BodiesStay =>
    /\ Hidden(O, N, Tokens(O), Subtrees(O, OldOf(drafts))) = {}
    /\ Hidden(N, O, Tokens(N), Subtrees(N, NewOf(drafts))) = {}

(* A token is the text of a leaf; a container without content is none.      *)
IsToken(T, n) == IsLeaf(T, n) /\ T[n].label # T[n].type /\ T[n].type \notin {"module", "block"}

(* What ParentStatements takes for one edit.                                *)
InPlace == EditedInPlace(RenameUpdates(ScriptDrafts))

(* Each pass drops a draft because another one tells of it, which a later   *)
(* pass may drop.  Yet a token that is gone is in the old part of a draft,  *)
(* unless it moved along with something, its entity was added anew, or it   *)
(* was replaced in place (a modification, which may give way to another     *)
(* one); a token that came likewise, and its entity is no excuse.           *)
TokensGoForAReason ==
  Refined =>
    /\ \A n \in UnmatchedOld \ MovedOld :
         IsToken(O, n) =>
           \/ n \in Subtrees(O, OldOf(drafts))
           \/ \E r \in Deletes, a \in Inserts :
                /\ IsNamedEntity(O[r]) /\ n \in Subtrees(O, {r})
                /\ Token(O, r) = Token(N, a)
           \/ n \in Subtrees(O, MatchedOld(InPlace))
    /\ \A n \in UnmatchedNew \ MovedNew :
         IsToken(N, n) =>
           n \in Subtrees(N, NewOf(drafts)) \/ n \in Subtrees(N, MatchedNew(InPlace))
=============================================================================
