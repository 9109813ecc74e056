------------------------ MODULE ReviewFinalization ------------------------
(****************************************************************************)
(* finalize_python_review_drafts: the refined drafts become the changes of  *)
(* the review.  One step, a chain of passes: each takes the drafts that the *)
(* one before it left, so each is an operator on a set of drafts.           *)
(*                                                                          *)
(* The drafts come in sorted by position, those of one kind in preorder.    *)
(* Left out are the passes that ask for what no tree here has: annotations, *)
(* literals, comparisons, decorators, extracted helpers, other languages;   *)
(* and the change groups, which tell of the drafts and change none.         *)
(****************************************************************************)
EXTENDS DraftRefinement

Paired(d) == d.old # {} /\ d.new # {}
Labels(T, S) == {T[m].label : m \in Subtrees(T, S)}
LabelsOf(T, S) == {T[m].label : m \in S}

(* refactoring_label_pairs *)
RefactoredLabels(D) ==
  UNION {LabelsOf(O, d.old) \X LabelsOf(N, d.new) : d \in OfKind(D, "REFACTORING")}

-----------------------------------------------------------------------------
(* promote_named_additions_to_moves_from_old_tree: an added entity that the *)
(* old tree has by type and label, three words of it in common, was moved.  *)
Scaffold == {"block", "parameters", "argument_list", "expression_statement"}
Words(T, n) == LabelsOf(T, {m \in Subtrees(T, {n}) : IsLeaf(T, m)}) \ Scaffold
Overlap(o, n) == Cardinality(Words(O, o) \cap Words(N, n))

OldHome(n) ==
  LET homes == {o \in OldNode : IsNamedEntity(O[o]) /\ Token(O, o) = Token(N, n) /\ Overlap(o, n) >= 3}
  IN LastOf({o \in homes : \A h \in homes : Overlap(h, n) <= Overlap(o, n)})

AdditionsToMoves(D) ==
  LET home(d) == UNION {OldHome(n) : n \in {n \in d.new \ NewOf(OfKind(D, "MOVE")) : IsNamedEntity(N[n])}}
  IN {IF d.kind = "ADDITION" /\ home(d) # {} THEN Draft("MOVE", home(d), d.new) ELSE d : d \in D}

-----------------------------------------------------------------------------
(* promote_same_id_identifier_renames: a removed and an added identifier of *)
(* one id are a rename, one for each pair of labels; what bears the labels  *)
(* and is no entity is its residue, and so is a modification around it.     *)
RenamedInPlace(D) ==
  LET R == {n \in DeletedNodes(D) \cap AddedNodes(D) :
              /\ O[n].type = "identifier" /\ N[n].type = "identifier"
              /\ O[n].label # N[n].label
              /\ Pairing("REFACTORING", <<n, n>>) \notin D}
  IN UNION {First({m \in R : O[m].label = O[n].label /\ N[m].label = N[n].label}) : n \in R}

Bears(T, n, labels) == ~IsNamedEntity(T[n]) /\ T[n].label \in labels

SameIdRenames(D) ==
  LET R == RenamedInPlace(D)
      residue(d) ==
        CASE d.kind = "DELETION" ->
               \E o \in d.old : o \in R \/ Bears(O, o, LabelsOf(O, R))
          [] d.kind = "ADDITION" ->
               \E n \in d.new : n \in R \/ Bears(N, n, LabelsOf(N, R))
          [] d.kind = "MODIFICATION" ->
               (Subtrees(O, d.old) \cup Subtrees(N, d.new)) \cap R # {}
          [] OTHER -> FALSE
  IN {d \in D : ~residue(d)} \cup {Pairing("REFACTORING", <<n, n>>) : n \in R}

-----------------------------------------------------------------------------
(* promote_parameter_identifier_modification_renames *)
IsParameter(T, n) == \E m \in Ancestors(T, n) : T[m].type = "parameters"

ParameterRenames(D) ==
  LET R == {d \in Modified(D) :
              ChangesName(d) /\ (\A o \in d.old : IsParameter(O, o)) /\ (\A n \in d.new : IsParameter(N, n))}
      ends == OldOf(R) \cup NewOf(R)
      noise == {d \in OfKind(D, "DELETION") : d.old \subseteq ends}
                 \cup {d \in OfKind(D, "ADDITION") : d.new \subseteq ends}
  IN (D \ (R \cup noise)) \cup {[d EXCEPT !.kind = "REFACTORING"] : d \in R}

-----------------------------------------------------------------------------
(* promote_descendant_leaf_updates: the leaves edited inside a modified     *)
(* node, by their pair, or by their id, or in step where the leaves of both *)
(* are as many and the new one is not taken.                                *)
PartnerOf(o) == {p[2] : p \in {p \in pairs : p[1] = o}}

IsLeafEdit(D, o, n) ==
  /\ IsLeaf(N, n) /\ O[o].type = N[n].type /\ O[o].label # N[n].label
  /\ \A p \in pairs : p[2] = n => p[1] = o
  /\ <<O[o].label, N[n].label>> \notin RefactoredLabels(D)
  /\ Pairing("MODIFICATION", <<o, n>>) \notin D

LeafUpdates(D, o, n) ==
  LET old == Leaves(O, o)
      new == Leaves(N, n)
      inside == Descendants(N, n)
      exact(i) == (IF PartnerOf(old[i]) # {} THEN PartnerOf(old[i]) ELSE {old[i]}) \cap inside
      told(i) == {m \in exact(i) : IsLeafEdit(D, old[i], m)}
      instep(i) ==
        IF exact(i) = {} /\ PartnerOf(old[i]) \subseteq inside /\ Len(old) = Len(new)
        THEN {m \in {new[i]} : IsLeafEdit(D, old[i], m) /\ \A j \in 1..(i - 1) : m \notin told(j)}
        ELSE {}
  IN UNION {{old[i]} \X (told(i) \cup instep(i)) : i \in DOMAIN old}

DescendantLeafUpdates(D) ==
  LET M == Modified(D)
  IN D \cup {Pairing("MODIFICATION", q) :
               q \in UNION {UNION {LeafUpdates(D, p[1], p[2]) : p \in d.old \X d.new} : d \in M}}

-----------------------------------------------------------------------------
(* promote_corroborated_variable_renames: parameters of the one callable of *)
(* a type and label, renamed where they stand to names that are new.        *)
ParametersOf(T, n) == First(OfType(T, Children(T, n), "parameters"))
Callables(T) == {n \in DOMAIN T : ParametersOf(T, n) # {}}
UniqueCallables(T) ==
  {n \in Callables(T) : \A m \in Callables(T) : Token(T, m) = Token(T, n) => m = n}

ParameterLabels(T, n) ==
  [i \in 1..Cardinality(UNION {Children(T, c) : c \in ParametersOf(T, n)}) |->
     T[CHOOSE m \in UNION {Children(T, c) : c \in ParametersOf(T, n)} : Slot(m) = i].label]

Inferred(o, n) ==
  LET old == ParameterLabels(O, o)
      new == ParameterLabels(N, n)
  IN IF Len(old) # Len(new) THEN {}
     ELSE {<<old[i], new[i]>> : i \in {i \in DOMAIN old : /\ \A j \in DOMAIN new : new[j] # old[i]
                                                          /\ \A j \in DOMAIN old : old[j] # new[i]}}

CorroboratedRenames(D) ==
  LET inferred == UNION {IF Token(O, q[1]) = Token(N, q[2]) THEN Inferred(q[1], q[2]) ELSE {} :
                           q \in UniqueCallables(O) \X UniqueCallables(N)}
      R == {d \in Modified(D) :
              ChangesName(d) /\ LabelsOf(O, d.old) \X LabelsOf(N, d.new) \subseteq inferred}
  IN (D \ R) \cup {[d EXCEPT !.kind = "REFACTORING"] : d \in R}

-----------------------------------------------------------------------------
(* A refactoring is RENAME_VARIABLE between identifiers, else RENAME_SYMBOL. *)
VariableRenames(D) == {d \in OfKind(D, "REFACTORING") : \A o \in d.old : O[o].type = "identifier"}
SymbolRenames(D) == OfKind(D, "REFACTORING") \ VariableRenames(D)

(* dedupe_variable_rename_drafts: the first of each pair of labels.         *)
DedupeRenames(D) ==
  LET like(d) == {e \in VariableRenames(D) : /\ LabelsOf(O, e.old) = LabelsOf(O, d.old)
                                             /\ LabelsOf(N, e.new) = LabelsOf(N, d.new)}
  IN {d \in D : d \in VariableRenames(D) => d.old = First(OldOf(like(d)))}

(* suppress_add_delete_noise_covered_by_signature_refactorings: all of its  *)
(* labels are those of renamed variables.                                   *)
SignatureShaped == {"parameters", "binary_operator", "identifier"}

(* Mutant: one of its labels is. *)
CoveredInPart(labels, covered) == labels \cap covered # {}

Covered(labels, covered) == labels \subseteq covered

SignatureNoise(D) ==
  LET covered == Labels(O, OldOf(VariableRenames(D))) \cup Labels(N, NewOf(VariableRenames(D)))
  IN {d \in OfKind(D, "DELETION") :
        \A o \in d.old : O[o].type \in SignatureShaped /\ Covered(Labels(O, d.old), covered)}
     \cup {d \in OfKind(D, "ADDITION") :
        \A n \in d.new : N[n].type \in SignatureShaped /\ Covered(Labels(N, d.new), covered)}

-----------------------------------------------------------------------------
(* suppress_same_label_modifications_without_leaf_label_delta: leaves are   *)
(* compared by id, and in step only where no id is that of a leaf of each.  *)
HasLeafDelta(o, n) ==
  LET aligned == {m \in Descendants(O, o) \cap Descendants(N, n) :
                    IsLeaf(O, m) /\ IsLeaf(N, m) /\ O[m].type = N[m].type}
      old == Leaves(O, o)
      new == Leaves(N, n)
  IN IF aligned # {} THEN \E m \in aligned : O[m].label # N[m].label
     ELSE /\ Len(old) = Len(new)
          /\ \E i \in DOMAIN old : O[old[i]].type = N[new[i]].type /\ O[old[i]].label # N[new[i]].label

WithoutDelta(D) ==
  {d \in Modified(D) :
     \E o \in d.old, n \in d.new : Token(O, o) = Token(N, n) /\ ~HasLeafDelta(o, n)}

-----------------------------------------------------------------------------
(* suppress_add_delete_drafts_covered_by_pairings: both halves of an edit   *)
(* around a modified leaf go, then both halves inside a modified node, and  *)
(* whatever is itself the end of a pairing.                                 *)
AroundLeaves(D) ==
  LET leaf == {d \in Modified(D) : LeafOnly(d)}
      gone(d) == First({m \in DeletedNodes(D) : Inside(d.old, {m})})
      came(d) == First({m \in AddedNodes(D) : Inside(d.new, {m})})
  IN UNION {IF gone(d) # {} /\ came(d) # {}
            THEN {Deletion(m) : m \in gone(d)} \cup {Addition(m) : m \in came(d)}
            ELSE {} : d \in leaf}

(* Mutant: of what is itself such an end, only the removed halves go. *)
CoveredAtOldEnds(D) ==
  {Deletion(m) : m \in OldOf({d \in D : d.kind \in {"MODIFICATION", "REFACTORING", "MOVE"} /\ Paired(d)})}

CoveredByPairings(D) ==
  LET P == {d \in D : d.kind \in {"MODIFICATION", "REFACTORING", "MOVE"} /\ Paired(d)}
      inner(d) == Descendants(O, CHOOSE o \in d.old : TRUE)
      outer(d) == Descendants(N, CHOOSE n \in d.new : TRUE)
      rewrites == {d \in Modified(D) :
                     /\ ~LeafOnly(d)
                     /\ inner(d) \cap DeletedNodes(D) # {}
                     /\ outer(d) \cap AddedNodes(D) # {}}
      oldEnds == OldOf(P) \cup UNION {inner(d) : d \in rewrites}
      newEnds == NewOf(P) \cup UNION {outer(d) : d \in rewrites}
  IN {Deletion(m) : m \in oldEnds} \cup {Addition(m) : m \in newEnds}

-----------------------------------------------------------------------------
(* suppress_same_label_add_delete_pair_drafts: a removed and an added node  *)
(* of one type and label whose other labels are the same, or told by some   *)
(* rename, are one node; each removed one takes the first left.             *)
IsTop(node) == node.type \in {"module", "program"}

SameLabelPairs(D) ==
  LET P == {d \in D : d.kind \in {"REFACTORING", "MODIFICATION"} /\ Paired(d)}
      deleted == SetToSortSeq({o \in DeletedNodes(D) : ~IsTop(O[o])}, Before)
      covers(o, n) ==
        /\ Token(O, o) = Token(N, n)
        /\ Labels(O, {o}) \ Labels(N, {n}) \subseteq LabelsOf(O, OldOf(P))
        /\ Labels(N, {n}) \ Labels(O, {o}) \subseteq LabelsOf(N, NewOf(P))
      take(taken, o) ==
        taken \cup ({o} \X First({n \in AddedNodes(D) :
                                    covers(o, n) /\ \A t \in taken : t[2] # n}))
      T == FoldLeft(take, {}, deleted)
  IN {Deletion(t[1]) : t \in T} \cup {Addition(t[2]) : t \in T}

-----------------------------------------------------------------------------
(* suppress_modifications_covered_by_refactoring_labels *)
CoveredByRenames(D) ==
  LET R == RefactoredLabels(D)
      deltas(o, n) ==
        LET old == Leaves(O, o)
            new == Leaves(N, n)
        IN {<<O[old[i]].label, N[new[i]].label>> :
              i \in {i \in DOMAIN old \cap DOMAIN new :
                       O[old[i]].type = N[new[i]].type /\ O[old[i]].label # N[new[i]].label}}
      covered(o, n) == \/ <<O[o].label, N[n].label>> \in R
                       \/ deltas(o, n) # {} /\ deltas(o, n) \subseteq R
  IN {d \in Modified(D) : \E o \in d.old, n \in d.new : covered(o, n)}

(* suppress_child_moves_under_refactoring_pair_drafts *)
MovesInRenames(D) ==
  {d \in OfKind(D, "MOVE") :
     \E r \in OfKind(D, "REFACTORING") : Inside(d.old, r.old) /\ Inside(d.new, r.new)}

-----------------------------------------------------------------------------
(* suppress_low_signal_reorders_drafts: of the siblings that changed places *)
(* a longest run that kept its order stays, the others moved; the reorder   *)
(* of what is no entity, nor in a renamed one, is noise.                    *)
ReorderedAlike(D) ==
  {q \in UNION {d.old \X d.new : d \in OfKind(D, "REORDER")} :
     /\ O[q[1]].type = N[q[2]].type
     /\ O[q[1]].label = N[q[2]].label \/ Pairing("REFACTORING", q) \in SymbolRenames(D)}

InRename(D, q) == \E r \in SymbolRenames(D) : Inside({q[1]}, r.old) /\ Inside({q[2]}, r.new)

(* longest_increasing_subsequence_positions: the earliest end, and so back: *)
(* of two longest runs that one which has not the last they differ in.      *)
Stationary(G) ==
  LET kept == {S \in SUBSET G : \A q, r \in S : Before(q[1], r[1]) => Before(q[2], r[2])}
      longest == {S \in kept : \A R \in kept : Cardinality(R) <= Cardinality(S)}
      earlier(S, R) == \E r \in R \ S : \A q \in S \ R : Slot(q[1]) < Slot(r[1])
  IN CHOOSE S \in longest : \A R \in longest : R = S \/ earlier(S, R)

(* Mutant: every reorder of alike siblings is noise, as before issue #12. *)
MoversNone(D) == {}

Movers(D) ==
  LET C == {q \in ReorderedAlike(D) :
              IsNamedEntity(O[q[1]]) \/ O[q[1]].type = "decorator" \/ InRename(D, q)}
  IN {q \in C : q \notin Stationary({r \in C : Parent(r[1]) = Parent(q[1])})}

LowSignalReorders(D) ==
  LET behaves(q) == O[q[1]].type = "decorator" \/ (InRename(D, q) /\ ~IsNamedEntity(O[q[1]]))
  IN (D \ {Pairing("REORDER", q) : q \in ReorderedAlike(D)})
       \cup {Pairing(IF behaves(q) THEN "MODIFICATION" ELSE "MOVE", q) : q \in Movers(D)}

-----------------------------------------------------------------------------
Promoted(D) ==
  CorroboratedRenames(DescendantLeafUpdates(ParameterRenames(SameIdRenames(AdditionsToMoves(D)))))

Suppressed(D) ==
  LET D1 == DedupeRenames(D)
      D2 == D1 \ SignatureNoise(D1)
      D3 == D2 \ WithoutDelta(D2)
      D4 == D3 \ AroundLeaves(D3)
      D5 == D4 \ CoveredByPairings(D4)
      D6 == D5 \ SameLabelPairs(D5)
      D7 == D6 \ CoveredByRenames(D6)
      D8 == D7 \ MovesInRenames(D7)
      D9 == D8 \ ParentNoise(D8)
  IN D9 \ ChildNoise(D9)

Finalize == Take("refined", "final", LowSignalReorders(Suppressed(Promoted(drafts))))

FinalizationNext == RefinementNext \/ Finalize

FinalizationSpec == RefinementInit /\ [][FinalizationNext]_draftVars

-----------------------------------------------------------------------------
(****************************************************************************)
(* Properties of the changes of the review.                                 *)
(****************************************************************************)
Done == stage = "final"

(* What a reader of the changes looks at: the nodes they name, and the      *)
(* statements those are in.                                                 *)
InSight(T, S) == Subtrees(T, S \cup UNION {EnclosingStatement(T, n) : n \in S})

(* No leaf is told as edited in a removed and in an added entity: such a    *)
(* pair is taken for "the SAME edit reported at container granularity"      *)
(* (draft_promotions.rs:1654) and dropped for the leaf, with all it tells.  *)
EntitiesStay ==
  LET gone == {n \in Deletes : IsNamedEntity(O[n])}
      came == {n \in Inserts : IsNamedEntity(N[n])}
  IN \A d \in Modified(drafts) : LeafOnly(d) => ~(Inside(d.old, gone) /\ Inside(d.new, came))

(* Whatever is folded into another change, a token the old version has more *)
(* often than the new one is in the old part of a change or in the          *)
(* statement around it, and a token the new version has more often in the   *)
(* new part of one or around it.                                            *)
ChangesStayInSight ==
  Done /\ BodiesStay /\ EntitiesStay =>
    /\ Hidden(O, N, Tokens(O), InSight(O, OldOf(drafts))) = {}
    /\ Hidden(N, O, Tokens(N), InSight(N, NewOf(drafts))) = {}

(* The entities that keep type and label and stay siblings of this one, and *)
(* come before it in the old version and after it in the new one.           *)
Overtaken(p) ==
  {q \in Surviving(p) : /\ IsNamedEntity(O[q[1]]) /\ Token(O, q[1]) = Token(N, q[2])
                        /\ Before(q[1], p[1]) /\ Before(p[2], q[2])}

(* "A genuine relocation of a named entity must surface as moved code, not  *)
(* vanish into style-only output" (issue #12): of two entities that change  *)
(* places, a change names one, or what is around it.                        *)
EntitySwapsAreTold ==
  Done =>
    \A p \in pairs :
      IsNamedEntity(O[p[1]]) /\ Token(O, p[1]) = Token(N, p[2]) /\ Inner(p) =>
        \A q \in Overtaken(p) :
          \E d \in drafts : \/ \E n \in {p[1], q[1]} : n \in d.old \/ Inside({n}, d.old)
                            \/ \E n \in {p[2], q[2]} : n \in d.new \/ Inside({n}, d.new)

(* What the code keeps of it: of two entities that change places, and both  *)
(* their number among the siblings, one is told as moved.  A decorator that *)
(* is put on hides what is in its definition.                               *)
DisplacedSwapsAreTold ==
  Done /\ (\A n \in NewNode : N[n].type # Wrapper) =>
    \A p \in Reorders :
      IsNamedEntity(O[p[1]]) /\ Token(O, p[1]) = Token(N, p[2]) =>
        \A q \in Overtaken(p) \cap Reorders :
          Pairing("MOVE", p) \in drafts \/ Pairing("MOVE", q) \in drafts

(* The passes rewrite and promote, and invent nothing: two versions that    *)
(* are equal give no change, and what a change calls removed or added is    *)
(* in no pair of the matching.                                              *)
NothingIsInvented ==
  stage # "script" =>
    /\ SameTrees => drafts = {}
    /\ DeletedNodes(drafts) \subseteq UnmatchedOld
    /\ AddedNodes(drafts) \subseteq UnmatchedNew

(* A reader counts no change twice: what is removed or added is not moved,  *)
(* renamed or modified as well, whichever pass found that out, and nothing  *)
(* removed is inside something else that is removed, nor added in added.    *)
ChangesAreToldOnce ==
  Done =>
    LET paired == {d \in drafts : Paired(d)}
        gone == DeletedNodes(drafts)
        came == AddedNodes(drafts)
    IN /\ gone \cap OldOf(paired) = {}
       /\ came \cap NewOf(paired) = {}
       /\ \A m, n \in gone : Below(m, n) => O[n].type = "module"
       /\ \A m, n \in came : Below(m, n) => N[n].type = "module"
=============================================================================
