--------------------------- MODULE EditScriptProofs ---------------------------
(****************************************************************************)
(* Proofs about EditScript, for any trees: what the script of a finished    *)
(* matching shows; that this is the script the drafts of a review come      *)
(* from; and what the passes over the drafts keep of it.                    *)
(*                                                                          *)
(* A node that is not matched is in a subtree the script deletes or inserts *)
(* or moves, by induction over the nodes above it; so what no edit shows is *)
(* matched to its like, and a matching cannot lose any.                     *)
(*                                                                          *)
(* Of a pass there are three kinds of facts: which kinds of drafts it takes *)
(* away (SuppressedKinds), what it makes (Promotes, Keeps), and what must   *)
(* be among the drafts for it to take one (RidesAlong and its like).        *)
(****************************************************************************)
EXTENDS ReviewFinalization, TreeMatchingProofs, InductionLemmas

(* Of some nodes, one has the shortest path. *)
LEMMA Highest ==
  ASSUME NEW S \in SUBSET Seq(Nat), S # {}
  PROVE  \E m \in S : \A k \in S : Len(m) <= Len(k)
<1> DEFINE L == {Len(m) : m \in S}
<1>1. \A m \in S : Len(m) \in Nat
  OBVIOUS
<1>3. L \in SUBSET Nat /\ L # {}
  BY <1>1
<1>2. PICK x \in L : \A y \in L : x <= y
  BY <1>3, Least
<1> QED BY <1>2

LEMMA BelowShorter ==
  ASSUME NEW m \in Seq(Nat), NEW n \in Seq(Nat), Below(m, n)
  PROVE  Len(n) < Len(m)
<1>1. Len(n) <= Len(m) /\ (\A k \in 1..Len(n) : n[k] = m[k]) /\ m # n
  BY PrefixByPlace DEF Below, IsStrictPrefix
<1>2. Len(n) # Len(m)
  BY <1>1, SeqEqual
<1> QED BY <1>1, <1>2

LEMMA BelowTransitive ==
  ASSUME NEW a \in Seq(Nat), NEW b \in Seq(Nat), NEW c \in Seq(Nat), Below(a, b), Below(b, c)
  PROVE  Below(a, c)
<1>1. Len(c) < Len(b) /\ Len(b) < Len(a)
  BY BelowShorter
<1>2. /\ \A k \in 1..Len(c) : c[k] = b[k]
      /\ \A k \in 1..Len(b) : b[k] = a[k]
  BY PrefixByPlace DEF Below, IsStrictPrefix
<1>3. \A k \in 1..Len(c) : c[k] = a[k]
  <2> SUFFICES ASSUME NEW k \in 1..Len(c) PROVE c[k] = a[k]
    OBVIOUS
  <2>1. k \in 1..Len(b)
    BY <1>1
  <2> QED BY <1>2, <2>1
<1>4. Len(c) <= Len(a) /\ c # a
  BY <1>1
<1> QED BY <1>3, <1>4, PrefixByPlace DEF Below, IsStrictPrefix

(* A node is below its parent. *)
LEMMA BelowParent ==
  ASSUME NEW n \in Seq(Nat), n # Root
  PROVE  Parent(n) \in Seq(Nat) /\ Below(n, Parent(n)) /\ Len(n) = Len(Parent(n)) + 1
<1>1. Len(n) \in Nat /\ Len(n) >= 1
  BY DEF Root
<1>2. Parent(n) = SubSeq(n, 1, Len(n) - 1)
  BY DEF Parent, Front
<1> DEFINE k == Len(n) - 1
<1>3. k \in Nat /\ k <= Len(n)
  BY <1>1
<1> HIDE DEF k
<1>4. /\ SubSeq(n, 1, k) \in Seq(Nat) /\ Len(SubSeq(n, 1, k)) = k
      /\ \A i \in 1..k : SubSeq(n, 1, k)[i] = n[i]
  BY <1>3
<1>5. /\ Parent(n) \in Seq(Nat) /\ Len(Parent(n)) = Len(n) - 1
      /\ \A i \in 1..(Len(n) - 1) : Parent(n)[i] = n[i]
  BY <1>2, <1>4 DEF k
<1> QED BY <1>1, <1>5, PrefixByPlace DEF Below, IsStrictPrefix

-----------------------------------------------------------------------------
(* What is not matched is shown. *)

(* The highest unmatched node above n, or n itself, is deleted, or it is    *)
(* where a moved subtree is.                                                *)
LEMMA GoneIsShown ==
  ASSUME Inputs, Matching(pairs), NEW n \in UnmatchedOld
  PROVE  n \in Subtrees(O, Deletes \cup MatchedOld(Moves))
<1> DEFINE S == {m \in UnmatchedOld : m = n \/ Below(n, m)}
<1>1. UnmatchedOld \subseteq DOMAIN O /\ DOMAIN O \subseteq Seq(Nat)
  BY TreeAssumption DEF Inputs, UnmatchedOld, FreeOld, OldNode
<1>2. PICK m \in S : \A k \in S : Len(m) <= Len(k)
  <2>1. S \in SUBSET Seq(Nat) /\ S # {}
    BY <1>1
  <2> QED BY <2>1, Highest
<1>3. m \in UnmatchedOld /\ m \in Seq(Nat) /\ n \in Seq(Nat) /\ (m = n \/ Below(n, m))
  BY <1>1
<1>4. ASSUME NEW k \in UnmatchedOld, Below(m, k) PROVE FALSE
  <2>1. k \in Seq(Nat) /\ Len(k) < Len(m) /\ Len(k) \in Nat /\ Len(m) \in Nat
    BY <1>1, <1>3, <1>4, BelowShorter
  <2>2. Below(n, k)
    BY <1>3, <1>4, <2>1, BelowTransitive
  <2>3. Len(m) <= Len(k)
    BY <1>2, <1>4, <2>2
  <2> QED BY <2>1, <2>3
<1>5. CASE m \in MovedOld
  <2>1. PICK p \in Moves : m \in Descendants(O, p[1])
    BY <1>5 DEF MovedOld
  <2>2. p[1] \in MatchedOld(Moves) /\ p[1] \in Seq(Nat) /\ Below(m, p[1])
    BY <1>1, <2>1 DEF Moves, MatchedOld, Descendants, Matching, OldNode
  <2>3. Below(n, p[1])
    BY <1>3, <2>2, BelowTransitive
  <2> QED BY <1>1, <2>2, <2>3 DEF Subtrees, Descendants
<1>6. CASE m \in GoneWithEntity
  BY <1>4, <1>6 DEF GoneWithEntity, Descendants
<1>7. CASE m # Root /\ Parent(m) \in UnmatchedOld
  BY <1>3, <1>4, <1>7, BelowParent
<1>8. CASE m \in Deletes
  BY <1>1, <1>3, <1>8 DEF Subtrees, Descendants
<1> QED BY <1>3, <1>5, <1>6, <1>7, <1>8 DEF Deletes

(* The highest unmatched node above n, or n itself, is inserted, or it is   *)
(* where a moved subtree is.                                                *)
LEMMA CameIsShown ==
  ASSUME Inputs, Matching(pairs), NEW n \in UnmatchedNew
  PROVE  n \in Subtrees(N, Inserts \cup MatchedNew(Moves))
<1> DEFINE S == {m \in UnmatchedNew : m = n \/ Below(n, m)}
<1>1. UnmatchedNew \subseteq DOMAIN N /\ DOMAIN N \subseteq Seq(Nat)
  BY TreeAssumption DEF Inputs, UnmatchedNew, FreeNew, NewNode
<1>2. PICK m \in S : \A k \in S : Len(m) <= Len(k)
  <2>1. S \in SUBSET Seq(Nat) /\ S # {}
    BY <1>1
  <2> QED BY <2>1, Highest
<1>3. m \in UnmatchedNew /\ m \in Seq(Nat) /\ n \in Seq(Nat) /\ (m = n \/ Below(n, m))
  BY <1>1
<1>4. ASSUME NEW k \in UnmatchedNew, Below(m, k) PROVE FALSE
  <2>1. k \in Seq(Nat) /\ Len(k) < Len(m) /\ Len(k) \in Nat /\ Len(m) \in Nat
    BY <1>1, <1>3, <1>4, BelowShorter
  <2>2. Below(n, k)
    BY <1>3, <1>4, <2>1, BelowTransitive
  <2>3. Len(m) <= Len(k)
    BY <1>2, <1>4, <2>2
  <2> QED BY <2>1, <2>3
<1>5. CASE m \in MovedNew
  <2>1. PICK p \in Moves : m \in Descendants(N, p[2])
    BY <1>5 DEF MovedNew
  <2>2. p[2] \in MatchedNew(Moves) /\ p[2] \in Seq(Nat) /\ Below(m, p[2])
    BY <1>1, <2>1 DEF Moves, MatchedNew, Descendants, Matching, NewNode
  <2>3. Below(n, p[2])
    BY <1>3, <2>2, BelowTransitive
  <2> QED BY <1>1, <2>2, <2>3 DEF Subtrees, Descendants
<1>6. CASE m \in CameWithEntity
  BY <1>4, <1>6 DEF CameWithEntity, Descendants
<1>7. CASE m # Root /\ Parent(m) \in UnmatchedNew
  BY <1>3, <1>4, <1>7, BelowParent
<1>8. CASE m \in Inserts
  BY <1>1, <1>3, <1>8 DEF Subtrees, Descendants
<1> QED BY <1>3, <1>5, <1>6, <1>7, <1>8 DEF Inserts

(* What no edit shows of a kind is matched to its like, one to one, so the  *)
(* other version has no less of it.                                         *)
LEMMA NothingGoneIsHidden ==
  ASSUME Inputs, Matching(pairs)
  PROVE  Hidden(O, N, Kinds(O),
                Subtrees(O, Deletes \cup MatchedOld(Moves)) \cup MatchedOld(Updates)) = {}
<1> DEFINE shown == Subtrees(O, Deletes \cup MatchedOld(Moves)) \cup MatchedOld(Updates)
<1> SUFFICES ASSUME NEW k \in Kinds(O), Of(O, k) \cap shown = {},
                    Cardinality(Of(O, k)) > Cardinality(Of(N, k))
             PROVE  FALSE
  BY DEF Hidden
<1>1. IsFiniteSet(Of(O, k)) /\ IsFiniteSet(Of(N, k))
  BY TreeAssumption, FS_Subset DEF Inputs, Of
<1>2. ASSUME NEW n \in Of(O, k) PROVE \E m \in Of(N, k) : <<n, m>> \in pairs
  <2>1. n \in DOMAIN O /\ n \notin shown /\ Token(O, n) = k
    BY DEF Of
  <2>2. n \notin UnmatchedOld
    BY <2>1, GoneIsShown
  <2>3. PICK p \in pairs : p[1] = n
    BY <2>1, <2>2 DEF UnmatchedOld, FreeOld, MatchedOld, OldNode
  <2>4. p \notin Updates
    BY <2>1, <2>3 DEF MatchedOld
  <2>5. p = <<n, p[2]>> /\ p[2] \in DOMAIN N /\ O[n].type = N[p[2]].type
    BY <2>3 DEF Matching, NewNode
  <2>6. O[n].label = N[p[2]].label
    BY <2>3, <2>4 DEF Updates
  <2> QED BY <2>1, <2>3, <2>5, <2>6 DEF Of, Token
<1> DEFINE f == [n \in Of(O, k) |-> CHOOSE m \in Of(N, k) : <<n, m>> \in pairs]
<1>3. \A n \in Of(O, k) : f[n] \in Of(N, k) /\ <<n, f[n]>> \in pairs
  BY <1>2
<1>4. f \in [Of(O, k) -> Of(N, k)]
  BY <1>3
<1> HIDE DEF f
<1>5. \A n, m \in Of(O, k) : f[n] = f[m] => n = m
  <2> SUFFICES ASSUME NEW n \in Of(O, k), NEW m \in Of(O, k), f[n] = f[m] PROVE n = m
    OBVIOUS
  <2>1. <<n, f[n]>> \in pairs /\ <<m, f[n]>> \in pairs
    BY <1>3
  <2> QED BY <2>1 DEF Matching
<1>6. f \in Injection(Of(O, k), Of(N, k))
  BY <1>4, <1>5 DEF Injection, IsInjective
<1>7. Cardinality(Of(O, k)) <= Cardinality(Of(N, k))
  BY <1>1, <1>6, FS_Injection
<1> QED BY <1>1, <1>7, FS_CardinalityType

LEMMA NothingCameIsHidden ==
  ASSUME Inputs, Matching(pairs)
  PROVE  Hidden(N, O, Kinds(N),
                Subtrees(N, Inserts \cup MatchedNew(Moves)) \cup MatchedNew(Updates)) = {}
<1> DEFINE shown == Subtrees(N, Inserts \cup MatchedNew(Moves)) \cup MatchedNew(Updates)
<1> SUFFICES ASSUME NEW k \in Kinds(N), Of(N, k) \cap shown = {},
                    Cardinality(Of(N, k)) > Cardinality(Of(O, k))
             PROVE  FALSE
  BY DEF Hidden
<1>1. IsFiniteSet(Of(N, k)) /\ IsFiniteSet(Of(O, k))
  BY TreeAssumption, FS_Subset DEF Inputs, Of
<1>2. ASSUME NEW n \in Of(N, k) PROVE \E m \in Of(O, k) : <<m, n>> \in pairs
  <2>1. n \in DOMAIN N /\ n \notin shown /\ Token(N, n) = k
    BY DEF Of
  <2>2. n \notin UnmatchedNew
    BY <2>1, CameIsShown
  <2>3. PICK p \in pairs : p[2] = n
    BY <2>1, <2>2 DEF UnmatchedNew, FreeNew, MatchedNew, NewNode
  <2>4. p \notin Updates
    BY <2>1, <2>3 DEF MatchedNew
  <2>5. p = <<p[1], n>> /\ p[1] \in DOMAIN O /\ O[p[1]].type = N[n].type
    BY <2>3 DEF Matching, OldNode
  <2>6. O[p[1]].label = N[n].label
    BY <2>3, <2>4 DEF Updates
  <2> QED BY <2>1, <2>3, <2>5, <2>6 DEF Of, Token
<1> DEFINE f == [n \in Of(N, k) |-> CHOOSE m \in Of(O, k) : <<m, n>> \in pairs]
<1>3. \A n \in Of(N, k) : f[n] \in Of(O, k) /\ <<f[n], n>> \in pairs
  BY <1>2
<1>4. f \in [Of(N, k) -> Of(O, k)]
  BY <1>3
<1> HIDE DEF f
<1>5. \A n, m \in Of(N, k) : f[n] = f[m] => n = m
  <2> SUFFICES ASSUME NEW n \in Of(N, k), NEW m \in Of(N, k), f[n] = f[m] PROVE n = m
    OBVIOUS
  <2>1. <<f[n], n>> \in pairs /\ <<f[n], m>> \in pairs
    BY <1>3
  <2> QED BY <2>1 DEF Matching
<1>6. f \in Injection(Of(N, k), Of(O, k))
  BY <1>4, <1>5 DEF Injection, IsInjective
<1>7. Cardinality(Of(N, k)) <= Cardinality(Of(O, k))
  BY <1>1, <1>6, FS_Injection
<1> QED BY <1>1, <1>7, FS_CardinalityType

(* For any two trees: however the phases share the work, no kind of node    *)
(* the old version has more of vanishes from the script, and none the new   *)
(* version has more of slips in.                                            *)
THEOREM EveryChangeIsShown == Spec => []ChangesAreShown
<1>1. IInv => ChangesAreShown
  BY Hypotheses, NothingGoneIsHidden, NothingCameIsHidden DEF ChangesAreShown
<1> QED BY <1>1, InitIInv, StepIInv, PTL DEF Spec
-----------------------------------------------------------------------------
(* What is matched and neither moved nor reordered is where it was. *)

LEMMA ChildOfParent ==
  ASSUME NEW n \in Seq(Nat), n # Root
  PROVE  Slot(n) \in Nat /\ n = Append(Parent(n), Slot(n))
BY BelowParent, ChildSlot

(* Without wrappers the effective parent is the parent. *)
LEMMA EffectiveParentIsParent ==
  ASSUME NEW T \in Trees, \A m \in DOMAIN T : T[m].type # Wrapper,
         NEW n \in DOMAIN T, n # Root, NEW q \in EffectiveParent(T, n)
  PROVE  q = Parent(n)
<1>1. DOMAIN T \subseteq Seq(Nat) /\ Parent(n) \in DOMAIN T
  BY TreeAssumption, SlotAssumption
<1>2. n \in Seq(Nat) /\ Below(n, Parent(n)) /\ Len(n) = Len(Parent(n)) + 1
  BY <1>1, BelowParent
<1>3. /\ q \in DOMAIN T /\ q \in Seq(Nat) /\ Below(n, q)
      /\ Len(Parent(n)) <= Len(q)
  BY <1>1, <1>2 DEF EffectiveParent, Innermost, Ancestors
<1>4. Len(q) < Len(n)
  BY <1>2, <1>3, BelowShorter
<1>5. Parent(n) \in Seq(Nat) /\ Len(Parent(n)) = Len(q) /\ Len(q) \in Nat
  BY <1>1, <1>2, <1>3, <1>4
<1>6. \A k \in 1..Len(q) : Parent(n)[k] = q[k]
  BY <1>2, <1>3, <1>5, PrefixByPlace DEF Below, IsStrictPrefix
<1> QED BY <1>3, <1>5, <1>6, SeqEqual

(* The number of the siblings before a node is its slot. *)
LEMMA OrdinalIsSlot ==
  ASSUME NEW T \in Trees, NEW q \in Seq(Nat), NEW i \in Nat, Append(q, i) \in DOMAIN T
  PROVE  i >= 1 /\ Ordinal({d \in DOMAIN T : d # Root /\ Parent(d) = q}, Append(q, i)) = i - 1
<1> DEFINE n == Append(q, i)
           C == {d \in DOMAIN T : d # Root /\ Parent(d) = q}
           E == {d \in C : Before(d, n)}
           f == [j \in 1..(i - 1) |-> Append(q, j)]
<1>1. n \in Seq(Nat) /\ n # Root /\ DOMAIN T \subseteq Seq(Nat)
  BY TreeAssumption DEF Root
<1>2. Slot(n) = i /\ Parent(n) = q
  BY DEF Slot, Parent, Last, Front
<1>3. i >= 1 /\ \A j \in 1..i : Append(q, j) \in DOMAIN T
  BY <1>1, <1>2, SlotAssumption
<1>4. ASSUME NEW d \in E PROVE \E j \in 1..(i - 1) : d = Append(q, j)
  <2>1. d \in DOMAIN T /\ d \in Seq(Nat) /\ d # Root /\ Parent(d) = q /\ Before(d, n)
    BY <1>1
  <2>2. Slot(d) \in Nat /\ d = Append(q, Slot(d))
    BY <2>1, ChildOfParent
  <2>3. Slot(d) < i
    BY <2>1, <2>2, SiblingOrder
  <2>4. Slot(d) >= 1
    BY <2>1, SlotAssumption
  <2> QED BY <2>2, <2>3, <2>4
<1>5. ASSUME NEW j \in 1..(i - 1) PROVE Append(q, j) \in E
  <2>1. j \in Nat /\ j < i /\ j \in 1..i
    OBVIOUS
  <2>2. Append(q, j) \in DOMAIN T /\ Append(q, j) # Root
    BY <1>3, <2>1 DEF Root
  <2>3. Parent(Append(q, j)) = q
    BY <2>1 DEF Parent, Front
  <2>4. Before(Append(q, j), n)
    BY <2>1, SiblingOrder
  <2> QED BY <2>2, <2>3, <2>4
<1>6. f \in Surjection(1..(i - 1), E)
  BY <1>4, <1>5 DEF Surjection
<1>7. f \in Injection(1..(i - 1), E)
  <2>1. \A j, k \in 1..(i - 1) : Append(q, j) = Append(q, k) => j = k
    <3> SUFFICES ASSUME NEW j \in 1..(i - 1), NEW k \in 1..(i - 1), Append(q, j) = Append(q, k)
                 PROVE  j = k
      OBVIOUS
    <3>1. Append(q, j)[Len(q) + 1] = j /\ Append(q, k)[Len(q) + 1] = k
      OBVIOUS
    <3> QED BY <3>1
  <2> QED BY <1>5, <2>1 DEF Injection, IsInjective
<1>8. IsFiniteSet(1..(i - 1)) /\ Cardinality(1..(i - 1)) = i - 1
  BY <1>3, FS_Interval
<1> HIDE DEF f, E
<1>9. Cardinality(E) = i - 1
  BY <1>6, <1>7, <1>8, FS_Surjection
<1> QED BY <1>3, <1>9 DEF E, Ordinal

(* What an empty script leaves of a matching is the identity. *)
LEMMA EmptyMatchesAll ==
  ASSUME Inputs, Matching(pairs), EmptyScript
  PROVE  /\ \A n \in DOMAIN O : \E m \in DOMAIN N : <<n, m>> \in pairs
         /\ \A m \in DOMAIN N : \E n \in DOMAIN O : <<n, m>> \in pairs
<1>1. UnmatchedOld = {}
  BY GoneIsShown DEF EmptyScript, Subtrees, MatchedOld
<1>2. UnmatchedNew = {}
  BY CameIsShown DEF EmptyScript, Subtrees, MatchedNew
<1>3. pairs \in SUBSET ((DOMAIN O) \X (DOMAIN N))
  BY DEF Matching, OldNode, NewNode
<1>4. ASSUME NEW n \in DOMAIN O PROVE \E m \in DOMAIN N : <<n, m>> \in pairs
  <2>1. PICK p \in pairs : p[1] = n
    BY <1>1, <1>4 DEF UnmatchedOld, FreeOld, MatchedOld, OldNode
  <2> QED BY <1>3, <2>1
<1>5. ASSUME NEW m \in DOMAIN N PROVE \E n \in DOMAIN O : <<n, m>> \in pairs
  <2>1. PICK p \in pairs : p[2] = m
    BY <1>2, <1>5 DEF UnmatchedNew, FreeNew, MatchedNew, NewNode
  <2> QED BY <1>3, <2>1
<1> QED BY <1>4, <1>5

LEMMA EmptyKeepsParents ==
  ASSUME Inputs, Matching(pairs), EmptyScript, Undecorated
  PROVE  /\ <<Root, Root>> \in pairs
         /\ \A n \in DOMAIN O, m \in DOMAIN N :
              <<n, m>> \in pairs /\ (n # Root \/ m # Root) =>
                n # Root /\ m # Root /\ <<Parent(n), Parent(m)>> \in pairs
<1>1. \A n \in DOMAIN O, m \in DOMAIN N : <<n, m>> \in pairs => O[n].type = N[m].type
  BY DEF Matching
<1>2. <<Root, Root>> \in pairs
  <2>1. Root \in DOMAIN O /\ Root \in DOMAIN N
    BY TreeAssumption DEF Inputs
  <2>2. PICK m \in DOMAIN N : <<Root, m>> \in pairs
    BY <2>1, EmptyMatchesAll
  <2>3. N[m].type = N[Root].type
    BY <1>1, <2>1, <2>2, RootAssumption DEF Inputs
  <2> QED BY <2>1, <2>2, <2>3, RootAssumption DEF Inputs
<1>3. \A m \in DOMAIN N : N[m].type # Wrapper
  BY <1>1, EmptyMatchesAll DEF Undecorated, OldNode
<1>4. ASSUME NEW n \in DOMAIN O, NEW m \in DOMAIN N, <<n, m>> \in pairs, n # Root \/ m # Root
      PROVE  n # Root /\ m # Root /\ <<Parent(n), Parent(m)>> \in pairs
  <2>1. n # Root /\ m # Root
    BY <1>2, <1>4 DEF Matching
  <2>2. SameContainer(<<n, m>>) \/ SameEffectiveParent(<<n, m>>)
    BY <1>4, <2>1 DEF EmptyScript, Moves, Inner
  <2>3. CASE SameEffectiveParent(<<n, m>>)
    BY <1>3, <2>1, <2>3, EffectiveParentIsParent
    DEF SameEffectiveParent, Inputs, Undecorated, OldNode
  <2> QED BY <2>1, <2>2, <2>3 DEF SameContainer
<1> QED BY <1>2, <1>4

LEMMA EmptyIsIdentity ==
  ASSUME Inputs, Matching(pairs), EmptyScript, Undecorated, NEW a \in DOMAIN O
  PROVE  <<a, a>> \in pairs
<1> DEFINE S == {n \in DOMAIN O : <<n, n>> \notin pairs}
<1> SUFFICES ASSUME S # {} PROVE FALSE
  OBVIOUS
<1>0. O \in Trees /\ N \in Trees /\ DOMAIN O \subseteq Seq(Nat) /\ DOMAIN N \subseteq Seq(Nat)
  BY TreeAssumption DEF Inputs
<1>1. PICK n \in S : \A k \in S : Len(n) <= Len(k)
  BY <1>0, Highest
<1>2. n \in DOMAIN O /\ n \in Seq(Nat) /\ <<n, n>> \notin pairs /\ n # Root
  BY <1>0, EmptyKeepsParents
<1>3. PICK m \in DOMAIN N : <<n, m>> \in pairs
  BY <1>2, EmptyMatchesAll
<1> DEFINE q == Parent(n)
<1>4. m \in Seq(Nat) /\ m # Root /\ <<q, Parent(m)>> \in pairs
  BY <1>0, <1>2, <1>3, EmptyKeepsParents
<1>5. q \in DOMAIN O /\ q \in Seq(Nat) /\ Len(n) = Len(q) + 1
  BY <1>0, <1>2, BelowParent, SlotAssumption
<1>6. <<q, q>> \in pairs
  <2>1. ~ (Len(n) <= Len(q))
    BY <1>5
  <2> QED BY <1>1, <1>5, <2>1
<1>7. Parent(m) = q
  BY <1>4, <1>6 DEF Matching
<1>8. \A c \in DOMAIN O, d \in DOMAIN N : <<c, d>> \in pairs /\ (c # Root \/ d # Root) =>
        c # Root /\ d # Root /\ (Parent(c) = q <=> Parent(d) = q)
  <2> HIDE DEF q
  <2> SUFFICES ASSUME NEW c \in DOMAIN O, NEW d \in DOMAIN N,
                      <<c, d>> \in pairs, c # Root \/ d # Root
               PROVE  c # Root /\ d # Root /\ (Parent(c) = q <=> Parent(d) = q)
    OBVIOUS
  <2>1. c # Root /\ d # Root /\ <<Parent(c), Parent(d)>> \in pairs
    BY EmptyKeepsParents
  <2>2. \A p, r \in pairs : p[1] = r[1] <=> p[2] = r[2]
    BY DEF Matching
  <2>3. <<Parent(c), Parent(d)>>[1] = <<q, q>>[1] <=> <<Parent(c), Parent(d)>>[2] = <<q, q>>[2]
    BY <1>6, <2>1, <2>2
  <2> QED BY <2>1, <2>3
<1> DEFINE C == {c \in DOMAIN O : c # Root /\ Parent(c) = q}
           D == {d \in DOMAIN N : d # Root /\ Parent(d) = q}
           R == Surviving(<<n, m>>)
<1>9. \A r \in pairs : r = <<r[1], r[2]>> /\ r[1] \in DOMAIN O /\ r[2] \in DOMAIN N
  BY DEF Matching, OldNode, NewNode
<1>10. {r[1] : r \in R} = C
  <2>1. \A r \in R : r[1] \in C
    BY <1>9 DEF Surviving, Inner
  <2>2. ASSUME NEW c \in C PROVE \E r \in R : r[1] = c
    <3>1. PICK d \in DOMAIN N : <<c, d>> \in pairs
      BY EmptyMatchesAll
    <3>2. <<c, d>> \in R
      BY <1>7, <1>8, <3>1 DEF Surviving, Inner
    <3> QED BY <3>2
  <2> QED BY <2>1, <2>2
<1>11. {r[2] : r \in R} = D
  <2>1. \A r \in R : r[2] \in D
    BY <1>7, <1>9 DEF Surviving, Inner
  <2>2. ASSUME NEW d \in D PROVE \E r \in R : r[2] = d
    <3>1. PICK c \in DOMAIN O : <<c, d>> \in pairs
      BY EmptyMatchesAll
    <3>2. <<c, d>> \in R
      BY <1>7, <1>8, <3>1 DEF Surviving, Inner
    <3> QED BY <3>2
  <2> QED BY <2>1, <2>2
<1>12. Ordinal(C, n) = Ordinal(D, m)
  <2>1. MovedOld = {} /\ MovedNew = {}
    BY DEF EmptyScript, MovedOld, MovedNew
  <2>2. Inner(<<n, m>>) /\ SameContainer(<<n, m>>)
    BY <1>2, <1>4 DEF Inner, SameContainer
  <2>3. <<n, m>> \notin Reorders
    BY DEF EmptyScript
  <2>4. Ordinal({r[1] : r \in R}, n) = Ordinal({r[2] : r \in R}, m)
    BY <1>3, <2>1, <2>2, <2>3 DEF Reorders
  <2> HIDE DEF R, C, D
  <2> QED BY <1>10, <1>11, <2>4
<1>13. /\ Slot(n) \in Nat /\ n = Append(q, Slot(n))
       /\ Slot(m) \in Nat /\ m = Append(q, Slot(m))
  BY <1>2, <1>4, <1>7, ChildOfParent
<1>14. Slot(n) - 1 = Slot(m) - 1
  <2>1. Append(q, Slot(n)) \in DOMAIN O /\ Append(q, Slot(m)) \in DOMAIN N
    BY <1>2, <1>3, <1>13
  <2>2. /\ Ordinal(C, Append(q, Slot(n))) = Slot(n) - 1
        /\ Ordinal(D, Append(q, Slot(m))) = Slot(m) - 1
    <3>1. q \in Seq(Nat) /\ Slot(n) \in Nat /\ Slot(m) \in Nat
      BY <1>5, <1>13, Zenon
    <3>2. Ordinal(C, Append(q, Slot(n))) = Slot(n) - 1
      BY <1>0, <2>1, <3>1, OrdinalIsSlot, Zenon
    <3>3. Ordinal(D, Append(q, Slot(m))) = Slot(m) - 1
      BY <1>0, <2>1, <3>1, OrdinalIsSlot, Zenon
    <3> QED BY <3>2, <3>3
  <2> HIDE DEF C, D
  <2>3. Ordinal(C, n) = Slot(n) - 1 /\ Ordinal(D, m) = Slot(m) - 1
    BY <1>13, <2>2, Zenon
  <2> QED BY <1>12, <2>3, Zenon
<1>15. n = m
  BY <1>13, <1>14
<1> QED BY <1>2, <1>3, <1>15

(* For any two trees without wrappers: if no edit is left, before anything  *)
(* is suppressed, the trees are equal.                                      *)
THEOREM UndecoratedDeltaIsNeverEmpty == Spec => [](Undecorated => DeltaIsNeverEmpty)
<1>1. IInv => (Undecorated => DeltaIsNeverEmpty)
  <2> SUFFICES ASSUME IInv, Undecorated, EmptyScript PROVE SameTrees
    BY DEF DeltaIsNeverEmpty
  <2>1. Inputs /\ Matching(pairs)
    BY Hypotheses
  <2>2. pairs \in SUBSET ((DOMAIN O) \X (DOMAIN N))
    BY <2>1 DEF Matching, OldNode, NewNode
  <2>3. \A n \in DOMAIN O : <<n, n>> \in pairs
    BY <2>1, EmptyIsIdentity
  <2>4. DOMAIN O = DOMAIN N
    <3>1. \A n \in DOMAIN O : n \in DOMAIN N
      BY <2>2, <2>3
    <3>2. ASSUME NEW m \in DOMAIN N PROVE m \in DOMAIN O
      <4>1. PICK n \in DOMAIN O : <<n, m>> \in pairs
        BY <2>1, EmptyMatchesAll
      <4>2. n = m
        BY <2>1, <2>3, <4>1 DEF Matching
      <4> QED BY <4>2
    <3> QED BY <3>1, <3>2
  <2>5. \A n \in DOMAIN O : O[n].type = N[n].type
    BY <2>1, <2>3 DEF Matching
  <2>6. \A n \in DOMAIN O : O[n].label = N[n].label
    <3>1. \A p \in pairs : O[p[1]].label = N[p[2]].label
      BY DEF EmptyScript, Updates
    <3> QED BY <2>3, <3>1
  <2> QED BY <2>1, <2>4, <2>5, <2>6, DigestAssumption DEF Inputs, SameTrees
<1> QED BY <1>1, InitIInv, StepIInv, PTL DEF Spec

-----------------------------------------------------------------------------
(****************************************************************************)
(* Equal trees.  Each phase pairs nodes with themselves, the root at the    *)
(* latest when the subtrees are compared, and with it all there is.         *)
(****************************************************************************)
Alike ==
  /\ DOMAIN O = DOMAIN N
  /\ \A n \in DOMAIN O :
       O[n].type = N[n].type /\ O[n].label = N[n].label /\ SameHash(O, n, N, n)

LEMMA SameTreesAreAlike ==
  ASSUME Inputs, SameTrees
  PROVE  Alike
BY DigestAssumption DEF Inputs, SameTrees, Alike

LEMMA NothingAboveRoot ==
  ASSUME NEW n \in Seq(Nat)
  PROVE  ~Below(Root, n) /\ ~Before(n, Root)
BY EmptySeq DEF Below, Before, IsStrictPrefix, IsPrefix, Root

LEMMA AllBelowRoot ==
  ASSUME NEW n \in Seq(Nat), n # Root
  PROVE  Below(n, Root)
<1>1. Root \in Seq(Nat) /\ Len(Root) = 0 /\ Len(n) \in Nat
  BY DEF Root
<1>2. Len(Root) <= Len(n) /\ \A k \in 1..Len(Root) : Root[k] = n[k]
  BY <1>1
<1>3. IsPrefix(Root, n)
  BY <1>1, <1>2, PrefixByPlace, Zenon
<1> QED BY <1>3 DEF Below, IsStrictPrefix

LEMMA RootIsFirst ==
  ASSUME NEW S \in SUBSET Seq(Nat), Root \in S, NEW n \in First(S)
  PROVE  n = Root
BY NothingAboveRoot DEF First

(* Preorder has no cycle of two. *)
LEMMA BeforeIsOneWay ==
  ASSUME NEW a \in Seq(Nat), NEW b \in Seq(Nat), Before(a, b), Before(b, a)
  PROVE  FALSE
<1> DEFINE Less(s, t, i) ==
             /\ i \in DOMAIN s \cap DOMAIN t
             /\ s[i] < t[i] /\ \A j \in 1..(i - 1) : s[j] = t[j]
<1>1. /\ DOMAIN a = 1..Len(a) /\ Len(a) \in Nat /\ \A i \in DOMAIN a : a[i] \in Nat
      /\ DOMAIN b = 1..Len(b) /\ Len(b) \in Nat /\ \A i \in DOMAIN b : b[i] \in Nat
  BY LenProperties, ElementOfSeq
<1>2. ASSUME NEW s \in {a, b}, NEW t \in {a, b}, IsStrictPrefix(s, t)
      PROVE  Len(s) < Len(t) /\ \A k \in 1..Len(s) : s[k] = t[k]
  <2>1. s \in Seq(Nat) /\ t \in Seq(Nat) /\ Below(t, s)
    BY <1>2 DEF Below
  <2> QED BY <2>1, BelowShorter, PrefixByPlace DEF Below, IsStrictPrefix
<1>3. ASSUME NEW s \in {a, b}, NEW t \in {a, b}, IsStrictPrefix(s, t),
             NEW i, Less(s, t, i) \/ Less(t, s, i)
      PROVE  FALSE
  <2>1. i \in 1..Len(s) /\ i \in DOMAIN s /\ s[i] # t[i]
    BY <1>1, <1>3
  <2> QED BY <1>2, <1>3, <2>1
<1>4. ASSUME NEW i, Less(a, b, i), NEW j, Less(b, a, j) PROVE FALSE
  <2>1. i \in Nat /\ j \in Nat /\ i >= 1 /\ j >= 1
    BY <1>1, <1>4
  <2>2. CASE i < j
    <3>1. i \in 1..(j - 1)
      BY <2>1, <2>2
    <3> QED BY <1>1, <1>4, <3>1
  <2>3. CASE j < i
    <3>1. j \in 1..(i - 1)
      BY <2>1, <2>3
    <3> QED BY <1>1, <1>4, <3>1
  <2>4. CASE i = j
    BY <1>1, <1>4, <2>4
  <2> QED BY <2>1, <2>2, <2>3, <2>4
<1>5. CASE IsStrictPrefix(a, b) /\ IsStrictPrefix(b, a)
  BY <1>1, <1>2, <1>5
<1>6. \A s, t : Before(s, t) <=> IsStrictPrefix(s, t) \/ \E i : Less(s, t, i)
  BY DEF Before
<1> HIDE DEF Less
<1> QED BY <1>3, <1>4, <1>5, <1>6

(* What comes before all others is one node. *)
LEMMA FirstIsOne ==
  ASSUME NEW S \in SUBSET Seq(Nat), NEW a \in First(S), NEW b \in First(S)
  PROVE  a = b
BY BeforeIsOneWay DEF First

(* Two nodes above one and at one depth are one. *)
LEMMA InnermostIsOne ==
  ASSUME NEW T \in Trees, NEW n \in DOMAIN T, NEW S \in SUBSET Ancestors(T, n),
         NEW a \in Innermost(S), NEW b \in Innermost(S)
  PROVE  a = b
<1>1. /\ a \in Seq(Nat) /\ b \in Seq(Nat) /\ n \in Seq(Nat)
      /\ Below(n, a) /\ Below(n, b)
  BY TreeAssumption DEF Innermost, Ancestors
<1>2. Len(a) \in Nat /\ Len(b) \in Nat /\ Len(a) <= Len(b) /\ Len(b) <= Len(a)
  BY <1>1 DEF Innermost
<1>3. /\ \A k \in 1..Len(a) : a[k] = n[k]
      /\ \A k \in 1..Len(b) : b[k] = n[k]
  BY <1>1, PrefixByPlace DEF Below, IsStrictPrefix
<1>4. Len(a) = Len(b) /\ \A k \in 1..Len(a) : a[k] = b[k]
  BY <1>2, <1>3
<1> QED BY <1>1, <1>4, SeqEqual

(* What the gates look at is the same in both trees. *)
LEMMA AlikeAround ==
  ASSUME Alike
  PROVE  /\ OldNode = NewNode
         /\ \A n : /\ Descendants(O, n) = Descendants(N, n)
                  /\ Ancestors(O, n) = Ancestors(N, n)
                  /\ Operators(O, n) = Operators(N, n)
                  /\ EffectiveParent(O, n) = EffectiveParent(N, n)
                  /\ EnclosingStatement(O, n) = EnclosingStatement(N, n)
                  /\ OperatorAnchor(O, n) = OperatorAnchor(N, n)
<1>1. OldNode = NewNode /\ \A m \in DOMAIN O : O[m].type = N[m].type /\ O[m].label = N[m].label
  BY DEF Alike, OldNode, NewNode
<1>2. ASSUME NEW n
      PROVE  /\ Descendants(O, n) = Descendants(N, n)
             /\ Ancestors(O, n) = Ancestors(N, n)
             /\ Operators(O, n) = Operators(N, n)
  BY <1>1 DEF Descendants, Ancestors, Operators, Children, IsOperator, OldNode, NewNode
<1>3. ASSUME NEW n
      PROVE  /\ {m \in Ancestors(O, n) : O[m].type # Wrapper}
                  = {m \in Ancestors(N, n) : N[m].type # Wrapper}
             /\ {m \in Ancestors(O, n) : O[m].type \in Statement}
                  = {m \in Ancestors(N, n) : N[m].type \in Statement}
             /\ {m \in Ancestors(O, n) : IsNamedEntity(O[m])}
                  = {m \in Ancestors(N, n) : IsNamedEntity(N[m])}
             /\ {m \in Ancestors(O, n) : O[m].label # O[m].type}
                  = {m \in Ancestors(N, n) : N[m].label # N[m].type}
  <2>1. Ancestors(O, n) = Ancestors(N, n) /\ Ancestors(O, n) \subseteq DOMAIN O
    BY <1>2 DEF Ancestors
  <2> QED BY <1>1, <2>1 DEF IsNamedEntity
<1>4. ASSUME NEW n
      PROVE  /\ EffectiveParent(O, n) = EffectiveParent(N, n)
             /\ EnclosingStatement(O, n) = EnclosingStatement(N, n)
             /\ EnclosingEntity(O, n) = EnclosingEntity(N, n)
             /\ OperatorAnchor(O, n) = OperatorAnchor(N, n)
  BY <1>3, Zenon DEF EffectiveParent, EnclosingStatement, EnclosingEntity, OperatorAnchor
<1> QED BY <1>1, <1>2, <1>4, Zenon

-----------------------------------------------------------------------------
(* Which pairs there are. *)
Diagonal(M) == \A p \in M : p[1] = p[2]
Full(M) == \A n \in OldNode : <<n, n>> \in M
FullButOperators(M) == \A n \in OldNode : ~IsOperator(O[n]) => <<n, n>> \in M

(* The comparison of subtrees comes to the root. *)
Tall == O[Root].height >= MinHeight

(* What is paired when a phase is at this point of its loop. *)
ReachedAt(at, left, M) ==
  /\ at = "entities" => \A n \in left : IsNamedEntity(O[n])
  /\ at \in {"entities", "renames"} =>
       \A n \in OldNode : IsNamedEntity(O[n]) => n \in left \cup MatchedOld(M)
  /\ at \in {"entities", "renames", "topdown"} => (Root \in MatchedOld(M) => Full(M))
  /\ at = "topdown" => Root \in left \cup MatchedOld(M)
  /\ at \in {"root", "labels", "operators", "matched"} => Full(M)
  /\ at \in {"bottomup", "statements", "entityops", "bind"} => left = {} /\ FullButOperators(M)

Reached == Diagonal(pairs) /\ ReachedAt(phase, todo, pairs)

Settled == SameTrees /\ Tall => Reached

(* A step that pairs so much has reached the point it goes to. *)
LEMMA Handed ==
  ASSUME NEW at, NEW left, NEW M, Diagonal(M), ReachedAt(at, left, M),
         phase' = at, todo' = left, pairs' = M, O' = O
  PROVE  Reached'
BY DEF Reached, ReachedAt, Full, FullButOperators, OldNode, Diagonal

(* A set of nodes that is paired is not free, in either tree. *)
LEMMA DiagonalFree ==
  ASSUME Inputs, Alike, NEW M, M \in SUBSET (OldNode \X NewNode), Diagonal(M)
  PROVE  /\ MatchedOld(M) = MatchedNew(M) /\ FreeOld(M) = FreeNew(M)
         /\ \A n \in MatchedOld(M) : <<n, n>> \in M
<1>1. \A p \in M : p = <<p[1], p[2]>> /\ p[1] = p[2]
  BY DEF Diagonal
<1>2. OldNode = NewNode
  BY AlikeAround
<1> QED BY <1>1, <1>2 DEF MatchedOld, MatchedNew, FreeOld, FreeNew

(* Where every node is paired, a loop finds none. *)
LEMMA NothingLeft ==
  ASSUME NEW M, Full(M)
  PROVE  /\ OldNode \subseteq MatchedOld(M) /\ FreeOld(M) = {}
         /\ \A L : M \subseteq L => Full(L)
<1>1. ASSUME NEW n \in OldNode PROVE n \in MatchedOld(M)
  <2>1. <<n, n>> \in M /\ <<n, n>>[1] = n
    BY DEF Full
  <2> QED BY <2>1 DEF MatchedOld
<1> QED BY <1>1 DEF Full, FreeOld

(* Two copies of one subtree walked in step. *)
LEMMA SeededDiagonal ==
  ASSUME Inputs, Alike, NEW M, M \in SUBSET (OldNode \X NewNode), Diagonal(M),
         NEW o \in OldNode
  PROVE  Diagonal(Seeded(M, o, o)) /\ (o = Root => Full(Seeded(M, o, o)))
<1>1. \A n \in OldNode : n \in Seq(Nat)
  BY NodesAreSequences
<1>2. OldNode = NewNode /\ Descendants(O, o) = Descendants(N, o)
  BY AlikeAround
<1>3. ASSUME NEW p \in Seeded(M, o, o) PROVE p[1] = p[2]
  <2>1. CASE p \in M
    BY <2>1 DEF Diagonal
  <2>2. CASE p = <<o, o>>
    BY <2>2
  <2>3. CASE /\ p \in Descendants(O, o) \X Descendants(N, o)
             /\ From(p[1], o) = From(p[2], o)
    <3>1. /\ p[1] \in OldNode /\ p[2] \in OldNode
          /\ Below(p[1], o) /\ Below(p[2], o)
      BY <1>2, <2>3 DEF Descendants, OldNode
    <3> QED BY <1>1, <2>3, <3>1, SamePlace
  <2> QED BY <2>1, <2>2, <2>3 DEF Seeded
<1>4. ASSUME o = Root, NEW n \in OldNode PROVE <<n, n>> \in Seeded(M, o, o)
  <2>1. CASE n = Root
    BY <1>4, <2>1 DEF Seeded
  <2>2. CASE n \in MatchedOld(M)
    BY <2>2, DiagonalFree DEF Seeded
  <2>3. CASE n # Root /\ n \notin MatchedOld(M)
    <3>1. Below(n, Root)
      BY <1>1, <2>3, AllBelowRoot
    <3>2. n \in Descendants(O, o) /\ n \in Descendants(N, o)
      BY <1>2, <1>4, <3>1 DEF Descendants, OldNode
    <3>3. n \in FreeOld(M) /\ n \in FreeNew(M)
      BY <2>3, DiagonalFree DEF FreeOld
    <3>4. O[n].type = N[n].type
      BY DEF Alike, OldNode
    <3> DEFINE p == <<n, n>>
    <3>5. /\ p \in Descendants(O, o) \X Descendants(N, o)
          /\ p[1] = n /\ p[2] = n
      BY <3>2
    <3>6. /\ From(p[1], o) = From(p[2], o)
          /\ p[1] \in FreeOld(M) /\ p[2] \in FreeNew(M)
          /\ O[p[1]].type = N[p[2]].type
      BY <3>3, <3>4, <3>5
    <3> HIDE DEF p
    <3>7. p \in Seeded(M, o, o)
      BY <3>5, <3>6 DEF Seeded
    <3> QED BY <3>7 DEF p
  <2> QED BY <2>1, <2>2, <2>3
<1> QED BY <1>3, <1>4 DEF Diagonal, Full

(* Equal entities are paired by their id. *)
LEMMA OwnEntity ==
  ASSUME Inputs, Alike, Matching(pairs), Diagonal(pairs),
         NEW o \in FreeOld(pairs), IsNamedEntity(O[o])
  PROVE  ClosestEntity(o) = {o}
<1>1. /\ o \in OldNode /\ o \in FreeNew(pairs) /\ O \in Trees
      /\ N[o].type = O[o].type /\ N[o].label = O[o].label
      /\ \A p \in DOMAIN O : O[p].type = N[p].type /\ O[p].label = N[p].label
  BY DiagonalFree DEF Matching, FreeOld, Alike, OldNode, Inputs
<1>2. ParentCompatible(o, o)
  <2> SUFFICES ASSUME NEW p \in EffectiveParent(O, o), NEW q \in EffectiveParent(N, o)
               PROVE  O[p].type = N[q].type /\ O[p].label = N[q].label
    BY Zenon DEF ParentCompatible
  <2> DEFINE S == {m \in Ancestors(O, o) : O[m].type # Wrapper}
  <2>1. p \in Innermost(S) /\ q \in Innermost(S)
    BY AlikeAround DEF EffectiveParent
  <2>2. S \in SUBSET Ancestors(O, o) /\ p \in DOMAIN O
    BY <2>1 DEF Innermost, Ancestors
  <2> HIDE DEF S
  <2>3. p = q
    BY <1>1, <2>1, <2>2, InnermostIsOne DEF OldNode
  <2> QED BY <1>1, <2>2, <2>3
<1> DEFINE open == {n \in FreeNew(pairs) :
                      /\ IsNamedEntity(N[n]) /\ N[n].type = O[o].type
                      /\ ParentCompatible(o, n)}
<1>3. {n \in open : n = o /\ N[n].label = O[o].label} = {o}
  BY <1>1, <1>2 DEF IsNamedEntity
<1>4. EntityFits(o) = {o}
  BY <1>3 DEF EntityFits
<1> QED BY <1>4 DEF ClosestEntity

LEMMA MatchEntitySettles ==
  ASSUME IInv, Alike, Reached, MatchEntity
  PROVE  Reached'
<1>1. /\ Inputs /\ Matching(pairs) /\ Diagonal(pairs) /\ todo \in SUBSET FreeOld(pairs)
      /\ pairs \in SUBSET (OldNode \X NewNode)
      /\ phase = "entities"
      /\ \A n \in todo : IsNamedEntity(O[n])
      /\ \A n \in OldNode : IsNamedEntity(O[n]) => n \in todo \cup MatchedOld(pairs)
      /\ Root \in MatchedOld(pairs) => Full(pairs)
  BY Hypotheses DEF Matching, MatchEntity, Reached, ReachedAt
<1>2. PICK o \in todo :
        LET closest == ClosestEntity(o)
        IN \/ \E n \in closest :
                Visit(o, IF SameHash(O, o, N, n) THEN Seeded(pairs, o, n)
                                                 ELSE pairs \cup {<<o, n>>})
           \/ closest = {} /\ Visit(o, pairs)
  BY Chosen DEF MatchEntity
<1>3. /\ o \in OldNode /\ SameHash(O, o, N, o)
      /\ ClosestEntity(o) = {o}
  <2>1. o \in FreeOld(pairs) /\ o \in OldNode /\ IsNamedEntity(O[o])
    BY <1>1 DEF FreeOld
  <2> QED BY <1>1, <2>1, OwnEntity DEF Alike, OldNode
<1>4. Visit(o, Seeded(pairs, o, o))
  BY <1>2, <1>3
<1> DEFINE M == Seeded(pairs, o, o)
<1>5. Diagonal(M) /\ (o = Root => Full(M))
  BY <1>1, <1>3, SeededDiagonal
<1>6. pairs \subseteq M /\ o \in MatchedOld(M)
  <2>1. <<o, o>> \in M /\ pairs \subseteq M
    BY DEF Seeded
  <2> QED BY <2>1 DEF MatchedOld
<1>7. Root \in MatchedOld(M) => Root \in MatchedOld(pairs) \/ o = Root
  <2>1. \A n \in OldNode : n \in Seq(Nat)
    BY <1>1, NodesAreSequences
  <2>2. \A d \in Descendants(O, o) : d # Root
    BY <1>3, <2>1, NothingAboveRoot DEF Descendants
  <2> QED BY <2>2 DEF MatchedOld, Seeded
<1> HIDE DEF M
<1> DEFINE left == (todo \ {o}) \ MatchedOld(M)
<1>8. ReachedAt("entities", left, M)
  <2>1. Root \in MatchedOld(M) => Full(M)
    BY <1>1, <1>5, <1>6, <1>7, NothingLeft
  <2>2. MatchedOld(pairs) \subseteq MatchedOld(M)
    BY <1>6 DEF MatchedOld
  <2> QED BY <1>1, <1>6, <2>1, <2>2 DEF ReachedAt
<1>9. /\ pairs' = M /\ todo' = left /\ phase' = "entities" /\ O' = O
  BY <1>1, <1>4 DEF Visit, M
<1> HIDE DEF left
<1> QED BY <1>5, <1>8, <1>9, Handed

(* No function is left to be renamed. *)
LEMMA SeedRenamesSettles ==
  ASSUME IInv, Alike, Tall, Reached, SeedRenames
  PROVE  Reached'
<1>1. /\ Inputs /\ Diagonal(pairs) /\ phase = "renames" /\ todo = {}
      /\ \A n \in OldNode : IsNamedEntity(O[n]) => n \in todo \cup MatchedOld(pairs)
      /\ Root \in MatchedOld(pairs) => Full(pairs)
  BY DEF IInv, TypeOK, SeedRenames, Reached, ReachedAt
<1>2. \A n \in FreeOld(pairs) : O[n].type \notin FunctionLike
  BY <1>1 DEF FreeOld, IsNamedEntity, FunctionLike, NamedEntity
<1>3. Renames = {}
  BY <1>2 DEF Renames, RenameCandidates
<1> DEFINE left == {n \in FreeOld(pairs) : O[n].height >= MinHeight}
<1>4. phase' = "topdown" /\ todo' = left /\ pairs' = pairs /\ O' = O
  BY <1>3 DEF SeedRenames, Enter
<1>5. Root \in left \cup MatchedOld(pairs)
  BY <1>1, TreeAssumption DEF FreeOld, Tall, Inputs, OldNode
<1> HIDE DEF left
<1>6. ReachedAt("topdown", left, pairs)
  BY <1>1, <1>5 DEF ReachedAt
<1> QED BY <1>1, <1>4, <1>6, Handed

(* The root is the highest node, and no other one is its copy. *)
LEMMA MatchTopDownSettles ==
  ASSUME IInv, Alike, Reached, MatchTopDown
  PROVE  Reached'
<1>1. /\ Inputs /\ Diagonal(pairs) /\ phase = "topdown" /\ todo \in SUBSET FreeOld(pairs)
      /\ pairs \in SUBSET (OldNode \X NewNode)
      /\ Root \in MatchedOld(pairs) => Full(pairs)
      /\ Root \in todo \cup MatchedOld(pairs)
  BY Hypotheses DEF Matching, MatchTopDown, Reached, ReachedAt
<1>2. PICK o \in Tallest(todo) :
        LET copy == ClosestCopy(o)
        IN \/ \E n \in copy : Visit(o, Seeded(pairs, o, n))
           \/ copy = {} /\ Visit(o, pairs)
  BY DEF MatchTopDown
<1>3. Root \in todo /\ Root \in OldNode
  <2>1. o \in todo
    BY Chosen
  <2>2. ~Full(pairs)
    BY <1>1, <2>1, NothingLeft
  <2> QED BY <1>1, <2>2 DEF FreeOld
<1>4. o = Root
  <2> DEFINE S == {n \in todo : \A m \in todo : O[m].height <= O[n].height}
  <2>1. \A m \in todo : O[m].height <= O[Root].height
    BY <1>1, RootAssumption DEF Inputs, FreeOld, OldNode
  <2>2. Root \in S /\ S \in SUBSET Seq(Nat) /\ o \in First(S)
    BY <1>1, <1>3, <2>1, NodesAreSequences DEF Tallest, FreeOld
  <2> HIDE DEF S
  <2> QED BY <2>2, RootIsFirst
<1>5. ClosestCopy(Root) = {Root}
  <2>1. ASSUME NEW n \in FreeNew(pairs), SameHash(O, Root, N, n) PROVE n = Root
    <3>1. n \in DOMAIN N /\ Root \in DOMAIN O /\ O \in Trees /\ N \in Trees
      BY <1>1, <1>3 DEF FreeNew, NewNode, OldNode, Inputs
    <3>2. N[n].type = N[Root].type
      BY <2>1, <3>1, EqualNodes DEF Alike
    <3> QED BY <3>1, <3>2, RootAssumption
  <2>2. Root \in FreeNew(pairs) /\ SameHash(O, Root, N, Root)
    BY <1>1, <1>3, DiagonalFree DEF Alike, OldNode
  <2>3. {n \in FreeNew(pairs) : SameHash(O, Root, N, n)} = {Root}
    BY <2>1, <2>2
  <2> QED BY <2>3 DEF ClosestCopy
<1> DEFINE M == Seeded(pairs, Root, Root)
           left == (todo \ {Root}) \ MatchedOld(M)
<1>6. Visit(Root, M)
  BY <1>2, <1>4, <1>5
<1>7. Diagonal(M) /\ Full(M)
  BY <1>1, <1>3, SeededDiagonal
<1>8. phase' = "topdown" /\ todo' = left /\ pairs' = M /\ O' = O
  BY <1>1, <1>6 DEF Visit
<1> HIDE DEF M
<1>9. Root \in MatchedOld(M)
  <2>1. <<Root, Root>> \in M
    BY <1>3, <1>7 DEF Full
  <2> QED BY <2>1 DEF MatchedOld
<1> HIDE DEF left
<1>10. ReachedAt("topdown", left, M)
  BY <1>7, <1>9 DEF ReachedAt
<1> QED BY <1>7, <1>8, <1>10, Handed

(* The phases that have nothing to do. *)
LEMMA PassSettles ==
  ASSUME IInv, Alike, Reached,
         \/ EntitiesDone \/ TopDownDone \/ PairRoots \/ MatchLabel \/ LabelsDone
         \/ MatchBottomUp \/ BottomUpDone
  PROVE  Reached'
<1>1. Inputs /\ Diagonal(pairs) /\ ReachedAt(phase, todo, pairs) /\ todo \in SUBSET FreeOld(pairs)
  BY Hypotheses DEF Reached
<1>2. CASE EntitiesDone
  <2>1. phase = "entities" /\ todo = {} /\ phase' = "renames" /\ todo' = {}
        /\ pairs' = pairs /\ O' = O
    BY <1>2 DEF EntitiesDone, Enter
  <2>2. ReachedAt("renames", {}, pairs)
    BY <1>1, <2>1 DEF ReachedAt
  <2> QED BY <1>1, <2>1, <2>2, Handed
<1>3. CASE TopDownDone
  <2>1. phase = "topdown" /\ todo = {} /\ phase' = "root" /\ todo' = {}
        /\ pairs' = pairs /\ O' = O
    BY <1>3 DEF TopDownDone, Enter
  <2>2. ReachedAt("root", {}, pairs)
    BY <1>1, <2>1 DEF ReachedAt
  <2> QED BY <1>1, <2>1, <2>2, Handed
<1>4. CASE PairRoots
  <2>1. phase = "root" /\ Full(pairs)
    BY <1>1, <1>4 DEF PairRoots, ReachedAt
  <2>2. FreeOld(pairs) = {}
    BY <2>1, NothingLeft
  <2>3. phase' = "labels" /\ todo' = {} /\ pairs' = pairs /\ O' = O
    BY <1>4, <2>2 DEF PairRoots, Enter
  <2>4. ReachedAt("labels", {}, pairs)
    BY <2>1 DEF ReachedAt
  <2> QED BY <1>1, <2>3, <2>4, Handed
<1>5. CASE MatchLabel
  <2>1. phase = "labels" /\ todo # {}
    BY <1>5 DEF MatchLabel, First
  <2>2. Full(pairs)
    BY <1>1, <2>1 DEF ReachedAt
  <2> QED BY <1>1, <2>1, <2>2, NothingLeft
<1>6. CASE LabelsDone
  <2>1. phase = "labels" /\ phase' = "operators" /\ todo' = {} /\ pairs' = pairs /\ O' = O
    BY <1>6 DEF LabelsDone, Enter
  <2>2. ReachedAt("operators", {}, pairs)
    BY <1>1, <2>1 DEF ReachedAt
  <2> QED BY <1>1, <2>1, <2>2, Handed
<1>7. CASE MatchBottomUp
  <2>1. phase = "bottomup" /\ todo # {}
    BY <1>7 DEF MatchBottomUp, First
  <2> QED BY <1>1, <2>1 DEF ReachedAt
<1>8. CASE BottomUpDone
  <2>1. phase = "bottomup" /\ phase' = "statements" /\ todo' = {} /\ pairs' = pairs /\ O' = O
    BY <1>8 DEF BottomUpDone, Enter
  <2>2. ReachedAt("statements", {}, pairs)
    BY <1>1, <2>1 DEF ReachedAt
  <2> QED BY <1>1, <2>1, <2>2, Handed
<1> QED BY <1>2, <1>3, <1>4, <1>5, <1>6, <1>7, <1>8

(* Nothing is free but operators, and these are leaves. *)
LEMMA DropOperatorsSettles ==
  ASSUME IInv, Alike, Reached, DropOperators
  PROVE  Reached'
<1> DEFINE M == WithoutOperators(pairs)
           left == {n \in FreeOld(M) : ~IsLeaf(O, n)}
<1>1. /\ Inputs /\ Diagonal(pairs) /\ phase = "operators" /\ Full(pairs)
      /\ phase' = "bottomup" /\ todo' = left /\ pairs' = M /\ O' = O
  BY Hypotheses DEF DropOperators, Enter, Reached, ReachedAt
<1>2. Diagonal(M) /\ FullButOperators(M)
  <2>1. Diagonal(M)
    BY <1>1 DEF Diagonal, WithoutOperators
  <2>2. ASSUME NEW n \in OldNode, ~IsOperator(O[n]) PROVE <<n, n>> \in M
    <3>1. <<n, n>> \in pairs /\ ~IsOperator(N[n])
      BY <1>1, <2>2 DEF Full, Alike, OldNode, IsOperator
    <3> QED BY <2>2, <3>1 DEF WithoutOperators
  <2> QED BY <2>1, <2>2 DEF FullButOperators
<1> HIDE DEF M
<1>3. left = {}
  <2> SUFFICES ASSUME NEW n \in left PROVE FALSE
    OBVIOUS
  <2>1. n \in DOMAIN O /\ n \notin MatchedOld(M) /\ Append(n, 1) \in DOMAIN O
    BY DEF FreeOld, OldNode, IsLeaf
  <2>2. IsOperator(O[n])
    <3>1. ~IsOperator(O[n]) => <<n, n>> \in M /\ <<n, n>>[1] = n
      BY <1>2, <2>1 DEF FullButOperators, OldNode
    <3> QED BY <2>1, <3>1 DEF MatchedOld
  <2>3. Descendants(O, n) = {} /\ n \in Seq(Nat)
    BY <1>1, <2>1, <2>2, TreeAssumption DEF Inputs
  <2>4. Below(Append(n, 1), n)
    BY <2>3, AboveChild
  <2> QED BY <2>1, <2>3, <2>4 DEF Descendants
<1> HIDE DEF left
<1>4. ReachedAt("bottomup", left, M)
  BY <1>2, <1>3 DEF ReachedAt
<1> QED BY <1>1, <1>2, <1>4, Handed

(* No statement is incoherent with itself. *)
LEMMA PruneStatementsSettles ==
  ASSUME IInv, Alike, Reached, PruneStatements
  PROVE  Reached'
<1> DEFINE M == {p \in pairs : StatementCoherent(pairs, p)}
<1>1. /\ Inputs /\ Matching(pairs) /\ Diagonal(pairs) /\ phase = "statements"
      /\ FullButOperators(pairs)
      /\ phase' = "entityops" /\ todo' = {} /\ pairs' = M /\ O' = O
  BY Hypotheses DEF PruneStatements, Enter, Reached, ReachedAt
<1>2. \A p \in pairs : p[1] = p[2] /\ p[1] \in DOMAIN O
  BY <1>1 DEF Diagonal, Matching, OldNode
<1>3. Incoherent(pairs) = {}
  <2> SUFFICES ASSUME NEW n \in DOMAIN O,
                      NEW c \in FirstCallee(O, n), NEW d \in FirstCallee(N, n)
               PROVE  c = d
    BY <1>2 DEF Incoherent
  <2> DEFINE S == {m \in Descendants(O, n) \cup {n} : O[m].type \in CalleeName}
  <2>1. S \in SUBSET DOMAIN O /\ S \in SUBSET Seq(Nat)
    BY <1>1, TreeAssumption DEF Descendants, Inputs
  <2>2. {m \in Descendants(N, n) \cup {n} : N[m].type \in CalleeName} = S
    BY <2>1, AlikeAround DEF Alike, Descendants
  <2> HIDE DEF S
  <2>3. PICK a \in First(S) : c = O[a].label
    BY DEF FirstCallee, S
  <2>4. PICK b \in First(S) : d = N[b].label
    BY <2>2 DEF FirstCallee
  <2>5. a = b /\ a \in DOMAIN O
    BY <2>1, FirstIsOne DEF First
  <2> QED BY <2>3, <2>4, <2>5 DEF Alike
<1>4. ASSUME NEW p \in pairs PROVE StatementCoherent(pairs, p)
  <2> DEFINE S == EnclosingStatement(O, p[1])
  <2>1. EnclosingStatement(N, p[2]) = S
    BY <1>2, AlikeAround
  <2>2. ASSUME NEW e \in S PROVE <<e, e>> \in pairs
    <3>1. e \in OldNode /\ O[e].type \in Statement
      BY DEF EnclosingStatement, Innermost, Ancestors, OldNode
    <3> QED BY <1>1, <3>1 DEF FullButOperators, IsOperator, OperatorType, Statement
  <2> HIDE DEF S
  <2>3. S = {} \/ \E e, f \in S : <<e, f>> \in pairs
    BY <2>2
  <2> QED BY <1>3, <2>1, <2>3 DEF StatementCoherent, S
<1>5. M = pairs
  BY <1>4
<1> HIDE DEF M
<1>6. ReachedAt("entityops", {}, M)
  BY <1>1, <1>5 DEF ReachedAt
<1> QED BY <1>1, <1>5, <1>6, Handed

(* An operator is in one entity, in both trees. *)
LEMMA PruneOperatorsSettles ==
  ASSUME IInv, Alike, Reached, PruneOperators
  PROVE  Reached'
<1> DEFINE M == {p \in pairs : AnchoredAlike(pairs, p)}
<1>1. /\ Inputs /\ Matching(pairs) /\ Diagonal(pairs) /\ phase = "entityops"
      /\ FullButOperators(pairs)
      /\ phase' = "bind" /\ todo' = {} /\ pairs' = M /\ O' = O
  BY Hypotheses DEF PruneOperators, Enter, Reached, ReachedAt
<1>2. \A p \in pairs : p[1] = p[2] /\ p[1] \in DOMAIN O /\ O \in Trees
  BY <1>1 DEF Diagonal, Matching, OldNode, Inputs
<1>3. ASSUME NEW p \in pairs PROVE AnchoredAlike(pairs, p)
  <2> SUFFICES ASSUME NEW a \in OperatorAnchor(O, p[1]), NEW b \in OperatorAnchor(N, p[2]),
                      a \in MatchedOld(pairs)
               PROVE  <<a, b>> \in pairs
    BY DEF AnchoredAlike
  <2>1. b \in OperatorAnchor(O, p[1])
    BY <1>2, AlikeAround
  <2>2. a = b
    <3> DEFINE entities == {m \in Ancestors(O, p[1]) : IsNamedEntity(O[m])}
               named == {m \in Ancestors(O, p[1]) : O[m].label # O[m].type}
    <3>1. \/ OperatorAnchor(O, p[1]) = Innermost(entities)
          \/ OperatorAnchor(O, p[1]) = Innermost(named)
      BY DEF OperatorAnchor, EnclosingEntity
    <3>2. entities \in SUBSET Ancestors(O, p[1]) /\ named \in SUBSET Ancestors(O, p[1])
      OBVIOUS
    <3> HIDE DEF entities, named
    <3> QED BY <1>2, <2>1, <3>1, <3>2, InnermostIsOne
  <2>3. <<a, a>> \in pairs
    <3>1. Alike /\ pairs \in SUBSET (OldNode \X NewNode)
      BY <1>1 DEF Matching
    <3> QED BY <1>1, <3>1, DiagonalFree
  <2> QED BY <2>2, <2>3
<1>4. M = pairs
  BY <1>3
<1> HIDE DEF M
<1>5. ReachedAt("bind", {}, M)
  BY <1>1, <1>4 DEF ReachedAt
<1> QED BY <1>1, <1>4, <1>5, Handed

(* The operators come back, each to itself, as their parents are paired. *)
LEMMA BindOperatorsSettles ==
  ASSUME IInv, Alike, Reached, BindOperators
  PROVE  Reached'
<1> DEFINE L == WithoutOperators(pairs)
           M == L \cup Bound(L)
<1>1. /\ Inputs /\ Matching(pairs) /\ Diagonal(pairs) /\ phase = "bind"
      /\ FullButOperators(pairs)
      /\ phase' = "matched" /\ todo' = {} /\ pairs' = M /\ O' = O
  BY Hypotheses DEF BindOperators, Enter, Reached, ReachedAt
<1>2. \A n \in DOMAIN O : ~IsOperator(O[n]) => <<n, n>> \in L
  BY <1>1 DEF FullButOperators, WithoutOperators, Alike, OldNode, IsOperator
<1>3. \A p \in L : p[1] = p[2] /\ p[1] \in DOMAIN O
  BY <1>1 DEF Diagonal, WithoutOperators, Matching, OldNode
<1> HIDE DEF L
<1>4. ASSUME NEW q \in Bound(L) PROVE q[1] = q[2]
  <2>1. PICK p \in L :
          /\ q[1] \in Operators(O, p[1]) /\ q[2] \in Operators(N, p[2])
          /\ Ordinal(Operators(O, p[1]), q[1]) = Ordinal(Operators(N, p[2]), q[2])
    BY DEF Bound
  <2>2. Operators(N, p[2]) = Operators(O, p[1])
    BY <1>3, AlikeAround
  <2> QED BY <1>1, <1>3, <2>1, <2>2, OrdinalsDiffer DEF Inputs
<1>5. ASSUME NEW n \in DOMAIN O, IsOperator(O[n]) PROVE <<n, n>> \in Bound(L)
  <2> DEFINE q == Parent(n)
  <2>1. O \in Trees /\ n # Root /\ n \in Seq(Nat)
    BY <1>1, <1>5, RootAssumption, TreeAssumption DEF Inputs
  <2>2. q \in DOMAIN O /\ Below(n, q) /\ Len(n) = Len(q) + 1
    BY <2>1, SlotAssumption, BelowParent
  <2> HIDE DEF q
  <2>3. ~IsOperator(O[q])
    BY <2>1, <2>2, TreeAssumption DEF Descendants
  <2>4. n \in Operators(O, q) /\ Operators(N, q) = Operators(O, q)
    BY <1>5, <2>2, AlikeAround DEF Operators, Children
  <2>5. <<q, q>> \in L
    BY <1>2, <2>2, <2>3
  <2> DEFINE S(p) == {r \in Operators(O, p[1]) \X Operators(N, p[2]) :
                        Ordinal(Operators(O, p[1]), r[1]) = Ordinal(Operators(N, p[2]), r[2])}
  <2>6. <<n, n>> \in S(<<q, q>>)
    BY <2>4
  <2> HIDE DEF S
  <2>7. <<n, n>> \in UNION {S(p) : p \in L}
    BY <2>5, <2>6
  <2> QED BY <2>7 DEF Bound, S
<1>6. Diagonal(M) /\ Full(M)
  BY <1>2, <1>3, <1>4, <1>5 DEF Diagonal, Full, OldNode
<1> HIDE DEF M
<1>7. ReachedAt("matched", {}, M)
  BY <1>6 DEF ReachedAt
<1> QED BY <1>1, <1>6, <1>7, Handed

LEMMA InitSettled == Init => Settled
<1> SUFFICES ASSUME Init PROVE Reached
  BY DEF Settled
<1>1. /\ pairs = {} /\ phase = "entities"
      /\ todo = {n \in OldNode : IsNamedEntity(O[n])}
      /\ MatchedOld(pairs) = {}
  BY DEF Init, MatchedOld
<1>2. ReachedAt("entities", todo, pairs)
  BY <1>1 DEF ReachedAt
<1> QED BY <1>1, <1>2 DEF Reached, Diagonal

(* The two trees are read and never written. *)
LEMMA TreesStay == [Next]_vars => O' = O /\ N' = N
BY DEF Next, vars, MatchEntity, EntitiesDone, SeedRenames, MatchTopDown, TopDownDone, PairRoots,
       MatchLabel, LabelsDone, DropOperators, MatchBottomUp, BottomUpDone, PruneStatements,
       PruneOperators, BindOperators, Matched, Visit, Enter

LEMMA StepSettled == IInv /\ Settled /\ [Next]_vars => Settled'
<1> SUFFICES ASSUME IInv, Settled, [Next]_vars, (SameTrees /\ Tall)' PROVE Reached'
  BY DEF Settled
<1>1. O' = O /\ N' = N
  BY TreesStay
<1>2. SameTrees /\ Tall
  BY <1>1 DEF SameTrees, Tall
<1>3. Alike /\ Reached /\ Inputs
  BY <1>2, Hypotheses, SameTreesAreAlike DEF Settled
<1>4. CASE UNCHANGED vars \/ Matched
  <2>1. phase' = phase /\ todo' = todo /\ pairs' = pairs /\ O' = O
    BY <1>4 DEF Matched, vars
  <2> QED BY <1>3, <2>1, Handed DEF Reached
<1> QED BY <1>2, <1>3, <1>4, MatchEntitySettles, SeedRenamesSettles, MatchTopDownSettles,
           PassSettles, DropOperatorsSettles, PruneStatementsSettles, PruneOperatorsSettles,
           BindOperatorsSettles DEF Next

-----------------------------------------------------------------------------
(* Where all is paired with itself, nothing has moved or changed. *)
LEMMA FullIsEmpty ==
  ASSUME Inputs, Matching(pairs), Alike, Diagonal(pairs), Full(pairs)
  PROVE  EmptyScript
<1>1. /\ \A p \in pairs : p[1] = p[2] /\ p[1] \in DOMAIN O
      /\ \A n \in DOMAIN O : <<n, n>> \in pairs
      /\ pairs \in SUBSET (OldNode \X NewNode)
  BY DEF Diagonal, Matching, Full, OldNode
<1>2. UnmatchedOld = {} /\ UnmatchedNew = {}
  BY <1>1, NothingLeft, DiagonalFree DEF UnmatchedOld, UnmatchedNew
<1>3. Moves = {}
  <2> SUFFICES ASSUME NEW p \in pairs, Inner(p) PROVE SameContainer(p)
    BY DEF Moves
  <2>1. Parent(p[1]) \in DOMAIN O
    BY <1>1, SlotAssumption DEF Inputs, Inner
  <2> QED BY <1>1, <2>1 DEF SameContainer
<1>4. Updates = {}
  BY <1>1 DEF Updates, Alike
<1>5. Reorders = {}
  <2> SUFFICES ASSUME NEW p \in pairs
               PROVE  Ordinal({q[1] : q \in Surviving(p)}, p[1])
                        = Ordinal({q[2] : q \in Surviving(p)}, p[2])
    BY DEF Reorders
  <2>1. \A q \in Surviving(p) : q[1] = q[2]
    BY <1>1 DEF Surviving
  <2>2. {q[1] : q \in Surviving(p)} = {q[2] : q \in Surviving(p)}
    BY <2>1
  <2> QED BY <1>1, <2>2
<1> QED BY <1>2, <1>3, <1>4, <1>5 DEF EmptyScript, Deletes, Inserts

(* For any two trees without wrappers, and high enough for the comparison   *)
(* of subtrees to reach the root: the script is empty exactly when they are *)
(* equal.                                                                   *)
THEOREM EmptyExactly == Spec => [](Tall => EmptyExactlyForEqualTrees)
<1>1. IInv /\ Settled /\ (Undecorated => DeltaIsNeverEmpty)
        => (Tall => EmptyExactlyForEqualTrees)
  <2> SUFFICES ASSUME IInv, Settled, Undecorated => DeltaIsNeverEmpty, Tall, Finished, Undecorated
               PROVE  EmptyScript <=> SameTrees
    BY DEF EmptyExactlyForEqualTrees
  <2>1. EmptyScript => SameTrees
    BY DEF DeltaIsNeverEmpty
  <2>2. ASSUME SameTrees PROVE EmptyScript
    <3>1. Inputs /\ Matching(pairs) /\ Alike
      BY <2>2, Hypotheses, SameTreesAreAlike
    <3>2. Diagonal(pairs) /\ Full(pairs)
      BY <2>2 DEF Settled, Reached, ReachedAt, Finished
    <3> QED BY <3>1, <3>2, FullIsEmpty
  <2> QED BY <2>1, <2>2
<1> QED BY <1>1, InitIInv, StepIInv, InitSettled, StepSettled, UndecoratedDeltaIsNeverEmpty, PTL
    DEF Spec

-----------------------------------------------------------------------------
(* The review. *)

(* The passes over the drafts leave the trees and the matching alone: what  *)
(* the matcher and its script promise holds of every diff that is refined   *)
(* and finalized, at each of its stages.                                    *)
THEOREM ReviewKeepsTheMatching == FinalizationSpec => Spec
<1>1. RefinementInit => Init
  BY DEF RefinementInit
<1>2. [FinalizationNext]_draftVars => [Next]_vars
  BY DEF FinalizationNext, RefinementNext, Match, DeriveScript, Refine, Finalize, Take, draftVars
<1> QED BY <1>1, <1>2, PTL DEF FinalizationSpec, Spec

(* The passes over the drafts start from drafts that tell of every change:  *)
(* what the review does not tell in the end, a pass has taken.              *)
ChangesAreDrafted ==
  stage = "drafted" =>
    /\ Hidden(O, N, Kinds(O), Subtrees(O, OldOf(drafts))) = {}
    /\ Hidden(N, O, Kinds(N), Subtrees(N, NewOf(drafts))) = {}

LEMMA HiddenFromFewer ==
  ASSUME NEW T, NEW U, NEW kinds, NEW shown, NEW more, shown \subseteq more,
         Hidden(T, U, kinds, shown) = {}
  PROVE  Hidden(T, U, kinds, more) = {}
BY DEF Hidden

LEMMA ScriptIsDrafted ==
  /\ Subtrees(O, Deletes \cup MatchedOld(Moves)) \cup MatchedOld(Updates)
       \subseteq Subtrees(O, OldOf(ScriptDrafts))
  /\ Subtrees(N, Inserts \cup MatchedNew(Moves)) \cup MatchedNew(Updates)
       \subseteq Subtrees(N, NewOf(ScriptDrafts))
<1>1. /\ \A k, p : Pairing(k, p).old = {p[1]} /\ Pairing(k, p).new = {p[2]}
      /\ \A n : Deletion(n).old = {n} /\ Addition(n).new = {n}
  BY DEF Pairing, Deletion, Addition, Draft
<1>2. /\ \A p \in Moves : Pairing("MOVE", p) \in ScriptDrafts
      /\ \A p \in Updates : Pairing("MODIFICATION", p) \in ScriptDrafts
      /\ \A n \in Deletes : Deletion(n) \in ScriptDrafts
      /\ \A n \in Inserts : Addition(n) \in ScriptDrafts
  BY DEF ScriptDrafts
<1>3. ASSUME NEW n \in Deletes \cup MatchedOld(Moves) \cup MatchedOld(Updates)
      PROVE  n \in OldOf(ScriptDrafts)
  <2>1. \E d \in ScriptDrafts : n \in d.old
    BY <1>1, <1>2 DEF MatchedOld
  <2> QED BY <2>1 DEF OldOf
<1>4. ASSUME NEW n \in Inserts \cup MatchedNew(Moves) \cup MatchedNew(Updates)
      PROVE  n \in NewOf(ScriptDrafts)
  <2>1. \E d \in ScriptDrafts : n \in d.new
    BY <1>1, <1>2 DEF MatchedNew
  <2> QED BY <2>1 DEF NewOf
<1> QED BY <1>3, <1>4 DEF Subtrees

(* For any two trees: drafting loses nothing of what the script shows, and  *)
(* the matcher, which has nothing left to do, does not undo it.             *)
THEOREM EveryChangeIsDrafted == FinalizationSpec => []ChangesAreDrafted
<1>1. RefinementInit => ChangesAreDrafted
  BY DEF RefinementInit, ChangesAreDrafted
<1>2. ChangesAreShown /\ ChangesAreDrafted /\ [FinalizationNext]_draftVars => ChangesAreDrafted'
  <2> SUFFICES ASSUME ChangesAreShown, ChangesAreDrafted, [FinalizationNext]_draftVars
               PROVE  ChangesAreDrafted'
    OBVIOUS
  <2>1. CASE DeriveScript
    <3>1. O' = O /\ N' = N /\ drafts' = ScriptDrafts /\ Finished
      BY <2>1 DEF DeriveScript, Take, vars, Finished
    <3>2. /\ Hidden(O, N, Kinds(O), Subtrees(O, OldOf(ScriptDrafts))) = {}
          /\ Hidden(N, O, Kinds(N), Subtrees(N, NewOf(ScriptDrafts))) = {}
      BY <3>1, ScriptIsDrafted, HiddenFromFewer DEF ChangesAreShown
    <3> QED BY <3>1, <3>2 DEF ChangesAreDrafted
  <2>2. CASE Match \/ UNCHANGED draftVars
    <3>1. [Next]_vars /\ stage' = stage /\ drafts' = drafts
      BY <2>2 DEF Match, draftVars
    <3>2. O' = O /\ N' = N
      BY <3>1, TreesStay
    <3> QED BY <3>1, <3>2 DEF ChangesAreDrafted
  <2>3. CASE Refine \/ Finalize
    <3>1. stage' # "drafted"
      BY <2>3 DEF Refine, Finalize, Take
    <3> QED BY <3>1 DEF ChangesAreDrafted
  <2> QED BY <2>1, <2>2, <2>3 DEF FinalizationNext, RefinementNext
<1> QED BY <1>1, <1>2, ReviewKeepsTheMatching, EveryChangeIsShown, PTL DEF FinalizationSpec

-----------------------------------------------------------------------------
(****************************************************************************)
(* The passes over the drafts.                                              *)
(****************************************************************************)
DraftKind == {"MOVE", "MODIFICATION", "REFACTORING", "REORDER", "DELETION", "ADDITION"}

DraftForm(D) == \A d \in D : d = Draft(d.kind, d.old, d.new) /\ d.kind \in DraftKind

(* What holds of every promotion: it removes and adds nothing that was not  *)
(* removed or added before, nor puts anything in another order, lets the    *)
(* reorders of entities be, and makes no drafts of none.                    *)
IsPlaced(d) ==
  /\ d.kind = "REORDER"
  /\ (\A o \in d.old : IsNamedEntity(O[o])) /\ (\A n \in d.new : IsNamedEntity(N[n]))

Promotes(D, E) ==
  /\ DraftForm(E)
  /\ \A d \in E : d.kind \in {"DELETION", "ADDITION", "REORDER"} => d \in D
  /\ \A d \in D : IsPlaced(d) => d \in E
  /\ D = {} => E = {}

LEMMA DraftFields ==
  /\ \A k, p : /\ Pairing(k, p).kind = k
               /\ Pairing(k, p).old = {p[1]} /\ Pairing(k, p).new = {p[2]}
               /\ Pairing(k, p) = Draft(k, {p[1]}, {p[2]})
               /\ Pairing(k, p) = Draft(Pairing(k, p).kind, Pairing(k, p).old, Pairing(k, p).new)
  /\ \A n : /\ Deletion(n).kind = "DELETION" /\ Deletion(n).old = {n} /\ Deletion(n).new = {}
            /\ Deletion(n) = Draft("DELETION", {n}, {})
            /\ Addition(n).kind = "ADDITION" /\ Addition(n).old = {} /\ Addition(n).new = {n}
            /\ Addition(n) = Draft("ADDITION", {}, {n})
  /\ \A k, S, T : /\ Draft(k, S, T).kind = k /\ Draft(k, S, T).old = S /\ Draft(k, S, T).new = T
                  /\ Draft(k, S, T) = Draft(Draft(k, S, T).kind, Draft(k, S, T).old, Draft(k, S, T).new)
BY DEF Pairing, Deletion, Addition, Draft

LEMMA Rekinded ==
  ASSUME NEW d, d = Draft(d.kind, d.old, d.new), NEW k
  PROVE  [d EXCEPT !.kind = k] = Draft(k, d.old, d.new)
BY DEF Draft

LEMMA PromotesOn ==
  ASSUME NEW D, NEW E, NEW F, Promotes(D, E), Promotes(E, F)
  PROVE  Promotes(D, F)
BY DEF Promotes

(* A pass that takes some drafts of other kinds away and puts pairings in. *)
LEMMA PromotesBySwap ==
  ASSUME NEW D, DraftForm(D), NEW R, NEW Q,
         \A d \in R : d.kind # "REORDER",
         \A q \in Q : q = Draft(q.kind, q.old, q.new) /\ q.kind \in {"MODIFICATION", "REFACTORING", "MOVE"},
         D = {} => Q = {}
  PROVE  Promotes(D, (D \ R) \cup Q)
BY DEF Promotes, DraftForm, DraftKind, IsPlaced

LEMMA NoDrafts ==
  /\ \A k : OfKind({}, k) = {}
  /\ OldOf({}) = {} /\ NewOf({}) = {}
  /\ DeletedNodes({}) = {} /\ AddedNodes({}) = {} /\ Modified({}) = {}
BY DEF DeletedNodes, AddedNodes, Modified, OfKind, OldOf, NewOf

LEMMA RenameUpdatesPromotes ==
  ASSUME NEW D, DraftForm(D)
  PROVE  Promotes(D, RenameUpdates(D))
<1> DEFINE R == {d \in Modified(D) : \E o \in d.old, n \in d.new :
                   ExactRename(o, n) \/ SimilarBy(Half, o, n)}
           P == {[d EXCEPT !.kind = "REFACTORING"] : d \in R}
           apart(d) == d.old \cap MatchedOld(NamePairs(R)) = {} /\ d.new \cap MatchedNew(NamePairs(R)) = {}
<1>1. RenameUpdates(D) = {d \in (D \ R) \cup P : apart(d)}
  BY DEF RenameUpdates
<1>2. R \subseteq D /\ \A d \in R : d.kind = "MODIFICATION"
  BY DEF Modified, OfKind
<1>3. \A q \in P : q = Draft(q.kind, q.old, q.new) /\ q.kind = "REFACTORING"
  <2> HIDE DEF R
  <2>1. ASSUME NEW r \in R PROVE [r EXCEPT !.kind = "REFACTORING"] = Draft("REFACTORING", r.old, r.new)
    <3>1. r = Draft(r.kind, r.old, r.new)
      BY <1>2 DEF DraftForm
    <3> QED BY <3>1, Rekinded
  <2> QED BY <2>1, DraftFields
<1> HIDE DEF R
<1>4. D = {} => P = {}
  BY <1>2
<1> HIDE DEF P
<1>5. \A d \in RenameUpdates(D) : d \in D \/ d \in P
  BY <1>1
<1>6. \A d \in D : d.kind = "REORDER" /\ apart(d) => d \in RenameUpdates(D)
  BY <1>1, <1>2
<1>7. \A d : IsPlaced(d) => d.kind = "REORDER" /\ apart(d)
  <2>1. /\ \A o \in MatchedOld(NamePairs(R)) : O[o].type = "identifier"
        /\ \A n \in MatchedNew(NamePairs(R)) : N[n].type = "identifier"
    BY DEF MatchedOld, MatchedNew, NamePairs, IsItsName
  <2> QED BY <2>1 DEF IsPlaced, IsNamedEntity, NamedEntity, apart
<1> HIDE DEF apart
<1> QED BY <1>3, <1>4, <1>5, <1>6, <1>7 DEF Promotes, DraftForm, DraftKind

LEMMA ParentStatementsPromotes ==
  ASSUME NEW D, DraftForm(D)
  PROVE  Promotes(D, ParentStatements(D))
<1> DEFINE E == EditedInPlace(D)
           R == {Deletion(q[1]) : q \in E} \cup {Addition(q[2]) : q \in E}
           Q == {Pairing("MODIFICATION", q) : q \in E}
<1>1. D = {} => E = {}
  BY NoDrafts DEF EditedInPlace, ChildrenIn
<1>2. ParentStatements(D) = (D \ R) \cup Q
  BY DEF ParentStatements
<1> HIDE DEF E
<1>3. \A d \in R : d.kind # "REORDER"
  BY DraftFields
<1>4. \A q \in Q : q = Draft(q.kind, q.old, q.new) /\ q.kind \in {"MODIFICATION", "REFACTORING", "MOVE"}
  BY DraftFields
<1>5. D = {} => Q = {}
  BY <1>1
<1> HIDE DEF R, Q
<1>6. Promotes(D, (D \ R) \cup Q)
  BY <1>3, <1>4, <1>5, PromotesBySwap
<1> QED BY <1>2, <1>6

LEMMA SameIdNamedRenamesPromotes ==
  ASSUME NEW D, DraftForm(D)
  PROVE  Promotes(D, SameIdNamedRenames(D))
<1> DEFINE E == {n \in DeletedNodes(D) \cap AddedNodes(D) :
                   Renamed(n) /\ Pairing("MOVE", <<n, n>>) \notin D}
           R == {Deletion(n) : n \in E} \cup {Addition(n) : n \in E}
           Q == {Pairing("REFACTORING", <<n, n>>) : n \in E}
<1>1. D = {} => E = {}
  BY NoDrafts
<1>2. SameIdNamedRenames(D) = (D \ R) \cup Q
  BY DEF SameIdNamedRenames
<1> HIDE DEF E
<1>3. \A d \in R : d.kind # "REORDER"
  BY DraftFields
<1>4. \A q \in Q : q = Draft(q.kind, q.old, q.new) /\ q.kind \in {"MODIFICATION", "REFACTORING", "MOVE"}
  <2> SUFFICES ASSUME NEW n \in E
               PROVE  LET q == Pairing("REFACTORING", <<n, n>>)
                      IN q = Draft(q.kind, q.old, q.new) /\ q.kind \in {"MODIFICATION", "REFACTORING", "MOVE"}
    OBVIOUS
  <2> QED BY DraftFields
<1>5. D = {} => Q = {}
  BY <1>1
<1> HIDE DEF R, Q
<1>6. Promotes(D, (D \ R) \cup Q)
  BY <1>3, <1>4, <1>5, PromotesBySwap
<1> QED BY <1>2, <1>6

LEMMA ImportedRenamesPromotes ==
  ASSUME NEW D, DraftForm(D)
  PROVE  Promotes(D, ImportedRenames(D))
<1> DEFINE S == UNION {FirstParameter(o) \X ImportedName(D, O[o].label) :
                         o \in OfType(O, DeletedNodes(D), "function_definition")}
           Q == {Pairing("REFACTORING", p) : p \in {p \in S : O[p[1]].label # N[p[2]].label}}
<1>1. ASSUME D = {} PROVE S = {}
  <2>1. OfType(O, DeletedNodes(D), "function_definition") = {}
    BY <1>1, NoDrafts DEF OfType
  <2> QED BY <2>1
<1>2. ImportedRenames(D) = (D \ {}) \cup Q
  BY DEF ImportedRenames
<1> HIDE DEF S
<1>4. \A q \in Q : q = Draft(q.kind, q.old, q.new) /\ q.kind \in {"MODIFICATION", "REFACTORING", "MOVE"}
  BY DraftFields
<1>5. D = {} => Q = {}
  BY <1>1
<1> HIDE DEF Q
<1>6. Promotes(D, (D \ {}) \cup Q)
  BY <1>4, <1>5, PromotesBySwap
<1> QED BY <1>2, <1>6

LEMMA InsideMovesPromotes ==
  ASSUME NEW D, DraftForm(D), NEW order, D = {} => order = << >>
  PROVE  Promotes(D, InsideMoves(D, order))
<1> DEFINE recovered(found, p) ==
             found \cup (IF LabelEdits(D, p) # {} \/ SameHash(O, p[1], N, p[2]) THEN LabelEdits(D, p)
                         ELSE LeafEdits(D, p, found))
           F == FoldLeft(recovered, {}, order)
           Q == {Pairing("MODIFICATION", q) : q \in F}
<1>1. InsideMoves(D, order) = (D \ {}) \cup Q
  BY DEF InsideMoves
<1>2. ASSUME D = {} PROVE F = {}
  <2> DEFINE S == DOMAIN order
             next(s, f) == recovered(f[s \ {Max(s)}], order[Max(s)])
             g == CHOOSE g : g = [s \in SUBSET S |-> IF s = {} THEN {} ELSE next(s, g)]
  <2>1. S = {}
    BY <1>2
  <2>2. F = g[S]
    BY Zenon DEF FoldLeft, MapThenFoldSet
  <2> HIDE DEF next, S
  <2>3. g = [s \in SUBSET S |-> IF s = {} THEN {} ELSE next(s, g)]
    <3> DEFINE k == [s \in SUBSET S |-> {}]
    <3>1. \A s \in SUBSET S : s = {}
      BY <2>1
    <3>2. k = [s \in SUBSET S |-> IF s = {} THEN {} ELSE next(s, k)]
      BY <3>1
    <3> QED BY <3>2, Zenon
  <2>4. g[S] = {}
    <3>1. S \in SUBSET S /\ S = {}
      BY <2>1
    <3> HIDE DEF g
    <3> QED BY <2>3, <3>1, Zenon
  <2> HIDE DEF g, F
  <2> QED BY <2>2, <2>4
<1> HIDE DEF F
<1>3. \A q \in Q : q = Draft(q.kind, q.old, q.new) /\ q.kind \in {"MODIFICATION", "REFACTORING", "MOVE"}
  BY DraftFields
<1>4. D = {} => Q = {}
  BY <1>2
<1> HIDE DEF Q
<1>5. Promotes(D, (D \ {}) \cup Q)
  BY <1>3, <1>4, PromotesBySwap
<1> QED BY <1>1, <1>5

LEMMA AdditionsToMovesPromotes ==
  ASSUME NEW D, DraftForm(D)
  PROVE  Promotes(D, AdditionsToMoves(D))
<1> DEFINE home(d) == UNION {OldHome(n) : n \in {n \in d.new \ NewOf(OfKind(D, "MOVE")) : IsNamedEntity(N[n])}}
           made(d) == Draft("MOVE", home(d), d.new)
           turns(d) == d.kind = "ADDITION" /\ home(d) # {}
           E == {IF turns(d) THEN made(d) ELSE d : d \in D}
<1>1. AdditionsToMoves(D) = E
  BY DEF AdditionsToMoves
<1> HIDE DEF home
<1>2. \A d : made(d).kind = "MOVE" /\ made(d) = Draft(made(d).kind, made(d).old, made(d).new)
  BY DraftFields
<1>3. \A d : turns(d) => d.kind = "ADDITION"
  OBVIOUS
<1> HIDE DEF made, turns
<1>4. \A e \in E : e \in D \/ \E d \in D : e = made(d)
  OBVIOUS
<1>5. \A d \in D : ~turns(d) => d \in E
  OBVIOUS
<1>6. D = {} => E = {}
  OBVIOUS
<1> HIDE DEF E
<1> QED BY <1>1, <1>2, <1>3, <1>4, <1>5, <1>6 DEF Promotes, DraftForm, DraftKind, IsPlaced

LEMMA SameIdRenamesPromotes ==
  ASSUME NEW D, DraftForm(D)
  PROVE  Promotes(D, SameIdRenames(D))
<1> DEFINE R == RenamedInPlace(D)
           Q == {Pairing("REFACTORING", <<n, n>>) : n \in R}
           L == {d \in D : d \notin SameIdRenames(D)}
<1>1. /\ SameIdRenames(D) \subseteq D \cup Q /\ Q \subseteq SameIdRenames(D)
      /\ \A d \in L : d.kind # "REORDER"
  BY DEF SameIdRenames
<1>2. D = {} => R = {}
  BY NoDrafts DEF RenamedInPlace
<1> HIDE DEF R
<1>3. \A q \in Q : q = Draft(q.kind, q.old, q.new) /\ q.kind \in {"MODIFICATION", "REFACTORING", "MOVE"}
  <2> SUFFICES ASSUME NEW n \in R
               PROVE  LET q == Pairing("REFACTORING", <<n, n>>)
                      IN q = Draft(q.kind, q.old, q.new) /\ q.kind \in {"MODIFICATION", "REFACTORING", "MOVE"}
    OBVIOUS
  <2> QED BY DraftFields
<1>4. D = {} => Q = {}
  BY <1>2
<1>5. SameIdRenames(D) = (D \ L) \cup Q
  <2> HIDE DEF Q
  <2> QED BY <1>1
<1> HIDE DEF L, Q
<1>6. Promotes(D, (D \ L) \cup Q)
  BY <1>1, <1>3, <1>4, PromotesBySwap
<1> QED BY <1>5, <1>6

(* Drafts of some kind become refactorings. *)
LEMMA RekindedForm ==
  ASSUME NEW D, DraftForm(D), NEW R \in SUBSET D,
         NEW q \in {[d EXCEPT !.kind = "REFACTORING"] : d \in R}
  PROVE  /\ q = Draft(q.kind, q.old, q.new)
         /\ q.kind \in {"MODIFICATION", "REFACTORING", "MOVE"}
<1>1. PICK d \in R : q = [d EXCEPT !.kind = "REFACTORING"]
  OBVIOUS
<1>2. q = Draft("REFACTORING", d.old, d.new)
  BY <1>1, Rekinded DEF DraftForm
<1> QED BY <1>2, DraftFields

LEMMA ParameterRenamesPromotes ==
  ASSUME NEW D, DraftForm(D)
  PROVE  Promotes(D, ParameterRenames(D))
<1> DEFINE R == {d \in Modified(D) :
                   ChangesName(d) /\ (\A o \in d.old : IsParameter(O, o)) /\ (\A n \in d.new : IsParameter(N, n))}
           ends == OldOf(R) \cup NewOf(R)
           noise == {d \in OfKind(D, "DELETION") : d.old \subseteq ends}
                      \cup {d \in OfKind(D, "ADDITION") : d.new \subseteq ends}
           Q == {[d EXCEPT !.kind = "REFACTORING"] : d \in R}
<1>1. ParameterRenames(D) = (D \ (R \cup noise)) \cup Q
  BY DEF ParameterRenames
<1>2. \A d \in R \cup noise : d.kind # "REORDER" /\ d \in D
  BY DEF Modified, OfKind
<1> HIDE DEF R, noise
<1>3. \A q \in Q : q = Draft(q.kind, q.old, q.new) /\ q.kind \in {"MODIFICATION", "REFACTORING", "MOVE"}
  BY <1>2, RekindedForm
<1>4. D = {} => Q = {}
  BY <1>2
<1> HIDE DEF Q
<1>5. Promotes(D, (D \ (R \cup noise)) \cup Q)
  BY <1>2, <1>3, <1>4, PromotesBySwap
<1> QED BY <1>1, <1>5

LEMMA DescendantLeafUpdatesPromotes ==
  ASSUME NEW D, DraftForm(D)
  PROVE  Promotes(D, DescendantLeafUpdates(D))
<1> DEFINE U == UNION {UNION {LeafUpdates(D, p[1], p[2]) : p \in d.old \X d.new} : d \in Modified(D)}
           Q == {Pairing("MODIFICATION", q) : q \in U}
<1>1. DescendantLeafUpdates(D) = (D \ {}) \cup Q
  BY DEF DescendantLeafUpdates
<1>2. ASSUME D = {} PROVE U = {}
  <2>1. Modified(D) = {}
    BY <1>2, NoDrafts
  <2> QED BY <2>1
<1> HIDE DEF U
<1>3. \A q \in Q : q = Draft(q.kind, q.old, q.new) /\ q.kind \in {"MODIFICATION", "REFACTORING", "MOVE"}
  BY DraftFields
<1>4. D = {} => Q = {}
  BY <1>2
<1> HIDE DEF Q
<1>5. Promotes(D, (D \ {}) \cup Q)
  BY <1>3, <1>4, PromotesBySwap
<1> QED BY <1>1, <1>5

LEMMA CorroboratedRenamesPromotes ==
  ASSUME NEW D, DraftForm(D)
  PROVE  Promotes(D, CorroboratedRenames(D))
<1> DEFINE inferred == UNION {IF Token(O, q[1]) = Token(N, q[2]) THEN Inferred(q[1], q[2]) ELSE {} :
                                q \in UniqueCallables(O) \X UniqueCallables(N)}
           R == {d \in Modified(D) :
                   ChangesName(d) /\ LabelsOf(O, d.old) \X LabelsOf(N, d.new) \subseteq inferred}
           Q == {[d EXCEPT !.kind = "REFACTORING"] : d \in R}
<1>1. CorroboratedRenames(D) = (D \ R) \cup Q
  BY DEF CorroboratedRenames
<1> HIDE DEF inferred
<1>2. \A d \in R : d.kind # "REORDER" /\ d \in D
  BY DEF Modified, OfKind
<1> HIDE DEF R
<1>3. \A q \in Q : q = Draft(q.kind, q.old, q.new) /\ q.kind \in {"MODIFICATION", "REFACTORING", "MOVE"}
  BY <1>2, RekindedForm
<1>4. D = {} => Q = {}
  BY <1>2
<1> HIDE DEF Q
<1>5. Promotes(D, (D \ R) \cup Q)
  BY <1>2, <1>3, <1>4, PromotesBySwap
<1> QED BY <1>1, <1>5

(* The passes that only take drafts away, and of which kinds. *)
LEMMA SuppressedKinds ==
  ASSUME NEW D, DraftForm(D)
  PROVE  /\ DedupeRenames(D) \subseteq D
         /\ \A d \in D \ DedupeRenames(D) : d.kind = "REFACTORING"
         /\ \A d \in SignatureNoise(D) \cup AroundLeaves(D) \cup CoveredByPairings(D) \cup SameLabelPairs(D) :
              d.kind \in {"DELETION", "ADDITION"}
         /\ \A d \in SameLabelDeletes(D) : d.kind = "DELETION"
         /\ \A d \in ContainerNoise(D) : d.kind \in {"DELETION", "ADDITION"}
         /\ \A d \in WithoutDelta(D) \cup CoveredByRenames(D) \cup ParentNoise(D) \cup ChildNoise(D) :
              d.kind = "MODIFICATION"
         /\ \A d \in MovesInRenames(D) \cup NoisyMoves(D) : d.kind = "MOVE"
<1>1. /\ DedupeRenames(D) \subseteq D
      /\ \A d \in D \ DedupeRenames(D) : d.kind = "REFACTORING"
  BY DEF DedupeRenames, VariableRenames, OfKind
<1>2. \A d \in SignatureNoise(D) : d.kind \in {"DELETION", "ADDITION"}
  BY DEF SignatureNoise, OfKind
<1>3. \A d \in AroundLeaves(D) : d.kind \in {"DELETION", "ADDITION"}
  <2>1. \A d \in AroundLeaves(D) : \E m : d = Deletion(m) \/ d = Addition(m)
    BY Zenon DEF AroundLeaves
  <2> QED BY <2>1, DraftFields
<1>4. \A d \in CoveredByPairings(D) : d.kind \in {"DELETION", "ADDITION"}
  <2>1. \A d \in CoveredByPairings(D) : \E m : d = Deletion(m) \/ d = Addition(m)
    BY Zenon DEF CoveredByPairings
  <2> QED BY <2>1, DraftFields
<1>5. \A d \in SameLabelPairs(D) : d.kind \in {"DELETION", "ADDITION"}
  <2>1. \A d \in SameLabelPairs(D) : \E m : d = Deletion(m) \/ d = Addition(m)
    BY Zenon DEF SameLabelPairs
  <2> QED BY <2>1, DraftFields
<1>6. \A d \in SameLabelDeletes(D) : d.kind = "DELETION"
  BY DraftFields DEF SameLabelDeletes
<1>7. \A d \in ContainerNoise(D) : d.kind \in {"DELETION", "ADDITION"}
  BY DEF ContainerNoise, OfKind
<1>8. \A d \in WithoutDelta(D) \cup CoveredByRenames(D) \cup ChildNoise(D) : d.kind = "MODIFICATION"
  BY DEF WithoutDelta, CoveredByRenames, ChildNoise, Modified, OfKind
<1>9. \A d \in ParentNoise(D) : d.kind = "MODIFICATION"
  BY DEF ParentNoise, Modified, OfKind
<1>10. \A d \in MovesInRenames(D) \cup NoisyMoves(D) : d.kind = "MOVE"
  BY DEF MovesInRenames, NoisyMoves, OfKind
<1> QED BY <1>1, <1>2, <1>3, <1>4, <1>5, <1>6, <1>7, <1>8, <1>9, <1>10

(* The chains. *)
LEMMA RefinePromotionsPromotes ==
  ASSUME NEW D, DraftForm(D)
  PROVE  Promotes(D, RefinePromotions(D))
<1> DEFINE D1 == RenameUpdates(D)
           D2 == ParentStatements(D1)
           D3 == SameIdNamedRenames(D2)
<1>1. Promotes(D, D1) /\ DraftForm(D1)
  BY RenameUpdatesPromotes DEF Promotes
<1> HIDE DEF D1
<1>2. Promotes(D1, D2) /\ DraftForm(D2)
  BY <1>1, ParentStatementsPromotes DEF Promotes
<1> HIDE DEF D2
<1>3. Promotes(D2, D3) /\ DraftForm(D3)
  BY <1>2, SameIdNamedRenamesPromotes DEF Promotes
<1> HIDE DEF D3
<1>4. Promotes(D3, ImportedRenames(D3))
  BY <1>3, ImportedRenamesPromotes
<1>5. Promotes(D, ImportedRenames(D3))
  BY <1>1, <1>2, <1>3, <1>4, PromotesOn
<1> QED BY <1>5 DEF RefinePromotions, D1, D2, D3

LEMMA PromotedPromotes ==
  ASSUME NEW D, DraftForm(D)
  PROVE  Promotes(D, Promoted(D))
<1> DEFINE D1 == AdditionsToMoves(D)
           D2 == SameIdRenames(D1)
           D3 == ParameterRenames(D2)
           D4 == DescendantLeafUpdates(D3)
<1>1. Promotes(D, D1) /\ DraftForm(D1)
  BY AdditionsToMovesPromotes DEF Promotes
<1> HIDE DEF D1
<1>2. Promotes(D1, D2) /\ DraftForm(D2)
  BY <1>1, SameIdRenamesPromotes DEF Promotes
<1> HIDE DEF D2
<1>3. Promotes(D2, D3) /\ DraftForm(D3)
  BY <1>2, ParameterRenamesPromotes DEF Promotes
<1> HIDE DEF D3
<1>4. Promotes(D3, D4) /\ DraftForm(D4)
  BY <1>3, DescendantLeafUpdatesPromotes DEF Promotes
<1> HIDE DEF D4
<1>5. Promotes(D4, CorroboratedRenames(D4))
  BY <1>4, CorroboratedRenamesPromotes
<1>6. Promotes(D, CorroboratedRenames(D4))
  BY <1>1, <1>2, <1>3, <1>4, <1>5, PromotesOn
<1> QED BY <1>6 DEF Promoted, D1, D2, D3, D4

(* A pass that takes drafts away, and no reorder. *)
LEMMA FewerDrafts ==
  ASSUME NEW D, DraftForm(D), NEW R, \A d \in R : d.kind # "REORDER"
  PROVE  DraftForm(D \ R) /\ Promotes(D, D \ R)
BY DEF Promotes, DraftForm, DraftKind, IsPlaced

LEMMA SuppressedPromotes ==
  ASSUME NEW D, DraftForm(D)
  PROVE  Promotes(D, Suppressed(D))
<1> DEFINE D1 == DedupeRenames(D)
           D2 == D1 \ SignatureNoise(D1)
           D3 == D2 \ WithoutDelta(D2)
           D4 == D3 \ AroundLeaves(D3)
           D5 == D4 \ CoveredByPairings(D4)
           D6 == D5 \ SameLabelPairs(D5)
           D7 == D6 \ CoveredByRenames(D6)
           D8 == D7 \ MovesInRenames(D7)
           D9 == D8 \ ParentNoise(D8)
           D10 == D9 \ ChildNoise(D9)
<1>1. DraftForm(D1) /\ Promotes(D, D1)
  <2>1. D1 = D \ (D \ D1) /\ \A d \in D \ D1 : d.kind # "REORDER"
    BY SuppressedKinds
  <2> HIDE DEF D1
  <2>2. DraftForm(D \ (D \ D1)) /\ Promotes(D, D \ (D \ D1))
    BY <2>1, FewerDrafts
  <2> QED BY <2>1, <2>2
<1> HIDE DEF D1
<1>2. DraftForm(D2) /\ Promotes(D1, D2)
  BY <1>1, SuppressedKinds, FewerDrafts
<1> HIDE DEF D2
<1>3. DraftForm(D3) /\ Promotes(D2, D3)
  BY <1>2, SuppressedKinds, FewerDrafts
<1> HIDE DEF D3
<1>4. DraftForm(D4) /\ Promotes(D3, D4)
  BY <1>3, SuppressedKinds, FewerDrafts
<1> HIDE DEF D4
<1>5. DraftForm(D5) /\ Promotes(D4, D5)
  BY <1>4, SuppressedKinds, FewerDrafts
<1> HIDE DEF D5
<1>6. DraftForm(D6) /\ Promotes(D5, D6)
  BY <1>5, SuppressedKinds, FewerDrafts
<1> HIDE DEF D6
<1>7. DraftForm(D7) /\ Promotes(D6, D7)
  BY <1>6, SuppressedKinds, FewerDrafts
<1> HIDE DEF D7
<1>8. DraftForm(D8) /\ Promotes(D7, D8)
  BY <1>7, SuppressedKinds, FewerDrafts
<1> HIDE DEF D8
<1>9. DraftForm(D9) /\ Promotes(D8, D9)
  BY <1>8, SuppressedKinds, FewerDrafts
<1> HIDE DEF D9
<1>10. DraftForm(D10) /\ Promotes(D9, D10)
  BY <1>9, SuppressedKinds, FewerDrafts
<1> HIDE DEF D10
<1>11. Promotes(D, D10)
  BY <1>1, <1>2, <1>3, <1>4, <1>5, <1>6, <1>7, <1>8, <1>9, <1>10, PromotesOn
<1> QED BY <1>11 DEF Suppressed, D1, D2, D3, D4, D5, D6, D7, D8, D9, D10

(* What holds of every pass, those that tell of the order among them: it    *)
(* removes and adds nothing that was not removed or added before, and makes *)
(* no drafts of none.                                                       *)
Keeps(D, E) ==
  /\ DraftForm(E)
  /\ \A d \in E : d.kind \in {"DELETION", "ADDITION", "REORDER"} => d \in D
  /\ D = {} => E = {}

LEMMA KeepsOn ==
  ASSUME NEW D, NEW E, NEW F, Keeps(D, E), Keeps(E, F)
  PROVE  Keeps(D, F)
BY DEF Keeps

LEMMA RefineSuppressionsKeeps ==
  ASSUME NEW D, DraftForm(D)
  PROVE  RefineSuppressions(D) \subseteq D /\ Keeps(D, RefineSuppressions(D))
<1>1. RefineSuppressions(D) \subseteq D
  BY Zenon DEF RefineSuppressions
<1> QED BY <1>1 DEF Keeps, DraftForm, DraftKind

LEMMA LowSignalReordersKeeps ==
  ASSUME NEW D, DraftForm(D)
  PROVE  Keeps(D, LowSignalReorders(D))
<1> DEFINE k(q) == IF O[q[1]].type = "decorator" \/ (InRename(D, q) /\ ~IsNamedEntity(O[q[1]]))
                   THEN "MODIFICATION" ELSE "MOVE"
           Q == {Pairing(k(q), q) : q \in Movers(D)}
           L == {Pairing("REORDER", q) : q \in ReorderedAlike(D)}
<1>1. LowSignalReorders(D) = (D \ L) \cup Q
  BY DEF LowSignalReorders
<1>2. ASSUME D = {} PROVE Movers(D) = {}
  <2>1. OfKind(D, "REORDER") = {}
    BY <1>2, NoDrafts
  <2>2. ReorderedAlike(D) = {}
    BY <2>1 DEF ReorderedAlike
  <2> QED BY <2>2 DEF Movers
<1>3. \A q : k(q) \in {"MODIFICATION", "MOVE"}
  OBVIOUS
<1> HIDE DEF k, L
<1>4. \A q \in Q : q = Draft(q.kind, q.old, q.new) /\ q.kind \in {"MODIFICATION", "MOVE"}
  <2> SUFFICES ASSUME NEW m \in Movers(D)
               PROVE  LET q == Pairing(k(m), m)
                      IN q = Draft(q.kind, q.old, q.new) /\ q.kind \in {"MODIFICATION", "MOVE"}
    OBVIOUS
  <2> QED BY <1>3, DraftFields
<1>5. D = {} => Q = {}
  BY <1>2
<1> HIDE DEF Q
<1> QED BY <1>1, <1>4, <1>5 DEF Keeps, DraftForm, DraftKind

LEMMA RefinedBeforeNoise ==
  ASSUME NEW D, DraftForm(D), NEW order \in SetToSeqs(MovedEntities(RefinePromotions(D)))
  PROVE  Promotes(D, InsideMoves(RefinePromotions(D), order))
<1> DEFINE D1 == RefinePromotions(D)
<1>1. Promotes(D, D1) /\ DraftForm(D1)
  BY RefinePromotionsPromotes DEF Promotes
<1>2. D1 = {} => order = << >>
  <2> HIDE DEF D1
  <2> SUFFICES ASSUME D1 = {} PROVE order = << >>
    OBVIOUS
  <2>1. MovedEntities(D1) = {}
    BY DEF MovedEntities
  <2>2. Cardinality(MovedEntities(D1)) = 0
    BY <2>1, FS_EmptySet
  <2>3. order \in SetToSeqs(MovedEntities(D1))
    BY DEF D1
  <2>4. order \in [1..0 -> {}]
    BY <2>1, <2>2, <2>3 DEF SetToSeqs
  <2> QED BY <2>4
<1> HIDE DEF D1
<1>3. Promotes(D1, InsideMoves(D1, order))
  BY <1>1, <1>2, InsideMovesPromotes
<1> QED BY <1>1, <1>3, PromotesOn DEF D1

LEMMA RefineKeeps ==
  ASSUME NEW D, DraftForm(D), NEW order \in SetToSeqs(MovedEntities(RefinePromotions(D)))
  PROVE  Keeps(D, RefineSuppressions(InsideMoves(RefinePromotions(D), order)))
<1> DEFINE E == InsideMoves(RefinePromotions(D), order)
<1>1. Promotes(D, E)
  BY RefinedBeforeNoise
<1> HIDE DEF E
<1>2. Keeps(D, E) /\ Keeps(E, RefineSuppressions(E))
  BY <1>1, RefineSuppressionsKeeps DEF Promotes, Keeps
<1> QED BY <1>2, KeepsOn DEF E

LEMMA FinalizeKeeps ==
  ASSUME NEW D, DraftForm(D)
  PROVE  Keeps(D, LowSignalReorders(Suppressed(Promoted(D))))
<1> DEFINE D1 == Promoted(D)
           D2 == Suppressed(D1)
<1>1. Promotes(D, D1) /\ DraftForm(D1)
  BY PromotedPromotes DEF Promotes
<1> HIDE DEF D1
<1>2. Promotes(D1, D2) /\ DraftForm(D2)
  BY <1>1, SuppressedPromotes DEF Promotes
<1> HIDE DEF D2
<1>3. Keeps(D, D2)
  BY <1>1, <1>2, PromotesOn DEF Promotes, Keeps
<1>4. Keeps(D2, LowSignalReorders(D2))
  BY <1>2, LowSignalReordersKeeps
<1> QED BY <1>3, <1>4, KeepsOn DEF D1, D2

-----------------------------------------------------------------------------
(* The script is of the trees and the matching. *)
LEMMA ScriptStays ==
  ASSUME O' = O, N' = N, pairs' = pairs
  PROVE  /\ Moves' = Moves /\ Deletes' = Deletes /\ Inserts' = Inserts
         /\ Reorders' = Reorders /\ ScriptDrafts' = ScriptDrafts
         /\ UnmatchedOld' = UnmatchedOld /\ UnmatchedNew' = UnmatchedNew
         /\ MovedOld' = MovedOld /\ MovedNew' = MovedNew
<1>1. Moves' = Moves
  BY DEF Moves, SameContainer, SameEffectiveParent
<1>2. MovedOld' = MovedOld /\ MovedNew' = MovedNew
  BY <1>1 DEF MovedOld, MovedNew
<1>3. UnmatchedOld' = UnmatchedOld /\ UnmatchedNew' = UnmatchedNew
  BY DEF UnmatchedOld, UnmatchedNew, FreeOld, FreeNew, OldNode, NewNode
<1>4. GoneWithEntity' = GoneWithEntity /\ CameWithEntity' = CameWithEntity
  BY <1>3 DEF GoneWithEntity, CameWithEntity
<1>5. Deletes' = Deletes /\ Inserts' = Inserts
  BY <1>2, <1>3, <1>4 DEF Deletes, Inserts
<1>6. Updates' = Updates
  BY DEF Updates
<1>7. Reorders' = Reorders
  BY <1>2 DEF Reorders, SameContainer, Surviving
<1>8. ScriptDrafts' = ScriptDrafts
  BY <1>1, <1>5, <1>6, <1>7 DEF ScriptDrafts
<1> QED BY <1>1, <1>2, <1>3, <1>5, <1>7, <1>8

LEMMA ScriptForm ==
  /\ DraftForm(ScriptDrafts)
  /\ \A d \in ScriptDrafts :
       /\ d.kind = "DELETION" => \E n \in Deletes : d = Deletion(n)
       /\ d.kind = "ADDITION" => \E n \in Inserts : d = Addition(n)
       /\ d.kind = "REORDER" => \E p \in Reorders : d = Pairing("REORDER", p)
<1> DEFINE Good(d) ==
      /\ d = Draft(d.kind, d.old, d.new) /\ d.kind \in DraftKind
      /\ d.kind = "DELETION" => \E n \in Deletes : d = Deletion(n)
      /\ d.kind = "ADDITION" => \E n \in Inserts : d = Addition(n)
      /\ d.kind = "REORDER" => \E p \in Reorders : d = Pairing("REORDER", p)
<1>1. \A n \in Deletes : Good(Deletion(n))
  BY DraftFields DEF DraftKind
<1>2. \A n \in Inserts : Good(Addition(n))
  BY DraftFields DEF DraftKind
<1>3. \A p \in Reorders : Good(Pairing("REORDER", p))
  BY DraftFields DEF DraftKind
<1>4. \A p \in Moves : Good(Pairing("MOVE", p))
  BY DraftFields DEF DraftKind
<1>5. \A p \in Updates : Good(Pairing("MODIFICATION", p))
  BY DraftFields DEF DraftKind
<1>6. \A d \in ScriptDrafts : Good(d)
  <2> HIDE DEF Good
  <2> QED BY <1>1, <1>2, <1>3, <1>4, <1>5 DEF ScriptDrafts
<1> QED BY <1>6 DEF DraftForm

(* What the drafts are at each stage, apart from what a pass makes of them. *)
Underway ==
  /\ stage \in {"script", "drafted", "refined", "final"}
  /\ stage # "script" => phase = "matched" /\ Keeps(ScriptDrafts, drafts)
  /\ stage = "drafted" => drafts = ScriptDrafts

LEMMA InitUnderway == RefinementInit => Underway
BY DEF RefinementInit, Underway

(* A finished matcher does nothing. *)
LEMMA MatcherRests == Match /\ phase = "matched" => UNCHANGED draftVars
BY DEF Match, Next, Matched, MatchEntity, EntitiesDone, SeedRenames, MatchTopDown, TopDownDone, PairRoots,
       MatchLabel, LabelsDone, DropOperators, MatchBottomUp, BottomUpDone, PruneStatements,
       PruneOperators, BindOperators, draftVars, vars

LEMMA StepUnderway == Underway /\ [FinalizationNext]_draftVars => Underway'
<1> SUFFICES ASSUME Underway, [FinalizationNext]_draftVars PROVE Underway'
  OBVIOUS
<1>1. CASE UNCHANGED draftVars
  <2>1. ScriptDrafts' = ScriptDrafts /\ stage' = stage /\ drafts' = drafts /\ phase' = phase
    BY <1>1, ScriptStays DEF draftVars, vars
  <2> QED BY <2>1 DEF Underway, Keeps, DraftForm
<1>2. CASE Match
  <2>1. CASE stage = "script"
    BY <1>2, <2>1 DEF Match, Underway
  <2>2. CASE stage # "script"
    BY <1>1, <1>2, <2>2, MatcherRests DEF Underway
  <2> QED BY <2>1, <2>2
<1>3. ASSUME UNCHANGED vars, phase = "matched", Keeps(ScriptDrafts, drafts'),
             stage' \in {"drafted", "refined", "final"}, stage' = "drafted" => drafts' = ScriptDrafts
      PROVE  Underway'
  <2>1. ScriptDrafts' = ScriptDrafts /\ phase' = phase
    BY <1>3, ScriptStays DEF vars
  <2> QED BY <1>3, <2>1 DEF Underway, Keeps, DraftForm
<1>4. CASE DeriveScript
  <2>1. Keeps(ScriptDrafts, ScriptDrafts)
    BY ScriptForm DEF Keeps
  <2> QED BY <1>3, <1>4, <2>1 DEF DeriveScript, Take
<1>5. CASE Refine
  <2>1. stage = "drafted" /\ stage' = "refined" /\ UNCHANGED vars
    BY <1>5 DEF Refine, Take
  <2>2. PICK order \in SetToSeqs(MovedEntities(RefinePromotions(drafts))) :
          drafts' = RefineSuppressions(InsideMoves(RefinePromotions(drafts), order))
    BY <1>5 DEF Refine, Take
  <2>3. Keeps(drafts, drafts') /\ Keeps(ScriptDrafts, drafts)
    BY <2>1, <2>2, RefineKeeps DEF Underway, Keeps
  <2> QED BY <1>3, <2>1, <2>3, KeepsOn DEF Underway
<1>6. CASE Finalize
  <2>1. /\ stage = "refined" /\ stage' = "final" /\ UNCHANGED vars
        /\ drafts' = LowSignalReorders(Suppressed(Promoted(drafts)))
    BY <1>6 DEF Finalize, Take
  <2>2. Keeps(drafts, drafts') /\ Keeps(ScriptDrafts, drafts)
    BY <2>1, FinalizeKeeps DEF Underway, Keeps
  <2> QED BY <1>3, <2>1, <2>2, KeepsOn DEF Underway
<1> QED BY <1>1, <1>2, <1>4, <1>5, <1>6 DEF FinalizationNext, RefinementNext

(* Drafts of what was removed and added are of what the script removed and  *)
(* added.                                                                   *)
LEMMA OnlyTheUnmatched ==
  ASSUME NEW D, Keeps(ScriptDrafts, D)
  PROVE  DeletedNodes(D) \subseteq Deletes /\ AddedNodes(D) \subseteq Inserts
<1>1. ASSUME NEW d \in D, d.kind = "DELETION" PROVE \E n \in Deletes : d.old = {n}
  BY <1>1, ScriptForm, DraftFields DEF Keeps
<1>2. ASSUME NEW d \in D, d.kind = "ADDITION" PROVE \E n \in Inserts : d.new = {n}
  BY <1>2, ScriptForm, DraftFields DEF Keeps
<1> QED BY <1>1, <1>2 DEF DeletedNodes, AddedNodes, OldOf, NewOf, OfKind

(* For any two trees high enough for the comparison of subtrees to reach    *)
(* the root: two versions that are equal give no change, and no pass calls  *)
(* removed or added what the matching has a partner for.                    *)
THEOREM NothingInvented == FinalizationSpec => [](Tall => NothingIsInvented)
<1>1. IInv /\ Settled /\ Underway => (Tall => NothingIsInvented)
  <2> SUFFICES ASSUME IInv, Settled, Underway, Tall, stage # "script"
               PROVE  /\ SameTrees => drafts = {}
                      /\ DeletedNodes(drafts) \subseteq UnmatchedOld
                      /\ AddedNodes(drafts) \subseteq UnmatchedNew
    BY DEF NothingIsInvented
  <2>1. phase = "matched" /\ Keeps(ScriptDrafts, drafts)
    BY DEF Underway
  <2>2. ASSUME SameTrees PROVE drafts = {}
    <3>1. Inputs /\ Matching(pairs) /\ Alike
      BY <2>2, Hypotheses, SameTreesAreAlike
    <3>2. Diagonal(pairs) /\ Full(pairs)
      BY <2>1, <2>2 DEF Settled, Reached, ReachedAt
    <3>3. ScriptDrafts = {}
      BY <3>1, <3>2, FullIsEmpty DEF EmptyScript, ScriptDrafts
    <3> QED BY <2>1, <3>3 DEF Keeps
  <2>3. Deletes \subseteq UnmatchedOld /\ Inserts \subseteq UnmatchedNew
    BY DEF Deletes, Inserts
  <2> QED BY <2>1, <2>2, <2>3, OnlyTheUnmatched
<1>2. Spec => [](IInv /\ Settled)
  BY InitIInv, StepIInv, InitSettled, StepSettled, PTL DEF Spec
<1>3. FinalizationSpec => []Underway
  BY InitUnderway, StepUnderway, PTL DEF FinalizationSpec
<1> QED BY <1>1, <1>2, <1>3, ReviewKeepsTheMatching, PTL

-----------------------------------------------------------------------------
(* Nothing twice. *)

(* What is told by what it is in. *)
LEMMA RidesAlong ==
  ASSUME NEW D, NEW d \in D
  PROVE  LET movedFrom == Roots(O, OldOf(OfKind(D, "MOVE")))
             cameTo == Roots(N, AddedNodes(D)) \cup Roots(N, NewOf(OfKind(D, "MOVE")))
         IN /\ d.kind = "DELETION" =>
                 (d \in DescendantNoise(D) <=> Inside(d.old, Roots(O, DeletedNodes(D)) \cup movedFrom))
            /\ d.kind = "ADDITION" => (d \in DescendantNoise(D) <=> Inside(d.new, cameTo))
            /\ d.kind \in {"MOVE", "REORDER"} =>
                 (d \in DescendantNoise(D) <=> Inside(d.old, movedFrom) \/ Inside(d.new, cameTo))
            /\ d.kind \in {"MODIFICATION", "REFACTORING"} => d \notin DescendantNoise(D)
<1> DEFINE a == Inside(d.old, Roots(O, DeletedNodes(D)) \cup Roots(O, OldOf(OfKind(D, "MOVE"))))
           b == Inside(d.new, Roots(N, AddedNodes(D)) \cup Roots(N, NewOf(OfKind(D, "MOVE"))))
           c == Inside(d.old, Roots(O, OldOf(OfKind(D, "MOVE"))))
<1>1. d \in DescendantNoise(D) <=>
        CASE d.kind = "DELETION" -> a
          [] d.kind = "ADDITION" -> b
          [] d.kind \in {"MOVE", "REORDER"} -> c \/ b
          [] OTHER -> FALSE
  BY DEF DescendantNoise
<1> HIDE DEF a, b, c
<1>2. /\ d.kind = "DELETION" => (d \in DescendantNoise(D) <=> a)
      /\ d.kind = "ADDITION" => (d \in DescendantNoise(D) <=> b)
      /\ d.kind \in {"MOVE", "REORDER"} => (d \in DescendantNoise(D) <=> c \/ b)
      /\ d.kind \in {"MODIFICATION", "REFACTORING"} => d \notin DescendantNoise(D)
  BY <1>1
<1> QED BY <1>2 DEF a, b, c

(* What comes after the drafts inside others are taken away takes more.     *)
LEMMA RefinedIsFlat ==
  ASSUME NEW D, DraftForm(D),
         \A d \in D : /\ d.kind = "DELETION" => \E n : d = Deletion(n)
                      /\ d.kind = "ADDITION" => \E n : d = Addition(n)
  PROVE  LET E == RefineSuppressions(D)
         IN /\ \A m, n \in DeletedNodes(E) : Below(m, n) => O[n].type = "module"
            /\ \A m, n \in AddedNodes(E) : Below(m, n) => N[n].type = "module"
<1> DEFINE E == RefineSuppressions(D)
           D1 == D \ SameLabelDeletes(D)
<1>1. E \subseteq D1 \ DescendantNoise(D1)
  BY Zenon DEF RefineSuppressions
<1>2. D1 \subseteq D
  OBVIOUS
<1> HIDE DEF D1, E
<1>3. \A n : /\ n \in DeletedNodes(E) => Deletion(n) \in E
             /\ n \in AddedNodes(E) => Addition(n) \in E
  BY <1>1, <1>2, DraftFields DEF DeletedNodes, AddedNodes, OldOf, NewOf, OfKind
<1>4. \A n : /\ Deletion(n) \in D1 => n \in DeletedNodes(D1)
             /\ Addition(n) \in D1 => n \in AddedNodes(D1)
  BY DraftFields DEF DeletedNodes, AddedNodes, OldOf, NewOf, OfKind
<1>5. ASSUME NEW m \in DeletedNodes(E), NEW n \in DeletedNodes(E), Below(m, n)
      PROVE  O[n].type = "module"
  <2> SUFFICES ASSUME O[n].type # "module" PROVE FALSE
    OBVIOUS
  <2>1. n \in Roots(O, DeletedNodes(D1)) /\ Deletion(m) \in D1 /\ Deletion(m) \notin DescendantNoise(D1)
    BY <1>1, <1>3, <1>4 DEF Roots
  <2>2. Deletion(m).kind = "DELETION" /\ m \in Deletion(m).old
    BY DraftFields
  <2>3. Deletion(m) \in DescendantNoise(D1)
    BY <1>5, <2>1, <2>2, RidesAlong DEF Inside
  <2> QED BY <2>1, <2>3
<1>6. ASSUME NEW m \in AddedNodes(E), NEW n \in AddedNodes(E), Below(m, n)
      PROVE  N[n].type = "module"
  <2> SUFFICES ASSUME N[n].type # "module" PROVE FALSE
    OBVIOUS
  <2>1. n \in Roots(N, AddedNodes(D1)) /\ Addition(m) \in D1 /\ Addition(m) \notin DescendantNoise(D1)
    BY <1>1, <1>3, <1>4 DEF Roots
  <2>2. Addition(m).kind = "ADDITION" /\ m \in Addition(m).new
    BY DraftFields
  <2>3. Addition(m) \in DescendantNoise(D1)
    BY <1>6, <2>1, <2>2, RidesAlong DEF Inside
  <2> QED BY <2>1, <2>3
<1> QED BY <1>5, <1>6 DEF E

(* The drafts of a kind that a pass keeps from those before it. *)
LEMMA FewerNodes ==
  ASSUME NEW D, NEW E, Keeps(D, E)
  PROVE  DeletedNodes(E) \subseteq DeletedNodes(D) /\ AddedNodes(E) \subseteq AddedNodes(D)
BY DEF Keeps, DeletedNodes, AddedNodes, OldOf, NewOf, OfKind

(* Nothing is removed or added that is the end of a pairing too. *)
Apart(D) ==
  LET P == {d \in D : Paired(d)}
  IN DeletedNodes(D) \cap OldOf(P) = {} /\ AddedNodes(D) \cap NewOf(P) = {}

LEMMA SuppressedIsApart ==
  ASSUME Matching(pairs), NEW D, Keeps(ScriptDrafts, D)
  PROVE  Apart(Suppressed(D))
<1> DEFINE D1 == DedupeRenames(D)
           D2 == D1 \ SignatureNoise(D1)
           D3 == D2 \ WithoutDelta(D2)
           D4 == D3 \ AroundLeaves(D3)
           E == Suppressed(D)
<1>1. E \subseteq D4 \ CoveredByPairings(D4)
  BY Zenon DEF Suppressed
<1>2. D4 \subseteq D
  BY SuppressedKinds DEF Keeps
<1> HIDE DEF D4, E
<1>3. Keeps(ScriptDrafts, E)
  BY <1>1, <1>2 DEF Keeps, DraftForm
<1>4. /\ \A n \in DeletedNodes(E) : Deletion(n) \in E /\ n \in UnmatchedOld
      /\ \A n \in AddedNodes(E) : Addition(n) \in E /\ n \in UnmatchedNew
  <2>1. DeletedNodes(E) \subseteq Deletes /\ AddedNodes(E) \subseteq Inserts
    BY <1>3, OnlyTheUnmatched
  <2>2. Deletes \subseteq UnmatchedOld /\ Inserts \subseteq UnmatchedNew
    BY DEF Deletes, Inserts
  <2>3. /\ \A d \in E : d.kind = "DELETION" => \E n : d = Deletion(n)
        /\ \A d \in E : d.kind = "ADDITION" => \E n : d = Addition(n)
    BY <1>3, ScriptForm DEF Keeps
  <2>4. /\ \A n \in DeletedNodes(E) : Deletion(n) \in E
        /\ \A n \in AddedNodes(E) : Addition(n) \in E
    BY <2>3, DraftFields DEF DeletedNodes, AddedNodes, OldOf, NewOf, OfKind
  <2> QED BY <2>1, <2>2, <2>4
<1>5. ASSUME NEW e \in E, Paired(e)
      PROVE  \/ e.kind \in {"MODIFICATION", "REFACTORING", "MOVE"}
             \/ e.old \cap UnmatchedOld = {} /\ e.new \cap UnmatchedNew = {}
  <2>1. e.kind \in DraftKind
    BY <1>3 DEF Keeps, DraftForm
  <2>2. CASE e.kind \in {"DELETION", "ADDITION"}
    BY <1>3, <1>5, <2>2, ScriptForm, DraftFields DEF Keeps, Paired
  <2>3. CASE e.kind = "REORDER"
    <3>1. PICK p \in Reorders : e = Pairing("REORDER", p)
      BY <1>3, <2>3, ScriptForm DEF Keeps
    <3>2. p \in pairs /\ e.old = {p[1]} /\ e.new = {p[2]}
      BY <3>1, DraftFields DEF Reorders
    <3> QED BY <3>2 DEF UnmatchedOld, UnmatchedNew, FreeOld, FreeNew, MatchedOld, MatchedNew
  <2> QED BY <2>1, <2>2, <2>3 DEF DraftKind
<1> DEFINE P == {d \in D4 : d.kind \in {"MODIFICATION", "REFACTORING", "MOVE"} /\ Paired(d)}
<1>6. /\ \A n \in OldOf(P) : Deletion(n) \in CoveredByPairings(D4)
      /\ \A n \in NewOf(P) : Addition(n) \in CoveredByPairings(D4)
  BY DEF CoveredByPairings
<1> HIDE DEF P
<1>7. ASSUME NEW e \in E, Paired(e), e.kind \in {"MODIFICATION", "REFACTORING", "MOVE"}
      PROVE  e \in P
  BY <1>1, <1>7 DEF P
<1>8. ASSUME NEW e \in E, Paired(e)
      PROVE  e.old \cap DeletedNodes(E) = {} /\ e.new \cap AddedNodes(E) = {}
  BY <1>1, <1>4, <1>5, <1>6, <1>7, <1>8 DEF OldOf, NewOf
<1>9. Apart(E)
  BY <1>8 DEF Apart, OldOf, NewOf
<1> QED BY <1>9 DEF E

LEMMA ReordersAreMatched ==
  ASSUME Matching(pairs), NEW D, Keeps(ScriptDrafts, D), NEW q \in ReorderedAlike(D)
  PROVE  q \in Reorders /\ Pairing("REORDER", q) \in D
<1>1. PICK d \in D : d.kind = "REORDER" /\ q \in d.old \X d.new
  BY DEF ReorderedAlike, OfKind
<1>2. PICK p \in Reorders : d = Pairing("REORDER", p)
  BY <1>1, ScriptForm DEF Keeps
<1>3. p = <<p[1], p[2]>>
  BY DEF Matching, Reorders
<1>4. q = p
  BY <1>1, <1>2, <1>3, DraftFields
<1> QED BY <1>1, <1>2, <1>4

LEMMA FinalIsApart ==
  ASSUME Matching(pairs), NEW D, Keeps(ScriptDrafts, D), Apart(D)
  PROVE  Apart(LowSignalReorders(D))
<1> DEFINE k(q) == IF O[q[1]].type = "decorator" \/ (InRename(D, q) /\ ~IsNamedEntity(O[q[1]]))
                   THEN "MODIFICATION" ELSE "MOVE"
           Q == {Pairing(k(q), q) : q \in Movers(D)}
           E == LowSignalReorders(D)
<1>1. \A e \in E : e \in D \/ e \in Q
  BY DEF LowSignalReorders
<1>2. \A q \in Movers(D) : q[1] \notin UnmatchedOld /\ q[2] \notin UnmatchedNew
  <2>1. Movers(D) \subseteq ReorderedAlike(D)
    BY DEF Movers
  <2>2. Movers(D) \subseteq pairs
    BY <2>1, ReordersAreMatched DEF Reorders
  <2> QED BY <2>2 DEF UnmatchedOld, UnmatchedNew, FreeOld, FreeNew, MatchedOld, MatchedNew
<1> HIDE DEF k
<1>3. \A e \in Q : e.old \cap UnmatchedOld = {} /\ e.new \cap UnmatchedNew = {}
  BY <1>2, DraftFields
<1> HIDE DEF Q
<1>4. Keeps(D, E)
  BY LowSignalReordersKeeps DEF Keeps
<1> HIDE DEF E
<1>5. /\ DeletedNodes(E) \subseteq DeletedNodes(D) /\ AddedNodes(E) \subseteq AddedNodes(D)
      /\ DeletedNodes(D) \subseteq UnmatchedOld /\ AddedNodes(D) \subseteq UnmatchedNew
  BY <1>4, FewerNodes, OnlyTheUnmatched DEF Deletes, Inserts
<1>6. ASSUME NEW e \in E, Paired(e)
      PROVE  e.old \cap DeletedNodes(E) = {} /\ e.new \cap AddedNodes(E) = {}
  <2>1. CASE e \in D
    BY <1>5, <1>6, <2>1 DEF Apart, OldOf, NewOf
  <2>2. CASE e \in Q
    BY <1>3, <1>5, <2>2
  <2> QED BY <1>1, <2>1, <2>2
<1>7. Apart(E)
  BY <1>6 DEF Apart, OldOf, NewOf
<1> QED BY <1>7 DEF E

(* No removed node inside a removed one, and no added one in an added one.  *)
IsFlat(D) ==
  /\ \A m, n \in DeletedNodes(D) : Below(m, n) => O[n].type = "module"
  /\ \A m, n \in AddedNodes(D) : Below(m, n) => N[n].type = "module"

Told ==
  /\ stage \in {"refined", "final"} => IsFlat(drafts)
  /\ stage = "final" => Apart(drafts)

LEMMA StepTold ==
  ASSUME IInv, Underway, Told, [FinalizationNext]_draftVars
  PROVE  Told'
<1>1. CASE UNCHANGED draftVars
  BY <1>1 DEF draftVars, vars, Told, IsFlat, Apart
<1>2. CASE Match
  <2>1. CASE stage = "script"
    BY <1>2, <2>1 DEF Match, Told
  <2>2. CASE stage # "script"
    BY <1>1, <1>2, <2>2, MatcherRests DEF Underway
  <2> QED BY <2>1, <2>2
<1>3. ASSUME UNCHANGED vars, IsFlat(drafts'), stage' = "final" => Apart(drafts')
      PROVE  Told'
  BY <1>3 DEF Told, IsFlat, Apart, vars
<1>4. CASE DeriveScript
  BY <1>4 DEF DeriveScript, Take, Told
<1>5. CASE Refine
  <2>1. stage = "drafted" /\ stage' = "refined" /\ UNCHANGED vars
    BY <1>5 DEF Refine, Take
  <2>2. PICK order \in SetToSeqs(MovedEntities(RefinePromotions(drafts))) :
          drafts' = RefineSuppressions(InsideMoves(RefinePromotions(drafts), order))
    BY <1>5 DEF Refine, Take
  <2> DEFINE D == InsideMoves(RefinePromotions(drafts), order)
  <2>3. DraftForm(drafts) /\ Keeps(ScriptDrafts, drafts)
    BY <2>1 DEF Underway, Keeps
  <2>4. Keeps(drafts, D)
    BY <2>3, RefinedBeforeNoise DEF Promotes, Keeps
  <2>5. Keeps(ScriptDrafts, D)
    BY <2>3, <2>4, KeepsOn
  <2> HIDE DEF D
  <2>6. IsFlat(RefineSuppressions(D))
    BY <2>5, RefinedIsFlat, ScriptForm DEF Keeps, IsFlat
  <2> QED BY <1>3, <2>1, <2>2, <2>6 DEF D
<1>6. CASE Finalize
  <2>1. /\ stage = "refined" /\ stage' = "final" /\ UNCHANGED vars
        /\ drafts' = LowSignalReorders(Suppressed(Promoted(drafts)))
    BY <1>6 DEF Finalize, Take
  <2>2. DraftForm(drafts) /\ Keeps(ScriptDrafts, drafts) /\ Matching(pairs)
    BY <2>1, Hypotheses DEF Underway, Keeps
  <2>3. IsFlat(drafts')
    <3>1. Keeps(drafts, drafts')
      BY <2>1, <2>2, FinalizeKeeps
    <3> QED BY <2>1, <3>1, FewerNodes DEF Told, IsFlat
  <2>4. Apart(drafts')
    <3> DEFINE D == Promoted(drafts)
    <3>1. Promotes(drafts, D) /\ DraftForm(D)
      BY <2>2, PromotedPromotes DEF Promotes
    <3> HIDE DEF D
    <3>2. Keeps(ScriptDrafts, D)
      BY <2>2, <3>1, KeepsOn DEF Promotes, Keeps
    <3>3. Apart(Suppressed(D)) /\ Promotes(D, Suppressed(D))
      BY <2>2, <3>1, <3>2, SuppressedIsApart, SuppressedPromotes
    <3>4. Keeps(ScriptDrafts, Suppressed(D))
      BY <3>2, <3>3, KeepsOn DEF Promotes, Keeps
    <3>5. Apart(LowSignalReorders(Suppressed(D)))
      BY <2>2, <3>3, <3>4, FinalIsApart
    <3> QED BY <2>1, <3>5 DEF D
  <2> QED BY <1>3, <2>1, <2>3, <2>4
<1> QED BY <1>1, <1>2, <1>4, <1>5, <1>6 DEF FinalizationNext, RefinementNext

(* For any two trees: of what the review tells as removed or added, nothing *)
(* is the end of another change, nor inside something that is removed or    *)
(* added as well.                                                           *)
THEOREM ToldOnce == FinalizationSpec => []ChangesAreToldOnce
<1>1. RefinementInit => Told
  BY DEF RefinementInit, Told
<1>2. IInv /\ Underway /\ Told /\ [FinalizationNext]_draftVars => Told'
  BY StepTold
<1>3. Told => ChangesAreToldOnce
  BY DEF Told, IsFlat, Apart, ChangesAreToldOnce, Done
<1>4. Spec => []IInv
  BY InitIInv, StepIInv, PTL DEF Spec
<1>5. FinalizationSpec => []Underway
  BY InitUnderway, StepUnderway, PTL DEF FinalizationSpec
<1> QED BY <1>1, <1>2, <1>3, <1>4, <1>5, ReviewKeepsTheMatching, PTL DEF FinalizationSpec

-----------------------------------------------------------------------------
(* Who changes places. *)

(* A longest run that kept its order is one that kept its order.            *)
LEMMA StationaryKeepsOrder ==
  ASSUME NEW G, IsFiniteSet(G), \A q \in G : Slot(q[1]) \in Nat,
         \A q, r \in G : Slot(q[1]) = Slot(r[1]) => q = r
  PROVE  \A q, r \in Stationary(G) : Before(q[1], r[1]) => Before(q[2], r[2])
<1> DEFINE kept == {S \in SUBSET G : \A q, r \in S : Before(q[1], r[1]) => Before(q[2], r[2])}
           longest == {S \in kept : \A R \in kept : Cardinality(R) <= Cardinality(S)}
           earlier(S, R) == \E r \in R \ S : \A q \in S \ R : Slot(q[1]) < Slot(r[1])
<1>1. IsFiniteSet(kept) /\ kept # {}
  <2>1. {} \in kept
    OBVIOUS
  <2>2. IsFiniteSet(SUBSET G) /\ kept \in SUBSET (SUBSET G)
    BY FS_SUBSET
  <2> HIDE DEF kept
  <2> QED BY <2>1, <2>2, FS_Subset
<1>2. \A S \in kept : Cardinality(S) \in Nat
  BY FS_Subset, FS_CardinalityType
<1>3. longest # {}
  <2> HIDE DEF kept
  <2> DEFINE Rel == {t \in kept \X kept : Cardinality(t[2]) <= Cardinality(t[1])}
  <2>1. \A S, R \in kept : <<S, R>> \in Rel <=> Cardinality(R) <= Cardinality(S)
    OBVIOUS
  <2> HIDE DEF Rel
  <2>2. \A S, R \in kept : S = R \/ <<S, R>> \in Rel \/ <<R, S>> \in Rel
    <3> SUFFICES ASSUME NEW S \in kept, NEW R \in kept
                 PROVE  <<S, R>> \in Rel \/ <<R, S>> \in Rel
      OBVIOUS
    <3>1. Cardinality(S) \in Nat /\ Cardinality(R) \in Nat
      BY <1>2
    <3>2. Cardinality(S) <= Cardinality(R) \/ Cardinality(R) <= Cardinality(S)
      BY <3>1
    <3> QED BY <2>1, <3>2
  <2>3. \A S, R, T \in kept : <<S, R>> \in Rel /\ <<R, T>> \in Rel => <<S, T>> \in Rel
    <3> SUFFICES ASSUME NEW S \in kept, NEW R \in kept, NEW T \in kept,
                        <<S, R>> \in Rel, <<R, T>> \in Rel
                 PROVE  Cardinality(T) <= Cardinality(S)
      BY <2>1
    <3>1. Cardinality(R) <= Cardinality(S) /\ Cardinality(T) <= Cardinality(R)
      BY <2>1
    <3>2. Cardinality(S) \in Nat /\ Cardinality(R) \in Nat /\ Cardinality(T) \in Nat
      BY <1>2
    <3> QED BY <3>1, <3>2
  <2>4. PICK S \in kept : \A R \in kept : R = S \/ <<S, R>> \in Rel
    BY <1>1, <2>2, <2>3, Foremost, Zenon
  <2>5. \A R \in kept : Cardinality(R) <= Cardinality(S)
    <3> SUFFICES ASSUME NEW R \in kept PROVE Cardinality(R) <= Cardinality(S)
      OBVIOUS
    <3>1. R = S \/ Cardinality(R) <= Cardinality(S)
      BY <2>1, <2>4, Zenon
    <3>2. Cardinality(S) \in Nat
      BY <1>2
    <3> QED BY <3>1, <3>2
  <2> QED BY <2>5
<1>4. IsFiniteSet(longest) /\ longest \subseteq kept /\ \A S \in longest : S \in SUBSET G
  <2>1. \A S \in kept : S \in SUBSET G
    OBVIOUS
  <2> HIDE DEF kept
  <2>2. longest \in SUBSET kept
    OBVIOUS
  <2> QED BY <1>1, <2>1, <2>2, FS_Subset
<1> HIDE DEF kept, longest
<1>5. ASSUME NEW S \in SUBSET G, NEW R \in SUBSET G, S # R
      PROVE  earlier(S, R) \/ earlier(R, S)
  <2> DEFINE D == (S \ R) \cup (R \ S)
             Rel == {t \in D \X D : Slot(t[2][1]) < Slot(t[1][1])}
  <2>1. IsFiniteSet(D) /\ D # {} /\ D \subseteq G
    BY <1>5, FS_Subset
  <2>2. \A x, y \in D : <<x, y>> \in Rel <=> Slot(y[1]) < Slot(x[1])
    OBVIOUS
  <2> HIDE DEF Rel, D
  <2>7. \A x \in D : Slot(x[1]) \in Nat
    BY <2>1
  <2>3. \A x, y \in D : x = y \/ <<x, y>> \in Rel \/ <<y, x>> \in Rel
    <3> SUFFICES ASSUME NEW x \in D, NEW y \in D, x # y
                 PROVE  <<x, y>> \in Rel \/ <<y, x>> \in Rel
      OBVIOUS
    <3>1. Slot(x[1]) \in Nat /\ Slot(y[1]) \in Nat
      BY <2>7
    <3>2. Slot(x[1]) # Slot(y[1])
      BY <2>1
    <3> QED BY <2>2, <3>1, <3>2
  <2>4. \A x, y, z \in D : <<x, y>> \in Rel /\ <<y, z>> \in Rel => <<x, z>> \in Rel
    BY <2>2, <2>7
  <2>5. PICK x \in D : \A y \in D : y = x \/ <<x, y>> \in Rel
    BY <2>1, <2>3, <2>4, Foremost
  <2>6. \A y \in D : y = x \/ Slot(y[1]) < Slot(x[1])
    BY <2>2, <2>5
  <2> QED BY <2>5, <2>6 DEF D
<1>6. ASSUME NEW S \in SUBSET G, NEW R \in SUBSET G, NEW T \in SUBSET G, earlier(S, R), earlier(R, T)
      PROVE  earlier(S, T)
  <2>1. PICK r \in R \ S : \A q \in S \ R : Slot(q[1]) < Slot(r[1])
    BY <1>6
  <2>2. PICK t \in T \ R : \A q \in R \ T : Slot(q[1]) < Slot(t[1])
    BY <1>6
  <2>3. /\ Slot(r[1]) \in Nat /\ Slot(t[1]) \in Nat /\ Slot(r[1]) # Slot(t[1])
        /\ \A q \in G : Slot(q[1]) \in Nat
    BY <2>1, <2>2
  <2>4. CASE Slot(r[1]) < Slot(t[1])
    <3>1. t \in T \ S
      BY <2>1, <2>2, <2>3, <2>4
    <3>2. \A q \in S \ T : Slot(q[1]) < Slot(t[1])
      BY <2>1, <2>2, <2>3, <2>4
    <3> QED BY <3>1, <3>2
  <2>5. CASE Slot(t[1]) < Slot(r[1])
    <3>1. r \in T \ S
      BY <2>1, <2>2, <2>3, <2>5
    <3>2. \A q \in S \ T : Slot(q[1]) < Slot(r[1])
      BY <2>1, <2>2, <2>3, <2>5
    <3> QED BY <3>1, <3>2
  <2> QED BY <2>3, <2>4, <2>5
<1>7. \E S \in longest : \A R \in longest : R = S \/ earlier(S, R)
  <2> DEFINE Rel == {t \in longest \X longest : earlier(t[1], t[2])}
  <2>1. \A S, R \in longest : <<S, R>> \in Rel <=> earlier(S, R)
    OBVIOUS
  <2> HIDE DEF Rel, earlier
  <2>2. \A S, R \in longest : S = R \/ <<S, R>> \in Rel \/ <<R, S>> \in Rel
    BY <1>4, <1>5, <2>1
  <2>3. \A S, R, T \in longest : <<S, R>> \in Rel /\ <<R, T>> \in Rel => <<S, T>> \in Rel
    BY <1>4, <1>6, <2>1
  <2>4. PICK S \in longest : \A R \in longest : R = S \/ <<S, R>> \in Rel
    BY <1>3, <1>4, <2>2, <2>3, Foremost
  <2> QED BY <2>1, <2>4
<1>8. Stationary(G) = CHOOSE S \in longest : \A R \in longest : R = S \/ earlier(S, R)
  BY Zenon DEF Stationary, longest, kept
<1> HIDE DEF earlier
<1>9. Stationary(G) \in longest
  BY <1>7, <1>8, Zenon
<1> QED BY <1>4, <1>9 DEF kept

-----------------------------------------------------------------------------
(* No draft of a move is made while the drafts are refined. *)
MakesNoMove(D, E) == \A d \in E : d.kind = "MOVE" => d \in D

LEMMA RefinementMakesNoMove ==
  ASSUME NEW D, DraftForm(D), NEW order
  PROVE  MakesNoMove(D, InsideMoves(RefinePromotions(D), order))
<1> DEFINE D1 == RenameUpdates(D)
           D2 == ParentStatements(D1)
           D3 == SameIdNamedRenames(D2)
           D4 == ImportedRenames(D3)
           D5 == InsideMoves(D4, order)
<1>1. \A d \in D1 : d.kind = "MOVE" => d \in D
  <2> DEFINE R == {d \in Modified(D) : \E o \in d.old, n \in d.new :
                     ExactRename(o, n) \/ SimilarBy(Half, o, n)}
             P == {[d EXCEPT !.kind = "REFACTORING"] : d \in R}
  <2>1. \A d \in D1 : d \in D \/ d \in P
    BY DEF RenameUpdates
  <2>2. R \subseteq D
    BY DEF Modified, OfKind
  <2> HIDE DEF R
  <2>3. \A d \in P : d.kind = "REFACTORING"
    <3>1. ASSUME NEW r \in R PROVE [r EXCEPT !.kind = "REFACTORING"].kind = "REFACTORING"
      BY <2>2, Rekinded, DraftFields DEF DraftForm
    <3> QED BY <3>1
  <2> QED BY <2>1, <2>3
<1>2. \A d \in D2 : d \in D1 \/ d.kind = "MODIFICATION"
  BY DraftFields DEF ParentStatements
<1>3. \A d \in D3 : d \in D2 \/ d.kind = "REFACTORING"
  <2>1. \A d \in D3 : d \in D2 \/ \E p : d = Pairing("REFACTORING", p)
    BY Zenon DEF SameIdNamedRenames
  <2> QED BY <2>1, DraftFields
<1>4. \A d \in D4 : d \in D3 \/ d.kind = "REFACTORING"
  <2>1. \A d \in D4 : d \in D3 \/ \E p : d = Pairing("REFACTORING", p)
    BY Zenon DEF ImportedRenames
  <2> QED BY <2>1, DraftFields
<1>5. \A d \in D5 : d \in D4 \/ d.kind = "MODIFICATION"
  <2>1. \A d \in D5 : d \in D4 \/ \E p : d = Pairing("MODIFICATION", p)
    BY Zenon DEF InsideMoves
  <2> QED BY <2>1, DraftFields
<1> HIDE DEF D1, D2, D3, D4, D5
<1>6. \A d \in D5 : d.kind = "MOVE" => d \in D
  BY <1>1, <1>2, <1>3, <1>4, <1>5
<1> QED BY <1>6 DEF MakesNoMove, RefinePromotions, D1, D2, D3, D4, D5

Unwrapped == \A n \in NewNode : N[n].type # Wrapper

(* Where no decorator is put on, what is put in order inside an added node  *)
(* is inside something moved there: the highest paired node below it.       *)
LEMMA OrderInsideAdded ==
  ASSUME Inputs, Matching(pairs), Unwrapped, NEW p \in pairs, NEW r \in UnmatchedNew,
         Below(p[2], r)
  PROVE  p \in Moves \/ p[2] \in MovedNew
<1>0. /\ DOMAIN N \subseteq Seq(Nat) /\ N \in Trees /\ O \in Trees
      /\ \A m \in UnmatchedNew : m \in DOMAIN N
      /\ \A q \in pairs : q[1] \in DOMAIN O /\ q[2] \in DOMAIN N /\ q = <<q[1], q[2]>>
  BY TreeAssumption DEF Inputs, UnmatchedNew, FreeNew, NewNode, OldNode, Matching
<1> DEFINE S == {m \in DOMAIN N : /\ \E q \in pairs : q[2] = m
                                  /\ m = p[2] \/ Below(p[2], m)
                                  /\ Below(m, r)}
<1>1. PICK m \in S : \A k \in S : Len(m) <= Len(k)
  <2>1. S \in SUBSET Seq(Nat) /\ p[2] \in S
    BY <1>0
  <2> HIDE DEF S
  <2> QED BY <2>1, Highest
<1>2. PICK q \in pairs : q[2] = m
  OBVIOUS
<1>3. /\ m \in DOMAIN N /\ m \in Seq(Nat) /\ r \in Seq(Nat) /\ Below(m, r) /\ m # Root
      /\ p[2] \in Seq(Nat) /\ p[2] \in DOMAIN N
  BY <1>0, NothingAboveRoot
<1>4. /\ Parent(m) \in DOMAIN N /\ Parent(m) \in Seq(Nat)
      /\ Below(m, Parent(m)) /\ Len(m) = Len(Parent(m)) + 1
  BY <1>0, <1>3, SlotAssumption, BelowParent
<1>5. Parent(m) \in UnmatchedNew
  <2> SUFFICES ASSUME NEW s \in pairs, s[2] = Parent(m) PROVE FALSE
    BY <1>4 DEF UnmatchedNew, FreeNew, MatchedNew, NewNode
  <2>1. Parent(m) # r
    BY DEF UnmatchedNew, FreeNew, MatchedNew
  <2>2. Below(Parent(m), r)
    BY <1>3, <1>4, <2>1, Child
  <2>3. Below(p[2], Parent(m))
    BY <1>3, <1>4, BelowTransitive
  <2>4. Parent(m) \in S
    BY <1>4, <2>2, <2>3
  <2>5. Len(m) <= Len(Parent(m))
    BY <1>1, <2>4
  <2> QED BY <1>4, <2>5
<1>6. q[1] # Root
  <2>1. O[q[1]].type = N[m].type /\ O[Root].type = N[Root].type
    BY <1>0, <1>2, RootAssumption DEF Matching
  <2> QED BY <1>0, <1>3, <2>1, RootAssumption
<1>7. \A s \in pairs : s[2] # Parent(m)
  BY <1>5 DEF UnmatchedNew, FreeNew, MatchedNew
<1>8. q \in Moves
  <2>1. ~SameContainer(q)
    BY <1>2, <1>7 DEF SameContainer
  <2>2. ~SameEffectiveParent(q)
    <3> SUFFICES ASSUME NEW a \in EffectiveParent(O, q[1]), NEW b \in EffectiveParent(N, m),
                        <<a, b>> \in pairs
                 PROVE  FALSE
      BY <1>2 DEF SameEffectiveParent
    <3>1. b = Parent(m)
      BY <1>0, <1>3, EffectiveParentIsParent DEF Unwrapped, NewNode
    <3> QED BY <1>7, <3>1
  <2> QED BY <1>2, <1>3, <1>6, <2>1, <2>2 DEF Moves, Inner
<1>9. CASE m = p[2]
  <2>1. q = p
    BY <1>0, <1>2, <1>9 DEF Matching
  <2> QED BY <1>8, <2>1
<1>10. CASE Below(p[2], m)
  BY <1>2, <1>3, <1>8, <1>10 DEF MovedNew, Descendants
<1> QED BY <1>9, <1>10

(* The reorder of an entity stays a draft until the movers are told. *)
Displaced ==
  stage = "refined" /\ Unwrapped =>
    \A p \in Reorders : IsNamedEntity(O[p[1]]) => Pairing("REORDER", p) \in drafts

LEMMA EntityOrderIsPlaced ==
  ASSUME Matching(pairs), NEW p \in Reorders, IsNamedEntity(O[p[1]])
  PROVE  IsPlaced(Pairing("REORDER", p)) /\ Pairing("REORDER", p) \in ScriptDrafts
<1>1. p \in pairs /\ O[p[1]].type = N[p[2]].type
  BY DEF Reorders, Matching
<1>2. IsNamedEntity(N[p[2]])
  BY <1>1 DEF IsNamedEntity
<1> QED BY <1>2, DraftFields DEF IsPlaced, ScriptDrafts

LEMMA RefineKeepsOrder ==
  ASSUME Inputs, Matching(pairs), Unwrapped,
         NEW order \in SetToSeqs(MovedEntities(RefinePromotions(ScriptDrafts))),
         NEW p \in Reorders, IsNamedEntity(O[p[1]])
  PROVE  Pairing("REORDER", p) \in RefineSuppressions(InsideMoves(RefinePromotions(ScriptDrafts), order))
<1> DEFINE D == InsideMoves(RefinePromotions(ScriptDrafts), order)
           D1 == D \ SameLabelDeletes(D)
           D2 == D1 \ DescendantNoise(D1)
           D3 == D2 \ NoisyMoves(D2)
           D4 == D3 \ ChildNoise(D3)
           D5 == D4 \ ParentNoise(D4)
           d == Pairing("REORDER", p)
<1>1. d.kind = "REORDER" /\ d.old = {p[1]} /\ d.new = {p[2]}
  BY DraftFields
<1>2. /\ Promotes(ScriptDrafts, D) /\ MakesNoMove(ScriptDrafts, D)
      /\ DraftForm(D) /\ Keeps(ScriptDrafts, D)
  BY ScriptForm, RefinedBeforeNoise, RefinementMakesNoMove DEF Promotes, Keeps
<1>3. d \in D
  BY <1>2, EntityOrderIsPlaced DEF Promotes
<1> HIDE DEF D, d
<1>4. d \in D1 /\ DraftForm(D1) /\ D1 \subseteq D
  BY <1>1, <1>2, <1>3, SuppressedKinds DEF DraftForm
<1>5. /\ p \in pairs /\ p \notin Moves /\ p[1] \notin MovedOld /\ p[2] \notin MovedNew
      /\ p[1] \in DOMAIN O /\ p[2] \in DOMAIN N
  BY DEF Reorders, Moves, Matching, OldNode, NewNode
<1> HIDE DEF D1
<1>6. \A e \in OfKind(D1, "MOVE") : \E m \in Moves : e.old = {m[1]} /\ e.new = {m[2]}
  <2> SUFFICES ASSUME NEW e \in D1, e.kind = "MOVE"
               PROVE  \E m \in Moves : e.old = {m[1]} /\ e.new = {m[2]}
    BY DEF OfKind
  <2>1. e \in ScriptDrafts
    BY <1>2, <1>4 DEF MakesNoMove
  <2>2. \E m \in Moves : e = Pairing("MOVE", m)
    BY <2>1, DraftFields DEF ScriptDrafts
  <2> QED BY <2>2, DraftFields
<1>7. ~Inside({p[1]}, Roots(O, OldOf(OfKind(D1, "MOVE"))))
  BY <1>5, <1>6 DEF Inside, Roots, OldOf, MovedOld, Descendants
<1>8. ~Inside({p[2]}, Roots(N, NewOf(OfKind(D1, "MOVE"))))
  BY <1>5, <1>6 DEF Inside, Roots, NewOf, MovedNew, Descendants
<1>9. ~Inside({p[2]}, Roots(N, AddedNodes(D1)))
  <2>1. Keeps(ScriptDrafts, D1)
    BY <1>2, <1>4 DEF Keeps
  <2>2. AddedNodes(D1) \subseteq UnmatchedNew
    BY <2>1, OnlyTheUnmatched DEF Inserts
  <2> QED BY <1>5, <2>2, OrderInsideAdded DEF Inside, Roots
<1>10. ~Inside(d.new, Roots(N, AddedNodes(D1)) \cup Roots(N, NewOf(OfKind(D1, "MOVE"))))
  BY <1>1, <1>8, <1>9 DEF Inside
<1>11. d \in D2
  BY <1>1, <1>4, <1>7, <1>10, RidesAlong
<1>12. DraftForm(D2)
  BY <1>4 DEF DraftForm
<1> HIDE DEF D2
<1>13. d \in D3 /\ DraftForm(D3)
  BY <1>1, <1>11, <1>12, SuppressedKinds DEF DraftForm
<1> HIDE DEF D3
<1>14. d \in D4 /\ DraftForm(D4)
  BY <1>1, <1>13, SuppressedKinds DEF DraftForm
<1> HIDE DEF D4
<1>15. d \in D5 /\ DraftForm(D5)
  BY <1>1, <1>14, SuppressedKinds DEF DraftForm
<1> HIDE DEF D5
<1>16. d \in D5 \ ContainerNoise(D5)
  BY <1>1, <1>15, SuppressedKinds
<1> QED BY <1>16 DEF RefineSuppressions, D, D1, D2, D3, D4, D5, d

LEMMA StepDisplaced ==
  ASSUME IInv, Underway, Displaced, [FinalizationNext]_draftVars
  PROVE  Displaced'
<1>1. CASE UNCHANGED draftVars
  <2>1. Reorders' = Reorders
    BY <1>1, ScriptStays DEF draftVars, vars
  <2> QED BY <1>1, <2>1 DEF draftVars, vars, Displaced, Unwrapped, NewNode
<1>2. CASE Match
  <2>1. CASE stage = "script"
    BY <1>2, <2>1 DEF Match, Displaced
  <2>2. CASE stage # "script"
    BY <1>1, <1>2, <2>2, MatcherRests DEF Underway
  <2> QED BY <2>1, <2>2
<1>3. CASE DeriveScript \/ Finalize
  BY <1>3 DEF DeriveScript, Finalize, Take, Displaced
<1>4. CASE Refine
  <2>1. stage = "drafted" /\ stage' = "refined" /\ UNCHANGED vars
    BY <1>4 DEF Refine, Take
  <2>2. PICK order \in SetToSeqs(MovedEntities(RefinePromotions(drafts))) :
          drafts' = RefineSuppressions(InsideMoves(RefinePromotions(drafts), order))
    BY <1>4 DEF Refine, Take
  <2>3. drafts = ScriptDrafts
    BY <2>1 DEF Underway
  <2>4. Reorders' = Reorders /\ O' = O /\ N' = N
    BY <2>1, ScriptStays DEF vars
  <2>5. Unwrapped' = Unwrapped
    BY <2>4 DEF Unwrapped, NewNode
  <2>6. Unwrapped => \A p \in Reorders : IsNamedEntity(O[p[1]]) => Pairing("REORDER", p) \in drafts'
    BY <2>2, <2>3, Hypotheses, RefineKeepsOrder
  <2> QED BY <2>4, <2>5, <2>6 DEF Displaced
<1> QED BY <1>1, <1>2, <1>3, <1>4 DEF FinalizationNext, RefinementNext

(* Of two entities in the wrong order, one is not among those that stay.    *)
LEMMA SwapsAreMoves ==
  ASSUME Inputs, Matching(pairs), NEW D, Keeps(ScriptDrafts, D),
         NEW p \in Reorders, IsNamedEntity(O[p[1]]), Token(O, p[1]) = Token(N, p[2]),
         NEW q \in Overtaken(p) \cap Reorders,
         Pairing("REORDER", p) \in D, Pairing("REORDER", q) \in D
  PROVE  Pairing("MOVE", p) \in LowSignalReorders(D) \/ Pairing("MOVE", q) \in LowSignalReorders(D)
<1> DEFINE C == {r \in ReorderedAlike(D) :
                   IsNamedEntity(O[r[1]]) \/ O[r[1]].type = "decorator" \/ InRename(D, r)}
           G == {r \in C : Parent(r[1]) = Parent(p[1])}
<1>1. /\ \A r \in pairs : r = <<r[1], r[2]>> /\ r[1] \in DOMAIN O /\ r[2] \in DOMAIN N
      /\ DOMAIN O \subseteq Seq(Nat) /\ DOMAIN N \subseteq Seq(Nat)
      /\ IsFiniteSet(pairs)
  <2>1. pairs \in SUBSET (OldNode \X NewNode)
    BY DEF Matching
  <2>2. IsFiniteSet(OldNode \X NewNode)
    BY TreeAssumption, FS_Product DEF Inputs, OldNode, NewNode
  <2> QED BY <2>1, <2>2, FS_Subset, TreeAssumption DEF OldNode, NewNode, Inputs
<1>2. /\ IsNamedEntity(O[q[1]]) /\ Token(O, q[1]) = Token(N, q[2])
      /\ Before(q[1], p[1]) /\ Before(p[2], q[2]) /\ Parent(q[1]) = Parent(p[1])
  BY DEF Overtaken, Surviving
<1>3. ASSUME NEW r \in {p, q} PROVE r \in G /\ IsNamedEntity(O[r[1]])
  <2>1. /\ r \in Reorders /\ r \in pairs /\ IsNamedEntity(O[r[1]])
        /\ Token(O, r[1]) = Token(N, r[2]) /\ Parent(r[1]) = Parent(p[1])
        /\ Pairing("REORDER", r) \in D
    BY <1>2 DEF Reorders
  <2>2. r = <<r[1], r[2]>> /\ O[r[1]].type = N[r[2]].type /\ O[r[1]].label = N[r[2]].label
    BY <1>1, <2>1 DEF Token
  <2>3. r \in UNION {d.old \X d.new : d \in OfKind(D, "REORDER")}
    <3>1. /\ Pairing("REORDER", r) \in OfKind(D, "REORDER")
          /\ r \in Pairing("REORDER", r).old \X Pairing("REORDER", r).new
      BY <2>1, <2>2, DraftFields DEF OfKind
    <3> QED BY <3>1
  <2>4. r \in ReorderedAlike(D)
    BY <2>2, <2>3 DEF ReorderedAlike
  <2> QED BY <2>1, <2>4
<1>4. G \subseteq Reorders /\ G \subseteq pairs
  <2>1. G \subseteq ReorderedAlike(D)
    OBVIOUS
  <2> QED BY <2>1, ReordersAreMatched DEF Reorders
<1>5. \A r \in G : /\ r[1] # Root /\ Slot(r[1]) \in Nat
                   /\ r[1] = Append(Parent(p[1]), Slot(r[1]))
  <2> SUFFICES ASSUME NEW r \in G
               PROVE  /\ r[1] # Root /\ Slot(r[1]) \in Nat
                      /\ r[1] = Append(Parent(p[1]), Slot(r[1]))
    OBVIOUS
  <2>1. r[1] # Root /\ r[1] \in Seq(Nat) /\ Parent(r[1]) = Parent(p[1])
    BY <1>1, <1>4 DEF Reorders, Inner
  <2> QED BY <2>1, ChildOfParent
<1>6. \A r, s \in G : Slot(r[1]) = Slot(s[1]) => r = s
  <2> SUFFICES ASSUME NEW r \in G, NEW s \in G, Slot(r[1]) = Slot(s[1]) PROVE r = s
    OBVIOUS
  <2>1. r[1] = s[1]
    BY <1>5
  <2> QED BY <1>1, <1>4, <2>1 DEF Matching
<1>7. IsFiniteSet(G)
  BY <1>1, <1>4, FS_Subset
<1>8. p \notin Stationary(G) \/ q \notin Stationary(G)
  <2> SUFFICES ASSUME p \in Stationary(G), q \in Stationary(G) PROVE FALSE
    OBVIOUS
  <2> HIDE DEF G
  <2>1. Before(q[2], p[2])
    BY <1>2, <1>5, <1>6, <1>7, StationaryKeepsOrder
  <2>2. p[2] \in Seq(Nat) /\ q[2] \in Seq(Nat)
    BY <1>1, <1>3, <1>4
  <2> QED BY <1>2, <2>1, <2>2, BeforeIsOneWay
<1>9. ASSUME NEW r \in {p, q}, r \notin Stationary(G)
      PROVE  Pairing("MOVE", r) \in LowSignalReorders(D)
  <2>1. r \in C /\ G = {s \in C : Parent(s[1]) = Parent(r[1])}
    BY <1>2, <1>3
  <2>2. r \in Movers(D)
    BY <1>9, <2>1 DEF Movers
  <2>3. IsNamedEntity(O[r[1]]) /\ O[r[1]].type # "decorator"
    BY <1>3 DEF IsNamedEntity, NamedEntity
  <2> QED BY <2>2, <2>3 DEF LowSignalReorders
<1> QED BY <1>8, <1>9

LEMMA StepSwaps ==
  ASSUME IInv, Underway, Displaced, DisplacedSwapsAreTold, [FinalizationNext]_draftVars
  PROVE  DisplacedSwapsAreTold'
<1>1. CASE UNCHANGED draftVars
  <2>1. Reorders' = Reorders /\ O' = O /\ N' = N /\ pairs' = pairs /\ drafts' = drafts /\ stage' = stage
    BY <1>1, ScriptStays DEF draftVars, vars
  <2> QED BY <2>1 DEF DisplacedSwapsAreTold, Done, Overtaken, Surviving, NewNode
<1>2. CASE Match
  <2>1. CASE stage = "script"
    BY <1>2, <2>1 DEF Match, DisplacedSwapsAreTold, Done
  <2>2. CASE stage # "script"
    BY <1>1, <1>2, <2>2, MatcherRests DEF Underway
  <2> QED BY <2>1, <2>2
<1>3. CASE DeriveScript \/ Refine
  BY <1>3 DEF DeriveScript, Refine, Take, DisplacedSwapsAreTold, Done
<1>4. CASE Finalize
  <2>1. /\ stage = "refined" /\ UNCHANGED vars
        /\ drafts' = LowSignalReorders(Suppressed(Promoted(drafts)))
    BY <1>4 DEF Finalize, Take
  <2>2. DraftForm(drafts) /\ Keeps(ScriptDrafts, drafts) /\ Inputs /\ Matching(pairs)
    BY <2>1, Hypotheses DEF Underway, Keeps
  <2> DEFINE D == Suppressed(Promoted(drafts))
  <2>3. Promotes(drafts, D)
    <3> DEFINE D1 == Promoted(drafts)
    <3>1. Promotes(drafts, D1) /\ DraftForm(D1)
      BY <2>2, PromotedPromotes DEF Promotes
    <3> HIDE DEF D1
    <3>2. Promotes(D1, Suppressed(D1))
      BY <3>1, SuppressedPromotes
    <3> QED BY <3>1, <3>2, PromotesOn DEF D1
  <2> HIDE DEF D
  <2>4. Keeps(ScriptDrafts, D)
    BY <2>2, <2>3, KeepsOn DEF Promotes, Keeps
  <2>5. ASSUME Unwrapped, NEW p \in Reorders, IsNamedEntity(O[p[1]]) PROVE Pairing("REORDER", p) \in D
    BY <2>1, <2>2, <2>3, <2>5, EntityOrderIsPlaced DEF Promotes, Displaced
  <2>6. ASSUME Unwrapped, NEW p \in Reorders, IsNamedEntity(O[p[1]]), Token(O, p[1]) = Token(N, p[2]),
               NEW q \in Overtaken(p) \cap Reorders
        PROVE  Pairing("MOVE", p) \in drafts' \/ Pairing("MOVE", q) \in drafts'
    <3>1. IsNamedEntity(O[q[1]])
      BY DEF Overtaken
    <3>2. Pairing("REORDER", p) \in D /\ Pairing("REORDER", q) \in D
      BY <2>5, <2>6, <3>1
    <3>3. drafts' = LowSignalReorders(D)
      BY <2>1 DEF D
    <3> QED BY <2>2, <2>4, <2>6, <3>2, <3>3, SwapsAreMoves
  <2>7. Reorders' = Reorders /\ O' = O /\ N' = N /\ pairs' = pairs
    BY <2>1, ScriptStays DEF vars
  <2>8. \A p : Overtaken(p)' = Overtaken(p)
    BY <2>7 DEF Overtaken, Surviving
  <2>9. Unwrapped' = Unwrapped
    BY <2>7 DEF Unwrapped, NewNode
  <2> QED BY <2>6, <2>7, <2>8, <2>9 DEF DisplacedSwapsAreTold, Unwrapped
<1> QED BY <1>1, <1>2, <1>3, <1>4 DEF FinalizationNext, RefinementNext

(* For any two trees of which the new one has no decorators: of two         *)
(* entities that change places and their numbers among their siblings, one  *)
(* is told as moved, whatever the passes do.                                *)
THEOREM DisplacedSwaps == FinalizationSpec => []DisplacedSwapsAreTold
<1>1. RefinementInit => Displaced /\ DisplacedSwapsAreTold
  BY DEF RefinementInit, Displaced, DisplacedSwapsAreTold, Done
<1>2. IInv /\ Underway /\ Displaced /\ DisplacedSwapsAreTold /\ [FinalizationNext]_draftVars
        => Displaced' /\ DisplacedSwapsAreTold'
  BY StepDisplaced, StepSwaps
<1>3. Spec => []IInv
  BY InitIInv, StepIInv, PTL DEF Spec
<1>4. FinalizationSpec => []Underway
  BY InitUnderway, StepUnderway, PTL DEF FinalizationSpec
<1> QED BY <1>1, <1>2, <1>3, <1>4, ReviewKeepsTheMatching, PTL DEF FinalizationSpec

-----------------------------------------------------------------------------
(* What a token that goes, or comes, is told by. *)

LEMMA InPlaceStays ==
  ASSUME O' = O, N' = N, pairs' = pairs
  PROVE  InPlace' = InPlace
<1>1. ScriptDrafts' = ScriptDrafts
  BY ScriptStays
<1>2. ASSUME NEW o, NEW n
      PROVE  /\ SimilarBy(Half, o, n)' <=> SimilarBy(Half, o, n)
             /\ ExactRename(o, n)' <=> ExactRename(o, n)
  BY DEF SimilarBy, ExactRename, Renaming
<1>3. RenameUpdates(ScriptDrafts)' = RenameUpdates(ScriptDrafts)
  <2> DEFINE R == {d \in Modified(ScriptDrafts) : \E o \in d.old, n \in d.new :
                     ExactRename(o, n) \/ SimilarBy(Half, o, n)}
  <2>1. R' = R
    BY <1>1, <1>2
  <2>2. NamePairs(R)' = NamePairs(R)
    <3> HIDE DEF R
    <3> QED BY <2>1 DEF NamePairs
  <2> QED BY <1>1, <2>1, <2>2, Zenon DEF RenameUpdates
<1>4. EditedInPlace(RenameUpdates(ScriptDrafts))' = EditedInPlace(RenameUpdates(ScriptDrafts))
  BY <1>3 DEF EditedInPlace
<1> QED BY <1>4 DEF InPlace

(* A refactoring is never taken back while the drafts are refined, and a    *)
(* removed or added node only for a draft around it, or when it is a bare   *)
(* container that tells of nothing.                                         *)
LEMMA WhatStays ==
  ASSUME NEW D, DraftForm(D)
  PROVE  LET D1 == D \ SameLabelDeletes(D)
             E == RefineSuppressions(D)
         IN \E F \in SUBSET D1 :
              /\ E = F \ ContainerNoise(F) /\ DraftForm(D1)
              /\ \A d \in D : d.kind = "REFACTORING" => d \in E
              /\ \A d \in D1 : d.kind \in {"DELETION", "ADDITION"} /\ d \notin DescendantNoise(D1) => d \in F
<1> DEFINE D1 == D \ SameLabelDeletes(D)
           D2 == D1 \ DescendantNoise(D1)
           D3 == D2 \ NoisyMoves(D2)
           D4 == D3 \ ChildNoise(D3)
           D5 == D4 \ ParentNoise(D4)
           stays(d) == d.kind \in {"DELETION", "ADDITION"} /\ d \in D1 /\ d \notin DescendantNoise(D1)
           names(d) == d.kind = "REFACTORING" /\ d \in D
<1>1. DraftForm(D1) /\ (\A d : names(d) => d \in D1)
  BY SuppressedKinds DEF DraftForm
<1>2. DraftForm(D2) /\ D2 \subseteq D1 /\ (\A d : names(d) \/ stays(d) => d \in D2)
  <2> HIDE DEF D1
  <2>1. \A d : names(d) => d \notin DescendantNoise(D1)
    BY <1>1, RidesAlong
  <2> QED BY <1>1, <2>1 DEF DraftForm
<1> HIDE DEF D2
<1>3. DraftForm(D3) /\ D3 \subseteq D1 /\ (\A d : names(d) \/ stays(d) => d \in D3)
  <2> HIDE DEF D1
  <2>1. \A d : names(d) \/ stays(d) => d.kind # "MOVE"
    OBVIOUS
  <2> HIDE DEF names, stays
  <2> QED BY <1>2, <2>1, SuppressedKinds DEF DraftForm
<1> HIDE DEF D3
<1>4. DraftForm(D4) /\ D4 \subseteq D1 /\ (\A d : names(d) \/ stays(d) => d \in D4)
  <2> HIDE DEF D1
  <2>1. \A d : names(d) \/ stays(d) => d.kind # "MODIFICATION"
    OBVIOUS
  <2> HIDE DEF names, stays
  <2> QED BY <1>3, <2>1, SuppressedKinds DEF DraftForm
<1> HIDE DEF D4
<1>5. DraftForm(D5) /\ D5 \subseteq D1 /\ (\A d : names(d) \/ stays(d) => d \in D5)
  <2> HIDE DEF D1
  <2>1. \A d : names(d) \/ stays(d) => d.kind # "MODIFICATION"
    OBVIOUS
  <2> HIDE DEF names, stays
  <2> QED BY <1>4, <2>1, SuppressedKinds DEF DraftForm
<1> HIDE DEF D5
<1>6. \A d : names(d) => d \in D5 \ ContainerNoise(D5)
  <2>1. \A d : names(d) => d.kind = "REFACTORING"
    OBVIOUS
  <2> HIDE DEF D1, names, stays
  <2> QED BY <1>5, <2>1, SuppressedKinds
<1>7. RefineSuppressions(D) = D5 \ ContainerNoise(D5)
  BY Zenon DEF RefineSuppressions, D2, D3, D4, D5
<1> QED BY <1>1, <1>5, <1>6, <1>7

(* What ContainerNoise takes was told by what it leaves, or paired.         *)
LEMMA ContainersTellNothing ==
  ASSUME NEW F, NEW E, E = F \ ContainerNoise(F)
  PROVE  /\ \A g \in DOMAIN O : \A n \in Descendants(O, g) :
              /\ Deletion(g) \in F /\ IsToken(O, n) /\ n \in UnmatchedOld
              => n \in Subtrees(O, OldOf(E))
         /\ \A g \in DOMAIN N : \A n \in Descendants(N, g) :
              /\ Addition(g) \in F /\ IsToken(N, n) /\ n \in UnmatchedNew
              => n \in Subtrees(N, NewOf(E))
<1> DEFINE old == {d \in OfKind(F, "DELETION") : \E o \in d.old : O[o].type \in {"module", "block"}}
           new == {d \in OfKind(F, "ADDITION") : \E n \in d.new : N[n].type \in {"module", "block"}}
           others == F \ (old \cup new)
           toldOld == MatchedOld(pairs) \cup Subtrees(O, OldOf(others))
           toldNew == MatchedNew(pairs) \cup Subtrees(N, NewOf(others))
<1>1. /\ \A d \in ContainerNoise(F) : d \in old \cup new
      /\ \A d \in ContainerNoise(F) : d.kind = "DELETION" => \A o \in d.old : Contentful(O, o) \subseteq toldOld
      /\ \A d \in ContainerNoise(F) : d.kind = "ADDITION" => \A n \in d.new : Contentful(N, n) \subseteq toldNew
  BY DEF ContainerNoise, OfKind
<1>2. others \subseteq E
  BY <1>1
<1> HIDE DEF old, new, others
<1>3. /\ Subtrees(O, OldOf(others)) \subseteq Subtrees(O, OldOf(E))
      /\ Subtrees(N, NewOf(others)) \subseteq Subtrees(N, NewOf(E))
  <2>1. OldOf(others) \subseteq OldOf(E) /\ NewOf(others) \subseteq NewOf(E)
    BY <1>2 DEF OldOf, NewOf
  <2> HIDE DEF Descendants
  <2> QED BY <2>1 DEF Subtrees
<1>4. ASSUME NEW g \in DOMAIN O, NEW n \in Descendants(O, g),
             Deletion(g) \in F, IsToken(O, n), n \in UnmatchedOld
      PROVE  n \in Subtrees(O, OldOf(E))
  <2>1. Deletion(g).kind = "DELETION" /\ Deletion(g).old = {g}
    BY DraftFields
  <2>2. CASE Deletion(g) \in ContainerNoise(F)
    <3>1. n \in Contentful(O, g)
      BY <1>4 DEF Contentful, IsToken
    <3>2. n \in toldOld
      BY <1>1, <2>1, <2>2, <3>1
    <3>3. n \notin MatchedOld(pairs)
      BY <1>4 DEF UnmatchedOld, FreeOld
    <3> QED BY <1>3, <3>2, <3>3
  <2>3. CASE Deletion(g) \in E
    BY <2>1, <2>3 DEF Subtrees, OldOf
  <2> QED BY <1>4, <2>2, <2>3
<1>5. ASSUME NEW g \in DOMAIN N, NEW n \in Descendants(N, g),
             Addition(g) \in F, IsToken(N, n), n \in UnmatchedNew
      PROVE  n \in Subtrees(N, NewOf(E))
  <2>1. Addition(g).kind = "ADDITION" /\ Addition(g).new = {g}
    BY DraftFields
  <2>2. CASE Addition(g) \in ContainerNoise(F)
    <3>1. n \in Contentful(N, g)
      BY <1>5 DEF Contentful, IsToken
    <3>2. n \in toldNew
      BY <1>1, <2>1, <2>2, <3>1
    <3>3. n \notin MatchedNew(pairs)
      BY <1>5 DEF UnmatchedNew, FreeNew
    <3> QED BY <1>3, <3>2, <3>3
  <2>3. CASE Addition(g) \in E
    BY <2>1, <2>3 DEF Subtrees, NewOf
  <2> QED BY <1>5, <2>2, <2>3
<1> QED BY <1>4, <1>5

(* A token that is itself told as removed or added is no container.         *)
LEMMA TokensStay ==
  ASSUME NEW F, NEW E, E = F \ ContainerNoise(F)
  PROVE  /\ \A n \in DOMAIN O : IsToken(O, n) /\ Deletion(n) \in F => n \in Subtrees(O, OldOf(E))
         /\ \A n \in DOMAIN N : IsToken(N, n) /\ Addition(n) \in F => n \in Subtrees(N, NewOf(E))
<1>1. ASSUME NEW n \in DOMAIN O, IsToken(O, n), Deletion(n) \in F
      PROVE  n \in Subtrees(O, OldOf(E))
  <2>1. Deletion(n).kind = "DELETION" /\ Deletion(n).old = {n}
    BY DraftFields
  <2>2. Deletion(n) \notin ContainerNoise(F)
    BY <1>1, <2>1 DEF ContainerNoise, OfKind, IsToken
  <2> QED BY <1>1, <2>1, <2>2 DEF Subtrees, OldOf
<1>2. ASSUME NEW n \in DOMAIN N, IsToken(N, n), Addition(n) \in F
      PROVE  n \in Subtrees(N, NewOf(E))
  <2>1. Addition(n).kind = "ADDITION" /\ Addition(n).new = {n}
    BY DraftFields
  <2>2. Addition(n) \notin ContainerNoise(F)
    BY <1>2, <2>1 DEF ContainerNoise, OfKind, IsToken
  <2> QED BY <1>2, <2>1, <2>2 DEF Subtrees, NewOf
<1> QED BY <1>1, <1>2

(* What the script removed or added and the passes of promotion took away   *)
(* is inside a refactoring they made, or was edited in place.               *)
TakenUp(D, n) ==
  \E d \in D : d.kind = "REFACTORING" /\ \E o \in d.old \cap DOMAIN O : n = o \/ Below(n, o)

BroughtIn(D, n) ==
  \E d \in D : d.kind = "REFACTORING" /\ \E m \in d.new \cap DOMAIN N : n = m \/ Below(n, m)

LEMMA NamesAreTakenUp ==
  ASSUME Matching(pairs)
  PROVE  LET D == RenameUpdates(ScriptDrafts)
         IN /\ \A n \in Deletes : Deletion(n) \in D \/ TakenUp(D, n)
            /\ \A n \in Inserts : Addition(n) \in D \/ BroughtIn(D, n)
<1> DEFINE D == RenameUpdates(ScriptDrafts)
           R == {d \in Modified(ScriptDrafts) : \E o \in d.old, n \in d.new :
                   ExactRename(o, n) \/ SimilarBy(Half, o, n)}
           P == {[d EXCEPT !.kind = "REFACTORING"] : d \in R}
           M == NamePairs(R)
           apart(d) == d.old \cap MatchedOld(M) = {} /\ d.new \cap MatchedNew(M) = {}
<1>1. D = {d \in (ScriptDrafts \ R) \cup P : apart(d)}
  BY DEF RenameUpdates
<1>2. \A d \in R : /\ d = Draft(d.kind, d.old, d.new) /\ d.kind = "MODIFICATION"
                   /\ \E o \in DOMAIN O, n \in DOMAIN N :
                                /\ d.old = {o} /\ d.new = {n}
                                /\ O[o].type \in FunctionLike /\ N[n].type \in FunctionLike
  <2> SUFFICES ASSUME NEW d \in R
               PROVE  /\ d = Draft(d.kind, d.old, d.new) /\ d.kind = "MODIFICATION"
                      /\ \E o \in DOMAIN O, n \in DOMAIN N :
                                   /\ d.old = {o} /\ d.new = {n}
                                   /\ O[o].type \in FunctionLike /\ N[n].type \in FunctionLike
    OBVIOUS
  <2>1. d \in ScriptDrafts /\ d.kind = "MODIFICATION"
    BY DEF Modified, OfKind
  <2>2. PICK u \in Updates : d = Pairing("MODIFICATION", u)
    BY <2>1, DraftFields DEF ScriptDrafts
  <2>3. d.old = {u[1]} /\ d.new = {u[2]}
    BY <2>2, DraftFields
  <2>4. \E o \in d.old, n \in d.new : Renaming(o, n)
    BY DEF ExactRename, SimilarBy
  <2>5. Renaming(u[1], u[2])
    BY <2>3, <2>4
  <2>6. u[1] \in DOMAIN O /\ u[2] \in DOMAIN N
    BY DEF Updates, Matching, OldNode, NewNode
  <2> QED BY <2>1, <2>2, <2>3, <2>5, <2>6, DraftFields DEF Renaming
<1>3. /\ \A c \in MatchedOld(M) : O[c].type = "identifier" /\ \E d \in R : \E o \in d.old : Below(c, o)
      /\ \A c \in MatchedNew(M) : N[c].type = "identifier" /\ \E d \in R : \E o \in d.new : Below(c, o)
  <2> HIDE DEF R
  <2>1. \A c \in M : /\ O[c[1]].type = "identifier" /\ N[c[2]].type = "identifier"
                     /\ \E d \in R : \E o \in d.old, n \in d.new : Below(c[1], o) /\ Below(c[2], n)
    <3> SUFFICES ASSUME NEW c \in M
                 PROVE  /\ O[c[1]].type = "identifier" /\ N[c[2]].type = "identifier"
                        /\ \E d \in R : \E o \in d.old, n \in d.new : Below(c[1], o) /\ Below(c[2], n)
      OBVIOUS
    <3>1. PICK p \in UNION {d.old \X d.new : d \in R} :
            /\ c \in Children(O, p[1]) \X Children(N, p[2])
            /\ IsItsName(O, p[1], c[1]) /\ IsItsName(N, p[2], c[2])
      BY DEF NamePairs
    <3>2. PICK d \in R : p \in d.old \X d.new
      OBVIOUS
    <3>3. p[1] \in d.old /\ p[2] \in d.new /\ Below(c[1], p[1]) /\ Below(c[2], p[2])
      BY <3>1, <3>2 DEF Children
    <3> QED BY <3>1, <3>3 DEF IsItsName
  <2> HIDE DEF M
  <2> QED BY <2>1 DEF MatchedOld, MatchedNew
<1> HIDE DEF M
<1>4. ASSUME NEW d \in R
      PROVE  \E e \in D : e.kind = "REFACTORING" /\ e.old = d.old /\ e.new = d.new
  <2> DEFINE e == [d EXCEPT !.kind = "REFACTORING"]
  <2>1. e = Draft("REFACTORING", d.old, d.new)
    BY <1>2, Rekinded
  <2>2. e.kind = "REFACTORING" /\ e.old = d.old /\ e.new = d.new
    BY <2>1, DraftFields
  <2>3. e \in P
    OBVIOUS
  <2>4. apart(e)
    <3> HIDE DEF R
    <3>1. PICK o, n : /\ d.old = {o} /\ d.new = {n}
                      /\ O[o].type \in FunctionLike /\ N[n].type \in FunctionLike
      BY <1>2
    <3>2. O[o].type # "identifier" /\ N[n].type # "identifier"
      BY <3>1 DEF FunctionLike
    <3> HIDE DEF e
    <3> QED BY <1>3, <2>2, <3>1, <3>2
  <2> HIDE DEF e, P, R
  <2> QED BY <1>1, <2>2, <2>3, <2>4
<1>5. ASSUME NEW n \in Deletes, n \notin MatchedOld(M) PROVE Deletion(n) \in D
  <2>1. Deletion(n) \in ScriptDrafts /\ Deletion(n).kind = "DELETION" /\ apart(Deletion(n))
    BY <1>5, DraftFields DEF ScriptDrafts
  <2>2. Deletion(n) \notin R
    BY <1>2, <2>1
  <2> HIDE DEF R, P, D, apart
  <2> QED BY <1>1, <2>1, <2>2
<1>6. ASSUME NEW n \in Inserts, n \notin MatchedNew(M) PROVE Addition(n) \in D
  <2>1. Addition(n) \in ScriptDrafts /\ Addition(n).kind = "ADDITION" /\ apart(Addition(n))
    BY <1>6, DraftFields DEF ScriptDrafts
  <2>2. Addition(n) \notin R
    BY <1>2, <2>1
  <2> HIDE DEF R, P, D, apart
  <2> QED BY <1>1, <2>1, <2>2
<1> HIDE DEF D, R
<1>7. ASSUME NEW n \in MatchedOld(M) PROVE TakenUp(D, n)
  BY <1>2, <1>3, <1>4 DEF TakenUp
<1>8. ASSUME NEW n \in MatchedNew(M) PROVE BroughtIn(D, n)
  BY <1>2, <1>3, <1>4 DEF BroughtIn
<1> QED BY <1>5, <1>6, <1>7, <1>8 DEF D

LEMMA ChangesAreTakenUp ==
  ASSUME Matching(pairs), NEW order
  PROVE  LET D == InsideMoves(RefinePromotions(ScriptDrafts), order)
         IN /\ \A n \in Deletes : \/ Deletion(n) \in D \/ TakenUp(D, n)
                                  \/ n \in MatchedOld(InPlace)
            /\ \A n \in Inserts : \/ Addition(n) \in D \/ BroughtIn(D, n)
                                  \/ n \in MatchedNew(InPlace)
<1> DEFINE D1 == RenameUpdates(ScriptDrafts)
           D2 == ParentStatements(D1)
           D3 == SameIdNamedRenames(D2)
           D4 == ImportedRenames(D3)
           D5 == InsideMoves(D4, order)
<1>1. /\ \A n \in Deletes : Deletion(n) \in D1 \/ TakenUp(D1, n)
      /\ \A n \in Inserts : Addition(n) \in D1 \/ BroughtIn(D1, n)
  BY NamesAreTakenUp
<1>2. /\ \A d \in D1 : d.kind = "REFACTORING" => d \in D2
      /\ \A n : Deletion(n) \in D1 => Deletion(n) \in D2 \/ n \in MatchedOld(InPlace)
      /\ \A n : Addition(n) \in D1 => Addition(n) \in D2 \/ n \in MatchedNew(InPlace)
  <2> DEFINE E == EditedInPlace(D1)
             gone == {Deletion(q[1]) : q \in E} \cup {Addition(q[2]) : q \in E}
  <2>1. D1 \ gone \subseteq D2
    BY DEF ParentStatements
  <2>2. /\ \A n : Deletion(n) \in gone => n \in MatchedOld(E)
        /\ \A n : Addition(n) \in gone => n \in MatchedNew(E)
        /\ \A d \in gone : d.kind \in {"DELETION", "ADDITION"}
    <3> HIDE DEF E
    <3>1. ASSUME NEW n, Deletion(n) \in gone PROVE n \in MatchedOld(E)
      <4>1. Deletion(n).kind = "DELETION" /\ Deletion(n).old = {n}
        BY DraftFields
      <4>2. PICK q \in E : Deletion(n) = Deletion(q[1]) \/ Deletion(n) = Addition(q[2])
        BY <3>1
      <4>3. n = q[1]
        BY <4>1, <4>2, DraftFields
      <4> QED BY <4>3 DEF MatchedOld
    <3>2. ASSUME NEW n, Addition(n) \in gone PROVE n \in MatchedNew(E)
      <4>1. Addition(n).kind = "ADDITION" /\ Addition(n).new = {n}
        BY DraftFields
      <4>2. PICK q \in E : Addition(n) = Deletion(q[1]) \/ Addition(n) = Addition(q[2])
        BY <3>2
      <4>3. n = q[2]
        BY <4>1, <4>2, DraftFields
      <4> QED BY <4>3 DEF MatchedNew
    <3>3. \A d \in gone : d.kind \in {"DELETION", "ADDITION"}
      BY DraftFields
    <3> QED BY <3>1, <3>2, <3>3
  <2> HIDE DEF gone, E
  <2>3. E = InPlace
    BY DEF E, InPlace
  <2> QED BY <2>1, <2>2, <2>3
<1> HIDE DEF D1, D2
<1>3. /\ \A d \in D2 : d.kind = "REFACTORING" => d \in D3
      /\ \A n : Deletion(n) \in D2 => Deletion(n) \in D3 \/ Pairing("REFACTORING", <<n, n>>) \in D3
      /\ \A n : Addition(n) \in D2 => Addition(n) \in D3 \/ Pairing("REFACTORING", <<n, n>>) \in D3
  <2> DEFINE R == {n \in DeletedNodes(D2) \cap AddedNodes(D2) :
                     Renamed(n) /\ Pairing("MOVE", <<n, n>>) \notin D2}
             gone == {Deletion(n) : n \in R} \cup {Addition(n) : n \in R}
  <2>1. D2 \ gone \subseteq D3 /\ \A n \in R : Pairing("REFACTORING", <<n, n>>) \in D3
    BY DEF SameIdNamedRenames
  <2> HIDE DEF R
  <2>2. ASSUME NEW n, Deletion(n) \in gone \/ Addition(n) \in gone PROVE n \in R
    <3>1. /\ Deletion(n).kind = "DELETION" /\ Deletion(n).old = {n}
          /\ Addition(n).kind = "ADDITION" /\ Addition(n).new = {n}
      BY DraftFields
    <3>2. PICK r \in R : \/ Deletion(n) = Deletion(r) \/ Deletion(n) = Addition(r)
                         \/ Addition(n) = Deletion(r) \/ Addition(n) = Addition(r)
      BY <2>2
    <3>3. n = r
      BY <3>1, <3>2, DraftFields
    <3> QED BY <3>3
  <2>3. \A d \in gone : d.kind \in {"DELETION", "ADDITION"}
    BY DraftFields
  <2> HIDE DEF gone, D3
  <2> QED BY <2>1, <2>2, <2>3
<1> HIDE DEF D3
<1>4. D3 \subseteq D5
  BY DEF ImportedRenames, InsideMoves
<1>5. ASSUME NEW n, Pairing("REFACTORING", <<n, n>>) \in D5
      PROVE  (n \in DOMAIN O => TakenUp(D5, n)) /\ (n \in DOMAIN N => BroughtIn(D5, n))
  <2> HIDE DEF D5
  <2> DEFINE e == Pairing("REFACTORING", <<n, n>>)
  <2>1. e.kind = "REFACTORING" /\ e.old = {n} /\ e.new = {n}
    BY DraftFields
  <2>2. e \in D5
    BY <1>5
  <2> HIDE DEF e
  <2> QED BY <2>1, <2>2 DEF TakenUp, BroughtIn
<1>6. \A n : /\ TakenUp(D1, n) => TakenUp(D5, n)
             /\ BroughtIn(D1, n) => BroughtIn(D5, n)
  BY <1>2, <1>3, <1>4 DEF TakenUp, BroughtIn
<1>7. D5 = InsideMoves(RefinePromotions(ScriptDrafts), order)
  BY DEF RefinePromotions, D1, D2, D3
<1> HIDE DEF D4, D5
<1>10. Deletes \subseteq DOMAIN O /\ Inserts \subseteq DOMAIN N
  BY DEF Deletes, Inserts, UnmatchedOld, UnmatchedNew, FreeOld, FreeNew, OldNode, NewNode
<1>8. \A n \in Deletes : \/ Deletion(n) \in D5 \/ TakenUp(D5, n) \/ n \in MatchedOld(InPlace)
  BY <1>1, <1>2, <1>3, <1>4, <1>5, <1>6, <1>10
<1>9. \A n \in Inserts : \/ Addition(n) \in D5 \/ BroughtIn(D5, n) \/ n \in MatchedNew(InPlace)
  BY <1>1, <1>2, <1>3, <1>4, <1>5, <1>6, <1>10
<1> QED BY <1>7, <1>8, <1>9, Zenon

LEMMA OldTokensGo ==
  ASSUME Inputs, Matching(pairs),
         NEW order \in SetToSeqs(MovedEntities(RefinePromotions(ScriptDrafts))),
         NEW n \in UnmatchedOld \ MovedOld, IsToken(O, n)
  PROVE  LET E == RefineSuppressions(InsideMoves(RefinePromotions(ScriptDrafts), order))
         IN \/ n \in Subtrees(O, OldOf(E))
            \/ \E r \in Deletes, a \in Inserts :
                 /\ IsNamedEntity(O[r]) /\ n \in Subtrees(O, {r})
                 /\ Token(O, r) = Token(N, a)
            \/ n \in Subtrees(O, MatchedOld(InPlace))
<1> DEFINE D == InsideMoves(RefinePromotions(ScriptDrafts), order)
           D1 == D \ SameLabelDeletes(D)
           E == RefineSuppressions(D)
<1>1. DraftForm(D) /\ Keeps(ScriptDrafts, D) /\ MakesNoMove(ScriptDrafts, D)
  BY ScriptForm, RefinedBeforeNoise, RefinementMakesNoMove DEF Promotes, Keeps
<1>2. PICK r \in Deletes : n = r \/ Below(n, r)
  <2>1. n \in Subtrees(O, Deletes \cup MatchedOld(Moves))
    BY GoneIsShown
  <2>2. PICK r \in Deletes \cup MatchedOld(Moves) : n = r \/ n \in Descendants(O, r)
    BY <2>1 DEF Subtrees
  <2>3. r \notin MatchedOld(Moves)
    <3> SUFFICES ASSUME NEW p \in Moves, r = p[1] PROVE FALSE
      BY DEF MatchedOld
    <3>1. p[1] # n
      BY DEF Moves, UnmatchedOld, FreeOld, MatchedOld
    <3> QED BY <2>2, <3>1 DEF MovedOld
  <2> QED BY <2>2, <2>3 DEF Descendants
<1>3. /\ n \in DOMAIN O /\ DOMAIN O \subseteq Seq(Nat) /\ Deletes \subseteq DOMAIN O
      /\ Deletes \cap MovedOld = {} /\ n \in UnmatchedOld
  BY TreeAssumption DEF Inputs, Deletes, UnmatchedOld, FreeOld, OldNode
<1>4. \/ Deletion(r) \in D \/ TakenUp(D, r) \/ r \in MatchedOld(InPlace)
  BY ChangesAreTakenUp
<1>5. PICK F \in SUBSET D1 :
        /\ E = F \ ContainerNoise(F) /\ DraftForm(D1)
        /\ \A d \in D : d.kind = "REFACTORING" => d \in E
        /\ \A d \in D1 : d.kind \in {"DELETION", "ADDITION"} /\ d \notin DescendantNoise(D1) => d \in F
  <2> HIDE DEF D
  <2> QED BY <1>1, WhatStays
<1> HIDE DEF D, E
<1>6. CASE r \in MatchedOld(InPlace)
  BY <1>2, <1>3, <1>6 DEF Subtrees, Descendants, E, D
<1>7. CASE TakenUp(D, r)
  <2>1. PICK d \in D : d.kind = "REFACTORING" /\ \E o \in d.old \cap DOMAIN O : r = o \/ Below(r, o)
    BY <1>7 DEF TakenUp
  <2>2. PICK o \in d.old \cap DOMAIN O : r = o \/ Below(r, o)
    BY <2>1
  <2>3. o \in OldOf(E)
    BY <1>5, <2>1, <2>2 DEF OldOf
  <2>4. n = o \/ Below(n, o)
    BY <1>2, <1>3, <2>2, BelowTransitive
  <2>5. n \in Subtrees(O, OldOf(E))
    BY <1>3, <2>3, <2>4 DEF Subtrees, Descendants
  <2> QED BY <2>5 DEF E, D
<1>8. CASE Deletion(r) \in SameLabelDeletes(D)
  <2>1. /\ IsNamedEntity(O[r])
        /\ \E a \in AddedNodes(D) : Token(O, r) = Token(N, a)
    <3> DEFINE added == {Token(N, a) : a \in {a \in AddedNodes(D) : IsNamedEntity(N[a])}}
    <3>1. PICK m \in {m \in DeletedNodes(D) : IsNamedEntity(O[m]) /\ Token(O, m) \in added} :
            Deletion(r) = Deletion(m)
      BY <1>8 DEF SameLabelDeletes
    <3> HIDE DEF added
    <3>2. Deletion(r).old = {r} /\ Deletion(m).old = {m}
      BY DraftFields
    <3>3. r = m
      BY <3>1, <3>2
    <3> USE DEF added
    <3> QED BY <3>1, <3>3
  <2>2. AddedNodes(D) \subseteq Inserts
    BY <1>1, OnlyTheUnmatched
  <2>3. n \in Subtrees(O, {r})
    BY <1>2, <1>3 DEF Subtrees, Descendants
  <2> QED BY <2>1, <2>2, <2>3
<1>9. CASE Deletion(r) \in D1
  <2> DEFINE G == {g \in DeletedNodes(D1) : g = r \/ (Below(r, g) /\ O[g].type # "module")}
  <2>1. /\ DeletedNodes(D1) \subseteq Deletes
        /\ \A g \in DeletedNodes(D1) : Deletion(g) \in D1
        /\ r \in DeletedNodes(D1)
    <3>1. Keeps(ScriptDrafts, D1)
      BY <1>1, <1>5 DEF Keeps
    <3>2. \A d \in D1 : d.kind = "DELETION" => \E m \in Deletes : d = Deletion(m)
      BY <3>1, ScriptForm DEF Keeps
    <3>3. \A g \in DeletedNodes(D1) : Deletion(g) \in D1
      <4> SUFFICES ASSUME NEW g, NEW d \in D1, d.kind = "DELETION", g \in d.old
                   PROVE  Deletion(g) \in D1
        BY DEF DeletedNodes, OldOf, OfKind
      <4> QED BY <3>2, DraftFields
    <3>4. r \in DeletedNodes(D1)
      BY <1>9, DraftFields DEF DeletedNodes, OldOf, OfKind
    <3> QED BY <3>1, <3>3, <3>4, OnlyTheUnmatched
  <2>2. PICK g \in G : \A k \in G : Len(g) <= Len(k)
    <3>1. G \in SUBSET Seq(Nat) /\ r \in G
      BY <1>3, <2>1
    <3> HIDE DEF G
    <3> QED BY <3>1, Highest
  <2>3. g \in Deletes /\ g \in DOMAIN O /\ Deletion(g) \in D1 /\ r \in DOMAIN O
    BY <1>3, <2>1
  <2>4. Deletion(g).kind = "DELETION" /\ Deletion(g).old = {g}
    BY DraftFields
  <2>5. ASSUME NEW h \in Roots(O, DeletedNodes(D1)), Below(g, h) PROVE FALSE
    <3>1. h \in DeletedNodes(D1) /\ O[h].type # "module" /\ h \in Seq(Nat) /\ g \in Seq(Nat) /\ r \in Seq(Nat)
      BY <1>3, <2>1, <2>3 DEF Roots
    <3>2. Below(r, h)
      BY <2>5, <3>1, BelowTransitive
    <3>3. Len(g) <= Len(h)
      BY <2>2, <3>1, <3>2
    <3> QED BY <2>5, <3>1, <3>3, BelowShorter
  <2>6. ASSUME NEW h \in Roots(O, OldOf(OfKind(D1, "MOVE"))), Below(g, h) PROVE FALSE
    <3>1. PICK d \in D1 : d.kind = "MOVE" /\ h \in d.old
      BY DEF Roots, OldOf, OfKind
    <3>2. d \in ScriptDrafts
      BY <1>1, <3>1 DEF MakesNoMove
    <3>3. \E m \in Moves : d = Pairing("MOVE", m)
      BY <3>1, <3>2, DraftFields DEF ScriptDrafts
    <3>4. \E m \in Moves : h = m[1]
      BY <3>1, <3>3, DraftFields
    <3> QED BY <1>3, <2>3, <2>6, <3>4 DEF MovedOld, Descendants
  <2>7. Deletion(g) \notin DescendantNoise(D1)
    <3> HIDE DEF D1
    <3> QED BY <2>3, <2>4, <2>5, <2>6, RidesAlong DEF Inside
  <2>8. Deletion(g) \in F
    BY <1>5, <2>3, <2>4, <2>7
  <2>9. n = g \/ n \in Descendants(O, g)
    BY <1>2, <1>3, <2>2, <2>3, BelowTransitive DEF Descendants
  <2>10. n \in Subtrees(O, OldOf(E))
    <3> HIDE DEF D1
    <3>1. E = F \ ContainerNoise(F)
      BY <1>5
    <3>2. CASE n = g
      BY <1>3, <2>8, <3>1, <3>2, TokensStay
    <3>3. CASE n \in Descendants(O, g)
      BY <1>3, <2>3, <2>8, <3>1, <3>3, ContainersTellNothing
    <3> QED BY <2>9, <3>2, <3>3
  <2> QED BY <2>10 DEF E, D
<1> QED BY <1>4, <1>6, <1>7, <1>8, <1>9
LEMMA NewTokensCome ==
  ASSUME Inputs, Matching(pairs),
         NEW order \in SetToSeqs(MovedEntities(RefinePromotions(ScriptDrafts))),
         NEW n \in UnmatchedNew \ MovedNew, IsToken(N, n)
  PROVE  LET E == RefineSuppressions(InsideMoves(RefinePromotions(ScriptDrafts), order))
         IN \/ n \in Subtrees(N, NewOf(E))
            \/ n \in Subtrees(N, MatchedNew(InPlace))
<1> DEFINE D == InsideMoves(RefinePromotions(ScriptDrafts), order)
           D1 == D \ SameLabelDeletes(D)
           E == RefineSuppressions(D)
<1>1. DraftForm(D) /\ Keeps(ScriptDrafts, D) /\ MakesNoMove(ScriptDrafts, D)
  BY ScriptForm, RefinedBeforeNoise, RefinementMakesNoMove DEF Promotes, Keeps
<1>2. PICK r \in Inserts : n = r \/ Below(n, r)
  <2>1. n \in Subtrees(N, Inserts \cup MatchedNew(Moves))
    BY CameIsShown
  <2>2. PICK r \in Inserts \cup MatchedNew(Moves) : n = r \/ n \in Descendants(N, r)
    BY <2>1 DEF Subtrees
  <2>3. r \notin MatchedNew(Moves)
    <3> SUFFICES ASSUME NEW p \in Moves, r = p[2] PROVE FALSE
      BY DEF MatchedNew
    <3>1. p[2] # n
      BY DEF Moves, UnmatchedNew, FreeNew, MatchedNew
    <3> QED BY <2>2, <3>1 DEF MovedNew
  <2> QED BY <2>2, <2>3 DEF Descendants
<1>3. /\ n \in DOMAIN N /\ DOMAIN N \subseteq Seq(Nat) /\ Inserts \subseteq DOMAIN N
      /\ Inserts \cap MovedNew = {} /\ n \in UnmatchedNew
  BY TreeAssumption DEF Inputs, Inserts, UnmatchedNew, FreeNew, NewNode
<1>4. \/ Addition(r) \in D \/ BroughtIn(D, r) \/ r \in MatchedNew(InPlace)
  BY ChangesAreTakenUp
<1>5. PICK F \in SUBSET D1 :
        /\ E = F \ ContainerNoise(F) /\ DraftForm(D1)
        /\ \A d \in D : d.kind = "REFACTORING" => d \in E
        /\ \A d \in D1 : d.kind \in {"DELETION", "ADDITION"} /\ d \notin DescendantNoise(D1) => d \in F
  <2> HIDE DEF D
  <2> QED BY <1>1, WhatStays
<1> HIDE DEF D, E
<1>9. Addition(r) \in D => Addition(r) \in D1
  BY <1>1, SuppressedKinds, DraftFields
<1>6. CASE r \in MatchedNew(InPlace)
  BY <1>2, <1>3, <1>6 DEF Subtrees, Descendants, E, D
<1>7. CASE BroughtIn(D, r)
  <2>1. PICK d \in D : d.kind = "REFACTORING" /\ \E o \in d.new \cap DOMAIN N : r = o \/ Below(r, o)
    BY <1>7 DEF BroughtIn
  <2>2. PICK o \in d.new \cap DOMAIN N : r = o \/ Below(r, o)
    BY <2>1
  <2>3. o \in NewOf(E)
    BY <1>5, <2>1, <2>2 DEF NewOf
  <2>4. n = o \/ Below(n, o)
    BY <1>2, <1>3, <2>2, BelowTransitive
  <2>5. n \in Subtrees(N, NewOf(E))
    BY <1>3, <2>3, <2>4 DEF Subtrees, Descendants
  <2> QED BY <2>5 DEF E, D
<1>8. CASE Addition(r) \in D
  <2> DEFINE G == {g \in AddedNodes(D1) : g = r \/ (Below(r, g) /\ N[g].type # "module")}
  <2>1. /\ AddedNodes(D1) \subseteq Inserts
        /\ \A g \in AddedNodes(D1) : Addition(g) \in D1
        /\ r \in AddedNodes(D1)
    <3>1. Keeps(ScriptDrafts, D1)
      BY <1>1, <1>5 DEF Keeps
    <3>2. \A d \in D1 : d.kind = "ADDITION" => \E m \in Inserts : d = Addition(m)
      BY <3>1, ScriptForm DEF Keeps
    <3>3. \A g \in AddedNodes(D1) : Addition(g) \in D1
      <4> SUFFICES ASSUME NEW g, NEW d \in D1, d.kind = "ADDITION", g \in d.new
                   PROVE  Addition(g) \in D1
        BY DEF AddedNodes, NewOf, OfKind
      <4> QED BY <3>2, DraftFields
    <3>4. r \in AddedNodes(D1)
      BY <1>8, <1>9, DraftFields DEF AddedNodes, NewOf, OfKind
    <3> QED BY <3>1, <3>3, <3>4, OnlyTheUnmatched
  <2>2. PICK g \in G : \A k \in G : Len(g) <= Len(k)
    <3>1. G \in SUBSET Seq(Nat) /\ r \in G
      BY <1>3, <2>1
    <3> HIDE DEF G
    <3> QED BY <3>1, Highest
  <2>3. g \in Inserts /\ g \in DOMAIN N /\ Addition(g) \in D1 /\ r \in DOMAIN N
    BY <1>3, <2>1
  <2>4. Addition(g).kind = "ADDITION" /\ Addition(g).new = {g}
    BY DraftFields
  <2>5. ASSUME NEW h \in Roots(N, AddedNodes(D1)), Below(g, h) PROVE FALSE
    <3>1. h \in AddedNodes(D1) /\ N[h].type # "module" /\ h \in Seq(Nat) /\ g \in Seq(Nat) /\ r \in Seq(Nat)
      BY <1>3, <2>1, <2>3 DEF Roots
    <3>2. Below(r, h)
      BY <2>5, <3>1, BelowTransitive
    <3>3. Len(g) <= Len(h)
      BY <2>2, <3>1, <3>2
    <3> QED BY <2>5, <3>1, <3>3, BelowShorter
  <2>6. ASSUME NEW h \in Roots(N, NewOf(OfKind(D1, "MOVE"))), Below(g, h) PROVE FALSE
    <3>1. PICK d \in D1 : d.kind = "MOVE" /\ h \in d.new
      BY DEF Roots, NewOf, OfKind
    <3>2. d \in ScriptDrafts
      BY <1>1, <3>1 DEF MakesNoMove
    <3>3. \E m \in Moves : d = Pairing("MOVE", m)
      BY <3>1, <3>2, DraftFields DEF ScriptDrafts
    <3>4. \E m \in Moves : h = m[2]
      BY <3>1, <3>3, DraftFields
    <3> QED BY <1>3, <2>3, <2>6, <3>4 DEF MovedNew, Descendants
  <2>7. Addition(g) \notin DescendantNoise(D1)
    <3> HIDE DEF D1
    <3> QED BY <2>3, <2>4, <2>5, <2>6, RidesAlong DEF Inside
  <2>8. Addition(g) \in F
    BY <1>5, <2>3, <2>4, <2>7
  <2>9. n = g \/ n \in Descendants(N, g)
    BY <1>2, <1>3, <2>2, <2>3, BelowTransitive DEF Descendants
  <2>10. n \in Subtrees(N, NewOf(E))
    <3> HIDE DEF D1
    <3>1. E = F \ ContainerNoise(F)
      BY <1>5
    <3>2. CASE n = g
      BY <1>3, <2>8, <3>1, <3>2, TokensStay
    <3>3. CASE n \in Descendants(N, g)
      BY <1>3, <2>3, <2>8, <3>1, <3>3, ContainersTellNothing
    <3> QED BY <2>9, <3>2, <3>3
  <2> QED BY <2>10 DEF E, D
<1> QED BY <1>4, <1>6, <1>7, <1>8

LEMMA TokensStayPut ==
  ASSUME UNCHANGED draftVars
  PROVE  TokensGoForAReason' = TokensGoForAReason
<1>1. /\ O' = O /\ N' = N /\ pairs' = pairs /\ stage' = stage /\ drafts' = drafts
  BY DEF draftVars, vars
<1>2. /\ Deletes' = Deletes /\ Inserts' = Inserts
      /\ UnmatchedOld' = UnmatchedOld /\ UnmatchedNew' = UnmatchedNew
      /\ MovedOld' = MovedOld /\ MovedNew' = MovedNew /\ InPlace' = InPlace
  BY <1>1, ScriptStays, InPlaceStays
<1> QED BY <1>1, <1>2 DEF TokensGoForAReason, Refined

LEMMA StepTokens ==
  ASSUME IInv, Underway, TokensGoForAReason, [FinalizationNext]_draftVars
  PROVE  TokensGoForAReason'
<1>1. CASE UNCHANGED draftVars
  BY <1>1, TokensStayPut
<1>2. CASE Match
  <2>1. CASE stage = "script"
    BY <1>2, <2>1 DEF Match, TokensGoForAReason, Refined
  <2>2. CASE stage # "script"
    BY <1>1, <1>2, <2>2, MatcherRests DEF Underway
  <2> QED BY <2>1, <2>2
<1>3. CASE DeriveScript \/ Finalize
  BY <1>3 DEF DeriveScript, Finalize, Take, TokensGoForAReason, Refined
<1>4. CASE Refine
  <2>1. stage = "drafted" /\ stage' = "refined" /\ UNCHANGED vars
    BY <1>4 DEF Refine, Take
  <2>2. PICK order \in SetToSeqs(MovedEntities(RefinePromotions(drafts))) :
          drafts' = RefineSuppressions(InsideMoves(RefinePromotions(drafts), order))
    BY <1>4 DEF Refine, Take
  <2>3. drafts = ScriptDrafts /\ Inputs /\ Matching(pairs)
    BY <2>1, Hypotheses DEF Underway
  <2>4. /\ O' = O /\ N' = N /\ Deletes' = Deletes /\ Inserts' = Inserts
        /\ UnmatchedOld' = UnmatchedOld /\ UnmatchedNew' = UnmatchedNew
        /\ MovedOld' = MovedOld /\ MovedNew' = MovedNew /\ InPlace' = InPlace
    BY <2>1, ScriptStays, InPlaceStays DEF vars
  <2>5. ASSUME NEW n \in UnmatchedOld \ MovedOld, IsToken(O, n)
        PROVE  \/ n \in Subtrees(O, OldOf(drafts'))
               \/ \E r \in Deletes, a \in Inserts :
                    /\ IsNamedEntity(O[r]) /\ n \in Subtrees(O, {r})
                    /\ Token(O, r) = Token(N, a)
               \/ n \in Subtrees(O, MatchedOld(InPlace))
    BY <2>2, <2>3, <2>5, OldTokensGo
  <2>6. ASSUME NEW n \in UnmatchedNew \ MovedNew, IsToken(N, n)
        PROVE  n \in Subtrees(N, NewOf(drafts')) \/ n \in Subtrees(N, MatchedNew(InPlace))
    BY <2>2, <2>3, <2>6, NewTokensCome
  <2> QED BY <2>4, <2>5, <2>6 DEF TokensGoForAReason
<1> QED BY <1>1, <1>2, <1>3, <1>4 DEF FinalizationNext, RefinementNext

(* For any two trees: a token that is gone is in the old part of a draft    *)
(* the refinement leaves, unless it moved along, its entity was added anew  *)
(* under the same name, or it was replaced in place; and a token that came  *)
(* likewise, whatever the passes promote, fold and drop.                    *)
THEOREM TokensGo == FinalizationSpec => []TokensGoForAReason
<1>1. RefinementInit => TokensGoForAReason
  BY DEF RefinementInit, TokensGoForAReason, Refined
<1>2. IInv /\ Underway /\ TokensGoForAReason /\ [FinalizationNext]_draftVars => TokensGoForAReason'
  BY StepTokens
<1>3. Spec => []IInv
  BY InitIInv, StepIInv, PTL DEF Spec
<1>4. FinalizationSpec => []Underway
  BY InitUnderway, StepUnderway, PTL DEF FinalizationSpec
<1> QED BY <1>1, <1>2, <1>3, <1>4, ReviewKeepsTheMatching, PTL DEF FinalizationSpec
=============================================================================
